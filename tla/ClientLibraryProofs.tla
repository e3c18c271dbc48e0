------------------------ MODULE ClientLibraryProofs ------------------------
(***************************************************************************)
(* Theorems about ClientLibrary.tla, for any number of threads, contexts,  *)
(* handles and events.                                                     *)
(***************************************************************************)
EXTENDS ClientLibrary, TLAPS

-----------------------------------------------------------------------------
(***************************************************************************)
(* Who has the mutex of a context.                                         *)
(***************************************************************************)
Holding == {"recv", "wait", "compare"}

\* A thread that holds has the mutex of its context, whatever else happens.
HoldersHave == \A t \in Threads : pc[t] \in Holding => ctx[t] \in Contexts /\ mMutex[ctx[t]] = t

MutexHeld ==
  \A c \in Contexts \ forgotten :
    mMutex[c] # NoThread => ctx[mMutex[c]] = c /\ pc[mMutex[c]] \in Holding

CallsKnown ==
  \A t \in Threads :
    /\ pc[t] # "idle" => ctx[t] \in Contexts
    /\ pc[t] = "lock" => name[t] \in HandleCalls \cup ContextCalls
    /\ pc[t] = "recv" => ask[t] \notin {"WAIT", "none"}

\* A context nobody has established has nothing.
Untouched(c) ==
  /\ c \notin contextMapList /\ requests[c] = <<>> /\ replies[c] = <<>>
  /\ cardsList[c] = {} /\ channelMapList[c] = {} /\ waiting[c] = 0
  /\ \A t \in Threads : ctx[t] # c
NewUntouched == \A c \in Contexts : server[c] = "new" => Untouched(c)

\* An event that is still to be counted.
CountRoom == ehPc = "count" => reader.counter < MaxEvents

MutexInv == TypeOK /\ HoldersHave /\ MutexHeld /\ CallsKnown /\ CountRoom
-----------------------------------------------------------------------------
(***************************************************************************)
(* What is on the way for a context.  An answer of pcscd is real; a note   *)
(* is a signal, the answer to the end of a wait, or the question for it.   *)
(***************************************************************************)
Real == Commands \ {"WAIT", "STOP"}
IsReal(r) == r.command \in Real
Told(m) == m.kind \in Real

\* The thread that has the mutex of a context waits for the answer to a command.
Awaits(c, command) ==
  /\ mMutex[c] \in Threads
  /\ ctx[mMutex[c]] = c /\ pc[mMutex[c]] = "recv" /\ ask[mMutex[c]] = command

\* One real command at most is on the way, or its answer, and its thread waits for it.
OneAnswer(c) ==
  /\ \A i \in DOMAIN requests[c] : IsReal(requests[c][i]) =>
       /\ server[c] # "closed"
       /\ \A j \in DOMAIN requests[c] : IsReal(requests[c][j]) => i = j
       /\ \A j \in DOMAIN replies[c] : ~Told(replies[c][j])
       /\ Awaits(c, requests[c][i].command)
       /\ hCard[mMutex[c]] = requests[c][i].handle
  /\ \A i \in DOMAIN replies[c] : Told(replies[c][i]) =>
       /\ \A j \in DOMAIN replies[c] : Told(replies[c][j]) => i = j
       /\ Awaits(c, replies[c][i].kind)

\* The same of the end of a wait and of the signals.
OneNote(c) ==
  /\ \A i \in DOMAIN requests[c] : requests[c][i].command = "STOP" =>
       /\ server[c] # "closed"
       /\ \A j \in DOMAIN requests[c] : requests[c][j].command = "STOP" => i = j
       /\ \A j \in DOMAIN replies[c] : replies[c][j].kind # "WAIT"
       /\ Awaits(c, "STOP")
  /\ \A i \in DOMAIN replies[c] : replies[c][i].kind = "WAIT" =>
       /\ \A j \in DOMAIN replies[c] : replies[c][j].kind = "WAIT" => i = j
       /\ mMutex[c] \in Threads /\ ctx[mMutex[c]] = c
       /\ pc[mMutex[c]] = "wait" \/ (pc[mMutex[c]] = "recv" /\ ask[mMutex[c]] = "STOP")

NoStop == \A c \in Contexts : \A i \in DOMAIN replies[c] : replies[c][i].kind # "STOP"

WireInv ==
  /\ \A c \in Contexts \ mismatched : OneAnswer(c)
  /\ \A c \in Contexts \ strayed : OneNote(c)
  /\ NoStop /\ AnswersMatch /\ NewUntouched
-----------------------------------------------------------------------------
(***************************************************************************)
(* The handles of a context at both ends.                                  *)
(***************************************************************************)
Moves(m) == m.rv = "SUCCESS" /\ m.kind \in {"CONNECT", "DISCONNECT"}

\* pcscd is ahead of the library by the answer that is on the way.
Agree(c) ==
  /\ (\A i \in DOMAIN replies[c] : ~Moves(replies[c][i])) => cardsList[c] = channelMapList[c]
  /\ \A i \in DOMAIN replies[c] : Moves(replies[c][i]) =>
       cardsList[c] = IF replies[c][i].kind = "CONNECT"
                      THEN channelMapList[c] \cup {replies[c][i].handle}
                      ELSE channelMapList[c] \ {hCard[mMutex[c]]}

AgreeInv == \A c \in contextMapList \ mismatched : server[c] = "open" => Agree(c)

CLInv == MutexInv /\ WireInv /\ AgreeInv
-----------------------------------------------------------------------------
(* Sequences.                                                              *)

LEMMA AppendAt ==
  ASSUME NEW S, NEW s \in Seq(S), NEW x \in S
  PROVE  /\ Append(s, x) \in Seq(S)
         /\ DOMAIN s = 1..Len(s) /\ DOMAIN Append(s, x) = 1..Len(s) + 1
         /\ \A i \in DOMAIN s : Append(s, x)[i] = s[i]
         /\ Append(s, x)[Len(s) + 1] = x
OBVIOUS

LEMMA TailAt ==
  ASSUME NEW S, NEW s \in Seq(S), s # <<>>
  PROVE  /\ Head(s) = s[1] /\ 1 \in DOMAIN s /\ Head(s) \in S
         /\ Tail(s) \in Seq(S) /\ DOMAIN Tail(s) = 1..Len(s) - 1
         /\ \A i \in DOMAIN Tail(s) : i + 1 \in DOMAIN s /\ Tail(s)[i] = s[i + 1] /\ i \in Nat \ {0}
OBVIOUS

LEMMA EmptyAt ==
  ASSUME NEW S
  PROVE  /\ <<>> \in Seq(S) /\ DOMAIN <<>> = {}
         /\ \A s \in Seq(S) : DOMAIN s = {} => s = <<>>
OBVIOUS

\* n times the same message at the end.
LEMMA RepeatAt ==
  ASSUME NEW S, NEW s \in Seq(S), NEW x \in S, NEW n \in Nat,
         NEW r, r = s \o [i \in 1..n |-> x]
  PROVE  /\ r \in Seq(S) /\ DOMAIN r = 1..Len(s) + n /\ DOMAIN s = 1..Len(s)
         /\ \A i \in DOMAIN s : r[i] = s[i]
         /\ \A i \in DOMAIN r \ DOMAIN s : r[i] = x
         /\ n = 0 => r = s
<1> DEFINE e == [i \in 1..n |-> x]
<1>1. e \in Seq(S) /\ Len(e) = n /\ \A i \in 1..n : e[i] = x
  OBVIOUS
<1>2. r = s \o e
  OBVIOUS
<1> HIDE DEF e
<1>3. r \in Seq(S) /\ Len(r) = Len(s) + n /\ DOMAIN s = 1..Len(s) /\ Len(s) \in Nat
  BY <1>1, <1>2
<1>4. /\ \A i \in 1..Len(s) : r[i] = s[i]
      /\ \A i \in Len(s) + 1..Len(s) + n : r[i] = e[i - Len(s)]
  BY <1>1, <1>2
<1>5. n = 0 => r = s
  BY <1>1, <1>2, <1>3, <1>4
<1>6. DOMAIN r = 1..Len(s) + n
  BY <1>3
<1>7. \A i \in DOMAIN r \ DOMAIN s : r[i] = x
  <2> TAKE i \in DOMAIN r \ DOMAIN s
  <2>1. i \in Len(s) + 1..Len(s) + n /\ i - Len(s) \in 1..n
    BY <1>3, <1>6
  <2> QED
    BY <1>1, <1>4, <2>1
<1> QED
  BY <1>3, <1>4, <1>5, <1>6, <1>7
-----------------------------------------------------------------------------
(* Types.                                                                  *)

Belief == [flags : SUBSET Flags, counter : 0..CounterWrap - 1]
Event == [flags : SUBSET Flags, counter : 0..CounterWrap - 1, break : BOOLEAN]

LEMMA SectionType ==
  ASSUME NEW event \in Event, NEW flags \in SUBSET Flags, NEW changed \in BOOLEAN
  PROVE  /\ Section(event, flags, changed) \in Event
         /\ Section(event, flags, changed).break = (event.break \/ changed)
         /\ Section(event, flags, changed).flags = IF changed THEN flags \cup {"CHANGED"} ELSE flags
         /\ Section(event, flags, changed).counter = event.counter
BY DEF Section, Event, Flags

LEMMA ChangedType ==
  ASSUME NEW event \in Event, NEW flags \in SUBSET Flags, NEW changed
  PROVE  /\ changed => Section(event, flags, changed) \in Event
         /\ ~changed => Section(event, flags, changed) \in Event
<1>1. flags \cup {"CHANGED"} \in SUBSET Flags
  BY DEF Flags
<1> QED
  BY <1>1 DEF Section, Event

LEMMA CounterType ==
  ASSUME NEW event \in Event, NEW n \in 0..CounterWrap - 1
  PROVE  /\ [event EXCEPT !.counter = n] \in Event
         /\ [event EXCEPT !.counter = n].flags = event.flags
         /\ [event EXCEPT !.counter = n].counter = n
         /\ [event EXCEPT !.counter = n].break = event.break
BY DEF Event

LEMMA FlagsType ==
  ASSUME NEW event \in Event, NEW flags \in SUBSET Flags
  PROVE  /\ [event EXCEPT !.flags = @ \ flags] \in Event
         /\ [event EXCEPT !.flags = @ \ flags].flags = event.flags \ flags
         /\ [event EXCEPT !.flags = @ \ flags].counter = event.counter
         /\ [event EXCEPT !.flags = @ \ flags].break = event.break
BY DEF Event

LEMMA KnownType ==
  ASSUME NEW flags \in SUBSET Flags, NEW current \in Belief, NEW r \in Reader
  PROVE  /\ KnownReader(flags, current, r) \in Event
         /\ FedBack(KnownReader(flags, current, r)) \in Belief
<1> DEFINE e0 == [flags |-> flags, counter |-> 0, break |-> FALSE]
           e1 == ComesBack(e0, current)
           e2 == CountsEvents(e1, current, r)
           e3 == Availability(e2, current, r)
           e4 == Presence(e3, current, r)
           e5 == Sharing(e4, current, r)
<1>1. 0 \in 0..CounterWrap - 1 /\ r.counter % CounterWrap \in 0..CounterWrap - 1
  BY CounterWrapAssumption, BoundAssumption DEF Reader
<1>2. e0 \in Event
  BY <1>1 DEF Event
<1>3. e1 \in Event
  <2>1. {"UNKNOWN"} \in SUBSET Flags /\ e0.flags \in SUBSET Flags
    BY <1>2 DEF Flags, Event
  <2> QED
    BY <1>2, <2>1, SectionType, FlagsType DEF ComesBack
<1> HIDE DEF e1
<1>4. e2 \in Event
  BY <1>1, <1>3, SectionType, CounterType DEF CountsEvents, Event
<1> HIDE DEF e2
<1>5. e3 \in Event
  <2>1. {"UNAVAILABLE"} \in SUBSET Flags /\ e2.flags \in SUBSET Flags /\ e2.flags \ {"UNAVAILABLE"} \in SUBSET Flags
    BY <1>4 DEF Flags, Event
  <2> QED
    BY <1>1, <1>4, <2>1, SectionType, CounterType DEF Availability
<1> HIDE DEF e3
<1>6. e4 \in Event
  <2>1. e3.flags \in SUBSET Flags
    BY <1>5 DEF Event
  <2>2. CASE r.card = "ABSENT"
    <3> DEFINE fl == (e3.flags \ {"PRESENT", "UNKNOWN", "UNAVAILABLE", "MUTE", "INUSE"}) \cup {"EMPTY"}
    <3>1. fl \in SUBSET Flags
      BY <2>1 DEF Flags
    <3> DEFINE moved == "PRESENT" \in current.flags
    <3>2. e4 = Section(e3, fl, moved)
      BY <2>2 DEF Presence
    <3> HIDE DEF fl, e4, moved
    <3>3. CASE moved
      BY <1>5, <3>1, <3>2, <3>3, ChangedType
    <3>4. CASE ~moved
      BY <1>5, <3>1, <3>2, <3>4, ChangedType
    <3> QED
      BY <3>3, <3>4
  <2>3. CASE r.card # "ABSENT" /\ Present(r)
    <3> DEFINE fl == (e3.flags \ {"EMPTY", "UNKNOWN", "UNAVAILABLE", "MUTE"})
                     \cup (IF r.card = "SWALLOWED" THEN {"PRESENT", "MUTE"} ELSE {"PRESENT"})
               moved == "EMPTY" \in current.flags \/ (("MUTE" \in current.flags) # (r.card = "SWALLOWED"))
    <3>1. fl \in SUBSET Flags
      BY <2>1 DEF Flags
    <3>2. e4 = Section(e3, fl, moved)
      BY <2>3 DEF Presence, Present
    <3> HIDE DEF fl, e4, moved
    <3>3. CASE moved
      BY <1>5, <3>1, <3>2, <3>3, ChangedType
    <3>4. CASE ~moved
      BY <1>5, <3>1, <3>2, <3>4, ChangedType
    <3> QED
      BY <3>3, <3>4
  <2>4. CASE r.card # "ABSENT" /\ ~Present(r)
    BY <1>5, <2>4 DEF Presence
  <2> QED
    BY <2>2, <2>3, <2>4
<1> HIDE DEF e4
<1>7. e5 \in Event
  <2>1. e4.flags \in SUBSET Flags
    BY <1>6 DEF Event
  <2>2. /\ (e4.flags \ {"INUSE"}) \cup {"EXCLUSIVE"} \in SUBSET Flags
        /\ (e4.flags \ {"EXCLUSIVE"}) \cup {"INUSE"} \in SUBSET Flags
        /\ e4.flags \ {"INUSE", "EXCLUSIVE"} \in SUBSET Flags
    BY <2>1 DEF Flags
  <2> HIDE DEF e4
  <2>3. CASE r.sharing = -1
    <3> DEFINE fl == (e4.flags \ {"INUSE"}) \cup {"EXCLUSIVE"}
    <3> DEFINE moved == "INUSE" \in current.flags
    <3>1. e5 = Section(e4, fl, moved)
      BY <2>3 DEF Sharing
    <3>2. fl \in SUBSET Flags
      BY <2>2
    <3> HIDE DEF fl, moved, e5
    <3>3. CASE moved
      BY <1>6, <3>1, <3>2, <3>3, ChangedType
    <3>4. CASE ~moved
      BY <1>6, <3>1, <3>2, <3>4, ChangedType
    <3> QED
      BY <3>3, <3>4
  <2>4. CASE r.sharing # -1 /\ r.sharing >= 1
    <3> DEFINE fl == (e4.flags \ {"EXCLUSIVE"}) \cup {"INUSE"}
    <3> DEFINE moved == "EXCLUSIVE" \in current.flags
    <3>1. e5 = Section(e4, fl, moved) \/ e5 = e4
      BY <2>4 DEF Sharing
    <3>2. fl \in SUBSET Flags
      BY <2>2
    <3> HIDE DEF fl, moved, e5
    <3>3. CASE moved
      BY <1>6, <3>1, <3>2, <3>3, ChangedType
    <3>4. CASE ~moved
      BY <1>6, <3>1, <3>2, <3>4, ChangedType
    <3> QED
      BY <3>3, <3>4
  <2>5. CASE r.sharing # -1 /\ ~(r.sharing >= 1)
    <3> DEFINE fl == e4.flags \ {"INUSE", "EXCLUSIVE"}
               moved == {"INUSE", "EXCLUSIVE"} \cap current.flags # {}
    <3>1. e5 = Section(e4, fl, moved)
      BY <2>5 DEF Sharing
    <3>2. fl \in SUBSET Flags
      BY <2>2
    <3> HIDE DEF fl, moved, e5
    <3>3. CASE moved
      BY <1>6, <3>1, <3>2, <3>3, ChangedType
    <3>4. CASE ~moved
      BY <1>6, <3>1, <3>2, <3>4, ChangedType
    <3> QED
      BY <3>3, <3>4
  <2> QED
    BY <2>3, <2>4, <2>5
<1> HIDE DEF e5
<1>8. KnownReader(flags, current, r) = FirstTime(e5, current)
  BY DEF KnownReader, e5, e4, e3, e2, e1
<1>9. FirstTime(e5, current) \in Event
  BY <1>7, SectionType DEF FirstTime, Event
<1> QED
  BY <1>8, <1>9 DEF FedBack, Belief, Event

LEMMA MessageType ==
  ASSUME NEW kind \in Commands, NEW rv \in {"SUCCESS", "VIOLATION", "ERROR", "CANCELLED"},
         NEW h \in Handles \cup {NoHandle}, kind = "CONNECT" /\ rv = "SUCCESS" => h \in Handles
  PROVE  /\ Unread \in Reader
         /\ Reply(kind, rv, h) \in Message
         /\ Reply(kind, rv, h).kind = kind /\ Reply(kind, rv, h).rv = rv /\ Reply(kind, rv, h).handle = h
         /\ \A r \in Reader :
              LET m == [Reply(kind, rv, h) EXCEPT !.reader = r]
              IN  m \in Message /\ m.kind = kind /\ m.rv = rv /\ m.handle = h
<1>1. Unread \in Reader
  BY BoundAssumption DEF Unread, Reader, Cards
<1>2. Reply(kind, rv, h) \in Message
  BY <1>1 DEF Reply, Message
<1> QED
  BY <1>1, <1>2 DEF Reply, Message

Places == {"idle", "lock", "recv", "wait", "compare", "remove", "cancel", "stuck"}
CallNames == HandleCalls \cup ContextCalls \cup {"CANCEL", "EXPIRED", "none"}
Request == [command : Commands, handle : Handles \cup {NoHandle}]

ThreadTypes ==
  /\ pc \in [Threads -> Places] /\ name \in [Threads -> CallNames]
  /\ ctx \in [Threads -> Contexts \cup {NoContext}]
  /\ hCard \in [Threads -> Handles \cup {NoHandle}]
  /\ ask \in [Threads -> Commands]
  /\ dwEventState \in [Threads -> SUBSET Flags]
LibTypes ==
  /\ contextMapList \in SUBSET Contexts /\ mMutex \in [Contexts -> Threads \cup {NoThread}]
  /\ channelMapList \in [Contexts -> SUBSET Handles]
  /\ cancellable \in [Contexts -> BOOLEAN]
  /\ readerStates \in Reader /\ reader \in Reader
  /\ dwCurrentState \in [Threads -> Belief]
WireTypes ==
  /\ requests \in [Contexts -> Seq(Request)] /\ replies \in [Contexts -> Seq(Message)]
DaemonTypes ==
  /\ server \in [Contexts -> {"new", "open", "released", "closed"}]
  /\ cardsList \in [Contexts -> SUBSET Handles]
  /\ waiting \in [Contexts -> 0..MaxWaiting]
  /\ ehPc \in {"poll", "count", "signal"}
HistoryTypes == strayed \subseteq Contexts /\ forgotten \subseteq Contexts /\ mismatched \subseteq Contexts

LEMMA TypeParts == TypeOK <=> ThreadTypes /\ LibTypes /\ WireTypes /\ DaemonTypes /\ HistoryTypes
BY DEF TypeOK, ThreadTypes, LibTypes, WireTypes, DaemonTypes, HistoryTypes, Places, CallNames, Request, Belief

LEMMA TypePartsNext == TypeOK' <=> ThreadTypes' /\ LibTypes' /\ WireTypes' /\ DaemonTypes' /\ HistoryTypes'
BY DEF TypeOK, ThreadTypes, LibTypes, WireTypes, DaemonTypes, HistoryTypes, Places, CallNames, Request, Belief

LEMMA CommandType ==
  ASSUME NEW call \in HandleCalls \cup ContextCalls, call # "LIST_GROUPS"
  PROVE  FirstCommand(call) \in Commands \ {"WAIT", "STOP", "none"}
BY DEF FirstCommand, Commands, HandleCalls, ContextCalls

LEMMA AskType ==
  ASSUME TypeOK, NEW t \in Threads, ctx[t] \in Contexts, NEW command \in Commands,
         NEW where \in Places, Ask(t, command, where)
  PROVE  /\ requests' \in [Contexts -> Seq(Request)] /\ ask' \in [Threads -> Commands] /\ pc' \in [Threads -> Places]
         /\ \A c \in Contexts : c # ctx[t] => requests'[c] = requests[c]
         /\ requests'[ctx[t]] = requests[ctx[t]] \/
            (/\ server[ctx[t]] # "closed"
             /\ requests'[ctx[t]] = Append(requests[ctx[t]], [command |-> command, handle |-> hCard[t]]))
<1>1. ThreadTypes /\ WireTypes
  BY TypeParts
<1> DEFINE c == ctx[t]
           r == [command |-> command, handle |-> hCard[t]]
<1>2. r \in Request
  BY <1>1 DEF ThreadTypes, Request
<1> HIDE DEF r
<1>3. Append(requests[c], r) \in Seq(Request)
  BY <1>1, <1>2, AppendAt DEF WireTypes
<1>4. requests' = [requests EXCEPT ![c] = IF server[c] = "closed" THEN @ ELSE Append(@, r)]
  BY DEF Ask, r
<1>5. requests' \in [Contexts -> Seq(Request)]
  BY <1>1, <1>3, <1>4 DEF WireTypes
<1>6. ask' \in [Threads -> Commands] /\ pc' \in [Threads -> Places]
  BY <1>1 DEF ThreadTypes, Ask
<1>7. /\ \A d \in Contexts : d # c => requests'[d] = requests[d]
      /\ requests'[c] = requests[c] \/ (server[c] # "closed" /\ requests'[c] = Append(requests[c], r))
  BY <1>1, <1>4 DEF WireTypes
<1> QED
  BY <1>5, <1>6, <1>7 DEF r

LEMMA ReturnType ==
  ASSUME TypeOK, NEW t \in Threads, Return(t)
  PROVE  ThreadTypes'
<1>1. "idle" \in Places /\ "none" \in CallNames /\ "none" \in Commands /\ {} \in SUBSET Flags
  BY DEF Places, CallNames, Commands
<1> QED
  BY <1>1, TypeParts DEF ThreadTypes, Return

LEMMA FinishType ==
  ASSUME TypeOK, NEW t \in Threads, ctx[t] \in Contexts, Finish(t)
  PROVE  ThreadTypes' /\ mMutex' \in [Contexts -> Threads \cup {NoThread}]
<1>1. mMutex' \in [Contexts -> Threads \cup {NoThread}]
  BY TypeParts DEF LibTypes, Finish
<1>2. CASE name[t] = "RELEASE"
  <2>1. "remove" \in Places /\ "none" \in Commands
    BY DEF Places, Commands
  <2> QED
    BY <1>1, <1>2, <2>1, TypeParts DEF ThreadTypes, Finish
<1>3. CASE name[t] # "RELEASE"
  BY <1>1, <1>3, ReturnType DEF Finish
<1> QED
  BY <1>1, <1>2, <1>3

LEMMA TakeType ==
  ASSUME TypeOK, NEW c \in Contexts, replies[c] # <<>>, Take(c)
  PROVE  /\ replies' \in [Contexts -> Seq(Message)] /\ replies'[c] = Tail(replies[c])
         /\ \A d \in Contexts : d # c => replies'[d] = replies[d]
         /\ Head(replies[c]) \in Message
<1>1. replies \in [Contexts -> Seq(Message)]
  BY TypeParts DEF WireTypes
<1>2. Tail(replies[c]) \in Seq(Message) /\ Head(replies[c]) \in Message
  BY <1>1, TailAt
<1> QED
  BY <1>1, <1>2 DEF Take

LEMMA TellType ==
  ASSUME TypeOK, NEW c \in Contexts, NEW m \in Message,
         replies' = [replies EXCEPT ![c] = Append(@, m)]
  PROVE  /\ replies' \in [Contexts -> Seq(Message)] /\ replies'[c] = Append(replies[c], m)
         /\ \A d \in Contexts : d # c => replies'[d] = replies[d]
<1>1. replies \in [Contexts -> Seq(Message)]
  BY TypeParts DEF WireTypes
<1>2. Append(replies[c], m) \in Seq(Message)
  BY <1>1, AppendAt
<1> QED
  BY <1>1, <1>2

\* A request pcscd has read.
LEMMA ReadType ==
  ASSUME TypeOK, NEW c \in Contexts, Serve(c)
  PROVE  /\ requests' \in [Contexts -> Seq(Request)] /\ requests'[c] = Tail(requests[c])
         /\ \A d \in Contexts : d # c => requests'[d] = requests[d]
         /\ Head(requests[c]) \in Request /\ requests[c] # <<>>
<1>1. requests \in [Contexts -> Seq(Request)] /\ requests[c] # <<>>
  BY TypeParts DEF WireTypes, Serve
<1>2. Tail(requests[c]) \in Seq(Request) /\ Head(requests[c]) \in Request
  BY <1>1, TailAt
<1> QED
  BY <1>1, <1>2 DEF Serve

\* What pcscd may do with it.
Answered(c, m) == replies' = [replies EXCEPT ![c] = Append(@, m)]

LEMMA ServeCases ==
  ASSUME TypeOK, NEW c \in Contexts, Serve(c), NEW r, r = Head(requests[c])
  PROVE  \/ /\ r.command = "GET_READERS_STATE"
            /\ Answered(c, [Reply("GET_READERS_STATE", "SUCCESS", NoHandle) EXCEPT !.reader = reader])
            /\ UNCHANGED <<server, cardsList, waiting>>
         \/ /\ r.command = "WAIT"
            /\ waiting' = [waiting EXCEPT ![c] = IF @ < MaxWaiting THEN @ + 1 ELSE @]
            /\ UNCHANGED <<replies, server, cardsList>>
         \/ /\ r.command = "STOP"
            /\ \E rv \in {"SUCCESS", "ERROR"} : Answered(c, Reply("WAIT", rv, NoHandle))
            /\ waiting' = [waiting EXCEPT ![c] = IF @ > 0 THEN @ - 1 ELSE 0]
            /\ UNCHANGED <<server, cardsList>>
         \/ /\ r.command = "CONNECT" /\ UNCHANGED <<server, waiting>>
            /\ \/ \E h \in Handles :
                     /\ Answered(c, Reply("CONNECT", "SUCCESS", h))
                     /\ cardsList' = [cardsList EXCEPT ![c] = @ \cup {h}]
               \/ Answered(c, Reply("CONNECT", "ERROR", NoHandle)) /\ UNCHANGED cardsList
         \/ /\ r.command = "RELEASE" /\ UNCHANGED waiting
            /\ Answered(c, Reply("RELEASE", "SUCCESS", NoHandle))
            /\ server' = [server EXCEPT ![c] = "released"]
            /\ cardsList' = [cardsList EXCEPT ![c] = {}]
         \/ /\ r.command \in HandleCalls \cup {"none"} /\ UNCHANGED <<waiting, cardsList, replies>>
            /\ server' = [server EXCEPT ![c] = "closed"]
         \/ /\ r.command \in HandleCalls \cup {"none"} /\ UNCHANGED <<waiting, server>>
            /\ \E rv \in {"SUCCESS", "VIOLATION", "ERROR"} :
                 /\ Answered(c, Reply(r.command, rv, NoHandle))
                 /\ cardsList' = IF r.command = "DISCONNECT" /\ rv = "SUCCESS"
                                 THEN [cardsList EXCEPT ![c] = @ \ {r.handle}] ELSE cardsList
<1>1. r.command \in Commands
  BY ReadType DEF Request
<1>2. CASE r.command = "GET_READERS_STATE"
  BY <1>2 DEF Serve, Answered
<1>3. CASE r.command = "WAIT"
  BY <1>3 DEF Serve
<1>4. CASE r.command = "STOP"
  BY <1>4 DEF Serve, Answered, EHTryToUnregisterClientForEvent
<1>5. CASE r.command = "CONNECT"
  BY <1>5 DEF Serve, Answered, ServeConnect
<1>6. CASE r.command = "RELEASE"
  BY <1>6 DEF Serve, Answered, ServeRelease
<1>7. CASE r.command \notin {"GET_READERS_STATE", "WAIT", "STOP", "CONNECT", "RELEASE"}
  <2>1. r.command \in HandleCalls \cup {"none"}
    BY <1>1, <1>7 DEF Commands
  <2>2. ServeHandle(c, r) /\ UNCHANGED waiting
    BY <1>7 DEF Serve
  <2> QED
    BY <2>1, <2>2 DEF ServeHandle, Answered
<1> QED
  BY <1>2, <1>3, <1>4, <1>5, <1>6, <1>7

\* A call begins on a context the library knows, with one of its handles or none.
LEMMA BeginsCases ==
  ASSUME TypeOK, NEW t \in Threads, Begins(t)
  PROVE  \/ \E c \in Contexts : SCardEstablishContext(t, c) \/ SCardCancel(t, c)
         \/ \E call \in HandleCalls \cup ContextCalls, c \in contextMapList, h \in Handles \cup {NoHandle} :
              Start(t, call, c, h)
BY DEF Begins, SCardReleaseContext, SCardConnect, SCardListReaders, SCardListReaderGroups,
       SCardGetStatusChange, SCardReconnect, SCardDisconnect, SCardStatus, SCardBeginTransaction,
       SCardEndTransaction, SCardControl, SCardGetSetAttrib, SCardTransmit, CallHandle, CallContext,
       HandleCalls, ContextCalls

\* The requests pcscd reads, by what it does with them.
LEMMA TypeStep ==
  ASSUME MutexInv, [Next]_vars
  PROVE  ThreadTypes' /\ LibTypes' /\ WireTypes' /\ DaemonTypes' /\ HistoryTypes'
<1> DEFINE Goal == ThreadTypes' /\ LibTypes' /\ WireTypes' /\ DaemonTypes' /\ HistoryTypes'
<1> TypeOK /\ ThreadTypes /\ LibTypes /\ WireTypes /\ DaemonTypes /\ HistoryTypes /\ CallsKnown
  BY TypeParts DEF MutexInv
<1>1. ASSUME NEW t \in Threads, NEW c \in Contexts, SCardEstablishContext(t, c)
      PROVE  Goal
  BY <1>1 DEF SCardEstablishContext, threadVars, wireVars, historyVars,
              ThreadTypes, LibTypes, WireTypes, DaemonTypes, HistoryTypes
<1>2. ASSUME NEW t \in Threads, NEW c \in Contexts, SCardCancel(t, c)
      PROVE  Goal
  BY <1>2 DEF SCardCancel, libVars, wireVars, daemonVars, historyVars, Places, CallNames,
              ThreadTypes, LibTypes, WireTypes, DaemonTypes, HistoryTypes
<1>3. ASSUME NEW t \in Threads, NEW call \in HandleCalls \cup ContextCalls, NEW c \in contextMapList,
             NEW h \in Handles \cup {NoHandle}, Start(t, call, c, h)
      PROVE  Goal
  BY <1>3 DEF Start, libVars, wireVars, daemonVars, historyVars, Places, CallNames,
              ThreadTypes, LibTypes, WireTypes, DaemonTypes, HistoryTypes
<1>4. ASSUME NEW t \in Threads, Lock(t)
      PROVE  Goal
  <2>1. pc[t] = "lock" /\ ctx[t] \in Contexts /\ name[t] \in HandleCalls \cup ContextCalls
    BY <1>4 DEF Lock, CallsKnown
  <2>2. mMutex' \in [Contexts -> Threads \cup {NoThread}]
    BY <1>4, <2>1 DEF Lock, Acquire, LibTypes
  <2>3. ThreadTypes' /\ requests' \in [Contexts -> Seq(Request)]
    <3>1. CASE Return(t) /\ UNCHANGED requests
      BY <3>1, ReturnType DEF WireTypes
    <3>2. CASE name[t] # "LIST_GROUPS" /\ Ask(t, FirstCommand(name[t]), "recv") /\ UNCHANGED <<name, ctx, hCard, dwEventState>>
      <4>1. FirstCommand(name[t]) \in Commands /\ "recv" \in Places
        BY <2>1, <3>2, CommandType DEF Places
      <4> QED
        BY <2>1, <3>2, <4>1, AskType DEF ThreadTypes
    <3> QED
      BY <1>4, <3>1, <3>2 DEF Lock
  <2> QED
    BY <1>4, <2>1, <2>2, <2>3 DEF Lock, daemonVars, LibTypes, WireTypes, DaemonTypes, HistoryTypes
<1>5. ASSUME NEW t \in Threads, LockFreed(t)
      PROVE  Goal
  <2>1. ThreadTypes'
    BY <1>5, ReturnType DEF LockFreed, ThreadTypes, Places
  <2> QED
    BY <1>5, <2>1 DEF LockFreed, libVars, wireVars, daemonVars, historyVars,
                      LibTypes, WireTypes, DaemonTypes, HistoryTypes
<1>6. ASSUME NEW t \in Threads, MessageReceive(t)
      PROVE  Goal
  <2> DEFINE c == ctx[t]
             m == Head(replies[c])
  <2>1. pc[t] = "recv" /\ c \in Contexts /\ replies[c] # <<>> /\ Take(c)
    BY <1>6 DEF MessageReceive, CallsKnown
  <2>2. replies' \in [Contexts -> Seq(Message)] /\ m \in Message
    BY <2>1, TakeType
  <2>3. m.reader \in Reader /\ m.handle \in Handles \cup {NoHandle}
    BY <2>2 DEF Message
  <2>4. contextMapList' = contextMapList /\ cancellable' = cancellable /\ dwCurrentState' = dwCurrentState
        /\ reader' = reader /\ DaemonTypes' /\ strayed' = strayed /\ forgotten' = forgotten
    BY <1>6 DEF MessageReceive, daemonVars, DaemonTypes
  <2> DEFINE Sub == /\ ThreadTypes' /\ mMutex' \in [Contexts -> Threads \cup {NoThread}]
                    /\ channelMapList' \in [Contexts -> SUBSET Handles] /\ readerStates' \in Reader
                    /\ requests' \in [Contexts -> Seq(Request)] /\ mismatched' \subseteq Contexts
  <2>5. Sub
    <3>1. CASE TakeOther(t)
      BY <2>1, <3>1, FinishType DEF TakeOther, LibTypes, WireTypes, HistoryTypes
    <3>2. CASE TakeReaders(t, m)
      <4>1. channelMapList' = channelMapList /\ mismatched' = mismatched /\ readerStates' \in Reader
        BY <2>3, <3>2 DEF TakeReaders
      <4>2. CASE Ask(t, "STATUS", "recv") /\ UNCHANGED <<mMutex, name, ctx, hCard, dwEventState>>
        <5>1. "STATUS" \in Commands /\ "recv" \in Places
          BY DEF Commands, HandleCalls, Places
        <5> QED
          BY <2>1, <4>1, <4>2, <5>1, AskType DEF ThreadTypes, LibTypes, HistoryTypes
      <4>3. CASE /\ pc' = [pc EXCEPT ![t] = "compare"] /\ ask' = [ask EXCEPT ![t] = "none"]
                 /\ UNCHANGED <<mMutex, name, ctx, hCard, dwEventState, requests>>
        BY <4>1, <4>3 DEF ThreadTypes, LibTypes, WireTypes, HistoryTypes, Places, Commands
      <4>4. CASE Finish(t) /\ UNCHANGED requests
        BY <2>1, <4>1, <4>4, FinishType DEF LibTypes, WireTypes, HistoryTypes
      <4> QED
        BY <3>2, <4>2, <4>3, <4>4 DEF TakeReaders
    <3>3. CASE TakeStopped(t, m)
      <4>1. CASE Ask(t, "GET_READERS_STATE", "recv") /\ UNCHANGED <<mMutex, name, ctx, hCard, dwEventState>>
        <5>1. "GET_READERS_STATE" \in Commands /\ "recv" \in Places
          BY DEF Commands, Places
        <5> QED
          BY <2>1, <3>3, <4>1, <5>1, AskType DEF TakeStopped, ThreadTypes, LibTypes, HistoryTypes
      <4>2. CASE Finish(t) /\ UNCHANGED requests
        BY <2>1, <3>3, <4>2, FinishType DEF TakeStopped, LibTypes, WireTypes, HistoryTypes
      <4> QED
        BY <3>3, <4>1, <4>2 DEF TakeStopped
    <3>4. CASE TakeAnswer(t, m) /\ (ask[t] = "CONNECT" /\ m.rv = "SUCCESS" => m.handle \in Handles)
      <4>1. ChannelsAfter(t, m) \in SUBSET Handles
        BY <2>1, <3>4 DEF ChannelsAfter, LibTypes
      <4>2. channelMapList' \in [Contexts -> SUBSET Handles]
        BY <2>1, <3>4, <4>1 DEF TakeAnswer, LibTypes
      <4>3. CASE Finish(t)
        BY <2>1, <3>4, <4>2, <4>3, FinishType DEF TakeAnswer, LibTypes, WireTypes, HistoryTypes
      <4>4. CASE Retry(t)
        BY <2>1, <3>4, <4>2, <4>4 DEF TakeAnswer, Retry, ThreadTypes, LibTypes, WireTypes, HistoryTypes,
                                      Places, Commands
      <4> QED
        BY <3>4, <4>3, <4>4 DEF TakeAnswer
    <3>5. ask[t] = "CONNECT" => Kind(ask[t]) = "CONNECT"
      BY DEF Kind
    <3> QED
      BY <1>6, <2>2, <3>1, <3>2, <3>3, <3>4, <3>5 DEF MessageReceive, Message
  <2> QED
    BY <2>2, <2>4, <2>5 DEF LibTypes, WireTypes, HistoryTypes
<1>7. ASSUME NEW t \in Threads, CommError(t)
      PROVE  Goal
  <2>1. ctx[t] \in Contexts
    BY <1>7 DEF CommError, CallsKnown
  <2>2. cancellable' \in [Contexts -> BOOLEAN]
    BY <1>7, <2>1 DEF CommError, LibTypes
  <2> QED
    BY <1>7, <2>1, <2>2, FinishType DEF CommError, wireVars, daemonVars, historyVars,
                LibTypes, WireTypes, DaemonTypes, HistoryTypes
<1>8. ASSUME NEW t \in Threads, SCardRemoveContext(t)
      PROVE  Goal
  <2>1. ctx[t] \in Contexts
    BY <1>8 DEF SCardRemoveContext, CallsKnown
  <2>2. /\ contextMapList' \in SUBSET Contexts /\ channelMapList' \in [Contexts -> SUBSET Handles]
        /\ waiting' \in [Contexts -> 0..MaxWaiting]
        /\ server' \in [Contexts -> {"new", "open", "released", "closed"}]
    BY <1>8, <2>1, BoundAssumption DEF SCardRemoveContext, LibTypes, DaemonTypes
  <2>3. requests' \in [Contexts -> Seq(Request)] /\ replies' \in [Contexts -> Seq(Message)]
    BY <1>8, <2>1, EmptyAt DEF SCardRemoveContext, WireTypes
  <2>4. ThreadTypes'
    BY <1>8, ReturnType DEF SCardRemoveContext
  <2> QED
    BY <1>8, <2>2, <2>3, <2>4 DEF SCardRemoveContext, historyVars, LibTypes, WireTypes, DaemonTypes, HistoryTypes
<1>9. ASSUME NEW t \in Threads, Compare(t)
      PROVE  Goal
  <2> DEFINE event == KnownReader(dwEventState[t], dwCurrentState[t], readerStates)
  <2>1. ctx[t] \in Contexts
    BY <1>9 DEF Compare, CallsKnown
  <2>2. event \in Event /\ FedBack(event) \in Belief
    BY KnownType DEF ThreadTypes, LibTypes
  <2> HIDE DEF event
  <2>3. CASE /\ dwCurrentState' = [dwCurrentState EXCEPT ![t] = FedBack(event)]
             /\ Finish(t) /\ UNCHANGED <<cancellable, requests>>
    BY <1>9, <2>1, <2>2, <2>3, FinishType DEF Compare, daemonVars, historyVars,
       LibTypes, WireTypes, DaemonTypes, HistoryTypes
  <2>4. CASE /\ dwEventState' = [dwEventState EXCEPT ![t] = event.flags]
             /\ cancellable' = [cancellable EXCEPT ![ctx[t]] = TRUE]
             /\ Ask(t, "WAIT", "wait")
             /\ UNCHANGED <<mMutex, name, ctx, hCard, dwCurrentState>>
    <3>1. "WAIT" \in Commands /\ "wait" \in Places /\ event.flags \in SUBSET Flags
      BY <2>2 DEF Commands, Places, Event
    <3>2. /\ cancellable' \in [Contexts -> BOOLEAN] /\ dwEventState' \in [Threads -> SUBSET Flags]
          /\ requests' \in [Contexts -> Seq(Request)] /\ ThreadTypes'
      BY <2>1, <2>4, <3>1, AskType DEF LibTypes, ThreadTypes
    <3> QED
      BY <1>9, <2>4, <3>2 DEF Compare, daemonVars, historyVars, LibTypes, WireTypes, DaemonTypes, HistoryTypes
  <2> QED
    BY <1>9, <2>3, <2>4 DEF Compare, event
<1>10. ASSUME NEW t \in Threads, Signalled(t)
       PROVE  Goal
  <2> DEFINE c == ctx[t]
             m == Head(replies[c])
  <2>1. c \in Contexts /\ replies[c] # <<>> /\ Take(c)
    BY <1>10 DEF Signalled, CallsKnown
  <2>2. replies' \in [Contexts -> Seq(Message)] /\ cancellable' \in [Contexts -> BOOLEAN]
    BY <1>10, <2>1, TakeType DEF Signalled, LibTypes
  <2>3. /\ contextMapList' = contextMapList /\ dwCurrentState' = dwCurrentState /\ reader' = reader
        /\ DaemonTypes' /\ strayed' = strayed /\ forgotten' = forgotten
    BY <1>10 DEF Signalled, daemonVars, DaemonTypes
  <2> DEFINE Sub == /\ ThreadTypes' /\ mMutex' \in [Contexts -> Threads \cup {NoThread}]
                    /\ channelMapList' = channelMapList /\ readerStates' = readerStates
                    /\ requests' \in [Contexts -> Seq(Request)] /\ mismatched' \subseteq Contexts
  <2>4. Sub
    <3>1. CASE TakeOther(t)
      BY <2>1, <3>1, FinishType DEF TakeOther, WireTypes, HistoryTypes
    <3>2. CASE Finish(t) /\ UNCHANGED <<channelMapList, readerStates, requests, mismatched>>
      BY <2>1, <3>2, FinishType DEF WireTypes, HistoryTypes
    <3>3. CASE /\ Ask(t, "GET_READERS_STATE", "recv")
               /\ UNCHANGED name \/ name' = [name EXCEPT ![t] = "EXPIRED"]
               /\ UNCHANGED <<mMutex, ctx, hCard, dwEventState, channelMapList, readerStates, mismatched>>
      <4>1. "GET_READERS_STATE" \in Commands /\ "recv" \in Places /\ "EXPIRED" \in CallNames
        BY DEF Commands, Places, CallNames
      <4> QED
        BY <2>1, <3>3, <4>1, AskType DEF ThreadTypes, LibTypes, HistoryTypes
    <3> QED
      BY <1>10, <3>1, <3>2, <3>3 DEF Signalled
  <2> QED
    BY <2>2, <2>3, <2>4 DEF LibTypes, WireTypes, HistoryTypes
<1>11. ASSUME NEW t \in Threads, TimedOut(t)
       PROVE  Goal
  <2>1. ctx[t] \in Contexts
    BY <1>11 DEF TimedOut, CallsKnown
  <2>2. "STOP" \in Commands /\ "recv" \in Places /\ "EXPIRED" \in CallNames
    BY DEF Commands, Places, CallNames
  <2>3. ThreadTypes' /\ requests' \in [Contexts -> Seq(Request)]
    BY <1>11, <2>1, <2>2, AskType DEF TimedOut, ThreadTypes
  <2>4. cancellable' \in [Contexts -> BOOLEAN] /\ strayed' \subseteq Contexts
    BY <1>11, <2>1 DEF TimedOut, LibTypes, HistoryTypes
  <2> QED
    BY <1>11, <2>3, <2>4 DEF TimedOut, daemonVars, LibTypes, WireTypes, DaemonTypes, HistoryTypes
<1>12. ASSUME NEW c \in Contexts, Serve(c)
       PROVE  Goal
  <2> DEFINE r == Head(requests[c])
  <2>1. /\ requests' \in [Contexts -> Seq(Request)] /\ r \in Request
        /\ r.command \in Commands
    BY <1>12, ReadType DEF Request
  <2>2. UNCHANGED <<libVars, threadVars, reader, ehPc, historyVars>>
    BY <1>12 DEF Serve
  <2>3. ThreadTypes' /\ LibTypes' /\ HistoryTypes' /\ ehPc' \in {"poll", "count", "signal"}
    BY <2>2 DEF libVars, threadVars, historyVars, ThreadTypes, LibTypes, HistoryTypes, DaemonTypes
  <2>4. \A n \in 0..MaxWaiting : /\ (IF n < MaxWaiting THEN n + 1 ELSE n) \in 0..MaxWaiting
                                /\ (IF n > 0 THEN n - 1 ELSE 0) \in 0..MaxWaiting
    BY BoundAssumption
  <2>5. waiting' \in [Contexts -> 0..MaxWaiting]
    BY <1>12, <2>4, ServeCases DEF DaemonTypes
  <2>6. /\ server' \in [Contexts -> {"new", "open", "released", "closed"}]
        /\ cardsList' \in [Contexts -> SUBSET Handles]
    BY <1>12, ServeCases DEF DaemonTypes
  <2>7. \A m \in Message : Answered(c, m) => replies' \in [Contexts -> Seq(Message)]
    BY TellType DEF Answered
  <2>8. "GET_READERS_STATE" \in Commands /\ "WAIT" \in Commands /\ "CONNECT" \in Commands /\ "RELEASE" \in Commands
        /\ "CONNECT" \notin HandleCalls \cup {"none"}
    BY DEF Commands, HandleCalls
  <2>9. /\ [Reply("GET_READERS_STATE", "SUCCESS", NoHandle) EXCEPT !.reader = reader] \in Message
        /\ \A rv \in {"SUCCESS", "ERROR"} : Reply("WAIT", rv, NoHandle) \in Message
        /\ \A h \in Handles : Reply("CONNECT", "SUCCESS", h) \in Message
        /\ Reply("CONNECT", "ERROR", NoHandle) \in Message
        /\ Reply("RELEASE", "SUCCESS", NoHandle) \in Message
        /\ r.command \in HandleCalls \cup {"none"} =>
             \A rv \in {"SUCCESS", "VIOLATION", "ERROR"} : Reply(r.command, rv, NoHandle) \in Message
    <3>1. reader \in Reader
      BY DEF LibTypes
    <3> QED
      BY <2>1, <2>8, <3>1, MessageType
  <2>10. replies' \in [Contexts -> Seq(Message)]
    <3> HIDE DEF r
    <3> QED
      BY <1>12, <2>7, <2>9, ServeCases DEF WireTypes, r
  <2> QED
    BY <2>1, <2>3, <2>5, <2>6, <2>10 DEF WireTypes, DaemonTypes
<1>13. ASSUME NEW t \in Threads, ServeCancel(t)
       PROVE  Goal
  <2>1. ctx[t] \in Contexts
    BY <1>13 DEF ServeCancel, CallsKnown
  <2>2. Reply("WAIT", "CANCELLED", NoHandle) \in Message
    BY MessageType DEF Commands
  <2>3. replies' \in [Contexts -> Seq(Message)] /\ strayed' \subseteq Contexts
    <3>1. CASE server[ctx[t]] = "open"
      <4>1. Answered(ctx[t], Reply("WAIT", "CANCELLED", NoHandle))
        BY <1>13, <3>1 DEF ServeCancel, Answered
      <4>2. replies' \in [Contexts -> Seq(Message)]
        BY <2>1, <2>2, <4>1, TellType DEF Answered
      <4>3. strayed' \subseteq strayed \cup {ctx[t]}
        BY <1>13, <3>1 DEF ServeCancel
      <4> QED
        BY <2>1, <4>2, <4>3 DEF HistoryTypes
    <3>2. CASE server[ctx[t]] # "open"
      BY <1>13, <3>2 DEF ServeCancel, WireTypes, HistoryTypes
    <3> QED
      BY <3>1, <3>2
  <2>4. ThreadTypes'
    BY <1>13, ReturnType DEF ServeCancel
  <2> QED
    BY <1>13, <2>3, <2>4 DEF ServeCancel, libVars, daemonVars, LibTypes, WireTypes, DaemonTypes, HistoryTypes
<1>14. ASSUME ReaderMoves
       PROVE  Goal
  <2>1. reader' \in Reader /\ ehPc' \in {"poll", "count", "signal"}
    BY <1>14 DEF ReaderMoves, LibTypes, Reader, Cards
  <2> QED
    BY <1>14, <2>1 DEF ReaderMoves, libVars, threadVars, wireVars, historyVars,
                       ThreadTypes, LibTypes, WireTypes, DaemonTypes, HistoryTypes
<1>15. ASSUME CountEvent
       PROVE  Goal
  <2>1. reader.counter + 1 \in 0..MaxEvents
    BY <1>15, BoundAssumption DEF CountEvent, LibTypes, Reader, MutexInv, CountRoom
  <2>2. reader' \in Reader /\ ehPc' \in {"poll", "count", "signal"}
    BY <1>15, <2>1 DEF CountEvent, LibTypes, Reader
  <2> QED
    BY <1>15, <2>2 DEF CountEvent, libVars, threadVars, wireVars, historyVars,
                       ThreadTypes, LibTypes, WireTypes, DaemonTypes, HistoryTypes
<1>16. ASSUME EHSignalEventToClients
       PROVE  Goal
  <2>1. Reply("WAIT", "SUCCESS", NoHandle) \in Message
    BY MessageType DEF Commands
  <2>2. \A c \in Contexts :
          replies[c] \o [i \in 1..waiting[c] |-> Reply("WAIT", "SUCCESS", NoHandle)] \in Seq(Message)
    <3> TAKE c \in Contexts
    <3>1. replies[c] \in Seq(Message) /\ waiting[c] \in Nat
      BY BoundAssumption DEF WireTypes, DaemonTypes
    <3> QED
      BY <2>1, <3>1, RepeatAt
  <2>3. replies' \in [Contexts -> Seq(Message)] /\ waiting' \in [Contexts -> 0..MaxWaiting]
    BY <1>16, <2>2, BoundAssumption DEF EHSignalEventToClients
  <2> QED
    BY <1>16, <2>3 DEF EHSignalEventToClients, libVars, threadVars,
                       ThreadTypes, LibTypes, WireTypes, DaemonTypes, HistoryTypes
<1>17. CASE UNCHANGED vars
  BY <1>17 DEF vars, libVars, threadVars, wireVars, daemonVars, historyVars,
               ThreadTypes, LibTypes, WireTypes, DaemonTypes, HistoryTypes
<1> HIDE DEF Goal
<1>18. ASSUME NEW t \in Threads, Begins(t)
       PROVE  Goal
  BY <1>1, <1>2, <1>3, <1>18, BeginsCases
<1> QED
  BY <1>4, <1>5, <1>6, <1>7, <1>8, <1>9, <1>10, <1>11, <1>12, <1>13, <1>14, <1>15, <1>16, <1>17, <1>18
  DEF Next, Continues, Daemon, StatusThread, Goal
-----------------------------------------------------------------------------
(* The mutex of a context is with the thread that is in a call on it.       *)

\* A step of one thread leaves the others as they are.
Alone(t) ==
  \A u \in Threads : u # t =>
    pc'[u] = pc[u] /\ name'[u] = name[u] /\ ctx'[u] = ctx[u] /\ hCard'[u] = hCard[u] /\ ask'[u] = ask[u]

\* What becomes of the mutex of c in a step of t.
Released(t, c) == mMutex[c] = t /\ mMutex'[c] = NoThread /\ pc'[t] \notin Holding
Held(t, c) == mMutex[c] \in {t, NoThread} /\ mMutex'[c] = t /\ pc'[t] \in Holding /\ ctx'[t] = c
Lost(t, c) == mMutex[c] = NoThread /\ mMutex'[c] = t /\ c \in forgotten' /\ pc'[t] \notin Holding
Away(t, c) == mMutex'[c] = mMutex[c] /\ pc[t] \notin Holding /\ pc'[t] \notin Holding

LEMMA MutexKept ==
  ASSUME TypeOK, HoldersHave, MutexHeld, NEW t \in Threads, NEW c \in Contexts,
         Alone(t), \A d \in Contexts : d # c => mMutex'[d] = mMutex[d],
         pc[t] \in Holding => ctx[t] = c, forgotten \subseteq forgotten',
         Released(t, c) \/ Held(t, c) \/ Lost(t, c) \/ Away(t, c)
  PROVE  HoldersHave' /\ MutexHeld'
<1>1. NoThread \notin Threads /\ mMutex \in [Contexts -> Threads \cup {NoThread}]
  BY NamesAssumption, TypeParts DEF LibTypes
<1>2. HoldersHave'
  <2> SUFFICES ASSUME NEW u \in Threads, pc'[u] \in Holding
               PROVE  ctx'[u] \in Contexts /\ mMutex'[ctx'[u]] = u
    BY DEF HoldersHave
  <2>1. CASE u = t
    BY <2>1 DEF Released, Held, Lost, Away
  <2>2. CASE u # t
    <3>1. pc[u] \in Holding /\ ctx'[u] = ctx[u] /\ ctx[u] \in Contexts /\ mMutex[ctx[u]] = u
      BY <2>2 DEF Alone, HoldersHave
    <3> QED
      BY <1>1, <2>2, <3>1 DEF Released, Held, Lost, Away
  <2> QED
    BY <2>1, <2>2
<1>3. MutexHeld'
  <2> SUFFICES ASSUME NEW d \in Contexts \ forgotten', mMutex'[d] # NoThread
               PROVE  ctx'[mMutex'[d]] = d /\ pc'[mMutex'[d]] \in Holding
    BY DEF MutexHeld
  <2>1. CASE d = c /\ mMutex'[c] = t
    BY <1>1, <2>1 DEF Released, Held, Lost, Away, MutexHeld
  <2>2. CASE ~(d = c /\ mMutex'[c] = t)
    <3>1. mMutex'[d] = mMutex[d] /\ mMutex[d] \in Threads
      BY <1>1, <2>2 DEF Released, Held, Lost, Away
    <3>2. ctx[mMutex[d]] = d /\ pc[mMutex[d]] \in Holding
      BY <3>1 DEF MutexHeld
    <3>3. CASE mMutex[d] = t
      BY <1>1, <2>2, <3>1, <3>2, <3>3
    <3>4. CASE mMutex[d] # t
      BY <3>1, <3>2, <3>4 DEF Alone
    <3> QED
      BY <3>3, <3>4
  <2> QED
    BY <2>1, <2>2
<1> QED
  BY <1>2, <1>3

LEMMA FinishFrees ==
  ASSUME TypeOK, HoldersHave, CallsKnown, NEW t \in Threads, pc[t] \in Holding, Finish(t)
  PROVE  /\ ctx[t] \in Contexts /\ Alone(t)
         /\ \A d \in Contexts : d # ctx[t] => mMutex'[d] = mMutex[d]
         /\ Released(t, ctx[t])
         /\ pc'[t] \in {"idle", "remove"} /\ ctx'[t] \in {ctx[t], NoContext}
         /\ pc'[t] = "remove" => ctx'[t] = ctx[t]
<1> ThreadTypes /\ LibTypes
  BY TypeParts
<1>1. ctx[t] \in Contexts /\ mMutex[ctx[t]] = t
  BY DEF HoldersHave
<1>2. CASE name[t] = "RELEASE"
  BY <1>1, <1>2 DEF Finish, Alone, Released, Holding, ThreadTypes, LibTypes
<1>3. CASE name[t] # "RELEASE"
  BY <1>1, <1>3 DEF Finish, Return, Alone, Released, Holding, ThreadTypes, LibTypes
<1> QED
  BY <1>2, <1>3

LEMMA ReturnAlone ==
  ASSUME TypeOK, NEW t \in Threads, Return(t)
  PROVE  Alone(t) /\ pc'[t] = "idle" /\ ctx'[t] = NoContext
BY TypeParts DEF ThreadTypes, Return, Alone

LEMMA AskAlone ==
  ASSUME TypeOK, NEW t \in Threads, NEW command, NEW where, Ask(t, command, where),
         UNCHANGED <<ctx, hCard>>, \A u \in Threads : u # t => name'[u] = name[u]
  PROVE  Alone(t) /\ pc'[t] = where /\ ask'[t] = command /\ ctx'[t] = ctx[t] /\ hCard'[t] = hCard[t]
BY TypeParts DEF ThreadTypes, Ask, Alone

\* The calls of t are known after its step as they were before.
LEMMA CallsKept ==
  ASSUME CallsKnown, NEW t \in Threads, Alone(t),
         pc'[t] # "idle" => ctx'[t] \in Contexts,
         pc'[t] = "lock" => name'[t] \in HandleCalls \cup ContextCalls,
         pc'[t] = "recv" => ask'[t] \notin {"WAIT", "none"}
  PROVE  CallsKnown'
BY DEF CallsKnown, Alone

\* How a step of a thread that reads an answer ends.
Ends(t) ==
  \/ Finish(t) /\ UNCHANGED requests
  \/ Retry(t) /\ name[t] \in Retried /\ UNCHANGED requests
  \/ \E command \in {"STATUS", "GET_READERS_STATE", "STOP"} :
       /\ Ask(t, command, "recv") /\ UNCHANGED <<mMutex, ctx, hCard>>
       /\ \A u \in Threads : u # t => name'[u] = name[u]
  \/ Ask(t, "WAIT", "wait") /\ UNCHANGED <<mMutex, name, ctx, hCard>>
  \/ /\ pc' = [pc EXCEPT ![t] = "compare"] /\ ask' = [ask EXCEPT ![t] = "none"]
     /\ UNCHANGED <<mMutex, name, ctx, hCard, requests>>

LEMMA EndsKeep ==
  ASSUME TypeOK, HoldersHave, MutexHeld, CallsKnown, NEW t \in Threads, pc[t] \in Holding, Ends(t),
         UNCHANGED forgotten
  PROVE  /\ HoldersHave' /\ MutexHeld' /\ CallsKnown' /\ Alone(t)
         /\ \A d \in Contexts : d # ctx[t] => mMutex'[d] = mMutex[d]
         /\ Released(t, ctx[t]) \/ Held(t, ctx[t])
         /\ ctx[t] \in Contexts /\ mMutex[ctx[t]] = t
<1> ThreadTypes /\ LibTypes
  BY TypeParts
<1>1. ctx[t] \in Contexts /\ mMutex[ctx[t]] = t
  BY DEF HoldersHave
<1> DEFINE Result ==
      /\ Alone(t)
      /\ Released(t, ctx[t]) \/ Held(t, ctx[t])
      /\ \A d \in Contexts : d # ctx[t] => mMutex'[d] = mMutex[d]
      /\ pc'[t] # "idle" => ctx'[t] \in Contexts
      /\ pc'[t] = "lock" => name'[t] \in HandleCalls \cup ContextCalls
      /\ pc'[t] = "recv" => ask'[t] \notin {"WAIT", "none"}
<1>2. ASSUME Finish(t) PROVE Result
  BY <1>1, <1>2, FinishFrees
<1>3. ASSUME Retry(t) /\ name[t] \in Retried PROVE Result
  BY <1>1, <1>3 DEF Retry, Alone, Released, Holding, ThreadTypes, LibTypes, Retried, HandleCalls
<1>4. ASSUME NEW command \in {"STATUS", "GET_READERS_STATE", "STOP"},
             Ask(t, command, "recv") /\ UNCHANGED <<mMutex, ctx, hCard>>,
             \A u \in Threads : u # t => name'[u] = name[u]
      PROVE  Result
  <2>1. Alone(t) /\ pc'[t] = "recv" /\ ask'[t] = command /\ ctx'[t] = ctx[t]
    BY <1>4, AskAlone
  <2> QED
    BY <1>1, <1>4, <2>1 DEF Held, Holding
<1>5. ASSUME Ask(t, "WAIT", "wait") /\ UNCHANGED <<mMutex, name, ctx, hCard>>
      PROVE  Result
  <2>1. Alone(t) /\ pc'[t] = "wait" /\ ask'[t] = "WAIT" /\ ctx'[t] = ctx[t]
    BY <1>5, AskAlone
  <2> QED
    BY <1>1, <1>5, <2>1 DEF Held, Holding
<1>6. ASSUME /\ pc' = [pc EXCEPT ![t] = "compare"] /\ ask' = [ask EXCEPT ![t] = "none"]
             /\ UNCHANGED <<mMutex, name, ctx, hCard>>
      PROVE  Result
  BY <1>1, <1>6 DEF Alone, Held, Holding, ThreadTypes
<1>7. Result
  BY <1>2, <1>3, <1>4, <1>5, <1>6 DEF Ends
<1> HIDE DEF Result
<1>8. HoldersHave' /\ MutexHeld'
  BY <1>1, <1>7, MutexKept DEF Result
<1>9. CallsKnown'
  BY <1>7, CallsKept DEF Result
<1> QED
  BY <1>1, <1>7, <1>8, <1>9 DEF Result

LEMMA TalkEnds ==
  ASSUME TypeOK, NEW t \in Threads,
         MessageReceive(t) \/ CommError(t) \/ Compare(t) \/ Signalled(t) \/ TimedOut(t)
  PROVE  Ends(t) /\ pc[t] \in Holding /\ UNCHANGED <<forgotten, reader, ehPc>>
<1>1. CASE MessageReceive(t)
  <2> DEFINE m == Head(replies[ctx[t]])
  <2>1. pc[t] = "recv" /\ UNCHANGED <<forgotten, reader, ehPc>>
    BY <1>1 DEF MessageReceive, daemonVars
  <2>2. \/ TakeOther(t) \/ TakeReaders(t, m) \/ TakeStopped(t, m) \/ TakeAnswer(t, m)
    BY <1>1 DEF MessageReceive
  <2>3. Ends(t)
    <3>1. CASE TakeOther(t)
      BY <3>1 DEF TakeOther, Ends
    <3>2. CASE TakeReaders(t, m)
      BY <3>2 DEF TakeReaders, Ends
    <3>3. CASE TakeStopped(t, m)
      BY <3>3 DEF TakeStopped, Ends
    <3>4. CASE TakeAnswer(t, m)
      BY <3>4 DEF TakeAnswer, Ends
    <3> QED
      BY <2>2, <3>1, <3>2, <3>3, <3>4
  <2> QED
    BY <2>1, <2>3 DEF Holding
<1>2. CASE CommError(t)
  BY <1>2 DEF CommError, Ends, Holding, wireVars, daemonVars, historyVars
<1>3. CASE Compare(t)
  BY <1>3 DEF Compare, Ends, Holding, daemonVars, historyVars
<1>4. CASE Signalled(t)
  <2>1. pc[t] = "wait" /\ UNCHANGED <<forgotten, reader, ehPc>>
    BY <1>4 DEF Signalled, daemonVars
  <2>2. \/ TakeOther(t) \/ (Finish(t) /\ UNCHANGED requests)
        \/ /\ Ask(t, "GET_READERS_STATE", "recv") /\ UNCHANGED <<mMutex, ctx, hCard>>
           /\ UNCHANGED name \/ name' = [name EXCEPT ![t] = "EXPIRED"]
    BY <1>4 DEF Signalled
  <2>3. Ends(t)
    BY <2>2, TypeParts DEF TakeOther, Ends, ThreadTypes
  <2> QED
    BY <2>1, <2>3 DEF Holding
<1>5. CASE TimedOut(t)
  <2>1. \A u \in Threads : u # t => name'[u] = name[u]
    BY <1>5, TypeParts DEF TimedOut, ThreadTypes
  <2> QED
    BY <1>5, <2>1 DEF TimedOut, Ends, Holding, daemonVars
<1> QED
  BY <1>1, <1>2, <1>3, <1>4, <1>5

\* What taking the mutex does.
LEMMA LockKeeps ==
  ASSUME TypeOK, HoldersHave, MutexHeld, CallsKnown, NEW t \in Threads, Lock(t)
  PROVE  /\ HoldersHave' /\ MutexHeld' /\ CallsKnown' /\ Alone(t)
         /\ ctx[t] \in Contexts /\ mMutex[ctx[t]] = NoThread
         /\ \A d \in Contexts : d # ctx[t] => mMutex'[d] = mMutex[d]
         /\ Held(t, ctx[t]) \/ Lost(t, ctx[t]) \/ Away(t, ctx[t])
<1> ThreadTypes /\ LibTypes
  BY TypeParts
<1>1. /\ ctx[t] \in Contexts /\ mMutex[ctx[t]] = NoThread /\ pc[t] \notin Holding
      /\ name[t] \in HandleCalls \cup ContextCalls /\ ctx[t] \in contextMapList
  BY DEF Lock, CallsKnown, Holding
<1> DEFINE Result ==
      /\ Alone(t)
      /\ Held(t, ctx[t]) \/ Lost(t, ctx[t]) \/ Away(t, ctx[t])
      /\ \A d \in Contexts : d # ctx[t] => mMutex'[d] = mMutex[d]
      /\ pc'[t] # "idle" => ctx'[t] \in Contexts
      /\ pc'[t] = "lock" => name'[t] \in HandleCalls \cup ContextCalls
      /\ pc'[t] = "recv" => ask'[t] \notin {"WAIT", "none"}
      /\ forgotten \subseteq forgotten'
<1>2. ASSUME Acquire(t), forgotten' = forgotten \cup {ctx[t]}, Return(t)
      PROVE  Result
  BY <1>1, <1>2, ReturnAlone DEF Acquire, Lost, Holding, LibTypes
<1>3. ASSUME Return(t), UNCHANGED <<mMutex, forgotten>>
      PROVE  Result
  BY <1>1, <1>3, ReturnAlone DEF Away, Holding
<1>4. ASSUME name[t] # "LIST_GROUPS", Acquire(t), Ask(t, FirstCommand(name[t]), "recv"),
             UNCHANGED <<name, ctx, hCard, dwEventState>>, UNCHANGED forgotten
      PROVE  Result
  <2>1. FirstCommand(name[t]) \in Commands \ {"WAIT", "STOP", "none"}
    BY <1>1, <1>4, CommandType
  <2>2. Alone(t) /\ pc'[t] = "recv" /\ ask'[t] = FirstCommand(name[t]) /\ ctx'[t] = ctx[t]
    BY <1>4, AskAlone
  <2> QED
    BY <1>1, <1>4, <2>1, <2>2 DEF Acquire, Held, Holding, LibTypes
<1>5. Result
  BY <1>2, <1>3, <1>4 DEF Lock
<1> HIDE DEF Result
<1>6. HoldersHave' /\ MutexHeld'
  BY <1>1, <1>5, MutexKept DEF Result
<1>7. CallsKnown'
  BY <1>5, CallsKept DEF Result
<1> QED
  BY <1>1, <1>5, <1>6, <1>7 DEF Result

\* Steps of a thread that is not in the middle of a call with the mutex.
LEMMA AwayKeeps ==
  ASSUME TypeOK, HoldersHave, MutexHeld, CallsKnown, NEW t \in Threads, NEW c \in Contexts,
         Alone(t), UNCHANGED <<mMutex, forgotten>>, pc[t] \notin Holding, pc'[t] \notin Holding,
         pc'[t] # "idle" => ctx'[t] \in Contexts,
         pc'[t] = "lock" => name'[t] \in HandleCalls \cup ContextCalls
  PROVE  HoldersHave' /\ MutexHeld' /\ CallsKnown'
<1>1. Away(t, c)
  BY DEF Away
<1>2. HoldersHave' /\ MutexHeld'
  BY <1>1, MutexKept
<1> QED
  BY <1>2, CallsKept DEF Holding

LEMMA MutexStep ==
  ASSUME MutexInv, [Next]_vars
  PROVE  MutexInv'
<1> TypeOK /\ HoldersHave /\ MutexHeld /\ CallsKnown /\ CountRoom /\ ThreadTypes
  BY TypeParts DEF MutexInv
<1> DEFINE Goal == HoldersHave' /\ MutexHeld' /\ CallsKnown' /\ CountRoom'
<1>1. UNCHANGED <<reader, ehPc>> => CountRoom'
  BY DEF CountRoom
<1>2. UNCHANGED threadVars /\ UNCHANGED <<mMutex, forgotten>> => HoldersHave' /\ MutexHeld' /\ CallsKnown'
  BY DEF threadVars, HoldersHave, MutexHeld, CallsKnown
<1>3. ASSUME NEW t \in Threads, NEW c \in Contexts, SCardEstablishContext(t, c)
      PROVE  Goal
  BY <1>1, <1>2, <1>3 DEF SCardEstablishContext, historyVars
<1>4. ASSUME NEW t \in Threads, NEW c \in Contexts, SCardCancel(t, c)
      PROVE  Goal
  <2>1. /\ Alone(t) /\ pc[t] \notin Holding /\ pc'[t] = "cancel" /\ ctx'[t] \in Contexts
        /\ UNCHANGED <<mMutex, forgotten>>
    BY <1>4 DEF SCardCancel, Alone, Holding, libVars, historyVars, ThreadTypes
  <2>2. HoldersHave' /\ MutexHeld' /\ CallsKnown'
    BY <2>1, AwayKeeps DEF Holding
  <2> QED
    BY <1>1, <1>4, <2>2 DEF SCardCancel, daemonVars
<1>5. ASSUME NEW t \in Threads, NEW call \in HandleCalls \cup ContextCalls, NEW c \in contextMapList,
             NEW h \in Handles \cup {NoHandle}, Start(t, call, c, h)
      PROVE  Goal
  <2>1. c \in Contexts
    BY TypeParts DEF LibTypes
  <2>2. /\ Alone(t) /\ pc[t] \notin Holding /\ pc'[t] = "lock" /\ ctx'[t] \in Contexts /\ name'[t] = call
        /\ UNCHANGED <<mMutex, forgotten>>
    BY <1>5, <2>1 DEF Start, Alone, Holding, libVars, historyVars, ThreadTypes
  <2>3. HoldersHave' /\ MutexHeld' /\ CallsKnown'
    BY <2>1, <2>2, AwayKeeps DEF Holding
  <2> QED
    BY <1>1, <1>5, <2>3 DEF Start, daemonVars
<1>6. ASSUME NEW t \in Threads, Begins(t)
      PROVE  Goal
  BY <1>3, <1>4, <1>5, <1>6, BeginsCases
<1>7. ASSUME NEW t \in Threads, Lock(t)
      PROVE  Goal
  BY <1>1, <1>7, LockKeeps DEF Lock, daemonVars
<1>8. ASSUME NEW t \in Threads, LockFreed(t)
      PROVE  Goal
  <2>1. /\ Alone(t) /\ pc[t] \notin Holding /\ pc'[t] \in {"idle", "stuck"}
        /\ pc'[t] = "stuck" => ctx'[t] = ctx[t]
        /\ UNCHANGED <<mMutex, forgotten, reader, ehPc>> /\ ctx[t] \in Contexts
    BY <1>8, ReturnAlone DEF LockFreed, Alone, Holding, libVars, daemonVars, historyVars, ThreadTypes, CallsKnown
  <2>2. HoldersHave' /\ MutexHeld' /\ CallsKnown'
    BY <2>1, AwayKeeps DEF Holding
  <2> QED
    BY <1>1, <2>1, <2>2
<1>9. ASSUME NEW t \in Threads,
             MessageReceive(t) \/ CommError(t) \/ Compare(t) \/ Signalled(t) \/ TimedOut(t)
      PROVE  Goal
  BY <1>1, <1>9, TalkEnds, EndsKeep
<1>10. ASSUME NEW t \in Threads, SCardRemoveContext(t) \/ ServeCancel(t)
       PROVE  Goal
  <2>1. /\ Return(t) /\ pc[t] \in {"remove", "cancel"} /\ ctx[t] \in Contexts
        /\ UNCHANGED <<mMutex, forgotten, reader, ehPc>>
    BY <1>10 DEF SCardRemoveContext, ServeCancel, libVars, daemonVars, historyVars, CallsKnown
  <2>2. HoldersHave' /\ MutexHeld' /\ CallsKnown'
    BY <2>1, ReturnAlone, AwayKeeps DEF Holding
  <2> QED
    BY <1>1, <2>1, <2>2
<1>11. ASSUME NEW c \in Contexts, Serve(c)
       PROVE  Goal
  BY <1>1, <1>2, <1>11 DEF Serve, libVars, historyVars
<1>12. ASSUME ReaderMoves PROVE Goal
  <2>1. CountRoom'
    BY <1>12, TypeParts DEF ReaderMoves, CountRoom, LibTypes, Reader
  <2> QED
    BY <1>2, <1>12, <2>1 DEF ReaderMoves, libVars, historyVars
<1>13. ASSUME CountEvent \/ EHSignalEventToClients PROVE Goal
  BY <1>2, <1>13 DEF CountEvent, EHSignalEventToClients, CountRoom, libVars, historyVars
<1>14. ASSUME UNCHANGED vars PROVE Goal
  BY <1>1, <1>2, <1>14 DEF vars, libVars, daemonVars, historyVars
<1> HIDE DEF Goal
<1>15. Goal
  BY <1>6, <1>7, <1>8, <1>9, <1>10, <1>11, <1>12, <1>13, <1>14
  DEF Next, Continues, Daemon, StatusThread
<1>16. TypeOK'
  BY TypeStep, TypePartsNext
<1> QED
  BY <1>15, <1>16 DEF MutexInv, Goal

LEMMA MutexInit ==
  ASSUME Init
  PROVE  MutexInv
<1>1. Unread \in Reader
  BY BoundAssumption DEF Unread, Reader, Cards
<1>2. Unaware \in Belief
  BY CounterWrapAssumption DEF Unaware, Belief
<1>3. ThreadTypes /\ HistoryTypes
  BY DEF Init, ThreadTypes, HistoryTypes, Places, CallNames, Commands
<1>4. LibTypes
  BY <1>1, <1>2 DEF Init, LibTypes
<1>5. WireTypes
  BY EmptyAt DEF Init, WireTypes
<1>6. DaemonTypes
  BY BoundAssumption DEF Init, DaemonTypes
<1>7. TypeOK
  BY <1>3, <1>4, <1>5, <1>6, TypeParts
<1>8. HoldersHave /\ MutexHeld /\ CallsKnown /\ CountRoom
  BY DEF Init, HoldersHave, MutexHeld, CallsKnown, CountRoom, Holding
<1> QED
  BY <1>7, <1>8 DEF MutexInv

\* Whoever holds a context's mutex is in a call on it: the inductive
\* invariant of the library, with the types.
THEOREM MutexInvariant == Spec => []MutexInv
BY MutexInit, MutexStep, PTL DEF Spec

\* The mutex of a context is with a thread in a call on it, unless a call has
\* found its handle closed by another thread (winscard_clnt.c:1167-1174).
THEOREM MutexIsReturned == Spec => []MutexReturned
<1>1. MutexInv => MutexReturned
  BY TypeParts DEF MutexInv, MutexHeld, MutexReturned, Holding, LibTypes
<1> QED
  BY <1>1, MutexInvariant, PTL
-----------------------------------------------------------------------------
(* What is on the way for a context.                                       *)

\* The thread that waits for an answer on context d is still there.
HolderStays(d) ==
  mMutex[d] \in Threads /\ ctx[mMutex[d]] = d /\ pc[mMutex[d]] \in {"recv", "wait"} =>
    /\ mMutex'[d] = mMutex[d]
    /\ ctx'[mMutex[d]] = d /\ pc'[mMutex[d]] = pc[mMutex[d]]
    /\ ask'[mMutex[d]] = ask[mMutex[d]] /\ hCard'[mMutex[d]] = hCard[mMutex[d]]

Listens(c) == mMutex[c] \in Threads /\ ctx[mMutex[c]] = c /\ pc[mMutex[c]] = "wait"

NoAnswer(c) ==
  /\ \A i \in DOMAIN requests[c] : ~IsReal(requests[c][i])
  /\ \A i \in DOMAIN replies[c] : ~Told(replies[c][i])
NoNote(c) ==
  /\ \A i \in DOMAIN requests[c] : requests[c][i].command # "STOP"
  /\ \A i \in DOMAIN replies[c] : replies[c][i].kind # "WAIT"

LEMMA OthersStay ==
  ASSUME NEW t \in Threads, NEW d \in Contexts, Alone(t), mMutex'[d] = mMutex[d],
         ctx[t] # d \/ pc[t] \notin {"recv", "wait"}
  PROVE  HolderStays(d)
BY DEF Alone, HolderStays

LEMMA AwaitsStays ==
  ASSUME NEW d \in Contexts, HolderStays(d), NEW command
  PROVE  /\ Awaits(d, command) => Awaits(d, command)' /\ hCard'[mMutex'[d]] = hCard[mMutex[d]]
         /\ Listens(d) => Listens(d)'
BY DEF HolderStays, Awaits, Listens

LEMMA QuietKeeps ==
  ASSUME NEW d \in Contexts, HolderStays(d), requests'[d] = requests[d], replies'[d] = replies[d],
         server'[d] = "closed" => server[d] = "closed"
  PROVE  (OneAnswer(d) => OneAnswer(d)') /\ (OneNote(d) => OneNote(d)')
<1>1. ASSUME OneAnswer(d) PROVE OneAnswer(d)'
  BY <1>1, AwaitsStays DEF OneAnswer, IsReal, Told
<1>2. ASSUME OneNote(d) PROVE OneNote(d)'
  BY <1>2, AwaitsStays DEF OneNote, Listens, Awaits
<1> QED
  BY <1>1, <1>2

LEMMA ClearIsOne ==
  ASSUME NEW c \in Contexts
  PROVE  /\ NoAnswer(c)' => OneAnswer(c)'
         /\ NoNote(c)' => OneNote(c)'
BY DEF NoAnswer, NoNote, OneAnswer, OneNote, IsReal, Told

LEMMA FreeIsClear ==
  ASSUME NEW c \in Contexts
  PROVE  /\ OneAnswer(c) /\ (\A command \in Real : ~Awaits(c, command)) => NoAnswer(c)
         /\ OneNote(c) /\ ~Awaits(c, "STOP") /\ ~Listens(c) => NoNote(c)
<1>1. OneAnswer(c) /\ (\A command \in Real : ~Awaits(c, command)) => NoAnswer(c)
  BY DEF OneAnswer, NoAnswer, IsReal, Told
<1>2. OneNote(c) /\ ~Awaits(c, "STOP") /\ ~Listens(c) => NoNote(c)
  BY DEF OneNote, NoNote, Awaits, Listens
<1> QED
  BY <1>1, <1>2

\* A request that is sent when nothing of its class is on the way.
LEMMA AskIsOne ==
  ASSUME TypeOK, NEW t \in Threads, NEW c \in Contexts, ctx[t] = c, NEW command \in Commands, NEW where \in Places,
         Ask(t, command, where), mMutex'[c] = t, ctx'[t] = c, hCard'[t] = hCard[t], server'[c] = server[c],
         command # "WAIT" => where = "recv"
  PROVE  /\ (/\ \A i \in DOMAIN requests[c] : ~IsReal(requests[c][i])
             /\ \A i \in DOMAIN replies'[c] : ~Told(replies'[c][i])) => OneAnswer(c)'
         /\ (/\ \A i \in DOMAIN requests[c] : requests[c][i].command # "STOP"
             /\ \A i \in DOMAIN replies'[c] : replies'[c][i].kind # "WAIT") => OneNote(c)'
<1> DEFINE r == [command |-> command, handle |-> hCard[t]]
<1>1. requests[c] \in Seq(Request) /\ r \in Request /\ pc'[t] = where /\ ask'[t] = command
  BY TypeParts DEF WireTypes, ThreadTypes, Request, Ask
<1>2. r.command = command /\ r.handle = hCard[t]
  OBVIOUS
<1> HIDE DEF r
<1>3. requests'[c] = requests[c] \/ (server[c] # "closed" /\ requests'[c] = Append(requests[c], r))
  BY AskType DEF r
<1>4. CASE requests'[c] = requests[c]
  BY <1>4 DEF OneAnswer, OneNote, IsReal, Told
<1>5. CASE server[c] # "closed" /\ requests'[c] = Append(requests[c], r)
  <2>1. /\ DOMAIN requests[c] = 1..Len(requests[c]) /\ DOMAIN requests'[c] = 1..Len(requests[c]) + 1
        /\ Len(requests[c]) \in Nat
        /\ \A i \in DOMAIN requests[c] : requests'[c][i] = requests[c][i]
        /\ requests'[c][Len(requests[c]) + 1] = r
    BY <1>1, <1>5, AppendAt
  <2>2. \A i \in DOMAIN requests'[c] : i = Len(requests[c]) + 1 \/ i \in DOMAIN requests[c]
    BY <2>1
  <2>3. command # "WAIT" => Awaits(c, command)' /\ hCard'[mMutex'[c]] = r.handle
    BY <1>1, <1>2 DEF Awaits
  <2>4. ASSUME /\ \A i \in DOMAIN requests[c] : ~IsReal(requests[c][i])
               /\ \A i \in DOMAIN replies'[c] : ~Told(replies'[c][i])
        PROVE  OneAnswer(c)'
    <3>1. \A i \in DOMAIN requests'[c] : IsReal(requests'[c][i]) =>
            i = Len(requests[c]) + 1 /\ requests'[c][i] = r /\ command # "WAIT"
      BY <1>2, <2>1, <2>2, <2>4 DEF IsReal, Real
    <3> QED
      BY <1>2, <1>5, <2>3, <2>4, <3>1 DEF OneAnswer, IsReal, Told
  <2>5. ASSUME /\ \A i \in DOMAIN requests[c] : requests[c][i].command # "STOP"
               /\ \A i \in DOMAIN replies'[c] : replies'[c][i].kind # "WAIT"
        PROVE  OneNote(c)'
    <3>1. \A i \in DOMAIN requests'[c] : requests'[c][i].command = "STOP" =>
            i = Len(requests[c]) + 1 /\ requests'[c][i] = r /\ command = "STOP"
      BY <1>2, <2>1, <2>2, <2>5
    <3> QED
      BY <1>2, <1>5, <2>3, <2>5, <3>1 DEF OneNote
  <2> QED
    BY <2>4, <2>5
<1> QED
  BY <1>3, <1>4, <1>5

\* An answer of the right kind has been taken: nothing of its class is left.
LEMMA TakenIsLast ==
  ASSUME TypeOK, NEW t \in Threads, NEW c \in Contexts, ctx[t] = c, mMutex[c] = t, replies[c] # <<>>,
         replies'[c] = Tail(replies[c]), NoStop,
         \/ pc[t] = "recv" /\ ask[t] # "WAIT" /\ Head(replies[c]).kind = Kind(ask[t])
         \/ pc[t] = "wait" /\ Head(replies[c]).kind = "WAIT"
  PROVE  /\ OneAnswer(c) => /\ \A i \in DOMAIN requests[c] : ~IsReal(requests[c][i])
                            /\ \A i \in DOMAIN replies'[c] : ~Told(replies'[c][i])
         /\ OneNote(c) => /\ \A i \in DOMAIN requests[c] : requests[c][i].command # "STOP"
                          /\ \A i \in DOMAIN replies'[c] : replies'[c][i].kind # "WAIT"
<1> DEFINE m == Head(replies[c])
<1>1. /\ m = replies[c][1] /\ 1 \in DOMAIN replies[c] /\ m \in Message
      /\ \A i \in DOMAIN replies'[c] : i + 1 \in DOMAIN replies[c] /\ replies'[c][i] = replies[c][i + 1] /\ i + 1 # 1
  BY TypeParts, TailAt DEF WireTypes
<1>2. m.kind \in Commands \ {"STOP"}
  BY <1>1 DEF Message, NoStop
<1> HIDE DEF m
<1>3. ASSUME OneAnswer(c)
      PROVE  /\ \A i \in DOMAIN requests[c] : ~IsReal(requests[c][i])
             /\ \A i \in DOMAIN replies'[c] : ~Told(replies'[c][i])
  <2>1. CASE Told(m)
    BY <1>1, <1>3, <2>1 DEF OneAnswer
  <2>2. CASE ~Told(m)
    <3>1. m.kind = "WAIT"
      BY <1>2, <2>2 DEF Told, Real
    <3>2. \A command \in Real : ~Awaits(c, command)
      BY <3>1 DEF Awaits, Kind, Real, m
    <3>3. NoAnswer(c)
      BY <1>3, <3>2, FreeIsClear
    <3> QED
      BY <1>1, <3>3 DEF NoAnswer
  <2> QED
    BY <2>1, <2>2
<1>4. ASSUME OneNote(c)
      PROVE  /\ \A i \in DOMAIN requests[c] : requests[c][i].command # "STOP"
             /\ \A i \in DOMAIN replies'[c] : replies'[c][i].kind # "WAIT"
  <2>1. CASE m.kind = "WAIT"
    BY <1>1, <1>4, <2>1 DEF OneNote
  <2>2. CASE m.kind # "WAIT"
    <3>1. ~Awaits(c, "STOP") /\ ~Listens(c)
      BY <2>2 DEF Awaits, Listens, Kind, m
    <3>2. NoNote(c)
      BY <1>4, <3>1, FreeIsClear
    <3> QED
      BY <1>1, <3>2 DEF NoNote
  <2> QED
    BY <2>1, <2>2
<1> QED
  BY <1>3, <1>4

\* An answer of another kind is only taken on a context with too many notes.
LEMMA HeadMatches ==
  ASSUME TypeOK, CallsKnown, NEW t \in Threads, NEW c \in Contexts, ctx[t] = c, mMutex[c] = t, replies[c] # <<>>,
         NoStop, OneAnswer(c), OneNote(c), pc[t] \in {"recv", "wait"}
  PROVE  Head(replies[c]).kind = IF pc[t] = "recv" THEN Kind(ask[t]) ELSE "WAIT"
<1> DEFINE m == Head(replies[c])
<1>1. m = replies[c][1] /\ 1 \in DOMAIN replies[c] /\ m \in Message
  BY TypeParts, TailAt DEF WireTypes
<1>2. m.kind \in Commands \ {"STOP"}
  BY <1>1 DEF Message, NoStop
<1>3. CASE Told(m)
  <2>1. Awaits(c, m.kind) /\ m.kind \in Real
    BY <1>1, <1>3 DEF OneAnswer, Told
  <2> QED
    BY <2>1 DEF Awaits, Kind, Real
<1>4. CASE ~Told(m)
  <2>1. m.kind = "WAIT"
    BY <1>2, <1>4 DEF Told, Real
  <2> QED
    BY <1>1, <2>1 DEF OneNote, Kind
<1> QED
  BY <1>3, <1>4

\* A step of a thread that has the mutex, once nothing is left of what it has taken.
LEMMA EndsClear ==
  ASSUME TypeOK, HoldersHave, MutexHeld, CallsKnown, NEW t \in Threads, pc[t] \in Holding, Ends(t),
         UNCHANGED forgotten, NEW c \in Contexts, c = ctx[t], server'[c] = server[c]
  PROVE  /\ (/\ \A i \in DOMAIN requests[c] : ~IsReal(requests[c][i])
             /\ \A i \in DOMAIN replies'[c] : ~Told(replies'[c][i])) => OneAnswer(c)'
         /\ (/\ \A i \in DOMAIN requests[c] : requests[c][i].command # "STOP"
             /\ \A i \in DOMAIN replies'[c] : replies'[c][i].kind # "WAIT") => OneNote(c)'
         /\ \A d \in Contexts : d # c => requests'[d] = requests[d]
<1>1. mMutex[c] = t
  BY DEF HoldersHave
<1>2. CASE UNCHANGED requests
  BY <1>2, ClearIsOne DEF NoAnswer, NoNote, IsReal, Told
<1>3. ASSUME NEW command \in {"STATUS", "GET_READERS_STATE", "STOP", "WAIT"}, NEW where \in {"recv", "wait"},
             Ask(t, command, where), UNCHANGED <<mMutex, ctx, hCard>>, command # "WAIT" => where = "recv"
      PROVE  /\ (/\ \A i \in DOMAIN requests[c] : ~IsReal(requests[c][i])
                 /\ \A i \in DOMAIN replies'[c] : ~Told(replies'[c][i])) => OneAnswer(c)'
             /\ (/\ \A i \in DOMAIN requests[c] : requests[c][i].command # "STOP"
                 /\ \A i \in DOMAIN replies'[c] : replies'[c][i].kind # "WAIT") => OneNote(c)'
             /\ \A d \in Contexts : d # c => requests'[d] = requests[d]
  <2>1. command \in Commands /\ where \in Places
    BY DEF Commands, HandleCalls, Places
  <2> QED
    BY <1>1, <1>3, <2>1, AskIsOne, AskType
<1> QED
  BY <1>2, <1>3 DEF Ends

\* What a thread that talks to pcscd leaves as it was.
LEMMA TalkLeaves ==
  ASSUME TypeOK, NEW t \in Threads,
         MessageReceive(t) \/ CommError(t) \/ Compare(t) \/ Signalled(t) \/ TimedOut(t)
  PROVE  /\ UNCHANGED <<contextMapList, server, cardsList, waiting>>
         /\ UNCHANGED strayed \/ TimedOut(t)
         /\ UNCHANGED mismatched \/ MessageReceive(t) \/ Signalled(t)
         /\ UNCHANGED replies \/ ((MessageReceive(t) \/ Signalled(t)) /\ replies[ctx[t]] # <<>> /\ Take(ctx[t]))
BY DEF MessageReceive, CommError, Compare, Signalled, TimedOut, daemonVars, wireVars, historyVars

\* What a thread has taken is of the right kind, or the context is marked.
LEMMA ReadMatches ==
  ASSUME TypeOK, NEW t \in Threads, MessageReceive(t) \/ Signalled(t)
  PROVE  \/ /\ UNCHANGED mismatched
            /\ \/ pc[t] = "recv" /\ Head(replies[ctx[t]]).kind = Kind(ask[t])
               \/ pc[t] = "wait" /\ Head(replies[ctx[t]]).kind = "WAIT"
         \/ /\ mismatched' = mismatched \cup {ctx[t]}
            /\ \/ pc[t] = "recv" /\ Head(replies[ctx[t]]).kind # Kind(ask[t])
               \/ pc[t] = "wait" /\ Head(replies[ctx[t]]).kind # "WAIT"
<1>1. CASE MessageReceive(t)
  <2> DEFINE m == Head(replies[ctx[t]])
  <2>1. pc[t] = "recv"
    BY <1>1 DEF MessageReceive
  <2>2. CASE m.kind # Kind(ask[t])
    BY <1>1, <2>1, <2>2 DEF MessageReceive, TakeOther
  <2>3. CASE m.kind = Kind(ask[t])
    <3>1. TakeReaders(t, m) \/ TakeStopped(t, m) \/ TakeAnswer(t, m)
      BY <1>1, <2>3 DEF MessageReceive
    <3>2. UNCHANGED mismatched
      BY <3>1 DEF TakeReaders, TakeStopped, TakeAnswer
    <3> QED
      BY <2>1, <2>3, <3>2
  <2> QED
    BY <2>2, <2>3
<1>2. CASE Signalled(t)
  <2> DEFINE m == Head(replies[ctx[t]])
  <2>1. CASE m.kind # "WAIT"
    BY <1>2, <2>1 DEF Signalled, TakeOther
  <2>2. CASE m.kind = "WAIT"
    BY <1>2, <2>2 DEF Signalled
  <2> QED
    BY <2>1, <2>2
<1> QED
  BY <1>1, <1>2

LEMMA TalkKeeps ==
  ASSUME MutexInv, WireInv, NEW t \in Threads,
         MessageReceive(t) \/ CommError(t) \/ Compare(t) \/ Signalled(t) \/ TimedOut(t)
  PROVE  /\ \A c \in Contexts \ mismatched' : OneAnswer(c)'
         /\ \A c \in Contexts \ strayed' : OneNote(c)'
         /\ AnswersMatch' /\ NoStop'
<1> /\ TypeOK /\ HoldersHave /\ MutexHeld /\ CallsKnown /\ NoStop /\ AnswersMatch /\ NewUntouched
    /\ ThreadTypes /\ WireTypes
  BY TypeParts DEF MutexInv, WireInv
<1> DEFINE c == ctx[t]
<1>1. Ends(t) /\ pc[t] \in Holding /\ UNCHANGED forgotten
  BY TalkEnds
<1>2. /\ c \in Contexts /\ mMutex[c] = t /\ Alone(t)
      /\ \A d \in Contexts : d # c => mMutex'[d] = mMutex[d]
  BY <1>1, EndsKeep
<1>3. UNCHANGED server
  BY TalkLeaves
<1>4. /\ \A d \in Contexts : d # c => replies'[d] = replies[d]
      /\ UNCHANGED replies \/ ((MessageReceive(t) \/ Signalled(t)) /\ replies[c] # <<>> /\ replies'[c] = Tail(replies[c]))
  BY <1>2, TalkLeaves, TakeType
<1> HIDE DEF c
<1>5. pc[t] = "recv" => ask[t] # "WAIT"
  BY DEF CallsKnown
<1>6. CASE MessageReceive(t) \/ Signalled(t)
  <2>1. replies[c] # <<>> /\ replies'[c] = Tail(replies[c])
    <3>1. replies[c] # <<>> /\ Take(c)
      BY <1>6 DEF MessageReceive, Signalled, c
    <3> QED
      BY <1>2, <3>1, TakeType
  <2>2. ASSUME UNCHANGED mismatched
        PROVE  \/ pc[t] = "recv" /\ Head(replies[c]).kind = Kind(ask[t])
               \/ pc[t] = "wait" /\ Head(replies[c]).kind = "WAIT"
               \/ c \in mismatched
    BY <1>6, <2>2, ReadMatches DEF c
  <2>3. mismatched \subseteq mismatched'
    BY <1>6, ReadMatches
  <2>4. AnswersMatch' /\ UNCHANGED strayed
    <3>1. UNCHANGED strayed
      BY <1>6 DEF MessageReceive, Signalled
    <3>2. ASSUME ~UNCHANGED mismatched PROVE c \in strayed
      <4>1. /\ mismatched' = mismatched \cup {c}
            /\ \/ pc[t] = "recv" /\ Head(replies[c]).kind # Kind(ask[t])
               \/ pc[t] = "wait" /\ Head(replies[c]).kind # "WAIT"
        BY <1>6, <3>2, ReadMatches DEF c
      <4>2. CASE c \in mismatched
        BY <4>2 DEF AnswersMatch
      <4>3. CASE c \notin mismatched /\ c \notin strayed
        <5>1. OneAnswer(c) /\ OneNote(c)
          BY <1>2, <4>3 DEF WireInv
        <5> QED
          BY <1>2, <2>1, <4>1, <5>1, HeadMatches DEF c
      <4> QED
        BY <4>2, <4>3
    <3> QED
      BY <1>6, <3>1, <3>2, ReadMatches DEF AnswersMatch, c
  <2>5. NoStop'
    <3>1. \A i \in DOMAIN replies'[c] : i + 1 \in DOMAIN replies[c] /\ replies'[c][i] = replies[c][i + 1]
      BY <1>2, <2>1, TailAt DEF WireTypes
    <3> QED
      BY <1>2, <1>4, <3>1 DEF NoStop
  <2>6. ASSUME NEW d \in Contexts \ mismatched' PROVE OneAnswer(d)'
    <3>1. CASE d = c
      <4>1. OneAnswer(c)
        BY <2>3, <2>6, <3>1 DEF WireInv
      <4>2. UNCHANGED mismatched
        BY <1>6, <2>6, <3>1, ReadMatches DEF c
      <4>3. \/ pc[t] = "recv" /\ Head(replies[c]).kind = Kind(ask[t])
            \/ pc[t] = "wait" /\ Head(replies[c]).kind = "WAIT"
        BY <2>2, <2>3, <2>6, <3>1, <4>2
      <4> QED
        BY <1>1, <1>2, <1>3, <1>5, <2>1, <3>1, <4>1, <4>3, TakenIsLast, EndsClear DEF c
    <3>2. CASE d # c
      <4>1. OneAnswer(d)
        BY <2>3, <2>6 DEF WireInv
      <4> QED
        BY <1>1, <1>2, <1>3, <1>4, <3>2, <4>1, OthersStay, QuietKeeps, EndsClear DEF c
    <3> QED
      BY <3>1, <3>2
  <2>7. ASSUME NEW d \in Contexts \ strayed' PROVE OneNote(d)'
    <3>1. OneNote(d)
      BY <2>4, <2>7 DEF WireInv
    <3>2. CASE d = c
      <4>1. c \notin mismatched'
        BY <2>4, <2>7, <3>2 DEF AnswersMatch
      <4>2. UNCHANGED mismatched /\ c \notin mismatched
        BY <1>6, <4>1, ReadMatches DEF c
      <4>3. \/ pc[t] = "recv" /\ Head(replies[c]).kind = Kind(ask[t])
            \/ pc[t] = "wait" /\ Head(replies[c]).kind = "WAIT"
        BY <2>2, <4>2
      <4> QED
        BY ZenonT(40), <1>1, <1>2, <1>3, <1>5, <2>1, <3>1, <3>2, <4>3, TakenIsLast, EndsClear DEF c
    <3>3. CASE d # c
      BY <1>1, <1>2, <1>3, <1>4, <3>1, <3>3, OthersStay, QuietKeeps, EndsClear DEF c
    <3> QED
      BY <3>2, <3>3
  <2> QED
    BY <2>4, <2>5, <2>6, <2>7
<1>7. CASE CommError(t) \/ Compare(t) \/ TimedOut(t)
  <2>1. UNCHANGED <<replies, mismatched>> /\ strayed \subseteq strayed'
    BY <1>7 DEF CommError, Compare, TimedOut, wireVars, historyVars
  <2>2. AnswersMatch' /\ NoStop'
    BY <2>1 DEF AnswersMatch, NoStop
  <2>3. OneAnswer(c) => NoAnswer(c)
    <3>1. CASE CommError(t)
      BY <3>1, <1>2, EmptyAt DEF CommError, OneAnswer, NoAnswer, c
    <3>2. CASE Compare(t) \/ TimedOut(t)
      <4>1. \A command \in Real : ~Awaits(c, command)
        BY <1>2, <3>2 DEF Compare, TimedOut, Awaits
      <4> QED
        BY <1>2, <4>1, FreeIsClear
    <3> QED
      BY <1>7, <3>1, <3>2
  <2>4. OneNote(c) /\ c \notin strayed' => NoNote(c)
    <3>1. CASE CommError(t)
      BY <3>1, <1>2, EmptyAt DEF CommError, OneNote, NoNote, c
    <3>2. CASE Compare(t)
      <4>1. ~Awaits(c, "STOP") /\ ~Listens(c)
        BY <1>2, <3>2 DEF Compare, Awaits, Listens
      <4> QED
        BY <1>2, <4>1, FreeIsClear
    <3>3. CASE TimedOut(t)
      <4>1. ~Awaits(c, "STOP")
        BY <1>2, <3>3 DEF TimedOut, Awaits
      <4>2. c \notin strayed' => replies[c] = <<>>
        BY <3>3 DEF TimedOut, c
      <4> QED
        BY <4>1, <4>2, EmptyAt DEF OneNote, NoNote
    <3> QED
      BY <1>7, <3>1, <3>2, <3>3
  <2>5. ASSUME NEW d \in Contexts \ mismatched' PROVE OneAnswer(d)'
    <3>1. OneAnswer(d)
      BY <2>1, <2>5 DEF WireInv
    <3>2. CASE d = c
      BY <1>1, <1>2, <1>3, <2>1, <2>3, <3>1, <3>2, EndsClear DEF c, NoAnswer
    <3>3. CASE d # c
      BY <1>1, <1>2, <1>3, <1>4, <3>1, <3>3, OthersStay, QuietKeeps, EndsClear DEF c
    <3> QED
      BY <3>2, <3>3
  <2>6. ASSUME NEW d \in Contexts \ strayed' PROVE OneNote(d)'
    <3>1. OneNote(d)
      BY <2>1, <2>6 DEF WireInv
    <3>2. CASE d = c
      BY <1>1, <1>2, <1>3, <2>1, <2>4, <2>6, <3>1, <3>2, EndsClear DEF c, NoNote
    <3>3. CASE d # c
      BY <1>1, <1>2, <1>3, <1>4, <3>1, <3>3, OthersStay, QuietKeeps, EndsClear DEF c
    <3> QED
      BY <3>2, <3>3
  <2> QED
    BY <2>2, <2>5, <2>6
<1> QED
  BY <1>6, <1>7

\* Signals that are added to what is on the way.
LEMMA NotesAdded ==
  ASSUME NEW d \in Contexts, HolderStays(d), requests'[d] = requests[d], server'[d] = server[d],
         DOMAIN replies[d] \subseteq DOMAIN replies'[d],
         \A i \in DOMAIN replies[d] : replies'[d][i] = replies[d][i],
         \A i \in DOMAIN replies'[d] \ DOMAIN replies[d] : replies'[d][i].kind = "WAIT"
  PROVE  /\ OneAnswer(d) => OneAnswer(d)'
         /\ OneNote(d) /\ replies[d] = <<>> /\ DOMAIN replies'[d] \subseteq {1} /\ Listens(d) => OneNote(d)'
         /\ (\A i \in DOMAIN replies[d] : replies[d][i].kind # "STOP") =>
              \A i \in DOMAIN replies'[d] : replies'[d][i].kind # "STOP"
<1>1. ASSUME OneAnswer(d) PROVE OneAnswer(d)'
  <2>1. \A i \in DOMAIN replies'[d] : Told(replies'[d][i]) => i \in DOMAIN replies[d] /\ Told(replies[d][i])
    BY DEF Told, Real
  <2>2. ASSUME NEW i \in DOMAIN replies'[d], Told(replies'[d][i])
        PROVE  /\ \A j \in DOMAIN replies'[d] : Told(replies'[d][j]) => i = j
               /\ Awaits(d, replies[d][i].kind)'
    <3>1. i \in DOMAIN replies[d] /\ Told(replies[d][i]) /\ replies'[d][i] = replies[d][i]
      BY <2>1, <2>2
    <3>2. Awaits(d, replies[d][i].kind)
      BY <1>1, <3>1 DEF OneAnswer
    <3>3. mMutex'[d] \in Threads /\ ctx'[mMutex'[d]] = d /\ pc'[mMutex'[d]] = "recv"
          /\ ask'[mMutex'[d]] = replies'[d][i].kind
      BY <3>1, <3>2 DEF HolderStays, Awaits
    <3> QED
      BY <1>1, <2>1, <2>2, <3>1, <3>3 DEF OneAnswer, Awaits
  <2>3. \A i \in DOMAIN requests'[d] : IsReal(requests'[d][i]) =>
          \A j \in DOMAIN replies'[d] : ~Told(replies'[d][j])
    BY <1>1, <2>1 DEF OneAnswer
  <2> QED
    BY <1>1, <2>2, <2>3, AwaitsStays DEF OneAnswer, IsReal, Told
<1>2. ASSUME OneNote(d) /\ replies[d] = <<>> /\ DOMAIN replies'[d] \subseteq {1} /\ Listens(d)
      PROVE  OneNote(d)'
  <2>1. Listens(d)'
    BY <1>2, AwaitsStays
  <2>2. \A i \in DOMAIN requests'[d] : requests'[d][i].command # "STOP"
    BY <1>2 DEF OneNote, Awaits, Listens
  <2> QED
    BY <1>2, <2>1, <2>2 DEF OneNote, Listens
<1> QED
  BY <1>1, <1>2

\* What pcscd has done with a request, for the messages on the way.
LEMMA ServeSummary ==
  ASSUME TypeOK, NEW c \in Contexts, Serve(c), NEW r, r = Head(requests[c])
  PROVE  /\ \A d \in Contexts : d # c => replies'[d] = replies[d] /\ server'[d] = server[d]
         /\ r.command \in Commands
         /\ \/ UNCHANGED replies /\ server'[c] = "closed" /\ r.command \in HandleCalls \cup {"none"}
            \/ UNCHANGED <<replies, server>> /\ r.command = "WAIT"
            \/ /\ r.command # "WAIT" /\ (server'[c] # "closed" \/ UNCHANGED server)
               /\ \E m \in Message : m.kind = Kind(r.command) /\ replies'[c] = Append(replies[c], m)
<1>1. r.command \in Commands
  BY ReadType DEF Request
<1>2. \A m \in Message : Answered(c, m) =>
        /\ replies'[c] = Append(replies[c], m)
        /\ \A d \in Contexts : d # c => replies'[d] = replies[d]
  BY TellType DEF Answered
<1>3. server \in [Contexts -> {"new", "open", "released", "closed"}] /\ reader \in Reader
  BY TypeParts DEF DaemonTypes, LibTypes
<1>4. "GET_READERS_STATE" \in Commands /\ "WAIT" \in Commands /\ "CONNECT" \in Commands /\ "RELEASE" \in Commands
  BY DEF Commands
<1>5. ASSUME NEW m \in Message, Answered(c, m), m.kind = Kind(r.command), r.command # "WAIT",
             UNCHANGED server \/ server' = [server EXCEPT ![c] = "released"]
      PROVE  /\ \A d \in Contexts : d # c => replies'[d] = replies[d] /\ server'[d] = server[d]
             /\ server'[c] # "closed" \/ UNCHANGED server
             /\ m.kind = Kind(r.command) /\ replies'[c] = Append(replies[c], m)
  BY <1>2, <1>3, <1>5
<1>6. CASE r.command = "GET_READERS_STATE"
  <2>1. [Reply("GET_READERS_STATE", "SUCCESS", NoHandle) EXCEPT !.reader = reader] \in Message
        /\ [Reply("GET_READERS_STATE", "SUCCESS", NoHandle) EXCEPT !.reader = reader].kind = "GET_READERS_STATE"
    BY <1>3, <1>4, MessageType
  <2> QED
    BY <1>1, <1>5, <1>6, <2>1, ServeCases DEF Kind, HandleCalls
<1>7. CASE r.command = "WAIT"
  BY <1>1, <1>7, ServeCases DEF HandleCalls
<1>8. CASE r.command = "STOP"
  <2>1. \A rv \in {"SUCCESS", "ERROR"} : Reply("WAIT", rv, NoHandle) \in Message /\ Reply("WAIT", rv, NoHandle).kind = "WAIT"
    BY <1>4, MessageType
  <2>2. PICK rv \in {"SUCCESS", "ERROR"} : Answered(c, Reply("WAIT", rv, NoHandle)) /\ UNCHANGED server
    BY <1>8, ServeCases DEF HandleCalls
  <2> QED
    BY <1>1, <1>5, <1>8, <2>1, <2>2 DEF Kind
<1>9. CASE r.command = "CONNECT"
  <2>1. /\ \A h \in Handles : Reply("CONNECT", "SUCCESS", h) \in Message /\ Reply("CONNECT", "SUCCESS", h).kind = "CONNECT"
        /\ Reply("CONNECT", "ERROR", NoHandle) \in Message /\ Reply("CONNECT", "ERROR", NoHandle).kind = "CONNECT"
    BY <1>4, MessageType
  <2>2. /\ UNCHANGED server
        /\ \/ \E h \in Handles : Answered(c, Reply("CONNECT", "SUCCESS", h))
           \/ Answered(c, Reply("CONNECT", "ERROR", NoHandle))
    BY <1>9, ServeCases DEF HandleCalls
  <2> QED
    BY <1>1, <1>5, <1>9, <2>1, <2>2 DEF Kind
<1>10. CASE r.command = "RELEASE"
  <2>1. Reply("RELEASE", "SUCCESS", NoHandle) \in Message /\ Reply("RELEASE", "SUCCESS", NoHandle).kind = "RELEASE"
    BY <1>4, MessageType
  <2>2. Answered(c, Reply("RELEASE", "SUCCESS", NoHandle)) /\ server' = [server EXCEPT ![c] = "released"]
    BY <1>10, ServeCases DEF HandleCalls
  <2> QED
    BY <1>1, <1>5, <1>10, <2>1, <2>2 DEF Kind
<1>11. CASE r.command \in HandleCalls \cup {"none"}
  <2>1. \A rv \in {"SUCCESS", "VIOLATION", "ERROR"} :
          Reply(r.command, rv, NoHandle) \in Message /\ Reply(r.command, rv, NoHandle).kind = r.command
    BY <1>1, <1>11, MessageType DEF HandleCalls
  <2>2. \/ UNCHANGED replies /\ server' = [server EXCEPT ![c] = "closed"]
        \/ /\ UNCHANGED server
           /\ \E rv \in {"SUCCESS", "VIOLATION", "ERROR"} : Answered(c, Reply(r.command, rv, NoHandle))
    BY <1>11, ServeCases DEF HandleCalls
  <2>3. CASE UNCHANGED replies /\ server' = [server EXCEPT ![c] = "closed"]
    BY <1>1, <1>3, <1>11, <2>3
  <2>4. CASE /\ UNCHANGED server
             /\ \E rv \in {"SUCCESS", "VIOLATION", "ERROR"} : Answered(c, Reply(r.command, rv, NoHandle))
    BY <1>1, <1>5, <1>11, <2>1, <2>4 DEF Kind, HandleCalls
  <2> QED
    BY <2>2, <2>3, <2>4
<1> QED
  BY <1>1, <1>6, <1>7, <1>8, <1>9, <1>10, <1>11 DEF Commands

LEMMA ServeKeeps ==
  ASSUME MutexInv, WireInv, NEW c \in Contexts, Serve(c)
  PROVE  /\ \A d \in Contexts \ mismatched' : OneAnswer(d)'
         /\ \A d \in Contexts \ strayed' : OneNote(d)'
         /\ AnswersMatch' /\ NoStop'
<1> TypeOK /\ NoStop /\ AnswersMatch /\ WireTypes
  BY TypeParts DEF MutexInv, WireInv
<1>0. PICK r : r = Head(requests[c])
  OBVIOUS
<1>1. /\ UNCHANGED <<strayed, mismatched>>
      /\ \A d \in Contexts : HolderStays(d)
  BY DEF Serve, libVars, threadVars, historyVars, HolderStays
<1>2. /\ \A d \in Contexts : d # c => requests'[d] = requests[d] /\ replies'[d] = replies[d] /\ server'[d] = server[d]
      /\ r.command \in Commands
  BY <1>0, ServeSummary, ReadType
<1>31. requests[c] \in Seq(Request) /\ requests[c] # <<>> /\ requests'[c] = Tail(requests[c])
  BY ReadType DEF WireTypes, Serve
<1>32. /\ r = requests[c][1] /\ 1 \in DOMAIN requests[c]
       /\ \A i \in DOMAIN requests'[c] : i + 1 \in DOMAIN requests[c] /\ requests'[c][i] = requests[c][i + 1] /\ i + 1 # 1
  BY <1>0, <1>31, TailAt
<1>33. DOMAIN requests'[c] \subseteq Nat
  BY <1>31
<1>34. \A i, j \in DOMAIN requests'[c] : i + 1 = j + 1 => i = j
  BY <1>33
<1>3. /\ r = requests[c][1] /\ 1 \in DOMAIN requests[c]
      /\ \A i \in DOMAIN requests'[c] : i + 1 \in DOMAIN requests[c] /\ requests'[c][i] = requests[c][i + 1] /\ i + 1 # 1
      /\ \A i, j \in DOMAIN requests'[c] : i + 1 = j + 1 => i = j
  BY <1>32, <1>34
<1>4. \/ UNCHANGED replies /\ server'[c] = "closed" /\ r.command \in HandleCalls \cup {"none"}
      \/ UNCHANGED <<replies, server>> /\ r.command = "WAIT"
      \/ /\ r.command # "WAIT" /\ (server'[c] # "closed" \/ UNCHANGED server)
         /\ \E m \in Message : m.kind = Kind(r.command) /\ replies'[c] = Append(replies[c], m)
  BY <1>0, ServeSummary
<1>5. ASSUME NEW m \in Message, replies'[c] = Append(replies[c], m)
      PROVE  /\ DOMAIN replies[c] = 1..Len(replies[c]) /\ Len(replies[c]) \in Nat
             /\ DOMAIN replies'[c] = 1..Len(replies[c]) + 1
             /\ \A i \in DOMAIN replies[c] : i \in DOMAIN replies'[c] /\ replies'[c][i] = replies[c][i]
             /\ \A i \in DOMAIN replies'[c] \ DOMAIN replies[c] : i = Len(replies[c]) + 1 /\ replies'[c][i] = m
  BY <1>5, AppendAt DEF WireTypes
<1>6. IsReal(r) <=> r.command \notin {"WAIT", "STOP"}
  BY <1>2 DEF IsReal, Real
<1>7. ASSUME OneAnswer(c) PROVE OneAnswer(c)'
  <2>1. CASE IsReal(r)
    <3>1. /\ \A i \in DOMAIN requests'[c] : ~IsReal(requests'[c][i])
          /\ \A i \in DOMAIN replies[c] : ~Told(replies[c][i])
          /\ Awaits(c, r.command)'
      BY <1>1, <1>3, <1>7, <2>1, AwaitsStays DEF OneAnswer
    <3>2. CASE UNCHANGED replies
      BY <3>1, <3>2, ClearIsOne DEF NoAnswer, IsReal, Told
    <3>3. ASSUME NEW m \in Message, m.kind = Kind(r.command), replies'[c] = Append(replies[c], m)
          PROVE  OneAnswer(c)'
      <4>1. m.kind = r.command
        BY <1>6, <2>1, <3>3 DEF Kind
      <4>2. \A i \in DOMAIN replies'[c] : Told(replies'[c][i]) => i = Len(replies[c]) + 1 /\ replies'[c][i] = m
        BY <1>5, <3>1, <3>3
      <4> QED
        BY <3>1, <4>1, <4>2 DEF OneAnswer, IsReal, Told
    <3> QED
      BY <1>4, <3>2, <3>3
  <2>2. CASE ~IsReal(r)
    <3>1. server'[c] = server[c] \/ server'[c] # "closed"
      BY <1>4, <1>6, <2>2 DEF HandleCalls
    <3>2. \A i \in DOMAIN replies'[c] : Told(replies'[c][i]) =>
            i \in DOMAIN replies[c] /\ replies'[c][i] = replies[c][i]
      <4>1. CASE UNCHANGED replies
        BY <4>1
      <4>2. ASSUME NEW m \in Message, m.kind = Kind(r.command), replies'[c] = Append(replies[c], m), r.command # "WAIT"
            PROVE  \A i \in DOMAIN replies'[c] : Told(replies'[c][i]) =>
                     i \in DOMAIN replies[c] /\ replies'[c][i] = replies[c][i]
        <5>1. m.kind = "WAIT"
          BY <1>6, <2>2, <4>2 DEF Kind
        <5> QED
          BY <1>5, <4>2, <5>1 DEF Told, Real
      <4> QED
        BY <1>4, <4>1, <4>2
    <3>3. /\ \A i \in DOMAIN requests'[c] : IsReal(requests'[c][i]) =>
               /\ server[c] # "closed" /\ Awaits(c, requests'[c][i].command)
               /\ hCard[mMutex[c]] = requests'[c][i].handle
               /\ \A j \in DOMAIN requests'[c] : IsReal(requests'[c][j]) => i = j
               /\ \A j \in DOMAIN replies[c] : ~Told(replies[c][j])
      BY <1>3, <1>7 DEF OneAnswer
    <3>4. ASSUME NEW i \in DOMAIN replies'[c], Told(replies'[c][i])
          PROVE  /\ \A j \in DOMAIN replies'[c] : Told(replies'[c][j]) => i = j
                 /\ Awaits(c, replies[c][i].kind)'
      <4>1. i \in DOMAIN replies[c] /\ Told(replies[c][i]) /\ replies'[c][i] = replies[c][i]
        BY <3>2, <3>4
      <4>2. Awaits(c, replies[c][i].kind)
        BY <1>7, <4>1 DEF OneAnswer
      <4>3. mMutex'[c] \in Threads /\ ctx'[mMutex'[c]] = c /\ pc'[mMutex'[c]] = "recv"
            /\ ask'[mMutex'[c]] = replies'[c][i].kind
        BY <1>1, <4>1, <4>2 DEF HolderStays, Awaits
      <4> QED
        BY <1>7, <3>2, <3>4, <4>1, <4>3 DEF OneAnswer, Awaits
    <3>6. ASSUME NEW i \in DOMAIN requests'[c], IsReal(requests'[c][i])
          PROVE  /\ server'[c] # "closed"
                 /\ \A j \in DOMAIN requests'[c] : IsReal(requests'[c][j]) => i = j
                 /\ Awaits(c, requests[c][i].command)'
                 /\ hCard'[mMutex'[c]] = requests'[c][i].handle
      <4>1. /\ server[c] # "closed" /\ Awaits(c, requests'[c][i].command)
            /\ hCard[mMutex[c]] = requests'[c][i].handle
            /\ \A j \in DOMAIN requests'[c] : IsReal(requests'[c][j]) => i = j
        BY <3>3, <3>6
      <4>2. mMutex'[c] \in Threads /\ ctx'[mMutex'[c]] = c /\ pc'[mMutex'[c]] = "recv"
            /\ ask'[mMutex'[c]] = requests'[c][i].command /\ hCard'[mMutex'[c]] = requests'[c][i].handle
        BY <1>1, <4>1 DEF HolderStays, Awaits
      <4> QED
        BY <3>1, <4>1, <4>2 DEF Awaits
    <3>5. \A i \in DOMAIN requests'[c] : IsReal(requests'[c][i]) =>
            \A j \in DOMAIN replies'[c] : ~Told(replies'[c][j])
      BY <3>2, <3>3
    <3> QED
      BY <3>4, <3>5, <3>6 DEF OneAnswer, IsReal, Told
  <2> QED
    BY <2>1, <2>2
<1>8. ASSUME OneNote(c), OneAnswer(c) PROVE OneNote(c)'
  <2>1. CASE r.command = "STOP"
    <3>1. /\ \A i \in DOMAIN requests'[c] : requests'[c][i].command # "STOP"
          /\ \A i \in DOMAIN replies[c] : replies[c][i].kind # "WAIT"
          /\ Awaits(c, "STOP")'
      BY <1>1, <1>3, <1>8, <2>1, AwaitsStays DEF OneNote
    <3>2. PICK m \in Message : replies'[c] = Append(replies[c], m)
      BY <1>4, <2>1 DEF HandleCalls
    <3>3. \A i \in DOMAIN replies'[c] : replies'[c][i].kind = "WAIT" => i = Len(replies[c]) + 1
      BY <1>5, <3>1, <3>2
    <3> QED
      BY <3>1, <3>3 DEF OneNote, Awaits
  <2>2. CASE r.command = "WAIT"
    <3>1. UNCHANGED <<replies, server>>
      BY <1>4, <2>2 DEF HandleCalls
    <3> QED
      BY <1>1, <1>3, <1>8, <3>1, AwaitsStays DEF OneNote, Listens, Awaits
  <2>3. CASE IsReal(r)
    <3>1. Awaits(c, r.command) /\ r.command \notin {"WAIT", "STOP"}
      BY <1>3, <1>6, <1>8, <2>3 DEF OneAnswer
    <3>2. ~Awaits(c, "STOP") /\ ~Listens(c)
      BY <3>1 DEF Awaits, Listens
    <3>3. NoNote(c)
      BY <1>8, <3>2, FreeIsClear
    <3>4. \A i \in DOMAIN requests'[c] : requests'[c][i].command # "STOP"
      BY <1>3, <3>3 DEF NoNote
    <3>5. \A i \in DOMAIN replies'[c] : replies'[c][i].kind # "WAIT"
      <4>1. CASE UNCHANGED replies
        BY <3>3, <4>1 DEF NoNote
      <4>2. ASSUME NEW m \in Message, m.kind = Kind(r.command), replies'[c] = Append(replies[c], m)
            PROVE  \A i \in DOMAIN replies'[c] : replies'[c][i].kind # "WAIT"
        BY <1>5, <3>1, <3>3, <4>2 DEF NoNote, Kind
      <4> QED
        BY <1>4, <4>1, <4>2
    <3> QED
      BY <3>4, <3>5, ClearIsOne DEF NoNote
  <2> QED
    BY <1>6, <2>1, <2>2, <2>3
<1>9. NoStop'
  <2> SUFFICES ASSUME NEW d \in Contexts, NEW i \in DOMAIN replies'[d] PROVE replies'[d][i].kind # "STOP"
    BY DEF NoStop
  <2>1. CASE replies'[d] = replies[d]
    BY <2>1 DEF NoStop
  <2>2. ASSUME d = c, NEW m \in Message, m.kind = Kind(r.command), replies'[c] = Append(replies[c], m)
        PROVE  replies'[d][i].kind # "STOP"
    BY <1>5, <2>2 DEF NoStop, Kind
  <2> QED
    BY <1>2, <1>4, <2>1, <2>2
<1>10. ASSUME NEW d \in Contexts \ mismatched' PROVE OneAnswer(d)'
  <2>1. OneAnswer(d)
    BY <1>1, <1>10 DEF WireInv
  <2> QED
    BY <1>1, <1>2, <1>7, <2>1, QuietKeeps
<1>11. ASSUME NEW d \in Contexts \ strayed' PROVE OneNote(d)'
  <2>1. OneNote(d) /\ OneAnswer(d)
    BY <1>1, <1>11 DEF WireInv, AnswersMatch
  <2> QED
    BY <1>1, <1>2, <1>8, <2>1, QuietKeeps
<1> QED
  BY <1>1, <1>9, <1>10, <1>11 DEF AnswersMatch

\* Only context c is concerned by a step.
Elsewhere(c) ==
  \A d \in Contexts : d # c =>
    /\ server'[d] = server[d] /\ requests'[d] = requests[d] /\ replies'[d] = replies[d]
    /\ cardsList'[d] = cardsList[d] /\ channelMapList'[d] = channelMapList[d] /\ waiting'[d] = waiting[d]

LEMMA NewKept ==
  ASSUME NewUntouched, NEW c \in Contexts, Elsewhere(c), server'[c] # "new",
         contextMapList' \subseteq contextMapList \cup {c},
         \A t \in Threads : ctx'[t] = ctx[t] \/ ctx'[t] \in {c, NoContext}
  PROVE  NewUntouched'
BY NamesAssumption DEF NewUntouched, Untouched, Elsewhere

LEMMA NewStays ==
  ASSUME NewUntouched, UNCHANGED <<server, requests, replies, cardsList, channelMapList, waiting, contextMapList>>,
         \A t \in Threads : ctx'[t] = ctx[t] \/ ctx'[t] \in contextMapList \cup {NoContext}
  PROVE  NewUntouched'
BY NamesAssumption DEF NewUntouched, Untouched

LEMMA NewTalk ==
  ASSUME MutexInv, NewUntouched, NEW t \in Threads,
         MessageReceive(t) \/ CommError(t) \/ Compare(t) \/ Signalled(t) \/ TimedOut(t)
  PROVE  NewUntouched'
<1> TypeOK /\ HoldersHave /\ MutexHeld /\ CallsKnown /\ ThreadTypes /\ LibTypes /\ WireTypes
  BY TypeParts DEF MutexInv
<1> DEFINE c == ctx[t]
<1>1. /\ Ends(t) /\ pc[t] \in Holding /\ c \in Contexts /\ Alone(t) /\ UNCHANGED forgotten
  BY TalkEnds, EndsKeep
<1>2. UNCHANGED <<contextMapList, server, cardsList, waiting>>
  BY TalkLeaves
<1>3. /\ \A d \in Contexts : d # c => requests'[d] = requests[d]
      /\ \A d \in Contexts : d # c => replies'[d] = replies[d]
  BY <1>1, <1>2, EndsClear, TalkLeaves, TakeType
<1>4. \A d \in Contexts : d # c => channelMapList'[d] = channelMapList[d]
  <2>1. CASE MessageReceive(t)
    <3> DEFINE m == Head(replies[c])
    <3>1. TakeOther(t) \/ TakeReaders(t, m) \/ TakeStopped(t, m) \/ TakeAnswer(t, m)
      BY <2>1 DEF MessageReceive
    <3>2. UNCHANGED channelMapList \/ channelMapList' = [channelMapList EXCEPT ![c] = ChannelsAfter(t, m)]
      BY <3>1 DEF TakeOther, TakeReaders, TakeStopped, TakeAnswer
    <3> QED
      BY <3>2 DEF LibTypes
  <2>2. CASE CommError(t) \/ Compare(t) \/ TimedOut(t)
    BY <2>2 DEF CommError, Compare, TimedOut
  <2>3. CASE Signalled(t)
    BY <2>3 DEF Signalled, TakeOther
  <2> QED
    BY <2>1, <2>2, <2>3
<1>5. ctx'[t] \in {c, NoContext}
  BY <1>1, FinishFrees DEF Ends, Retry
<1>6. server'[c] # "new"
  BY <1>1, <1>2 DEF NewUntouched, Untouched
<1>7. Elsewhere(c)
  BY <1>2, <1>3, <1>4 DEF Elsewhere
<1>8. \A u \in Threads : ctx'[u] = ctx[u] \/ ctx'[u] \in {c, NoContext}
  BY <1>1, <1>5 DEF Alone
<1> HIDE DEF c
<1> QED
  BY <1>1, <1>2, <1>6, <1>7, <1>8, NewKept

LEMMA NewStep ==
  ASSUME MutexInv, NewUntouched, [Next]_vars
  PROVE  NewUntouched'
<1> TypeOK /\ HoldersHave /\ MutexHeld /\ CallsKnown /\ ThreadTypes /\ LibTypes /\ WireTypes /\ DaemonTypes
  BY TypeParts DEF MutexInv
<1>1. ASSUME NEW t \in Threads, NEW c \in Contexts, SCardEstablishContext(t, c)
      PROVE  NewUntouched'
  <2>1. Elsewhere(c) /\ server'[c] # "new"
    BY <1>1 DEF SCardEstablishContext, Elsewhere, wireVars, DaemonTypes
  <2> QED
    BY <1>1, <2>1, NewKept DEF SCardEstablishContext, threadVars
<1>2. ASSUME NEW t \in Threads, NEW c \in Contexts, SCardCancel(t, c)
      PROVE  NewUntouched'
  BY <1>2, NewStays DEF SCardCancel, libVars, wireVars, daemonVars, ThreadTypes
<1>3. ASSUME NEW t \in Threads, NEW call \in HandleCalls \cup ContextCalls, NEW c \in contextMapList,
             NEW h \in Handles \cup {NoHandle}, Start(t, call, c, h)
      PROVE  NewUntouched'
  BY <1>3, NewStays DEF Start, libVars, wireVars, daemonVars, ThreadTypes
<1>4. ASSUME NEW t \in Threads, Lock(t)
      PROVE  NewUntouched'
  <2> DEFINE c == ctx[t]
  <2>1. c \in Contexts /\ Alone(t) /\ UNCHANGED <<contextMapList, channelMapList, replies, server, cardsList, waiting>>
    BY <1>4, LockKeeps DEF Lock, daemonVars
  <2>2. \A d \in Contexts : d # c => requests'[d] = requests[d]
    BY <1>4, <2>1 DEF Lock, Ask, WireTypes
  <2>3. ctx'[t] \in {c, NoContext}
    BY <1>4, ReturnAlone DEF Lock
  <2>4. server'[c] # "new"
    BY <2>1 DEF NewUntouched, Untouched
  <2>5. Elsewhere(c)
    BY <2>1, <2>2 DEF Elsewhere
  <2>6. \A u \in Threads : ctx'[u] = ctx[u] \/ ctx'[u] \in {c, NoContext}
    BY <2>1, <2>3 DEF Alone
  <2> HIDE DEF c
  <2> QED
    BY <2>1, <2>4, <2>5, <2>6, NewKept
<1>5. ASSUME NEW t \in Threads, LockFreed(t)
      PROVE  NewUntouched'
  <2>1. \A u \in Threads : ctx'[u] = ctx[u] \/ ctx'[u] = NoContext
    BY <1>5 DEF LockFreed, Return, ThreadTypes
  <2> QED
    BY <1>5, <2>1, NewStays DEF LockFreed, libVars, wireVars, daemonVars
<1>6. ASSUME NEW t \in Threads, SCardRemoveContext(t) \/ ServeCancel(t)
      PROVE  NewUntouched'
  <2> DEFINE c == ctx[t]
  <2>1. c \in Contexts /\ Return(t)
    BY <1>6 DEF SCardRemoveContext, ServeCancel, CallsKnown
  <2>2. Elsewhere(c)
    BY <1>6, <2>1 DEF SCardRemoveContext, ServeCancel, Elsewhere, libVars, daemonVars, LibTypes, WireTypes, DaemonTypes
  <2>3. server'[c] # "new" /\ contextMapList' \subseteq contextMapList
    BY <1>6, <2>1 DEF SCardRemoveContext, ServeCancel, NewUntouched, Untouched, libVars, daemonVars, DaemonTypes
  <2>4. \A u \in Threads : ctx'[u] = ctx[u] \/ ctx'[u] = NoContext
    BY <2>1 DEF Return, ThreadTypes
  <2> HIDE DEF c
  <2> QED
    BY <2>1, <2>2, <2>3, <2>4, NewKept
<1>7. ASSUME NEW c \in Contexts, Serve(c)
      PROVE  NewUntouched'
  <2>1. UNCHANGED <<contextMapList, channelMapList, ctx>> /\ server[c] \in {"open", "released"}
    BY <1>7 DEF Serve, libVars, threadVars
  <2>2. Elsewhere(c) /\ server'[c] # "new"
    <3>1. PICK r : r = Head(requests[c])
      OBVIOUS
    <3>2. /\ \A d \in Contexts : d # c => replies'[d] = replies[d] /\ server'[d] = server[d] /\ requests'[d] = requests[d]
          /\ waiting \in [Contexts -> 0..MaxWaiting] /\ cardsList \in [Contexts -> SUBSET Handles]
      BY <1>7, <3>1, ServeSummary, ReadType DEF DaemonTypes
    <3>3. \A d \in Contexts : d # c => waiting'[d] = waiting[d]
      BY <1>7, <3>1, <3>2, ServeCases
    <3>4. \A d \in Contexts : d # c => cardsList'[d] = cardsList[d]
      BY <1>7, <3>1, <3>2, ServeCases
    <3>5. server'[c] # "new"
      BY <1>7, <2>1, <3>1, ServeCases DEF DaemonTypes
    <3> QED
      BY <2>1, <3>2, <3>3, <3>4, <3>5 DEF Elsewhere
  <2> QED
    BY <2>1, <2>2, NewKept
<1>8. ASSUME ReaderMoves \/ CountEvent PROVE NewUntouched'
  BY <1>8, NewStays DEF ReaderMoves, CountEvent, libVars, threadVars, wireVars
<1>9. ASSUME EHSignalEventToClients PROVE NewUntouched'
  <2>1. UNCHANGED <<contextMapList, channelMapList, ctx, requests, server, cardsList>>
    BY <1>9 DEF EHSignalEventToClients, libVars, threadVars
  <2>2. ASSUME NEW c \in Contexts, server[c] = "new" PROVE replies'[c] = <<>> /\ waiting'[c] = 0
    <3>1. replies[c] = <<>> /\ waiting[c] = 0
      BY <2>2 DEF NewUntouched, Untouched
    <3>2. "WAIT" \in Commands
      BY DEF Commands
    <3>3. Reply("WAIT", "SUCCESS", NoHandle) \in Message
      BY <3>2, MessageType
    <3>4. replies'[c] = replies[c] \o [i \in 1..waiting[c] |-> Reply("WAIT", "SUCCESS", NoHandle)]
      BY <1>9 DEF EHSignalEventToClients
    <3>5. replies'[c] = replies[c]
      BY <3>1, <3>3, <3>4, RepeatAt DEF WireTypes
    <3> QED
      BY <1>9, <3>1, <3>5 DEF EHSignalEventToClients
  <2> QED
    BY <2>1, <2>2 DEF NewUntouched, Untouched
<1>10. ASSUME UNCHANGED vars PROVE NewUntouched'
  BY <1>10, NewStays DEF vars, libVars, threadVars, wireVars, daemonVars
<1> QED
  BY <1>1, <1>2, <1>3, <1>4, <1>5, <1>6, <1>7, <1>8, <1>9, <1>10, NewTalk, BeginsCases
  DEF Next, Continues, Daemon, StatusThread

\* Nothing has moved on the sockets.
LEMMA WireQuiet ==
  ASSUME WireInv, UNCHANGED <<requests, replies, strayed, mismatched>>,
         \A d \in Contexts : HolderStays(d) /\ (server'[d] = "closed" => server[d] = "closed")
  PROVE  /\ \A d \in Contexts \ mismatched' : OneAnswer(d)'
         /\ \A d \in Contexts \ strayed' : OneNote(d)'
         /\ AnswersMatch' /\ NoStop'
<1>1. AnswersMatch' /\ NoStop'
  BY DEF WireInv, AnswersMatch, NoStop
<1>2. ASSUME NEW d \in Contexts \ mismatched' PROVE OneAnswer(d)'
  <2>1. OneAnswer(d)
    BY <1>2 DEF WireInv
  <2> QED
    BY <2>1, QuietKeeps
<1>3. ASSUME NEW d \in Contexts \ strayed' PROVE OneNote(d)'
  <2>1. OneNote(d)
    BY <1>3 DEF WireInv
  <2> QED
    BY <2>1, QuietKeeps
<1> QED
  BY <1>1, <1>2, <1>3

\* A request goes out when nothing else is on the way.
LEMMA LockWire ==
  ASSUME MutexInv, WireInv, NEW t \in Threads, Lock(t)
  PROVE  /\ \A d \in Contexts \ mismatched' : OneAnswer(d)'
         /\ \A d \in Contexts \ strayed' : OneNote(d)'
         /\ AnswersMatch' /\ NoStop'
<1> TypeOK /\ HoldersHave /\ MutexHeld /\ CallsKnown /\ ThreadTypes /\ WireTypes
  BY TypeParts DEF MutexInv
<1> DEFINE c == ctx[t]
<1>1. /\ c \in Contexts /\ mMutex[c] = NoThread /\ Alone(t)
      /\ \A d \in Contexts : d # c => mMutex'[d] = mMutex[d]
  BY LockKeeps
<1>2. /\ UNCHANGED <<replies, server, strayed, mismatched>> /\ pc[t] = "lock" /\ name[t] \in HandleCalls \cup ContextCalls
  BY DEF Lock, daemonVars, CallsKnown
<1>3. UNCHANGED requests \/ (/\ Acquire(t) /\ name[t] # "LIST_GROUPS" /\ Ask(t, FirstCommand(name[t]), "recv")
                             /\ UNCHANGED <<name, ctx, hCard>>)
  BY DEF Lock
<1>4. \A d \in Contexts : d # c => requests'[d] = requests[d]
  BY <1>3, <1>1 DEF Ask, WireTypes
<1>5. (\A command : ~Awaits(c, command)) /\ ~Listens(c)
  BY <1>1, NamesAssumption DEF Awaits, Listens
<1>6. Acquire(t) => mMutex'[c] = t
  BY <1>1, TypeParts DEF Acquire, LibTypes
<1>7. name[t] # "LIST_GROUPS" => FirstCommand(name[t]) \in Commands \ {"WAIT", "STOP", "none"} /\ "recv" \in Places
  BY <1>2, CommandType DEF Places
<1> DEFINE sent == /\ Acquire(t) /\ name[t] # "LIST_GROUPS" /\ Ask(t, FirstCommand(name[t]), "recv")
                   /\ UNCHANGED <<name, ctx, hCard>>
<1>8. sent => ctx'[t] = c /\ hCard'[t] = hCard[t]
  OBVIOUS
<1>9. AnswersMatch' /\ NoStop'
  BY <1>2 DEF WireInv, AnswersMatch, NoStop
<1>10. ASSUME NEW d \in Contexts \ mismatched' PROVE OneAnswer(d)'
  <2>1. OneAnswer(d)
    BY <1>2, <1>10 DEF WireInv
  <2>2. CASE d = c
    <3>1. NoAnswer(c)
      BY <1>1, <1>5, <2>1, <2>2, FreeIsClear
    <3>2. CASE UNCHANGED requests
      BY <1>1, <1>2, <2>2, <3>1, <3>2, ClearIsOne DEF NoAnswer, IsReal, Told
    <3>3. CASE sent
      BY <1>1, <1>2, <1>6, <1>7, <1>8, <2>2, <3>1, <3>3, AskIsOne DEF NoAnswer, Told
    <3> QED
      BY <1>3, <3>2, <3>3
  <2>3. CASE d # c
    BY <1>1, <1>2, <1>4, <2>1, <2>3, OthersStay, QuietKeeps
  <2> QED
    BY <2>2, <2>3
<1>11. ASSUME NEW d \in Contexts \ strayed' PROVE OneNote(d)'
  <2>1. OneNote(d)
    BY <1>2, <1>11 DEF WireInv
  <2>2. CASE d = c
    <3>1. NoNote(c)
      BY <1>1, <1>5, <2>1, <2>2, FreeIsClear
    <3>2. CASE UNCHANGED requests
      BY <1>1, <1>2, <2>2, <3>1, <3>2, ClearIsOne DEF NoNote
    <3>3. CASE sent
      BY <1>1, <1>2, <1>6, <1>7, <1>8, <2>2, <3>1, <3>3, AskIsOne DEF NoNote
    <3> QED
      BY <1>3, <3>2, <3>3
  <2>3. CASE d # c
    BY <1>1, <1>2, <1>4, <2>1, <2>3, OthersStay, QuietKeeps
  <2> QED
    BY <2>2, <2>3
<1> QED
  BY <1>9, <1>10, <1>11

LEMMA RemoveWire ==
  ASSUME MutexInv, WireInv, NEW t \in Threads, SCardRemoveContext(t)
  PROVE  /\ \A d \in Contexts \ mismatched' : OneAnswer(d)'
         /\ \A d \in Contexts \ strayed' : OneNote(d)'
         /\ AnswersMatch' /\ NoStop'
<1> TypeOK /\ ThreadTypes /\ WireTypes /\ DaemonTypes
  BY TypeParts DEF MutexInv
<1>0. PICK c : c = ctx[t]
  OBVIOUS
<1>1. /\ c \in Contexts /\ Alone(t) /\ pc[t] = "remove" /\ UNCHANGED <<mMutex, strayed, mismatched>>
  BY <1>0, ReturnAlone DEF SCardRemoveContext, historyVars, MutexInv, CallsKnown
<1>2. /\ requests'[c] = <<>> /\ replies'[c] = <<>>
      /\ \A d \in Contexts : d # c => requests'[d] = requests[d] /\ replies'[d] = replies[d] /\ server'[d] = server[d]
  BY <1>0, <1>1 DEF SCardRemoveContext, WireTypes, DaemonTypes
<1>3. NoAnswer(c)' /\ NoNote(c)'
  BY <1>2, EmptyAt DEF NoAnswer, NoNote, IsReal, Told
<1>4. AnswersMatch'
  BY <1>1 DEF WireInv, AnswersMatch
<1>5. NoStop'
  BY <1>2, EmptyAt DEF WireInv, NoStop
<1>6. ASSUME NEW d \in Contexts \ mismatched' PROVE OneAnswer(d)'
  <2>1. OneAnswer(d)
    BY <1>1, <1>6 DEF WireInv
  <2> QED
    BY <1>1, <1>2, <1>3, <2>1, ClearIsOne, OthersStay, QuietKeeps
<1>7. ASSUME NEW d \in Contexts \ strayed' PROVE OneNote(d)'
  <2>1. OneNote(d)
    BY <1>1, <1>7 DEF WireInv
  <2> QED
    BY <1>1, <1>2, <1>3, <2>1, ClearIsOne, OthersStay, QuietKeeps
<1> QED
  BY <1>4, <1>5, <1>6, <1>7

\* The signal of SCardCancel reaches a context that listens, or marks it.
LEMMA CancelWire ==
  ASSUME MutexInv, WireInv, NEW t \in Threads, ServeCancel(t)
  PROVE  /\ \A d \in Contexts \ mismatched' : OneAnswer(d)'
         /\ \A d \in Contexts \ strayed' : OneNote(d)'
         /\ AnswersMatch' /\ NoStop'
<1> TypeOK /\ HoldersHave /\ ThreadTypes /\ WireTypes /\ DaemonTypes
  BY TypeParts DEF MutexInv
<1> DEFINE c == ctx[t]
           m == Reply("WAIT", "CANCELLED", NoHandle)
<1>1. /\ c \in Contexts /\ Alone(t) /\ pc[t] = "cancel" /\ UNCHANGED <<mMutex, mismatched, requests, server>>
  BY ReturnAlone DEF ServeCancel, historyVars, libVars, daemonVars, MutexInv, CallsKnown
<1>2. \A d \in Contexts : HolderStays(d)
  BY <1>1, OthersStay
<1>3. m \in Message /\ m.kind = "WAIT"
  <2>1. "WAIT" \in Commands
    BY DEF Commands
  <2> QED
    BY <2>1, MessageType
<1>4. \/ UNCHANGED <<replies, strayed>>
      \/ /\ replies' = [replies EXCEPT ![c] = Append(@, m)]
         /\ strayed' = strayed \cup (IF Strays(c, 1) \/ waiting[c] > 0 THEN {c} ELSE {})
  BY DEF ServeCancel
<1> HIDE DEF m
<1>5. CASE UNCHANGED <<replies, strayed>>
  BY <1>1, <1>2, <1>5, WireQuiet
<1>6. CASE /\ replies' = [replies EXCEPT ![c] = Append(@, m)]
           /\ strayed' = strayed \cup (IF Strays(c, 1) \/ waiting[c] > 0 THEN {c} ELSE {})
  <2>1. /\ replies'[c] = Append(replies[c], m) /\ DOMAIN replies[c] = 1..Len(replies[c]) /\ Len(replies[c]) \in Nat
        /\ DOMAIN replies'[c] = 1..Len(replies[c]) + 1
        /\ \A i \in DOMAIN replies[c] : replies'[c][i] = replies[c][i]
        /\ replies'[c][Len(replies[c]) + 1] = m
        /\ \A d \in Contexts : d # c => replies'[d] = replies[d]
    BY <1>1, <1>3, <1>6, AppendAt DEF WireTypes
  <2>2. /\ DOMAIN replies[c] \subseteq DOMAIN replies'[c]
        /\ \A i \in DOMAIN replies'[c] \ DOMAIN replies[c] : replies'[c][i].kind = "WAIT"
    BY <1>3, <2>1
  <2>3. AnswersMatch' /\ strayed \subseteq strayed'
    BY <1>1, <1>6 DEF WireInv, AnswersMatch
  <2>4. c \notin strayed' => replies[c] = <<>> /\ DOMAIN replies'[c] \subseteq {1} /\ Listens(c)
    <3> SUFFICES ASSUME c \notin strayed' PROVE replies[c] = <<>> /\ DOMAIN replies'[c] \subseteq {1} /\ Listens(c)
      OBVIOUS
    <3>1. ~Strays(c, 1)
      BY <1>6
    <3>2. replies[c] = <<>> /\ \E u \in Threads : ctx[u] = c /\ pc[u] = "wait"
      BY <3>1 DEF Strays
    <3>3. Listens(c)
      BY <3>2 DEF HoldersHave, Holding, Listens
    <3>4. DOMAIN replies[c] = {}
      BY <3>2, EmptyAt
    <3> QED
      BY <2>1, <3>2, <3>3, <3>4
  <2> HIDE DEF c
  <2>5. NoStop'
    BY <1>1, <1>2, <2>1, <2>2, NotesAdded DEF WireInv, NoStop
  <2>6. ASSUME NEW d \in Contexts \ mismatched' PROVE OneAnswer(d)'
    <3>1. OneAnswer(d)
      BY <1>1, <2>6 DEF WireInv
    <3> QED
      BY <1>1, <1>2, <2>1, <2>2, <3>1, NotesAdded, QuietKeeps
  <2>7. ASSUME NEW d \in Contexts \ strayed' PROVE OneNote(d)'
    <3>1. OneNote(d)
      BY <2>3, <2>7 DEF WireInv
    <3> QED
      BY <1>1, <1>2, <2>1, <2>2, <2>4, <2>7, <3>1, NotesAdded, QuietKeeps
  <2> QED
    BY <2>3, <2>5, <2>6, <2>7
<1> QED
  BY <1>4, <1>5, <1>6

LEMMA SignalWire ==
  ASSUME MutexInv, WireInv, EHSignalEventToClients
  PROVE  /\ \A d \in Contexts \ mismatched' : OneAnswer(d)'
         /\ \A d \in Contexts \ strayed' : OneNote(d)'
         /\ AnswersMatch' /\ NoStop'
<1> TypeOK /\ HoldersHave /\ ThreadTypes /\ WireTypes /\ DaemonTypes
  BY TypeParts DEF MutexInv
<1> DEFINE m == Reply("WAIT", "SUCCESS", NoHandle)
<1>1. /\ UNCHANGED <<mMutex, ctx, pc, ask, hCard, mismatched, requests, server>>
      /\ strayed' = strayed \cup {c \in Contexts : Strays(c, waiting[c])}
      /\ \A d \in Contexts : replies'[d] = replies[d] \o [i \in 1..waiting[d] |-> m]
  BY DEF EHSignalEventToClients, libVars, threadVars
<1>2. \A d \in Contexts : HolderStays(d)
  BY <1>1 DEF HolderStays
<1>3. m \in Message /\ m.kind = "WAIT"
  <2>1. "WAIT" \in Commands
    BY DEF Commands
  <2> QED
    BY <2>1, MessageType
<1> HIDE DEF m
<1>4. ASSUME NEW d \in Contexts
      PROVE  /\ waiting[d] \in Nat /\ DOMAIN replies'[d] = 1..Len(replies[d]) + waiting[d]
             /\ DOMAIN replies[d] = 1..Len(replies[d]) /\ Len(replies[d]) \in Nat
             /\ \A i \in DOMAIN replies[d] : replies'[d][i] = replies[d][i]
             /\ \A i \in DOMAIN replies'[d] \ DOMAIN replies[d] : replies'[d][i] = m
             /\ waiting[d] = 0 => replies'[d] = replies[d]
  <2>1. waiting[d] \in Nat /\ replies[d] \in Seq(Message)
    BY BoundAssumption DEF DaemonTypes, WireTypes
  <2>2. replies'[d] = replies[d] \o [i \in 1..waiting[d] |-> m]
    BY <1>1
  <2> QED
    BY SMTT(40), <1>3, <2>1, <2>2, RepeatAt
<1>5. ASSUME NEW d \in Contexts
      PROVE  /\ DOMAIN replies[d] \subseteq DOMAIN replies'[d]
             /\ \A i \in DOMAIN replies[d] : replies'[d][i] = replies[d][i]
             /\ \A i \in DOMAIN replies'[d] \ DOMAIN replies[d] : replies'[d][i].kind = "WAIT"
  BY <1>3, <1>4
<1>6. AnswersMatch' /\ strayed \subseteq strayed'
  BY <1>1 DEF WireInv, AnswersMatch
<1>7. ASSUME NEW d \in Contexts \ strayed', waiting[d] # 0
      PROVE  replies[d] = <<>> /\ DOMAIN replies'[d] \subseteq {1} /\ Listens(d)
  <2>1. ~Strays(d, waiting[d]) /\ waiting[d] \in Nat
    BY <1>1, <1>4, <1>7
  <2>2. waiting[d] = 1 /\ replies[d] = <<>> /\ \E u \in Threads : ctx[u] = d /\ pc[u] = "wait"
    BY <1>7, <2>1 DEF Strays
  <2>3. Listens(d)
    BY <2>2 DEF HoldersHave, Holding, Listens
  <2>4. Len(replies[d]) = 0
    BY <1>4, <2>2, EmptyAt
  <2> QED
    BY <1>4, <2>2, <2>3, <2>4
<1>8. NoStop'
  BY <1>1, <1>2, <1>5, NotesAdded DEF WireInv, NoStop
<1>9. ASSUME NEW d \in Contexts \ mismatched' PROVE OneAnswer(d)'
  <2>1. OneAnswer(d)
    BY <1>1, <1>9 DEF WireInv
  <2> QED
    BY <1>1, <1>2, <1>5, <2>1, NotesAdded
<1>10. ASSUME NEW d \in Contexts \ strayed' PROVE OneNote(d)'
  <2>1. OneNote(d)
    BY <1>6, <1>10 DEF WireInv
  <2> QED
    BY <1>1, <1>2, <1>4, <1>5, <1>7, <1>10, <2>1, NotesAdded, QuietKeeps
<1> QED
  BY <1>6, <1>8, <1>9, <1>10

LEMMA WireStep ==
  ASSUME MutexInv, WireInv, [Next]_vars
  PROVE  WireInv'
<1> TypeOK /\ HoldersHave /\ MutexHeld /\ CallsKnown /\ ThreadTypes /\ DaemonTypes /\ NewUntouched
  BY TypeParts DEF MutexInv, WireInv
<1> DEFINE Goal == /\ \A d \in Contexts \ mismatched' : OneAnswer(d)'
                   /\ \A d \in Contexts \ strayed' : OneNote(d)'
                   /\ AnswersMatch' /\ NoStop'
<1>1. ASSUME NEW t \in Threads, Begins(t) PROVE Goal
  <2>1. \/ \E c \in Contexts : SCardEstablishContext(t, c)
        \/ Alone(t) /\ UNCHANGED <<mMutex, server, requests, replies, strayed, mismatched>> /\ pc[t] = "idle"
    <3>1. ASSUME NEW c \in Contexts, SCardCancel(t, c)
          PROVE  Alone(t) /\ UNCHANGED <<mMutex, server, requests, replies, strayed, mismatched>> /\ pc[t] = "idle"
      BY <3>1 DEF SCardCancel, Alone, libVars, wireVars, daemonVars, historyVars, ThreadTypes
    <3>2. ASSUME NEW call \in HandleCalls \cup ContextCalls, NEW c \in contextMapList,
                 NEW h \in Handles \cup {NoHandle}, Start(t, call, c, h)
          PROVE  Alone(t) /\ UNCHANGED <<mMutex, server, requests, replies, strayed, mismatched>> /\ pc[t] = "idle"
      BY <3>2 DEF Start, Alone, libVars, wireVars, daemonVars, historyVars, ThreadTypes
    <3> QED
      BY <1>1, <3>1, <3>2, BeginsCases
  <2>2. ASSUME NEW c \in Contexts, SCardEstablishContext(t, c)
        PROVE  Goal
    <3>1. /\ UNCHANGED <<requests, replies, strayed, mismatched>>
          /\ \A d \in Contexts : HolderStays(d) /\ (server'[d] = "closed" => server[d] = "closed")
      BY <2>2 DEF SCardEstablishContext, threadVars, wireVars, historyVars, HolderStays, DaemonTypes
    <3> QED
      BY <3>1, WireQuiet
  <2>3. CASE Alone(t) /\ UNCHANGED <<mMutex, server, requests, replies, strayed, mismatched>> /\ pc[t] = "idle"
    BY <2>3, OthersStay, WireQuiet
  <2> QED
    BY <2>1, <2>2, <2>3
<1>2. ASSUME NEW t \in Threads, LockFreed(t) PROVE Goal
  <2>1. Alone(t) /\ UNCHANGED <<mMutex, server, requests, replies, strayed, mismatched>> /\ pc[t] = "lock"
    BY <1>2, ReturnAlone DEF LockFreed, Alone, libVars, wireVars, daemonVars, historyVars, ThreadTypes
  <2> QED
    BY <2>1, OthersStay, WireQuiet
<1>3. ASSUME ReaderMoves \/ CountEvent \/ UNCHANGED vars PROVE Goal
  <2>1. UNCHANGED <<mMutex, pc, ctx, ask, hCard, server, requests, replies, strayed, mismatched>>
    BY <1>3 DEF ReaderMoves, CountEvent, vars, libVars, threadVars, wireVars, daemonVars, historyVars
  <2> QED
    BY <2>1, WireQuiet DEF HolderStays
<1>4. Goal
  BY <1>1, <1>2, <1>3, LockWire, TalkKeeps, RemoveWire, CancelWire, SignalWire, ServeKeeps
  DEF Next, Continues, Daemon, StatusThread
<1> HIDE DEF Goal
<1>5. NewUntouched'
  BY NewStep
<1> QED
  BY <1>4, <1>5 DEF WireInv, Goal

LEMMA WireInit ==
  ASSUME Init
  PROVE  WireInv
<1>1. \A c \in Contexts : requests[c] = <<>> /\ replies[c] = <<>> /\ DOMAIN <<>> = {}
  BY EmptyAt DEF Init
<1>2. \A c \in Contexts : OneAnswer(c) /\ OneNote(c)
  BY <1>1 DEF OneAnswer, OneNote
<1>3. NoStop /\ AnswersMatch
  BY <1>1 DEF Init, NoStop, AnswersMatch
<1>4. NewUntouched
  BY NamesAssumption DEF Init, NewUntouched, Untouched
<1> QED
  BY <1>2, <1>3, <1>4 DEF WireInv

\* What is on the way for a context is what the thread that has its mutex
\* waits for.
THEOREM WireInvariant == Spec => []WireInv
BY WireInit, WireStep, MutexInvariant, PTL DEF Spec

\* A call takes the answer of another for its own only on a context that has
\* been sent a signal it did not wait for (winscard_clnt.c:2117-2140,
\* winscard_svc.c:523-544).
THEOREM AnswersAreMatched == Spec => []AnswersMatch
BY WireInvariant, PTL DEF WireInv
-----------------------------------------------------------------------------
(* The handles of a context at both ends.                                  *)

\* Only the answers that add or remove a handle count.
LEMMA AgreeNotes ==
  ASSUME NEW d \in Contexts, HolderStays(d), OneAnswer(d), Agree(d),
         cardsList'[d] = cardsList[d], channelMapList'[d] = channelMapList[d],
         DOMAIN replies[d] \subseteq DOMAIN replies'[d],
         \A i \in DOMAIN replies[d] : replies'[d][i] = replies[d][i],
         \A i \in DOMAIN replies'[d] \ DOMAIN replies[d] : ~Moves(replies'[d][i])
  PROVE  Agree(d)'
<1>1. \A i \in DOMAIN replies[d] : Moves(replies[d][i]) => hCard'[mMutex'[d]] = hCard[mMutex[d]]
  BY DEF Moves, Told, Real, Commands, HandleCalls, OneAnswer, Awaits, HolderStays
<1>2. ASSUME \A i \in DOMAIN replies'[d] : ~Moves(replies'[d][i])
      PROVE  Agree(d)'
  BY <1>2 DEF Agree, Moves
<1>3. ASSUME NEW i \in DOMAIN replies'[d], Moves(replies'[d][i])
      PROVE  cardsList'[d] = IF replies'[d][i].kind = "CONNECT"
                             THEN channelMapList'[d] \cup {replies'[d][i].handle}
                             ELSE channelMapList'[d] \ {hCard'[mMutex'[d]]}
  <2>1. i \in DOMAIN replies[d] /\ replies'[d][i] = replies[d][i]
    BY <1>3
  <2> QED
    BY <1>1, <1>3, <2>1 DEF Agree
<1> QED
  BY <1>2, <1>3 DEF Agree, Moves

LEMMA AgreeQuiet ==
  ASSUME NEW d \in Contexts, HolderStays(d), OneAnswer(d), Agree(d),
         cardsList'[d] = cardsList[d], channelMapList'[d] = channelMapList[d], replies'[d] = replies[d]
  PROVE  Agree(d)'
BY AgreeNotes

\* No answer is on the way.
LEMMA AgreeClear ==
  ASSUME NEW d \in Contexts
  PROVE  /\ NoAnswer(d) => \A i \in DOMAIN replies[d] : ~Moves(replies[d][i])
         /\ NoAnswer(d) /\ Agree(d) => cardsList[d] = channelMapList[d]
         /\ (\A i \in DOMAIN replies'[d] : ~Told(replies'[d][i])) /\ cardsList'[d] = channelMapList'[d] => Agree(d)'
<1>1. \A m : ~Told(m) => ~Moves(m)
  BY DEF Told, Moves, Real, Commands, HandleCalls
<1> QED
  BY <1>1 DEF NoAnswer, Agree, Moves, Told

\* What an answer does to the handles of its context.
LEMMA AgreeTalk ==
  ASSUME MutexInv, WireInv, NEW t \in Threads, NEW c \in Contexts \ mismatched', c = ctx[t],
         MessageReceive(t) \/ Compare(t) \/ Signalled(t) \/ TimedOut(t), Agree(c)
  PROVE  Agree(c)'
<1> /\ TypeOK /\ HoldersHave /\ MutexHeld /\ CallsKnown /\ NoStop /\ ThreadTypes /\ LibTypes /\ WireTypes
  BY TypeParts DEF MutexInv, WireInv
<1>1. Ends(t) /\ pc[t] \in Holding /\ mMutex[c] = t /\ Alone(t)
  BY TalkEnds, EndsKeep
<1>2. UNCHANGED cardsList
  BY TalkLeaves
<1>3. OneAnswer(c) /\ mismatched \subseteq mismatched'
  BY TalkLeaves, ReadMatches DEF WireInv
<1>4. CASE Compare(t) \/ TimedOut(t)
  <2>1. (\A command \in Real : ~Awaits(c, command)) /\ UNCHANGED <<replies, channelMapList>>
    BY <1>1, <1>4 DEF Compare, TimedOut, Awaits
  <2>2. NoAnswer(c)
    BY <1>3, <2>1, FreeIsClear
  <2> QED
    BY <1>2, <2>1, <2>2, AgreeClear DEF NoAnswer, Told
<1>5. CASE MessageReceive(t) \/ Signalled(t)
  <2>1. replies[c] # <<>> /\ replies'[c] = Tail(replies[c])
    <3>1. replies[c] # <<>> /\ Take(c)
      BY <1>5 DEF MessageReceive, Signalled
    <3> QED
      BY <3>1, TakeType
  <2>2. \/ pc[t] = "recv" /\ Head(replies[c]).kind = Kind(ask[t])
        \/ pc[t] = "wait" /\ Head(replies[c]).kind = "WAIT"
    BY <1>5, ReadMatches
  <2>3. \A i \in DOMAIN replies'[c] : ~Told(replies'[c][i])
    BY <1>1, <1>3, <2>1, <2>2, TakenIsLast DEF CallsKnown
  <2>4. PICK m : m = Head(replies[c])
    OBVIOUS
  <2>5. m \in Message /\ m = replies[c][1] /\ 1 \in DOMAIN replies[c] /\ m.kind = Head(replies[c]).kind
    BY <2>1, <2>4, TailAt DEF WireTypes
  <2>6. CASE m.kind = "WAIT"
    <3>1. \A command \in Real : ~Awaits(c, command)
      BY <1>1, <2>2, <2>5, <2>6 DEF Awaits, Kind, Real
    <3>2. NoAnswer(c)
      BY <1>3, <3>1, FreeIsClear
    <3>3. UNCHANGED channelMapList
      <4>1. pc[t] = "recv" => ask[t] = "STOP"
        BY <2>2, <2>5, <2>6 DEF Kind, CallsKnown
      <4>2. CASE MessageReceive(t)
        BY <2>4, <2>6, <4>1, <4>2 DEF MessageReceive, Kind, TakeStopped
      <4>3. CASE Signalled(t)
        BY <2>4, <2>6, <4>3 DEF Signalled
      <4> QED
        BY <1>5, <4>2, <4>3
    <3> QED
      BY <1>2, <2>3, <3>2, <3>3, AgreeClear
  <2>7. CASE m.kind # "WAIT"
    <3>1. pc[t] = "recv" /\ m.kind = ask[t] /\ ask[t] \notin {"WAIT", "STOP", "none"} /\ MessageReceive(t)
      BY <1>5, <2>2, <2>5, <2>7 DEF Kind, CallsKnown, Signalled
    <3>2. Told(m)
      BY <2>5, <2>7, <3>1 DEF Told, Real, Message
    <3>3. \A i \in DOMAIN replies[c] : Moves(replies[c][i]) => i = 1
      <4>1. \A i \in DOMAIN replies[c] : Moves(replies[c][i]) => Told(replies[c][i])
        BY DEF Moves, Told, Real, Commands, HandleCalls
      <4> QED
        BY <1>3, <2>5, <3>2, <4>1 DEF OneAnswer
    <3>4. cardsList[c] = IF Moves(m)
                         THEN IF m.kind = "CONNECT" THEN channelMapList[c] \cup {m.handle}
                                                    ELSE channelMapList[c] \ {hCard[t]}
                         ELSE channelMapList[c]
      BY <1>1, <2>5, <3>3 DEF Agree
    <3>5. CASE ask[t] = "GET_READERS_STATE"
      <4>1. UNCHANGED channelMapList
        BY <2>4, <3>1, <3>5 DEF MessageReceive, Kind, TakeReaders
      <4> QED
        BY <1>2, <2>3, <3>1, <3>4, <3>5, <4>1, AgreeClear DEF Moves
    <3>6. CASE ask[t] # "GET_READERS_STATE"
      <4>1. channelMapList'[c] = ChannelsAfter(t, m)
        BY <2>4, <3>1, <3>6 DEF MessageReceive, Kind, TakeAnswer, LibTypes
      <4>2. channelMapList'[c] = cardsList[c]
        BY <3>1, <3>4, <4>1 DEF ChannelsAfter, Moves
      <4> QED
        BY <1>2, <2>3, <4>2, AgreeClear
    <3> QED
      BY <3>5, <3>6
  <2> QED
    BY <2>6, <2>7
<1> QED
  BY <1>4, <1>5

\* What a request does to them.
LEMMA AgreeServe ==
  ASSUME MutexInv, WireInv, NEW c \in Contexts \ mismatched, Serve(c), server'[c] = "open", Agree(c)
  PROVE  Agree(c)'
<1> TypeOK /\ WireTypes /\ DaemonTypes
  BY TypeParts DEF MutexInv
<1>1. PICK r : r = Head(requests[c])
  OBVIOUS
<1>2. OneAnswer(c) /\ HolderStays(c) /\ UNCHANGED channelMapList
  BY DEF WireInv, Serve, libVars, threadVars, HolderStays
<1>3. requests[c] \in Seq(Request) /\ requests[c] # <<>> /\ r = requests[c][1] /\ 1 \in DOMAIN requests[c]
      /\ r.command \in Commands
  <2>1. requests[c] \in Seq(Request) /\ requests[c] # <<>> /\ Head(requests[c]) \in Request
    BY ReadType DEF WireTypes
  <2>2. r = requests[c][1] /\ 1 \in DOMAIN requests[c]
    BY <1>1, <2>1, TailAt
  <2> QED
    BY <1>1, <2>1, <2>2 DEF Request
<1>4. ASSUME NEW m \in Message, Answered(c, m)
      PROVE  /\ DOMAIN replies[c] = 1..Len(replies[c]) /\ Len(replies[c]) \in Nat
             /\ DOMAIN replies[c] \subseteq DOMAIN replies'[c]
             /\ \A i \in DOMAIN replies[c] : replies'[c][i] = replies[c][i]
             /\ \A i \in DOMAIN replies'[c] \ DOMAIN replies[c] : replies'[c][i] = m
             /\ Len(replies[c]) + 1 \in DOMAIN replies'[c]
  <2>1. replies'[c] = Append(replies[c], m)
    BY <1>4, TellType DEF Answered
  <2>2. /\ DOMAIN replies[c] = 1..Len(replies[c]) /\ Len(replies[c]) \in Nat
        /\ DOMAIN replies'[c] = 1..Len(replies[c]) + 1
        /\ \A i \in DOMAIN replies[c] : replies'[c][i] = replies[c][i]
        /\ replies'[c][Len(replies[c]) + 1] = m
    BY <2>1, AppendAt DEF WireTypes
  <2> QED
    BY <2>2
\* An answer that does not move a handle.
<1>5. ASSUME NEW m \in Message, Answered(c, m), ~Moves(m), cardsList'[c] = cardsList[c]
      PROVE  Agree(c)'
  BY <1>2, <1>4, <1>5, AgreeNotes
\* An answer that moves one is alone.
<1>6. ASSUME NEW m \in Message, Answered(c, m), IsReal(r), m.rv = "SUCCESS",
             \/ m.kind = "CONNECT" /\ cardsList'[c] = cardsList[c] \cup {m.handle}
             \/ m.kind = "DISCONNECT" /\ cardsList'[c] = cardsList[c] \ {r.handle}
      PROVE  Agree(c)'
  <2>1. (\A i \in DOMAIN replies[c] : ~Told(replies[c][i])) /\ Awaits(c, r.command) /\ hCard[mMutex[c]] = r.handle
    BY <1>2, <1>3, <1>6 DEF OneAnswer
  <2>2. \A i \in DOMAIN replies[c] : ~Moves(replies[c][i])
    BY <2>1 DEF Told, Moves, Real, Commands, HandleCalls
  <2>3. cardsList[c] = channelMapList[c]
    BY <2>2 DEF Agree
  <2>4. hCard'[mMutex'[c]] = r.handle
    BY <1>2, <2>1 DEF Awaits, HolderStays
  <2>5. \A i \in DOMAIN replies'[c] : Moves(replies'[c][i]) => replies'[c][i] = m
    BY <1>4, <1>6, <2>2
  <2>6. Moves(m) /\ \E i \in DOMAIN replies'[c] : replies'[c][i] = m
    BY <1>4, <1>6 DEF Moves
  <2>7. \A i \in DOMAIN replies'[c] : Moves(replies'[c][i]) =>
          cardsList'[c] = IF replies'[c][i].kind = "CONNECT"
                          THEN channelMapList'[c] \cup {replies'[c][i].handle}
                          ELSE channelMapList'[c] \ {hCard'[mMutex'[c]]}
    BY <1>2, <1>6, <2>3, <2>4, <2>5
  <2> QED
    BY <2>6, <2>7 DEF Agree, Moves
<1>7. CASE r.command = "GET_READERS_STATE"
  <2> DEFINE m == [Reply("GET_READERS_STATE", "SUCCESS", NoHandle) EXCEPT !.reader = reader]
  <2>1. "GET_READERS_STATE" \in Commands /\ reader \in Reader
    BY TypeParts DEF Commands, LibTypes
  <2>2. m \in Message /\ m.kind = "GET_READERS_STATE"
    BY <2>1, MessageType
  <2>3. Answered(c, m) /\ UNCHANGED cardsList
    BY <1>1, <1>7, ServeCases DEF HandleCalls
  <2> HIDE DEF m
  <2> QED
    BY <1>5, <2>2, <2>3 DEF Moves
<1>8. CASE r.command = "WAIT"
  <2>1. UNCHANGED <<replies, cardsList>>
    BY <1>1, <1>8, ServeCases DEF HandleCalls
  <2> QED
    BY <1>2, <2>1, AgreeQuiet
<1>9. CASE r.command = "STOP"
  <2>1. PICK rv \in {"SUCCESS", "ERROR"} : Answered(c, Reply("WAIT", rv, NoHandle)) /\ UNCHANGED cardsList
    BY <1>1, <1>9, ServeCases DEF HandleCalls
  <2>2. "WAIT" \in Commands
    BY DEF Commands
  <2>3. Reply("WAIT", rv, NoHandle) \in Message /\ Reply("WAIT", rv, NoHandle).kind = "WAIT"
    BY <2>2, MessageType
  <2> QED
    BY <1>5, <2>1, <2>3 DEF Moves
<1>10. CASE r.command = "CONNECT"
  <2>1. "CONNECT" \in Commands /\ IsReal(r)
    BY <1>10 DEF Commands, IsReal, Real
  <2>2. ASSUME NEW h \in Handles, Answered(c, Reply("CONNECT", "SUCCESS", h)),
               cardsList' = [cardsList EXCEPT ![c] = @ \cup {h}]
        PROVE  Agree(c)'
    <3>1. /\ Reply("CONNECT", "SUCCESS", h) \in Message /\ Reply("CONNECT", "SUCCESS", h).kind = "CONNECT"
          /\ Reply("CONNECT", "SUCCESS", h).rv = "SUCCESS" /\ Reply("CONNECT", "SUCCESS", h).handle = h
      BY <2>1, MessageType
    <3>2. cardsList'[c] = cardsList[c] \cup {h}
      BY <2>2 DEF DaemonTypes
    <3> QED
      BY <1>6, <2>1, <2>2, <3>1, <3>2
  <2>3. ASSUME Answered(c, Reply("CONNECT", "ERROR", NoHandle)), UNCHANGED cardsList
        PROVE  Agree(c)'
    <3>1. Reply("CONNECT", "ERROR", NoHandle) \in Message /\ Reply("CONNECT", "ERROR", NoHandle).rv = "ERROR"
      BY <2>1, MessageType
    <3> QED
      BY <1>5, <2>3, <3>1 DEF Moves
  <2>4. \/ \E h \in Handles :
             /\ Answered(c, Reply("CONNECT", "SUCCESS", h))
             /\ cardsList' = [cardsList EXCEPT ![c] = @ \cup {h}]
        \/ Answered(c, Reply("CONNECT", "ERROR", NoHandle)) /\ UNCHANGED cardsList
    BY <1>1, <1>10, ServeCases DEF HandleCalls
  <2> QED
    BY <2>2, <2>3, <2>4
<1>11. CASE r.command = "RELEASE"
  <2>1. server' = [server EXCEPT ![c] = "released"]
    BY <1>1, <1>11, ServeCases DEF HandleCalls
  <2> QED
    BY <2>1 DEF DaemonTypes
<1>12. CASE r.command \in HandleCalls \cup {"none"}
  <2>1. \/ server' = [server EXCEPT ![c] = "closed"]
        \/ \E rv \in {"SUCCESS", "VIOLATION", "ERROR"} :
             /\ Answered(c, Reply(r.command, rv, NoHandle))
             /\ cardsList' = IF r.command = "DISCONNECT" /\ rv = "SUCCESS"
                             THEN [cardsList EXCEPT ![c] = @ \ {r.handle}] ELSE cardsList
    BY <1>1, <1>12, ServeCases DEF HandleCalls
  <2>2. ASSUME NEW rv \in {"SUCCESS", "VIOLATION", "ERROR"}, Answered(c, Reply(r.command, rv, NoHandle)),
               cardsList' = IF r.command = "DISCONNECT" /\ rv = "SUCCESS"
                            THEN [cardsList EXCEPT ![c] = @ \ {r.handle}] ELSE cardsList
        PROVE  Agree(c)'
    <3>1. /\ Reply(r.command, rv, NoHandle) \in Message /\ Reply(r.command, rv, NoHandle).kind = r.command
          /\ Reply(r.command, rv, NoHandle).rv = rv
      BY <1>3, <1>12, MessageType DEF HandleCalls
    <3>2. CASE r.command = "DISCONNECT" /\ rv = "SUCCESS"
      <4>1. cardsList'[c] = cardsList[c] \ {r.handle} /\ IsReal(r)
        BY <1>3, <2>2, <3>2 DEF DaemonTypes, IsReal, Real
      <4> QED
        BY <1>6, <2>2, <3>1, <3>2, <4>1
    <3>3. CASE ~(r.command = "DISCONNECT" /\ rv = "SUCCESS")
      <4>1. r.command # "CONNECT" /\ cardsList'[c] = cardsList[c]
        BY <1>12, <2>2, <3>3 DEF HandleCalls
      <4> QED
        BY <1>5, <2>2, <3>1, <3>3, <4>1 DEF Moves
    <3> QED
      BY <3>2, <3>3
  <2>3. server' # [server EXCEPT ![c] = "closed"]
    BY DEF DaemonTypes
  <2> QED
    BY <2>1, <2>2, <2>3
<1> QED
  BY <1>3, <1>7, <1>8, <1>9, <1>10, <1>11, <1>12 DEF Commands

LEMMA AgreeStep ==
  ASSUME MutexInv, WireInv, AgreeInv, [Next]_vars
  PROVE  AgreeInv'
<1> /\ TypeOK /\ HoldersHave /\ MutexHeld /\ CallsKnown /\ ThreadTypes /\ LibTypes /\ WireTypes /\ DaemonTypes
    /\ NewUntouched
  BY TypeParts DEF MutexInv, WireInv
<1>0. contextMapList \subseteq Contexts
  BY DEF LibTypes
\* A context that is open is agreed upon, and the answers are matched there.
<1>1. ASSUME NEW d \in contextMapList \ mismatched, server[d] = "open"
      PROVE  d \in Contexts /\ OneAnswer(d) /\ Agree(d)
  BY <1>1 DEF LibTypes, WireInv, AgreeInv
<1>2. ASSUME \A d \in Contexts : HolderStays(d),
             UNCHANGED <<contextMapList, mismatched, server, cardsList, channelMapList, replies>>
      PROVE  AgreeInv'
  BY <1>1, <1>2, AgreeQuiet DEF AgreeInv
<1>3. ASSUME NEW t \in Threads, NEW c \in Contexts, SCardEstablishContext(t, c)
      PROVE  AgreeInv'
  <2>1. \A d \in Contexts : HolderStays(d)
    BY <1>3 DEF SCardEstablishContext, threadVars, HolderStays
  <2>2. /\ contextMapList' = contextMapList \cup {c} /\ server[c] = "new"
        /\ UNCHANGED <<cardsList, channelMapList, replies, mismatched>>
        /\ \A d \in Contexts : d # c => server'[d] = server[d]
    BY <1>3 DEF SCardEstablishContext, wireVars, historyVars, DaemonTypes
  <2>3. cardsList[c] = channelMapList[c] /\ replies[c] = <<>>
    BY <2>2 DEF NewUntouched, Untouched
  <2>4. Agree(c)'
    BY <2>2, <2>3, EmptyAt, AgreeClear
  <2> SUFFICES ASSUME NEW d \in contextMapList' \ mismatched', server'[d] = "open" PROVE Agree(d)'
    BY DEF AgreeInv
  <2>5. CASE d = c
    BY <2>4, <2>5
  <2>6. CASE d # c
    <3>1. d \in contextMapList \ mismatched /\ d \in Contexts /\ server[d] = "open"
      BY <1>0, <2>2, <2>6
    <3> QED
      BY <1>1, <2>1, <2>2, <3>1, AgreeQuiet
  <2> QED
    BY <2>5, <2>6
<1>4. ASSUME NEW t \in Threads, Alone(t), UNCHANGED mMutex, pc[t] \notin {"recv", "wait"},
             UNCHANGED <<contextMapList, mismatched, server, cardsList, channelMapList, replies>>
      PROVE  AgreeInv'
  BY <1>2, <1>4, OthersStay
<1>5. ASSUME NEW t \in Threads, NEW c \in Contexts, SCardCancel(t, c)
      PROVE  AgreeInv'
  BY <1>4, <1>5 DEF SCardCancel, Alone, libVars, wireVars, daemonVars, historyVars, ThreadTypes
<1>6. ASSUME NEW t \in Threads, NEW call \in HandleCalls \cup ContextCalls, NEW c \in contextMapList,
             NEW h \in Handles \cup {NoHandle}, Start(t, call, c, h)
      PROVE  AgreeInv'
  BY <1>4, <1>6 DEF Start, Alone, libVars, wireVars, daemonVars, historyVars, ThreadTypes
<1>7. ASSUME NEW t \in Threads, LockFreed(t)
      PROVE  AgreeInv'
  <2>1. Alone(t) /\ pc[t] = "lock"
    BY <1>7, ReturnAlone DEF LockFreed, Alone, ThreadTypes
  <2> QED
    BY <1>4, <1>7, <2>1 DEF LockFreed, libVars, wireVars, daemonVars, historyVars
<1>8. ASSUME NEW t \in Threads, Lock(t)
      PROVE  AgreeInv'
  <2>1. /\ ctx[t] \in Contexts /\ mMutex[ctx[t]] = NoThread /\ Alone(t) /\ pc[t] = "lock"
        /\ \A d \in Contexts : d # ctx[t] => mMutex'[d] = mMutex[d]
    BY <1>8, LockKeeps DEF Lock
  <2>2. UNCHANGED <<contextMapList, mismatched, server, cardsList, channelMapList, replies>>
    BY <1>8 DEF Lock, daemonVars
  <2>3. \A d \in Contexts : HolderStays(d)
    BY <2>1, OthersStay, NamesAssumption DEF HolderStays
  <2> QED
    BY <1>2, <2>2, <2>3
<1>9. ASSUME NEW t \in Threads,
             MessageReceive(t) \/ CommError(t) \/ Compare(t) \/ Signalled(t) \/ TimedOut(t)
      PROVE  AgreeInv'
  <2>1. PICK c \in Contexts : c = ctx[t]
    BY <1>9, TalkEnds, EndsKeep
  <2>2. /\ Alone(t) /\ UNCHANGED <<contextMapList, server, cardsList>>
        /\ \A d \in Contexts : d # c => mMutex'[d] = mMutex[d] /\ replies'[d] = replies[d]
    BY <1>9, <2>1, TalkEnds, EndsKeep, TalkLeaves, TakeType
  <2>3. \A d \in Contexts : d # c => channelMapList'[d] = channelMapList[d]
    <3>1. CASE MessageReceive(t)
      <4> DEFINE m == Head(replies[ctx[t]])
      <4>1. TakeOther(t) \/ TakeReaders(t, m) \/ TakeStopped(t, m) \/ TakeAnswer(t, m)
        BY <3>1 DEF MessageReceive
      <4>2. UNCHANGED channelMapList \/ channelMapList' = [channelMapList EXCEPT ![c] = ChannelsAfter(t, m)]
        BY <2>1, <4>1 DEF TakeOther, TakeReaders, TakeStopped, TakeAnswer
      <4> QED
        BY <4>2 DEF LibTypes
    <3>2. CASE CommError(t) \/ Compare(t) \/ Signalled(t) \/ TimedOut(t)
      BY <3>2 DEF CommError, Compare, Signalled, TimedOut, TakeOther
    <3> QED
      BY <1>9, <3>1, <3>2
  <2>4. mismatched \subseteq mismatched'
    BY <1>9, TalkLeaves, ReadMatches
  <2> SUFFICES ASSUME NEW d \in contextMapList' \ mismatched', server'[d] = "open" PROVE Agree(d)'
    BY DEF AgreeInv
  <2>5. d \in Contexts /\ OneAnswer(d) /\ Agree(d) /\ server[d] = "open"
    BY <1>1, <2>2, <2>4
  <2>6. CASE d = c
    <3>1. ~CommError(t)
      BY <2>1, <2>5, <2>6 DEF CommError
    <3> QED
      BY <1>9, <2>1, <2>5, <2>6, <3>1, AgreeTalk
  <2>7. CASE d # c
    <3>1. HolderStays(d)
      BY <2>1, <2>2, <2>5, <2>7, OthersStay
    <3> QED
      BY <2>2, <2>3, <2>5, <2>7, <3>1, AgreeQuiet
  <2> QED
    BY <2>6, <2>7
<1>10. ASSUME NEW t \in Threads, SCardRemoveContext(t)
       PROVE  AgreeInv'
  <2>1. PICK c \in Contexts : c = ctx[t]
    BY <1>10 DEF SCardRemoveContext, CallsKnown
  <2>2. /\ Alone(t) /\ pc[t] = "remove" /\ UNCHANGED <<mMutex, mismatched, cardsList>>
        /\ contextMapList' = contextMapList \ {c}
    BY <1>10, <2>1, ReturnAlone DEF SCardRemoveContext, historyVars
  <2>3. \A d \in Contexts : d # c =>
          channelMapList'[d] = channelMapList[d] /\ replies'[d] = replies[d] /\ server'[d] = server[d]
    BY <1>10, <2>1 DEF SCardRemoveContext, LibTypes, WireTypes, DaemonTypes
  <2>4. \A d \in Contexts : HolderStays(d)
    BY <2>2, OthersStay
  <2> QED
    BY <1>0, <1>1, <2>2, <2>3, <2>4, AgreeQuiet DEF AgreeInv
<1>11. ASSUME NEW t \in Threads, ServeCancel(t)
       PROVE  AgreeInv'
  <2>1. PICK c \in Contexts : c = ctx[t]
    BY <1>11 DEF ServeCancel, CallsKnown
  <2>2. /\ Alone(t) /\ pc[t] = "cancel"
        /\ UNCHANGED <<mMutex, contextMapList, channelMapList, mismatched, server, cardsList>>
    BY <1>11, ReturnAlone DEF ServeCancel, historyVars, libVars, daemonVars
  <2>3. \A d \in Contexts : HolderStays(d)
    BY <2>2, OthersStay
  <2>4. PICK m \in Message : m.kind = "WAIT" /\ m = Reply("WAIT", "CANCELLED", NoHandle)
    <3>1. "WAIT" \in Commands
      BY DEF Commands
    <3> QED
      BY <3>1, MessageType
  <2>5. ASSUME NEW d \in Contexts
        PROVE  /\ DOMAIN replies[d] \subseteq DOMAIN replies'[d]
               /\ \A i \in DOMAIN replies[d] : replies'[d][i] = replies[d][i]
               /\ \A i \in DOMAIN replies'[d] \ DOMAIN replies[d] : ~Moves(replies'[d][i])
    <3>1. replies' = replies \/ replies' = [replies EXCEPT ![c] = Append(@, m)]
      BY <1>11, <2>1, <2>4 DEF ServeCancel
    <3>2. CASE replies'[d] = replies[d]
      BY <3>2
    <3>3. CASE replies'[d] = Append(replies[d], m)
      <4>1. /\ DOMAIN replies[d] = 1..Len(replies[d]) /\ Len(replies[d]) \in Nat
            /\ DOMAIN replies'[d] = 1..Len(replies[d]) + 1
            /\ \A i \in DOMAIN replies[d] : replies'[d][i] = replies[d][i]
            /\ replies'[d][Len(replies[d]) + 1] = m
        BY <3>3, AppendAt DEF WireTypes
      <4> QED
        BY <2>4, <4>1 DEF Moves
    <3> QED
      BY <3>1, <3>2, <3>3 DEF WireTypes
  <2> QED
    BY <1>1, <2>2, <2>3, <2>5, AgreeNotes DEF AgreeInv
<1>12. ASSUME NEW c \in Contexts, Serve(c)
       PROVE  AgreeInv'
  <2>1. PICK r : r = Head(requests[c])
    OBVIOUS
  <2>2. /\ UNCHANGED <<contextMapList, mismatched, channelMapList>>
        /\ \A d \in Contexts : HolderStays(d)
    BY <1>12 DEF Serve, libVars, threadVars, historyVars, HolderStays
  <2>3. \A d \in Contexts : d # c => replies'[d] = replies[d] /\ server'[d] = server[d]
    BY <1>12, <2>1, ServeSummary
  <2>4. \A d \in Contexts : d # c => cardsList'[d] = cardsList[d]
    BY <1>12, <2>1, ServeCases DEF DaemonTypes
  <2>5. server'[c] = "open" => server[c] = "open"
    BY <1>12, <2>1, ServeCases DEF DaemonTypes
  <2> SUFFICES ASSUME NEW d \in contextMapList' \ mismatched', server'[d] = "open" PROVE Agree(d)'
    BY DEF AgreeInv
  <2>6. d \in Contexts /\ OneAnswer(d) /\ Agree(d) /\ d \notin mismatched
    BY <1>0, <1>1, <2>2, <2>3, <2>5
  <2>7. CASE d = c
    BY <1>12, <2>6, <2>7, AgreeServe
  <2>8. CASE d # c
    BY <2>2, <2>3, <2>4, <2>6, <2>8, AgreeQuiet
  <2> QED
    BY <2>7, <2>8
<1>13. ASSUME EHSignalEventToClients
       PROVE  AgreeInv'
  <2> DEFINE m == Reply("WAIT", "SUCCESS", NoHandle)
  <2>1. /\ UNCHANGED <<mMutex, ctx, pc, ask, hCard, mismatched, server, contextMapList, channelMapList, cardsList>>
        /\ \A d \in Contexts : replies'[d] = replies[d] \o [i \in 1..waiting[d] |-> m]
    BY <1>13 DEF EHSignalEventToClients, libVars, threadVars
  <2>2. \A d \in Contexts : HolderStays(d)
    BY <2>1 DEF HolderStays
  <2>3. m \in Message /\ m.kind = "WAIT"
    <3>1. "WAIT" \in Commands
      BY DEF Commands
    <3> QED
      BY <3>1, MessageType
  <2> HIDE DEF m
  <2>4. ASSUME NEW d \in Contexts
        PROVE  /\ DOMAIN replies[d] \subseteq DOMAIN replies'[d]
               /\ \A i \in DOMAIN replies[d] : replies'[d][i] = replies[d][i]
               /\ \A i \in DOMAIN replies'[d] \ DOMAIN replies[d] : ~Moves(replies'[d][i])
    <3>1. waiting[d] \in Nat /\ replies[d] \in Seq(Message)
      BY BoundAssumption DEF DaemonTypes, WireTypes
    <3>2. replies'[d] = replies[d] \o [i \in 1..waiting[d] |-> m]
      BY <2>1
    <3>3. /\ DOMAIN replies'[d] = 1..Len(replies[d]) + waiting[d] /\ DOMAIN replies[d] = 1..Len(replies[d])
          /\ \A i \in DOMAIN replies[d] : replies'[d][i] = replies[d][i]
          /\ \A i \in DOMAIN replies'[d] \ DOMAIN replies[d] : replies'[d][i] = m
      BY <2>3, <3>1, <3>2, RepeatAt
    <3>4. Len(replies[d]) \in Nat
      BY <3>1
    <3> QED
      BY <2>3, <3>1, <3>3, <3>4 DEF Moves
  <2> QED
    BY <1>1, <2>1, <2>2, <2>4, AgreeNotes DEF AgreeInv
<1>14. ASSUME ReaderMoves \/ CountEvent \/ UNCHANGED vars
       PROVE  AgreeInv'
  <2>1. UNCHANGED <<mMutex, pc, ctx, ask, hCard, contextMapList, mismatched, server, cardsList, channelMapList, replies>>
    BY <1>14 DEF ReaderMoves, CountEvent, vars, libVars, threadVars, wireVars, daemonVars, historyVars
  <2> QED
    BY <1>2, <2>1 DEF HolderStays
<1>15. ASSUME NEW t \in Threads, Begins(t)
       PROVE  AgreeInv'
  BY <1>3, <1>5, <1>6, <1>15, BeginsCases
<1> QED
  BY <1>7, <1>8, <1>9, <1>10, <1>11, <1>12, <1>13, <1>14, <1>15
  DEF Next, Continues, Daemon, StatusThread

\* pcscd is ahead of the library by the answer that is on the way.
THEOREM AgreeInvariant == Spec => []AgreeInv
<1>1. Init => AgreeInv
  BY DEF Init, AgreeInv
<1> QED
  BY <1>1, AgreeStep, MutexInvariant, WireInvariant, PTL DEF Spec

\* Between calls the library and pcscd have the same handles for a context
\* whose answers were never taken for one another (winscard_clnt.c:842,
\* 1092, winscard_svc.c:448, 486).
THEOREM HandlesAgreed == Spec => []HandlesAgree
<1>1. ASSUME TypeOK, HoldersHave, WireInv, AgreeInv PROVE HandlesAgree
  <2> SUFFICES ASSUME NEW c \in contextMapList \ mismatched, server[c] = "open",
                      \A t \in Threads : ctx[t] # c \/ pc[t] = "lock"
               PROVE  channelMapList[c] = cardsList[c]
    BY DEF HandlesAgree
  <2>1. c \in Contexts /\ OneAnswer(c) /\ Agree(c)
    BY <1>1, TypeParts DEF LibTypes, WireInv, AgreeInv
  <2>2. \A command \in Real : ~Awaits(c, command)
    BY DEF Awaits
  <2>3. NoAnswer(c)
    BY <2>1, <2>2, FreeIsClear
  <2> QED
    BY <2>1, <2>3, AgreeClear
<1> QED
  BY <1>1, AgreeInvariant, WireInvariant, MutexInvariant, PTL DEF MutexInv
-----------------------------------------------------------------------------
(***************************************************************************)
(* What SCardGetStatusChange tells of a reader.                            *)
(***************************************************************************)
\* The flags of a reader, whatever the application believed of it.
StateOf(r) ==
  (CASE r.card = "UNKNOWN" -> {"UNAVAILABLE"}
     [] r.card = "ABSENT" -> {"EMPTY"}
     [] r.card = "POWERED" -> {"PRESENT"}
     [] r.card = "SWALLOWED" -> {"PRESENT", "MUTE"})
  \cup (IF r.sharing = -1 THEN {"EXCLUSIVE"} ELSE {})
  \cup (IF r.sharing = 1 /\ Present(r) THEN {"INUSE"} ELSE {})

CounterOf(r) == IF r.card = "UNKNOWN" THEN 0 ELSE r.counter % CounterWrap

\* What makes the call return.
UsedOtherwise(current, r) ==
  \/ r.sharing = -1 /\ "INUSE" \in current.flags
  \/ r.sharing = 1 /\ Present(r) /\ "EXCLUSIVE" \in current.flags
  \/ r.sharing = 0 /\ {"INUSE", "EXCLUSIVE"} \cap current.flags # {}

CardMoved(current, r) ==
  \/ r.card = "UNKNOWN" /\ "UNAVAILABLE" \notin current.flags
  \/ r.card # "UNKNOWN" /\ "UNAVAILABLE" \in current.flags
  \/ r.card = "ABSENT" /\ "PRESENT" \in current.flags
  \/ Present(r) /\ ("EMPTY" \in current.flags \/ (("MUTE" \in current.flags) # (r.card = "SWALLOWED")))

Breaks(current, r) ==
  \/ "UNKNOWN" \in current.flags
  \/ current.counter # 0 /\ r.counter # current.counter
  \/ CardMoved(current, r) \/ UsedOtherwise(current, r) \/ current = Unaware

LEMMA KnownState ==
  ASSUME NEW current \in Belief, NEW r \in Reader
  PROVE  /\ KnownReader({}, current, r).flags \ {"CHANGED"} = StateOf(r)
         /\ KnownReader({}, current, r).counter = CounterOf(r)
         /\ KnownReader({}, current, r).break = TRUE <=> Breaks(current, r)
<1> DEFINE e0 == [flags |-> {}, counter |-> 0, break |-> FALSE]
           e1 == ComesBack(e0, current)
           e2 == CountsEvents(e1, current, r)
           e3 == Availability(e2, current, r)
           e4 == Presence(e3, current, r)
           e5 == Sharing(e4, current, r)
           e6 == FirstTime(e5, current)
           n == r.counter % CounterWrap
<1>0. /\ 0 \in 0..CounterWrap - 1 /\ n \in 0..CounterWrap - 1
      /\ r.card \in Cards /\ r.sharing \in {-1, 0, 1} /\ {} \in SUBSET Flags
  BY CounterWrapAssumption, BoundAssumption DEF Reader
<1>1. KnownReader({}, current, r) = e6
  BY DEF KnownReader
<1>2. e0 \in Event /\ e0.flags = {} /\ e0.break = FALSE /\ e0.counter = 0
  BY <1>0 DEF Event
<1> HIDE DEF e0
<1>3. e1 \in Event /\ e1.flags \ {"CHANGED"} = {} /\ (e1.break = TRUE <=> "UNKNOWN" \in current.flags) /\ e1.counter = 0
  <2>1. CASE "UNKNOWN" \in current.flags
    <3> DEFINE s == Section(e0, e0.flags, TRUE)
    <3>1. e0.flags \in SUBSET Flags
      BY <1>0, <1>2
    <3>2. s \in Event /\ s.break = TRUE /\ s.flags = {"CHANGED"} /\ s.counter = 0
      BY <1>2, <3>1 DEF Section, Event, Flags
    <3>3. e1 = [s EXCEPT !.flags = @ \ {"UNKNOWN"}]
      BY <2>1 DEF ComesBack
    <3>4. {"UNKNOWN"} \in SUBSET Flags
      BY DEF Flags
    <3> HIDE DEF s
    <3> QED
      BY <2>1, <3>2, <3>3, <3>4 DEF Event, Flags
  <2>2. CASE "UNKNOWN" \notin current.flags
    <3>1. e1 = e0
      BY <2>2 DEF ComesBack
    <3> QED
      BY <1>2, <2>2, <3>1
  <2> QED
    BY <2>1, <2>2
<1> HIDE DEF e1
<1> DEFINE counts == current.counter # 0 /\ r.counter # current.counter
<1>4. e2 \in Event /\ e2.flags \ {"CHANGED"} = {} /\ (e2.break = TRUE <=> e1.break = TRUE \/ counts) /\ e2.counter = n
  <2> DEFINE s == Section(e1, e1.flags, counts)
  <2>1. e1.flags \in SUBSET Flags
    BY <1>3 DEF Event
  <2>2. s \in Event /\ s.flags \ {"CHANGED"} = {} /\ (s.break = TRUE <=> e1.break = TRUE \/ counts)
    <3> HIDE DEF counts
    <3>1. CASE counts
      BY <1>3, <2>1, <3>1 DEF Section, Event, Flags
    <3>2. CASE ~counts
      BY <1>3, <2>1, <3>2 DEF Section, Event, Flags
    <3> QED
      BY <3>1, <3>2
  <2>3. e2 = [s EXCEPT !.counter = n]
    BY DEF CountsEvents
  <2> HIDE DEF s, n, e2, counts
  <2> QED
    BY <1>0, <2>2, <2>3, CounterType
<1> HIDE DEF e2, counts, n
<1> DEFINE away == \/ r.card = "UNKNOWN" /\ "UNAVAILABLE" \notin current.flags
                   \/ r.card # "UNKNOWN" /\ "UNAVAILABLE" \in current.flags
<1>5. /\ e3 \in Event /\ (e3.break = TRUE <=> e2.break = TRUE \/ away) /\ e3.counter = CounterOf(r)
      /\ e3.flags \ {"CHANGED"} = IF r.card = "UNKNOWN" THEN {"UNAVAILABLE"} ELSE {}
  <2>1. e2.flags \in SUBSET Flags /\ e2.flags \ {"UNAVAILABLE"} \in SUBSET Flags /\ {"UNAVAILABLE"} \in SUBSET Flags
    BY <1>4 DEF Event, Flags
  <2>2. CASE r.card = "UNKNOWN"
    <3> DEFINE moved == "UNAVAILABLE" \notin current.flags
               s == Section(e2, {"UNAVAILABLE"}, moved)
    <3>1. e3 = [s EXCEPT !.counter = 0]
      BY <2>2 DEF Availability
    <3>2. away <=> moved
      BY <2>2
    <3>3. s \in Event /\ s.flags \ {"CHANGED"} = {"UNAVAILABLE"} /\ (s.break = TRUE <=> e2.break = TRUE \/ moved)
      <4> HIDE DEF moved
      <4>1. CASE moved
        BY <1>4, <2>1, <4>1 DEF Section, Event, Flags
      <4>2. CASE ~moved
        BY <1>4, <2>1, <4>2 DEF Section, Event, Flags
      <4> QED
        BY <4>1, <4>2
    <3> HIDE DEF s, moved, away, e3
    <3> QED
      BY <1>0, <2>2, <3>1, <3>2, <3>3, CounterType DEF CounterOf
  <2>3. CASE r.card # "UNKNOWN" /\ "UNAVAILABLE" \in current.flags
    <3>1. e3 = Section(e2, e2.flags \ {"UNAVAILABLE"}, TRUE)
      BY <2>3 DEF Availability
    <3>2. away
      BY <2>3
    <3> HIDE DEF away, e3
    <3> QED
      BY <1>4, <2>1, <2>3, <3>1, <3>2 DEF Section, Event, Flags, CounterOf, n
  <2>4. CASE r.card # "UNKNOWN" /\ "UNAVAILABLE" \notin current.flags
    <3>1. e3 = e2 /\ ~away
      BY <2>4 DEF Availability
    <3> QED
      BY <1>4, <2>4, <3>1 DEF CounterOf, n
  <2> QED
    BY <2>2, <2>3, <2>4
<1> HIDE DEF e3
<1> DEFINE seen == \/ r.card = "ABSENT" /\ "PRESENT" \in current.flags
                   \/ Present(r) /\ ("EMPTY" \in current.flags \/ (("MUTE" \in current.flags) # (r.card = "SWALLOWED")))
           state == CASE r.card = "UNKNOWN" -> {"UNAVAILABLE"}
                      [] r.card = "ABSENT" -> {"EMPTY"}
                      [] r.card = "POWERED" -> {"PRESENT"}
                      [] r.card = "SWALLOWED" -> {"PRESENT", "MUTE"}
<1>6. /\ e4 \in Event /\ (e4.break = TRUE <=> e3.break = TRUE \/ seen) /\ e4.counter = CounterOf(r)
      /\ e4.flags \ {"CHANGED"} = state
  <2>1. e3.flags \in SUBSET Flags
    BY <1>5 DEF Event
  <2>2. CASE r.card = "ABSENT"
    <3> DEFINE fl == (e3.flags \ {"PRESENT", "UNKNOWN", "UNAVAILABLE", "MUTE", "INUSE"}) \cup {"EMPTY"}
               moved == "PRESENT" \in current.flags
    <3>1. fl \in SUBSET Flags /\ fl \ {"CHANGED"} = state
      BY <1>5, <2>1, <2>2 DEF Flags
    <3>2. e4 = Section(e3, fl, moved) /\ (seen <=> moved)
      BY <2>2 DEF Presence, Present
    <3> HIDE DEF fl, e4, moved, seen, state
    <3>3. CASE moved
      BY <1>5, <3>1, <3>2, <3>3 DEF Section, Event, Flags
    <3>4. CASE ~moved
      BY <1>5, <3>1, <3>2, <3>4 DEF Section, Event, Flags
    <3> QED
      BY <3>3, <3>4
  <2>3. CASE Present(r)
    <3> DEFINE fl == (e3.flags \ {"EMPTY", "UNKNOWN", "UNAVAILABLE", "MUTE"})
                     \cup (IF r.card = "SWALLOWED" THEN {"PRESENT", "MUTE"} ELSE {"PRESENT"})
               moved == "EMPTY" \in current.flags \/ (("MUTE" \in current.flags) # (r.card = "SWALLOWED"))
    <3>1. fl \in SUBSET Flags
      BY <2>1 DEF Flags
    <3>2. e4 = Section(e3, fl, moved) /\ (seen <=> moved)
      BY <2>3 DEF Presence, Present
    <3>3. fl \ {"CHANGED"} = state
      BY <1>5, <2>3 DEF Present
    <3> HIDE DEF fl, e4, moved, seen, state
    <3>4. CASE moved
      BY <1>5, <3>1, <3>2, <3>3, <3>4 DEF Section, Event, Flags
    <3>5. CASE ~moved
      BY <1>5, <3>1, <3>2, <3>3, <3>5 DEF Section, Event, Flags
    <3> QED
      BY <3>4, <3>5
  <2>4. CASE r.card = "UNKNOWN"
    BY <1>5, <2>4 DEF Presence, Present
  <2> QED
    BY <1>0, <2>2, <2>3, <2>4 DEF Cards, Present
<1> HIDE DEF e4, seen
<1>7. /\ e5 \in Event /\ (e5.break = TRUE <=> e4.break = TRUE \/ UsedOtherwise(current, r)) /\ e5.counter = CounterOf(r)
      /\ e5.flags \ {"CHANGED"} = StateOf(r)
  <2>1. /\ e4.flags \in SUBSET Flags
        /\ (e4.flags \ {"INUSE"}) \cup {"EXCLUSIVE"} \in SUBSET Flags
        /\ (e4.flags \ {"EXCLUSIVE"}) \cup {"INUSE"} \in SUBSET Flags
        /\ e4.flags \ {"INUSE", "EXCLUSIVE"} \in SUBSET Flags
    BY <1>6 DEF Event, Flags
  <2>2. state \cap {"INUSE", "EXCLUSIVE", "CHANGED"} = {}
    BY <1>0 DEF Cards
  <2>3. StateOf(r) = state \cup (IF r.sharing = -1 THEN {"EXCLUSIVE"} ELSE {})
                           \cup (IF r.sharing = 1 /\ Present(r) THEN {"INUSE"} ELSE {})
    BY DEF StateOf
  <2> HIDE DEF state
  <2>4. CASE r.sharing = -1
    <3> DEFINE fl == (e4.flags \ {"INUSE"}) \cup {"EXCLUSIVE"}
               moved == "INUSE" \in current.flags
    <3>1. e5 = Section(e4, fl, moved) /\ (UsedOtherwise(current, r) <=> moved)
      BY <2>4 DEF Sharing, UsedOtherwise
    <3>2. fl \in SUBSET Flags /\ fl \ {"CHANGED"} = StateOf(r)
      BY <1>6, <2>1, <2>2, <2>3, <2>4
    <3> HIDE DEF fl, moved, e5
    <3>3. CASE moved
      BY <1>6, <3>1, <3>2, <3>3 DEF Section, Event, Flags
    <3>4. CASE ~moved
      BY <1>6, <3>1, <3>2, <3>4 DEF Section, Event, Flags
    <3> QED
      BY <3>3, <3>4
  <2>5. CASE r.sharing = 1 /\ Present(r)
    <3> DEFINE fl == (e4.flags \ {"EXCLUSIVE"}) \cup {"INUSE"}
               moved == "EXCLUSIVE" \in current.flags
    <3>1. e5 = Section(e4, fl, moved) /\ (UsedOtherwise(current, r) <=> moved)
      BY <2>5 DEF Sharing, UsedOtherwise
    <3>2. fl \in SUBSET Flags /\ fl \ {"CHANGED"} = StateOf(r)
      BY <1>6, <2>1, <2>2, <2>3, <2>5
    <3> HIDE DEF fl, moved, e5
    <3>3. CASE moved
      BY <1>6, <3>1, <3>2, <3>3 DEF Section, Event, Flags
    <3>4. CASE ~moved
      BY <1>6, <3>1, <3>2, <3>4 DEF Section, Event, Flags
    <3> QED
      BY <3>3, <3>4
  <2>6. CASE r.sharing = 1 /\ ~Present(r)
    <3>1. e5 = e4 /\ ~UsedOtherwise(current, r)
      BY <2>6 DEF Sharing, UsedOtherwise
    <3>2. StateOf(r) = state
      BY <2>3, <2>6
    <3> HIDE DEF e5
    <3> QED
      BY <1>6, <3>1, <3>2
  <2>7. CASE r.sharing = 0
    <3> DEFINE fl == e4.flags \ {"INUSE", "EXCLUSIVE"}
               moved == {"INUSE", "EXCLUSIVE"} \cap current.flags # {}
    <3>1. e5 = Section(e4, fl, moved) /\ (UsedOtherwise(current, r) <=> moved)
      BY <2>7 DEF Sharing, UsedOtherwise
    <3>2. fl \in SUBSET Flags /\ fl \ {"CHANGED"} = StateOf(r)
      BY <1>6, <2>1, <2>2, <2>3, <2>7
    <3> HIDE DEF fl, moved, e5
    <3>3. CASE moved
      BY <1>6, <3>1, <3>2, <3>3 DEF Section, Event, Flags
    <3>4. CASE ~moved
      BY <1>6, <3>1, <3>2, <3>4 DEF Section, Event, Flags
    <3> QED
      BY <3>3, <3>4
  <2> QED
    BY <1>0, <2>4, <2>5, <2>6, <2>7
<1> HIDE DEF e5
<1>8. /\ e6.flags \ {"CHANGED"} = StateOf(r) /\ e6.counter = CounterOf(r)
      /\ e6.break = TRUE <=> e5.break = TRUE \/ current = Unaware
  <2> DEFINE moved == current = Unaware
  <2>1. e5.flags \in SUBSET Flags /\ e6 = Section(e5, e5.flags, moved)
    BY <1>7 DEF Event, FirstTime
  <2> HIDE DEF moved, e6
  <2>2. CASE moved
    BY <1>7, <2>1, <2>2 DEF Section, Event, Flags, moved
  <2>3. CASE ~moved
    BY <1>7, <2>1, <2>3 DEF Section, Event, Flags, moved
  <2> QED
    BY <2>2, <2>3
<1> HIDE DEF e6
<1>9. Breaks(current, r) <=> \/ "UNKNOWN" \in current.flags \/ counts \/ away \/ seen
                             \/ UsedOtherwise(current, r) \/ current = Unaware
  BY DEF Breaks, CardMoved, counts, away, seen
<1> HIDE DEF away
<1> QED
  BY <1>1, <1>3, <1>4, <1>5, <1>6, <1>7, <1>8, <1>9

\* An application that gives back what it has been told is told again by the
\* counter only, when half a word cannot hold it.
LEMMA QuietReader ==
  ASSUME NEW current \in Belief, NEW r \in Reader
  PROVE  KnownReader({}, FedBack(KnownReader({}, current, r)), r).break <=> PastHalfWord(r)
<1> DEFINE e == KnownReader({}, current, r)
           b == FedBack(e)
<1>1. b \in Belief /\ b.flags = StateOf(r) /\ b.counter = CounterOf(r)
  <2>1. {} \in SUBSET Flags
    OBVIOUS
  <2> QED
    BY <2>1, KnownType, KnownState DEF FedBack
<1> HIDE DEF b
<1>2. (CounterOf(r) # 0 /\ r.counter # CounterOf(r)) <=> PastHalfWord(r)
  <2>1. r.counter \in Nat /\ CounterWrap \in Nat \ {0}
    BY CounterWrapAssumption, BoundAssumption DEF Reader
  <2>2. r.counter < CounterWrap => r.counter % CounterWrap = r.counter
    BY <2>1
  <2>3. r.counter % CounterWrap \in 0..CounterWrap - 1
    BY <2>1
  <2> HIDE DEF PastHalfWord
  <2> QED
    BY <2>1, <2>2, <2>3 DEF CounterOf, PastHalfWord
<1>3. r.card \in Cards /\ r.sharing \in {-1, 0, 1}
  BY DEF Reader
<1>4. "UNKNOWN" \notin StateOf(r) /\ StateOf(r) # {}
  BY <1>3 DEF StateOf, Cards
<1>5. ~CardMoved(b, r)
  BY <1>1, <1>3 DEF StateOf, CardMoved, Cards, Present
<1>6. ~UsedOtherwise(b, r)
  BY <1>1, <1>3 DEF StateOf, UsedOtherwise, Cards, Present
<1>7. Breaks(b, r) <=> PastHalfWord(r)
  BY <1>1, <1>2, <1>4, <1>5, <1>6 DEF Breaks, Unaware
<1>8. KnownReader({}, b, r) \in Event
  <2>1. {} \in SUBSET Flags
    OBVIOUS
  <2> QED
    BY <1>1, <2>1, KnownType
<1> QED
  BY <1>1, <1>7, <1>8, KnownState DEF Event, b

\* An application that knows a reader is told of another state of its card.
LEMMA MovedReader ==
  ASSUME NEW current \in Belief, NEW r \in Reader, NEW s \in Reader, r.card # s.card
  PROVE  KnownReader({}, FedBack(KnownReader({}, current, r)), s).break
<1> DEFINE e == KnownReader({}, current, r)
           b == FedBack(e)
<1>1. b \in Belief /\ b.flags = StateOf(r)
  <2>1. {} \in SUBSET Flags
    OBVIOUS
  <2> QED
    BY <2>1, KnownType, KnownState DEF FedBack
<1> HIDE DEF b
<1>2. r.card \in Cards /\ s.card \in Cards
  BY DEF Reader
<1>3. CardMoved(b, s)
  BY <1>1, <1>2 DEF StateOf, CardMoved, Cards, Present
<1>4. Breaks(b, s)
  BY <1>3 DEF Breaks
<1> QED
  BY <1>1, <1>4, KnownState DEF b

\* An application that gives back what it has been told of a reader waits,
\* unless the counter of the reader has left the half word, and is then told
\* at once, whatever it gives back (winscard_clnt.c:1899-1918).
THEOREM QuietUnlessPastHalfWord == Spec => []FedBackQuiet
<1>1. TypeOK => FedBackQuiet
  <2> SUFFICES ASSUME TypeOK, NEW t \in Threads, NEW r \in Uses(reader)
               PROVE  ToldAgain(t, r) <=> PastHalfWord(r)
    BY DEF FedBackQuiet
  <2>1. dwCurrentState[t] \in Belief /\ reader \in Reader
    BY TypeParts DEF LibTypes
  <2>2. r \in Reader
    BY <2>1 DEF Uses, Reader
  <2> QED
    BY <2>1, <2>2, QuietReader DEF ToldAgain
<1> QED
  BY <1>1, MutexInvariant, PTL DEF MutexInv

\* An application that knows the state of a reader is told when its card
\* moves, whether or not the event has been counted (eventhandler.c:317-400).
THEOREM CardChangeIsSeen == Spec => CardChangeSeen
<1>1. ASSUME TypeOK, TypeOK', reader'.card # reader.card,
             NEW r \in Uses(reader), NEW s \in Uses(reader')
      PROVE  KnownReader({}, FedBack(KnownReader({}, Unaware, r)), s).break
  <2>1. reader \in Reader /\ reader' \in Reader
    BY <1>1, TypeParts, TypePartsNext DEF LibTypes
  <2>2. r \in Reader /\ s \in Reader /\ r.card = reader.card /\ s.card = reader'.card
    BY <2>1 DEF Uses, Reader
  <2>3. Unaware \in Belief
    BY CounterWrapAssumption DEF Unaware, Belief
  <2> QED
    BY <1>1, <2>2, <2>3, MovedReader
<1>2. TypeOK /\ TypeOK' =>
        [reader'.card # reader.card =>
           \A r \in Uses(reader), s \in Uses(reader') :
             KnownReader({}, FedBack(KnownReader({}, Unaware, r)), s).break]_vars
  BY <1>1
<1> QED
  BY <1>2, MutexInvariant, PTL DEF MutexInv, CardChangeSeen
=============================================================================
