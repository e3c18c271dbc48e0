--------------------------- MODULE ClientLibrary ---------------------------
(***************************************************************************)
(* libpcsclite in an application with several threads (winscard_clnt.c),   *)
(* the socket of each of its contexts (winscard_msg.c) and, at the other   *)
(* end, the thread of pcscd that serves the context (winscard_svc.c) and   *)
(* the list of the clients that wait for an event (eventhandler.c).        *)
(*                                                                         *)
(* A call takes the mutex of its context, sends its request, reads what    *)
(* comes on the socket and gives the mutex back; a step goes from one wait *)
(* to the next.  What pcscd answers to a call on a card is the business of *)
(* ResourceManager and is any answer here.                                 *)
(*                                                                         *)
(* Bounds: the sets Threads, Contexts and Handles, MaxEvents events of the *)
(* reader, MaxWaiting waits of one client, and a context is not            *)
(* established again after its release.                                    *)
(***************************************************************************)
EXTENDS ReaderEvents, Sequences, FiniteSets

CONSTANTS
  Threads,     \* threads of the application
  NoThread,
  Contexts,    \* values of SCARDCONTEXT
  NoContext,
  Handles,     \* values of SCARDHANDLE
  NoHandle,
  Names,       \* calls the application makes
  MaxEvents,
  MaxWaiting   \* bound on the times a client is in the list of those who wait

ASSUME NamesAssumption == NoThread \notin Threads /\ NoContext \notin Contexts /\ NoHandle \notin Handles
ASSUME BoundAssumption == MaxEvents \in Nat /\ MaxWaiting \in Nat

VARIABLES
  \* the library
  contextMapList,  \* contexts it knows
  mMutex,          \* thread that has the mutex of each context
  channelMapList,  \* handles of each context
  cancellable,     \* whether a context waits for an event
  readerStates,    \* the library's copy of the reader, one for all contexts
  \* the threads of the application
  pc, name, ctx, hCard,
  ask,             \* command whose answer is awaited
  dwCurrentState,  \* what the thread believes of the reader
  dwEventState,    \* flags of the event it builds
  \* the sockets
  requests, replies,
  \* pcscd
  server,          \* thread of each context: "new", "open", "released", "closed"
  cardsList,       \* handles of each context
  waiting,         \* times each context is in ClientsWaitingForEvent
  reader, ehPc,
  \* history
  strayed,         \* contexts that have been sent more than they wait for
  forgotten,       \* contexts a call of which has found its handle closed
  mismatched       \* contexts that have taken one message for another

libVars == <<contextMapList, mMutex, channelMapList, cancellable, readerStates>>
threadVars == <<pc, name, ctx, hCard, ask, dwCurrentState, dwEventState>>
wireVars == <<requests, replies>>
daemonVars == <<server, cardsList, waiting, reader, ehPc>>
historyVars == <<strayed, forgotten, mismatched>>
vars == <<libVars, threadVars, wireVars, daemonVars, historyVars>>

Reader == [card : Cards, counter : 0..MaxEvents, sharing : {-1, 0, 1}]
\* What is in a message that does not tell of the reader, and at the start.
Unread == [card |-> "ABSENT", counter |-> 0, sharing |-> 0]
HandleCalls == {"RECONNECT", "DISCONNECT", "BEGIN", "END", "STATUS", "CONTROL", "ATTRIB", "TRANSMIT"}
ContextCalls == {"RELEASE", "CONNECT", "LIST_READERS", "LIST_GROUPS", "WATCH", "WATCH_FOR"}
\* Calls that are made again as long as another has the card.
Retried == {"RECONNECT", "BEGIN", "STATUS", "TRANSMIT"}
Commands == HandleCalls \cup {"RELEASE", "CONNECT", "GET_READERS_STATE", "WAIT", "STOP", "none"}
Message ==
  {m \in [kind : Commands, rv : {"SUCCESS", "VIOLATION", "ERROR", "CANCELLED"},
          handle : Handles \cup {NoHandle}, reader : Reader] :
     m.kind = "CONNECT" /\ m.rv = "SUCCESS" => m.handle \in Handles}

TypeOK ==
  /\ contextMapList \in SUBSET Contexts
  /\ mMutex \in [Contexts -> Threads \cup {NoThread}]
  /\ channelMapList \in [Contexts -> SUBSET Handles]
  /\ cancellable \in [Contexts -> BOOLEAN]
  /\ readerStates \in Reader /\ reader \in Reader
  /\ pc \in [Threads -> {"idle", "lock", "recv", "wait", "compare", "remove", "cancel", "stuck"}]
  /\ name \in [Threads -> HandleCalls \cup ContextCalls \cup {"CANCEL", "EXPIRED", "none"}]
  /\ ctx \in [Threads -> Contexts \cup {NoContext}]
  /\ hCard \in [Threads -> Handles \cup {NoHandle}]
  /\ ask \in [Threads -> Commands]
  /\ dwCurrentState \in [Threads -> [flags : SUBSET Flags, counter : 0..CounterWrap - 1]]
  /\ dwEventState \in [Threads -> SUBSET Flags]
  /\ requests \in [Contexts -> Seq([command : Commands, handle : Handles \cup {NoHandle}])]
  /\ replies \in [Contexts -> Seq(Message)]
  /\ server \in [Contexts -> {"new", "open", "released", "closed"}]
  /\ cardsList \in [Contexts -> SUBSET Handles]
  /\ waiting \in [Contexts -> 0..MaxWaiting]
  /\ ehPc \in {"poll", "count", "signal"}
  /\ strayed \subseteq Contexts /\ forgotten \subseteq Contexts /\ mismatched \subseteq Contexts

Init ==
  /\ contextMapList = {}
  /\ mMutex = [c \in Contexts |-> NoThread]
  /\ channelMapList = [c \in Contexts |-> {}]
  /\ cancellable = [c \in Contexts |-> FALSE]
  /\ reader = Unread /\ readerStates = Unread
  /\ pc = [t \in Threads |-> "idle"] /\ name = [t \in Threads |-> "none"]
  /\ ctx = [t \in Threads |-> NoContext] /\ hCard = [t \in Threads |-> NoHandle]
  /\ ask = [t \in Threads |-> "none"]
  /\ dwCurrentState = [t \in Threads |-> Unaware] /\ dwEventState = [t \in Threads |-> {}]
  /\ requests = [c \in Contexts |-> <<>>] /\ replies = [c \in Contexts |-> <<>>]
  /\ server = [c \in Contexts |-> "new"] /\ cardsList = [c \in Contexts |-> {}]
  /\ waiting = [c \in Contexts |-> 0] /\ ehPc = "poll"
  /\ strayed = {} /\ forgotten = {} /\ mismatched = {}
-----------------------------------------------------------------------------
(***************************************************************************)
(* The start of a call.                                                    *)
(***************************************************************************)
\* The connection, CMD_VERSION and SCARD_ESTABLISH_CONTEXT, under
\* clientMutex; nobody knows the context before the end.
SCardEstablishContext(t, c) ==
  /\ pc[t] = "idle" /\ server[c] = "new"
  /\ server' = [server EXCEPT ![c] = "open"]
  /\ contextMapList' = contextMapList \cup {c}
  /\ UNCHANGED <<mMutex, channelMapList, cancellable, readerStates, threadVars, wireVars,
                 cardsList, waiting, reader, ehPc, historyVars>>

Start(t, call, c, h) ==
  /\ pc[t] = "idle" /\ call \in Names
  /\ pc' = [pc EXCEPT ![t] = "lock"]
  /\ name' = [name EXCEPT ![t] = call]
  /\ ctx' = [ctx EXCEPT ![t] = c]
  /\ hCard' = [hCard EXCEPT ![t] = h]
  /\ dwEventState' = [dwEventState EXCEPT ![t] = {}]
  /\ UNCHANGED <<libVars, ask, dwCurrentState, wireVars, daemonVars, historyVars>>

CallHandle(t, call, h) ==
  \E c \in contextMapList : h \in channelMapList[c] /\ Start(t, call, c, h)

SCardReconnect(t, h) == CallHandle(t, "RECONNECT", h)
SCardDisconnect(t, h) == CallHandle(t, "DISCONNECT", h)
SCardBeginTransaction(t, h) == CallHandle(t, "BEGIN", h)
SCardEndTransaction(t, h) == CallHandle(t, "END", h)
SCardStatus(t, h) == CallHandle(t, "STATUS", h)
SCardControl(t, h) == CallHandle(t, "CONTROL", h)
SCardGetSetAttrib(t, h) == CallHandle(t, "ATTRIB", h)
SCardTransmit(t, h) == CallHandle(t, "TRANSMIT", h)

CallContext(t, call, c) == c \in contextMapList /\ Start(t, call, c, NoHandle)

SCardConnect(t, c) == CallContext(t, "CONNECT", c)
SCardListReaders(t, c) == CallContext(t, "LIST_READERS", c)
SCardListReaderGroups(t, c) == CallContext(t, "LIST_GROUPS", c)
SCardReleaseContext(t, c) == CallContext(t, "RELEASE", c)
SCardGetStatusChange(t, c) == CallContext(t, "WATCH", c) \/ CallContext(t, "WATCH_FOR", c)

\* MessageSendWithHeader, and the wait for the answer; nothing is read at the
\* other end of a connection pcscd has closed.
Ask(t, command, where) ==
  /\ requests' = [requests EXCEPT ![ctx[t]] =
                    IF server[ctx[t]] = "closed" THEN @
                    ELSE Append(@, [command |-> command, handle |-> hCard[t]])]
  /\ ask' = [ask EXCEPT ![t] = command]
  /\ pc' = [pc EXCEPT ![t] = where]

Return(t) ==
  /\ pc' = [pc EXCEPT ![t] = "idle"]
  /\ name' = [name EXCEPT ![t] = "none"]
  /\ ctx' = [ctx EXCEPT ![t] = NoContext]
  /\ hCard' = [hCard EXCEPT ![t] = NoHandle]
  /\ ask' = [ask EXCEPT ![t] = "none"]
  /\ dwEventState' = [dwEventState EXCEPT ![t] = {}]

\* Mutant: an answer that is an error leaves by a return of its own.
FinishForgets(t) == UNCHANGED mMutex /\ Return(t)

\* The end label of a call: the mutex is given back; SCardReleaseContext
\* still has to remove the context.
Finish(t) ==
  /\ mMutex' = [mMutex EXCEPT ![ctx[t]] = NoThread]
  /\ IF name[t] = "RELEASE"
     THEN /\ pc' = [pc EXCEPT ![t] = "remove"]
          /\ ask' = [ask EXCEPT ![t] = "none"]
          /\ UNCHANGED <<name, ctx, hCard, dwEventState>>
     ELSE Return(t)

\* Mutant: the calls of one context are not kept apart.
AcquireNothing(t) == UNCHANGED mMutex

Acquire(t) == mMutex' = [mMutex EXCEPT ![ctx[t]] = t]

FirstCommand(call) ==
  IF call \in {"STATUS", "LIST_READERS", "WATCH", "WATCH_FOR"} THEN "GET_READERS_STATE" ELSE call

\* The handle is looked up again once the mutex is there.  When another
\* thread has closed it in the meantime the call returns, with the mutex.
Lock(t) ==
  LET c == ctx[t]
  IN  /\ pc[t] = "lock" /\ c \in contextMapList /\ mMutex[c] = NoThread
      /\ IF hCard[t] # NoHandle /\ hCard[t] \notin channelMapList[c]
         THEN /\ Acquire(t)
              /\ forgotten' = forgotten \cup {c}
              /\ Return(t)
              /\ UNCHANGED requests
         ELSE /\ UNCHANGED forgotten
              /\ IF name[t] = "LIST_GROUPS"
                 THEN Return(t) /\ UNCHANGED <<mMutex, requests>>
                 ELSE /\ Acquire(t)
                      /\ Ask(t, FirstCommand(name[t]), "recv")
                      /\ UNCHANGED <<name, ctx, hCard, dwEventState>>
      /\ UNCHANGED <<contextMapList, channelMapList, cancellable, readerStates, dwCurrentState,
                     replies, daemonVars, strayed, mismatched>>

\* The mutex has been destroyed and freed while the thread waited for it: the
\* thread goes on and finds its context gone, or is never woken.
LockFreed(t) ==
  /\ pc[t] = "lock" /\ ctx[t] \notin contextMapList
  /\ Return(t) \/ (pc' = [pc EXCEPT ![t] = "stuck"] /\ UNCHANGED <<name, ctx, hCard, ask, dwEventState>>)
  /\ UNCHANGED <<libVars, dwCurrentState, wireVars, daemonVars, historyVars>>
-----------------------------------------------------------------------------
(***************************************************************************)
(* The answers.                                                            *)
(***************************************************************************)
Take(c) == replies' = [replies EXCEPT ![c] = Tail(@)]

\* Another thread has the card: the mutex is free for a while.
Retry(t) ==
  /\ mMutex' = [mMutex EXCEPT ![ctx[t]] = NoThread]
  /\ pc' = [pc EXCEPT ![t] = "lock"]
  /\ ask' = [ask EXCEPT ![t] = "none"]
  /\ UNCHANGED <<name, ctx, hCard, dwEventState>>

\* Mutant: the handle is forgotten whatever pcscd says.
ChannelsAfterAlways(t, m) ==
  CASE ask[t] = "CONNECT" /\ m.rv = "SUCCESS" -> channelMapList[ctx[t]] \cup {m.handle}
    [] ask[t] = "DISCONNECT" -> channelMapList[ctx[t]] \ {hCard[t]}
    [] OTHER -> channelMapList[ctx[t]]

\* SCardAddHandle and SCardRemoveHandle.
ChannelsAfter(t, m) ==
  CASE ask[t] = "CONNECT" /\ m.rv = "SUCCESS" -> channelMapList[ctx[t]] \cup {m.handle}
    [] ask[t] = "DISCONNECT" /\ m.rv = "SUCCESS" -> channelMapList[ctx[t]] \ {hCard[t]}
    [] OTHER -> channelMapList[ctx[t]]

\* A message of the size of another has been read.
TakeOther(t) ==
  /\ mismatched' = mismatched \cup {ctx[t]}
  /\ Finish(t)
  /\ UNCHANGED <<channelMapList, readerStates, requests>>

\* The readers' state is the library's, whichever context has asked for it.
TakeReaders(t, m) ==
  /\ readerStates' = m.reader
  /\ CASE name[t] = "STATUS" -> Ask(t, "STATUS", "recv") /\ UNCHANGED <<mMutex, name, ctx, hCard, dwEventState>>
       [] name[t] \in {"WATCH", "WATCH_FOR"} ->
            /\ pc' = [pc EXCEPT ![t] = "compare"]
            /\ ask' = [ask EXCEPT ![t] = "none"]
            /\ UNCHANGED <<mMutex, name, ctx, hCard, dwEventState, requests>>
       [] OTHER -> Finish(t) /\ UNCHANGED requests
  /\ UNCHANGED <<channelMapList, mismatched>>

\* The end of a wait that has timed out: the readers are looked at again.
TakeStopped(t, m) ==
  /\ IF m.rv = "SUCCESS"
     THEN Ask(t, "GET_READERS_STATE", "recv") /\ UNCHANGED <<mMutex, name, ctx, hCard, dwEventState>>
     ELSE Finish(t) /\ UNCHANGED requests
  /\ UNCHANGED <<channelMapList, readerStates, mismatched>>

TakeAnswer(t, m) ==
  /\ channelMapList' = [channelMapList EXCEPT ![ctx[t]] = ChannelsAfter(t, m)]
  /\ IF name[t] \in Retried /\ m.rv = "VIOLATION" THEN Retry(t) ELSE Finish(t)
  /\ UNCHANGED <<readerStates, requests, mismatched>>

\* A signal and the answer to STOP are the same message.
Kind(command) == IF command = "STOP" THEN "WAIT" ELSE command

MessageReceive(t) ==
  LET c == ctx[t]
      m == Head(replies[c])
  IN  /\ pc[t] = "recv" /\ replies[c] # <<>>
      /\ Take(c)
      /\ IF m.kind # Kind(ask[t]) THEN TakeOther(t)
         ELSE CASE ask[t] = "GET_READERS_STATE" -> TakeReaders(t, m)
                [] ask[t] = "STOP"              -> TakeStopped(t, m)
                [] OTHER                        -> TakeAnswer(t, m)
      /\ UNCHANGED <<contextMapList, cancellable, dwCurrentState, daemonVars, strayed, forgotten>>

\* pcscd has closed the connection, or another thread has.
CommError(t) ==
  LET c == ctx[t]
  IN  /\ pc[t] \in {"recv", "wait"} /\ replies[c] = <<>>
      /\ server[c] = "closed"
      /\ cancellable' = [cancellable EXCEPT ![c] = FALSE]
      /\ Finish(t)
      /\ UNCHANGED <<contextMapList, channelMapList, readerStates, dwCurrentState, wireVars,
                     daemonVars, historyVars>>

\* The context is freed and its connection closed.
SCardRemoveContext(t) ==
  LET c == ctx[t]
  IN  /\ pc[t] = "remove"
      /\ contextMapList' = contextMapList \ {c}
      /\ channelMapList' = [channelMapList EXCEPT ![c] = {}]
      /\ requests' = [requests EXCEPT ![c] = <<>>] /\ replies' = [replies EXCEPT ![c] = <<>>]
      /\ server' = [server EXCEPT ![c] = "closed"]
      /\ waiting' = [waiting EXCEPT ![c] = 0]
      /\ Return(t)
      /\ UNCHANGED <<mMutex, cancellable, readerStates, dwCurrentState, cardsList, reader, ehPc, historyVars>>
-----------------------------------------------------------------------------
(***************************************************************************)
(* SCardGetStatusChange: WATCH with an infinite timeout, WATCH_FOR with a  *)
(* finite one.                                                             *)
(***************************************************************************)
\* The readers are compared with what the application believes; nothing new
\* is a reason to wait.
Compare(t) ==
  LET event == KnownReader(dwEventState[t], dwCurrentState[t], readerStates)
      c == ctx[t]
  IN  /\ pc[t] = "compare"
      /\ IF event.break
         THEN /\ dwCurrentState' = [dwCurrentState EXCEPT ![t] = FedBack(event)]
              /\ Finish(t)
              /\ UNCHANGED <<cancellable, requests>>
         ELSE /\ dwEventState' = [dwEventState EXCEPT ![t] = event.flags]
              /\ cancellable' = [cancellable EXCEPT ![c] = TRUE]
              /\ Ask(t, "WAIT", "wait")
              /\ UNCHANGED <<mMutex, name, ctx, hCard, dwCurrentState>>
      /\ UNCHANGED <<contextMapList, channelMapList, readerStates, replies, daemonVars, historyVars>>

\* A signal: an event, or SCardCancel.  The time of a call that has one may
\* be over at that very moment.
Signalled(t) ==
  LET c == ctx[t]
      m == Head(replies[c])
  IN  /\ pc[t] = "wait" /\ replies[c] # <<>>
      /\ Take(c)
      /\ cancellable' = [cancellable EXCEPT ![c] = FALSE]
      /\ IF m.kind # "WAIT" THEN TakeOther(t)
         ELSE IF m.rv # "SUCCESS"
         THEN Finish(t) /\ UNCHANGED <<channelMapList, readerStates, requests, mismatched>>
         ELSE /\ Ask(t, "GET_READERS_STATE", "recv")
              /\ \/ UNCHANGED name
                 \/ name[t] = "WATCH_FOR" /\ name' = [name EXCEPT ![t] = "EXPIRED"]
              /\ UNCHANGED <<mMutex, ctx, hCard, dwEventState, channelMapList, readerStates, mismatched>>
      /\ UNCHANGED <<contextMapList, dwCurrentState, daemonVars, strayed, forgotten>>

\* Mutant: only the application sets a time.
TimedByApplication(t) == name[t] = "WATCH_FOR"

\* A call that has no time of its own looks again after a minute.
Timed(t) == name[t] \in {"WATCH", "WATCH_FOR"}

\* MessageReceiveTimeout is over: after the time of the application, or after
\* a minute when it has not set any.  A signal may be on its way.
TimedOut(t) ==
  LET c == ctx[t]
  IN  /\ pc[t] = "wait" /\ Timed(t)
      /\ cancellable' = [cancellable EXCEPT ![c] = FALSE]
      /\ Ask(t, "STOP", "recv")
      /\ name' = [name EXCEPT ![t] = IF @ = "WATCH_FOR" THEN "EXPIRED" ELSE @]
      /\ strayed' = strayed \cup IF replies[c] # <<>> THEN {c} ELSE {}
      /\ UNCHANGED <<contextMapList, mMutex, channelMapList, readerStates, ctx, hCard, dwCurrentState,
                     dwEventState, replies, daemonVars, forgotten, mismatched>>

\* SCardCancel looks at the flag without the mutex and asks pcscd on a
\* connection of its own.
SCardCancel(t, c) ==
  /\ pc[t] = "idle" /\ "CANCEL" \in Names
  /\ c \in contextMapList /\ cancellable[c]
  /\ pc' = [pc EXCEPT ![t] = "cancel"]
  /\ name' = [name EXCEPT ![t] = "CANCEL"]
  /\ ctx' = [ctx EXCEPT ![t] = c]
  /\ UNCHANGED <<libVars, hCard, ask, dwCurrentState, dwEventState, wireVars, daemonVars, historyVars>>
-----------------------------------------------------------------------------
(***************************************************************************)
(* pcscd.                                                                  *)
(***************************************************************************)
Reply(kind, rv, h) == [kind |-> kind, rv |-> rv, handle |-> h, reader |-> Unread]

\* A client that does not wait, or has a signal already, is sent another.
Strays(c, n) ==
  n > 0 /\ (n > 1 \/ replies[c] # <<>> \/ ~\E t \in Threads : ctx[t] = c /\ pc[t] = "wait")

\* MSGSignalClient to the client of SCARD_CANCEL; it stays in the list of
\* those who wait.
ServeCancel(t) ==
  LET c == ctx[t]
  IN  /\ pc[t] = "cancel"
      /\ IF server[c] = "open"
         THEN /\ replies' = [replies EXCEPT ![c] = Append(@, Reply("WAIT", "CANCELLED", NoHandle))]
              /\ strayed' = strayed \cup (IF Strays(c, 1) \/ waiting[c] > 0 THEN {c} ELSE {})
         ELSE UNCHANGED <<replies, strayed>>
      /\ Return(t)
      /\ UNCHANGED <<libVars, dwCurrentState, requests, daemonVars, forgotten, mismatched>>

\* ContextThread, for one request.  A call on a handle that is not in the
\* list of the context ends the thread.
ServeHandle(c, r) ==
  IF server[c] # "open" \/ r.handle \notin cardsList[c]
  THEN /\ server' = [server EXCEPT ![c] = "closed"]
       /\ UNCHANGED <<cardsList, replies>>
  ELSE \E rv \in {"SUCCESS", "VIOLATION", "ERROR"} :
         /\ rv = "VIOLATION" => r.command \in Retried
         /\ replies' = [replies EXCEPT ![c] = Append(@, Reply(r.command, rv, NoHandle))]
         /\ cardsList' = IF r.command = "DISCONNECT" /\ rv = "SUCCESS"
                         THEN [cardsList EXCEPT ![c] = @ \ {r.handle}] ELSE cardsList
         /\ UNCHANGED server

ServeConnect(c) ==
  /\ \/ \E h \in Handles :
          /\ server[c] = "open" /\ \A d \in Contexts : h \notin cardsList[d] \cup channelMapList[d]
          /\ \A t \in Threads : h # hCard[t]
          /\ replies' = [replies EXCEPT ![c] = Append(@, Reply("CONNECT", "SUCCESS", h))]
          /\ cardsList' = [cardsList EXCEPT ![c] = @ \cup {h}]
     \/ /\ replies' = [replies EXCEPT ![c] = Append(@, Reply("CONNECT", "ERROR", NoHandle))]
        /\ UNCHANGED cardsList
  /\ UNCHANGED server

ServeRelease(c) ==
  /\ replies' = [replies EXCEPT ![c] = Append(@, Reply("RELEASE", "SUCCESS", NoHandle))]
  /\ server' = [server EXCEPT ![c] = "released"]
  /\ cardsList' = [cardsList EXCEPT ![c] = {}]

EHTryToUnregisterClientForEvent(c) ==
  waiting' = [waiting EXCEPT ![c] = IF @ > 0 THEN @ - 1 ELSE 0]

Serve(c) ==
  /\ requests[c] # <<>> /\ server[c] \in {"open", "released"}
  /\ requests' = [requests EXCEPT ![c] = Tail(@)]
  /\ LET r == Head(requests[c])
     IN  CASE r.command = "GET_READERS_STATE" ->
                /\ replies' = [replies EXCEPT ![c] = Append(@,
                                 [Reply("GET_READERS_STATE", "SUCCESS", NoHandle) EXCEPT !.reader = reader])]
                /\ UNCHANGED <<server, cardsList, waiting>>
           [] r.command = "WAIT" ->
                /\ waiting' = [waiting EXCEPT ![c] = IF @ < MaxWaiting THEN @ + 1 ELSE @]
                /\ UNCHANGED <<replies, server, cardsList>>
           [] r.command = "STOP" ->
                /\ replies' = [replies EXCEPT ![c] = Append(@,
                                 Reply("WAIT", IF waiting[c] > 0 THEN "SUCCESS" ELSE "ERROR", NoHandle))]
                /\ EHTryToUnregisterClientForEvent(c)
                /\ UNCHANGED <<server, cardsList>>
           [] r.command = "CONNECT" -> ServeConnect(c) /\ UNCHANGED waiting
           [] r.command = "RELEASE" -> ServeRelease(c) /\ UNCHANGED waiting
           [] OTHER -> ServeHandle(c, r) /\ UNCHANGED waiting
  /\ UNCHANGED <<libVars, threadVars, reader, ehPc, historyVars>>

\* The status thread of the reader: the state, then the event counter, then
\* the signal.  A reader that fails has no counter for it.
ReaderMoves ==
  /\ ehPc = "poll" /\ reader.counter < MaxEvents
  /\ \/ /\ reader' = [reader EXCEPT !.card = IF @ = "ABSENT" THEN "POWERED" ELSE "ABSENT"]
        /\ ehPc' = "count"
     \/ /\ reader.card # "UNKNOWN"
        /\ reader' = [reader EXCEPT !.card = "UNKNOWN"]
        /\ ehPc' = "signal"
  /\ UNCHANGED <<libVars, threadVars, wireVars, server, cardsList, waiting, historyVars>>

CountEvent ==
  /\ ehPc = "count"
  /\ reader' = [reader EXCEPT !.counter = @ + 1]
  /\ ehPc' = "signal"
  /\ UNCHANGED <<libVars, threadVars, wireVars, server, cardsList, waiting, historyVars>>

EHSignalEventToClients ==
  /\ ehPc = "signal"
  /\ replies' = [c \in Contexts |-> replies[c] \o [i \in 1..waiting[c] |-> Reply("WAIT", "SUCCESS", NoHandle)]]
  /\ waiting' = [c \in Contexts |-> 0]
  /\ strayed' = strayed \cup {c \in Contexts : Strays(c, waiting[c])}
  /\ ehPc' = "poll"
  /\ UNCHANGED <<libVars, threadVars, requests, server, cardsList, reader, forgotten, mismatched>>
-----------------------------------------------------------------------------
Begins(t) ==
  \/ \E c \in Contexts :
       \/ SCardEstablishContext(t, c) \/ SCardReleaseContext(t, c) \/ SCardConnect(t, c)
       \/ SCardListReaders(t, c) \/ SCardListReaderGroups(t, c)
       \/ SCardGetStatusChange(t, c) \/ SCardCancel(t, c)
  \/ \E h \in Handles :
       \/ SCardReconnect(t, h) \/ SCardDisconnect(t, h) \/ SCardStatus(t, h)
       \/ SCardBeginTransaction(t, h) \/ SCardEndTransaction(t, h)
       \/ SCardControl(t, h) \/ SCardGetSetAttrib(t, h) \/ SCardTransmit(t, h)

Continues(t) ==
  \/ Lock(t) \/ LockFreed(t) \/ MessageReceive(t) \/ CommError(t) \/ SCardRemoveContext(t)
  \/ Compare(t) \/ Signalled(t)

Daemon == (\E c \in Contexts : Serve(c)) \/ (\E t \in Threads : ServeCancel(t))
StatusThread == CountEvent \/ EHSignalEventToClients

Next ==
  \/ \E t \in Threads : Begins(t) \/ Continues(t) \/ TimedOut(t)
  \/ Daemon \/ ReaderMoves \/ StatusThread

Spec == Init /\ [][Next]_vars

\* Threads and pcscd go on; a wait does not last more than a minute.
Fairness ==
  /\ \A t \in Threads : WF_vars(Continues(t)) /\ WF_vars(TimedOut(t))
  /\ \A c \in Contexts : WF_vars(Serve(c))
  /\ \A t \in Threads : WF_vars(ServeCancel(t))
  /\ WF_vars(StatusThread)
FairSpec == Spec /\ Fairness
-----------------------------------------------------------------------------
(***************************************************************************)
(* Properties.                                                             *)
(***************************************************************************)
\* A call takes the answer of another for its own only on a context that has
\* been sent a signal it did not wait for: by SCardCancel, which leaves it in
\* the list of those who wait, or when a wait times out while its signal is
\* on the way (winscard_clnt.c:2126-2157, winscard_svc.c:527-546).
AnswersMatch == mismatched \subseteq strayed

\* The mutex of a context is with a thread that is in a call on it, unless a
\* call has found its handle closed by another thread: that call leaves with
\* the mutex (winscard_clnt.c:954-961 and the same lines of every call).
MutexReturned ==
  \A c \in contextMapList \ forgotten :
    mMutex[c] # NoThread => ctx[mMutex[c]] = c /\ pc[mMutex[c]] \in {"recv", "wait", "compare"}

\* Between calls the library and pcscd have the same handles for a context.
HandlesAgree ==
  \A c \in contextMapList \ mismatched :
    server[c] = "open" /\ (\A t \in Threads : ctx[t] # c \/ pc[t] = "lock") =>
      channelMapList[c] = cardsList[c]

\* What a call finds on a reader, whoever uses it.
Uses(r) == {[r EXCEPT !.sharing = n] : n \in {-1, 0, 1}}

\* The half word that an application gives back cannot be the counter of a
\* reader that has had more events than it holds, unless it is zero: no counter.
PastHalfWord(r) ==
  r.card # "UNKNOWN" /\ r.counter >= CounterWrap /\ r.counter % CounterWrap # 0

ToldAgain(t, r) == KnownReader({}, FedBack(KnownReader({}, dwCurrentState[t], r)), r).break

\* An application that gives back what it has been told of a reader, where
\* nothing has moved, waits, except for a reader whose 32-bit counter of events
\* has left the 16 bits of the application's word: of such a reader it is told
\* at once, at each call, whatever it gives back (winscard_clnt.c:1899-1918).
FedBackQuiet ==
  \A t \in Threads, r \in Uses(reader) : ToldAgain(t, r) <=> PastHalfWord(r)

\* An application that knows the state of the reader is told when the card
\* is in another state, from the moment the state changes: the event counter
\* comes later, or not at all (eventhandler.c:317-400).
CardChangeSeen ==
  [][reader'.card # reader.card =>
       \A r \in Uses(reader), s \in Uses(reader') :
         KnownReader({}, FedBack(KnownReader({}, Unaware, r)), s).break]_vars

\* A call that waits while the reader has had an event its application does
\* not know returns in the end, whatever gets lost between the look at the
\* reader and the registration of the client.
EventReported ==
  \A t \in Threads :
    (pc[t] = "wait" /\ dwCurrentState[t].counter \notin {0, reader.counter}) ~> pc[t] = "idle"
=============================================================================
