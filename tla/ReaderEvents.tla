---------------------------- MODULE ReaderEvents ----------------------------
(***************************************************************************)
(* How SCardGetStatusChange compares what an application believes of a     *)
(* reader with what pcscd says of it (winscard_clnt.c).                    *)
(*                                                                         *)
(* A belief is dwCurrentState: a set of SCARD_STATE_* flags and the event  *)
(* counter of its upper half.  A reader is one entry of readerStates: the  *)
(* state of its card, its event counter, 32 bits wide, and its sharing.    *)
(* A comparison goes through sections, each of which may add or clear      *)
(* flags of dwEventState and ask to break out of the event loop.           *)
(***************************************************************************)
EXTENDS Integers

CONSTANT CounterWrap      \* values of half a word, 2^16 in the code
ASSUME CounterWrapAssumption == CounterWrap \in Nat \ {0}

Cards == {"UNKNOWN", "ABSENT", "POWERED", "SWALLOWED"}
Present(reader) == reader.card \in {"POWERED", "SWALLOWED"}

Flags == {"CHANGED", "UNKNOWN", "UNAVAILABLE", "EMPTY", "PRESENT", "EXCLUSIVE", "INUSE", "MUTE"}

Unaware == [flags |-> {}, counter |-> 0]

\* The event state of a section, and whether it asks for the end of the loop.
Section(event, flags, changed) ==
  [event EXCEPT !.flags = IF changed THEN flags \cup {"CHANGED"} ELSE flags,
                !.break = @ \/ changed]

\* The reader was away, and is known again.
ComesBack(event, current) ==
  IF "UNKNOWN" \in current.flags
  THEN [Section(event, event.flags, TRUE) EXCEPT !.flags = @ \ {"UNKNOWN"}]
  ELSE event

\* Mutant: the state without a counter is an old state.
CountsFromZero(event, current, reader) ==
  [Section(event, event.flags, reader.counter # current.counter)
     EXCEPT !.counter = reader.counter % CounterWrap]

\* A counter of zero is no counter; ours goes to the upper half of the word.
CountsEvents(event, current, reader) ==
  [Section(event, event.flags, current.counter # 0 /\ reader.counter # current.counter)
     EXCEPT !.counter = reader.counter % CounterWrap]

\* A bad state replaces all that the event state said.
Availability(event, current, reader) ==
  IF reader.card = "UNKNOWN"
  THEN [Section(event, {"UNAVAILABLE"}, "UNAVAILABLE" \notin current.flags) EXCEPT !.counter = 0]
  ELSE IF "UNAVAILABLE" \in current.flags
       THEN Section(event, event.flags \ {"UNAVAILABLE"}, TRUE)
       ELSE event

\* Mutant: a card that has been put in is only told of by the counter.
PresenceCounted(event, current, reader) ==
  IF reader.card = "ABSENT"
  THEN Section(event, (event.flags \ {"PRESENT", "UNKNOWN", "UNAVAILABLE", "MUTE", "INUSE"}) \cup {"EMPTY"},
               "PRESENT" \in current.flags)
  ELSE IF Present(reader)
  THEN Section(event, (event.flags \ {"EMPTY", "UNKNOWN", "UNAVAILABLE", "MUTE"})
                      \cup (IF reader.card = "SWALLOWED" THEN {"PRESENT", "MUTE"} ELSE {"PRESENT"}),
               FALSE)
  ELSE event

\* A card that is there, and whether it answers.
Presence(event, current, reader) ==
  IF reader.card = "ABSENT"
  THEN Section(event, (event.flags \ {"PRESENT", "UNKNOWN", "UNAVAILABLE", "MUTE", "INUSE"}) \cup {"EMPTY"},
               "PRESENT" \in current.flags)
  ELSE IF Present(reader)
  THEN Section(event, (event.flags \ {"EMPTY", "UNKNOWN", "UNAVAILABLE", "MUTE"})
                      \cup (IF reader.card = "SWALLOWED" THEN {"PRESENT", "MUTE"} ELSE {"PRESENT"}),
               "EMPTY" \in current.flags \/ (("MUTE" \in current.flags) # (reader.card = "SWALLOWED")))
  ELSE event

\* Who uses the reader: only the end of a use, or its kind, is an event.
Sharing(event, current, reader) ==
  IF reader.sharing = -1
  THEN Section(event, (event.flags \ {"INUSE"}) \cup {"EXCLUSIVE"}, "INUSE" \in current.flags)
  ELSE IF reader.sharing >= 1
  THEN IF Present(reader)
       THEN Section(event, (event.flags \ {"EXCLUSIVE"}) \cup {"INUSE"}, "EXCLUSIVE" \in current.flags)
       ELSE event
  ELSE Section(event, event.flags \ {"INUSE", "EXCLUSIVE"}, {"INUSE", "EXCLUSIVE"} \cap current.flags # {})

\* Whatever it is, the state is told to an application that knows nothing.
FirstTime(event, current) == Section(event, event.flags, current = Unaware)

\* One reader in one round of the loop; flags is what the rounds before have
\* left in dwEventState.
KnownReader(flags, current, reader) ==
  LET e1 == ComesBack([flags |-> flags, counter |-> 0, break |-> FALSE], current)
      e2 == CountsEvents(e1, current, reader)
      e3 == Availability(e2, current, reader)
      e4 == Presence(e3, current, reader)
      e5 == Sharing(e4, current, reader)
  IN  FirstTime(e5, current)

\* The reader is not in the list any more.
UnknownReader(current) ==
  Section([flags |-> {}, counter |-> 0, break |-> FALSE], {"UNKNOWN", "UNAVAILABLE"},
          "UNKNOWN" \notin current.flags)

\* What the application gives back at its next call.
FedBack(event) == [flags |-> event.flags \ {"CHANGED"}, counter |-> event.counter]
=============================================================================
