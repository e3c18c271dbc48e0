-------------------------- MODULE MCReaderFactory --------------------------
(***************************************************************************)
(* A small table for TLC: two readers whose driver is the same library,    *)
(* one of them with two slots, the other with a class driver as a second   *)
(* chance.                                                                 *)
(***************************************************************************)
EXTENDS ReaderFactory, TLC

Driver(library, device, class) == [library |-> library, device |-> device, classDriver |-> class]
MCDrivers == <<Driver("class", "r1", TRUE), Driver("vendor", "r1", FALSE), Driver("vendor", "r2", FALSE)>>
MCReaderName == [r1 |-> "Q", r2 |-> "R"]
MCSlots == [r1 |-> 1, r2 |-> 2]
MCSimultaneous == [l \in Libraries |-> 3]
MCEntries == 1..3

\* The entry a thread has come to is only looked at in the middle of its work,
\* the library of an entry only while it is used; nothing follows the end.
AtWork == {"Share", "Initialize", "Spawn", "Ref", "InUse", "Tested", "Kill", "Join", "Close", "Forget"}
MCView ==
  IF ~Alive THEN <<"ended">> ELSE
  <<[e \in Entries |-> IF table[e].port = 0 THEN [table[e] EXCEPT !.library = NULL] ELSE table[e]],
    [t \in Threads |-> IF pc[t] \in AtWork THEN at[t] ELSE 0],
    feeds, mutexes, opened, numReaders, hotplugVars, pc, removal, wanted, cleaning, lives, hazard>>

\* Only the reader with two slots is unplugged; the other one is there first
\* or never.
OneUnplugged == ("r1" \in bus => "r1" \in bus') /\ ("r1" \in bus' \ bus => plugs = 0)

\* What has gone wrong is not followed any further, nor is a second signal.
NothingWrong == hazard = {} /\ lives >= 2
=============================================================================
