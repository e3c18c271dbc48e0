---------------------------- MODULE ReaderNames ----------------------------
(***************************************************************************)
(* What the table of readers of pcscd promises the applications: names in  *)
(* places.  A reader that is added has a name nobody has and a place of    *)
(* its own, keeps both until it is removed, and readers come and go one at *)
(* a time.                                                                 *)
(***************************************************************************)
CONSTANTS Names, Places
VARIABLE readers   \* place -> name

Taken == {readers[p] : p \in DOMAIN readers}

Init == readers = [p \in {} |-> {}]

Add(p, n) ==
  /\ p \notin DOMAIN readers /\ n \notin Taken
  /\ readers' = [q \in DOMAIN readers \cup {p} |-> IF q = p THEN n ELSE readers[q]]

Remove(p) ==
  /\ p \in DOMAIN readers
  /\ readers' = [q \in DOMAIN readers \ {p} |-> readers[q]]

Next == \E p \in Places : Remove(p) \/ \E n \in Names : Add(p, n)

Spec == Init /\ [][Next]_readers
=============================================================================
