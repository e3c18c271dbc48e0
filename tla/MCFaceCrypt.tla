----------------------------- MODULE MCFaceCrypt -----------------------------
(***************************************************************************)
(* A user with two friends and two lists of them.                          *)
(***************************************************************************)
EXTENDS FaceCrypt

CONSTANTS f1, f2, close, all

MCFriends == {f1, f2}
MCLists == {close, all}

\* The account changes or the database does, with little of the other.
MCHalves == edits = 0 \/ last + faults + edits <= 4
=============================================================================
