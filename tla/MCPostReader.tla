----------------------------- MODULE MCPostReader -----------------------------
(***************************************************************************)
(* Four posts for TLC and a cache of two: one with a single box, one whose *)
(* second box is the user's, one that names its readers, and one that is   *)
(* not for the user.                                                       *)
(***************************************************************************)
EXTENDS PostReader

CONSTANTS single, second, named, others, goodKey, otherKey

MCIds == {single, second, named, others}

MCBoxes ==
  [post \in MCIds |->
     CASE post = single -> <<TRUE>>
       [] post = second -> <<FALSE, TRUE>>
       [] post = named -> <<FALSE, TRUE>>
       [] post = others -> <<FALSE>>]

MCAnonymous == MCIds \ {named}

\* Two keys make a wrong one of every other.
MCKeyOf == [post \in MCIds |-> IF post = second THEN otherKey ELSE goodKey]
=============================================================================
