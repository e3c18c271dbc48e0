-------------------------- MODULE MCClientLibrary --------------------------
(***************************************************************************)
(* A small application for TLC.                                            *)
(***************************************************************************)
EXTENDS ClientLibrary, TLC

MCSymmetry == Permutations(Threads) \cup Permutations(Contexts) \cup Permutations(Handles)

\* Calls on a context whose socket is out of step are not followed further.
\* One thread at most is told of the reader.
MCInStep ==
  /\ mismatched = {} /\ \A c \in Contexts : Len(replies[c]) + waiting[c] <= 2
  /\ Cardinality({t \in Threads : dwCurrentState[t] # Unaware}) <= 1

\* The library's copy of the reader is written before each look at it.
MCView ==
  <<contextMapList, mMutex, channelMapList, cancellable, threadVars, wireVars, daemonVars, historyVars,
    IF \E t \in Threads : pc[t] = "compare" THEN readerStates ELSE Unread>>
=============================================================================
