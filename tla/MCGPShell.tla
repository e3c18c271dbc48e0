----------------------------- MODULE MCGPShell -----------------------------
(***************************************************************************)
(* A small instance for TLC: loads of at most three blocks, of the longest *)
(* file that fits, one byte more, and a file too short for its header.     *)
(***************************************************************************)
EXTENDS GPShell, TLC

Kind(scp, impl, protocol) == [scp |-> scp, impl |-> impl, protocol |-> protocol]
MCCards == {Kind(1, "i05", "T0"), Kind(2, "i15", "T1"), Kind(2, "i04", "T1"), Kind(1, "i45", "T1"), Kind(3, "i05", "T1")}
MCFiles == {100, 713, 714}

\* Of the files that cannot be loaded only the install is tried, one kind of
\* send_apdu_nostop, and of send_apdu only case 2; the mode is chosen before the
\* card is connected, and a context released after one command; a second script
\* follows one that failed, and connects the card once.
Usual ==
  /\ (command' # NULL /\ command'.arg[1] \in {"file", "app"} /\ command'.arg[2] # 713)
       => command'.op = "install"
  /\ (command' # NULL /\ command'.op = "send_apdu_nostop") => command'.sc /\ command'.le = 1
  /\ (command' # NULL /\ command'.op = "send_apdu") => command'.case = 2
  /\ (mode' # mode /\ script # "ended") => handle = "none" /\ mode = 201
  /\ scripts' # scripts => script = "ended"
  /\ (scripts = 2 /\ handle = "none") => context' = "open" /\ ~Busy'
  /\ (scripts = 2 /\ ~Busy) => context' = "open" /\ (handle = "none" \/ Busy')
  /\ handle' = "stale" /\ handle # "stale" => read = 1
=============================================================================
