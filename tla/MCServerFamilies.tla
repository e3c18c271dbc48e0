-------------------------- MODULE MCServerFamilies --------------------------
(***************************************************************************)
(* One connection for TLC, and that every request is answered: the client  *)
(* makes the requests of one of four families, so that the graph on which  *)
(* TLC follows them stays small.                                           *)
(***************************************************************************)
EXTENDS MCSoftCardServer

VARIABLE family   \* which requests the client makes

Family ==
  [store |-> Store \cup Simple({"VALIDATE_PWD", "RETRIEVE_CRED", "QUIT"}),
   reset |-> ResetPwd \cup Simple({"VALIDATE_PWD", "CLOSE"}),
   keys |-> Simple({"GET_KEY", "GET_RANDOM_NUMBER", "DECRYPT", "SIGN", "IS_UNLOCKED", "QUIT"}),
   dialogue |-> Unlock \cup Simple({"DECRYPT", "PIN", "PUK", "CLOSE"})]

FamilyRequests ==
  \A t \in Threads : th[t].pc = "idle" /\ th'[t].pc # "idle" => th'[t].op \in Family[family]

MCServerNext == ServerNext /\ FamilyRequests /\ UNCHANGED family

\* TLC takes no symmetry here: a new session key is always the same one of
\* those that are free.  A thread that can run runs, and the user answers when
\* asked.
TakesFirstKey ==
  session_key' \notin {session_key, NoKey} => session_key' = CHOOSE key \in FreshKeys : TRUE

LiveServerSpec ==
  /\ ServerInit /\ family \in DOMAIN Family
  /\ [][MCServerNext /\ TakesFirstKey]_<<allVars, family>>
  /\ \A t \in Threads : WF_<<allVars, family>>(Work(t) /\ TakesFirstKey /\ UNCHANGED family)
=============================================================================
