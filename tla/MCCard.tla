------------------------------- MODULE MCCard -------------------------------
(***************************************************************************)
(* Small cards for TLC: the requests of the PIN applet with every argument *)
(* that makes a difference (the right code, a wrong one, none), and the    *)
(* requests of the password store with the PIN check they depend on.  A    *)
(* host sends the ones or the others, so that the states of both halves of *)
(* the card do not multiply.                                               *)
(***************************************************************************)
EXTENDS Card, TLC

VARIABLE family   \* which requests the host sends

KeySymmetry == Permutations(Keys)

Req(aid, ins, arg) == [aid |-> aid, ins |-> ins, arg |-> arg]

PinRequests ==
  {Req(AID_PIN, ins, Empty) :
     ins \in {INS_PIN_REMAINING_TRIES, INS_GET_PIN, INS_GET_PUK, INS_IS_LOCKED}}
  \cup {Req(AID_PIN, ins, code) :
          ins \in {INS_VERIF_PIN, INS_UNLOCK_WITH_PUK}, code \in Codes}

StoreRequests ==
  {Req(AID_PIN, INS_VERIF_PIN, code) : code \in Codes}
  \cup {Req(AID_STORE, ins, text) : ins \in {INS_STORE_LOGIN, INS_STORE_PWD}, text \in Texts}
  \cup {Req(AID_STORE, ins, Empty) : ins \in {INS_VALIDATE_PWD, INS_GET, INS_GET_PWD}}
  \cup {Req(AID_CYPHER, INS_DECRYPT, Noise)}

MCRequests == PinRequests \cup StoreRequests

Segments(requests) == {RequestSegment(req) : req \in requests}
Family == [codes |-> Segments(PinRequests), credentials |-> Segments(StoreRequests)]

MCInit == Init /\ family \in DOMAIN Family

FamilyRequests ==
  \A i \in DOMAIN unread' : unread'[i].kind = "request" => unread'[i] \in Family[family]

MCNext == Next /\ FamilyRequests /\ UNCHANGED family
MCSpec == MCInit /\ [][MCNext]_<<vars, family>>

\* Noise read as a command may be any command: the run stops at the states in
\* which the other half of the card has changed.
OtherHalfUntouched ==
  IF family = "codes"
  THEN login = Empty /\ pwd = Empty /\ tmpPwd = Empty
  ELSE puk.value = InitPuk /\ puk.tries = MaxTries /\ ~pin_retrieved

\* No action and no property but the type invariant reads the status word of
\* the last APDU.
View == <<pinVars, storeVars, tunnelVars, bufferVars, family>>
=============================================================================
