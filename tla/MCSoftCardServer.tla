-------------------------- MODULE MCSoftCardServer --------------------------
(***************************************************************************)
(* Small servers for TLC: one or two connections, two texts, two codes,    *)
(* and the operations each run is about.                                   *)
(***************************************************************************)
EXTENDS SoftCardServer, TLC

KeySymmetry == Permutations(Keys)
ConnectionSymmetry == Permutations(Keys) \cup Permutations(Threads)

Op(name) == [name |-> name, login |-> Empty, pwd |-> Empty, code |-> Empty]

Simple(names) == {Op(name) : name \in names}
Store == {[Op("STORE_CREDENTIALS") EXCEPT !.login = x, !.pwd = y] : x \in Texts, y \in Texts}
Unlock == {[Op("UNLOCK") EXCEPT !.code = c] : c \in Codes}
ResetPwd == {[Op("RESET_PWD") EXCEPT !.pwd = Noise]}

PasswordOperations ==
  Store \cup ResetPwd \cup Unlock
  \cup Simple({"VALIDATE_PWD", "RETRIEVE_CRED", "QUIT"})

OtherOperations ==
  Unlock \cup Simple({"GET_KEY", "GET_RANDOM_NUMBER", "DECRYPT", "SIGN", "IS_UNLOCKED",
                      "CLOSE", "PIN", "PUK"})

AllOperations == PasswordOperations \cup OtherOperations

\* Bound of a run with every request: a client that has stored credentials goes
\* on with them, one that has retrieved or changed codes goes on with those, so
\* that the states of both halves of the card do not multiply.
StoreTouched == <<login, pwd, tmpPwd>> # <<Empty, Empty, Empty>>
CodesTouched == pin.value # InitPin \/ puk # NewPin(InitPuk) \/ pin_retrieved \/ puk_retrieved
OneHalf ==
  \A t \in Threads : th[t].pc = "idle" /\ th'[t].pc # "idle" =>
    /\ StoreTouched => th'[t].op \in PasswordOperations
    /\ CodesTouched => th'[t].op \in OtherOperations

RaceOperations == {[Op("UNLOCK") EXCEPT !.code = c] : c \in Codes \ {InitPin}} \cup Simple({"RETRIEVE_CRED", "PIN"})

\* Bounds of a run with two connections: a response may grow for ever while
\* the other connection makes the card answer, and noise read as a command
\* may change the codes or the store.
TwoConnectionsBound ==
  /\ \A t \in Threads : Len(th[t].resp) <= 1
  /\ pin.value = InitPin /\ puk = NewPin(InitPuk) /\ ~pin_retrieved /\ ~puk_retrieved
  /\ login = Empty /\ pwd = Empty /\ tmpPwd = Empty
=============================================================================
