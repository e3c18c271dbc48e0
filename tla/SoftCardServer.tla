--------------------------- MODULE SoftCardServer ---------------------------
(***************************************************************************)
(* The host side of the card: the threads of SoftCardServer.java           *)
(* (ProcessusSock, one per connection), the singleton SoftCard.java they   *)
(* all use, and the client's end of the tunnel (Tunnel.java, CryptoTools). *)
(* Nothing in this code is synchronized: a thread may be interrupted       *)
(* between any two commands to the card, and between any two writes of     *)
(* the static fields instance, tunnel, Tunnel.c and Tunnel.session_key.    *)
(*                                                                         *)
(* A thread serves one request at a time.  Every request is a series of    *)
(* methods of SoftCard, every method one or two exchanges with the card,   *)
(* every exchange four commands: erase, request, execute and getResponse.  *)
(* A CardException (CardFault) makes the method disconnect, build a new    *)
(* instance and start again; a refused PIN makes it ask for the PIN, and   *)
(* start again; any other exception (Throws) is answered by an error.      *)
(* The card does what Card.tla says.  AdminTool, a program of its own that *)
(* the installation runs while there is no server, uses SoftCard in the    *)
(* same way: it is a thread with the operations PIN and PUK, alone, whose  *)
(* connection ends with it (Exit).                                         *)
(***************************************************************************)
EXTENDS Card

CONSTANTS Threads,    \* the connections that may be open together
          Operations, \* the requests the clients send
          UserCodes,  \* what the user types when asked for the PIN or PUK
          MaxFaults,  \* bound: the number of card faults in a behaviour
          None,       \* no reply yet
          Error       \* the one-byte reply of a NetworkException

VARIABLES
  instance, tunnel,   \* SoftCard's static fields: are they set?
  open,               \* Tunnel.c is the channel of a connected card
  host_key,           \* Tunnel.session_key
  th,                 \* what each thread is doing
  faults              \* the number of card faults so far

staticVars == <<instance, tunnel, open, host_key>>
serverVars == <<staticVars, th, faults>>
allVars == <<vars, serverVars>>

\* A client's message, with what it carries.
Operation == [name: {"GET_KEY", "GET_RANDOM_NUMBER", "DECRYPT", "SIGN", "IS_UNLOCKED",
                     "UNLOCK", "STORE_CREDENTIALS", "RETRIEVE_CRED", "RESET_PWD",
                     "VALIDATE_PWD", "QUIT", "CLOSE", "PIN", "PUK"},
              login: Texts \cup {Empty}, pwd: Texts \cup {Empty, Noise},
              code: Codes \cup {Empty}]

HostRequest(a, i, x) == [aid |-> a, ins |-> i, arg |-> x]

\* Everything SoftCard sends.
HostRequests ==
  {HostRequest(AID_CYPHER, i, Empty) : i \in {INS_GET_EXPONENT, INS_GET_MODULUS}}
  \cup {HostRequest(AID_RNG, INS_GEN, Empty), HostRequest(AID_CYPHER, INS_DECRYPT, Noise),
        HostRequest(AID_SIGN, INS_TEST_AUTH, Noise)}
  \cup {HostRequest(AID_PIN, i, Empty) :
          i \in {INS_PIN_REMAINING_TRIES, INS_PUK_REMAINING_TRIES, INS_GET_PIN,
                 INS_GET_PUK, INS_IS_LOCKED}}
  \cup {HostRequest(AID_PIN, i, c) :
          i \in {INS_VERIF_PIN, INS_UNLOCK_WITH_PUK}, c \in Codes \cup {Empty}}
  \cup {HostRequest(AID_STORE, INS_STORE_LOGIN, x) : x \in Texts \cup {Empty}}
  \cup {HostRequest(AID_STORE, INS_STORE_PWD, x) : x \in Texts \cup {Empty, Noise}}
  \cup {HostRequest(AID_STORE, i, Empty) : i \in {INS_VALIDATE_PWD, INS_GET}}

\* A reset password is the random number the card has just given.
ASSUME ServerAssumption ==
  /\ HostRequests \subseteq Requests
  /\ Operations \subseteq Operation
  /\ \A op \in Operations : op.name = "RESET_PWD" => op.pwd = Noise
  /\ UserCodes \subseteq Codes
  /\ MaxFaults \in Nat

\* What the methods of SoftCard send, by exchange.
RequestOf(r) ==
  CASE r.method = "getPublicKey" ->
         HostRequest(AID_CYPHER, IF r.exch = 1 THEN INS_GET_EXPONENT ELSE INS_GET_MODULUS, Empty)
    [] r.method = "getRandomNumber" -> HostRequest(AID_RNG, INS_GEN, Empty)
    [] r.method = "decryptData" -> HostRequest(AID_CYPHER, INS_DECRYPT, Noise)
    [] r.method = "signData" -> HostRequest(AID_SIGN, INS_TEST_AUTH, Noise)
    [] r.method = "unlock" ->
         IF r.exch = 1 THEN HostRequest(AID_PIN, INS_PIN_REMAINING_TRIES, Empty)
         ELSE HostRequest(AID_PIN, INS_VERIF_PIN, r.code)
    [] r.method = "unlockWithPuk" ->
         IF r.exch = 1 THEN HostRequest(AID_PIN, INS_PUK_REMAINING_TRIES, Empty)
         ELSE HostRequest(AID_PIN, INS_UNLOCK_WITH_PUK, r.code)
    [] r.method = "storeLogin" -> HostRequest(AID_STORE, INS_STORE_LOGIN, r.op.login)
    [] r.method = "storePassword" -> HostRequest(AID_STORE, INS_STORE_PWD, r.op.pwd)
    [] r.method = "validatePassword" -> HostRequest(AID_STORE, INS_VALIDATE_PWD, Empty)
    [] r.method = "retrieveCredentials" -> HostRequest(AID_STORE, INS_GET, Empty)
    [] r.method = "isUnlocked" -> HostRequest(AID_PIN, INS_IS_LOCKED, Empty)
    [] r.method = "getPIN" -> HostRequest(AID_PIN, INS_GET_PIN, Empty)
    [] r.method = "getPUK" -> HostRequest(AID_PIN, INS_GET_PUK, Empty)

FirstMethod ==
  [GET_KEY |-> "getPublicKey", GET_RANDOM_NUMBER |-> "getRandomNumber",
   DECRYPT |-> "decryptData", SIGN |-> "signData", IS_UNLOCKED |-> "isUnlocked",
   UNLOCK |-> "unlock", STORE_CREDENTIALS |-> "storeLogin",
   RETRIEVE_CRED |-> "retrieveCredentials", RESET_PWD |-> "getRandomNumber",
   VALIDATE_PWD |-> "validatePassword", QUIT |-> "disconnectCard",
   CLOSE |-> "disconnectCard", PIN |-> "getPIN", PUK |-> "getPUK"]

\* The status of EXECUTE is not looked at in these two exchanges.
IgnoresStatus(r) ==
  \/ r.method = "unlock" /\ r.exch = 2
  \/ r.method = "unlockWithPuk" /\ r.exch = 1

-----------------------------------------------------------------------------
(* A thread's record, and how it moves on.  "exch" counts exchanges, and   *)
(* in disconnectCard the calls that QUIT and run() make one after the      *)
(* other; "after" is the method to start again once the PIN is right;      *)
(* "tried" says that askPuk holds the empty answer of an earlier try;      *)
(* "waiting" remembers, for the properties, what tmpPwd was when the       *)
(* request came.                                                           *)

Idle == [pc |-> "idle", op |-> None, method |-> None, exch |-> 1, after |-> None,
         code |-> Empty, tried |-> FALSE, newKey |-> NoKey, resp |-> <<>>, reply |-> None,
         waiting |-> Empty]

AdminTools == {"PIN", "PUK"}

At(r, pc) == [r EXCEPT !.pc = pc, !.resp = <<>>]
Calls(r, method) == [At(r, "erase") EXCEPT !.method = method, !.exch = 1]
SecondExchange(r) == [At(r, "erase") EXCEPT !.exch = 2]
Replies(r, v) ==
  [Idle EXCEPT !.pc = IF r.op.name \in AdminTools THEN "exit" ELSE "idle",
               !.op = r.op, !.reply = v, !.waiting = r.waiting]
YesNo(b) == <<[kind |-> "byte", val |-> <<IF b THEN 1 ELSE 0>>]>>

\* An exception that is not a CardException.  disconnectCard's is swallowed
\* by QUIT, and makes run() leave without closing the socket; askPuk catches
\* everything, and then needs the answer of an earlier try.
Throws(r) ==
  IF r.method = "disconnectCard"
    THEN IF r.exch = 1 THEN [At(r, "getInstance") EXCEPT !.exch = 2]
         ELSE [Idle EXCEPT !.pc = "unclosed"]
  ELSE IF r.method = "unlockWithPuk" /\ r.tried THEN At(r, "askPuk")
  ELSE Replies(r, Error)

\* A denied method asks for the PIN, and starts again once it is right.
AsksPin(r) == [At(r, "askPin") EXCEPT !.after = r.method]

\* Mutant: the denied method is taken as done once the PIN is right.
ResumesAsDone(r) ==
  [At(r, "decide") EXCEPT !.method = r.after, !.after = None, !.resp = YesNo(TRUE)]

Resumes(r) == [Calls(r, r.after) EXCEPT !.after = None, !.tried = FALSE, !.code = Empty]


\* What unlock returns goes to the client, or to askPin.
UnlockReturns(r, v) ==
  IF r.after = None THEN Replies(r, YesNo(v = 1))
  ELSE IF v = 0 THEN At(r, "askPin")
  ELSE IF v = -1 THEN At(r, "askPuk")
  ELSE Resumes(r)

\* Values the first byte of a response may have; 2 is any value not tested.
\* The first byte of a text or of a login may be 0xFF, the card's refusal.
FirstBytes(resp) ==
  CASE resp[1].kind \in {"byte", "request"} -> {resp[1].val[1]}
    [] resp[1].kind \in {"credentials", "password", "plain"} -> {-1, 2}
    [] OTHER -> {-1, 0, 1, 2}

\* The methods that read response[0], an error when there is no response.
ReadsFirstByte(r) ==
  \/ r.method \in {"unlock", "storeLogin", "storePassword", "validatePassword",
                   "retrieveCredentials"}
  \/ r.method = "unlockWithPuk" /\ r.exch = 1

\* Where each method goes with the response r.resp, of first byte b.
Denied(r, b) == Len(r.resp) = 1 /\ b = -1

PublicKeyDecides(r) == IF r.exch = 1 THEN SecondExchange(r) ELSE Replies(r, r.resp)

\* getRandomNumber is also the first step of resetPassword.
RandomNumberDecides(r) ==
  IF r.op.name = "RESET_PWD" THEN Calls(r, "storePassword") ELSE Replies(r, r.resp)

DataDecides(r, b) == IF Denied(r, b) THEN AsksPin(r) ELSE Replies(r, r.resp)

UnlockDecides(r, b) ==
  IF r.exch = 2 THEN UnlockReturns(r, b)
  ELSE IF b = 0 THEN UnlockReturns(r, -1) ELSE SecondExchange(r)

\* With no try left unlockWithPuk returns null, and askPuk reads pin.length
\* before it compares pin with null.
UnlockWithPukDecides(r, b) ==
  IF r.exch = 1 THEN IF b = 0 THEN Replies(r, Error) ELSE SecondExchange(r)
  ELSE IF r.resp = <<>> THEN [At(r, "askPuk") EXCEPT !.tried = TRUE] ELSE Resumes(r)

StoreLoginDecides(r, b) ==
  IF Denied(r, b) THEN AsksPin(r)
  ELSE IF b = 1 THEN Calls(r, "storePassword") ELSE Replies(r, YesNo(FALSE))

\* storePassword ends storeCredentials, and is the second step of resetPassword.
StorePasswordDecides(r, b) ==
  IF Denied(r, b) THEN AsksPin(r)
  ELSE IF r.op.name = "STORE_CREDENTIALS" THEN Replies(r, YesNo(b = 1))
  ELSE IF b = 1 THEN Calls(r, "retrieveCredentials") ELSE Replies(r, Error)

CredentialsDecides(r, b) == IF b = -1 THEN AsksPin(r) ELSE Replies(r, r.resp)

Decides(r, b) ==
  CASE r.method = "getPublicKey" -> PublicKeyDecides(r)
    [] r.method = "getRandomNumber" -> RandomNumberDecides(r)
    [] r.method \in {"decryptData", "signData"} -> DataDecides(r, b)
    [] r.method = "unlock" -> UnlockDecides(r, b)
    [] r.method = "unlockWithPuk" -> UnlockWithPukDecides(r, b)
    [] r.method = "storeLogin" -> StoreLoginDecides(r, b)
    [] r.method = "storePassword" -> StorePasswordDecides(r, b)
    [] r.method = "validatePassword" -> Replies(r, YesNo(b = 1))
    [] r.method = "retrieveCredentials" -> CredentialsDecides(r, b)
    [] r.method = "isUnlocked" -> Replies(r, YesNo(r.resp # <<>>))
    [] r.method \in {"getPIN", "getPUK"} -> Replies(r, r.resp)

Becomes(t, r) == th' = [th EXCEPT ![t] = r]

-----------------------------------------------------------------------------
(* The connection and the request.                                         *)

Connect(t) ==
  /\ th[t].pc \in {"closed", "unclosed"}
  /\ Becomes(t, Idle)
  /\ UNCHANGED <<vars, staticVars, faults>>

\* The end of the connection (CLOSE) skips QUIT's own disconnectCard.
ReceiveRequest(t) ==
  /\ th[t].pc = "idle"
  /\ \E op \in Operations :
       /\ op.name \in AdminTools =>
            ~instance /\ \A u \in Threads : th[u].pc \in {"idle", "closed", "unclosed"}
       /\ Becomes(t, [Idle EXCEPT !.pc = "getInstance", !.op = op, !.code = op.code,
                                  !.method = FirstMethod[op.name],
                                  !.exch = IF op.name = "CLOSE" THEN 2 ELSE 1,
                                  !.waiting = tmpPwd])
  /\ UNCHANGED <<vars, staticVars, faults>>

\* An empty message, or one whose first byte names no request, is dropped:
\* nothing is done and nothing is sent back.
DropMessage(t) ==
  /\ th[t].pc = "idle"
  /\ Becomes(t, Idle)
  /\ UNCHANGED <<vars, staticVars, faults>>

Receive(t) == ReceiveRequest(t) \/ DropMessage(t)

-----------------------------------------------------------------------------
(* SoftCard.getInstance, the constructors of SoftCard and Tunnel, and      *)
(* disconnect.                                                             *)

Obtained(r) == At(r, IF r.method = "disconnectCard" THEN "disconnect" ELSE "erase")

GetInstance(t) ==
  /\ th[t].pc = "getInstance"
  /\ IF instance THEN Becomes(t, Obtained(th[t])) /\ UNCHANGED open
     ELSE Becomes(t, At(th[t], "setTunnel")) /\ open' = TRUE
  /\ UNCHANGED <<vars, instance, tunnel, host_key, faults>>

\* A new random session key.
FreshKeys == Keys \ ({host_key, session_key} \cup {th[t].newKey : t \in Threads})

SetTunnelSent(t) ==
  /\ th[t].pc = "setTunnel" /\ open
  /\ \E key \in FreshKeys :
       /\ SetTunnel(key)
       /\ Becomes(t, [th[t] EXCEPT !.pc = "checkTunnel", !.newKey = key])
  /\ UNCHANGED <<staticVars, faults>>

\* EstablishSessionKey returns null when the card does not agree.
CheckTunnelSent(t) ==
  /\ th[t].pc = "checkTunnel" /\ open
  /\ CheckTunnel(th[t].newKey)
  /\ host_key' = IF sw' = "9000" THEN th[t].newKey ELSE NoKey
  /\ Becomes(t, [th[t] EXCEPT !.pc = "publishTunnel", !.newKey = NoKey])
  /\ UNCHANGED <<instance, tunnel, open, faults>>

PublishTunnel(t) ==
  /\ th[t].pc = "publishTunnel"
  /\ tunnel' = TRUE
  /\ Becomes(t, At(th[t], "publishInstance"))
  /\ UNCHANGED <<vars, instance, open, host_key, faults>>

PublishInstance(t) ==
  /\ th[t].pc = "publishInstance"
  /\ instance' = TRUE
  /\ Becomes(t, Obtained(th[t]))
  /\ UNCHANGED <<vars, tunnel, open, host_key, faults>>

\* Mutant: the instance is not unset.
DisconnectKeepsInstance(t) ==
  /\ th[t].pc = "disconnect"
  /\ open' = FALSE
  /\ Reset \/ UNCHANGED vars
  /\ Becomes(t, At(th[t], "unsetTunnel"))
  /\ UNCHANGED <<instance, tunnel, host_key, faults>>

\* Whether card.disconnect(false) resets the card depends on the Java version.
Disconnect(t) ==
  /\ th[t].pc = "disconnect"
  /\ open' = FALSE /\ instance' = FALSE
  /\ Reset \/ UNCHANGED vars
  /\ Becomes(t, At(th[t], "unsetTunnel"))
  /\ UNCHANGED <<tunnel, host_key, faults>>

UnsetTunnel(t) ==
  /\ th[t].pc = "unsetTunnel"
  /\ tunnel' = FALSE
  /\ Becomes(t, IF th[t].method # "disconnectCard"
                  THEN [At(th[t], "getInstance") EXCEPT !.exch = 1]
                ELSE IF th[t].exch = 1
                  THEN [At(th[t], "getInstance") EXCEPT !.exch = 2]
                ELSE [Idle EXCEPT !.pc = "closed"])
  /\ UNCHANGED <<vars, instance, open, host_key, faults>>

\* The end of AdminTool's process takes its connection with it.
Exit(t) ==
  /\ th[t].pc = "exit"
  /\ open' = FALSE /\ instance' = FALSE /\ tunnel' = FALSE
  /\ Reset \/ UNCHANGED vars
  /\ Becomes(t, [th[t] EXCEPT !.pc = "idle"])
  /\ UNCHANGED <<host_key, faults>>

-----------------------------------------------------------------------------
(* An exchange with the card.  The static field tunnel is read once per    *)
(* call, and getResponse goes on with the tunnel it has started with.      *)

NeedsTunnel(r) == r.resp = <<>>

Usable(t) == open /\ (NeedsTunnel(th[t]) => tunnel)

\* Mutant: a method does not erase the datastore first.
EraseSkipped(t) ==
  /\ th[t].pc = "erase" /\ Usable(t)
  /\ Becomes(t, At(th[t], "request"))
  /\ UNCHANGED <<vars, staticVars, faults>>

EraseSent(t) ==
  /\ th[t].pc = "erase" /\ Usable(t)
  /\ EraseData
  /\ Becomes(t, At(th[t], "request"))
  /\ UNCHANGED <<staticVars, faults>>

RequestSent(t) ==
  /\ th[t].pc = "request" /\ Usable(t) /\ host_key # NoKey
  /\ PutData(host_key, RequestOf(th[t]))
  /\ Becomes(t, At(th[t], "execute"))
  /\ UNCHANGED <<staticVars, faults>>

ExecuteSent(t) ==
  /\ th[t].pc = "execute" /\ Usable(t)
  /\ Execute
  /\ Becomes(t, IF sw' = "9000" \/ IgnoresStatus(th[t]) THEN At(th[t], "getResponse")
                ELSE Throws(th[t]))
  /\ UNCHANGED <<staticVars, faults>>

\* What the host deciphers: with another key than the card's, noise, nothing
\* at all, or an exception.
Received ==
  IF host_key = session_key THEN {unread} ELSE {<<NoiseSegment>>, <<>>}

\* signData takes a single fragment, getResponse goes on until there is none.
GetDataSent(t) ==
  /\ th[t].pc = "getResponse" /\ Usable(t)
  /\ GetData
  /\ \/ /\ sw' = "6666"
        /\ Becomes(t, [th[t] EXCEPT !.pc = "decide"])
     \/ /\ sw' = "9000" /\ host_key # NoKey
        /\ \E received \in Received :
             Becomes(t, [th[t] EXCEPT
               !.resp = @ \o received,
               !.pc = IF received = <<>> \/ th[t].method = "signData"
                        THEN "decide" ELSE "getResponse"])
     \/ /\ \/ sw' = "6F00"
           \/ sw' = "9000" /\ host_key # session_key
        /\ Becomes(t, Throws(th[t]))
  /\ UNCHANGED <<staticVars, faults>>

Decide(t) ==
  /\ th[t].pc = "decide"
  /\ IF th[t].resp # <<>>
       THEN \E b \in FirstBytes(th[t].resp) : Becomes(t, Decides(th[t], b))
     ELSE Becomes(t, IF ReadsFirstByte(th[t]) THEN Throws(th[t]) ELSE Decides(th[t], 2))
  /\ UNCHANGED <<vars, staticVars, faults>>

\* A null tunnel, a null session key, or a channel that another thread has
\* closed: an exception, but not a CardException.
CommandThrows(t) ==
  /\ \/ th[t].pc \in {"setTunnel", "checkTunnel"} /\ ~open
     \/ th[t].pc \in {"erase", "request", "execute", "getResponse"} /\ ~Usable(t)
     \/ th[t].pc = "request" /\ host_key = NoKey
  /\ Becomes(t, Throws([th[t] EXCEPT !.newKey = NoKey]))
  /\ UNCHANGED <<vars, staticVars, faults>>

\* The user types a code, or something that is not a number: askPin throws,
\* askPuk catches.
AskPin(t) ==
  /\ th[t].pc = "askPin"
  /\ \/ \E code \in UserCodes : Becomes(t, [Calls(th[t], "unlock") EXCEPT !.code = code])
     \/ Becomes(t, Replies(th[t], Error))
  /\ UNCHANGED <<vars, staticVars, faults>>

AskPuk(t) ==
  /\ th[t].pc = "askPuk"
  /\ \/ \E code \in UserCodes : Becomes(t, [Calls(th[t], "unlockWithPuk") EXCEPT !.code = code])
     \/ ~th[t].tried /\ Becomes(t, Replies(th[t], Error))
  /\ UNCHANGED <<vars, staticVars, faults>>

-----------------------------------------------------------------------------
(* Card faults: a CardException.  The command has reached the card or not, *)
(* and the card has kept its power or not.                                 *)

Fault == faults < MaxFaults /\ faults' = faults + 1

CardFault(t) ==
  /\ Fault
  /\ Usable(t)
  /\ \/ th[t].pc = "erase" /\ (EraseData \/ Reset \/ UNCHANGED vars)
     \/ /\ th[t].pc = "request" /\ host_key # NoKey
        /\ PutData(host_key, RequestOf(th[t])) \/ Reset \/ UNCHANGED vars
     \/ th[t].pc = "execute" /\ (Execute \/ Tear \/ Reset \/ UNCHANGED vars)
     \/ th[t].pc = "getResponse" /\ (GetData \/ Reset \/ UNCHANGED vars)
  /\ Becomes(t, At(th[t], "disconnect"))
  /\ UNCHANGED staticVars

\* In a constructor nothing starts again: "Card removed.", or the
\* CardException itself, reaches the thread.
ConstructorFault(t) ==
  /\ Fault
  /\ \/ th[t].pc = "getInstance" /\ ~instance /\ (Reset \/ UNCHANGED vars)
     \/ /\ th[t].pc = "setTunnel" /\ open
        /\ (\E key \in FreshKeys : SetTunnel(key)) \/ Reset \/ UNCHANGED vars
     \/ /\ th[t].pc = "checkTunnel" /\ open
        /\ CheckTunnel(th[t].newKey) \/ Reset \/ UNCHANGED vars
  /\ Becomes(t, Throws([th[t] EXCEPT !.newKey = NoKey]))
  /\ UNCHANGED staticVars

-----------------------------------------------------------------------------
Work(t) ==
  \/ GetInstance(t) \/ SetTunnelSent(t) \/ CheckTunnelSent(t)
  \/ PublishTunnel(t) \/ PublishInstance(t) \/ Disconnect(t) \/ UnsetTunnel(t) \/ Exit(t)
  \/ EraseSent(t) \/ RequestSent(t) \/ ExecuteSent(t) \/ GetDataSent(t) \/ Decide(t)
  \/ CommandThrows(t) \/ AskPin(t) \/ AskPuk(t)

ServerInit ==
  /\ Init
  /\ instance = FALSE /\ tunnel = FALSE /\ open = FALSE /\ host_key = NoKey
  /\ th = [t \in Threads |-> Idle]
  /\ faults = 0

ServerNext ==
  \E t \in Threads :
    Connect(t) \/ Receive(t) \/ Work(t) \/ CardFault(t) \/ ConstructorFault(t)

ServerSpec == ServerInit /\ [][ServerNext]_allVars

-----------------------------------------------------------------------------
(* Properties.                                                             *)

\* The points at which a thread is inside a method that talks to the card.
InMethod == {"erase", "request", "execute", "getResponse", "decide"}
InConstructor == {"getInstance", "setTunnel", "checkTunnel", "publishTunnel", "publishInstance"}
InDialogue == {"askPin", "askPuk"}
AtRest == {"idle", "closed", "unclosed", "exit"}

CardMethods == {"getPublicKey", "getRandomNumber", "decryptData", "signData", "unlock",
                "unlockWithPuk", "storeLogin", "storePassword", "validatePassword",
                "retrieveCredentials", "isUnlocked", "getPIN", "getPUK"}

\* The methods that the card refuses while the PIN is not validated.
Denying == {"decryptData", "signData", "storeLogin", "storePassword", "retrieveCredentials"}

ASSUME NoneAssumption == None \notin Denying

Points == InMethod \cup InConstructor \cup InDialogue \cup AtRest \cup {"disconnect", "unsetTunnel"}

Thread == [pc: Points, op: Operation \cup {None},
           method: CardMethods \cup {"disconnectCard", None}, exch: {1, 2},
           after: Denying \cup {None}, code: Codes \cup {Empty}, tried: BOOLEAN,
           newKey: Keys \cup {NoKey}, resp: Seq(Segment),
           reply: Seq(Segment) \cup {None, Error}, waiting: Stored]

\* A thread at work has a request and a method; only a method of the card
\* reaches an exchange; a dialogue knows the method to start again; the key
\* of a handshake is there when its proof is due.
Coherent(r) ==
  /\ r.pc \notin AtRest => r.op \in Operation /\ r.method \in CardMethods \cup {"disconnectCard"}
  /\ r.pc \in InMethod \cup InDialogue => r.method # "disconnectCard"
  /\ r.pc \notin AtRest /\ (r.pc \in InDialogue \/ r.method = "unlockWithPuk") =>
       r.after \in Denying
  /\ r.pc = "checkTunnel" => r.newKey # NoKey

\* The type invariant of the host.
ServerTypeOK ==
  /\ instance \in BOOLEAN /\ tunnel \in BOOLEAN /\ open \in BOOLEAN
  /\ host_key \in Keys \cup {NoKey}
  /\ th \in [Threads -> Thread]
  /\ \A t \in Threads : Coherent(th[t])
  /\ faults \in 0..MaxFaults

Answered(t) == th[t].pc = "idle" /\ th[t].op # None
AnsweredWith(t, names) == Answered(t) /\ th[t].op.name \in names /\ th[t].reply # Error

\* What a reply to each request is made of.
KindOf(name) ==
  CASE name \in {"RETRIEVE_CRED", "RESET_PWD"} -> {"credentials"}
    [] name = "DECRYPT" -> {"plain"}
    [] name \in {"GET_KEY", "GET_RANDOM_NUMBER"} -> {"noise"}
    [] name = "SIGN" -> {"noise", "byte"}
    [] name = "PIN" -> {"pin"}
    [] name = "PUK" -> {"puk"}
    [] OTHER -> {"byte"}

\* A reply that is not an error is the card's answer to the request of the
\* same client: nothing another request, an earlier try of this one or a card
\* fault has left in the datastore (SoftCardServer.java:155-156, 366-369).
AnswersOwnRequest ==
  \A t \in Threads :
    AnsweredWith(t, DOMAIN FirstMethod) =>
      \A i \in DOMAIN th[t].reply : th[t].reply[i].kind \in KindOf(th[t].op.name)

\* A reply says what the card holds, whatever was lost, repeated or undone on
\* the way: the credentials stored, the password promoted (or, on a negative
\* reply, still waiting, if it is not in use already), the PIN validated, the
\* credentials read (SoftCard.java:474-482, 586-592, 387-395, 615-623).
ReplyHolds ==
  \A t \in Threads :
    /\ AnsweredWith(t, {"STORE_CREDENTIALS"}) /\ th[t].reply = YesNo(TRUE) =>
         login = th[t].op.login /\ tmpPwd = th[t].op.pwd
    /\ AnsweredWith(t, {"VALIDATE_PWD"}) =>
         IF th[t].reply = YesNo(TRUE) THEN pwd = th[t].waiting /\ tmpPwd = Empty
         ELSE th[t].waiting \in {Empty, pwd, tmpPwd}
    /\ AnsweredWith(t, {"UNLOCK"}) /\ th[t].reply = YesNo(TRUE) => Unlocked
    /\ AnsweredWith(t, {"RETRIEVE_CRED", "RESET_PWD"}) =>
         th[t].reply[1].val = <<login, pwd>>
    /\ AnsweredWith(t, {"RESET_PWD"}) => tmpPwd = Noise

\* An instance that is there can be used: SoftCard has its tunnel, on an open
\* channel, and the card has the same session key (SoftCard.java:88-93).
UsableInstance ==
  instance /\ (\A t \in Threads : th[t].pc \in {"idle", "closed", "unclosed"}) =>
    tunnel /\ open /\ host_key = session_key /\ host_key # NoKey

\* Credentials and deciphered texts reach a thread only while the PIN is
\* validated, also when another thread makes the card check a PIN between this
\* thread's commands (SoftCard.java:615-617, PIN.java:69-81).
Secrets(resp) == {i \in DOMAIN resp : resp[i].kind \in {"credentials", "password", "plain"}}

SecretsReadUnlocked ==
  [][\A t \in Threads : Secrets(th'[t].resp) # {} /\ Secrets(th[t].resp) = {} => Unlocked]_allVars

\* The user has just typed the right PUK: the card has answered with a new PIN.
RightPuk(t) ==
  /\ th[t].pc = "decide" /\ th[t].method = "unlockWithPuk" /\ th[t].exch = 2
  /\ th[t].resp # <<>>

\* The user is asked for a PIN that is validated: what the card has answered
\* reads as its refusal.
AskedInVain(t) == th[t].pc = "askPin" /\ Unlocked

=============================================================================
