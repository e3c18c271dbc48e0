------------------------ MODULE SoftCardServerProofs ------------------------
(***************************************************************************)
(* Theorems about Card.tla and SoftCardServer.tla.  First the card alone,  *)
(* for any codes, texts, keys and requests.  Then its server, for any      *)
(* number of threads, any set of operations, and any number of card        *)
(* faults.  The type invariant says what a thread knows at each point of   *)
(* its code; from it follows that every step of a thread is a step of the  *)
(* card or leaves the card alone, so that the card's theorems hold under   *)
(* the server, and that a thread is handed secrets only while the PIN is   *)
(* validated.  For one connection the channel, the exchanges and the       *)
(* replies have an invariant of their own: whatever fails, the replies are *)
(* true and the instance can be used.                                      *)
(***************************************************************************)
EXTENDS SoftCardServer, TLAPS

-----------------------------------------------------------------------------
(* The operations of a PIN object.                                         *)

LEMMA PinOperations ==
  ASSUME NEW V, NEW p \in PinObjects(V), NEW c, NEW v \in V
  PROVE  /\ NewPin(v) \in PinObjects(V)
         /\ Check(p, c) \in PinObjects(V)
         /\ ResetAndUnblock(p) \in PinObjects(V)
         /\ Update(p, v) \in PinObjects(V)
         /\ PowerUp(p) \in PinObjects(V)
BY MaxTriesAssumption DEF PinObjects, NewPin, Check, ResetAndUnblock, Update, PowerUp, PinObject

\* Checking a code and losing power leave the value alone.
LEMMA ValueKept ==
  ASSUME NEW p, NEW c
  PROVE  /\ Check(p, c).value = p.value
         /\ PowerUp(p).value = p.value /\ PowerUp(p).tries = p.tries
         /\ ~PowerUp(p).validated
BY DEF Check, PowerUp, PinObject

\* Whatever is presented to a blocked PIN object, it stays blocked.
LEMMA BlockedCheck ==
  ASSUME NEW V, NEW p \in PinObjects(V), NEW c, p.tries = 0
  PROVE  Check(p, c).tries = 0 /\ ~Matches(p, c)
BY MaxTriesAssumption DEF PinObjects, Check, Matches, PinObject

\* What replaces a code object leaves it full of tries.
LEMMA ReplacedPin ==
  ASSUME NEW V, NEW p \in PinObjects(V), NEW v \in V
  PROVE  /\ Update(ResetAndUnblock(p), v) = NewPin(v)
         /\ \A q \in Replacing(p, v) :
              q \in PinObjects(V) /\ q.tries = MaxTries /\ ~q.validated
BY MaxTriesAssumption DEF PinObjects, NewPin, Update, ResetAndUnblock, Replacing, PowerUp, PinObject

-----------------------------------------------------------------------------
(* The datastore keeps its type.                                           *)

LEMMA RespondType ==
  ASSUME CardAssumption, NEW segment \in Segment, NEW head \in Request,
         Respond(segment, head)
  PROVE  BufferTypeOK'
BY DEF CardAssumption, Respond, BufferTypeOK, Width, StatusWords

LEMMA RespondByteType ==
  ASSUME CardAssumption, BufferTypeOK, NEW v \in Byte, RespondByte(v)
  PROVE  BufferTypeOK'
<1>1. [kind |-> "byte", val |-> <<v>>] \in Segment
  BY DEF Segment
<1>2. [data EXCEPT !.aid = v] \in Request
  BY DEF BufferTypeOK, Request
<1> QED
  BY <1>1, <1>2, RespondType DEF RespondByte

LEMMA RespondCodeType ==
  ASSUME CardAssumption, BufferTypeOK, NEW code \in Codes,
         NEW kind \in {"pin", "puk"}, RespondCode(kind, code)
  PROVE  BufferTypeOK'
<1>1. [kind |-> kind, val |-> <<code>>] \in Segment
  BY DEF Segment, Arg
<1>2. [data EXCEPT !.aid = Noise, !.ins = Noise] \in Request
  BY DEF BufferTypeOK, Request
<1> QED
  BY <1>1, <1>2, RespondType DEF RespondCode

LEMMA RespondNothingType ==
  ASSUME CardAssumption, BufferTypeOK, RespondNothing
  PROVE  BufferTypeOK'
BY DEF CardAssumption, RespondNothing, BufferTypeOK, StatusWords

LEMMA NoiseType == NoiseHead \in Request /\ NoiseSegment \in Segment
BY DEF NoiseHead, NoiseSegment, Request, Segment, Arg

LEMMA FailType ==
  ASSUME BufferTypeOK, NEW status \in StatusWords, Fail(status)
  PROVE  BufferTypeOK'
BY DEF Fail, BufferTypeOK, bufferVars

LEMMA PutType ==
  ASSUME CardAssumption, BufferTypeOK, sw' \in StatusWords,
         NEW segment \in Segment, NEW head \in Request, Put(segment, head)
  PROVE  BufferTypeOK'
<1>1. HeadAfterPut(head) \in Request
  BY DEF HeadAfterPut, BufferTypeOK, Request, NoiseHead, Arg
<1>2. Append(unread, segment) \in Seq(Segment)
  BY DEF BufferTypeOK
<1>3. used + Width(segment) \in 0..Capacity
  BY DEF CardAssumption, BufferTypeOK, Put, Width
<1> QED
  BY <1>1, <1>2, <1>3 DEF Put, BufferTypeOK

LEMMA ClearType ==
  ASSUME CardAssumption, ClearTransient
  PROVE  BufferTypeOK' /\ session_key' = NoKey /\ challenge' = FALSE
BY DEF CardAssumption, ClearTransient, BufferTypeOK, StatusWords, ZeroHead, Request, Byte, Arg

LEMMA TextType == \A arg : TextOf(arg) \in Stored
BY DEF TextOf, Stored

LEMMA SmallBytes == {-1, 0, 1} \cup (0..MaxTries) \subseteq Byte
BY MaxTriesAssumption DEF Byte

-----------------------------------------------------------------------------
(* Type correctness, one lemma per family of actions.                      *)

LEMMA TypePinExecute ==
  ASSUME CardAssumption, TypeOK, PinExecute
  PROVE  TypeOK'
<1> USE DEF TypeOK
<1>1. CASE IsLocked
  <2>1. BufferTypeOK'
    BY <1>1, SmallBytes, RespondByteType DEF IsLocked
  <2> QED
    BY <1>1, <2>1 DEF IsLocked, pinVars, storeVars, tunnelVars, PinTypeOK, StoreTypeOK
<1>2. CASE PinRemainingTries
  <2>1. BufferTypeOK'
    BY <1>2, SmallBytes, RespondByteType DEF PinRemainingTries, PinTypeOK, PinObjects
  <2> QED
    BY <1>2, <2>1 DEF PinRemainingTries, pinVars, storeVars, tunnelVars, PinTypeOK, StoreTypeOK
<1>3. CASE PukRemainingTries
  <2>1. BufferTypeOK'
    BY <1>3, SmallBytes, RespondByteType DEF PukRemainingTries, PinTypeOK, PinObjects
  <2> QED
    BY <1>3, <2>1 DEF PukRemainingTries, pinVars, storeVars, tunnelVars, PinTypeOK, StoreTypeOK
<1>4. ASSUME NEW code \in Arg, VerifPin(code)
      PROVE  TypeOK'
  <2>1. BufferTypeOK'
    BY <1>4, SmallBytes, RespondByteType DEF VerifPin
  <2>2. PinTypeOK'
    BY <1>4, CardAssumption, PinOperations DEF VerifPin, PinTypeOK
  <2> QED
    BY <1>4, <2>1, <2>2 DEF VerifPin, storeVars, tunnelVars, StoreTypeOK
<1>5. ASSUME NEW code \in Arg, NEW new \in Codes, UnlockWithPuk(code, new)
      PROVE  TypeOK'
  <2>1. BufferTypeOK'
    BY <1>5, RespondCodeType, RespondNothingType DEF UnlockWithPuk
  <2>2. puk' \in PinObjects(Codes \cup {InitPuk})
    BY <1>5, PinOperations DEF UnlockWithPuk, PinTypeOK
  <2>3. pin' \in PinObjects(Codes)
    BY <1>5, PinOperations DEF UnlockWithPuk, PinTypeOK
  <2> QED
    BY <1>5, <2>1, <2>2, <2>3 DEF UnlockWithPuk, storeVars, tunnelVars, PinTypeOK, StoreTypeOK
<1>6. ASSUME Refuse PROVE BufferTypeOK' /\ PinTypeOK'
  BY <1>6 DEF Refuse, BufferTypeOK, PinTypeOK, pinVars, Request, StatusWords
<1>7. ASSUME NEW new \in Codes, GetPin(new)
      PROVE  TypeOK'
  <2>1. BufferTypeOK'
    BY <1>6, <1>7, RespondCodeType DEF GetPin
  <2>2. PinTypeOK'
    BY <1>6, <1>7, PinOperations DEF GetPin, PinTypeOK
  <2> QED
    BY <1>7, <2>1, <2>2 DEF GetPin, storeVars, tunnelVars, StoreTypeOK
<1>8. ASSUME NEW new \in Codes, GetPuk(new)
      PROVE  TypeOK'
  <2>1. BufferTypeOK'
    BY <1>6, <1>8, RespondCodeType DEF GetPuk
  <2>2. PinTypeOK'
    <3>1. CASE puk_retrieved
      BY <1>6, <1>8, <3>1 DEF GetPuk
    <3>2. CASE ~puk_retrieved
      <4>1. new \in Codes \cup {InitPuk}
        OBVIOUS
      <4>2. puk \in PinObjects(Codes \cup {InitPuk})
        BY DEF PinTypeOK
      <4>3. ResetAndUnblock(puk) \in PinObjects(Codes \cup {InitPuk})
        BY <4>1, <4>2, PinOperations
      <4>4. Update(ResetAndUnblock(puk), new) \in PinObjects(Codes \cup {InitPuk})
        BY <4>1, <4>3, PinOperations
      <4> QED
        BY <1>8, <3>2, <4>4 DEF GetPuk, PinTypeOK
    <3> QED
      BY <3>1, <3>2
  <2> QED
    BY <1>8, <2>1, <2>2 DEF GetPuk, storeVars, tunnelVars, StoreTypeOK
<1> QED
  BY <1>1, <1>2, <1>3, <1>4, <1>5, <1>7, <1>8 DEF PinExecute

LEMMA TypeStoreExecute ==
  ASSUME CardAssumption, TypeOK, StoreExecute
  PROVE  TypeOK'
<1> USE DEF TypeOK
<1>1. BufferTypeOK'
  <2>1. ASSUME NEW v \in {-1, 0, 1}, RespondByte(v)
        PROVE  BufferTypeOK'
    BY <2>1, SmallBytes, RespondByteType
  <2>2. CASE StoreLogin
    BY <2>1, <2>2 DEF StoreLogin
  <2>3. CASE StorePwd
    BY <2>1, <2>3 DEF StorePwd
  <2>4. CASE ValidatePwd
    BY <2>1, <2>4 DEF ValidatePwd
  <2>5. CASE GetCredentials
    <3>1. [kind |-> "credentials", val |-> <<login, pwd>>] \in Segment
      BY DEF StoreTypeOK, Segment
    <3> QED
      BY <2>5, <3>1, NoiseType, RespondType DEF GetCredentials
  <2>6. CASE GetPwd
    <3>1. [kind |-> "password", val |-> <<pwd>>] \in Segment
      BY DEF StoreTypeOK, Segment
    <3> QED
      BY <2>6, <3>1, NoiseType, RespondType, RespondNothingType DEF GetPwd
  <2>7. CASE StoreLocked
    BY <2>1, <2>7 DEF StoreLocked
  <2> QED
    BY <2>2, <2>3, <2>4, <2>5, <2>6, <2>7 DEF StoreExecute
<1>2. StoreTypeOK'
  BY TextType DEF StoreExecute, StoreLogin, StorePwd, ValidatePwd, GetCredentials,
     GetPwd, StoreLocked, storeVars, StoreTypeOK, Stored
<1>3. UNCHANGED <<pinVars, tunnelVars>>
  BY DEF StoreExecute, StoreLogin, StorePwd, ValidatePwd, GetCredentials,
     GetPwd, StoreLocked
<1> QED
  BY <1>1, <1>2, <1>3 DEF pinVars, tunnelVars, PinTypeOK

\* The applets whose answers are noise, and the commands no applet knows.
OtherExecute == CypherExecute \/ SignExecute \/ RngExecute \/ ExecuteUnknown

LEMMA TypeOtherExecute ==
  ASSUME CardAssumption, TypeOK, OtherExecute
  PROVE  TypeOK'
<1> USE DEF TypeOK
<1>1. ASSUME RespondNoise PROVE BufferTypeOK'
  BY <1>1, NoiseType, RespondType DEF RespondNoise
<1>2. ASSUME NEW status \in {"0002", "0003", "0060", "6D00", "6F00", "9000"}, Fail(status)
      PROVE  BufferTypeOK'
  BY <1>2, FailType DEF StatusWords
<1>3. ASSUME NEW v \in {-1, 0, 1}, RespondByte(v)
      PROVE  BufferTypeOK'
  BY <1>3, SmallBytes, RespondByteType
<1>4. BufferTypeOK'
  <2>1. CASE CypherExecute
    <3>1. [kind |-> "plain", val |-> <<Noise>>] \in Segment
      BY DEF Segment, Arg
    <3> QED
      BY <1>1, <1>2, <1>3, <2>1, <3>1, NoiseType, RespondType DEF CypherExecute
  <2>2. CASE SignExecute
    <3>1. ASSUME Respond(NoiseSegment, data) PROVE BufferTypeOK'
      BY <3>1, NoiseType, RespondType DEF BufferTypeOK
    <3> QED
      BY <1>1, <1>2, <1>3, <2>2, <3>1 DEF SignExecute
  <2>3. CASE RngExecute
    <3>1. ASSUME used' = 0, unread' = <<>>, sw' = "6F00", UNCHANGED data
          PROVE  BufferTypeOK'
      BY <3>1, CardAssumption DEF CardAssumption, BufferTypeOK, StatusWords
    <3> QED
      BY <1>1, <1>2, <2>3, <3>1 DEF RngExecute
  <2>4. CASE ExecuteUnknown
    BY <1>2, <2>4 DEF ExecuteUnknown
  <2> QED
    BY <2>1, <2>2, <2>3, <2>4 DEF OtherExecute
<1>5. UNCHANGED <<pinVars, storeVars, tunnelVars>>
  BY DEF OtherExecute, CypherExecute, SignExecute, RngExecute, ExecuteUnknown
<1> QED
  BY <1>4, <1>5 DEF pinVars, storeVars, tunnelVars, PinTypeOK, StoreTypeOK

LEMMA TypePowerLoss ==
  ASSUME CardAssumption, TypeOK, Reset \/ Tear
  PROVE  TypeOK'
<1> USE DEF TypeOK
<1>1. ClearTransient
  BY DEF Reset, Tear, TearVerifPin, TearUnlockWithPuk, TearGetPin, TearGetPuk,
     TearStore, TearValidatePwd
<1>2. BufferTypeOK' /\ session_key' \in Keys \cup {NoKey} /\ challenge' \in BOOLEAN
  BY <1>1, ClearType
<1>3. StoreTypeOK'
  BY DEF Reset, Tear, TearVerifPin, TearUnlockWithPuk, TearGetPin, TearGetPuk,
     TearStore, TearValidatePwd, storeVars, StoreTypeOK, Stored
<1>4. ASSUME NEW new \in Codes
      PROVE  /\ Replacing(pin, new) \subseteq PinObjects(Codes)
             /\ Replacing(puk, new) \subseteq PinObjects(Codes \cup {InitPuk})
  <2>1. new \in Codes \cup {InitPuk}
    OBVIOUS
  <2> QED
    BY <2>1, ReplacedPin DEF PinTypeOK
<1>5. ASSUME NEW code
      PROVE  /\ PowerUp(pin) \in PinObjects(Codes)
             /\ PowerUp(puk) \in PinObjects(Codes \cup {InitPuk})
             /\ PowerUp(Check(pin, code)) \in PinObjects(Codes)
             /\ PowerUp(Check(puk, code)) \in PinObjects(Codes \cup {InitPuk})
  BY CardAssumption, PinOperations DEF CardAssumption, PinTypeOK
<1>6. PinTypeOK'
  <2>1. CASE Reset
    BY <1>5, <2>1 DEF Reset, PinTypeOK
  <2>2. CASE \E code \in Arg : TearVerifPin(code)
    BY <1>5, <2>2 DEF TearVerifPin, PinTypeOK
  <2>3. CASE \E code \in Arg, new \in Codes : TearUnlockWithPuk(code, new)
    BY <1>4, <1>5, <2>3 DEF TearUnlockWithPuk, PinTypeOK
  <2>4. CASE \E new \in Codes : TearGetPin(new)
    BY <1>4, <1>5, <2>4 DEF TearGetPin, PinTypeOK
  <2>5. CASE \E new \in Codes : TearGetPuk(new)
    BY <1>4, <1>5, <2>5 DEF TearGetPuk, PinTypeOK
  <2>6. CASE TearStore \/ TearValidatePwd
    BY <1>5, <2>6 DEF TearStore, TearValidatePwd, PinTypeOK
  <2> QED
    BY <2>1, <2>2, <2>3, <2>4, <2>5, <2>6 DEF Tear
<1> QED
  BY <1>2, <1>3, <1>6

LEMMA TypeTransfer ==
  ASSUME CardAssumption, TypeOK,
         \/ EraseData \/ GetData
         \/ \E key \in Keys : SetTunnel(key) \/ CheckTunnel(key)
         \/ \E key \in Keys, req \in Requests : PutData(key, req)
  PROVE  TypeOK'
<1> USE DEF TypeOK
<1>1. CASE EraseData \/ GetData
  <2>1. used' \in 0..Capacity /\ unread' \in Seq(Segment)
    <3>1. 0 \in 0..Capacity
      BY CardAssumption DEF CardAssumption
    <3>2. <<>> \in Seq(Segment)
      OBVIOUS
    <3> QED
      BY <1>1, <3>1, <3>2 DEF EraseData, GetData, BufferTypeOK
  <2>2. sw' \in StatusWords
    BY <1>1 DEF EraseData, GetData, StatusWords
  <2> QED
    BY <1>1, <2>1, <2>2 DEF EraseData, GetData, pinVars, storeVars, tunnelVars, PinTypeOK,
       StoreTypeOK, BufferTypeOK
<1>2. ASSUME NEW key \in Keys, SetTunnel(key) \/ CheckTunnel(key)
      PROVE  TypeOK'
  BY <1>2 DEF SetTunnel, CheckTunnel, pinVars, storeVars, tunnelVars, bufferVars,
     PinTypeOK, StoreTypeOK, BufferTypeOK, StatusWords
<1>3. ASSUME NEW key \in Keys, NEW req \in Requests, PutData(key, req)
      PROVE  TypeOK'
  <2>1. req \in Request /\ RequestSegment(req) \in Segment
    BY CardAssumption DEF CardAssumption, Request, RequestSegment, Segment, Arg
  <2>2. BufferTypeOK'
    BY <1>3, <2>1, NoiseType, PutType, FailType DEF PutData, StatusWords
  <2> QED
    BY <1>3, <2>2 DEF PutData, pinVars, storeVars, PinTypeOK, StoreTypeOK
<1> QED
  BY <1>1, <1>2, <1>3

LEMMA TypeStep ==
  ASSUME CardAssumption, TypeOK, [Next]_vars
  PROVE  TypeOK'
<1>1. CASE UNCHANGED vars
  BY <1>1 DEF vars, pinVars, storeVars, tunnelVars, bufferVars, TypeOK, PinTypeOK, StoreTypeOK, BufferTypeOK
<1> QED
  BY <1>1, TypePinExecute, TypeStoreExecute, TypeOtherExecute, TypePowerLoss, TypeTransfer
  DEF Next, Execute, OtherExecute

LEMMA InitTypeOK == Init => TypeOK
<1> SUFFICES ASSUME Init PROVE TypeOK
  OBVIOUS
<1>1. PinTypeOK
  <2>1. \A v : NewPin(v) \in PinObjects({v})
    BY MaxTriesAssumption DEF NewPin, PinObject, PinObjects
  <2>2. pin \in PinObjects(Codes) /\ puk \in PinObjects(Codes \cup {InitPuk})
    BY <2>1, CardAssumption DEF CardAssumption, Init, PinObjects
  <2> QED
    BY <2>2 DEF Init, PinTypeOK
<1>2. StoreTypeOK
  BY DEF Init, StoreTypeOK, Stored
<1>3. BufferTypeOK
  <2>1. ZeroHead \in Request
    BY DEF ZeroHead, Request, Byte, Arg
  <2>2. 0 \in 0..Capacity
    BY CardAssumption DEF CardAssumption
  <2>3. <<>> \in Seq(Segment)
    OBVIOUS
  <2> QED
    BY <2>1, <2>2, <2>3 DEF Init, BufferTypeOK, StatusWords
<1> QED
  BY <1>1, <1>2, <1>3 DEF Init, TypeOK

\* Every reachable state is well typed: in particular the try counters stay
\* within the try limit and the datastore never outgrows its capacity.
THEOREM TypeCorrect == Spec => []TypeOK
<1>1. Init => TypeOK
  BY InitTypeOK
<1>2. TypeOK /\ [Next]_vars => TypeOK'
  BY CardAssumption, TypeStep
<1> QED
  BY <1>1, <1>2, PTL DEF Spec

-----------------------------------------------------------------------------
(* What waits in the datastore.  The two invariants hold of an answer      *)
(* without secret or code, of an empty datastore, and of a datastore that  *)
(* keeps what it has while the codes do not change.                        *)

PendingOK == SecretsOnlyWhileUnlocked /\ PendingCodeInForce

LEMMA NothingPending ==
  ASSUME unread' = <<>>
  PROVE  PendingOK'
BY DEF PendingOK, SecretsOnlyWhileUnlocked, PendingCodeInForce, Pending

LEMMA HarmlessAnswer ==
  ASSUME NEW segment, unread' = <<segment>>, segment.kind \in {"byte", "noise"}
  PROVE  PendingOK'
BY DEF PendingOK, SecretsOnlyWhileUnlocked, PendingCodeInForce, Pending

LEMMA RespondByteHarmless ==
  ASSUME NEW v, RespondByte(v)
  PROVE  PendingOK'
BY HarmlessAnswer DEF RespondByte, Respond

LEMMA RespondNoiseHarmless ==
  ASSUME NEW head, Respond(NoiseSegment, head)
  PROVE  PendingOK'
BY HarmlessAnswer DEF NoiseSegment, Respond

LEMMA NothingChanged ==
  ASSUME PendingOK, UNCHANGED <<pinVars, unread>>
  PROVE  PendingOK'
BY DEF PendingOK, SecretsOnlyWhileUnlocked, PendingCodeInForce, Pending, Unlocked, pinVars

LEMMA HarmlessFragment ==
  ASSUME PendingOK, unread \in Seq(Segment), UNCHANGED pinVars,
         NEW segment, unread' = Append(unread, segment),
         segment.kind \in {"request", "noise"}
  PROVE  PendingOK'
<1>1. ASSUME NEW i \in DOMAIN unread', unread'[i].kind \notin {"request", "noise"}
      PROVE  i \in DOMAIN unread /\ unread'[i] = unread[i]
  BY <1>1
<1> QED
  BY <1>1 DEF PendingOK, SecretsOnlyWhileUnlocked, PendingCodeInForce, Pending,
     Unlocked, pinVars

LEMMA NewCodePending ==
  ASSUME NEW code, NEW segment, unread' = <<segment>>,
         \/ /\ segment = [kind |-> "pin", val |-> <<code>>]
            /\ pin' = NewPin(code)
         \/ /\ segment = [kind |-> "puk", val |-> <<code>>]
            /\ puk' = NewPin(code) /\ puk_retrieved'
  PROVE  PendingOK'
BY DEF PendingOK, SecretsOnlyWhileUnlocked, PendingCodeInForce, Pending, NewPin, PinObject

LEMMA SecretWhileUnlocked ==
  ASSUME Unlocked, UNCHANGED pinVars, NEW segment, unread' = <<segment>>,
         segment.kind \in {"credentials", "password", "plain"}
  PROVE  PendingOK'
BY DEF PendingOK, SecretsOnlyWhileUnlocked, PendingCodeInForce, Pending, Unlocked, pinVars

LEMMA PendingPinExecute ==
  ASSUME TypeOK, PendingOK, PinExecute
  PROVE  PendingOK'
<1>1. CASE IsLocked \/ PinRemainingTries \/ PukRemainingTries
  BY <1>1, RespondByteHarmless DEF IsLocked, PinRemainingTries, PukRemainingTries
<1>2. ASSUME NEW code \in Arg, VerifPin(code)
      PROVE  PendingOK'
  BY <1>2, RespondByteHarmless DEF VerifPin
<1>3. ASSUME NEW code \in Arg, NEW new \in Codes, UnlockWithPuk(code, new)
      PROVE  PendingOK'
  <2>1. CASE Matches(puk, code)
    <3>1. pin' = NewPin(new) /\ RespondCode("pin", new)
      BY <1>3, <2>1, ReplacedPin DEF UnlockWithPuk, TypeOK, PinTypeOK
    <3> QED
      BY <3>1, NewCodePending DEF RespondCode, Respond
  <2>2. CASE ~Matches(puk, code)
    BY <1>3, <2>2, NothingPending DEF UnlockWithPuk, RespondNothing
  <2> QED
    BY <2>1, <2>2
<1>4. ASSUME NEW new \in Codes, GetPin(new)
      PROVE  PendingOK'
  <2>1. CASE pin_retrieved
    BY <1>4, <2>1, NothingChanged DEF GetPin, Refuse
  <2>2. CASE ~pin_retrieved
    <3>1. pin' = NewPin(new) /\ RespondCode("pin", new)
      BY <1>4, <2>2, ReplacedPin DEF GetPin, TypeOK, PinTypeOK
    <3> QED
      BY <3>1, NewCodePending DEF RespondCode, Respond
  <2> QED
    BY <2>1, <2>2
<1>5. ASSUME NEW new \in Codes, GetPuk(new)
      PROVE  PendingOK'
  <2>1. CASE puk_retrieved
    BY <1>5, <2>1, NothingChanged DEF GetPuk, Refuse
  <2>2. CASE ~puk_retrieved
    <3>1. new \in Codes \cup {InitPuk} /\ puk \in PinObjects(Codes \cup {InitPuk})
      BY DEF TypeOK, PinTypeOK
    <3>2. puk' = NewPin(new) /\ RespondCode("puk", new) /\ puk_retrieved'
      BY <1>5, <2>2, <3>1, ReplacedPin DEF GetPuk
    <3> QED
      BY <3>2, NewCodePending DEF RespondCode, Respond
  <2> QED
    BY <2>1, <2>2
<1> QED
  BY <1>1, <1>2, <1>3, <1>4, <1>5 DEF PinExecute

LEMMA PendingOtherExecute ==
  ASSUME TypeOK, PendingOK, StoreExecute \/ OtherExecute
  PROVE  PendingOK'
<1>1. ASSUME NEW status, Fail(status), UNCHANGED pinVars
      PROVE  PendingOK'
  BY <1>1, NothingChanged DEF Fail, bufferVars
<1>2. CASE StoreExecute
  <2>1. CASE StoreLogin \/ StorePwd \/ StoreLocked
    BY <2>1, RespondByteHarmless DEF StoreLogin, StorePwd, StoreLocked
  <2>2. CASE ValidatePwd
    BY <2>2, RespondByteHarmless DEF ValidatePwd
  <2>3. CASE GetCredentials
    BY <2>3, SecretWhileUnlocked DEF GetCredentials, StoreCommand, Respond
  <2>4. CASE GetPwd
    BY <2>4, SecretWhileUnlocked, NothingPending
    DEF GetPwd, StoreCommand, Respond, RespondNothing
  <2> QED
    BY <1>2, <2>1, <2>2, <2>3, <2>4 DEF StoreExecute
<1>3. CASE CypherExecute
  <2>1. ASSUME Unlocked, UNCHANGED pinVars,
               Respond([kind |-> "plain", val |-> <<Noise>>], NoiseHead)
        PROVE  PendingOK'
    BY <2>1, SecretWhileUnlocked DEF Respond
  <2> QED
    BY <1>1, <1>3, <2>1, RespondByteHarmless, RespondNoiseHarmless
    DEF CypherExecute, RespondNoise
<1>4. CASE SignExecute
  BY <1>1, <1>4, RespondByteHarmless, RespondNoiseHarmless DEF SignExecute, RespondNoise
<1>5. CASE RngExecute
  BY <1>1, <1>5, NothingPending, RespondNoiseHarmless DEF RngExecute, RespondNoise
<1>6. CASE ExecuteUnknown
  BY <1>1, <1>6 DEF ExecuteUnknown
<1> QED
  BY <1>2, <1>3, <1>4, <1>5, <1>6 DEF OtherExecute

LEMMA PendingStep ==
  ASSUME TypeOK, PendingOK, [Next]_vars
  PROVE  PendingOK'
<1>1. CASE UNCHANGED vars
  BY <1>1, NothingChanged DEF vars, pinVars, bufferVars
<1>2. CASE EraseData \/ GetData
  BY <1>2, NothingPending DEF EraseData, GetData
<1>3. ASSUME NEW key \in Keys, SetTunnel(key) \/ CheckTunnel(key)
      PROVE  PendingOK'
  BY <1>3, NothingChanged DEF SetTunnel, CheckTunnel, bufferVars
<1>4. ASSUME NEW key \in Keys, NEW req \in Requests, PutData(key, req)
      PROVE  PendingOK'
  <2>1. CASE Put(RequestSegment(req), req)
    BY <1>4, <2>1, HarmlessFragment DEF PutData, Put, RequestSegment, TypeOK, BufferTypeOK
  <2>2. CASE Put(NoiseSegment, NoiseHead)
    BY <1>4, <2>2, HarmlessFragment DEF PutData, Put, NoiseSegment, TypeOK, BufferTypeOK
  <2>3. CASE Fail("6F00")
    BY <1>4, <2>3, NothingChanged DEF PutData, Fail, bufferVars
  <2> QED
    BY <1>4, <2>1, <2>2, <2>3 DEF PutData
<1>5. CASE Reset \/ Tear
  BY <1>5, NothingPending DEF Reset, Tear, TearVerifPin, TearUnlockWithPuk, TearGetPin,
     TearGetPuk, TearStore, TearValidatePwd, ClearTransient
<1> QED
  BY <1>1, <1>2, <1>3, <1>4, <1>5, PendingPinExecute, PendingOtherExecute
  DEF Next, Execute, OtherExecute

\* Credentials and deciphered texts wait in the datastore only while the PIN
\* is validated, and a new code that waits there is the code in force,
\* whatever the order of the APDUs and whenever power is lost.
THEOREM PendingCorrect ==
  Spec => [](SecretsOnlyWhileUnlocked /\ PendingCodeInForce)
<1>1. Init => PendingOK
  BY DEF Init, PendingOK, SecretsOnlyWhileUnlocked, PendingCodeInForce, Pending
<1>2. TypeOK /\ PendingOK /\ [Next]_vars => PendingOK'
  BY PendingStep
<1> QED
  BY <1>1, <1>2, TypeCorrect, PTL DEF Spec, PendingOK

\* The second of the two by itself: a new PIN or PUK that waits to be fetched
\* (PIN.java:85-98, 102-110, 121-130) is the code in force, untried.
THEOREM PendingCodeStands == Spec => []PendingCodeInForce
BY PendingCorrect, PTL

-----------------------------------------------------------------------------
(* What a step may never do.                                               *)

\* The instructions that leave the codes alone.
LEMMA OthersKeepCodes ==
  ASSUME \/ EraseData \/ GetData \/ StoreExecute \/ OtherExecute
         \/ \E key \in Keys : SetTunnel(key) \/ CheckTunnel(key)
         \/ \E key \in Keys, req \in Requests : PutData(key, req)
  PROVE  UNCHANGED pinVars
BY DEF EraseData, GetData, SetTunnel, CheckTunnel, PutData, OtherExecute, CypherExecute,
   SignExecute, RngExecute, ExecuteUnknown, StoreExecute, StoreLogin, StorePwd,
   ValidatePwd, GetCredentials, GetPwd, StoreLocked

\* After the first retrieval only a right PUK, not blocked, changes the PIN.
THEOREM PinChangesOnlyWithPuk == Spec => PinChangesWithPuk
<1> DEFINE A == pin_retrieved /\ pin'.value # pin.value
                  => puk.tries > 0 /\ puk'.tries = MaxTries
<1>1. TypeOK /\ [Next]_vars => [A]_vars
  <2> SUFFICES ASSUME TypeOK, Next, pin_retrieved, pin'.value # pin.value
               PROVE  puk.tries > 0 /\ puk'.tries = MaxTries
    OBVIOUS
  <2>1. ASSUME NEW code, Matches(puk, code), puk' \in {Check(puk, code), PowerUp(Check(puk, code))}
        PROVE  puk.tries > 0 /\ puk'.tries = MaxTries
    BY <2>1 DEF Matches, Check, PowerUp, PinObject
  <2>2. CASE PinExecute
    <3>1. PICK code \in Arg, new \in Codes : UnlockWithPuk(code, new)
      BY <2>2, ValueKept DEF PinExecute, IsLocked, PinRemainingTries,
         PukRemainingTries, VerifPin, GetPin, GetPuk, Refuse, pinVars
    <3> QED
      BY <2>1, <3>1 DEF UnlockWithPuk
  <2>3. CASE Reset \/ Tear
    <3>1. PICK code \in Arg, new \in Codes : TearUnlockWithPuk(code, new)
      BY <2>3, ValueKept DEF Reset, Tear, TearVerifPin, TearGetPin, TearGetPuk,
         TearStore, TearValidatePwd
    <3> QED
      BY <2>1, <3>1, ValueKept DEF TearUnlockWithPuk
  <2> QED
    BY <2>2, <2>3, OthersKeepCodes DEF Next, Execute, OtherExecute, pinVars
<1> QED
  BY <1>1, TypeCorrect, PTL DEF Spec, PinChangesWithPuk

\* A card whose codes are both retrieved and both blocked stays so, and its
\* credentials stay what they are.
THEOREM DeadCardStaysDead == Spec => DeadForever
<1> DEFINE A == Dead => Dead' /\ UNCHANGED storeVars
<1>1. TypeOK /\ [Next]_vars => [A]_vars
  <2> SUFFICES ASSUME TypeOK, Next, Dead
               PROVE  Dead' /\ UNCHANGED storeVars
    OBVIOUS
  <2>1. ~Unlocked
    BY DEF Dead, Unlocked
  <2>2. ASSUME NEW code
        PROVE  /\ Check(pin, code).tries = 0 /\ Check(puk, code).tries = 0
               /\ ~Matches(puk, code)
    BY BlockedCheck DEF Dead, TypeOK, PinTypeOK
  <2>3. CASE PinExecute
    BY <2>2, <2>3 DEF PinExecute, IsLocked, PinRemainingTries, PukRemainingTries,
       VerifPin, UnlockWithPuk, GetPin, GetPuk, Refuse, pinVars, Dead
  <2>4. CASE Reset \/ Tear
    BY ZenonT(40), <2>1, <2>2, <2>4, ValueKept DEF Reset, Tear, TearVerifPin, TearUnlockWithPuk,
       TearGetPin, TearGetPuk, TearStore, TearValidatePwd, StoreCommand, Dead
  <2>5. CASE StoreExecute
    BY <2>1, <2>5, OthersKeepCodes DEF StoreExecute, StoreLogin, StorePwd, ValidatePwd,
       GetCredentials, GetPwd, StoreLocked, StoreCommand, pinVars, Dead
  <2>6. CASE \/ EraseData \/ GetData \/ OtherExecute
             \/ \E key \in Keys : SetTunnel(key) \/ CheckTunnel(key)
             \/ \E key \in Keys, req \in Requests : PutData(key, req)
    <3>1. UNCHANGED storeVars
      BY <2>6 DEF EraseData, GetData, SetTunnel, CheckTunnel, PutData, OtherExecute, CypherExecute,
         SignExecute, RngExecute, ExecuteUnknown
    <3> QED
      BY <2>6, <3>1, OthersKeepCodes DEF pinVars, Dead
  <2> QED
    BY <2>3, <2>4, <2>5, <2>6 DEF Next, Execute, OtherExecute
<1> QED
  BY <1>1, TypeCorrect, PTL DEF Spec, DeadForever

\* A step that changes one of StoreID's two passwords is one of four.
LEMMA PasswordSteps ==
  ASSUME Next, tmpPwd' # tmpPwd \/ pwd' # pwd
  PROVE  StorePwd \/ ValidatePwd \/ TearStore \/ TearValidatePwd
BY DEF Next, EraseData, GetData, SetTunnel, CheckTunnel, PutData, Execute, PinExecute, IsLocked,
   PinRemainingTries, PukRemainingTries, VerifPin, UnlockWithPuk, GetPin, GetPuk,
   StoreExecute, StoreLogin, GetCredentials, GetPwd, StoreLocked,
   CypherExecute, SignExecute, RngExecute, ExecuteUnknown, Reset, Tear, TearVerifPin,
   TearUnlockWithPuk, TearGetPin, TearGetPuk, storeVars

\* Nothing but another STORE_PWD takes the place of the password that waits
\* for its validation before it is the one in use, and nothing changes the
\* one in use but its validation.
THEOREM PasswordKept == Spec => PasswordNotLost
<1> DEFINE A ==
      /\ tmpPwd' # tmpPwd => \/ pwd' = tmpPwd
                             \/ StoreCommand(INS_STORE_PWD) /\ pwd' = pwd
      /\ pwd' # pwd => tmpPwd # Empty /\ (pwd' = tmpPwd \/ tmpPwd' = tmpPwd)
<1>1. ASSUME Next
      PROVE  A
  <2>1. CASE StorePwd
    BY <2>1 DEF StorePwd
  <2>2. CASE ValidatePwd
    BY <2>2 DEF ValidatePwd
  <2>3. CASE TearStore
    BY <2>3 DEF TearStore
  <2>4. CASE TearValidatePwd
    BY <2>4 DEF TearValidatePwd
  <2>5. CASE tmpPwd' = tmpPwd /\ pwd' = pwd
    BY <2>5
  <2> QED
    BY <1>1, <2>1, <2>2, <2>3, <2>4, <2>5, PasswordSteps
<1>2. [Next]_vars => [A]_vars
  BY <1>1
<1> QED
  BY <1>2, PTL DEF Spec, PasswordNotLost

-----------------------------------------------------------------------------
(* The record of a thread, and what each operator on it leaves.            *)

Good(r) == r \in Thread /\ Coherent(r)

\* The points of the code are the groups the model names.
LEMMA PointSets ==
  /\ InMethod \subseteq Points /\ InConstructor \subseteq Points /\ InDialogue \subseteq Points
  /\ AtRest \subseteq Points /\ "disconnect" \in Points /\ "unsetTunnel" \in Points
BY DEF Points

\* Moving to another point drops the response and keeps the rest.
LEMMA AtFields ==
  ASSUME NEW r \in Thread, NEW pc \in Points
  PROVE  /\ At(r, pc) \in Thread
         /\ At(r, pc).pc = pc
         /\ At(r, pc).op = r.op
         /\ At(r, pc).method = r.method
         /\ At(r, pc).exch = r.exch
         /\ At(r, pc).after = r.after
         /\ At(r, pc).newKey = r.newKey
         /\ At(r, pc).resp = <<>>
<1> <<>> \in Seq(Segment)
  OBVIOUS
<1>1. At(r, pc) \in Thread
  BY DEF At, Thread
<1>2. At(r, pc).pc = pc
  BY DEF At, Thread
<1>3. At(r, pc).op = r.op
  BY DEF At, Thread
<1>4. At(r, pc).method = r.method
  BY DEF At, Thread
<1>5. At(r, pc).exch = r.exch
  BY DEF At, Thread
<1>6. At(r, pc).after = r.after
  BY DEF At, Thread
<1>7. At(r, pc).newKey = r.newKey
  BY DEF At, Thread
<1>8. At(r, pc).resp = <<>>
  BY DEF At, Thread
<1> QED
  BY <1>1, <1>2, <1>3, <1>4, <1>5, <1>6, <1>7, <1>8

\* Calling a method starts its first exchange.
LEMMA CallsFields ==
  ASSUME NEW r \in Thread, NEW method \in CardMethods
  PROVE  /\ Calls(r, method) \in Thread
         /\ Calls(r, method).pc = "erase"
         /\ Calls(r, method).op = r.op
         /\ Calls(r, method).method = method
         /\ Calls(r, method).after = r.after
         /\ Calls(r, method).resp = <<>>
<1> DEFINE q == At(r, "erase")
<1>1. q \in Thread /\ q.pc = "erase" /\ q.op = r.op /\ q.after = r.after /\ q.resp = <<>>
  BY AtFields, PointSets DEF InMethod
<1> HIDE DEF q
<1>2. Calls(r, method) = [q EXCEPT !.method = method, !.exch = 1]
  BY DEF Calls, q
<1> DEFINE s == [q EXCEPT !.method = method, !.exch = 1]
<1>3. s \in Thread
  BY <1>1 DEF Thread
<1>4. s.pc = q.pc
  BY <1>1 DEF Thread
<1>5. s.op = q.op
  BY <1>1 DEF Thread
<1>6. s.method = method
  BY <1>1 DEF Thread
<1>7. s.after = q.after
  BY <1>1 DEF Thread
<1>8. s.resp = q.resp
  BY <1>1 DEF Thread
<1> QED
  BY <1>1, <1>2, <1>3, <1>4, <1>5, <1>6, <1>7, <1>8

\* Every request starts with a method of SoftCard.
LEMMA FirstMethodType == \A op \in Operation : FirstMethod[op.name] \in CardMethods \cup {"disconnectCard"}
BY DEF FirstMethod, CardMethods, Operation

\* Whatever the method and the exchange, the request is one the card knows.
LEMMA RequestType ==
  ASSUME NEW r, Good(r), r.pc \in InMethod
  PROVE  RequestOf(r) \in HostRequests
<1>1. r.op \in Operation /\ r.method \in CardMethods /\ r.code \in Codes \cup {Empty}
  BY DEF Good, Coherent, InMethod, AtRest, Thread
<1>2. r.op.login \in Texts \cup {Empty} /\ r.op.pwd \in Texts \cup {Empty, Noise}
  BY <1>1 DEF Operation
<1> USE DEF RequestOf, HostRequests
<1>3. CASE r.method = "getPublicKey"
  BY <1>3
<1>4. CASE r.method = "getRandomNumber"
  BY <1>4
<1>5. CASE r.method \in {"decryptData", "signData"}
  BY <1>5
<1>6. CASE r.method = "unlock"
  BY <1>1, <1>6
<1>7. CASE r.method = "unlockWithPuk"
  BY <1>1, <1>7
<1>8. CASE r.method \in {"storeLogin", "storePassword"}
  BY <1>2, <1>8
<1>9. CASE r.method \in {"validatePassword", "retrieveCredentials"}
  BY <1>9
<1>10. CASE r.method \in {"isUnlocked", "getPIN", "getPUK"}
  BY <1>10
<1> HIDE DEF RequestOf, HostRequests
<1> QED
  BY <1>1, <1>3, <1>4, <1>5, <1>6, <1>7, <1>8, <1>9, <1>10 DEF CardMethods

\* A thread at work, and the threads a step may leave: none keeps a response.
Working(r) ==
  /\ r \in Thread /\ r.pc \notin AtRest
  /\ r.op \in Operation /\ r.method \in CardMethods \cup {"disconnectCard"}
  /\ r.pc \in InMethod \cup InDialogue => r.method # "disconnectCard"
  /\ r.pc \in InDialogue \/ r.method = "unlockWithPuk" => r.after \in Denying

Fresh(r) == Good(r) /\ r.resp = <<>>

\* Remembering the method to start again.
LEMMA AfterFields ==
  ASSUME NEW r \in Thread, NEW method \in Denying \cup {None}
  PROVE  LET s == [r EXCEPT !.after = method]
         IN  /\ s \in Thread /\ s.pc = r.pc /\ s.op = r.op /\ s.method = r.method
             /\ s.after = method /\ s.resp = r.resp
<1> DEFINE s == [r EXCEPT !.after = method]
<1>1. s \in Thread
  BY DEF Thread
<1>2. s.pc = r.pc
  BY DEF Thread
<1>3. s.op = r.op
  BY DEF Thread
<1>4. s.method = r.method
  BY DEF Thread
<1>5. s.after = method
  BY DEF Thread
<1>6. s.resp = r.resp
  BY DEF Thread
<1> QED
  BY <1>1, <1>2, <1>3, <1>4, <1>5, <1>6

\* What a thread at work knows.
LEMMA WorkingHas ==
  ASSUME NEW r, Working(r)
  PROVE  /\ r \in Thread /\ r.op \in Operation
         /\ r.method \in CardMethods \cup {"disconnectCard"}
         /\ r.method = "unlockWithPuk" => r.after \in Denying
BY DEF Working, Good, Coherent, Thread

\* A thread that moves on stays coherent, if it may be where it goes.
LEMMA AtGood ==
  ASSUME NEW r, Working(r), NEW pc \in Points,
         pc \in InMethod \cup InDialogue => r.method # "disconnectCard",
         pc \in InDialogue => r.after \in Denying,
         pc # "checkTunnel"
  PROVE  Fresh(At(r, pc))
<1>1. /\ At(r, pc) \in Thread /\ At(r, pc).pc = pc /\ At(r, pc).op = r.op
      /\ At(r, pc).method = r.method /\ At(r, pc).after = r.after /\ At(r, pc).resp = <<>>
  BY WorkingHas, AtFields
<1> QED
  BY <1>1 DEF Fresh, Working, Good, Coherent

\* So does one that calls a method of the card,
LEMMA CallsGood ==
  ASSUME NEW r, Working(r), NEW method \in CardMethods,
         method = "unlockWithPuk" => r.after \in Denying
  PROVE  Fresh(Calls(r, method))
<1>1. /\ Calls(r, method) \in Thread /\ Calls(r, method).pc = "erase"
      /\ Calls(r, method).op = r.op /\ Calls(r, method).method = method
      /\ Calls(r, method).after = r.after /\ Calls(r, method).resp = <<>>
  BY WorkingHas, CallsFields
<1> QED
  BY <1>1, WorkingHas DEF Fresh, Working, Good, Coherent, CardMethods, InMethod, InDialogue, AtRest

\* one that is denied and asks for the PIN,
LEMMA AsksPinGood ==
  ASSUME NEW r, Working(r), r.method \in Denying
  PROVE  Fresh(AsksPin(r))
<1> DEFINE q == At(r, "askPin")
<1>1. q \in Thread /\ q.pc = "askPin" /\ q.op = r.op /\ q.method = r.method /\ q.resp = <<>>
  BY WorkingHas, AtFields, PointSets DEF InDialogue
<1> HIDE DEF q
<1> DEFINE s == [q EXCEPT !.after = r.method]
<1>2. s \in Thread /\ s.pc = q.pc /\ s.op = q.op /\ s.method = q.method
      /\ s.after = r.method /\ s.resp = q.resp
  BY <1>1, AfterFields
<1>3. AsksPin(r) = s
  BY DEF AsksPin, q
<1> HIDE DEF s
<1> QED
  BY <1>1, <1>2, <1>3, WorkingHas DEF Fresh, Working, Good, Coherent, Denying, AtRest

\* A thread without request.
LEMMA IdleType == Idle \in Thread /\ Idle.resp = <<>>
<1> <<>> \in Seq(Segment)
  OBVIOUS
<1> QED
  BY PointSets DEF Idle, Thread, AtRest, Stored

\* A thread at rest without response is coherent.
LEMMA RestGood ==
  ASSUME NEW r \in Thread, r.pc \in AtRest, r.resp = <<>>
  PROVE  Fresh(r)
BY DEF Fresh, Good, Coherent, AtRest, InMethod, InDialogue

\* one that replies,
LEMMA RepliesGood ==
  ASSUME NEW r, Working(r), NEW v \in Seq(Segment) \cup {None, Error}
  PROVE  Fresh(Replies(r, v))
<1> DEFINE pc == IF r.op.name \in AdminTools THEN "exit" ELSE "idle"
<1> DEFINE s == [Idle EXCEPT !.pc = pc, !.op = r.op, !.reply = v, !.waiting = r.waiting]
<1>1. pc \in AtRest /\ pc \in Points /\ r.op \in Operation /\ r.waiting \in Stored
  BY WorkingHas, PointSets DEF AtRest, Thread
<1> HIDE DEF pc
<1>2. s \in Thread
  BY <1>1, IdleType DEF Thread
<1>3. s.pc = pc
  BY <1>1, IdleType DEF Thread
<1>4. s.resp = Idle.resp
  BY <1>1, IdleType DEF Thread
<1>5. Replies(r, v) = s
  BY DEF Replies, pc
<1> HIDE DEF s
<1> QED
  BY <1>1, <1>2, <1>3, <1>4, <1>5, IdleType, RestGood

\* and one that starts its method again.
LEMMA ResumesGood ==
  ASSUME NEW r, Working(r), r.after \in Denying
  PROVE  Fresh(Resumes(r))
<1> DEFINE q == Calls(r, r.after)
<1>1. r.after \in Denying /\ r.after \in CardMethods
  BY WorkingHas DEF Thread, Denying, CardMethods
<1>2. q \in Thread /\ q.pc = "erase" /\ q.op = r.op /\ q.method = r.after /\ q.resp = <<>>
  BY <1>1, WorkingHas, CallsFields
<1> HIDE DEF q
<1> DEFINE s == [q EXCEPT !.after = None, !.tried = FALSE, !.code = Empty]
<1>3. s \in Thread
  BY <1>2 DEF Thread
<1>4. s.pc = q.pc
  BY <1>2 DEF Thread
<1>5. s.op = q.op
  BY <1>2 DEF Thread
<1>6. s.method = q.method
  BY <1>2 DEF Thread
<1>7. s.resp = q.resp
  BY <1>2 DEF Thread
<1>8. Resumes(r) = s
  BY DEF Resumes, q
<1> HIDE DEF s
<1> QED
  BY <1>1, <1>2, <1>3, <1>4, <1>5, <1>6, <1>7, <1>8, WorkingHas
  DEF Fresh, Good, Coherent, Denying, InMethod, InDialogue, AtRest

\* A yes or a no is a reply.
LEMMA AnsweredSegment ==
  ASSUME NEW b
  PROVE  YesNo(b) \in Seq(Segment)
BY SmallBytes DEF YesNo, Segment

\* A thread that goes on to its second exchange stays coherent,
LEMMA SecondExchangeGood ==
  ASSUME NEW r, Working(r), r.method # "disconnectCard"
  PROVE  Fresh(SecondExchange(r))
<1> DEFINE q == At(r, "erase")
<1>1. q \in Thread /\ q.pc = "erase" /\ q.op = r.op /\ q.method = r.method
      /\ q.after = r.after /\ q.resp = <<>>
  BY WorkingHas, AtFields, PointSets DEF InMethod
<1> HIDE DEF q
<1> DEFINE s == [q EXCEPT !.exch = 2]
<1>2. s \in Thread
  BY <1>1 DEF Thread
<1>3. s.pc = q.pc
  BY <1>1 DEF Thread
<1>4. s.op = q.op
  BY <1>1 DEF Thread
<1>5. s.method = q.method
  BY <1>1 DEF Thread
<1>6. s.after = q.after
  BY <1>1 DEF Thread
<1>7. s.resp = q.resp
  BY <1>1 DEF Thread
<1>8. SecondExchange(r) = s
  BY DEF SecondExchange, q
<1> HIDE DEF s
<1> QED
  BY <1>1, <1>2, <1>3, <1>4, <1>5, <1>6, <1>7, <1>8, WorkingHas
  DEF Fresh, Good, Coherent, InMethod, InDialogue, AtRest

\* one that has obtained the instance,
LEMMA ObtainedGood ==
  ASSUME NEW r, Working(r)
  PROVE  Fresh(Obtained(r))
<1>1. CASE r.method = "disconnectCard"
  BY <1>1, AtGood, PointSets DEF Obtained, InMethod, InDialogue
<1>2. CASE r.method # "disconnectCard"
  BY <1>2, AtGood, PointSets DEF Obtained, InMethod, InDialogue
<1> QED
  BY <1>1, <1>2

\* one that an exception stops,
LEMMA ThrowsGood ==
  ASSUME NEW r, Working(r)
  PROVE  Fresh(Throws(r))
<1>1. CASE r.method = "disconnectCard"
  <2>1. CASE r.exch = 1
    <3> DEFINE q == At(r, "getInstance")
    <3>1. q \in Thread /\ q.pc = "getInstance" /\ q.op = r.op /\ q.method = r.method
          /\ q.resp = <<>>
      BY WorkingHas, AtFields, PointSets DEF InConstructor
    <3> HIDE DEF q
    <3> DEFINE s == [q EXCEPT !.exch = 2]
    <3>2. s \in Thread
      BY <3>1 DEF Thread
    <3>3. s.pc = q.pc
      BY <3>1 DEF Thread
    <3>4. s.op = q.op
      BY <3>1 DEF Thread
    <3>5. s.method = q.method
      BY <3>1 DEF Thread
    <3>6. s.resp = q.resp
      BY <3>1 DEF Thread
    <3>7. Throws(r) = s
      BY <1>1, <2>1 DEF Throws, q
    <3> HIDE DEF s
    <3> QED
      BY <1>1, <3>1, <3>2, <3>3, <3>4, <3>5, <3>6, <3>7, WorkingHas
      DEF Fresh, Good, Coherent, InMethod, InDialogue
  <2>2. CASE r.exch # 1
    <3> DEFINE s == [Idle EXCEPT !.pc = "unclosed"]
    <3>1. s \in Thread
      BY IdleType, PointSets DEF Thread, AtRest
    <3>2. s.pc = "unclosed"
      BY IdleType DEF Thread
    <3>3. s.resp = Idle.resp
      BY IdleType DEF Thread
    <3>4. Throws(r) = s
      BY <1>1, <2>2 DEF Throws
    <3> HIDE DEF s
    <3> QED
      BY <3>1, <3>2, <3>3, <3>4, IdleType, RestGood DEF AtRest
  <2> QED
    BY <2>1, <2>2
<1>2. CASE r.method = "unlockWithPuk" /\ r.tried
  <2>1. Throws(r) = At(r, "askPuk")
    BY <1>2 DEF Throws
  <2> QED
    BY <1>2, <2>1, AtGood, PointSets, WorkingHas DEF InDialogue
<1>3. CASE r.method # "disconnectCard" /\ ~(r.method = "unlockWithPuk" /\ r.tried)
  BY <1>3, RepliesGood DEF Throws
<1> QED
  BY <1>1, <1>2, <1>3

\* one to which unlock returns,
LEMMA UnlockReturnsGood ==
  ASSUME NEW r, Working(r), r.method # "disconnectCard", NEW v
  PROVE  Fresh(UnlockReturns(r, v))
<1>1. CASE r.after = None
  BY <1>1, RepliesGood, AnsweredSegment DEF UnlockReturns
<1>2. CASE r.after # None
  <2>1. r.after \in Denying
    BY <1>2, WorkingHas DEF Thread
  <2>2. Fresh(At(r, "askPin")) /\ Fresh(At(r, "askPuk"))
    BY <2>1, AtGood, PointSets DEF InDialogue
  <2>3. Fresh(Resumes(r))
    BY <2>1, ResumesGood
  <2> QED
    BY <1>2, <2>2, <2>3 DEF UnlockReturns
<1> QED
  BY <1>1, <1>2

\* and one that decides on a response, whatever the method.
LEMMA DecidesGood ==
  ASSUME NEW r, Working(r), r.method # "disconnectCard", NEW b
  PROVE  Fresh(Decides(r, b))
<1>1. r.resp \in Seq(Segment)
  BY WorkingHas DEF Thread
<1>2. /\ Fresh(Replies(r, r.resp)) /\ Fresh(Replies(r, Error))
      /\ \A v : Fresh(Replies(r, YesNo(v)))
  BY <1>1, RepliesGood, AnsweredSegment
<1>3. CASE r.method = "getPublicKey"
  BY <1>2, <1>3, SecondExchangeGood DEF Decides, PublicKeyDecides
<1>4. CASE r.method = "getRandomNumber"
  BY <1>2, <1>4, CallsGood DEF Decides, RandomNumberDecides, CardMethods
<1>5. CASE r.method \in {"decryptData", "signData"}
  BY <1>2, <1>5, AsksPinGood DEF Decides, DataDecides, Denying
<1>6. CASE r.method = "unlock"
  BY <1>6, UnlockReturnsGood, SecondExchangeGood DEF Decides, UnlockDecides
<1>7. CASE r.method = "unlockWithPuk"
  <2>1. r.after \in Denying
    BY <1>7, WorkingHas
  <2>2. Fresh(Resumes(r)) /\ Fresh(At(r, "askPuk"))
    BY <1>7, <2>1, ResumesGood, AtGood, PointSets DEF InDialogue
  <2>3. Fresh([At(r, "askPuk") EXCEPT !.tried = TRUE])
    <3> DEFINE q == At(r, "askPuk")
    <3>1. Fresh(q) /\ q \in Thread
      BY <2>2 DEF Fresh, Good
    <3> HIDE DEF q
    <3> DEFINE s == [q EXCEPT !.tried = TRUE]
    <3>2. s \in Thread
      BY <3>1 DEF Thread
    <3>3. s.pc = q.pc
      BY <3>1 DEF Thread
    <3>4. s.op = q.op
      BY <3>1 DEF Thread
    <3>5. s.method = q.method
      BY <3>1 DEF Thread
    <3>6. s.after = q.after
      BY <3>1 DEF Thread
    <3>7. s.newKey = q.newKey
      BY <3>1 DEF Thread
    <3>8. s.resp = q.resp
      BY <3>1 DEF Thread
    <3>9. Fresh(s)
      <4> HIDE DEF s
      <4> QED
        BY <3>1, <3>2, <3>3, <3>4, <3>5, <3>6, <3>7, <3>8 DEF Fresh, Good, Coherent
    <3> QED
      BY <3>9 DEF q
  <2> QED
    BY <1>2, <1>7, <2>2, <2>3, SecondExchangeGood DEF Decides, UnlockWithPukDecides
<1>8. CASE r.method = "storeLogin"
  BY <1>2, <1>8, AsksPinGood, CallsGood DEF Decides, StoreLoginDecides, Denying, CardMethods
<1>9. CASE r.method = "storePassword"
  BY <1>2, <1>9, AsksPinGood, CallsGood DEF Decides, StorePasswordDecides, Denying, CardMethods
<1>10. CASE r.method = "retrieveCredentials"
  BY <1>2, <1>10, AsksPinGood DEF Decides, CredentialsDecides, Denying
<1>11. CASE r.method \in {"validatePassword", "isUnlocked", "getPIN", "getPUK"}
  BY <1>2, <1>11 DEF Decides
<1> QED
  BY <1>3, <1>4, <1>5, <1>6, <1>7, <1>8, <1>9, <1>10, <1>11, WorkingHas DEF CardMethods

-----------------------------------------------------------------------------
(* Every step of a thread is a step of the card, or none.                  *)

ThreadsOK ==
  /\ th \in [Threads -> Thread]
  /\ \A t \in Threads : Coherent(th[t])

StaticsOK ==
  /\ instance \in BOOLEAN /\ tunnel \in BOOLEAN /\ open \in BOOLEAN
  /\ host_key \in Keys \cup {NoKey}
  /\ faults \in 0..MaxFaults

\* The type invariant is that of the static fields and that of the threads.
LEMMA ServerTypeParts == ServerTypeOK <=> StaticsOK /\ ThreadsOK
BY DEF ServerTypeOK, StaticsOK, ThreadsOK

\* A thread that is not at rest is at work.
LEMMA AtWork ==
  ASSUME ThreadsOK, NEW t \in Threads, th[t].pc \notin AtRest
  PROVE  Working(th[t])
BY DEF ThreadsOK, Working, Coherent

\* What a thread does is an APDU, a loss of power, or nothing to the card.
LEMMA CardStep ==
  ASSUME ServerTypeOK, NEW t \in Threads,
         Connect(t) \/ Receive(t) \/ Work(t) \/ CardFault(t) \/ ConstructorFault(t)
  PROVE  [Next]_vars
<1>1. ThreadsOK /\ StaticsOK
  BY ServerTypeParts
<1>2. CASE \/ Connect(t) \/ Receive(t) \/ GetInstance(t) \/ PublishTunnel(t)
           \/ PublishInstance(t) \/ UnsetTunnel(t) \/ Decide(t) \/ CommandThrows(t)
           \/ AskPin(t) \/ AskPuk(t)
  BY <1>2 DEF Connect, Receive, ReceiveRequest, DropMessage, GetInstance, PublishTunnel, PublishInstance, UnsetTunnel,
     Decide, CommandThrows, AskPin, AskPuk
<1>3. CASE Disconnect(t) \/ Exit(t)
  BY <1>3 DEF Disconnect, Exit, Next
<1>4. CASE EraseSent(t) \/ ExecuteSent(t) \/ GetDataSent(t)
  BY <1>4 DEF EraseSent, ExecuteSent, GetDataSent, Next
<1>5. ASSUME th[t].pc = "request", host_key # NoKey, PutData(host_key, RequestOf(th[t]))
      PROVE  Next
  <2>1. RequestOf(th[t]) \in Requests
    BY <1>1, <1>5, ServerAssumption, RequestType
    DEF ServerAssumption, ThreadsOK, Good, InMethod
  <2>2. host_key \in Keys
    BY <1>1, <1>5 DEF StaticsOK
  <2> QED
    BY <1>5, <2>1, <2>2 DEF Next
<1>6. ASSUME th[t].pc = "checkTunnel", CheckTunnel(th[t].newKey)
      PROVE  Next
  <2>1. th[t].newKey \in Keys
    BY <1>1, <1>6 DEF ThreadsOK, Coherent, Thread
  <2> QED
    BY <1>6, <2>1 DEF Next
<1>7. ASSUME NEW key \in FreshKeys, SetTunnel(key)
      PROVE  Next
  BY <1>7 DEF FreshKeys, Next
<1>8. CASE RequestSent(t)
  BY <1>5, <1>8 DEF RequestSent
<1>9. CASE CheckTunnelSent(t)
  BY <1>6, <1>9 DEF CheckTunnelSent
<1>10. CASE SetTunnelSent(t)
  BY <1>7, <1>10 DEF SetTunnelSent
<1>11. CASE CardFault(t)
  BY <1>5, <1>11 DEF CardFault, Next
<1>12. CASE ConstructorFault(t)
  BY <1>6, <1>7, <1>12 DEF ConstructorFault, Next
<1> QED
  BY <1>2, <1>3, <1>4, <1>8, <1>9, <1>10, <1>11, <1>12 DEF Work

-----------------------------------------------------------------------------
(* Every step keeps the host's types.                                      *)

\* A step gives no thread a response it had not.
KeepsResponses == \A u \in Threads : th'[u].resp \in {<<>>, th[u].resp}

\* Only the thread that moves changes.
LEMMA BecomesThreads ==
  ASSUME ThreadsOK, NEW t \in Threads, NEW r, Good(r), Becomes(t, r)
  PROVE  ThreadsOK' /\ th'[t] = r /\ \A u \in Threads \ {t} : th'[u] = th[u]
BY DEF ThreadsOK, Good, Becomes

\* A coherent thread without new response keeps the invariant.
LEMMA BecomesOK ==
  ASSUME ThreadsOK, NEW t \in Threads, NEW r, Good(r), r.resp \in {<<>>, th[t].resp},
         Becomes(t, r)
  PROVE  ThreadsOK' /\ KeepsResponses
BY BecomesThreads DEF KeepsResponses

\* Every step keeps the types of the static fields.
LEMMA StaticsStep ==
  ASSUME ServerTypeOK, NEW t \in Threads,
         Connect(t) \/ Receive(t) \/ Work(t) \/ CardFault(t) \/ ConstructorFault(t)
  PROVE  StaticsOK'
<1>1. StaticsOK /\ ThreadsOK
  BY ServerTypeParts
<1>2. CASE Connect(t) \/ Receive(t) \/ Decide(t) \/ CommandThrows(t) \/ AskPin(t) \/ AskPuk(t)
  BY <1>1, <1>2 DEF StaticsOK, staticVars, Connect, Receive, ReceiveRequest, DropMessage,
     Decide, CommandThrows, AskPin, AskPuk
<1>3. CASE \/ GetInstance(t) \/ SetTunnelSent(t) \/ PublishTunnel(t) \/ PublishInstance(t)
           \/ Disconnect(t) \/ UnsetTunnel(t) \/ Exit(t)
  BY <1>1, <1>3 DEF StaticsOK, staticVars, GetInstance, SetTunnelSent, PublishTunnel,
     PublishInstance, Disconnect, UnsetTunnel, Exit
<1>4. CASE CheckTunnelSent(t)
  <2>1. th[t].newKey \in Keys \cup {NoKey}
    BY <1>1 DEF ThreadsOK, Thread
  <2> QED
    BY <1>1, <1>4, <2>1 DEF StaticsOK, CheckTunnelSent
<1>5. CASE EraseSent(t) \/ RequestSent(t) \/ ExecuteSent(t) \/ GetDataSent(t)
  BY <1>1, <1>5 DEF StaticsOK, staticVars, EraseSent, RequestSent, ExecuteSent, GetDataSent
<1>6. CASE CardFault(t) \/ ConstructorFault(t)
  <2>1. UNCHANGED staticVars /\ faults < MaxFaults /\ faults' = faults + 1
    BY <1>6 DEF CardFault, ConstructorFault, Fault
  <2>2. faults' \in 0..MaxFaults
    BY <1>1, <2>1, ServerAssumption DEF StaticsOK, ServerAssumption
  <2> QED
    BY <1>1, <2>1, <2>2 DEF StaticsOK, staticVars
<1> QED
  BY <1>2, <1>3, <1>4, <1>5, <1>6 DEF Work

\* So does one without response.
LEMMA FreshBecomes ==
  ASSUME ThreadsOK, NEW t \in Threads, NEW r, Fresh(r), Becomes(t, r)
  PROVE  ThreadsOK' /\ KeepsResponses
BY BecomesOK DEF Fresh

\* Setting the key of a handshake, or taking it back.
LEMMA KeyFields ==
  ASSUME NEW r \in Thread, NEW key \in Keys \cup {NoKey}
  PROVE  LET s == [r EXCEPT !.newKey = key]
         IN  /\ s \in Thread /\ s.pc = r.pc /\ s.op = r.op /\ s.method = r.method
             /\ s.after = r.after /\ s.resp = r.resp /\ s.newKey = key
<1> DEFINE s == [r EXCEPT !.newKey = key]
<1>1. s \in Thread
  BY DEF Thread
<1>2. s.pc = r.pc
  BY DEF Thread
<1>3. s.op = r.op
  BY DEF Thread
<1>4. s.method = r.method
  BY DEF Thread
<1>5. s.after = r.after
  BY DEF Thread
<1>6. s.resp = r.resp
  BY DEF Thread
<1>7. s.newKey = key
  BY DEF Thread
<1> QED
  BY <1>1, <1>2, <1>3, <1>4, <1>5, <1>6, <1>7

\* Moving to another point of the code with or without a key.
LEMMA PointFields ==
  ASSUME NEW r \in Thread, NEW pc \in Points
  PROVE  LET s == [r EXCEPT !.pc = pc]
         IN  /\ s \in Thread /\ s.pc = pc /\ s.op = r.op /\ s.method = r.method
             /\ s.after = r.after /\ s.resp = r.resp /\ s.newKey = r.newKey
<1> DEFINE s == [r EXCEPT !.pc = pc]
<1>1. s \in Thread
  BY DEF Thread
<1>2. s.pc = pc
  BY DEF Thread
<1>3. s.op = r.op
  BY DEF Thread
<1>4. s.method = r.method
  BY DEF Thread
<1>5. s.after = r.after
  BY DEF Thread
<1>6. s.resp = r.resp
  BY DEF Thread
<1>7. s.newKey = r.newKey
  BY DEF Thread
<1> QED
  BY <1>1, <1>2, <1>3, <1>4, <1>5, <1>6, <1>7

\* Connecting, receiving a request, AdminTool's end.
LEMMA ConnectionThreads ==
  ASSUME TypeOK, ThreadsOK, NEW t \in Threads, Connect(t) \/ Receive(t) \/ Exit(t)
  PROVE  ThreadsOK' /\ KeepsResponses
<1>1. CASE Connect(t) \/ DropMessage(t)
  <2>1. Fresh(Idle)
    BY IdleType, RestGood DEF Idle, AtRest
  <2> QED
    BY <1>1, <2>1, FreshBecomes DEF Connect, DropMessage
<1>2. CASE ReceiveRequest(t)
  <2>1. PICK op \in Operations :
          Becomes(t, [Idle EXCEPT !.pc = "getInstance", !.op = op, !.code = op.code,
                                  !.method = FirstMethod[op.name],
                                  !.exch = IF op.name = "CLOSE" THEN 2 ELSE 1,
                                  !.waiting = tmpPwd])
    BY <1>2 DEF ReceiveRequest
  <2> DEFINE method == FirstMethod[op.name]
             exch == IF op.name = "CLOSE" THEN 2 ELSE 1
             s == [Idle EXCEPT !.pc = "getInstance", !.op = op, !.code = op.code,
                               !.method = method, !.exch = exch, !.waiting = tmpPwd]
  <2>2. op \in Operation /\ op.code \in Codes \cup {Empty}
    BY ServerAssumption DEF ServerAssumption, Operation
  <2>3. method \in CardMethods \cup {"disconnectCard"}
    BY <2>2, FirstMethodType
  <2>4. exch \in {1, 2} /\ tmpPwd \in Stored /\ "getInstance" \in Points
    BY PointSets DEF TypeOK, StoreTypeOK, InConstructor
  <2>5. Becomes(t, s)
    BY <2>1
  <2> HIDE DEF method, exch
  <2>6. s \in Thread
    BY <2>2, <2>3, <2>4, IdleType DEF Thread
  <2>7. s.pc = "getInstance"
    BY <2>2, <2>3, <2>4, IdleType DEF Thread
  <2>8. s.op = op
    BY <2>2, <2>3, <2>4, IdleType DEF Thread
  <2>9. s.method = method
    BY <2>2, <2>3, <2>4, IdleType DEF Thread
  <2>10. s.after = Idle.after
    BY <2>2, <2>3, <2>4, IdleType DEF Thread
  <2>11. s.resp = Idle.resp
    BY <2>2, <2>3, <2>4, IdleType DEF Thread
  <2> HIDE DEF s
  <2>12. method # "unlockWithPuk"
    BY <2>2 DEF method, FirstMethod, Operation
  <2>13. Good(s)
    BY <2>2, <2>3, <2>6, <2>7, <2>8, <2>9, <2>12 DEF Good, Coherent, InMethod, InDialogue
  <2> QED
    BY <2>5, <2>11, <2>13, IdleType, BecomesOK
<1>3. CASE Exit(t)
  <2> DEFINE s == [th[t] EXCEPT !.pc = "idle"]
  <2>1. th[t] \in Thread
    BY DEF ThreadsOK
  <2>2. s \in Thread /\ s.pc = "idle" /\ s.resp = th[t].resp
    BY <2>1, PointFields, PointSets DEF AtRest
  <2>3. Becomes(t, s)
    BY <1>3 DEF Exit
  <2> HIDE DEF s
  <2>4. Good(s)
    BY <2>2 DEF Good, Coherent, AtRest, InMethod, InDialogue
  <2> QED
    BY <2>2, <2>3, <2>4, BecomesOK
<1> QED
  BY <1>1, <1>2, <1>3
 DEF Receive
\* Building, publishing and taking down the instance.
LEMMA InstanceThreads ==
  ASSUME ThreadsOK, NEW t \in Threads,
         \/ GetInstance(t) \/ SetTunnelSent(t) \/ CheckTunnelSent(t) \/ PublishTunnel(t)
         \/ PublishInstance(t) \/ Disconnect(t) \/ UnsetTunnel(t)
  PROVE  ThreadsOK' /\ KeepsResponses
<1>1. th[t].pc \notin AtRest
  BY DEF GetInstance, SetTunnelSent, CheckTunnelSent, PublishTunnel, PublishInstance,
     Disconnect, UnsetTunnel, AtRest
<1>2. Working(th[t]) /\ th[t] \in Thread
  BY <1>1, AtWork DEF ThreadsOK
<1>3. Fresh(Obtained(th[t]))
  BY <1>2, ObtainedGood
<1>4. ASSUME NEW pc \in {"setTunnel", "publishInstance", "unsetTunnel"}
      PROVE  Fresh(At(th[t], pc))
  BY <1>2, AtGood, PointSets DEF InConstructor, InMethod, InDialogue
<1>5. CASE GetInstance(t)
  BY <1>3, <1>4, <1>5, FreshBecomes DEF GetInstance
<1>6. CASE PublishTunnel(t) \/ Disconnect(t)
  BY <1>4, <1>6, FreshBecomes DEF PublishTunnel, Disconnect
<1>7. CASE PublishInstance(t)
  BY <1>3, <1>7, FreshBecomes DEF PublishInstance
<1>8. ASSUME NEW pc \in {"checkTunnel", "publishTunnel"}, NEW key \in Keys \cup {NoKey},
             pc = "checkTunnel" => key # NoKey,
             Becomes(t, [th[t] EXCEPT !.pc = pc, !.newKey = key])
      PROVE  ThreadsOK' /\ KeepsResponses
  <2> DEFINE s == [th[t] EXCEPT !.pc = pc, !.newKey = key]
  <2> pc \in Points
    BY PointSets DEF InConstructor
  <2>1. s \in Thread
    BY <1>2 DEF Thread
  <2>2. s.pc = pc
    BY <1>2 DEF Thread
  <2>3. s.op = th[t].op
    BY <1>2 DEF Thread
  <2>4. s.method = th[t].method
    BY <1>2 DEF Thread
  <2>5. s.after = th[t].after
    BY <1>2 DEF Thread
  <2>6. s.newKey = key
    BY <1>2 DEF Thread
  <2>9. s.resp = th[t].resp
    BY <1>2 DEF Thread
  <2> HIDE DEF s
  <2>7. Good(s)
    BY <1>2, <1>8, <2>1, <2>2, <2>3, <2>4, <2>5, <2>6
    DEF Working, Good, Coherent, InMethod, InDialogue
  <2>8. Becomes(t, s)
    BY <1>8 DEF s
  <2> QED
    BY <2>7, <2>8, <2>9, BecomesOK
<1>9. CASE SetTunnelSent(t)
  BY <1>8, <1>9, CardAssumption DEF SetTunnelSent, FreshKeys, CardAssumption
<1>10. CASE CheckTunnelSent(t)
  BY <1>8, <1>10 DEF CheckTunnelSent
<1>11. CASE UnsetTunnel(t)
  <2>1. ASSUME NEW exch \in {1, 2}
        PROVE  Fresh([At(th[t], "getInstance") EXCEPT !.exch = exch])
    <3> DEFINE q == At(th[t], "getInstance")
    <3>1. q \in Thread /\ Fresh(q) /\ q.pc = "getInstance"
      BY <1>2, AtGood, AtFields, PointSets DEF InConstructor, InMethod, InDialogue
    <3> HIDE DEF q
    <3> DEFINE s == [q EXCEPT !.exch = exch]
    <3>2. s \in Thread
      BY <3>1 DEF Thread
    <3>3. s.pc = q.pc
      BY <3>1 DEF Thread
    <3>4. s.op = q.op
      BY <3>1 DEF Thread
    <3>5. s.method = q.method
      BY <3>1 DEF Thread
    <3>6. s.after = q.after
      BY <3>1 DEF Thread
    <3>8. s.resp = q.resp
      BY <3>1 DEF Thread
    <3>7. Fresh(s)
      <4> HIDE DEF s
      <4> QED
        BY <3>1, <3>2, <3>3, <3>4, <3>5, <3>6, <3>8 DEF Fresh, Good, Coherent
    <3> QED
      BY <3>7 DEF q
  <2>2. Fresh([Idle EXCEPT !.pc = "closed"])
    <3> DEFINE s == [Idle EXCEPT !.pc = "closed"]
    <3>1. s \in Thread /\ s.pc = "closed" /\ s.resp = Idle.resp
      BY IdleType, PointFields, PointSets DEF AtRest
    <3> HIDE DEF s
    <3>2. Fresh(s)
      BY <3>1, IdleType, RestGood DEF AtRest
    <3> QED
      BY <3>2 DEF s
  <2> QED
    BY <1>11, <2>1, <2>2, FreshBecomes DEF UnsetTunnel
<1> QED
  BY <1>5, <1>6, <1>7, <1>9, <1>10, <1>11

\* The dialogue with the user.
LEMMA DialogueThreads ==
  ASSUME ThreadsOK, NEW t \in Threads, AskPin(t) \/ AskPuk(t)
  PROVE  ThreadsOK' /\ KeepsResponses
<1>1. th[t].pc \in InDialogue
  BY DEF AskPin, AskPuk, InDialogue
<1>2. Working(th[t])
  BY <1>1, AtWork DEF InDialogue, AtRest
<1>3. Fresh(Replies(th[t], Error))
  BY <1>2, RepliesGood
<1>4. ASSUME NEW code \in UserCodes, NEW method \in {"unlock", "unlockWithPuk"}
      PROVE  Fresh([Calls(th[t], method) EXCEPT !.code = code])
  <2> DEFINE q == Calls(th[t], method)
  <2>1. q \in Thread /\ Fresh(q)
    BY <1>1, <1>2, CallsGood DEF Working, Fresh, Good, CardMethods
  <2>2. code \in Codes \cup {Empty}
    BY ServerAssumption DEF ServerAssumption
  <2> HIDE DEF q
  <2> DEFINE s == [q EXCEPT !.code = code]
  <2>3. s \in Thread
    BY <2>1, <2>2 DEF Thread
  <2>4. s.pc = q.pc
    BY <2>1 DEF Thread
  <2>5. s.op = q.op
    BY <2>1 DEF Thread
  <2>6. s.method = q.method
    BY <2>1 DEF Thread
  <2>7. s.after = q.after
    BY <2>1 DEF Thread
  <2>8. s.newKey = q.newKey
    BY <2>1 DEF Thread
  <2>9. s.resp = q.resp
    BY <2>1 DEF Thread
  <2>10. Fresh(s)
    <3> HIDE DEF s
    <3> QED
      BY <2>1, <2>3, <2>4, <2>5, <2>6, <2>7, <2>8, <2>9 DEF Fresh, Good, Coherent
  <2> QED
    BY <2>10 DEF q
<1> QED
  BY <1>3, <1>4, FreshBecomes DEF AskPin, AskPuk

\* What deciphering may add to a response.
LEMMA ReceivedType ==
  ASSUME TypeOK, NEW received \in Received
  PROVE  received \in Seq(Segment)
<1>1. unread \in Seq(Segment)
  BY DEF TypeOK, BufferTypeOK
<1>2. <<NoiseSegment>> \in Seq(Segment) /\ <<>> \in Seq(Segment)
  BY NoiseType
<1> QED
  BY <1>1, <1>2 DEF Received

\* The thread whose response grows, by what the card has sent.
TakesUnread(t) ==
  /\ \E received \in Received : th'[t].resp = th[t].resp \o received
  /\ \A u \in Threads \ {t} : th'[u] = th[u]

\* An exchange with the card: the only step that extends a response.
LEMMA ExchangeThreads ==
  ASSUME TypeOK, ThreadsOK, NEW t \in Threads,
         \/ EraseSent(t) \/ RequestSent(t) \/ ExecuteSent(t) \/ GetDataSent(t) \/ Decide(t)
  PROVE  ThreadsOK' /\ (KeepsResponses \/ TakesUnread(t))
<1>1. th[t].pc \in InMethod
  BY DEF EraseSent, RequestSent, ExecuteSent, GetDataSent, Decide, InMethod
<1>2. Working(th[t]) /\ th[t].method # "disconnectCard" /\ th[t] \in Thread
  BY <1>1, AtWork DEF ThreadsOK, Working, InMethod, AtRest
<1>3. Fresh(Throws(th[t]))
  BY <1>2, ThrowsGood
<1>4. ASSUME NEW pc \in {"request", "execute", "getResponse"}
      PROVE  Fresh(At(th[t], pc))
  BY <1>2, AtGood, PointSets DEF InMethod, InDialogue
<1>5. CASE EraseSent(t) \/ RequestSent(t)
  BY <1>4, <1>5, FreshBecomes DEF EraseSent, RequestSent
<1>6. CASE ExecuteSent(t)
  BY <1>3, <1>4, <1>6, FreshBecomes DEF ExecuteSent
<1>7. CASE GetDataSent(t)
  <2>1. CASE Becomes(t, [th[t] EXCEPT !.pc = "decide"])
    <3> DEFINE s == [th[t] EXCEPT !.pc = "decide"]
    <3>1. /\ s \in Thread /\ s.pc = "decide" /\ s.op = th[t].op /\ s.resp = th[t].resp
          /\ s.method = th[t].method /\ s.after = th[t].after
      BY <1>2, PointFields, PointSets DEF InMethod
    <3> HIDE DEF s
    <3>2. Good(s)
      BY <1>2, <3>1 DEF Working, Good, Coherent, InDialogue
    <3> QED
      BY <2>1, <3>1, <3>2, BecomesOK DEF s
  <2>2. ASSUME NEW received \in Received,
               Becomes(t, [th[t] EXCEPT
                 !.resp = @ \o received,
                 !.pc = IF received = <<>> \/ th[t].method = "signData"
                          THEN "decide" ELSE "getResponse"])
        PROVE  ThreadsOK' /\ TakesUnread(t)
    <3> DEFINE pc == IF received = <<>> \/ th[t].method = "signData"
                       THEN "decide" ELSE "getResponse"
               resp == th[t].resp \o received
               s == [th[t] EXCEPT !.resp = resp, !.pc = pc]
    <3>1. Becomes(t, s)
      BY <2>2
    <3>2. pc \in {"decide", "getResponse"}
      OBVIOUS
    <3>3. pc \in InMethod /\ pc \in Points
      BY <3>2, PointSets DEF InMethod
    <3>4. resp \in Seq(Segment)
      BY <1>2, ReceivedType DEF Thread
    <3> HIDE DEF pc, resp
    <3>5. s \in Thread
      BY <1>2, <3>3, <3>4 DEF Thread
    <3>6. s.pc = pc
      BY <1>2, <3>3, <3>4 DEF Thread
    <3>7. s.op = th[t].op
      BY <1>2, <3>3, <3>4 DEF Thread
    <3>8. s.method = th[t].method
      BY <1>2, <3>3, <3>4 DEF Thread
    <3>9. s.after = th[t].after
      BY <1>2, <3>3, <3>4 DEF Thread
    <3>11. s.resp = resp
      BY <1>2, <3>3, <3>4 DEF Thread
    <3> HIDE DEF s
    <3>10. Good(s)
      BY <1>2, <3>2, <3>5, <3>6, <3>7, <3>8, <3>9 DEF Working, Good, Coherent, InDialogue
    <3> QED
      BY <3>1, <3>10, <3>11, BecomesThreads DEF resp, TakesUnread
  <2> QED
    BY <1>3, <1>7, <2>1, <2>2, FreshBecomes DEF GetDataSent
<1>8. CASE Decide(t)
  <2>1. \A b : Fresh(Decides(th[t], b))
    BY <1>2, DecidesGood
  <2> QED
    BY <1>3, <1>8, <2>1, FreshBecomes DEF Decide
<1> QED
  BY <1>5, <1>6, <1>7, <1>8

\* Exceptions and card faults.
LEMMA FailureThreads ==
  ASSUME ThreadsOK, NEW t \in Threads,
         CommandThrows(t) \/ CardFault(t) \/ ConstructorFault(t)
  PROVE  ThreadsOK' /\ KeepsResponses
<1>1. th[t].pc \in InMethod \cup InConstructor
  BY DEF CommandThrows, CardFault, ConstructorFault, InMethod, InConstructor
<1>2. Working(th[t]) /\ th[t] \in Thread
  BY <1>1, AtWork DEF ThreadsOK, InMethod, InConstructor, AtRest
<1>3. CASE CardFault(t)
  <2>1. Fresh(At(th[t], "disconnect"))
    BY <1>2, AtGood, PointSets DEF InMethod, InDialogue
  <2> QED
    BY <1>3, <2>1, FreshBecomes DEF CardFault
<1>4. CASE CommandThrows(t) \/ ConstructorFault(t)
  <2> DEFINE s == [th[t] EXCEPT !.newKey = NoKey]
  <2>1. /\ s \in Thread /\ s.pc = th[t].pc /\ s.op = th[t].op /\ s.method = th[t].method
        /\ s.after = th[t].after
    BY <1>2, KeyFields
  <2>2. Becomes(t, Throws(s))
    BY <1>4 DEF CommandThrows, ConstructorFault
  <2> HIDE DEF s
  <2>3. Working(s)
    BY <1>2, <2>1 DEF Working
  <2> QED
    BY <2>2, <2>3, ThrowsGood, FreshBecomes
<1> QED
  BY <1>3, <1>4

\* Every step of a thread, by the lemmas above.
LEMMA ThreadsStep ==
  ASSUME TypeOK, ServerTypeOK, NEW t \in Threads,
         Connect(t) \/ Receive(t) \/ Work(t) \/ CardFault(t) \/ ConstructorFault(t)
  PROVE  ThreadsOK' /\ (KeepsResponses \/ TakesUnread(t))
<1>1. ThreadsOK
  BY ServerTypeParts
<1> QED
  BY <1>1, ConnectionThreads, InstanceThreads, DialogueThreads, ExchangeThreads,
     FailureThreads DEF Work

\* The type invariant is inductive, given the card's.
LEMMA ServerTypeStep ==
  ASSUME TypeOK, ServerTypeOK, [ServerNext]_allVars
  PROVE  ServerTypeOK'
<1>1. StaticsOK /\ ThreadsOK
  BY ServerTypeParts
<1>2. CASE UNCHANGED allVars
  <2>1. StaticsOK' /\ ThreadsOK'
    BY <1>1, <1>2 DEF allVars, serverVars, staticVars, StaticsOK, ThreadsOK
  <2> QED
    BY <2>1 DEF ServerTypeOK, StaticsOK, ThreadsOK
<1>3. CASE ServerNext
  <2>1. StaticsOK' /\ ThreadsOK'
    BY <1>3, StaticsStep, ThreadsStep DEF ServerNext
  <2> QED
    BY <2>1 DEF ServerTypeOK, StaticsOK, ThreadsOK
<1> QED
  BY <1>2, <1>3

\* It holds of the first state.
LEMMA ServerInitOK == ServerInit => ServerTypeOK
<1> SUFFICES ASSUME ServerInit PROVE ServerTypeOK
  OBVIOUS
<1>1. Idle \in Thread /\ Idle.pc = "idle"
  BY IdleType DEF Idle
<1>2. Coherent(Idle)
  BY <1>1 DEF Coherent, AtRest, InMethod, InDialogue
<1> HIDE DEF Idle
<1>3. ThreadsOK
  BY <1>1, <1>2 DEF ServerInit, ThreadsOK
<1>4. StaticsOK
  <2>1. 0 \in 0..MaxFaults
    BY ServerAssumption DEF ServerAssumption
  <2> QED
    BY <2>1 DEF ServerInit, StaticsOK
<1> QED
  BY <1>3, <1>4, ServerTypeParts

\* Every step of the server is a step of the card or none.
LEMMA ServerStepsAreCardSteps ==
  ASSUME ServerTypeOK, [ServerNext]_allVars
  PROVE  [Next]_vars
BY CardStep DEF ServerNext, allVars

\* Every reachable state of the server is well typed, for any number of
\* connections: among others, a thread that asks for a code knows the method
\* to start again, and sends the card only requests it can answer.
THEOREM ServerTypeCorrect == ServerSpec => []ServerTypeOK
<1>1. ServerInit => Init
  BY DEF ServerInit
<1>2. ServerInit => ServerTypeOK
  BY ServerInitOK
<1>3. Init => TypeOK
  BY InitTypeOK
<1>4. TypeOK /\ ServerTypeOK /\ [ServerNext]_allVars => TypeOK' /\ ServerTypeOK'
  BY CardAssumption, ServerTypeStep, ServerStepsAreCardSteps, TypeStep
<1> QED
  BY <1>1, <1>2, <1>3, <1>4, PTL DEF ServerSpec

\* The server uses the card as Card.tla allows: whatever the threads do, and
\* wherever they interrupt each other, the card sees some behaviour of Spec.
THEOREM ServerImplementsCard == ServerSpec => Spec
<1>1. ServerInit => Init
  BY DEF ServerInit
<1>2. ServerTypeOK /\ [ServerNext]_allVars => [Next]_vars
  BY ServerStepsAreCardSteps
<1> QED
  BY <1>1, <1>2, ServerTypeCorrect, PTL DEF ServerSpec, Spec

\* What the card promises, it promises to any number of threads, however
\* their commands interleave.
THEOREM CardHoldsUnderServer ==
  ServerSpec => /\ []TypeOK
                /\ [](SecretsOnlyWhileUnlocked /\ PendingCodeInForce)
                /\ PinChangesWithPuk /\ DeadForever /\ PasswordNotLost
BY ServerImplementsCard, TypeCorrect, PendingCorrect, PinChangesOnlyWithPuk,
   DeadCardStaysDead, PasswordKept

\* A thread that gains a secret has taken it from the datastore.
LEMMA SecretStep ==
  ASSUME TypeOK, SecretsOnlyWhileUnlocked, ServerTypeOK, ServerNext, NEW u \in Threads,
         Secrets(th'[u].resp) # {}, Secrets(th[u].resp) = {}
  PROVE  Unlocked
<1>1. PICK t \in Threads :
        Connect(t) \/ Receive(t) \/ Work(t) \/ CardFault(t) \/ ConstructorFault(t)
  BY DEF ServerNext
<1>2. ~KeepsResponses
  BY DEF KeepsResponses, Secrets
<1>3. TakesUnread(t)
  BY <1>1, <1>2, ThreadsStep
<1>4. PICK received \in Received : th'[u].resp = th[u].resp \o received
  BY <1>3 DEF TakesUnread
<1>5. th[u].resp \in Seq(Segment) /\ received \in Seq(Segment)
  BY ReceivedType, ServerTypeParts DEF ThreadsOK, Thread
<1>6. PICK i \in DOMAIN received : received[i].kind \in {"credentials", "password", "plain"}
  BY <1>4, <1>5 DEF Secrets
<1>7. received = unread
  BY <1>6 DEF Received, NoiseSegment
<1> QED
  BY <1>6, <1>7 DEF SecretsOnlyWhileUnlocked, Pending

\* A thread is handed credentials or a deciphered text only while the PIN is
\* validated, whatever the other threads make the card do in between.
THEOREM SecretsReachThreadsUnlocked == ServerSpec => SecretsReadUnlocked
<1> DEFINE A == \A t \in Threads :
                  Secrets(th'[t].resp) # {} /\ Secrets(th[t].resp) = {} => Unlocked
<1>1. TypeOK /\ SecretsOnlyWhileUnlocked /\ ServerTypeOK /\ [ServerNext]_allVars => [A]_allVars
  BY SecretStep
<1> QED
  BY <1>1, CardHoldsUnderServer, ServerTypeCorrect, PTL DEF ServerSpec, SecretsReadUnlocked

-----------------------------------------------------------------------------
(* One connection.  When no other thread interrupts it, a thread keeps the *)
(* tunnel of its instance, its place among the methods of the request, and *)
(* its place in the exchange with the card; a reply says what the card     *)
(* holds.  Each is a predicate on the thread's record and the card.        *)

OneConnection == \E p : Threads = {p}

Linked == tunnel /\ open /\ host_key = session_key /\ host_key # NoKey

\* The instance has its tunnel, until it is taken down; a new one is built
\* where there is none.
Channel(r) ==
  /\ instance => Linked \/ r.pc = "disconnect"
  /\ ~instance => ~tunnel \/ r.pc \in {"publishInstance", "disconnect", "unsetTunnel"}
  /\ r.pc \in {"setTunnel", "checkTunnel", "publishTunnel", "publishInstance"} =>
       ~instance /\ open
  /\ r.pc = "checkTunnel" => session_key = r.newKey /\ challenge
  /\ r.pc \in {"publishTunnel", "publishInstance"} => host_key = session_key /\ host_key # NoKey
  /\ r.pc = "publishInstance" => tunnel
  /\ r.pc = "unsetTunnel" => ~instance
  /\ r.pc \in InMethod \ {"erase"} => instance
  /\ r.pc = "erase" => r.resp = <<>>

\* The method the request is at, also while the user is asked for a code.
Served(r) == IF r.after = None THEN r.method ELSE r.after

MethodsOf ==
  [GET_KEY |-> {"getPublicKey"}, GET_RANDOM_NUMBER |-> {"getRandomNumber"},
   DECRYPT |-> {"decryptData"}, SIGN |-> {"signData"}, IS_UNLOCKED |-> {"isUnlocked"},
   UNLOCK |-> {"unlock"}, STORE_CREDENTIALS |-> {"storeLogin", "storePassword"},
   RETRIEVE_CRED |-> {"retrieveCredentials"},
   RESET_PWD |-> {"getRandomNumber", "storePassword", "retrieveCredentials"},
   VALIDATE_PWD |-> {"validatePassword"}, QUIT |-> {"disconnectCard"},
   CLOSE |-> {"disconnectCard"}, PIN |-> {"getPIN"}, PUK |-> {"getPUK"}]

Route(r) ==
  r.pc \notin AtRest =>
    /\ Served(r) \in MethodsOf[r.op.name]
    /\ r.after # None => r.method \in {"unlock", "unlockWithPuk"} \/ r.pc \in InDialogue

\* What the methods already done have left on the card.
Progress(r) ==
  r.pc \notin AtRest =>
    /\ r.op.name = "STORE_CREDENTIALS" /\ Served(r) = "storePassword" => login = r.op.login
    /\ r.op.name = "RESET_PWD" => r.op.pwd = Noise
    /\ r.op.name = "RESET_PWD" /\ Served(r) = "retrieveCredentials" => tmpPwd = Noise
    /\ r.op.name = "VALIDATE_PWD" => tmpPwd = r.waiting \/ (tmpPwd = Empty /\ pwd = r.waiting)

OneAnswer(kind, v) == <<[kind |-> kind, val |-> <<v>>]>>
ByteAnswer(v) == OneAnswer("byte", v)

\* The card's answer to the method of r, and what it says of the card.
Answer(r, a) ==
  CASE r.method \in {"getPublicKey", "getRandomNumber"} -> a = <<NoiseSegment>>
    [] r.method = "decryptData" -> a \in {ByteAnswer(-1), OneAnswer("plain", Noise)}
    [] r.method = "signData" -> a = <<NoiseSegment>> \/ \E v \in {0, 1} : a = ByteAnswer(v)
    [] r.method = "unlock" ->
         \E v \in Byte : a = ByteAnswer(v) /\ (r.exch = 2 /\ v = 1 => Unlocked)
    [] r.method = "storeLogin" ->
         a = ByteAnswer(-1) \/ (a = ByteAnswer(1) /\ login = r.op.login)
    [] r.method = "storePassword" ->
         a = ByteAnswer(-1) \/ (a = ByteAnswer(1) /\ tmpPwd = r.op.pwd)
    [] r.method = "validatePassword" ->
         \E v \in {-1, 0, 1} :
           a = ByteAnswer(v) /\ (v = 1 => pwd = r.waiting /\ tmpPwd = Empty)
    [] r.method = "retrieveCredentials" ->
         a = ByteAnswer(-1) \/ a = <<[kind |-> "credentials", val |-> <<login, pwd>>]>>
    [] r.method = "getPIN" -> \E code \in Codes : a = OneAnswer("pin", code)
    [] r.method = "getPUK" -> \E code \in Codes : a = OneAnswer("puk", code)
    [] OTHER -> TRUE

\* The datastore holds what this exchange has put there.
Exchange(r) ==
  /\ r.pc = "request" => used = 0
  /\ r.pc = "execute" => data = RequestOf(r)
  /\ r.pc = "getResponse" =>
       \/ r.resp = <<>> /\ Answer(r, unread)
       \/ unread = <<>> /\ Answer(r, r.resp)
  /\ r.pc = "decide" => Answer(r, r.resp)

\* What AnswersOwnRequest and ReplyHolds say of a reply.
OfItsKind(r) == \A i \in DOMAIN r.reply : r.reply[i].kind \in KindOf(r.op.name)

HoldsOnCard(r) ==
  /\ r.op.name = "STORE_CREDENTIALS" /\ r.reply = YesNo(TRUE) =>
       login = r.op.login /\ tmpPwd = r.op.pwd
  /\ r.op.name = "VALIDATE_PWD" =>
       IF r.reply = YesNo(TRUE) THEN pwd = r.waiting /\ tmpPwd = Empty
       ELSE r.waiting \in {Empty, pwd, tmpPwd}
  /\ r.op.name = "UNLOCK" /\ r.reply = YesNo(TRUE) => Unlocked
  /\ r.op.name \in {"RETRIEVE_CRED", "RESET_PWD"} => r.reply[1].val = <<login, pwd>>
  /\ r.op.name = "RESET_PWD" => tmpPwd = Noise

Replied(r) ==
  /\ r.pc \in {"idle", "exit"} /\ r.op # None /\ r.reply # Error =>
       OfItsKind(r) /\ HoldsOnCard(r)
  /\ r.pc = "exit" => r.op.name \in AdminTools


\* A thread that moves on with the same request and method.
Continues(r, s) ==
  /\ s.pc \notin AtRest
  /\ s.op = r.op /\ s.waiting = r.waiting /\ Served(s) = Served(r)
  /\ s.after # None => s.method \in {"unlock", "unlockWithPuk"} \/ s.pc \in InDialogue

\* One that comes to rest without a reply other than the error.
Stops(s) ==
  /\ s.pc \in AtRest
  /\ s.pc \in {"idle", "exit"} => s.op = None \/ s.reply = Error
  /\ s.pc = "exit" => s.op.name \in AdminTools

\* Where a thread may be outside the four commands of an exchange.
Outside == Points \ {"request", "execute", "getResponse", "decide"}

Lands(r, s) == s.pc \in Outside /\ (Continues(r, s) \/ Stops(s))

Spoken(r) == Route(r) /\ Progress(r) /\ Replied(r)

\* Landing keeps what the thread and the card agree on.
LEMMA MovesSpoken ==
  ASSUME NEW r, NEW s, r.pc \notin AtRest, Continues(r, s) \/ Stops(s), Route(r), Progress(r)'
  PROVE  Spoken(s)'
<1>1. CASE Continues(r, s)
  <2>1. Route(s)
    BY <1>1 DEF Route, Continues
  <2>2. Progress(s)'
    BY <1>1 DEF Progress, Continues
  <2>3. Replied(s)'
    BY <1>1 DEF Replied, Continues, AtRest
  <2> QED
    BY <2>1, <2>2, <2>3 DEF Spoken, Route, Served
<1>2. CASE Stops(s)
  BY <1>2 DEF Stops, Spoken, Route, Progress, Replied
<1> QED
  BY <1>1, <1>2

\* The fields that the lemmas above on At, Calls and the like do not tell.
LEMMA AtKeeps ==
  ASSUME NEW r \in Thread, NEW pc \in Points
  PROVE  At(r, pc).waiting = r.waiting /\ At(r, pc).code = r.code
<1>1. At(r, pc).waiting = r.waiting
  BY DEF At, Thread
<1>2. At(r, pc).code = r.code
  BY DEF At, Thread
<1> QED
  BY <1>1, <1>2

\* The next method starts from the same waiting password.
LEMMA CallsKeeps ==
  ASSUME NEW r \in Thread, NEW method \in CardMethods
  PROVE  Calls(r, method).waiting = r.waiting
<1> DEFINE q == At(r, "erase")
<1>1. q \in Thread /\ q.waiting = r.waiting
  BY AtFields, AtKeeps, PointSets DEF InMethod
<1> HIDE DEF q
<1>2. [q EXCEPT !.method = method, !.exch = 1].waiting = q.waiting
  BY <1>1 DEF Thread
<1> QED
  BY <1>1, <1>2 DEF Calls, q

\* A reply leaves the thread at rest, with its request.
LEMMA RepliesFields ==
  ASSUME NEW r \in Thread, r.op \in Operation, NEW v
  PROVE  LET s == Replies(r, v)
         IN  /\ s.pc = IF r.op.name \in AdminTools THEN "exit" ELSE "idle"
             /\ s.op = r.op /\ s.reply = v /\ s.waiting = r.waiting
<1> DEFINE pc == IF r.op.name \in AdminTools THEN "exit" ELSE "idle"
           s == [Idle EXCEPT !.pc = pc, !.op = r.op, !.reply = v, !.waiting = r.waiting]
<1> HIDE DEF pc
<1>1. s.pc = pc
  BY DEF Idle
<1>2. s.op = r.op
  BY DEF Idle
<1>3. s.reply = v
  BY DEF Idle
<1>4. s.waiting = r.waiting
  BY DEF Idle
<1>5. Replies(r, v) = s
  BY DEF Replies, pc
<1> HIDE DEF s
<1> QED
  BY <1>1, <1>2, <1>3, <1>4, <1>5 DEF pc

\* A thread moves on.
LEMMA AtContinues ==
  ASSUME NEW r, Working(r), Route(r), NEW pc \in Points, pc \notin AtRest,
         r.pc \notin InDialogue \/ pc \in InDialogue
  PROVE  Continues(r, At(r, pc)) /\ At(r, pc).pc = pc
<1>1. r \in Thread /\ r.pc \notin AtRest
  BY DEF Working
<1> DEFINE s == At(r, pc)
<1>2. s.pc = pc /\ s.op = r.op /\ s.method = r.method /\ s.after = r.after /\ s.waiting = r.waiting
  BY <1>1, AtFields, AtKeeps
<1> HIDE DEF s
<1>3. Continues(r, s)
  BY <1>1, <1>2 DEF Route, Continues, Served
<1> QED
  BY <1>2, <1>3 DEF s

\* It asks for the PIN, and starts its method again.
LEMMA AsksPinContinues ==
  ASSUME NEW r, Working(r), Route(r), r.method \in Denying, r.pc \notin InDialogue
  PROVE  Continues(r, AsksPin(r)) /\ AsksPin(r).pc = "askPin"
<1> DEFINE q == At(r, "askPin")
<1>1. r \in Thread /\ r.pc \notin AtRest
  BY DEF Working
<1>2. q \in Thread /\ q.pc = "askPin" /\ q.op = r.op /\ q.method = r.method /\ q.waiting = r.waiting
  BY <1>1, AtFields, AtKeeps, PointSets DEF InDialogue
<1> HIDE DEF q
<1> DEFINE s == [q EXCEPT !.after = r.method]
<1>3. s.pc = q.pc /\ s.op = q.op /\ s.after = r.method
  BY <1>2, AfterFields
<1>4. s.waiting = q.waiting
  BY <1>2 DEF Thread
<1>5. AsksPin(r) = s
  BY DEF AsksPin, q
<1> HIDE DEF s
<1>6. r.after = None
  BY <1>1 DEF Route, Denying
<1> QED
  BY <1>1, <1>2, <1>3, <1>4, <1>5, <1>6, NoneAssumption
  DEF Continues, Served, AtRest, InDialogue

\* The refused method starts again under its own name.
LEMMA ResumesContinues ==
  ASSUME NEW r, Working(r), r.after \in Denying
  PROVE  Continues(r, Resumes(r)) /\ Resumes(r).pc = "erase"
<1> DEFINE q == Calls(r, r.after)
<1>1. r \in Thread /\ r.after \in CardMethods /\ r.after # None
  BY NoneAssumption DEF Working, Denying, CardMethods
<1>2. q \in Thread /\ q.pc = "erase" /\ q.op = r.op /\ q.method = r.after /\ q.waiting = r.waiting
  BY <1>1, CallsFields, CallsKeeps
<1> HIDE DEF q
<1> DEFINE s == [q EXCEPT !.after = None, !.tried = FALSE, !.code = Empty]
<1>3. s.pc = q.pc
  BY <1>2 DEF Thread
<1>4. s.op = q.op
  BY <1>2 DEF Thread
<1>5. s.method = q.method
  BY <1>2 DEF Thread
<1>6. s.waiting = q.waiting
  BY <1>2 DEF Thread
<1>7. s.after = None
  BY <1>2 DEF Thread
<1>8. Resumes(r) = s
  BY DEF Resumes, q
<1> HIDE DEF s
<1> QED
  BY <1>1, <1>2, <1>3, <1>4, <1>5, <1>6, <1>7, <1>8 DEF Continues, Served, AtRest

\* A second exchange belongs to the same method.
LEMMA SecondExchangeContinues ==
  ASSUME NEW r, Working(r), Route(r), r.pc \notin InDialogue
  PROVE  Continues(r, SecondExchange(r)) /\ SecondExchange(r).pc = "erase"
<1> DEFINE q == At(r, "erase")
<1>1. r \in Thread /\ r.pc \notin AtRest
  BY DEF Working
<1>2. /\ q \in Thread /\ q.pc = "erase" /\ q.op = r.op /\ q.method = r.method
      /\ q.after = r.after /\ q.waiting = r.waiting
  BY <1>1, AtFields, AtKeeps, PointSets DEF InMethod
<1> HIDE DEF q
<1> DEFINE s == [q EXCEPT !.exch = 2]
<1>3. s.pc = q.pc
  BY <1>2 DEF Thread
<1>4. s.op = q.op
  BY <1>2 DEF Thread
<1>5. s.method = q.method
  BY <1>2 DEF Thread
<1>6. s.after = q.after
  BY <1>2 DEF Thread
<1>7. s.waiting = q.waiting
  BY <1>2 DEF Thread
<1>8. SecondExchange(r) = s
  BY DEF SecondExchange, q
<1> HIDE DEF s
<1> QED
  BY <1>1, <1>2, <1>3, <1>4, <1>5, <1>6, <1>7, <1>8 DEF Continues, Served, AtRest, Route

\* An error is no reply to account for.
LEMMA ErrorStops ==
  ASSUME NEW r, Working(r)
  PROVE  Stops(Replies(r, Error)) /\ Replies(r, Error).pc \in {"idle", "exit"}
<1>1. r \in Thread /\ r.op \in Operation
  BY DEF Working
<1> DEFINE s == Replies(r, Error)
<1>2. /\ s.pc = IF r.op.name \in AdminTools THEN "exit" ELSE "idle"
      /\ s.op = r.op /\ s.reply = Error
  BY <1>1, RepliesFields
<1> HIDE DEF s
<1> QED
  BY <1>2 DEF Stops, AtRest, s


\* An exception starts the thread again, asks for the PUK or ends the request.
LEMMA ThrowsLands ==
  ASSUME NEW r, Working(r), Route(r)
  PROVE  /\ Continues(r, Throws(r)) \/ Stops(Throws(r))
         /\ Throws(r).pc \in {"getInstance", "askPuk", "idle", "exit", "unclosed"}
<1>1. CASE r.method = "disconnectCard"
  <2>1. CASE r.exch = 1
    <3> DEFINE q == At(r, "getInstance")
    <3>1. r \in Thread /\ r.pc \notin AtRest /\ r.pc \notin InDialogue
      BY <1>1 DEF Working
    <3>2. /\ q \in Thread /\ q.pc = "getInstance" /\ q.op = r.op /\ q.method = r.method
          /\ q.after = r.after /\ q.waiting = r.waiting
      BY <3>1, AtFields, AtKeeps, PointSets DEF InConstructor
    <3> HIDE DEF q
    <3> DEFINE s == [q EXCEPT !.exch = 2]
    <3>3. s.pc = q.pc
      BY <3>2 DEF Thread
    <3>4. s.op = q.op
      BY <3>2 DEF Thread
    <3>5. s.method = q.method
      BY <3>2 DEF Thread
    <3>6. s.after = q.after
      BY <3>2 DEF Thread
    <3>7. s.waiting = q.waiting
      BY <3>2 DEF Thread
    <3>8. Throws(r) = s
      BY <1>1, <2>1 DEF Throws, q
    <3> HIDE DEF s
    <3> QED
      BY <3>1, <3>2, <3>3, <3>4, <3>5, <3>6, <3>7, <3>8 DEF Continues, Served, AtRest, Route
  <2>2. CASE r.exch # 1
    <3> DEFINE s == [Idle EXCEPT !.pc = "unclosed"]
    <3>1. s.pc = "unclosed"
      BY DEF Idle
    <3>2. Throws(r) = s
      BY <1>1, <2>2 DEF Throws
    <3> HIDE DEF s
    <3> QED
      BY <3>1, <3>2 DEF Stops, AtRest
  <2> QED
    BY <2>1, <2>2
<1>2. CASE r.method = "unlockWithPuk" /\ r.tried
  <2>1. Throws(r) = At(r, "askPuk")
    BY <1>2 DEF Throws
  <2>2. "askPuk" \in Points /\ "askPuk" \in InDialogue /\ "askPuk" \notin AtRest
    BY PointSets DEF InDialogue, AtRest
  <2> QED
    BY <2>1, <2>2, AtContinues
<1>3. CASE r.method # "disconnectCard" /\ ~(r.method = "unlockWithPuk" /\ r.tried)
  BY <1>3, ErrorStops DEF Throws
<1> QED
  BY <1>1, <1>2, <1>3

\* Where a method goes with the card's answer: it goes on, or it replies what
\* the card has answered.
DecidesOn == {"erase", "askPin", "askPuk", "idle", "exit"}

\* A positive and a negative reply are different bytes.
LEMMA YesNoValue ==
  /\ YesNo(TRUE) = ByteAnswer(1) /\ YesNo(FALSE) = ByteAnswer(0)
  /\ \A b \in BOOLEAN : YesNo(b) = YesNo(TRUE) => b
  /\ \A b \in BOOLEAN : \A i \in DOMAIN YesNo(b) : YesNo(b)[i].kind = "byte"
BY DEF YesNo, ByteAnswer, OneAnswer

\* The first byte of an answer.
LEMMA AnswerByte ==
  /\ \A v : FirstBytes(ByteAnswer(v)) = {v} /\ ByteAnswer(v) # <<>> /\ Len(ByteAnswer(v)) = 1
  /\ \A x : FirstBytes(<<[kind |-> "credentials", val |-> x]>>) = {-1, 2}
  /\ \A v : FirstBytes(OneAnswer("plain", v)) = {-1, 2}
BY DEF FirstBytes, ByteAnswer, OneAnswer

\* A reply that holds is one to account for.
LEMMA ReplySpoken ==
  ASSUME NEW r, Working(r), NEW v,
         \A i \in DOMAIN v : v[i].kind \in KindOf(r.op.name),
         r.op.name = "STORE_CREDENTIALS" /\ v = YesNo(TRUE) =>
           login = r.op.login /\ tmpPwd = r.op.pwd,
         r.op.name = "VALIDATE_PWD" =>
           IF v = YesNo(TRUE) THEN pwd = r.waiting /\ tmpPwd = Empty
           ELSE r.waiting \in {Empty, pwd, tmpPwd},
         r.op.name = "UNLOCK" /\ v = YesNo(TRUE) => Unlocked,
         r.op.name \in {"RETRIEVE_CRED", "RESET_PWD"} => v[1].val = <<login, pwd>>,
         r.op.name = "RESET_PWD" => tmpPwd = Noise
  PROVE  Spoken(Replies(r, v)) /\ Replies(r, v).pc \in {"idle", "exit"}
<1> DEFINE s == Replies(r, v)
<1>1. /\ s.pc = IF r.op.name \in AdminTools THEN "exit" ELSE "idle"
      /\ s.op = r.op /\ s.reply = v /\ s.waiting = r.waiting
  BY RepliesFields DEF Working
<1> HIDE DEF s
<1>2. OfItsKind(s) /\ HoldsOnCard(s)
  BY <1>1 DEF OfItsKind, HoldsOnCard
<1>3. s.pc \in AtRest
  BY <1>1 DEF AtRest
<1> QED
  BY <1>1, <1>2, <1>3 DEF Spoken, Route, Progress, Replied, s


\* The request, from the method that serves it.
LEMMA NameOf ==
  ASSUME NEW op \in Operation, NEW m, m \in MethodsOf[op.name]
  PROVE  /\ m = "getPublicKey" => op.name = "GET_KEY"
         /\ m = "getRandomNumber" => op.name \in {"GET_RANDOM_NUMBER", "RESET_PWD"}
         /\ m = "decryptData" => op.name = "DECRYPT"
         /\ m = "signData" => op.name = "SIGN"
         /\ m = "isUnlocked" => op.name = "IS_UNLOCKED"
         /\ m = "unlock" => op.name = "UNLOCK"
         /\ m = "storeLogin" => op.name = "STORE_CREDENTIALS"
         /\ m = "storePassword" => op.name \in {"STORE_CREDENTIALS", "RESET_PWD"}
         /\ m = "retrieveCredentials" => op.name \in {"RETRIEVE_CRED", "RESET_PWD"}
         /\ m = "validatePassword" => op.name = "VALIDATE_PWD"
         /\ m = "getPIN" => op.name = "PIN"
         /\ m = "getPUK" => op.name = "PUK"
         /\ m \in Denying => op.name \notin {"UNLOCK", "VALIDATE_PWD"}
         /\ m # "unlockWithPuk"
BY DEF MethodsOf, Operation, Denying

\* Inside a method other than the two that ask for a code, it is the one served.
LEMMA ServedMethod ==
  ASSUME NEW r, Working(r), Route(r), r.pc \notin InDialogue
  PROVE  /\ r.method \notin {"unlock", "unlockWithPuk"} =>
              r.after = None /\ r.method \in MethodsOf[r.op.name]
         /\ r.method = "unlock" /\ r.after = None => r.op.name = "UNLOCK"
         /\ r.after # None => r.after \in Denying
         /\ r.op \in Operation
<1>1. r \in Thread /\ r.pc \notin AtRest /\ r.op \in Operation /\ r.after \in Denying \cup {None}
  BY DEF Working, Thread
<1>2. /\ Served(r) \in MethodsOf[r.op.name]
      /\ r.after # None => r.method \in {"unlock", "unlockWithPuk"}
  BY <1>1 DEF Route
<1>3. r.method = "unlock" /\ r.after = None => r.op.name = "UNLOCK"
  BY <1>1, <1>2, NameOf DEF Served
<1> QED
  BY <1>1, <1>2, <1>3 DEF Served

\* A thread that goes on or stops keeps its place in the request.
LEMMA StaysSpoken ==
  ASSUME NEW r, NEW s, r.pc \notin AtRest, Continues(r, s) \/ Stops(s), Route(r), Progress(r)
  PROVE  Spoken(s)
<1>1. CASE Continues(r, s)
  <2>1. Route(s)
    BY <1>1 DEF Route, Continues
  <2>2. Progress(s)
    BY <1>1 DEF Progress, Continues
  <2>3. Replied(s)
    BY <1>1 DEF Replied, Continues, AtRest
  <2> QED
    BY <2>1, <2>2, <2>3 DEF Spoken
<1>2. CASE Stops(s)
  BY <1>2 DEF Stops, Spoken, Route, Progress, Replied
<1> QED
  BY <1>1, <1>2

\* Starting the next method of a request.
LEMMA CallsSpoken ==
  ASSUME NEW r, Working(r), r.after = None, Route(r), Progress(r), NEW method \in CardMethods,
         method \in MethodsOf[r.op.name],
         r.op.name = "STORE_CREDENTIALS" /\ method = "storePassword" => login = r.op.login,
         r.op.name = "RESET_PWD" /\ method = "retrieveCredentials" => tmpPwd = Noise
  PROVE  Spoken(Calls(r, method)) /\ Calls(r, method).pc = "erase"
<1> DEFINE s == Calls(r, method)
<1>1. r \in Thread /\ r.pc \notin AtRest
  BY DEF Working
<1>2. /\ s.pc = "erase" /\ s.op = r.op /\ s.method = method /\ s.after = r.after
      /\ s.waiting = r.waiting
  BY <1>1, CallsFields, CallsKeeps
<1> HIDE DEF s
<1>3. Route(s)
  BY <1>2 DEF Route, Served
<1>4. Progress(s)
  BY <1>1, <1>2 DEF Progress, Served
<1>5. Replied(s)
  BY <1>2 DEF Replied
<1> QED
  BY <1>2, <1>3, <1>4, <1>5 DEF Spoken, s

\* What unlock returns.
LEMMA UnlockSpoken ==
  ASSUME NEW r, Working(r), Route(r), Progress(r), r.method = "unlock", r.pc \notin InDialogue,
         NEW v, v = 1 => Unlocked
  PROVE  Spoken(UnlockReturns(r, v)) /\ UnlockReturns(r, v).pc \in DecidesOn
<1>1. r.after \in Denying \cup {None} /\ r.pc \notin AtRest
  BY DEF Working, Thread
<1>2. CASE r.after = None
  <2>1. r.op.name = "UNLOCK"
    BY <1>2, ServedMethod
  <2>2. UnlockReturns(r, v) = Replies(r, YesNo(v = 1))
    BY <1>2 DEF UnlockReturns
  <2>3. (v = 1) \in BOOLEAN
    OBVIOUS
  <2>4. YesNo(v = 1) = YesNo(TRUE) => Unlocked
    BY <2>3, YesNoValue
  <2>5. \A i \in DOMAIN YesNo(v = 1) : YesNo(v = 1)[i].kind \in KindOf(r.op.name)
    BY <2>1, <2>3, YesNoValue DEF KindOf
  <2>6. Spoken(Replies(r, YesNo(v = 1))) /\ Replies(r, YesNo(v = 1)).pc \in {"idle", "exit"}
    BY <2>1, <2>4, <2>5, ReplySpoken
  <2> QED
    BY <2>2, <2>6 DEF DecidesOn
<1>3. CASE r.after # None
  <2>1. Continues(r, Resumes(r)) /\ Resumes(r).pc = "erase"
    BY <1>1, <1>3, ResumesContinues
  <2>2. ASSUME NEW pc \in InDialogue
        PROVE  Continues(r, At(r, pc)) /\ At(r, pc).pc = pc
    BY AtContinues, PointSets DEF InDialogue, AtRest
  <2>3. Continues(r, UnlockReturns(r, v)) /\ UnlockReturns(r, v).pc \in DecidesOn
    BY <1>3, <2>1, <2>2 DEF UnlockReturns, InDialogue, DecidesOn
  <2> QED
    BY <1>1, <2>3, StaysSpoken
<1> QED
  BY <1>2, <1>3


\* What a method decides on the card's answer keeps it too.
LEMMA DecidesSpoken ==
  ASSUME NEW r, Working(r), r.method # "disconnectCard", r.pc = "decide", Route(r), Progress(r),
         Answer(r, r.resp), NEW b,
         IF r.resp = <<>> THEN ~ReadsFirstByte(r) ELSE b \in FirstBytes(r.resp)
  PROVE  Spoken(Decides(r, b)) /\ Decides(r, b).pc \in DecidesOn
<1>1. /\ r \in Thread /\ r.pc \notin AtRest /\ r.pc \notin InDialogue
      /\ r.op \in Operation /\ r.method \in CardMethods
  BY DEF Working, InDialogue
<1> DEFINE Done(s) == Spoken(s) /\ s.pc \in DecidesOn
<1>2. ASSUME NEW s, Continues(r, s) \/ Stops(s), s.pc \in DecidesOn
      PROVE  Done(s)
  BY <1>1, <1>2, StaysSpoken
<1>3. Done(SecondExchange(r))
  BY <1>1, <1>2, SecondExchangeContinues DEF DecidesOn
<1>4. r.method \in Denying => Done(AsksPin(r))
  BY <1>1, <1>2, AsksPinContinues DEF DecidesOn
<1>5. Done(Replies(r, Error))
  BY <1>2, ErrorStops DEF DecidesOn
<1>6. ASSUME r.method \notin {"unlock", "unlockWithPuk"}
      PROVE  r.after = None /\ r.method \in MethodsOf[r.op.name]
  BY <1>1, <1>6, ServedMethod
<1>7. ASSUME r.op.name \notin {"STORE_CREDENTIALS", "VALIDATE_PWD", "UNLOCK", "RETRIEVE_CRED",
                               "RESET_PWD"},
             \A i \in DOMAIN r.resp : r.resp[i].kind \in KindOf(r.op.name)
      PROVE  Done(Replies(r, r.resp))
  BY <1>7, ReplySpoken DEF DecidesOn
<1>8. CASE r.method = "getPublicKey"
  <2>1. r.op.name = "GET_KEY" /\ r.resp = <<NoiseSegment>>
    BY <1>1, <1>6, <1>8, NameOf DEF Answer
  <2>2. Done(Replies(r, r.resp))
    BY <1>7, <2>1 DEF KindOf, NoiseSegment
  <2> QED
    BY <1>3, <1>8, <2>2 DEF Decides, PublicKeyDecides
<1>9. CASE r.method = "getRandomNumber"
  <2>1. r.op.name \in {"GET_RANDOM_NUMBER", "RESET_PWD"} /\ r.resp = <<NoiseSegment>>
    BY <1>1, <1>6, <1>9, NameOf DEF Answer
  <2>2. CASE r.op.name = "RESET_PWD"
    <3>1. "storePassword" \in CardMethods /\ "storePassword" \in MethodsOf[r.op.name]
      BY <2>2 DEF CardMethods, MethodsOf
    <3>2. Done(Calls(r, "storePassword"))
      BY <1>6, <1>9, <2>2, <3>1, CallsSpoken DEF DecidesOn
    <3> QED
      BY <1>9, <2>2, <3>2 DEF Decides, RandomNumberDecides
  <2>3. CASE r.op.name # "RESET_PWD"
    <3>1. Done(Replies(r, r.resp))
      BY <1>7, <2>1, <2>3 DEF KindOf, NoiseSegment
    <3> QED
      BY <1>9, <2>3, <3>1 DEF Decides, RandomNumberDecides
  <2> QED
    BY <2>2, <2>3
<1>10. CASE r.method \in {"decryptData", "signData"}
  <2>1. r.method \in Denying
    BY <1>10 DEF Denying
  <2>2. Decides(r, b) = DataDecides(r, b)
    BY <1>10 DEF Decides
  <2>3. CASE Denied(r, b)
    BY <1>4, <2>1, <2>2, <2>3 DEF DataDecides
  <2>4. CASE ~Denied(r, b)
    <3>1. r.op.name \in {"DECRYPT", "SIGN"}
      BY <1>1, <1>6, <1>10, NameOf
    <3>2. \A i \in DOMAIN r.resp : r.resp[i].kind \in KindOf(r.op.name)
      <4>1. CASE r.method = "decryptData"
        <5>1. r.resp # ByteAnswer(-1)
          BY <2>4, AnswerByte DEF Denied
        <5>2. r.resp = OneAnswer("plain", Noise) /\ r.op.name = "DECRYPT"
          BY <1>1, <1>6, <4>1, <5>1, NameOf DEF Answer
        <5> QED
          BY <5>2 DEF KindOf, OneAnswer
      <4>2. CASE r.method = "signData"
        <5>1. r.op.name = "SIGN"
          BY <1>1, <1>6, <4>2, NameOf
        <5>2. r.resp = <<NoiseSegment>> \/ \E v \in {0, 1} : r.resp = ByteAnswer(v)
          BY <4>2 DEF Answer
        <5> QED
          BY <5>1, <5>2 DEF KindOf, ByteAnswer, OneAnswer, NoiseSegment
      <4> QED
        BY <1>10, <4>1, <4>2
    <3>3. Done(Replies(r, r.resp))
      BY <1>7, <3>1, <3>2
    <3> QED
      BY <2>2, <2>4, <3>3 DEF DataDecides
  <2> QED
    BY <2>3, <2>4
<1>11. CASE r.method = "unlock"
  <2>1. PICK v \in Byte : r.resp = ByteAnswer(v) /\ (r.exch = 2 /\ v = 1 => Unlocked)
    BY <1>11 DEF Answer
  <2>2. b = v
    BY <2>1, AnswerByte
  <2>3. r.exch = 2 => Done(UnlockReturns(r, b))
    BY <1>1, <1>11, <2>1, <2>2, UnlockSpoken
  <2>4. Done(UnlockReturns(r, -1))
    BY <1>1, <1>11, UnlockSpoken
  <2> QED
    BY <1>3, <1>11, <2>3, <2>4 DEF Decides, UnlockDecides
<1>12. CASE r.method = "unlockWithPuk"
  <2>1. r.after \in Denying
    BY <1>12 DEF Working
  <2>2. Done(Resumes(r))
    BY <1>2, <2>1, ResumesContinues DEF DecidesOn
  <2>3. Done([At(r, "askPuk") EXCEPT !.tried = TRUE])
    <3> DEFINE q == At(r, "askPuk")
               s == [q EXCEPT !.tried = TRUE]
    <3>1. q \in Thread /\ q.pc = "askPuk"
      BY <1>1, AtFields, PointSets DEF InDialogue
    <3>2. Continues(r, q)
      BY <1>1, AtContinues, PointSets DEF InDialogue, AtRest
    <3> HIDE DEF q
    <3>3. s.pc = q.pc
      BY <3>1 DEF Thread
    <3>4. s.op = q.op
      BY <3>1 DEF Thread
    <3>5. s.method = q.method
      BY <3>1 DEF Thread
    <3>6. s.after = q.after
      BY <3>1 DEF Thread
    <3>7. s.waiting = q.waiting
      BY <3>1 DEF Thread
    <3> HIDE DEF s
    <3>8. Continues(r, s)
      BY <3>2, <3>3, <3>4, <3>5, <3>6, <3>7 DEF Continues, Served
    <3>9. Done(s)
      BY <1>2, <3>1, <3>3, <3>8 DEF DecidesOn
    <3> QED
      BY <3>9 DEF s, q
  <2> QED
    BY <1>3, <1>5, <1>12, <2>2, <2>3 DEF Decides, UnlockWithPukDecides
<1>13. CASE r.method = "storeLogin"
  <2>1. r.op.name = "STORE_CREDENTIALS"
    BY <1>1, <1>6, <1>13, NameOf
  <2>2. r.resp = ByteAnswer(-1) \/ (r.resp = ByteAnswer(1) /\ login = r.op.login)
    BY <1>13 DEF Answer
  <2>3. b \in {-1, 1} /\ (b = 1 => login = r.op.login) /\ (b = -1 => Denied(r, b))
    BY <2>2, AnswerByte DEF Denied
  <2>4. b = 1 => Done(Calls(r, "storePassword"))
    <3>1. "storePassword" \in CardMethods /\ "storePassword" \in MethodsOf[r.op.name]
      BY <2>1 DEF CardMethods, MethodsOf
    <3> QED
      BY <1>6, <1>13, <2>1, <2>3, <3>1, CallsSpoken DEF DecidesOn
  <2>5. Done(AsksPin(r))
    BY <1>4, <1>13 DEF Denying
  <2> QED
    BY <1>13, <2>3, <2>4, <2>5 DEF Decides, StoreLoginDecides, Denied
<1>14. CASE r.method = "storePassword"
  <2>1. r.op.name \in {"STORE_CREDENTIALS", "RESET_PWD"}
    BY <1>1, <1>6, <1>14, NameOf
  <2>2. r.resp = ByteAnswer(-1) \/ (r.resp = ByteAnswer(1) /\ tmpPwd = r.op.pwd)
    BY <1>14 DEF Answer
  <2>3. b \in {-1, 1} /\ (b = 1 => tmpPwd = r.op.pwd) /\ (b = -1 => Denied(r, b))
    BY <2>2, AnswerByte DEF Denied
  <2>4. Done(AsksPin(r))
    BY <1>4, <1>14 DEF Denying
  <2>5. ASSUME r.op.name = "STORE_CREDENTIALS", b = 1
        PROVE  Done(Replies(r, YesNo(b = 1)))
    <3>1. login = r.op.login
      BY <1>1, <1>6, <1>14, <2>5 DEF Progress, Served
    <3>2. \A i \in DOMAIN YesNo(b = 1) : YesNo(b = 1)[i].kind \in KindOf(r.op.name)
      BY <2>5, YesNoValue DEF KindOf
    <3> DEFINE v == YesNo(b = 1)
    <3>3. \A i \in DOMAIN v : v[i].kind \in KindOf(r.op.name)
      BY <3>2
    <3> HIDE DEF v
    <3>4. login = r.op.login /\ tmpPwd = r.op.pwd
      BY <2>3, <2>5, <3>1
    <3>5. Spoken(Replies(r, v)) /\ Replies(r, v).pc \in {"idle", "exit"}
      BY <2>5, <3>3, <3>4, ReplySpoken
    <3> QED
      BY <3>5 DEF DecidesOn, v
  <2>6. ASSUME r.op.name = "RESET_PWD", b = 1
        PROVE  Done(Calls(r, "retrieveCredentials"))
    <3>1. "retrieveCredentials" \in CardMethods
          /\ "retrieveCredentials" \in MethodsOf[r.op.name]
      BY <2>6 DEF CardMethods, MethodsOf
    <3>2. tmpPwd = Noise
      BY <1>1, <2>3, <2>6 DEF Progress
    <3> QED
      BY <1>6, <1>14, <2>6, <3>1, <3>2, CallsSpoken DEF DecidesOn
  <2> QED
    BY <1>14, <2>1, <2>3, <2>4, <2>5, <2>6 DEF Decides, StorePasswordDecides, Denied
<1>15. CASE r.method = "validatePassword"
  <2>1. r.op.name = "VALIDATE_PWD"
    BY <1>1, <1>6, <1>15, NameOf
  <2>2. PICK v \in {-1, 0, 1} :
          r.resp = ByteAnswer(v) /\ (v = 1 => pwd = r.waiting /\ tmpPwd = Empty)
    BY <1>15 DEF Answer
  <2>3. b = v /\ (b = 1) \in BOOLEAN
    BY <2>2, AnswerByte
  <2>4. r.waiting \in {Empty, pwd, tmpPwd}
    BY <1>1, <2>1 DEF Progress
  <2>5. YesNo(b = 1) = YesNo(TRUE) => pwd = r.waiting /\ tmpPwd = Empty
    BY <2>2, <2>3, YesNoValue
  <2>6. \A i \in DOMAIN YesNo(b = 1) : YesNo(b = 1)[i].kind \in KindOf(r.op.name)
    BY <2>1, <2>3, YesNoValue DEF KindOf
  <2> DEFINE w == YesNo(b = 1)
  <2>7. /\ \A i \in DOMAIN w : w[i].kind \in KindOf(r.op.name)
        /\ IF w = YesNo(TRUE) THEN pwd = r.waiting /\ tmpPwd = Empty
           ELSE r.waiting \in {Empty, pwd, tmpPwd}
    BY <2>4, <2>5, <2>6
  <2> HIDE DEF w
  <2>8. Spoken(Replies(r, w)) /\ Replies(r, w).pc \in {"idle", "exit"}
    BY <2>1, <2>7, ReplySpoken
  <2> QED
    BY <1>15, <2>8 DEF Decides, DecidesOn, w
<1>16. CASE r.method = "retrieveCredentials"
  <2>1. r.op.name \in {"RETRIEVE_CRED", "RESET_PWD"}
    BY <1>1, <1>6, <1>16, NameOf
  <2>2. Done(AsksPin(r))
    BY <1>4, <1>16 DEF Denying
  <2>3. CASE r.resp = ByteAnswer(-1)
    BY <1>16, <2>2, <2>3, AnswerByte DEF Decides, CredentialsDecides
  <2>4. CASE r.resp # ByteAnswer(-1)
    <3>1. r.resp = <<[kind |-> "credentials", val |-> <<login, pwd>>]>>
      BY <1>16, <2>4 DEF Answer
    <3>2. Decides(r, b) \in {AsksPin(r), Replies(r, r.resp)}
      BY <1>16 DEF Decides, CredentialsDecides
    <3>3. /\ \A i \in DOMAIN r.resp : r.resp[i].kind \in KindOf(r.op.name)
          /\ r.resp[1].val = <<login, pwd>>
      BY <2>1, <3>1 DEF KindOf
    <3>4. r.op.name = "RESET_PWD" => tmpPwd = Noise
      BY <1>1, <1>6, <1>16 DEF Progress, Served
    <3>5. Done(Replies(r, r.resp))
      BY <2>1, <3>1, <3>3, <3>4, ReplySpoken DEF DecidesOn
    <3> QED
      BY <2>2, <3>2, <3>5
  <2> QED
    BY <2>3, <2>4
<1>17. CASE r.method = "isUnlocked"
  <2>1. r.op.name = "IS_UNLOCKED" /\ (r.resp # <<>>) \in BOOLEAN
    BY <1>1, <1>6, <1>17, NameOf
  <2>2. \A i \in DOMAIN YesNo(r.resp # <<>>) : YesNo(r.resp # <<>>)[i].kind \in KindOf(r.op.name)
    BY <2>1, YesNoValue DEF KindOf
  <2>3. Done(Replies(r, YesNo(r.resp # <<>>)))
    BY <2>1, <2>2, ReplySpoken DEF DecidesOn
  <2> QED
    BY <1>17, <2>3 DEF Decides
<1>18. CASE r.method \in {"getPIN", "getPUK"}
  <2>1. \/ r.op.name = "PIN" /\ \E code \in Codes : r.resp = OneAnswer("pin", code)
        \/ r.op.name = "PUK" /\ \E code \in Codes : r.resp = OneAnswer("puk", code)
    BY <1>1, <1>6, <1>18, NameOf DEF Answer
  <2>2. \A i \in DOMAIN r.resp : r.resp[i].kind \in KindOf(r.op.name)
    <3>1. PICK kind, code : r.resp = OneAnswer(kind, code) /\ kind \in KindOf(r.op.name)
      BY <2>1 DEF KindOf
    <3> QED
      BY <3>1 DEF OneAnswer
  <2>3. Done(Replies(r, r.resp))
    BY <1>7, <2>1, <2>2
  <2> QED
    BY <1>18, <2>3 DEF Decides
<1> QED
  BY <1>1, <1>8, <1>9, <1>10, <1>11, <1>12, <1>13, <1>14, <1>15, <1>16, <1>17, <1>18
  DEF CardMethods


\* Without knowing the answer: where a method may go from its decision.
LEMMA DecidesPc ==
  ASSUME NEW r, Working(r), r.method # "disconnectCard", Route(r), r.pc \notin InDialogue, NEW b
  PROVE  Decides(r, b).pc \in DecidesOn
<1>1. r \in Thread /\ r.op \in Operation /\ r.method \in CardMethods
  BY DEF Working
<1>2. /\ SecondExchange(r).pc = "erase"
      /\ r.method \in Denying => AsksPin(r).pc = "askPin"
      /\ \A v : Replies(r, v).pc \in {"idle", "exit"}
      /\ \A m \in CardMethods : Calls(r, m).pc = "erase"
      /\ r.after \in Denying => Resumes(r).pc = "erase"
  BY <1>1, SecondExchangeContinues, AsksPinContinues, RepliesFields, CallsFields, ResumesContinues
<1>3. At(r, "askPin").pc = "askPin" /\ At(r, "askPuk").pc = "askPuk"
  BY <1>1, AtFields, PointSets DEF InDialogue
<1>4. [At(r, "askPuk") EXCEPT !.tried = TRUE].pc = "askPuk"
  <2> DEFINE q == At(r, "askPuk")
  <2>1. q \in Thread /\ q.pc = "askPuk"
    BY <1>1, AtFields, PointSets DEF InDialogue
  <2> HIDE DEF q
  <2>2. [q EXCEPT !.tried = TRUE].pc = q.pc
    BY <2>1 DEF Thread
  <2> QED
    BY <2>1, <2>2 DEF q
<1>5. r.after \in Denying \/ r.after = None
  BY <1>1 DEF Thread
<1>6. \A v : UnlockReturns(r, v).pc \in DecidesOn
  BY <1>2, <1>3, <1>5 DEF UnlockReturns, DecidesOn
<1>7. r.method = "unlockWithPuk" => r.after \in Denying
  BY DEF Working
<1>8. CASE r.method \in {"getPublicKey", "getRandomNumber", "decryptData", "signData"}
  BY <1>2, <1>8 DEF Decides, PublicKeyDecides, RandomNumberDecides, DataDecides, DecidesOn,
     Denying, CardMethods
<1>9. CASE r.method \in {"unlock", "unlockWithPuk"}
  BY <1>2, <1>4, <1>6, <1>7, <1>9 DEF Decides, UnlockDecides, UnlockWithPukDecides, DecidesOn
<1>10. CASE r.method \in {"storeLogin", "storePassword", "retrieveCredentials"}
  <2>1. CASE r.method = "storeLogin"
    BY <1>2, <2>1 DEF Decides, StoreLoginDecides, DecidesOn, Denying, CardMethods
  <2>2. CASE r.method = "storePassword"
    BY SMTT(40), <1>2, <2>2 DEF Decides, StorePasswordDecides, DecidesOn, Denying, CardMethods
  <2>3. CASE r.method = "retrieveCredentials"
    BY <1>2, <2>3 DEF Decides, CredentialsDecides, DecidesOn, Denying, CardMethods
  <2> QED
    BY <1>10, <2>1, <2>2, <2>3
<1>11. CASE r.method \in {"validatePassword", "isUnlocked", "getPIN", "getPUK"}
  BY <1>2, <1>11 DEF Decides, DecidesOn
<1> QED
  BY <1>1, <1>8, <1>9, <1>10, <1>11 DEF CardMethods


-----------------------------------------------------------------------------
(* What the card does with a request it has understood: no byte of noise   *)
(* stands for the applet or the instruction, and EXECUTE has one meaning.  *)

\* Noise compares with no byte.
LEMMA NoiseIsNoByte == \A n \in Byte : n # Noise
BY NoiseAssumption

\* Bytes that are not noise read as themselves.
LEMMA ReadsItself == \A n \in Byte : \A v : Reads(n, v) <=> n = v
BY NoiseIsNoByte DEF Reads

\* The applet is the one of the request.
LEMMA Dispatched ==
  ASSUME data.aid \in AID_PIN..AID_STORE
  PROVE  /\ Execute => \/ data.aid = AID_PIN /\ PinExecute
                       \/ data.aid = AID_RNG /\ RngExecute
                       \/ data.aid = AID_SIGN /\ SignExecute
                       \/ data.aid = AID_CYPHER /\ CypherExecute
                       \/ data.aid = AID_STORE /\ StoreExecute
                       \/ ExecuteUnknown
         /\ Tear => (data.aid = AID_STORE /\ (TearStore \/ TearValidatePwd)) \/ UNCHANGED storeVars
<1>1. \A v : Reads(data.aid, v) <=> data.aid = v
  BY ReadsItself DEF Byte, AID_PIN, AID_STORE
<1>2. PinExecute => data.aid = AID_PIN
  BY <1>1 DEF PinExecute, IsLocked, PinRemainingTries, PukRemainingTries, VerifPin,
     UnlockWithPuk, GetPin, GetPuk, Command
<1>3. RngExecute => data.aid = AID_RNG
  BY <1>1 DEF RngExecute, Command
<1>4. SignExecute => data.aid = AID_SIGN
  BY <1>1 DEF SignExecute, Command
<1>5. CypherExecute => data.aid = AID_CYPHER
  BY <1>1 DEF CypherExecute, Command
<1>6. StoreExecute => data.aid = AID_STORE
  BY <1>1 DEF StoreExecute, StoreLogin, StorePwd, ValidatePwd, GetCredentials, GetPwd,
     StoreLocked, StoreCommand, Command
<1>7. TearStore \/ TearValidatePwd => data.aid = AID_STORE
  BY <1>1 DEF TearStore, TearValidatePwd, StoreCommand, Command
<1>8. Tear => TearStore \/ TearValidatePwd \/ UNCHANGED storeVars
  BY DEF Tear, TearVerifPin, TearUnlockWithPuk, TearGetPin, TearGetPuk
<1> QED
  BY <1>2, <1>3, <1>4, <1>5, <1>6, <1>7, <1>8 DEF Execute

\* The applets other than StoreID leave the store alone.
LEMMA OtherApplets ==
  ASSUME data.aid \in AID_PIN..AID_CYPHER, Execute \/ Tear
  PROVE  UNCHANGED storeVars
<1>1. data.aid \in AID_PIN..AID_STORE /\ data.aid # AID_STORE
  BY DEF AID_PIN, AID_CYPHER, AID_STORE
<1>2. CASE Execute
  <2>1. PinExecute => UNCHANGED storeVars
    BY DEF PinExecute, IsLocked, PinRemainingTries, PukRemainingTries, VerifPin,
       UnlockWithPuk, GetPin, GetPuk
  <2> QED
    BY <1>1, <1>2, <2>1, Dispatched DEF RngExecute, SignExecute, CypherExecute, ExecuteUnknown
<1>3. CASE Tear
  BY <1>1, <1>3, Dispatched
<1> QED
  BY <1>2, <1>3

\* Cypher, Sign and gen_random.
LEMMA KeyApplets ==
  ASSUME Execute
  PROVE  /\ data.aid = AID_CYPHER /\ data.ins \in {INS_GET_EXPONENT, INS_GET_MODULUS} =>
              unread' = <<NoiseSegment>>
         /\ data.aid = AID_CYPHER /\ data.ins = INS_DECRYPT /\ sw' = "9000" =>
              unread' \in {ByteAnswer(-1), OneAnswer("plain", Noise)}
         /\ data.aid = AID_SIGN /\ data.ins = INS_TEST_AUTH /\ sw' = "9000" =>
              unread' = <<NoiseSegment>> \/ \E v \in {0, 1} : unread' = ByteAnswer(v)
         /\ data.aid = AID_RNG /\ data.ins = INS_GEN /\ sw' = "9000" => unread' = <<NoiseSegment>>
<1> USE DEF AID_PIN, AID_RNG, AID_SIGN, AID_CYPHER, AID_STORE, Byte
<1>1. \A n \in Byte : \A v : Reads(n, v) <=> n = v
  BY ReadsItself
<1>2. data.aid \in AID_RNG..AID_CYPHER => ~ExecuteUnknown
  BY <1>1 DEF ExecuteUnknown
<1>3. ASSUME data.aid = AID_CYPHER,
             data.ins \in {INS_GET_EXPONENT, INS_GET_MODULUS, INS_DECRYPT}
      PROVE  IF data.ins = INS_DECRYPT
               THEN RespondByte(-1) \/ Fail("0003")
                    \/ Respond([kind |-> "plain", val |-> <<Noise>>], NoiseHead)
               ELSE RespondNoise
  <2>1. CypherExecute
    BY <1>2, <1>3, Dispatched
  <2>2. data.ins \in Byte
    BY <1>3 DEF INS_GET_EXPONENT, INS_GET_MODULUS, INS_DECRYPT
  <2>3. \A v : Command(AID_CYPHER, v) => data.ins = v
    BY <1>1, <2>2 DEF Command
  <2> QED
    BY <1>3, <2>1, <2>3
    DEF CypherExecute, INS_GET_EXPONENT, INS_GET_MODULUS, INS_DECRYPT, INS_CIPHER
<1>4. ASSUME data.aid = AID_SIGN, data.ins = INS_TEST_AUTH
      PROVE  (\E v \in {0, 1} : RespondByte(v)) \/ Respond(NoiseSegment, data) \/ Fail("0002")
  <2>1. SignExecute
    BY <1>2, <1>4, Dispatched
  <2>2. data.ins \in Byte
    BY <1>4 DEF INS_TEST_AUTH
  <2>3. \A v : Command(AID_SIGN, v) => data.ins = v
    BY <1>1, <2>2 DEF Command
  <2> QED
    BY <1>4, <2>1, <2>3 DEF SignExecute, INS_TEST_AUTH, INS_ASK_AUTH
<1>5. ASSUME data.aid = AID_RNG, data.ins = INS_GEN, sw' = "9000"
      PROVE  RespondNoise
  <2>1. RngExecute
    BY <1>2, <1>5, Dispatched
  <2> QED
    BY <1>5, <2>1 DEF RngExecute
<1>6. CASE data.aid = AID_CYPHER
  BY <1>3, <1>6 DEF RespondNoise, RespondByte, Respond, Fail, ByteAnswer, OneAnswer,
     INS_GET_EXPONENT, INS_GET_MODULUS, INS_DECRYPT
<1>7. CASE data.aid = AID_SIGN
  BY <1>4, <1>7 DEF RespondByte, Respond, Fail, ByteAnswer, OneAnswer
<1>8. CASE data.aid = AID_RNG
  BY <1>5, <1>8 DEF RespondNoise, Respond
<1> QED
  BY <1>6, <1>7, <1>8


\* StoreID: its answer tells whether it was done.
LEMMA StoreApplet ==
  ASSUME Execute, data.aid = AID_STORE
  PROVE  /\ data.ins = INS_STORE_LOGIN =>
              /\ UNCHANGED <<pwd, tmpPwd>>
              /\ \/ unread' = ByteAnswer(-1)
                 \/ unread' = ByteAnswer(1) /\ login' = TextOf(data.arg)
         /\ data.ins = INS_STORE_PWD =>
              /\ UNCHANGED <<login, pwd>>
              /\ \/ unread' = ByteAnswer(-1)
                 \/ unread' = ByteAnswer(1) /\ tmpPwd' = TextOf(data.arg)
         /\ data.ins = INS_VALIDATE_PWD =>
              \/ /\ tmpPwd # Empty /\ pwd' = tmpPwd /\ tmpPwd' = Empty /\ login' = login
                 /\ unread' = ByteAnswer(1)
              \/ UNCHANGED storeVars /\ \E v \in {-1, 0} : unread' = ByteAnswer(v)
         /\ data.ins = INS_GET =>
              /\ UNCHANGED storeVars
              /\ \/ unread' = ByteAnswer(-1)
                 \/ unread' = <<[kind |-> "credentials", val |-> <<login, pwd>>]>>
<1> USE DEF AID_PIN, AID_RNG, AID_SIGN, AID_CYPHER, AID_STORE,
        INS_STORE_LOGIN, INS_STORE_PWD, INS_VALIDATE_PWD, INS_GET, INS_GET_PWD
<1>1. \A n \in Byte : \A v : Reads(n, v) <=> n = v
  BY ReadsItself
<1> SUFFICES ASSUME data.ins \in {INS_STORE_LOGIN, INS_STORE_PWD, INS_VALIDATE_PWD, INS_GET}
             PROVE  /\ data.ins = INS_STORE_LOGIN => StoreLogin \/ StoreLocked
                    /\ data.ins = INS_STORE_PWD => StorePwd \/ StoreLocked
                    /\ data.ins = INS_VALIDATE_PWD => ValidatePwd \/ StoreLocked
                    /\ data.ins = INS_GET => GetCredentials \/ StoreLocked
  BY DEF StoreLogin, StorePwd, ValidatePwd, GetCredentials, StoreLocked, RespondByte, Respond,
     ByteAnswer, OneAnswer, storeVars
<1>2. data.ins \in Byte
  BY DEF Byte
<1>3. ~ExecuteUnknown
  BY <1>1 DEF ExecuteUnknown, Byte, Fail, INS_VERIF_PIN, INS_IS_LOCKED
<1>4. StoreExecute
  BY <1>3, Dispatched
<1>5. \A v : StoreCommand(v) => data.ins = v
  BY <1>1, <1>2 DEF StoreCommand, Command
<1> QED
  BY <1>4, <1>5 DEF StoreExecute, StoreLogin, StorePwd, ValidatePwd, GetCredentials, GetPwd

\* A loss of power within StoreID leaves a text blank or as it was.
LEMMA StoreTear ==
  ASSUME Tear, data.aid = AID_STORE
  PROVE  /\ data.ins = INS_STORE_LOGIN => UNCHANGED <<pwd, tmpPwd>>
         /\ data.ins = INS_STORE_PWD => UNCHANGED <<login, pwd>>
         /\ data.ins = INS_VALIDATE_PWD =>
              UNCHANGED <<login, tmpPwd>> /\ (pwd' = pwd \/ tmpPwd # Empty)
         /\ data.ins = INS_GET => UNCHANGED storeVars
<1> USE DEF AID_PIN, AID_STORE,
        INS_STORE_LOGIN, INS_STORE_PWD, INS_VALIDATE_PWD, INS_GET, INS_GET_PWD
<1> SUFFICES ASSUME data.ins \in {INS_STORE_LOGIN, INS_STORE_PWD, INS_VALIDATE_PWD, INS_GET}
             PROVE  /\ data.ins = INS_STORE_LOGIN => UNCHANGED <<pwd, tmpPwd>>
                    /\ data.ins = INS_STORE_PWD => UNCHANGED <<login, pwd>>
                    /\ data.ins = INS_VALIDATE_PWD =>
                         UNCHANGED <<login, tmpPwd>> /\ (pwd' = pwd \/ tmpPwd # Empty)
                    /\ data.ins = INS_GET => UNCHANGED storeVars
  OBVIOUS
<1>1. data.ins \in Byte /\ (\A n \in Byte : \A v : Reads(n, v) <=> n = v)
  BY ReadsItself DEF Byte
<1>2. \A v : StoreCommand(v) => data.ins = v
  BY <1>1 DEF StoreCommand, Command
<1>3. TearStore \/ TearValidatePwd \/ UNCHANGED storeVars
  BY Dispatched
<1>4. CASE TearStore
  BY <1>2, <1>4 DEF TearStore
<1>5. CASE TearValidatePwd
  BY <1>2, <1>5 DEF TearValidatePwd
<1>6. CASE UNCHANGED storeVars
  BY <1>6 DEF storeVars
<1> QED
  BY <1>3, <1>4, <1>5, <1>6

\* PIN: a positive answer to a code leaves the PIN validated.
LEMMA PinApplet ==
  ASSUME TypeOK, Execute, data.aid = AID_PIN
  PROVE  /\ data.ins = INS_VERIF_PIN =>
              \E v \in {0, 1} : unread' = ByteAnswer(v) /\ (v = 1 => Unlocked')
         /\ data.ins = INS_PIN_REMAINING_TRIES => \E v \in Byte : unread' = ByteAnswer(v)
         /\ data.ins = INS_GET_PIN /\ sw' = "9000" =>
              \E code \in Codes : unread' = OneAnswer("pin", code)
         /\ data.ins = INS_GET_PUK /\ sw' = "9000" =>
              \E code \in Codes : unread' = OneAnswer("puk", code)
<1> USE DEF AID_PIN, AID_RNG, AID_SIGN, AID_CYPHER, AID_STORE,
        INS_VERIF_PIN, INS_PIN_REMAINING_TRIES, INS_PUK_REMAINING_TRIES,
        INS_UNLOCK_WITH_PUK, INS_GET_PIN, INS_GET_PUK, INS_IS_LOCKED
<1> SUFFICES ASSUME data.ins \in {INS_VERIF_PIN, INS_PIN_REMAINING_TRIES, INS_GET_PIN, INS_GET_PUK}
             PROVE  /\ data.ins = INS_VERIF_PIN =>
                         \E v \in {0, 1} : unread' = ByteAnswer(v) /\ (v = 1 => Unlocked')
                    /\ data.ins = INS_PIN_REMAINING_TRIES =>
                         \E v \in Byte : unread' = ByteAnswer(v)
                    /\ data.ins = INS_GET_PIN /\ sw' = "9000" =>
                         \E code \in Codes : unread' = OneAnswer("pin", code)
                    /\ data.ins = INS_GET_PUK /\ sw' = "9000" =>
                         \E code \in Codes : unread' = OneAnswer("puk", code)
  OBVIOUS
<1>1. data.ins \in Byte /\ (\A n \in Byte : \A v : Reads(n, v) <=> n = v)
  BY ReadsItself DEF Byte
<1>2. \A v : Command(AID_PIN, v) => data.ins = v
  BY <1>1 DEF Command
<1>3. ~ExecuteUnknown
  BY <1>1 DEF ExecuteUnknown, Byte
<1>4. PinExecute
  BY <1>3, Dispatched
<1>5. CASE data.ins = INS_VERIF_PIN
  <2>1. PICK code \in Arg : VerifPin(code)
    BY <1>2, <1>4, <1>5 DEF PinExecute, IsLocked, PinRemainingTries, PukRemainingTries,
       UnlockWithPuk, GetPin, GetPuk
  <2>2. unread' = ByteAnswer(IF Matches(pin, code) THEN 1 ELSE 0) /\ pin' = Check(pin, code)
    BY <2>1 DEF VerifPin, RespondByte, Respond, ByteAnswer, OneAnswer
  <2>3. Matches(pin, code) => Unlocked'
    <3>1. Matches(pin, code) => pin' = PinObject(pin.value, MaxTries, TRUE)
      BY <2>2 DEF Check
    <3>2. MaxTries # 0
      BY MaxTriesAssumption
    <3> QED
      BY <3>1, <3>2 DEF Unlocked, PinObject
  <2> QED
    BY <1>5, <2>2, <2>3
<1>6. CASE data.ins = INS_PIN_REMAINING_TRIES
  <2>1. PinRemainingTries
    BY <1>2, <1>4, <1>6 DEF PinExecute, IsLocked, VerifPin, PukRemainingTries,
       UnlockWithPuk, GetPin, GetPuk
  <2>2. pin.tries \in Byte
    BY SmallBytes DEF TypeOK, PinTypeOK, PinObjects
  <2> QED
    BY <1>6, <2>1, <2>2 DEF PinRemainingTries, RespondByte, Respond, ByteAnswer, OneAnswer
<1>7. CASE data.ins = INS_GET_PIN
  <2>1. PICK new \in Codes : GetPin(new)
    BY <1>2, <1>4, <1>7 DEF PinExecute, IsLocked, VerifPin, PinRemainingTries,
       PukRemainingTries, UnlockWithPuk, GetPuk
  <2> QED
    BY <1>7, <2>1 DEF GetPin, Refuse, RespondCode, Respond, OneAnswer
<1>8. CASE data.ins = INS_GET_PUK
  <2>1. PICK new \in Codes : GetPuk(new)
    BY <1>2, <1>4, <1>8 DEF PinExecute, IsLocked, VerifPin, PinRemainingTries,
       PukRemainingTries, UnlockWithPuk, GetPin
  <2> QED
    BY <1>8, <2>1 DEF GetPuk, Refuse, RespondCode, Respond, OneAnswer
<1> QED
  BY <1>5, <1>6, <1>7, <1>8


\* The command a method sends.
LEMMA CommandOf ==
  ASSUME NEW r, r.method \in CardMethods, data = RequestOf(r)
  PROVE  /\ r.method = "getPublicKey" =>
              data.aid = AID_CYPHER /\ data.ins \in {INS_GET_EXPONENT, INS_GET_MODULUS}
         /\ r.method = "getRandomNumber" => data.aid = AID_RNG /\ data.ins = INS_GEN
         /\ r.method = "decryptData" => data.aid = AID_CYPHER /\ data.ins = INS_DECRYPT
         /\ r.method = "signData" => data.aid = AID_SIGN /\ data.ins = INS_TEST_AUTH
         /\ r.method = "unlock" =>
              /\ data.aid = AID_PIN
              /\ data.ins = IF r.exch = 1 THEN INS_PIN_REMAINING_TRIES ELSE INS_VERIF_PIN
         /\ r.method = "storeLogin" =>
              data.aid = AID_STORE /\ data.ins = INS_STORE_LOGIN /\ data.arg = r.op.login
         /\ r.method = "storePassword" =>
              data.aid = AID_STORE /\ data.ins = INS_STORE_PWD /\ data.arg = r.op.pwd
         /\ r.method = "validatePassword" => data.aid = AID_STORE /\ data.ins = INS_VALIDATE_PWD
         /\ r.method = "retrieveCredentials" => data.aid = AID_STORE /\ data.ins = INS_GET
         /\ r.method = "getPIN" => data.aid = AID_PIN /\ data.ins = INS_GET_PIN
         /\ r.method = "getPUK" => data.aid = AID_PIN /\ data.ins = INS_GET_PUK
         /\ r.method \in {"unlockWithPuk", "isUnlocked"} => data.aid = AID_PIN
BY DEF RequestOf, HostRequest, CardMethods

\* A command that succeeds leaves the answer to the method that sent it.
LEMMA ExecuteAnswers ==
  ASSUME TypeOK, NEW r, Working(r), r.method # "disconnectCard", r.pc = "execute",
         Route(r), Progress(r), data = RequestOf(r), Execute, sw' = "9000" \/ IgnoresStatus(r)
  PROVE  Answer(r, unread)'
<1>1. /\ r \in Thread /\ r.pc \notin AtRest /\ r.pc \notin InDialogue
      /\ r.op \in Operation /\ r.method \in CardMethods
  BY DEF Working, InDialogue
<1>2. TextOf(r.op.login) = r.op.login /\ TextOf(r.op.pwd) = r.op.pwd
  BY <1>1 DEF TextOf, Operation
<1>3. r.method \notin {"unlock", "unlockWithPuk"} => sw' = "9000"
  BY DEF IgnoresStatus
<1>4. CASE r.method \in {"getPublicKey", "getRandomNumber", "decryptData", "signData"}
  BY <1>1, <1>3, <1>4, CommandOf, KeyApplets DEF Answer
<1>5. CASE r.method = "unlock"
  <2>1. CASE r.exch = 1
    <3>1. PICK v \in Byte : unread' = ByteAnswer(v)
      BY <1>1, <1>5, <2>1, CommandOf, PinApplet
    <3> QED
      BY <1>5, <2>1, <3>1 DEF Answer
  <2>2. CASE r.exch # 1
    <3>1. PICK v \in {0, 1} : unread' = ByteAnswer(v) /\ (v = 1 => Unlocked')
      BY <1>1, <1>5, <2>2, CommandOf, PinApplet
    <3>2. v \in Byte
      BY SmallBytes
    <3> QED
      BY <1>5, <2>2, <3>1, <3>2 DEF Answer
  <2> QED
    BY <2>1, <2>2
<1>6. CASE r.method \in {"storeLogin", "storePassword", "retrieveCredentials"}
  BY <1>1, <1>2, <1>6, CommandOf, StoreApplet DEF Answer, storeVars
<1>7. CASE r.method = "validatePassword"
  <2>1. r.op.name = "VALIDATE_PWD"
    BY <1>1, <1>7, ServedMethod, NameOf
  <2>2. tmpPwd = r.waiting \/ (tmpPwd = Empty /\ pwd = r.waiting)
    BY <1>1, <2>1 DEF Progress
  <2>3. data.aid = AID_STORE /\ data.ins = INS_VALIDATE_PWD
    BY <1>1, <1>7, CommandOf
  <2> QED
    BY <1>7, <2>2, <2>3, StoreApplet DEF Answer
<1>8. CASE r.method \in {"getPIN", "getPUK"}
  BY <1>1, <1>3, <1>8, CommandOf, PinApplet DEF Answer
<1>9. CASE r.method \in {"unlockWithPuk", "isUnlocked"}
  BY <1>9 DEF Answer
<1> QED
  BY <1>1, <1>4, <1>5, <1>6, <1>7, <1>8, <1>9 DEF CardMethods

\* No command, whole or torn, undoes what the methods before it have done.
LEMMA ProgressKept ==
  ASSUME NEW r, Working(r), r.method # "disconnectCard", r.pc = "execute",
         Route(r), Progress(r), data = RequestOf(r), Execute \/ Tear
  PROVE  Progress(r)'
<1>1. /\ r \in Thread /\ r.pc \notin AtRest /\ r.pc \notin InDialogue
      /\ r.op \in Operation /\ r.method \in CardMethods
  BY DEF Working, InDialogue
<1>2. ASSUME r.method \notin {"unlock", "unlockWithPuk"}
      PROVE  Served(r) = r.method /\ r.method \in MethodsOf[r.op.name]
  BY <1>1, <1>2, ServedMethod DEF Served
<1>3. ASSUME UNCHANGED storeVars
      PROVE  Progress(r)'
  BY <1>3 DEF Progress, storeVars
<1>4. CASE r.method = "storeLogin"
  BY <1>1, <1>2, <1>4, NameOf DEF Progress
<1>5. CASE r.method = "storePassword"
  <2>1. UNCHANGED login
    BY <1>1, <1>5, CommandOf, StoreApplet, StoreTear
  <2>2. r.op.name \in {"STORE_CREDENTIALS", "RESET_PWD"} /\ Served(r) = "storePassword"
    BY <1>1, <1>2, <1>5, NameOf
  <2> QED
    BY <1>1, <2>1, <2>2 DEF Progress
<1>6. CASE r.method = "validatePassword"
  <2>1. \/ tmpPwd # Empty /\ pwd' = tmpPwd /\ tmpPwd' = Empty
        \/ tmpPwd' = tmpPwd /\ (pwd' = pwd \/ tmpPwd # Empty)
    <3>1. data.aid = AID_STORE /\ data.ins = INS_VALIDATE_PWD
      BY <1>1, <1>6, CommandOf
    <3>2. CASE Execute
      BY <3>1, <3>2, StoreApplet DEF storeVars
    <3>3. CASE Tear
      BY <3>1, <3>3, StoreTear
    <3> QED
      BY <3>2, <3>3
  <2>2. r.op.name = "VALIDATE_PWD"
    BY <1>1, <1>2, <1>6, NameOf
  <2> QED
    BY <1>1, <2>1, <2>2 DEF Progress
<1>7. CASE r.method = "retrieveCredentials"
  BY <1>1, <1>3, <1>7, CommandOf, StoreApplet, StoreTear
<1>8. CASE r.method \notin {"storeLogin", "storePassword", "validatePassword", "retrieveCredentials"}
  <2>1. data.aid \in {AID_PIN, AID_RNG, AID_SIGN, AID_CYPHER}
    BY <1>1, <1>8, CommandOf DEF CardMethods
  <2>2. data.aid \in AID_PIN..AID_CYPHER
    BY <2>1 DEF AID_PIN, AID_RNG, AID_SIGN, AID_CYPHER
  <2> QED
    BY <1>3, <2>2, OtherApplets
<1> QED
  BY <1>4, <1>5, <1>6, <1>7, <1>8


-----------------------------------------------------------------------------
(* The tunnel of the instance.                                             *)

\* Away from the building and the taking down of an instance.
Calm == (instance => Linked) /\ (~instance => ~tunnel)

\* Between two states without a constructor at work the channel depends on the
\* point only.
LEMMA ChannelCalm ==
  ASSUME NEW s, Calm', s.pc \in AtRest \cup InDialogue \cup InMethod \cup {"getInstance"},
         s.pc \in InMethod \ {"erase"} => instance', s.pc = "erase" => s.resp = <<>>
  PROVE  Channel(s)'
BY DEF Calm, Channel, AtRest, InDialogue, InMethod

\* Outside a constructor and disconnect the tunnel goes with the instance.
LEMMA CalmChannel ==
  ASSUME NEW r, Channel(r), r.pc \notin {"disconnect", "unsetTunnel", "publishInstance"}
  PROVE  Calm
BY DEF Channel, Calm

\* It still does when no static field and no key changes.
LEMMA CalmKept == Calm /\ UNCHANGED <<staticVars, session_key>> => Calm'
BY DEF Calm, Linked, staticVars

\* Only a handshake and a reset change the card's session key.
LEMMA ExecuteKeepsKey == Execute \/ EraseData \/ GetData => UNCHANGED session_key
BY DEF Execute, PinExecute, IsLocked, PinRemainingTries, PukRemainingTries, VerifPin,
   UnlockWithPuk, GetPin, GetPuk, StoreExecute, StoreLogin, StorePwd, ValidatePwd,
   GetCredentials, GetPwd, StoreLocked, CypherExecute, SignExecute, RngExecute,
   ExecuteUnknown, EraseData, GetData, tunnelVars

\* The record a step leaves to its thread.
LEMMA BecomesIs == ASSUME ThreadsOK, NEW t \in Threads, NEW s, Becomes(t, s) PROVE th'[t] = s
BY DEF ThreadsOK, Becomes

\* A thread that has its instance is at its first command, with nothing
\* received.
LEMMA ObtainedPc ==
  ASSUME NEW r \in Thread
  PROVE  /\ Obtained(r).pc = IF r.method = "disconnectCard" THEN "disconnect" ELSE "erase"
         /\ Obtained(r).resp = <<>>
BY AtFields, PointSets DEF Obtained, InMethod

\* Where an exchange with the card, or the user, takes a thread.
LEMMA TalkChannel ==
  ASSUME ThreadsOK, NEW t \in Threads, Route(th[t]), Channel(th[t]),
         EraseSent(t) \/ RequestSent(t) \/ ExecuteSent(t) \/ GetDataSent(t)
  PROVE  Channel(th[t])' /\ instance /\ Linked
<1>1. PICK r : r = th[t]
  OBVIOUS
<1>2. th[t].pc \in InMethod \ {"decide"}
  BY DEF EraseSent, RequestSent, ExecuteSent, GetDataSent, InMethod
<1>3. r \in Thread /\ Working(r) /\ Route(r) /\ Channel(r) /\ r.method # "disconnectCard"
  BY <1>1, <1>2, AtWork DEF ThreadsOK, Working, InMethod, AtRest
<1>4. instance
  <2>1. Usable(t)
    BY DEF EraseSent, RequestSent, ExecuteSent, GetDataSent
  <2>2. CASE r.pc = "erase"
    BY <1>1, <1>3, <2>1, <2>2 DEF Channel, Usable, NeedsTunnel
  <2>3. CASE r.pc # "erase"
    BY <1>1, <1>2, <1>3, <2>3 DEF Channel
  <2> QED
    BY <2>2, <2>3
<1>5. Calm /\ Linked
  BY <1>1, <1>2, <1>3, <1>4, CalmChannel DEF Calm, InMethod
<1>6. UNCHANGED <<staticVars, session_key>>
  BY ExecuteKeepsKey DEF EraseSent, RequestSent, ExecuteSent, GetDataSent, PutData
<1>7. Calm' /\ instance'
  BY <1>4, <1>5, <1>6, CalmKept DEF staticVars
<1>8. th'[t].pc \in (InMethod \ {"erase"}) \cup InDialogue \cup AtRest \cup {"getInstance"}
  <2>1. Throws(r).pc \in {"getInstance", "askPuk", "idle", "exit", "unclosed"}
    BY <1>3, ThrowsLands
  <2>2. ASSUME NEW pc \in {"request", "execute", "getResponse"}
        PROVE  At(r, pc).pc = pc
    <3>1. pc \in Points
      BY PointSets DEF InMethod
    <3> QED
      BY <1>3, <3>1, AtFields
  <2>3. CASE EraseSent(t)
    <3>1. th'[t] = At(r, "request")
      BY <1>1, <2>3, BecomesIs DEF EraseSent
    <3> QED
      BY <2>2, <3>1 DEF InMethod
  <2>4. CASE RequestSent(t)
    <3>1. th'[t] = At(r, "execute")
      BY <1>1, <2>4, BecomesIs DEF RequestSent
    <3> QED
      BY <2>2, <3>1 DEF InMethod
  <2>5. CASE ExecuteSent(t)
    BY <1>1, <2>1, <2>2, <2>5, BecomesIs DEF ExecuteSent, InMethod, InDialogue, AtRest
  <2>6. CASE GetDataSent(t)
    <3>1. CASE Becomes(t, Throws(th[t]))
      BY <1>1, <2>1, <3>1, BecomesIs DEF InDialogue, AtRest
    <3>2. CASE Becomes(t, [th[t] EXCEPT !.pc = "decide"])
      <4>1. th'[t] = [r EXCEPT !.pc = "decide"]
        BY <1>1, <3>2, BecomesIs
      <4>2. [r EXCEPT !.pc = "decide"].pc = "decide"
        BY <1>3 DEF Thread
      <4> QED
        BY <4>1, <4>2 DEF InMethod
    <3>3. ASSUME NEW received,
                 Becomes(t, [th[t] EXCEPT
                   !.resp = @ \o received,
                   !.pc = IF received = <<>> \/ th[t].method = "signData"
                            THEN "decide" ELSE "getResponse"])
          PROVE  th'[t].pc \in {"decide", "getResponse"}
      <4> DEFINE pc == IF received = <<>> \/ r.method = "signData" THEN "decide" ELSE "getResponse"
                 resp == r.resp \o received
                 s == [r EXCEPT !.resp = resp, !.pc = pc]
      <4>1. Becomes(t, s)
        BY <1>1, <3>3
      <4>2. pc \in {"decide", "getResponse"}
        OBVIOUS
      <4> HIDE DEF pc, resp
      <4>3. s.pc = pc
        BY <1>3 DEF Thread
      <4> HIDE DEF s
      <4> QED
        BY <4>1, <4>2, <4>3, BecomesIs
    <3> QED
      BY <2>6, <3>1, <3>2, <3>3 DEF GetDataSent, InMethod
  <2> QED
    BY <2>3, <2>4, <2>5, <2>6
<1>9. PICK s : s = th'[t]
  OBVIOUS
<1>10. Channel(s)'
  BY <1>7, <1>8, <1>9, ChannelCalm DEF InMethod, InDialogue, AtRest
<1> QED
  BY <1>4, <1>5, <1>9, <1>10


\* The other steps that leave the tunnel and the session key as they are.
LEMMA CalmChannelStep ==
  ASSUME ThreadsOK, NEW t \in Threads, Route(th[t]), Channel(th[t]),
         Connect(t) \/ Receive(t) \/ Decide(t) \/ AskPin(t) \/ AskPuk(t) \/ CommandThrows(t)
  PROVE  Channel(th[t])'
<1>1. PICK r : r = th[t]
  OBVIOUS
<1>2. r \in Thread /\ Route(r) /\ Channel(r) /\ UNCHANGED <<staticVars, session_key>>
  BY <1>1 DEF ThreadsOK, Connect, Receive, ReceiveRequest, DropMessage, Decide, AskPin, AskPuk, CommandThrows, vars, tunnelVars
<1>3. r.pc \notin {"disconnect", "unsetTunnel", "publishInstance"}
  BY <1>1 DEF Connect, Receive, ReceiveRequest, DropMessage, Decide, AskPin, AskPuk, CommandThrows
<1>4. Calm /\ Calm'
  BY <1>2, <1>3, CalmChannel, CalmKept
<1>5. th'[t].pc \in AtRest \cup InDialogue \cup {"getInstance"}
      \/ (th'[t].pc = "erase" /\ th'[t].resp = <<>>)
  <2>1. CASE Connect(t) \/ DropMessage(t)
    BY <2>1, BecomesIs DEF Connect, DropMessage, Idle, AtRest
  <2>2. CASE ReceiveRequest(t)
    <3>1. PICK op \in Operations :
            Becomes(t, [Idle EXCEPT !.pc = "getInstance", !.op = op, !.code = op.code,
                                    !.method = FirstMethod[op.name],
                                    !.exch = IF op.name = "CLOSE" THEN 2 ELSE 1,
                                    !.waiting = tmpPwd])
      BY <2>2 DEF ReceiveRequest
    <3> DEFINE s == [Idle EXCEPT !.pc = "getInstance", !.op = op, !.code = op.code,
                                 !.method = FirstMethod[op.name],
                                 !.exch = IF op.name = "CLOSE" THEN 2 ELSE 1,
                                 !.waiting = tmpPwd]
    <3>2. s.pc = "getInstance"
      BY DEF Idle
    <3>3. Becomes(t, s)
      BY <3>1
    <3> HIDE DEF s
    <3> QED
      BY <3>2, <3>3, BecomesIs
  <2>3. CASE Decide(t)
    <3>1. Working(r) /\ r.method # "disconnectCard" /\ r.pc \notin InDialogue
      BY <1>1, <2>3, AtWork DEF Decide, Working, InMethod, InDialogue, AtRest
    <3>2. /\ Throws(r).pc \in {"getInstance", "askPuk", "idle", "exit", "unclosed"}
          /\ \A b : Decides(r, b).pc \in DecidesOn /\ Decides(r, b).resp = <<>>
      BY <1>2, <3>1, ThrowsLands, DecidesGood, DecidesPc DEF Fresh
    <3> QED
      BY <1>1, <2>3, <3>2, BecomesIs DEF Decide, DecidesOn, InDialogue, AtRest
  <2>4. CASE AskPin(t) \/ AskPuk(t)
    <3>1. Working(r)
      BY <1>1, <2>4, AtWork DEF AskPin, AskPuk, AtRest
    <3>2. Replies(r, Error).pc \in {"idle", "exit"}
      BY <3>1, ErrorStops
    <3>3. ASSUME NEW code, NEW method \in {"unlock", "unlockWithPuk"}
          PROVE  /\ [Calls(r, method) EXCEPT !.code = code].pc = "erase"
                 /\ [Calls(r, method) EXCEPT !.code = code].resp = <<>>
      <4> DEFINE q == Calls(r, method)
      <4>1. q \in Thread /\ q.pc = "erase" /\ q.resp = <<>>
        BY <1>2, CallsFields DEF CardMethods
      <4> HIDE DEF q
      <4> DEFINE s == [q EXCEPT !.code = code]
      <4>2. s.pc = q.pc
        BY <4>1 DEF Thread
      <4>3. s.resp = q.resp
        BY <4>1 DEF Thread
      <4> QED
        BY <4>1, <4>2, <4>3 DEF q
    <3> QED
      BY <1>1, <2>4, <3>2, <3>3, BecomesIs DEF AskPin, AskPuk, AtRest
  <2>5. CASE CommandThrows(t)
    <3>1. Working(r)
      BY <1>1, <2>5, AtWork DEF CommandThrows, AtRest
    <3> DEFINE s == [r EXCEPT !.newKey = NoKey]
    <3>2. Working(s) /\ Route(s)
      BY <1>2, <3>1, KeyFields DEF Working, Route, Served
    <3>3. Throws(s).pc \in {"getInstance", "askPuk", "idle", "exit", "unclosed"}
      <4> HIDE DEF s
      <4> QED
        BY <3>2, ThrowsLands
    <3> QED
      BY <1>1, <2>5, <3>3, BecomesIs DEF CommandThrows, InDialogue, AtRest
  <2> QED
    BY <2>1, <2>2, <2>3, <2>4, <2>5 DEF Receive
<1>6. PICK s : s = th'[t]
  OBVIOUS
<1>7. Channel(s)'
  BY <1>4, <1>5, <1>6, ChannelCalm DEF InMethod, InDialogue, AtRest
<1> QED
  BY <1>6, <1>7


\* Building, publishing and taking down the instance.
LEMMA InstanceChannelStep ==
  ASSUME ThreadsOK, NEW t \in Threads, Route(th[t]), Channel(th[t]), Coherent(th[t]),
         \/ GetInstance(t) \/ SetTunnelSent(t) \/ CheckTunnelSent(t) \/ PublishTunnel(t)
         \/ PublishInstance(t) \/ Disconnect(t) \/ UnsetTunnel(t) \/ Exit(t)
         \/ CardFault(t) \/ ConstructorFault(t)
  PROVE  Channel(th[t])'
<1>1. PICK r : r = th[t]
  OBVIOUS
<1>2. PICK s : s = th'[t]
  OBVIOUS
<1>3. r \in Thread /\ Route(r) /\ Channel(r)
  BY <1>1 DEF ThreadsOK
<1>4. SUFFICES Channel(s)'
  BY <1>2
<1>5. ASSUME NEW pc \in Points
      PROVE  At(r, pc).pc = pc /\ At(r, pc).resp = <<>>
  BY <1>3, AtFields
<1>6. CASE GetInstance(t)
  <2>1. Calm /\ UNCHANGED <<vars, instance, tunnel, host_key>>
    BY <1>1, <1>3, <1>6, CalmChannel DEF GetInstance
  <2>2. CASE instance
    <3>1. Calm' /\ s = Obtained(r)
      BY <1>1, <1>2, <1>6, <2>1, <2>2, BecomesIs
      DEF GetInstance, Calm, Linked, vars, tunnelVars
    <3> QED
      BY <1>3, <2>1, <2>2, <3>1, ObtainedPc DEF Channel, Calm, InMethod
  <2>3. CASE ~instance
    <3>1. s.pc = "setTunnel" /\ open'
      BY <1>1, <1>2, <1>5, <1>6, <2>3, BecomesIs, PointSets DEF GetInstance, InConstructor
    <3> QED
      BY <2>1, <2>3, <3>1 DEF Channel, Calm, InMethod
  <2> QED
    BY <2>2, <2>3
<1>7. CASE SetTunnelSent(t)
  <2>1. PICK key \in FreshKeys :
          SetTunnel(key) /\ Becomes(t, [th[t] EXCEPT !.pc = "checkTunnel", !.newKey = key])
    BY <1>7 DEF SetTunnelSent
  <2> DEFINE q == [r EXCEPT !.pc = "checkTunnel", !.newKey = key]
  <2>2. q.pc = "checkTunnel"
    BY <1>3 DEF Thread
  <2>3. q.newKey = key
    BY <1>3 DEF Thread
  <2>4. s = q
    BY <1>1, <1>2, <2>1, BecomesIs
  <2> HIDE DEF q
  <2>5. ~instance /\ ~tunnel /\ open /\ UNCHANGED staticVars
    BY <1>1, <1>3, <1>7 DEF SetTunnelSent, Channel
  <2> QED
    BY <2>1, <2>2, <2>3, <2>4, <2>5 DEF Channel, SetTunnel, staticVars, InMethod
<1>8. CASE CheckTunnelSent(t)
  <2> DEFINE q == [r EXCEPT !.pc = "publishTunnel", !.newKey = NoKey]
  <2>1. q.pc = "publishTunnel"
    BY <1>3 DEF Thread
  <2>2. s = q
    BY <1>1, <1>2, <1>8, BecomesIs DEF CheckTunnelSent
  <2> HIDE DEF q
  <2>3. /\ ~instance /\ ~tunnel /\ open /\ UNCHANGED <<instance, tunnel, open>>
        /\ session_key = r.newKey /\ challenge /\ r.newKey # NoKey
    BY <1>1, <1>3, <1>8 DEF CheckTunnelSent, Channel, Coherent
  <2>4. sw' = "9000" /\ session_key' = session_key
    BY <1>1, <1>8, <2>3 DEF CheckTunnelSent, CheckTunnel, tunnelVars
  <2>5. host_key' = r.newKey
    BY <1>1, <1>8, <2>4 DEF CheckTunnelSent
  <2> QED
    BY <2>1, <2>2, <2>3, <2>4, <2>5 DEF Channel, InMethod
<1>9. CASE PublishTunnel(t)
  <2>1. s.pc = "publishInstance"
    BY <1>1, <1>2, <1>5, <1>9, BecomesIs, PointSets DEF PublishTunnel, InConstructor
  <2>2. /\ ~instance /\ open /\ host_key = session_key /\ host_key # NoKey /\ tunnel'
        /\ UNCHANGED <<vars, instance, open, host_key>>
    BY <1>1, <1>3, <1>9 DEF PublishTunnel, Channel
  <2> QED
    BY <2>1, <2>2 DEF Channel, InMethod, vars, tunnelVars
<1>10. CASE PublishInstance(t)
  <2>1. s = Obtained(r)
    BY <1>1, <1>2, <1>10, BecomesIs DEF PublishInstance
  <2>2. Calm' /\ instance'
    BY <1>1, <1>3, <1>10 DEF PublishInstance, Channel, Calm, Linked, vars, tunnelVars
  <2> QED
    BY <1>3, <2>1, <2>2, ObtainedPc DEF Channel, Calm, InMethod
<1>11. CASE Disconnect(t)
  <2>1. s.pc = "unsetTunnel" /\ ~instance'
    BY <1>1, <1>2, <1>5, <1>11, BecomesIs, PointSets DEF Disconnect
  <2> QED
    BY <2>1 DEF Channel, InMethod
<1>12. CASE UnsetTunnel(t)
  <2>1. ~instance' /\ ~tunnel'
    BY <1>1, <1>3, <1>12 DEF UnsetTunnel, Channel
  <2>2. \A e : [At(r, "getInstance") EXCEPT !.exch = e].pc = "getInstance"
    <3> DEFINE q == At(r, "getInstance")
    <3>1. q \in Thread /\ q.pc = "getInstance"
      BY <1>3, AtFields, PointSets DEF InConstructor
    <3> HIDE DEF q
    <3>2. \A e : [q EXCEPT !.exch = e].pc = q.pc
      BY <3>1 DEF Thread
    <3> QED
      BY <3>1, <3>2 DEF q
  <2>3. [Idle EXCEPT !.pc = "closed"].pc = "closed"
    BY DEF Idle
  <2>4. s.pc \in {"getInstance", "closed"}
    <3>1. s = IF r.method # "disconnectCard"
                THEN [At(r, "getInstance") EXCEPT !.exch = 1]
              ELSE IF r.exch = 1
                THEN [At(r, "getInstance") EXCEPT !.exch = 2]
              ELSE [Idle EXCEPT !.pc = "closed"]
      BY <1>1, <1>2, <1>12, BecomesIs, Zenon DEF UnsetTunnel
    <3>2. \/ s = [At(r, "getInstance") EXCEPT !.exch = 1]
          \/ s = [At(r, "getInstance") EXCEPT !.exch = 2]
          \/ s = [Idle EXCEPT !.pc = "closed"]
      BY <3>1, Zenon
    <3> QED
      BY <2>2, <2>3, <3>2, Zenon
  <2> QED
    BY <2>1, <2>4 DEF Channel, InMethod
<1>13. CASE Exit(t)
  <2>1. s = [r EXCEPT !.pc = "idle"] /\ ~instance' /\ ~tunnel'
    BY <1>1, <1>2, <1>13, BecomesIs DEF Exit
  <2>2. s.pc = "idle"
    BY <1>3, <2>1 DEF Thread
  <2> QED
    BY <2>1, <2>2 DEF Channel, InMethod
<1>14. CASE CardFault(t)
  <2>1. s.pc = "disconnect"
    BY <1>1, <1>2, <1>5, <1>14, BecomesIs, PointSets DEF CardFault
  <2> QED
    BY <2>1 DEF Channel, InMethod
<1>15. CASE ConstructorFault(t)
  <2> DEFINE q == [r EXCEPT !.newKey = NoKey]
  <2>1. Working(r) /\ ~instance /\ ~tunnel /\ UNCHANGED staticVars
    BY <1>1, <1>3, <1>15, AtWork DEF ConstructorFault, Channel, AtRest
  <2>2. Working(q) /\ Route(q)
    BY <1>3, <2>1, KeyFields DEF Working, Route, Served
  <2>3. s = Throws(q)
    BY <1>1, <1>2, <1>15, BecomesIs DEF ConstructorFault
  <2> HIDE DEF q
  <2>4. s.pc \in {"getInstance", "askPuk", "idle", "exit", "unclosed"}
    BY <2>2, <2>3, ThrowsLands
  <2> QED
    BY <2>1, <2>4 DEF Channel, InMethod, staticVars
<1> QED
  BY <1>6, <1>7, <1>8, <1>9, <1>10, <1>11, <1>12, <1>13, <1>14, <1>15


-----------------------------------------------------------------------------
(* The conversation with the card.                                         *)

Talks(r) == Spoken(r) /\ Exchange(r)

\* Outside the four commands nothing is expected of the datastore.
LEMMA LandsTalks ==
  ASSUME NEW r, NEW s, Lands(r, s), r.pc \notin AtRest, Route(r), Progress(r)'
  PROVE  Talks(s)'
<1>1. Spoken(s)'
  BY MovesSpoken DEF Lands
<1>2. Exchange(s)'
  BY DEF Lands, Outside, Exchange
<1> QED
  BY <1>1, <1>2 DEF Talks

\* What is done so far is on the card, while the store is unchanged.
LEMMA ProgressSame == \A r : Progress(r) /\ UNCHANGED storeVars => Progress(r)'
BY DEF Progress, storeVars

\* A new point outside the four commands.
LEMMA AtLands ==
  ASSUME NEW r, Working(r), Route(r), r.pc \notin InDialogue, NEW pc \in Outside \ AtRest
  PROVE  Lands(r, At(r, pc))
BY AtContinues DEF Lands, Outside

\* An exception, also in a constructor.
LEMMA ThrowsWithoutKey ==
  ASSUME NEW r, Working(r), Route(r)
  PROVE  Lands(r, Throws(r)) /\ Lands(r, Throws([r EXCEPT !.newKey = NoKey]))
<1> DEFINE q == [r EXCEPT !.newKey = NoKey]
<1>1. r \in Thread
  BY DEF Working
<1>2. q \in Thread /\ q.pc = r.pc /\ q.op = r.op /\ q.method = r.method /\ q.after = r.after
  BY <1>1, KeyFields
<1>3. q.waiting = r.waiting
  BY <1>1 DEF Thread
<1> HIDE DEF q
<1>4. Working(q) /\ Route(q)
  BY <1>2 DEF Working, Route, Served
<1>5. {"getInstance", "askPuk", "idle", "exit", "unclosed"} \subseteq Outside
  BY PointSets DEF Outside, InConstructor, InDialogue, AtRest
<1>6. Lands(r, Throws(r))
  BY <1>5, ThrowsLands DEF Lands
<1>7. Lands(r, Throws(q))
  BY <1>2, <1>3, <1>4, <1>5, ThrowsLands DEF Lands, Continues, Served
<1> QED
  BY <1>6, <1>7 DEF q

\* Building and taking down the instance, the dialogue, exceptions.
LEMMA LandingSteps ==
  ASSUME ThreadsOK, NEW t \in Threads, Route(th[t]),
         \/ GetInstance(t) \/ SetTunnelSent(t) \/ CheckTunnelSent(t) \/ PublishTunnel(t)
         \/ PublishInstance(t) \/ Disconnect(t) \/ UnsetTunnel(t) \/ CommandThrows(t)
         \/ AskPin(t) \/ AskPuk(t) \/ ConstructorFault(t) \/ CardFault(t)
  PROVE  Lands(th[t], th'[t]) /\ th[t].pc \notin AtRest /\ Working(th[t])
<1>1. PICK r : r = th[t]
  OBVIOUS
<1>2. PICK s : s = th'[t]
  OBVIOUS
<1>3. r.pc \notin AtRest
  BY <1>1 DEF GetInstance, SetTunnelSent, CheckTunnelSent, PublishTunnel, PublishInstance,
     Disconnect, UnsetTunnel, CommandThrows, AskPin, AskPuk, ConstructorFault, CardFault, AtRest
<1>4. r \in Thread /\ Route(r) /\ Working(r)
  BY <1>1, <1>3, AtWork DEF ThreadsOK
<1>5. SUFFICES Lands(r, s)
  BY <1>1, <1>2, <1>3, <1>4
<1>6. {"getInstance", "setTunnel", "checkTunnel", "publishTunnel", "publishInstance",
       "disconnect", "unsetTunnel", "erase"} \subseteq Outside \ AtRest
  BY PointSets DEF Outside, InConstructor, InMethod, AtRest
<1>7. CASE GetInstance(t) \/ PublishInstance(t)
  <2>1. s = Obtained(r) \/ s = At(r, "setTunnel")
    BY <1>1, <1>2, <1>7, BecomesIs DEF GetInstance, PublishInstance
  <2>2. r.pc \notin InDialogue
    BY <1>1, <1>7 DEF GetInstance, PublishInstance, InDialogue
  <2> QED
    BY <1>4, <1>6, <2>1, <2>2, AtLands DEF Obtained
<1>8. CASE PublishTunnel(t) \/ Disconnect(t) \/ CardFault(t)
  <2>1. \E pc \in {"publishInstance", "unsetTunnel", "disconnect"} : s = At(r, pc)
    BY <1>1, <1>2, <1>8, BecomesIs DEF PublishTunnel, Disconnect, CardFault
  <2>2. r.pc \notin InDialogue
    BY <1>1, <1>8 DEF PublishTunnel, Disconnect, CardFault, InDialogue
  <2> QED
    BY <1>4, <1>6, <2>1, <2>2, AtLands
<1>9. CASE SetTunnelSent(t) \/ CheckTunnelSent(t)
  <2>1. PICK pc \in {"checkTunnel", "publishTunnel"}, key \in Keys \cup {NoKey} :
          s = [r EXCEPT !.pc = pc, !.newKey = key]
    BY <1>1, <1>2, <1>9, BecomesIs DEF SetTunnelSent, CheckTunnelSent, FreshKeys
  <2> DEFINE q == [r EXCEPT !.pc = pc, !.newKey = key]
  <2>2. q.pc = pc
    BY <1>4 DEF Thread
  <2>3. q.op = r.op
    BY <1>4 DEF Thread
  <2>4. q.waiting = r.waiting
    BY <1>4 DEF Thread
  <2>5. q.after = r.after
    BY <1>4 DEF Thread
  <2>6. q.method = r.method
    BY <1>4 DEF Thread
  <2>7. s = q
    BY <2>1
  <2> HIDE DEF q
  <2>8. r.pc \notin InDialogue
    BY <1>1, <1>9 DEF SetTunnelSent, CheckTunnelSent, InDialogue
  <2> QED
    BY <1>3, <1>4, <1>6, <2>2, <2>3, <2>4, <2>5, <2>6, <2>7, <2>8
    DEF Lands, Continues, Served, Route
<1>10. CASE UnsetTunnel(t)
  <2>1. s = IF r.method # "disconnectCard"
              THEN [At(r, "getInstance") EXCEPT !.exch = 1]
            ELSE IF r.exch = 1
              THEN [At(r, "getInstance") EXCEPT !.exch = 2]
            ELSE [Idle EXCEPT !.pc = "closed"]
    BY <1>1, <1>2, <1>10, BecomesIs, Zenon DEF UnsetTunnel
  <2>2. (\E e \in {1, 2} : s = [At(r, "getInstance") EXCEPT !.exch = e])
        \/ s = [Idle EXCEPT !.pc = "closed"]
    BY <2>1, Zenon
  <2>3. ASSUME NEW e \in {1, 2}
        PROVE  Lands(r, [At(r, "getInstance") EXCEPT !.exch = e])
    <3> DEFINE q == At(r, "getInstance")
               p == [q EXCEPT !.exch = e]
    <3>1. r.pc \notin InDialogue
      BY <1>1, <1>10 DEF UnsetTunnel, InDialogue
    <3>2. q \in Thread /\ Lands(r, q) /\ q.pc = "getInstance"
      BY <1>4, <1>6, <3>1, AtLands, AtFields DEF Outside
    <3> HIDE DEF q
    <3>3. p.pc = q.pc
      BY <3>2 DEF Thread
    <3>4. p.op = q.op
      BY <3>2 DEF Thread
    <3>5. p.waiting = q.waiting
      BY <3>2 DEF Thread
    <3>6. p.after = q.after
      BY <3>2 DEF Thread
    <3>7. p.method = q.method
      BY <3>2 DEF Thread
    <3> HIDE DEF p
    <3>8. Lands(r, p)
      BY <3>2, <3>3, <3>4, <3>5, <3>6, <3>7 DEF Lands, Continues, Served, Stops, AtRest
    <3> QED
      BY <3>8 DEF p, q
  <2>4. Lands(r, [Idle EXCEPT !.pc = "closed"])
    <3> DEFINE p == [Idle EXCEPT !.pc = "closed"]
    <3>1. p.pc = "closed"
      BY DEF Idle
    <3> HIDE DEF p
    <3>2. Lands(r, p)
      BY <3>1, PointSets DEF Lands, Stops, Outside, AtRest
    <3> QED
      BY <3>2 DEF p
  <2> QED
    BY <2>2, <2>3, <2>4
<1>11. CASE CommandThrows(t) \/ ConstructorFault(t)
  <2>1. s = Throws([r EXCEPT !.newKey = NoKey])
    BY <1>1, <1>2, <1>11, BecomesIs DEF CommandThrows, ConstructorFault
  <2> QED
    BY <1>4, <2>1, ThrowsWithoutKey
<1>12. CASE AskPin(t) \/ AskPuk(t)
  <2>1. \/ s = Replies(r, Error)
        \/ \E m \in {"unlock", "unlockWithPuk"}, code \in UserCodes :
             s = [Calls(r, m) EXCEPT !.code = code]
    BY <1>1, <1>2, <1>12, BecomesIs DEF AskPin, AskPuk
  <2>2. r.after \in Denying
    BY <1>1, <1>4, <1>12 DEF AskPin, AskPuk, Working, InDialogue
  <2>3. ASSUME NEW m \in {"unlock", "unlockWithPuk"}, NEW code \in UserCodes
        PROVE  Lands(r, [Calls(r, m) EXCEPT !.code = code])
    <3> DEFINE q == Calls(r, m)
               p == [q EXCEPT !.code = code]
    <3>1. m \in CardMethods
      BY DEF CardMethods
    <3>2. /\ q \in Thread /\ q.pc = "erase" /\ q.op = r.op /\ q.method = m
          /\ q.after = r.after /\ q.waiting = r.waiting
      BY <1>4, <3>1, CallsFields, CallsKeeps
    <3> HIDE DEF q
    <3>3. p.pc = q.pc
      BY <3>2 DEF Thread
    <3>4. p.op = q.op
      BY <3>2 DEF Thread
    <3>5. p.waiting = q.waiting
      BY <3>2 DEF Thread
    <3>6. p.after = q.after
      BY <3>2 DEF Thread
    <3>7. p.method = q.method
      BY <3>2 DEF Thread
    <3> HIDE DEF p
    <3>8. Lands(r, p)
      BY <1>6, <2>2, <3>2, <3>3, <3>4, <3>5, <3>6, <3>7, NoneAssumption
      DEF Lands, Continues, Served
    <3> QED
      BY <3>8 DEF p, q
  <2>4. Lands(r, Replies(r, Error))
    <3>1. "idle" \in Outside /\ "exit" \in Outside
      BY PointSets DEF Outside, AtRest
    <3> QED
      BY <1>4, <3>1, ErrorStops DEF Lands
  <2> QED
    BY <2>1, <2>3, <2>4
<1> QED
  BY <1>7, <1>8, <1>9, <1>10, <1>11, <1>12


\* A request starts with a method of its own, and not with a later one.
LEMMA FirstServed ==
  \A op \in Operation :
    /\ FirstMethod[op.name] \in MethodsOf[op.name]
    /\ FirstMethod[op.name] \notin {"storePassword"}
    /\ op.name = "RESET_PWD" => FirstMethod[op.name] # "retrieveCredentials"
BY DEF FirstMethod, MethodsOf, Operation

\* A new connection, a new request, AdminTool's end.
LEMMA ConnectionTalks ==
  ASSUME ThreadsOK, NEW t \in Threads, Talks(th[t]), Connect(t) \/ Receive(t) \/ Exit(t)
  PROVE  Talks(th[t])'
<1>1. PICK r : r = th[t]
  OBVIOUS
<1>2. PICK s : s = th'[t]
  OBVIOUS
<1>3. r \in Thread /\ Talks(r)
  BY <1>1 DEF ThreadsOK
<1>4. SUFFICES Talks(s)'
  BY <1>2
<1>5. CASE Connect(t) \/ DropMessage(t)
  <2>1. s = Idle
    BY <1>2, <1>5, BecomesIs DEF Connect, DropMessage
  <2>2. s.pc = "idle" /\ s.op = None
    BY <2>1 DEF Idle
  <2> HIDE DEF Idle
  <2> QED
    BY <2>2 DEF Talks, Spoken, Route, Progress, Replied, Exchange, AtRest
<1>6. CASE ReceiveRequest(t)
  <2>1. PICK op \in Operations :
          Becomes(t, [Idle EXCEPT !.pc = "getInstance", !.op = op, !.code = op.code,
                                  !.method = FirstMethod[op.name],
                                  !.exch = IF op.name = "CLOSE" THEN 2 ELSE 1,
                                  !.waiting = tmpPwd])
    BY <1>6 DEF ReceiveRequest
  <2> DEFINE method == FirstMethod[op.name]
             exch == IF op.name = "CLOSE" THEN 2 ELSE 1
             q == [Idle EXCEPT !.pc = "getInstance", !.op = op, !.code = op.code,
                               !.method = method, !.exch = exch, !.waiting = tmpPwd]
  <2>2. s = q
    BY <1>2, <2>1, BecomesIs
  <2> HIDE DEF method, exch
  <2>3. q.pc = "getInstance"
    BY DEF Idle
  <2>4. q.op = op
    BY DEF Idle
  <2>5. q.method = method
    BY DEF Idle
  <2>6. q.after = None
    BY DEF Idle
  <2>7. q.waiting = tmpPwd
    BY DEF Idle
  <2> HIDE DEF q
  <2>8. op \in Operation /\ (op.name = "RESET_PWD" => op.pwd = Noise)
    BY ServerAssumption DEF ServerAssumption
  <2>9. Served(s) = method
    BY <2>2, <2>5, <2>6 DEF Served
  <2>10. tmpPwd' = tmpPwd
    BY <1>6 DEF ReceiveRequest, vars, storeVars
  <2>11. Route(s)'
    BY <2>2, <2>4, <2>6, <2>8, <2>9, FirstServed DEF Route, method
  <2>12. Progress(s)'
    BY <2>2, <2>4, <2>7, <2>8, <2>9, <2>10, FirstServed DEF Progress, method
  <2>13. Replied(s)' /\ Exchange(s)'
    BY <2>2, <2>3 DEF Replied, Exchange
  <2> QED
    BY <2>11, <2>12, <2>13 DEF Talks, Spoken
<1>7. CASE Exit(t)
  <2>1. s = [r EXCEPT !.pc = "idle"]
    BY <1>1, <1>2, <1>7, BecomesIs DEF Exit
  <2> DEFINE q == [r EXCEPT !.pc = "idle"]
  <2>2. q.pc = "idle"
    BY <1>3 DEF Thread
  <2>3. q.op = r.op
    BY <1>3 DEF Thread
  <2>4. q.reply = r.reply
    BY <1>3 DEF Thread
  <2>5. s = q
    BY <2>1
  <2> HIDE DEF q
  <2>6. r.pc = "exit" /\ r.op.name \in AdminTools
    BY <1>1, <1>3, <1>7 DEF Exit, Talks, Spoken, Replied
  <2>7. s.op # None /\ s.reply # Error => OfItsKind(s)
    BY <1>3, <2>3, <2>4, <2>5, <2>6 DEF Talks, Spoken, Replied, OfItsKind
  <2>8. HoldsOnCard(s)'
    BY <2>3, <2>5, <2>6 DEF HoldsOnCard, AdminTools
  <2> QED
    BY <2>2, <2>5, <2>7, <2>8
    DEF Talks, Spoken, Route, Progress, Replied, Exchange, AtRest, OfItsKind
<1> QED
  BY <1>5, <1>6, <1>7
 DEF Receive
\* Steps that land, with what they do to the card.
LEMMA LandingTalks ==
  ASSUME ThreadsOK, NEW t \in Threads, Talks(th[t]),
         \/ GetInstance(t) \/ SetTunnelSent(t) \/ CheckTunnelSent(t) \/ PublishTunnel(t)
         \/ PublishInstance(t) \/ Disconnect(t) \/ UnsetTunnel(t) \/ CommandThrows(t)
         \/ AskPin(t) \/ AskPuk(t) \/ ConstructorFault(t) \/ CardFault(t)
  PROVE  Talks(th[t])'
<1>1. PICK r : r = th[t]
  OBVIOUS
<1>2. PICK s : s = th'[t]
  OBVIOUS
<1>3. Lands(r, s) /\ r.pc \notin AtRest /\ Working(r) /\ Talks(r)
  BY <1>1, <1>2, LandingSteps DEF Talks, Spoken
<1>4. \/ UNCHANGED storeVars
      \/ r.pc = "execute" /\ (Execute \/ Tear)
  BY <1>1 DEF GetInstance, SetTunnelSent, CheckTunnelSent, PublishTunnel, PublishInstance,
     Disconnect, UnsetTunnel, CommandThrows, AskPin, AskPuk, ConstructorFault, CardFault,
     vars, Reset, SetTunnel, CheckTunnel, EraseData, PutData, GetData
<1>5. Progress(r)'
  <2>1. CASE UNCHANGED storeVars
    BY <1>3, <2>1, ProgressSame DEF Talks, Spoken
  <2>2. CASE r.pc = "execute" /\ (Execute \/ Tear)
    <3>1. data = RequestOf(r) /\ r.method # "disconnectCard"
      BY <1>3, <2>2 DEF Talks, Exchange, Working, InMethod
    <3> QED
      BY <1>3, <2>2, <3>1, ProgressKept DEF Talks, Spoken
  <2> QED
    BY <1>4, <2>1, <2>2
<1> QED
  BY <1>2, <1>3, <1>5, LandsTalks DEF Talks, Spoken

\* A thread that decides.
LEMMA DecideTalks ==
  ASSUME ThreadsOK, NEW t \in Threads, Talks(th[t]), Decide(t)
  PROVE  Talks(th[t])'
<1>1. PICK r : r = th[t]
  OBVIOUS
<1>2. PICK s : s = th'[t]
  OBVIOUS
<1>3. r \in Thread /\ Talks(r) /\ r.pc = "decide" /\ UNCHANGED vars
  BY <1>1 DEF ThreadsOK, Decide
<1>4. r.pc \notin AtRest /\ Working(r) /\ r.method # "disconnectCard"
  BY <1>1, <1>3, AtWork DEF Working, AtRest, InMethod
<1>5. Route(r) /\ Progress(r) /\ Answer(r, r.resp)
  BY <1>3 DEF Talks, Spoken, Exchange
<1>6. Progress(r)'
  BY <1>3, <1>5, ProgressSame DEF vars
<1>7. CASE s = Throws(r)
  BY <1>2, <1>4, <1>5, <1>6, <1>7, ThrowsWithoutKey, LandsTalks
<1>8. ASSUME NEW b, s = Decides(r, b),
             IF r.resp = <<>> THEN ~ReadsFirstByte(r) ELSE b \in FirstBytes(r.resp)
      PROVE  Talks(s)'
  <2>1. Spoken(s) /\ s.pc \in DecidesOn
    BY <1>3, <1>4, <1>5, <1>8, DecidesSpoken
  <2>2. Spoken(s)'
    BY <1>3, <2>1 DEF Spoken, Route, Progress, Replied, OfItsKind, HoldsOnCard, Unlocked,
       vars, storeVars, pinVars
  <2>3. Exchange(s)'
    BY <2>1 DEF DecidesOn, Exchange
  <2> QED
    BY <2>2, <2>3 DEF Talks
<1>9. \/ s = Throws(r)
      \/ \E b : s = Decides(r, b)
                /\ IF r.resp = <<>> THEN ~ReadsFirstByte(r) ELSE b \in FirstBytes(r.resp)
  BY <1>1, <1>2, BecomesIs DEF Decide
<1> QED
  BY <1>2, <1>7, <1>8, <1>9


\* What a request and an answer depend on.
LEMMA SameRequest ==
  ASSUME NEW r, NEW s, s.method = r.method, s.exch = r.exch, s.op = r.op,
         s.waiting = r.waiting, s.code = r.code
  PROVE  /\ RequestOf(s) = RequestOf(r)
         /\ \A a : Answer(r, a) => Answer(s, a)
         /\ \A a : Answer(r, a)' => Answer(s, a)'
<1>1. RequestOf(s) = RequestOf(r)
  BY DEF RequestOf
<1>2. \A a : Answer(r, a) => Answer(s, a)
  BY DEF Answer
<1>3. \A a : Answer(r, a)' => Answer(s, a)'
  BY DEF Answer
<1> QED
  BY <1>1, <1>2, <1>3

\* The four commands of an exchange.
LEMMA ExchangeTalks ==
  ASSUME TypeOK, ThreadsOK, NEW t \in Threads, Talks(th[t]), Channel(th[t]),
         EraseSent(t) \/ RequestSent(t) \/ ExecuteSent(t) \/ GetDataSent(t)
  PROVE  Talks(th[t])'
<1>1. PICK r : r = th[t]
  OBVIOUS
<1>2. PICK s : s = th'[t]
  OBVIOUS
<1>3. r \in Thread /\ Talks(r) /\ Route(r) /\ Progress(r)
  BY <1>1 DEF ThreadsOK, Talks, Spoken
<1>4. r.pc \in InMethod \ {"decide"}
  BY <1>1 DEF EraseSent, RequestSent, ExecuteSent, GetDataSent, InMethod
<1>5. /\ r.pc \notin AtRest /\ r.pc \notin InDialogue
      /\ Working(r) /\ r.method # "disconnectCard" /\ r.method \in CardMethods
  BY <1>1, <1>4, AtWork DEF Working, AtRest, InMethod, InDialogue
<1>6. instance /\ Linked
  BY <1>1, <1>3, TalkChannel
<1>7. ASSUME NEW pc \in {"request", "execute", "getResponse"}
      PROVE  /\ Continues(r, At(r, pc)) /\ At(r, pc).pc = pc /\ At(r, pc).resp = <<>>
             /\ RequestOf(At(r, pc)) = RequestOf(r)
             /\ \A a : Answer(r, a)' => Answer(At(r, pc), a)'
  <2>1. pc \in Points /\ pc \notin AtRest
    BY PointSets DEF InMethod, AtRest
  <2> DEFINE q == At(r, pc)
  <2>2. /\ q.method = r.method /\ q.exch = r.exch /\ q.op = r.op
        /\ q.waiting = r.waiting /\ q.code = r.code /\ q.resp = <<>>
    BY <1>3, <2>1, AtFields, AtKeeps
  <2>3. Continues(r, q) /\ q.pc = pc
    BY <1>3, <1>5, <2>1, AtContinues
  <2> HIDE DEF q
  <2>4. RequestOf(q) = RequestOf(r) /\ \A a : Answer(r, a)' => Answer(q, a)'
    BY <2>2, SameRequest
  <2> QED
    BY <2>2, <2>3, <2>4 DEF q
<1>8. ASSUME UNCHANGED storeVars
      PROVE  Progress(r)'
  BY <1>3, <1>8, ProgressSame
<1>9. SUFFICES Talks(s)'
  BY <1>2
<1>10. CASE EraseSent(t)
  <2>1. s = At(r, "request") /\ used' = 0 /\ UNCHANGED storeVars
    BY <1>1, <1>2, <1>10, BecomesIs DEF EraseSent, EraseData
  <2>2. Spoken(s)'
    BY <1>3, <1>5, <1>7, <1>8, <2>1, MovesSpoken
  <2>3. Exchange(s)'
    BY <1>7, <2>1 DEF Exchange
  <2> QED
    BY <2>2, <2>3 DEF Talks
<1>11. CASE RequestSent(t)
  <2>1. s = At(r, "execute") /\ UNCHANGED storeVars /\ PutData(host_key, RequestOf(r))
    BY <1>1, <1>2, <1>11, BecomesIs DEF RequestSent, PutData
  <2>2. used = 0
    BY <1>1, <1>3, <1>11 DEF RequestSent, Talks, Exchange
  <2>3. data' = RequestOf(r)
    <3>1. host_key = session_key /\ used + 2 <= Capacity
      BY <1>6, <2>2, CardAssumption DEF Linked, CardAssumption
    <3>2. Put(RequestSegment(RequestOf(r)), RequestOf(r))
      BY <2>1, <3>1, <2>2, CardAssumption DEF PutData, CardAssumption
    <3> QED
      BY <2>2, <3>2 DEF Put, HeadAfterPut
  <2>4. Spoken(s)'
    BY <1>3, <1>5, <1>7, <1>8, <2>1, MovesSpoken
  <2>5. Exchange(s)'
    BY <1>7, <2>1, <2>3 DEF Exchange
  <2> QED
    BY <2>4, <2>5 DEF Talks
<1>12. CASE ExecuteSent(t)
  <2>1. r.pc = "execute" /\ data = RequestOf(r) /\ Execute
    BY <1>1, <1>3, <1>12 DEF ExecuteSent, Talks, Exchange
  <2>2. Progress(r)'
    BY <1>3, <1>5, <2>1, ProgressKept
  <2>3. CASE sw' = "9000" \/ IgnoresStatus(r)
    <3>1. s = At(r, "getResponse")
      BY <1>1, <1>2, <1>12, <2>3, BecomesIs DEF ExecuteSent
    <3>2. Answer(r, unread)'
      BY <1>3, <1>5, <2>1, <2>3, ExecuteAnswers
    <3>3. Answer(s, unread)'
      <4>1. PICK a : a = unread'
        OBVIOUS
      <4>2. Answer(r, a)'
        BY <3>2, <4>1
      <4>3. Answer(s, a)'
        BY <1>7, <3>1, <4>2
      <4> QED
        BY <4>1, <4>3
    <3>4. Spoken(s)'
      BY <1>3, <1>5, <1>7, <2>2, <3>1, MovesSpoken
    <3>5. Exchange(s)'
      BY <1>7, <3>1, <3>3 DEF Exchange
    <3> QED
      BY <3>4, <3>5 DEF Talks
  <2>4. CASE ~(sw' = "9000" \/ IgnoresStatus(r))
    <3>1. s = Throws(r)
      BY <1>1, <1>2, <1>12, <2>4, BecomesIs DEF ExecuteSent
    <3> QED
      BY <1>3, <1>5, <2>2, <3>1, ThrowsWithoutKey, LandsTalks
  <2> QED
    BY <2>3, <2>4
<1>13. CASE GetDataSent(t)
  <2>1. /\ r.pc = "getResponse" /\ GetData /\ UNCHANGED storeVars /\ UNCHANGED pinVars
        /\ \/ r.resp = <<>> /\ Answer(r, unread)
           \/ unread = <<>> /\ Answer(r, r.resp)
    BY <1>1, <1>3, <1>13 DEF GetDataSent, GetData, Talks, Exchange
  <2>2. Progress(r)'
    BY <1>8, <2>1
  <2>3. \A a : Answer(r, a) => Answer(r, a)'
    BY <2>1 DEF Answer, Unlocked, storeVars, pinVars
  <2>4. session_key # NoKey /\ host_key = session_key /\ unread \in Seq(Segment)
        /\ r.resp \in Seq(Segment)
    BY <1>3, <1>6 DEF Linked, TypeOK, BufferTypeOK, Thread
  <2>5. CASE unread = <<>>
    <3>1. sw' = "6666"
      BY <2>1, <2>5 DEF GetData
    <3>2. s = [r EXCEPT !.pc = "decide"]
      BY <1>1, <1>2, <1>13, <3>1, BecomesIs DEF GetDataSent
    <3>3. Answer(r, r.resp)
      BY <2>1, <2>5
    <3> DEFINE q == [r EXCEPT !.pc = "decide"]
    <3>4. /\ q.pc = "decide" /\ q.op = r.op /\ q.method = r.method /\ q.after = r.after
          /\ q.resp = r.resp
      BY <1>3, PointFields, PointSets DEF InMethod
    <3>5. q.waiting = r.waiting
      BY <1>3 DEF Thread
    <3>6. q.exch = r.exch
      BY <1>3 DEF Thread
    <3>7. q.code = r.code
      BY <1>3 DEF Thread
    <3>8. s = q
      BY <3>2
    <3> HIDE DEF q
    <3>9. Continues(r, s)
      BY <1>3, <1>5, <3>4, <3>5, <3>8 DEF Continues, Served, Route, AtRest
    <3>10. Answer(s, s.resp)'
      BY <2>3, <3>3, <3>4, <3>5, <3>6, <3>7, <3>8, SameRequest
    <3>11. Spoken(s)'
      BY <1>3, <1>5, <2>2, <3>9, MovesSpoken
    <3>12. Exchange(s)'
      BY <3>4, <3>8, <3>10 DEF Exchange
    <3> QED
      BY <3>11, <3>12 DEF Talks
  <2>6. CASE unread # <<>>
    <3>1. sw' = "9000" /\ r.resp = <<>> /\ Answer(r, unread) /\ unread' = <<>>
      BY <2>1, <2>4, <2>6 DEF GetData
    <3>2. Received = {unread}
      BY <2>4 DEF Received
    <3> DEFINE pc == IF unread = <<>> \/ r.method = "signData" THEN "decide" ELSE "getResponse"
    <3>3. \E received \in {unread} :
            s = [r EXCEPT !.resp = @ \o received,
                          !.pc = IF received = <<>> \/ r.method = "signData"
                                   THEN "decide" ELSE "getResponse"]
      BY <1>1, <1>2, <1>13, <2>4, <3>1, <3>2, BecomesIs DEF GetDataSent
    <3>4. s = [r EXCEPT !.resp = r.resp \o unread, !.pc = pc]
      BY <3>3
    <3>5. r.resp \o unread = unread
      BY <2>4, <3>1
    <3>6. PICK a, p : a = unread /\ p = pc /\ p \in {"decide", "getResponse"}
      OBVIOUS
    <3> DEFINE q == [r EXCEPT !.resp = a, !.pc = p]
    <3>7. s = q
      BY <3>4, <3>5, <3>6
    <3>8. q.pc = p
      BY <1>3 DEF Thread
    <3>9. q.resp = a
      BY <1>3 DEF Thread
    <3>10. q.op = r.op
      BY <1>3 DEF Thread
    <3>11. q.method = r.method
      BY <1>3 DEF Thread
    <3>12. q.after = r.after
      BY <1>3 DEF Thread
    <3>13. q.waiting = r.waiting
      BY <1>3 DEF Thread
    <3>14. q.exch = r.exch
      BY <1>3 DEF Thread
    <3>15. q.code = r.code
      BY <1>3 DEF Thread
    <3> HIDE DEF q, pc
    <3>16. Continues(r, s)
      BY <1>3, <1>5, <3>6, <3>7, <3>8, <3>10, <3>11, <3>12, <3>13
      DEF Continues, Served, Route, AtRest
    <3>17. Answer(s, a)'
      <4>1. Answer(r, a)'
        BY <2>3, <3>1, <3>6
      <4> QED
        BY <3>7, <3>10, <3>11, <3>13, <3>14, <3>15, <4>1, SameRequest
    <3>18. Spoken(s)'
      BY <1>3, <1>5, <2>2, <3>16, MovesSpoken
    <3>19. Exchange(s)'
      BY <3>1, <3>6, <3>7, <3>8, <3>9, <3>17 DEF Exchange
    <3> QED
      BY <3>18, <3>19 DEF Talks
  <2> QED
    BY <2>5, <2>6
<1> QED
  BY <1>10, <1>11, <1>12, <1>13


-----------------------------------------------------------------------------
(* The invariant of a single connection.                                   *)

Serving == \A t \in Threads : Channel(th[t]) /\ Talks(th[t])

\* It holds of the first state: no instance, and a thread at rest.
LEMMA InitServing == ServerInit => Serving
<1> SUFFICES ASSUME ServerInit, NEW t \in Threads
             PROVE  Channel(th[t]) /\ Talks(th[t])
  BY DEF Serving
<1>1. th[t] = Idle /\ Idle.pc = "idle" /\ Idle.op = None
  BY DEF ServerInit, Idle
<1>2. ~instance /\ ~tunnel
  BY DEF ServerInit
<1> HIDE DEF Idle
<1>3. Channel(th[t])
  BY <1>1, <1>2 DEF Channel, InMethod
<1>4. Talks(th[t])
  BY <1>1 DEF Talks, Spoken, Route, Progress, Replied, Exchange, AtRest
<1> QED
  BY <1>3, <1>4

\* Every step of the thread keeps it.
LEMMA ServingMove ==
  ASSUME TypeOK, ServerTypeOK, NEW t \in Threads, Channel(th[t]), Talks(th[t]),
         Connect(t) \/ Receive(t) \/ Work(t) \/ CardFault(t) \/ ConstructorFault(t)
  PROVE  Channel(th[t])' /\ Talks(th[t])'
<1>1. ThreadsOK /\ Coherent(th[t]) /\ Route(th[t])
  BY ServerTypeParts DEF ThreadsOK, Talks, Spoken
<1>2. CASE EraseSent(t) \/ RequestSent(t) \/ ExecuteSent(t) \/ GetDataSent(t)
  BY <1>1, <1>2, TalkChannel, ExchangeTalks
<1>3. CASE Connect(t) \/ Receive(t)
  BY <1>1, <1>3, CalmChannelStep, ConnectionTalks
<1>4. CASE Exit(t)
  BY <1>1, <1>4, InstanceChannelStep, ConnectionTalks
<1>5. CASE Decide(t)
  BY <1>1, <1>5, CalmChannelStep, DecideTalks
<1>6. CASE AskPin(t) \/ AskPuk(t) \/ CommandThrows(t)
  BY <1>1, <1>6, CalmChannelStep, LandingTalks
<1>7. CASE \/ GetInstance(t) \/ SetTunnelSent(t) \/ CheckTunnelSent(t) \/ PublishTunnel(t)
           \/ PublishInstance(t) \/ Disconnect(t) \/ UnsetTunnel(t)
           \/ CardFault(t) \/ ConstructorFault(t)
  BY <1>1, <1>7, InstanceChannelStep, LandingTalks
<1> QED
  BY <1>2, <1>3, <1>4, <1>5, <1>6, <1>7 DEF Work

\* The only thread is the one that moves.
LEMMA ServingStep ==
  ASSUME OneConnection, TypeOK, ServerTypeOK, Serving, [ServerNext]_allVars
  PROVE  Serving'
<1>1. CASE UNCHANGED allVars
  <2> SUFFICES ASSUME NEW t \in Threads
               PROVE  Channel(th[t])' /\ Talks(th[t])'
    BY DEF Serving
  <2>1. PICK r : r = th[t]
    OBVIOUS
  <2>2. th'[t] = r /\ Channel(r) /\ Talks(r)
    BY <1>1, <2>1 DEF Serving, allVars, serverVars
  <2>3. UNCHANGED <<vars, staticVars>>
    BY <1>1 DEF allVars, serverVars
  <2>4. Channel(r)'
    BY <2>2, <2>3 DEF Channel, Linked, vars, staticVars, tunnelVars
  <2>5. Spoken(r)'
    BY <2>2, <2>3 DEF Talks, Spoken, Route, Progress, Replied, OfItsKind, HoldsOnCard, Unlocked,
       vars, storeVars, pinVars
  <2>6. Exchange(r)'
    <3>1. data' = data /\ used' = used /\ unread' = unread /\ login' = login /\ pwd' = pwd
          /\ tmpPwd' = tmpPwd /\ pin' = pin
      BY <2>3 DEF vars, bufferVars, storeVars, pinVars
    <3>2. \A a : Answer(r, a) => Answer(r, a)'
      BY <3>1 DEF Answer, Unlocked
    <3> QED
      BY <2>2, <3>1, <3>2 DEF Talks, Exchange
  <2> QED
    BY <2>2, <2>4, <2>5, <2>6 DEF Talks
<1>2. CASE ServerNext
  <2>1. PICK t \in Threads :
          Connect(t) \/ Receive(t) \/ Work(t) \/ CardFault(t) \/ ConstructorFault(t)
    BY <1>2 DEF ServerNext
  <2>2. Channel(th[t])' /\ Talks(th[t])'
    BY <2>1, ServingMove DEF Serving
  <2>3. \A u \in Threads : u = t
    BY DEF OneConnection
  <2> QED
    BY <2>2, <2>3 DEF Serving
<1> QED
  BY <1>1, <1>2

\* For one connection the invariant holds in every reachable state, with any
\* operations, keys, codes and number of card faults.
THEOREM OneConnectionServes ==
  ASSUME OneConnection
  PROVE  ServerSpec => []Serving
<1>1. ServerInit => Serving
  BY InitServing
<1>2. TypeOK /\ ServerTypeOK /\ Serving /\ [ServerNext]_allVars => Serving'
  BY ServingStep
<1> QED
  BY <1>1, <1>2, CardHoldsUnderServer, ServerTypeCorrect, PTL DEF ServerSpec

\* An instance that one connection finds can be used: it has its tunnel, on an
\* open channel, with the card's own key, whatever commands were lost before
\* and wherever a constructor was interrupted (SoftCard.java:88-93).
THEOREM OneConnectionUsable ==
  ASSUME OneConnection
  PROVE  ServerSpec => []UsableInstance
<1>1. Serving => UsableInstance
  <2> SUFFICES ASSUME Serving, instance,
                      \A t \in Threads : th[t].pc \in {"idle", "closed", "unclosed"}
               PROVE  Linked
    BY DEF UsableInstance, Linked
  <2>1. PICK t : t \in Threads
    BY DEF OneConnection
  <2> QED
    BY <2>1 DEF Serving, Channel
<1> QED
  BY <1>1, OneConnectionServes, PTL

\* What the client of one connection is sent is the card's answer to its own
\* request, whatever an earlier try has left in the datastore
\* (SoftCardServer.java:155-156, 366-369).
THEOREM OneConnectionAnswers ==
  ASSUME OneConnection
  PROVE  ServerSpec => []AnswersOwnRequest
<1>1. Serving => AnswersOwnRequest
  BY DEF Serving, Talks, Spoken, Replied, OfItsKind, AnswersOwnRequest, AnsweredWith, Answered
<1> QED
  BY <1>1, OneConnectionServes, PTL

\* And it says what the card holds: stored, promoted, validated or read,
\* whatever was lost, repeated or undone on the way (SoftCard.java:474-482,
\* 586-592, 387-395, 615-623).
THEOREM OneConnectionReplies ==
  ASSUME OneConnection
  PROVE  ServerSpec => []ReplyHolds
<1>1. Serving => ReplyHolds
  BY DEF Serving, Talks, Spoken, Replied, HoldsOnCard, ReplyHolds, AnsweredWith, Answered
<1> QED
  BY <1>1, OneConnectionServes, PTL
=============================================================================
