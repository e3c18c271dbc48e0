-------------------------------- MODULE Card --------------------------------
(***************************************************************************)
(* The smart card: the tunnel applet (tunnel2.java), the datastore it      *)
(* fills and empties (datastore.java), and the applets that run on the     *)
(* datastore (PIN.java, StoreID.java, Cypher.java, Sign.java,              *)
(* gen_random.java).  One action is one APDU: SET_TUNNEL, CHECK_TUNNEL,    *)
(* PUT_DATA, EXECUTE (one action per instruction of an applet), GET_DATA   *)
(* and ERASE_DATA, in any order, and the loss of power, between two APDUs  *)
(* or between two writes to persistent memory of one instruction.          *)
(*                                                                         *)
(* The datastore keeps its bytes when it is erased (only its pointers go   *)
(* back to 0), an applet reads its command in it and writes its answer     *)
(* over it.  "data" is the head of those bytes: the AID, the instruction,  *)
(* and the argument with its length; Noise stands for bytes the model does *)
(* not follow (random numbers, a text or a ciphertext, what the wrong      *)
(* session key deciphers), which may read as any command.  "unread" is     *)
(* what lies between the read pointer and the used length, by segments.    *)
(***************************************************************************)
EXTENDS Integers, Sequences, OwnerPIN

CONSTANTS Codes,     \* the two-byte codes gen_random can produce
          InitPin,   \* the PIN of a new card, {15,12}
          InitPuk,   \* the PUK of a new card, {15,12,45,124}: four bytes
          Texts,     \* the logins and passwords a client stores
          Keys,      \* the session keys
          Requests,  \* the requests the host sends
          Capacity,  \* the datastore's size, in the units of "used"
          Empty,     \* the text, or argument, of length zero
          Blank,     \* the zero bytes of a new array
          Noise,     \* bytes the model does not follow
          NoKey      \* the session key is not initialised

Byte == -128..127
Arg == Codes \cup {InitPuk} \cup Texts \cup {Empty, Noise}
Request == [aid: Byte \cup {Noise}, ins: Byte \cup {Noise}, arg: Arg]
Stored == Texts \cup {Empty, Blank, Noise}

ASSUME CardAssumption ==
  /\ InitPin \in Codes
  /\ Requests \subseteq Request
  /\ Capacity \in Nat /\ Capacity >= 2
  /\ NoKey \notin Keys
  /\ Empty \notin Texts

\* Bytes the model does not follow are no byte in particular.
ASSUME NoiseAssumption == Noise \notin Byte

VARIABLES
  pin, puk,                        \* PIN.pin, PIN.puk (persistent)
  pin_retrieved, puk_retrieved,    \* PIN's flags (persistent)
  login, pwd, tmpPwd,              \* StoreID's arrays (persistent)
  session_key,                     \* tunnel2.session_key (transient)
  challenge,                       \* tunnel2.padded2 still holds what SET_TUNNEL sent
  data, used, unread,              \* datastore.data, tab[1], what tab[2] leaves
  sw                               \* the status word of the last APDU

pinVars == <<pin, puk, pin_retrieved, puk_retrieved>>
storeVars == <<login, pwd, tmpPwd>>
tunnelVars == <<session_key, challenge>>
bufferVars == <<data, used, unread>>
vars == <<pinVars, storeVars, tunnelVars, bufferVars, sw>>

AID_PIN == 0
AID_RNG == 1
AID_SIGN == 2
AID_CYPHER == 3
AID_STORE == 4

INS_VERIF_PIN == 0
INS_PIN_REMAINING_TRIES == 1
INS_PUK_REMAINING_TRIES == 2
INS_UNLOCK_WITH_PUK == 3
INS_GET_PIN == 4
INS_GET_PUK == 5
INS_IS_LOCKED == 6

INS_STORE_LOGIN == 0
INS_STORE_PWD == 1
INS_VALIDATE_PWD == 2
INS_GET == 3
INS_GET_PWD == 4

INS_GEN == 0

INS_CIPHER == 0
INS_DECRYPT == 1
INS_GET_EXPONENT == 2
INS_GET_MODULUS == 3

INS_TEST_AUTH == 4
INS_ASK_AUTH == 5

StatusWords == {"none", "9000", "0002", "0003", "0005", "0050", "0060", "6666", "6D00", "6F00"}

-----------------------------------------------------------------------------
(* The datastore.                                                          *)

Segment == [kind: {"request", "byte", "pin", "puk", "credentials",
                   "password", "plain", "noise"},
            val: Seq(Byte \cup Arg \cup Stored)]

RequestSegment(req) == [kind |-> "request", val |-> <<req.aid, req.ins, req.arg>>]
NoiseSegment == [kind |-> "noise", val |-> <<Noise>>]

NoiseHead == [aid |-> Noise, ins |-> Noise, arg |-> Noise]
ZeroHead == [aid |-> 0, ins |-> 0, arg |-> Empty]

\* One unit of "used" is one byte; a segment of more than one byte counts two.
Width(segment) == IF segment.kind = "byte" THEN 1 ELSE 2

\* datastore.putData at offset "used": at 0 it writes the head; after a
\* one-byte answer it overwrites all of the head but the AID; after two
\* random bytes, the argument; after a request, nothing of the head.
HeadAfterPut(head) ==
  IF used = 0 THEN head
  ELSE IF used = 1 THEN [NoiseHead EXCEPT !.aid = data.aid]
  ELSE IF data.ins = Noise THEN [data EXCEPT !.arg = Noise]
  ELSE data

\* Mutant: the datastore has no bound.
PutUnbounded(segment, head) ==
  /\ data' = HeadAfterPut(head)
  /\ used' = used + Width(segment)
  /\ unread' = Append(unread, segment)

Put(segment, head) ==
  /\ used + Width(segment) <= Capacity
  /\ data' = HeadAfterPut(head)
  /\ used' = used + Width(segment)
  /\ unread' = Append(unread, segment)

\* eraseData then putData of an answer written at the start of the buffer.
Respond(segment, head) ==
  /\ data' = head
  /\ used' = Width(segment)
  /\ unread' = <<segment>>
  /\ sw' = "9000"

RespondByte(v) ==
  Respond([kind |-> "byte", val |-> <<v>>], [data EXCEPT !.aid = v])

RespondCode(kind, code) ==
  Respond([kind |-> kind, val |-> <<code>>], [data EXCEPT !.aid = Noise, !.ins = Noise])

\* An answer of length zero: the pointers only.
RespondNothing ==
  /\ used' = 0
  /\ unread' = <<>>
  /\ sw' = "9000"
  /\ UNCHANGED data

\* The instruction ends by an exception that leaves the datastore alone.
Fail(status) == sw' = status /\ UNCHANGED bufferVars

EraseData ==
  /\ used' = 0
  /\ unread' = <<>>
  /\ sw' = "9000"
  /\ UNCHANGED <<pinVars, storeVars, tunnelVars, data>>

\* The MAC is computed with the shared key, so a fragment enciphered with
\* another session key passes it and is deciphered to noise, of any length.
PutData(key, req) ==
  /\ \/ /\ session_key = key
        /\ Put(RequestSegment(req), req)
        /\ sw' = "9000"
     \/ /\ session_key \notin {key, NoKey}
        /\ Put(NoiseSegment, NoiseHead)
        /\ sw' = "9000"
     \/ /\ \/ session_key # key
           \/ used + 2 > Capacity
        /\ Fail("6F00")
  /\ challenge' = FALSE
  /\ UNCHANGED <<pinVars, storeVars, session_key>>

\* The read pointer moves before the answer is enciphered: without a session
\* key the answer is lost.
GetData ==
  /\ unread' = <<>>
  /\ sw' = IF unread = <<>> THEN "6666"
           ELSE IF session_key = NoKey THEN "6F00" ELSE "9000"
  /\ challenge' = (challenge /\ unread = <<>>)
  /\ UNCHANGED <<pinVars, storeVars, session_key, data, used>>

\* set_tunnel: a new random session key, in force at once.
SetTunnel(key) ==
  /\ session_key' = key
  /\ challenge' = TRUE
  /\ sw' = "9000"
  /\ UNCHANGED <<pinVars, storeVars, bufferVars>>

\* check_card_secret: the client sends back, enciphered with the key it has
\* received, the start of the packet SET_TUNNEL sent, which the card looks for
\* in a buffer that PUT_DATA and GET_DATA use too.  What a wrong key deciphers
\* may have any padding, and leave nothing to compare.
CheckTunnel(key) ==
  /\ sw' \in IF session_key = key THEN {IF challenge THEN "9000" ELSE "0050"}
             ELSE IF session_key = NoKey THEN {"0005"}
             ELSE {"0050", "6F00", "9000"}
  /\ UNCHANGED <<pinVars, storeVars, tunnelVars, bufferVars>>

-----------------------------------------------------------------------------
(* What EXECUTE dispatches on: bytes of noise read as any command.         *)

Reads(cell, v) == cell \in {v, Noise}
Command(aid, ins) == Reads(data.aid, aid) /\ Reads(data.ins, ins)

\* The codes that an argument may hold.
Candidates(arg) ==
  IF arg = Noise THEN Codes \cup {InitPuk, Noise} ELSE {arg}

\* The text that an argument holds.
TextOf(arg) == IF arg \in Texts \cup {Empty} THEN arg ELSE Noise

-----------------------------------------------------------------------------
(* EXECUTE: PIN.execute.                                                   *)

IsLocked ==
  /\ Command(AID_PIN, INS_IS_LOCKED)
  /\ RespondByte(IF pin.validated THEN 1 ELSE 0)
  /\ UNCHANGED <<pinVars, storeVars, tunnelVars>>

PinRemainingTries ==
  /\ Command(AID_PIN, INS_PIN_REMAINING_TRIES)
  /\ RespondByte(pin.tries)
  /\ UNCHANGED <<pinVars, storeVars, tunnelVars>>

PukRemainingTries ==
  /\ Command(AID_PIN, INS_PUK_REMAINING_TRIES)
  /\ RespondByte(puk.tries)
  /\ UNCHANGED <<pinVars, storeVars, tunnelVars>>

\* Mutant: the answer is put without erasing the datastore first.
VerifPinKeepsBuffer(code) ==
  /\ Command(AID_PIN, INS_VERIF_PIN)
  /\ code \in Candidates(data.arg)
  /\ pin' = Check(pin, code)
  /\ used' = used + 1
  /\ unread' = Append(unread,
                 [kind |-> "byte", val |-> <<IF Matches(pin, code) THEN 1 ELSE 0>>])
  /\ sw' = "9000"
  /\ UNCHANGED <<data, puk, pin_retrieved, puk_retrieved, storeVars, tunnelVars>>

VerifPin(code) ==
  /\ Command(AID_PIN, INS_VERIF_PIN)
  /\ code \in Candidates(data.arg)
  /\ pin' = Check(pin, code)
  /\ RespondByte(IF Matches(pin, code) THEN 1 ELSE 0)
  /\ UNCHANGED <<puk, pin_retrieved, puk_retrieved, storeVars, tunnelVars>>

UnlockWithPuk(code, new) ==
  /\ Command(AID_PIN, INS_UNLOCK_WITH_PUK)
  /\ code \in Candidates(data.arg)
  /\ puk' = Check(puk, code)
  /\ IF Matches(puk, code)
       THEN /\ pin' = Update(ResetAndUnblock(pin), new)
            /\ RespondCode("pin", new)
       ELSE UNCHANGED pin /\ RespondNothing
  /\ UNCHANGED <<pin_retrieved, puk_retrieved, storeVars, tunnelVars>>

\* A second GET_PIN or GET_PUK only fills the first two bytes with noise,
\* and leaves the pointers where they were.
Refuse ==
  /\ data' = [data EXCEPT !.aid = Noise, !.ins = Noise]
  /\ sw' = "0002"
  /\ UNCHANGED <<pinVars, used, unread>>

\* Mutant: the flag is set but not tested.
GetPinAgain(new) ==
  /\ Command(AID_PIN, INS_GET_PIN)
  /\ pin' = Update(ResetAndUnblock(pin), new)
  /\ RespondCode("pin", new)
  /\ pin_retrieved' = TRUE
  /\ UNCHANGED <<puk, puk_retrieved, storeVars, tunnelVars>>

GetPin(new) ==
  /\ Command(AID_PIN, INS_GET_PIN)
  /\ \/ /\ ~pin_retrieved
        /\ pin' = Update(ResetAndUnblock(pin), new)
        /\ RespondCode("pin", new)
        /\ pin_retrieved' = TRUE
        /\ UNCHANGED <<puk, puk_retrieved>>
     \/ pin_retrieved /\ Refuse
  /\ UNCHANGED <<storeVars, tunnelVars>>

\* Mutant: the flag is set but not tested.
GetPukAgain(new) ==
  /\ Command(AID_PIN, INS_GET_PUK)
  /\ puk' = Update(ResetAndUnblock(puk), new)
  /\ RespondCode("puk", new)
  /\ puk_retrieved' = TRUE
  /\ UNCHANGED <<pin, pin_retrieved, storeVars, tunnelVars>>

GetPuk(new) ==
  /\ Command(AID_PIN, INS_GET_PUK)
  /\ \/ /\ ~puk_retrieved
        /\ puk' = Update(ResetAndUnblock(puk), new)
        /\ RespondCode("puk", new)
        /\ puk_retrieved' = TRUE
        /\ UNCHANGED <<pin, pin_retrieved>>
     \/ puk_retrieved /\ Refuse
  /\ UNCHANGED <<storeVars, tunnelVars>>

PinExecute ==
  \/ IsLocked \/ PinRemainingTries \/ PukRemainingTries
  \/ \E code \in Arg : VerifPin(code)
  \/ \E code \in Arg, new \in Codes : UnlockWithPuk(code, new)
  \/ \E new \in Codes : GetPin(new) \/ GetPuk(new)

-----------------------------------------------------------------------------
(* EXECUTE: StoreID.execute.  PIN.getState returns 0x9000 when the PIN is  *)
(* neither blocked nor left unchecked.                                     *)

Unlocked == pin.tries # 0 /\ pin.validated

StoreCommand(ins) == Command(AID_STORE, ins) /\ Unlocked

StoreLogin ==
  /\ StoreCommand(INS_STORE_LOGIN)
  /\ login' = TextOf(data.arg)
  /\ RespondByte(1)
  /\ UNCHANGED <<pinVars, pwd, tmpPwd, tunnelVars>>

StorePwd ==
  /\ StoreCommand(INS_STORE_PWD)
  /\ tmpPwd' = TextOf(data.arg)
  /\ RespondByte(1)
  /\ UNCHANGED <<pinVars, login, pwd, tunnelVars>>

ValidatePwd ==
  /\ StoreCommand(INS_VALIDATE_PWD)
  /\ IF tmpPwd # Empty
       THEN pwd' = tmpPwd /\ tmpPwd' = Empty /\ RespondByte(1)
       ELSE UNCHANGED <<pwd, tmpPwd>> /\ RespondByte(0)
  /\ UNCHANGED <<pinVars, login, tunnelVars>>

GetCredentials ==
  /\ StoreCommand(INS_GET)
  /\ Respond([kind |-> "credentials", val |-> <<login, pwd>>], NoiseHead)
  /\ UNCHANGED <<pinVars, storeVars, tunnelVars>>

GetPwd ==
  /\ StoreCommand(INS_GET_PWD)
  /\ IF pwd = Empty THEN RespondNothing
     ELSE Respond([kind |-> "password", val |-> <<pwd>>], NoiseHead)
  /\ UNCHANGED <<pinVars, storeVars, tunnelVars>>

StoreLocked ==
  /\ Reads(data.aid, AID_STORE)
  /\ ~Unlocked
  /\ RespondByte(-1)
  /\ UNCHANGED <<pinVars, storeVars, tunnelVars>>

StoreExecute ==
  StoreLogin \/ StorePwd \/ ValidatePwd \/ GetCredentials \/ GetPwd \/ StoreLocked

-----------------------------------------------------------------------------
(* EXECUTE: Cypher, Sign and gen_random.  Their keys never change; what    *)
(* they compute is noise to the rest of the card, and a text deciphered    *)
(* with the card's private key is a segment of its own kind.  The padding  *)
(* or the length of their argument may be wrong.                           *)

RespondNoise == Respond(NoiseSegment, NoiseHead)

CypherExecute ==
  /\ \/ /\ \/ Command(AID_CYPHER, INS_GET_EXPONENT)
           \/ Command(AID_CYPHER, INS_GET_MODULUS)
        /\ RespondNoise
     \/ /\ Command(AID_CYPHER, INS_CIPHER)
        /\ RespondNoise \/ Fail("0003")
     \/ /\ Command(AID_CYPHER, INS_DECRYPT)
        /\ IF Unlocked
             THEN \/ Respond([kind |-> "plain", val |-> <<Noise>>], NoiseHead)
                  \/ Fail("0003")
             ELSE RespondByte(-1)
     \/ /\ Reads(data.aid, AID_CYPHER)
        /\ data.ins \notin {INS_GET_EXPONENT, INS_GET_MODULUS, INS_CIPHER, INS_DECRYPT}
        /\ Fail("9000")
  /\ UNCHANGED <<pinVars, storeVars, tunnelVars>>

\* TEST_AUTH: P2 (part of the argument) tells whether to keep the signature
\* and send it back, or to verify a text against the signature kept.
SignExecute ==
  /\ \/ /\ Command(AID_SIGN, INS_TEST_AUTH)
        /\ \/ \E v \in {0, 1} : RespondByte(v)
           \/ Respond(NoiseSegment, data)
           \/ Fail("0002")
     \/ /\ Command(AID_SIGN, INS_ASK_AUTH)
        /\ RespondNoise \/ Fail("6F00")
     \/ /\ Reads(data.aid, AID_SIGN)
        /\ data.ins \notin {INS_TEST_AUTH, INS_ASK_AUTH}
        /\ Fail("9000")
  /\ UNCHANGED <<pinVars, storeVars, tunnelVars>>

\* The pointers go back before the length is read; a length that no buffer
\* has ends in an exception.
RngExecute ==
  /\ \/ /\ Command(AID_RNG, INS_GEN)
        /\ \/ RespondNoise
           \/ used' = 0 /\ unread' = <<>> /\ sw' = "6F00" /\ UNCHANGED data
     \/ /\ Reads(data.aid, AID_RNG)
        /\ data.ins # INS_GEN
        /\ Fail("9000")
  /\ UNCHANGED <<pinVars, storeVars, tunnelVars>>

\* No applet has this AID, or the applet has no such instruction.
ExecuteUnknown ==
  /\ \/ data.aid \notin AID_PIN..AID_STORE /\ Fail("0060")
     \/ /\ Reads(data.aid, AID_PIN)
        /\ data.ins \notin INS_VERIF_PIN..INS_IS_LOCKED
        /\ Fail("6D00")
     \/ /\ Reads(data.aid, AID_STORE) /\ Unlocked
        /\ data.ins \notin INS_STORE_LOGIN..INS_GET_PWD
        /\ Fail("6D00")
  /\ UNCHANGED <<pinVars, storeVars, tunnelVars>>

Execute ==
  \/ PinExecute \/ StoreExecute
  \/ CypherExecute \/ SignExecute \/ RngExecute \/ ExecuteUnknown

-----------------------------------------------------------------------------
(* Loss of power.  The transient state is cleared; the persistent state is *)
(* what the writes already made have left of it.                           *)

ClearTransient ==
  /\ session_key' = NoKey
  /\ challenge' = FALSE
  /\ data' = ZeroHead
  /\ used' = 0
  /\ unread' = <<>>
  /\ sw' = "none"

Reset ==
  /\ ClearTransient
  /\ pin' = PowerUp(pin)
  /\ puk' = PowerUp(puk)
  /\ UNCHANGED <<pin_retrieved, puk_retrieved, storeVars>>

TearVerifPin(code) ==
  /\ Command(AID_PIN, INS_VERIF_PIN)
  /\ code \in Candidates(data.arg)
  /\ ClearTransient
  /\ pin' = PowerUp(Check(pin, code))
  /\ puk' = PowerUp(puk)
  /\ UNCHANGED <<pin_retrieved, puk_retrieved, storeVars>>

\* What a code object may be while GET_PIN, GET_PUK or UNLOCK_WITH_PUK
\* replaces it.
Replacing(p, new) == {PowerUp(ResetAndUnblock(p)), PowerUp(Update(p, new))}

TearUnlockWithPuk(code, new) ==
  /\ Command(AID_PIN, INS_UNLOCK_WITH_PUK)
  /\ code \in Candidates(data.arg)
  /\ ClearTransient
  /\ puk' = PowerUp(Check(puk, code))
  /\ \/ pin' = PowerUp(pin)
     \/ Matches(puk, code) /\ pin' \in Replacing(pin, new)
  /\ UNCHANGED <<pin_retrieved, puk_retrieved, storeVars>>

TearGetPin(new) ==
  /\ Command(AID_PIN, INS_GET_PIN) /\ ~pin_retrieved
  /\ ClearTransient
  /\ pin' \in Replacing(pin, new)
  /\ puk' = PowerUp(puk)
  /\ UNCHANGED <<pin_retrieved, puk_retrieved, storeVars>>

TearGetPuk(new) ==
  /\ Command(AID_PIN, INS_GET_PUK) /\ ~puk_retrieved
  /\ ClearTransient
  /\ puk' \in Replacing(puk, new)
  /\ pin' = PowerUp(pin)
  /\ UNCHANGED <<pin_retrieved, puk_retrieved, storeVars>>

\* The new array is in place before its bytes are copied.
TearStore ==
  /\ \/ StoreCommand(INS_STORE_LOGIN) /\ login' = Blank /\ UNCHANGED tmpPwd
     \/ StoreCommand(INS_STORE_PWD) /\ tmpPwd' = Blank /\ UNCHANGED login
  /\ TextOf(data.arg) # Empty
  /\ ClearTransient
  /\ pin' = PowerUp(pin)
  /\ puk' = PowerUp(puk)
  /\ UNCHANGED <<pin_retrieved, puk_retrieved, pwd>>

\* Mutant: tmpPwd is emptied before pwd changes.
TearValidateSwapped ==
  /\ StoreCommand(INS_VALIDATE_PWD) /\ tmpPwd # Empty
  /\ ClearTransient
  /\ tmpPwd' = Empty
  /\ pin' = PowerUp(pin)
  /\ puk' = PowerUp(puk)
  /\ UNCHANGED <<pin_retrieved, puk_retrieved, login, pwd>>

TearValidatePwd ==
  /\ StoreCommand(INS_VALIDATE_PWD) /\ tmpPwd # Empty
  /\ ClearTransient
  /\ pwd' \in {Blank, tmpPwd}
  /\ pin' = PowerUp(pin)
  /\ puk' = PowerUp(puk)
  /\ UNCHANGED <<pin_retrieved, puk_retrieved, login, tmpPwd>>

Tear ==
  \/ \E code \in Arg : TearVerifPin(code)
  \/ \E code \in Arg, new \in Codes : TearUnlockWithPuk(code, new)
  \/ \E new \in Codes : TearGetPin(new) \/ TearGetPuk(new)
  \/ TearStore \/ TearValidatePwd

-----------------------------------------------------------------------------
Init ==
  /\ pin = NewPin(InitPin)
  /\ puk = NewPin(InitPuk)
  /\ pin_retrieved = FALSE /\ puk_retrieved = FALSE
  /\ login = Empty /\ pwd = Empty /\ tmpPwd = Empty
  /\ session_key = NoKey /\ challenge = FALSE
  /\ data = ZeroHead /\ used = 0 /\ unread = <<>>
  /\ sw = "none"

Next ==
  \/ EraseData \/ GetData
  \/ \E key \in Keys : SetTunnel(key) \/ CheckTunnel(key)
  \/ \E key \in Keys, req \in Requests : PutData(key, req)
  \/ Execute
  \/ Reset \/ Tear

Spec == Init /\ [][Next]_vars

-----------------------------------------------------------------------------
(* Properties.                                                             *)

PinTypeOK ==
  /\ pin \in PinObjects(Codes)
  /\ puk \in PinObjects(Codes \cup {InitPuk})
  /\ pin_retrieved \in BOOLEAN /\ puk_retrieved \in BOOLEAN

StoreTypeOK == login \in Stored /\ pwd \in Stored /\ tmpPwd \in Stored

BufferTypeOK ==
  /\ data \in Request
  /\ used \in 0..Capacity
  /\ unread \in Seq(Segment)
  /\ sw \in StatusWords

\* The type invariant: try counters stay in 0..3, the used length of the
\* datastore within its 512 bytes (datastore.java:41, 57).
TypeOK ==
  /\ PinTypeOK /\ StoreTypeOK /\ BufferTypeOK
  /\ session_key \in Keys \cup {NoKey}
  /\ challenge \in BOOLEAN

Pending(kinds) == \E i \in DOMAIN unread : unread[i].kind \in kinds

\* Credentials, or a text deciphered with the private key, wait in the
\* datastore only while the PIN that allowed them is still validated: every
\* instruction that takes the validation away erases the datastore first
\* (PIN.java:79, 90, 107), whatever was put or read in between.
SecretsOnlyWhileUnlocked ==
  Pending({"credentials", "password", "plain"}) => Unlocked

\* A new PIN or PUK that waits in the datastore is the code in force, not yet
\* tried: nothing may replace or consume it before it is read without
\* erasing it (PIN.java:85-98, 102-110, 121-130).
PendingCodeInForce ==
  \A i \in DOMAIN unread :
    /\ unread[i].kind = "pin" =>
         /\ unread[i].val[1] = pin.value
         /\ pin.tries = MaxTries /\ ~pin.validated
    /\ unread[i].kind = "puk" =>
         /\ unread[i].val[1] = puk.value
         /\ puk.tries = MaxTries /\ puk_retrieved

\* Once the first PIN has been retrieved, only the right PUK, on a PUK that
\* is not blocked, changes the PIN, even if power is lost half-way.
PinChangesWithPuk ==
  [][pin_retrieved /\ pin'.value # pin.value
       => puk.tries > 0 /\ puk'.tries = MaxTries]_vars

\* When both codes have been retrieved and both are blocked, the card is
\* locked for good and its credentials are frozen (SoftCard.java:196-199).
Dead ==
  /\ pin_retrieved /\ puk_retrieved
  /\ pin.tries = 0 /\ puk.tries = 0

DeadForever ==
  [][Dead => Dead' /\ UNCHANGED storeVars]_vars

\* Only another STORE_PWD, or the loss of power in one, takes the place of a
\* password that waits for its validation; any other step, and any other loss
\* of power, leaves it waiting until it is the one in use.  The one in use
\* changes only to the one that waits or, when VALIDATE_PWD is interrupted,
\* while that one still waits (StoreID.java:85, 110-113).
PasswordNotLost ==
  [][/\ tmpPwd' # tmpPwd => \/ pwd' = tmpPwd
                            \/ StoreCommand(INS_STORE_PWD) /\ pwd' = pwd
     /\ pwd' # pwd => tmpPwd # Empty /\ (pwd' = tmpPwd \/ tmpPwd' = tmpPwd)]_vars
=============================================================================
