-------------------------- MODULE ResourceManager --------------------------
(***************************************************************************)
(* The resource manager of pcscd for one reader: the calls of winscard.c   *)
(* as the threads of winscard_svc.c make them for their clients, the       *)
(* sharing counter, transaction lock and handle list of readerfactory.c,   *)
(* and the status thread of eventhandler.c.                                *)
(*                                                                         *)
(* A client is a connection and the thread that serves it.  A call is cut  *)
(* where another thread can be seen: between the calls to the driver, at   *)
(* the locks and at the waits; a step does everything the code does up to  *)
(* the next of these points.                                               *)
(*                                                                         *)
(* Handles are random numbers in the code; here a new handle is one that   *)
(* no list holds.  Bounds: the sets Clients and Handles, and the limits    *)
(* maxReaderHandles and contextMaxCardHandles.                             *)
(***************************************************************************)
EXTENDS AtrHandler, FiniteSets

CONSTANTS
  Clients,               \* connections of applications
  Handles,               \* values of SCARDHANDLE
  NoHandle,              \* the value 0
  Atrs,                  \* answers to reset of the cards of the users
  maxReaderHandles,      \* handles of one reader
  contextMaxCardHandles, \* handles of one context
  ShareModes,            \* share modes the applications ask for
  Preferences,           \* sets of protocols they accept
  Dispositions,          \* what they ask for the card when they leave it
  DriverAnswers,         \* what the driver answers to power and PTS requests
  ReaderFails,           \* whether the reader may stop answering for a while
  MaxLockCount           \* bound on the depth of a lock

NoAtr == <<>>
SCARD_PROTOCOL_UNDEFINED == UNDEFINED
EXCLUSIVE_CONTEXT == -1

ASSUME HandleAssumption == NoHandle \notin Handles /\ IsFiniteSet(Handles)
ASSUME AtrAssumption == NoAtr \notin Atrs
ASSUME LimitAssumption ==
  maxReaderHandles \in Nat \ {0} /\ contextMaxCardHandles \in Nat \ {0}
ASSUME RequestAssumption ==
  /\ ShareModes \subseteq {"SHARED", "EXCLUSIVE", "DIRECT"}
  /\ Preferences \subseteq SUBSET {"T0", "T1", "RAW", "ANY_OLD"}
  /\ Dispositions \subseteq {"LEAVE", "RESET", "UNPOWER", "EJECT"}
  /\ DriverAnswers \subseteq {"SUCCESS", "NOT_SUPPORTED", "ERROR"}
  /\ ReaderFails \in BOOLEAN
  /\ MaxLockCount \in Nat \ {0}

VARIABLES
  \* READER_CONTEXT and its public state
  contexts,      \* number of open contexts, -1 for an exclusive one
  hLockId,       \* handle that has the reader locked
  LockCount,     \* depth of its lock
  powerState,    \* UNPOWERED, POWERED, GRACE_PERIOD, INUSE
  readerState,   \* NONE before the first look, UNKNOWN, ABSENT, POWERED, SWALLOWED
  cardProtocol,  \* protocol negotiated with the card
  cardAtr,       \* last ATR read
  handlesList,   \* what each handle has to be told, or "closed"
  \* threads
  pc,            \* where the thread of each client is
  call,          \* the request it serves
  hContext,      \* whether the client has a context
  cardsList,     \* handles of the context
  hCard,         \* handle of the current call
  snap,          \* readerState as SCardConnect has read it
  ehPc,          \* where the status thread is
  dwCurrentState,\* what it believes of the card
  \* the slot of the reader
  inserted,      \* ATR of the card in the slot
  powered,       \* whether that card is powered
  \* history
  overlapped,    \* two calls have been in progress at the same time
  txn,           \* handles whose application has a transaction, as far as it knows
  stale          \* handles whose card another call has reset since they (re)connected

readerVars == <<contexts, hLockId, LockCount, powerState, readerState, cardProtocol, cardAtr, handlesList>>
threadVars == <<pc, call, hContext, cardsList, hCard, snap>>
statusVars == <<ehPc, dwCurrentState>>
slotVars == <<inserted, powered>>
historyVars == <<overlapped, txn, stale>>
vars == <<readerVars, threadVars, statusVars, slotVars, historyVars>>

Call(name, share, preferred, disposition) ==
  [name |-> name, share |-> share, preferred |-> preferred, disposition |-> disposition]
NoCall == Call("none", "SHARED", {}, "LEAVE")

Calls ==
  [name : {"none", "CONNECT", "RECONNECT", "DISCONNECT", "BEGIN", "END", "TRANSMIT", "RELEASE", "DIE"},
   share : ShareModes \cup {"SHARED"},
   preferred : Preferences \cup {{}},
   disposition : Dispositions \cup {"LEAVE", "RESET"}]

\* Handles in the reader's list.
Open == {h \in Handles : handlesList[h] # "closed"}
Busy(c) == pc[c] \notin {"free", "idle"}
Overlaps(c) == \E d \in Clients \ {c} : Busy(d)

Steps == {"free", "idle", "connect_wait", "connect_power", "connect_protocol", "connect_share",
          "reconnect_power", "reconnect_protocol", "reconnect_share", "disconnect_wait",
          "disconnect_unlock", "disconnect_power", "disconnect_close", "disconnect_grace",
          "end_power", "end_unlock", "transmit", "spin", "release"}
ReaderStates == {"NONE", "UNKNOWN", "ABSENT", "POWERED", "SWALLOWED"}

SharingTypeOK ==
  /\ contexts \in Int /\ contexts >= EXCLUSIVE_CONTEXT
  /\ hLockId \in Handles \cup {NoHandle}
  /\ LockCount \in Nat
  /\ handlesList \in [Handles -> {"closed", "none", "RESET", "REMOVED"}]
  /\ overlapped \in BOOLEAN
  /\ txn \in SUBSET Handles
  /\ stale \in SUBSET Handles

ThreadTypeOK ==
  /\ pc \in [Clients -> Steps]
  /\ call \in [Clients -> Calls]
  /\ hContext \in [Clients -> BOOLEAN]
  /\ cardsList \in [Clients -> SUBSET Handles]
  /\ hCard \in [Clients -> Handles \cup {NoHandle}]
  /\ snap \in [Clients -> ReaderStates]

SlotTypeOK ==
  /\ powerState \in {"UNPOWERED", "POWERED", "GRACE_PERIOD", "INUSE"}
  /\ readerState \in ReaderStates
  /\ cardAtr \in Atrs \cup {NoAtr}
  /\ ehPc \in {"start", "poll", "wait"}
  /\ dwCurrentState \in {"UNKNOWN", "ABSENT", "PRESENT"}
  /\ inserted \in Atrs \cup {NoAtr}
  /\ powered \in BOOLEAN

\* The state of the reader, of the threads and of the slot has its type.
RMTypeOK == SharingTypeOK /\ ThreadTypeOK /\ SlotTypeOK

Init ==
  /\ contexts = 0 /\ hLockId = NoHandle /\ LockCount = 0
  /\ powerState = "UNPOWERED" /\ readerState = "NONE"
  /\ cardProtocol = SCARD_PROTOCOL_UNDEFINED /\ cardAtr = NoAtr
  /\ handlesList = [h \in Handles |-> "closed"]
  /\ pc = [c \in Clients |-> "free"]
  /\ call = [c \in Clients |-> NoCall]
  /\ hContext = [c \in Clients |-> FALSE]
  /\ cardsList = [c \in Clients |-> {}]
  /\ hCard = [c \in Clients |-> NoHandle]
  /\ snap = [c \in Clients |-> "NONE"]
  /\ ehPc = "start" /\ dwCurrentState = "ABSENT"
  /\ inserted \in Atrs \cup {NoAtr} /\ powered = FALSE
  /\ overlapped = FALSE
  /\ txn = {}
  /\ stale = {}
-----------------------------------------------------------------------------
(***************************************************************************)
(* The slot and the driver.                                                *)
(***************************************************************************)
InsertCard ==
  /\ inserted = NoAtr
  /\ inserted' \in Atrs
  /\ UNCHANGED <<readerVars, threadVars, statusVars, powered, historyVars>>

RemoveCard ==
  /\ inserted # NoAtr
  /\ inserted' = NoAtr
  /\ powered' = FALSE
  /\ UNCHANGED <<readerVars, threadVars, statusVars, historyVars>>

\* IFDPowerICC with IFD_POWER_UP or IFD_RESET: it looks for the card first,
\* and an error leaves no ATR.  A card that answers has lost its state.
IFDPowerICC(rv) ==
  CASE rv = "SCARD_W_REMOVED_CARD" ->
         inserted = NoAtr /\ powered' = powered
    [] rv = "SCARD_E_NOT_TRANSACTED" ->
         inserted # NoAtr /\ "ERROR" \in DriverAnswers /\ powered' = FALSE
    [] rv = "SCARD_S_SUCCESS" ->
         inserted # NoAtr /\ powered' = TRUE

PowerResults == {"SCARD_W_REMOVED_CARD", "SCARD_E_NOT_TRANSACTED", "SCARD_S_SUCCESS"}

\* The handles that do not know yet that the card starts from its reset.
ResetCard(rv) == IF rv = "SCARD_S_SUCCESS" THEN Open ELSE {}

\* The masks read from an ATR; without ATR they are what the stack held.
Decoded(atr) ==
  IF atr = NoAtr
  THEN {[available |-> a, current |-> p] :
          a \in SUBSET {"T0", "T1"}, p \in {"T0", "T1", SCARD_PROTOCOL_UNDEFINED}}
  ELSE LET d == ATRDecodeAtr(atr) IN {[available |-> d.available, current |-> d.current]}

\* A protocol is negotiated with a card that is powered.
IFDSetPTS == IF powered THEN DriverAnswers ELSE {"ERROR"}

\* The section of SCardConnect and SCardReconnect that holds mMutex: what it
\* leaves in cardProtocol, and whether the call goes on.
Negotiations(preferred) ==
  IF "RAW" \in preferred THEN {[ok |-> TRUE, protocol |-> "RAW"]}
  ELSE IF cardProtocol # SCARD_PROTOCOL_UNDEFINED
  THEN {[ok |-> cardProtocol \in preferred, protocol |-> cardProtocol]}
  ELSE {LET ret == PHSetProtocol(IF "ANY_OLD" \in preferred THEN {"T0", "T1"} ELSE preferred,
                                 d.available, d.current, pts)
            ok == ret \notin {PPS_FAILED, WRONG_ARGUMENT}
        IN  [ok |-> ok, protocol |-> IF ok THEN ret ELSE cardProtocol] :
          d \in Decoded(cardAtr), pts \in IFDSetPTS}
-----------------------------------------------------------------------------
(***************************************************************************)
(* The lock, the handle list and the events of readerfactory.c.            *)
(***************************************************************************)
RFCheckSharing(h) == hLockId \in {NoHandle, h}

\* Reconnections can make the lock deeper and deeper: MaxLockCount bounds it.
RFLockSharing(h) ==
  IF RFCheckSharing(h)
  THEN LockCount < MaxLockCount /\ LockCount' = LockCount + 1 /\ hLockId' = h
  ELSE UNCHANGED <<LockCount, hLockId>>

\* Mutant: the lock of another handle is given back too.
RFUnlockSharingAnyone(h) ==
  /\ LockCount' = IF LockCount > 0 THEN LockCount - 1 ELSE 0
  /\ hLockId' = IF LockCount <= 1 THEN NoHandle ELSE hLockId

RFUnlockSharing(h) ==
  IF RFCheckSharing(h)
  THEN /\ LockCount' = IF LockCount > 0 THEN LockCount - 1 ELSE 0
       /\ hLockId' = IF LockCount <= 1 THEN NoHandle ELSE hLockId
  ELSE UNCHANGED <<LockCount, hLockId>>

\* Mutant: one level of the lock is given back, not all.
RFUnlockOneSharing(h) == RFUnlockSharing(h)

RFUnlockAllSharing(h) ==
  IF RFCheckSharing(h)
  THEN LockCount' = 0 /\ hLockId' = NoHandle
  ELSE UNCHANGED <<LockCount, hLockId>>

\* Mutant: the handle that has the lock is not told.
RFSetReaderEventStateOnce(event) ==
  [h \in Handles |-> IF h \in Open /\ h # hLockId THEN event ELSE handlesList[h]]

\* Every handle of the reader is to be told of the event.
RFSetReaderEventState(event) == [h \in Handles |-> IF h \in Open THEN event ELSE "closed"]

\* A random handle that is not used, and that nobody remembers.
RFCreateReaderHandle ==
  {h \in Handles \ Open : h # hLockId /\ \A c \in Clients : h \notin cardsList[c] /\ h # hCard[c]}

RFAddReaderHandle == Cardinality(Open) < maxReaderHandles
-----------------------------------------------------------------------------
(***************************************************************************)
(* The thread of a client, between its calls.                              *)
(***************************************************************************)
Goto(c, where) ==
  /\ pc' = [pc EXCEPT ![c] = where]
  /\ UNCHANGED <<call, hContext, cardsList, hCard, snap>>

\* The thread goes to the first step of a call; a call may find others in
\* progress.
Serve(c, request, h, where) ==
  /\ pc' = [pc EXCEPT ![c] = where]
  /\ call' = [call EXCEPT ![c] = request]
  /\ hCard' = [hCard EXCEPT ![c] = h]
  /\ overlapped' = (overlapped \/ Overlaps(c))
  /\ UNCHANGED <<hContext, cardsList>>

\* The answer is sent; cards is what the context then has.
Answer(c, cards) ==
  /\ pc' = [pc EXCEPT ![c] = "idle"]
  /\ call' = [call EXCEPT ![c] = NoCall]
  /\ hCard' = [hCard EXCEPT ![c] = NoHandle]
  /\ snap' = [snap EXCEPT ![c] = "NONE"]
  /\ cardsList' = [cardsList EXCEPT ![c] = cards]
  /\ UNCHANGED hContext

\* MSGCheckHandleAssociation, for an application that names its own handles;
\* RFReaderInfoById finds the reader.
Owns(c, h) == pc[c] = "idle" /\ hContext[c] /\ h \in cardsList[c] /\ h \in Open

\* A connection, its thread and its SCardEstablishContext.
SCardEstablishContext(c) ==
  /\ pc[c] = "free"
  /\ pc' = [pc EXCEPT ![c] = "idle"]
  /\ hContext' = [hContext EXCEPT ![c] = TRUE]
  /\ UNCHANGED <<readerVars, call, cardsList, hCard, snap, statusVars, slotVars, historyVars>>
-----------------------------------------------------------------------------
(***************************************************************************)
(* SCardConnect.  A call that is refused before its first wait changes     *)
(* nothing.                                                                *)
(***************************************************************************)
\* Where the call goes when nobody has the lock: the presence of a card and
\* its power matter to a connection that is not DIRECT.
ConnectTarget(share) ==
  IF share = "DIRECT" THEN "connect_protocol"
  ELSE IF readerState \in {"POWERED", "SWALLOWED"} THEN "connect_power" ELSE "refused"

ConnectCheck(c, share, preferred) ==
  LET where == IF hLockId = NoHandle THEN ConnectTarget(share) ELSE "connect_wait"
  IN  /\ pc[c] = "idle" /\ hContext[c]
      /\ share # "DIRECT" => preferred # {}
      /\ readerState # "UNKNOWN"
      /\ contexts # EXCLUSIVE_CONTEXT
      /\ where # "refused"
      /\ Serve(c, Call("CONNECT", share, preferred, "LEAVE"), NoHandle, where)
      /\ snap' = [snap EXCEPT ![c] = IF where = "connect_power" THEN readerState ELSE @]
      /\ UNCHANGED <<readerVars, statusVars, slotVars, txn, stale>>

\* A transaction has ended, or the card has gone, while the call waited.
ConnectWait(c) ==
  /\ pc[c] = "connect_wait"
  /\ hLockId = NoHandle
  /\ LET where == ConnectTarget(call[c].share)
     IN  IF where = "refused" THEN Answer(c, cardsList[c])
         ELSE /\ pc' = [pc EXCEPT ![c] = where]
              /\ snap' = [snap EXCEPT ![c] = IF where = "connect_power" THEN readerState ELSE @]
              /\ UNCHANGED <<call, hContext, cardsList, hCard>>
  /\ UNCHANGED <<readerVars, statusVars, slotVars, historyVars>>

\* The card is powered again when the status thread has powered it down.  A
\* failure stops the call only if the reader's state did not say POWERED.
ConnectPower(c) ==
  /\ pc[c] = "connect_power"
  /\ \E rv \in PowerResults :
       LET up == powerState = "UNPOWERED"
           state == IF up /\ rv = "SCARD_S_SUCCESS" THEN "POWERED" ELSE snap[c]
       IN  /\ IF up THEN IFDPowerICC(rv)
                    ELSE rv = "SCARD_S_SUCCESS" /\ UNCHANGED powered
           /\ cardAtr' = CASE up /\ rv = "SCARD_S_SUCCESS" -> inserted
                           [] up /\ rv = "SCARD_E_NOT_TRANSACTED" -> NoAtr
                           [] OTHER -> cardAtr
           /\ IF state = "POWERED"
              THEN powerState' = "INUSE" /\ Goto(c, "connect_protocol")
              ELSE powerState' = powerState /\ Answer(c, cardsList[c])
  /\ UNCHANGED <<contexts, hLockId, LockCount, readerState, cardProtocol, handlesList,
                 statusVars, inserted, historyVars>>

ConnectProtocol(c) ==
  /\ pc[c] = "connect_protocol"
  /\ IF call[c].share = "DIRECT" /\ "RAW" \notin call[c].preferred
     THEN UNCHANGED cardProtocol /\ Goto(c, "connect_share")
     ELSE \E n \in Negotiations(call[c].preferred) :
            /\ cardProtocol' = n.protocol
            /\ IF n.ok THEN Goto(c, "connect_share") ELSE Answer(c, cardsList[c])
  /\ UNCHANGED <<contexts, hLockId, LockCount, powerState, readerState, cardAtr, handlesList,
                 statusVars, slotVars, historyVars>>

\* A new handle, the sharing counter and the handle list; then the handle is
\* put in the list of the context (MSGAddHandle), which may be full: the
\* application is told of an error, and the handle stays.
ConnectNew(c, h) ==
  LET exclusive == call[c].share = "EXCLUSIVE"
      added == RFAddReaderHandle
      kept == added /\ Cardinality(cardsList[c]) < contextMaxCardHandles
  IN  IF exclusive /\ contexts # 0
      THEN Answer(c, cardsList[c]) /\ UNCHANGED <<contexts, hLockId, LockCount, handlesList, txn, stale>>
      ELSE /\ contexts' = IF added THEN (IF exclusive THEN EXCLUSIVE_CONTEXT ELSE contexts + 1)
                          ELSE IF exclusive \/ contexts = EXCLUSIVE_CONTEXT THEN 0 ELSE contexts
           /\ IF exclusive THEN RFLockSharing(h) ELSE UNCHANGED <<hLockId, LockCount>>
           /\ handlesList' = [handlesList EXCEPT ![h] = IF added THEN "none" ELSE @]
           /\ txn' = txn \cup IF exclusive /\ kept /\ RFCheckSharing(h) THEN {h} ELSE {}
           /\ stale' = stale \ {h}
           /\ Answer(c, cardsList[c] \cup IF kept THEN {h} ELSE {})

ConnectShare(c) ==
  /\ pc[c] = "connect_share"
  /\ \E h \in RFCreateReaderHandle : ConnectNew(c, h)
  /\ UNCHANGED <<powerState, readerState, cardProtocol, cardAtr, statusVars, slotVars, overlapped>>
-----------------------------------------------------------------------------
(***************************************************************************)
(* SCardReconnect.                                                         *)
(***************************************************************************)
ReconnectCheck(c, h, share, preferred, initialization) ==
  /\ Owns(c, h)
  /\ share # "DIRECT" => preferred # {}
  /\ initialization # "EJECT"
  /\ readerState # "UNKNOWN"
  /\ RFCheckSharing(h)
  /\ initialization = "LEAVE" => readerState \notin {"ABSENT", "SWALLOWED"}
  /\ handlesList' = IF initialization = "LEAVE" THEN handlesList ELSE RFSetReaderEventState("RESET")
  /\ Serve(c, Call("RECONNECT", share, preferred, initialization), h,
           IF initialization = "LEAVE" THEN "reconnect_protocol" ELSE "reconnect_power")
  /\ UNCHANGED <<contexts, hLockId, LockCount, powerState, readerState, cardProtocol, cardAtr,
                 snap, statusVars, slotVars, txn, stale>>

\* What SCardReconnect, SCardDisconnect and SCardEndTransaction note of a
\* card they have reset.
NotePower(rv) ==
  /\ IFDPowerICC(rv)
  /\ cardProtocol' = SCARD_PROTOCOL_UNDEFINED
  /\ cardAtr' = IF rv = "SCARD_S_SUCCESS" THEN inserted ELSE NoAtr
  /\ readerState' = CASE rv = "SCARD_S_SUCCESS" -> "POWERED"
                      [] rv = "SCARD_W_REMOVED_CARD" -> "ABSENT"
                      [] OTHER -> "SWALLOWED"
  /\ stale' = stale \cup ResetCard(rv)
  /\ UNCHANGED inserted

ReconnectPower(c) ==
  /\ pc[c] = "reconnect_power"
  /\ \E rv \in PowerResults :
       /\ NotePower(rv)
       /\ IF rv = "SCARD_S_SUCCESS" THEN Goto(c, "reconnect_protocol") ELSE Answer(c, cardsList[c])
  /\ UNCHANGED <<contexts, hLockId, LockCount, powerState, handlesList, statusVars, overlapped, txn>>

ReconnectProtocol(c) ==
  /\ pc[c] = "reconnect_protocol"
  /\ IF call[c].share = "DIRECT" /\ "RAW" \notin call[c].preferred
     THEN UNCHANGED cardProtocol /\ Goto(c, "reconnect_share")
     ELSE \E n \in Negotiations(call[c].preferred) :
            /\ cardProtocol' = n.protocol
            /\ IF n.ok THEN Goto(c, "reconnect_share") ELSE Answer(c, cardsList[c])
  /\ UNCHANGED <<contexts, hLockId, LockCount, powerState, readerState, cardAtr, handlesList,
                 statusVars, slotVars, historyVars>>

\* An exclusive connection needs to be the last one; a shared one gives one
\* level of the lock back.
ReconnectShare(c) ==
  /\ pc[c] = "reconnect_share"
  /\ LET h == hCard[c]
         exclusive == call[c].share = "EXCLUSIVE"
         refused == exclusive /\ contexts \notin {EXCLUSIVE_CONTEXT, 1}
         locks == exclusive /\ contexts = 1
         unlocks == ~exclusive /\ contexts = EXCLUSIVE_CONTEXT
     IN  /\ contexts' = IF locks THEN EXCLUSIVE_CONTEXT ELSE IF unlocks THEN 1 ELSE contexts
         /\ CASE locks -> RFLockSharing(h)
              [] unlocks -> RFUnlockSharing(h)
              [] OTHER -> UNCHANGED <<hLockId, LockCount>>
         /\ txn' = CASE locks /\ RFCheckSharing(h) -> txn \cup {h}
                     [] unlocks /\ RFCheckSharing(h) /\ LockCount <= 1 -> txn \ {h}
                     [] OTHER -> txn
         /\ handlesList' = [handlesList EXCEPT ![h] = IF refused \/ @ = "closed" THEN @ ELSE "none"]
         /\ stale' = IF refused THEN stale ELSE stale \ {h}
  /\ Answer(c, cardsList[c])
  /\ UNCHANGED <<powerState, readerState, cardProtocol, cardAtr, statusVars, slotVars, overlapped>>
------------------------------------------------------------------------------
(***************************************************************************)
(* SCardDisconnect, which a context that is removed also calls for each of *)
(* its handles.                                                            *)
(***************************************************************************)
Resets(disposition) == disposition \in {"RESET", "UNPOWER"}

\* The handle leaves the list of its context when the call succeeds
\* (MSGRemoveHandle), or whatever the call says when the context is removed.
EndDisconnect(c, success) ==
  IF call[c].name = "DISCONNECT"
  THEN Answer(c, IF success THEN cardsList[c] \ {hCard[c]} ELSE cardsList[c])
  ELSE /\ pc' = [pc EXCEPT ![c] = "release"]
       /\ cardsList' = [cardsList EXCEPT ![c] = @ \ {hCard[c]}]
       /\ hCard' = [hCard EXCEPT ![c] = NoHandle]
       /\ UNCHANGED <<call, hContext, snap>>

\* A call that is to reset the card waits for the transaction of another.
DisconnectTarget(h, disposition) ==
  IF disposition # "LEAVE" /\ ~RFCheckSharing(h) THEN "disconnect_wait" ELSE "disconnect_unlock"

SCardDisconnect(c, h, disposition) ==
  /\ Owns(c, h)
  /\ Serve(c, Call("DISCONNECT", "SHARED", {}, disposition), h, DisconnectTarget(h, disposition))
  /\ UNCHANGED <<readerVars, statusVars, slotVars, snap, txn, stale>>

DisconnectWait(c) ==
  /\ pc[c] = "disconnect_wait"
  /\ hLockId = NoHandle
  /\ Goto(c, "disconnect_unlock")
  /\ UNCHANGED <<readerVars, statusVars, slotVars, historyVars>>

\* Another handle may have taken the lock since the wait: the call then
\* fails, unless it leaves the card as it is.
DisconnectUnlock(c) ==
  /\ pc[c] = "disconnect_unlock"
  /\ LET h == hCard[c]
         resets == Resets(call[c].disposition)
         goesOn == RFCheckSharing(h) \/ call[c].disposition = "LEAVE"
     IN  /\ RFUnlockAllSharing(h)
         /\ txn' = IF RFCheckSharing(h) THEN txn \ {h} ELSE txn
         /\ handlesList' = IF goesOn /\ resets THEN RFSetReaderEventState("RESET") ELSE handlesList
         /\ IF goesOn
            THEN Goto(c, IF resets THEN "disconnect_power" ELSE "disconnect_close")
            ELSE EndDisconnect(c, FALSE)
  /\ UNCHANGED <<contexts, powerState, readerState, cardProtocol, cardAtr, statusVars, slotVars,
                 overlapped, stale>>

DisconnectPower(c) ==
  /\ pc[c] = "disconnect_power"
  /\ \E rv \in PowerResults : NotePower(rv)
  /\ Goto(c, "disconnect_close")
  /\ UNCHANGED <<contexts, hLockId, LockCount, powerState, handlesList, statusVars, overlapped, txn>>

\* Mutant: the mark of an exclusive connection is not counted down.
ContextClosedShared(count) == IF count > 0 THEN count - 1 ELSE count

\* The sharing counter when a handle is closed.
ContextClosed(count) == IF count <= 0 THEN 0 ELSE count - 1

DisconnectClose(c) ==
  /\ pc[c] = "disconnect_close"
  /\ handlesList' = [handlesList EXCEPT ![hCard[c]] = "closed"]
  /\ contexts' = ContextClosed(contexts)
  /\ txn' = txn \ {hCard[c]}
  /\ stale' = stale \ {hCard[c]}
  /\ IF ContextClosed(contexts) = 0 THEN Goto(c, "disconnect_grace") ELSE EndDisconnect(c, TRUE)
  /\ UNCHANGED <<hLockId, LockCount, powerState, readerState, cardProtocol, cardAtr,
                 statusVars, slotVars, overlapped>>

\* The last handle is closed: the card will be powered down.
DisconnectGrace(c) ==
  /\ pc[c] = "disconnect_grace"
  /\ powerState' = IF powerState = "UNPOWERED" THEN powerState ELSE "GRACE_PERIOD"
  /\ EndDisconnect(c, TRUE)
  /\ UNCHANGED <<contexts, hLockId, LockCount, readerState, cardProtocol, cardAtr, handlesList,
                 statusVars, slotVars, historyVars>>
-----------------------------------------------------------------------------
(***************************************************************************)
(* Transactions and commands.  SCardStatus, SCardControl and the calls on  *)
(* attributes change nothing here.                                         *)
(***************************************************************************)
SCardBeginTransaction(c, h) ==
  /\ Owns(c, h)
  /\ readerState # "UNKNOWN"
  /\ handlesList[h] = "none"
  /\ RFCheckSharing(h)
  /\ RFLockSharing(h)
  /\ txn' = txn \cup {h}
  /\ overlapped' = (overlapped \/ Overlaps(c))
  /\ UNCHANGED <<contexts, powerState, readerState, cardProtocol, cardAtr, handlesList, threadVars,
                 statusVars, slotVars, stale>>

\* RFUnlockSharing at the end of a transaction, as the application sees it.
LeaveTransaction(h) ==
  /\ RFUnlockSharing(h)
  /\ txn' = IF LockCount <= 1 \/ hLockId # h THEN txn \ {h} ELSE txn

\* Nothing asks whether the handle has the lock.
SCardEndTransaction(c, h, disposition) ==
  /\ Owns(c, h)
  /\ handlesList[h] = "none"
  /\ IF disposition = "LEAVE"
     THEN /\ LeaveTransaction(h)
          /\ overlapped' = (overlapped \/ Overlaps(c))
          /\ UNCHANGED threadVars
     ELSE /\ Serve(c, Call("END", "SHARED", {}, disposition), h,
                   IF Resets(disposition) THEN "end_power" ELSE "end_unlock")
          /\ UNCHANGED <<hLockId, LockCount, snap, txn>>
  /\ UNCHANGED <<contexts, powerState, readerState, cardProtocol, cardAtr, handlesList,
                 statusVars, slotVars, stale>>

EndPower(c) ==
  /\ pc[c] = "end_power"
  /\ \E rv \in PowerResults : NotePower(rv)
  /\ handlesList' = RFSetReaderEventState("RESET")
  /\ Goto(c, "end_unlock")
  /\ UNCHANGED <<contexts, hLockId, LockCount, powerState, statusVars, overlapped, txn>>

EndUnlock(c) ==
  /\ pc[c] = "end_unlock"
  /\ LeaveTransaction(hCard[c])
  /\ Answer(c, cardsList[c])
  /\ UNCHANGED <<contexts, powerState, readerState, cardProtocol, cardAtr, handlesList,
                 statusVars, slotVars, overlapped, stale>>

\* The protocol number of SCARD_PROTOCOL_ANY_OLD is found by shifting the
\* mask until it is 1: without a negotiated protocol the loop does not end.
SCardTransmit(c, h, protocol) ==
  /\ Owns(c, h)
  /\ RFCheckSharing(h)
  /\ readerState # "UNKNOWN"
  /\ handlesList[h] = "none"
  /\ protocol # "RAW" => readerState # "ABSENT" /\ protocol \in {"ANY_OLD", cardProtocol}
  /\ Serve(c, Call("TRANSMIT", "SHARED", {}, "LEAVE"), h,
           IF protocol = "ANY_OLD" /\ cardProtocol = SCARD_PROTOCOL_UNDEFINED
           THEN "spin" ELSE "transmit")
  /\ UNCHANGED <<readerVars, statusVars, slotVars, snap, txn, stale>>

\* The command reaches the card, if there is one that is powered.
Transmitted(c) ==
  /\ pc[c] = "transmit"
  /\ Answer(c, cardsList[c])
  /\ UNCHANGED <<readerVars, statusVars, slotVars, historyVars>>
-----------------------------------------------------------------------------
(***************************************************************************)
(* The end of a context: SCardReleaseContext, or a connection that is      *)
(* closed.                                                                 *)
(***************************************************************************)
SCardReleaseContext(c) ==
  /\ pc[c] = "idle" /\ hContext[c]
  /\ Serve(c, Call("RELEASE", "SHARED", {}, "LEAVE"), NoHandle, "release")
  /\ UNCHANGED <<readerVars, statusVars, slotVars, snap, txn, stale>>

\* The thread cannot read from its client any more (MSGCleanupClient).
ClientDies(c) ==
  /\ pc[c] = "idle"
  /\ IF hContext[c]
     THEN Serve(c, Call("DIE", "SHARED", {}, "LEAVE"), NoHandle, "release") /\ UNCHANGED snap
     ELSE Goto(c, "free") /\ UNCHANGED overlapped
  /\ UNCHANGED <<readerVars, statusVars, slotVars, txn, stale>>

\* One handle of MSGRemoveContext: the reader's lock is taken away from
\* whoever has it, and the card is reset if the handle had the lock and has
\* no event to be told (SCardStatus).
RemoveContextHandle(c) ==
  /\ pc[c] = "release"
  /\ \E h \in cardsList[c] \cap Open :
       /\ hLockId' = NoHandle
       /\ txn' = txn \ {hLockId}
       /\ call' = [call EXCEPT ![c].disposition =
                     IF hLockId = h /\ handlesList[h] = "none" THEN "RESET" ELSE "LEAVE"]
       /\ hCard' = [hCard EXCEPT ![c] = h]
  /\ pc' = [pc EXCEPT ![c] = "disconnect_unlock"]
  /\ UNCHANGED <<contexts, LockCount, powerState, readerState, cardProtocol, cardAtr, handlesList,
                 hContext, cardsList, snap, statusVars, slotVars, overlapped, stale>>

RemoveContextEnd(c) ==
  /\ pc[c] = "release" /\ cardsList[c] = {}
  /\ pc' = [pc EXCEPT ![c] = IF call[c].name = "RELEASE" THEN "idle" ELSE "free"]
  /\ hContext' = [hContext EXCEPT ![c] = FALSE]
  /\ call' = [call EXCEPT ![c] = NoCall]
  /\ UNCHANGED <<readerVars, cardsList, hCard, snap, statusVars, slotVars, historyVars>>
-----------------------------------------------------------------------------
(***************************************************************************)
(* EHStatusHandlerThread.                                                  *)
(***************************************************************************)
\* A card is there: it is powered, and is then to be used or powered down.
StatusPowerUp ==
  /\ \E rv \in {"SCARD_S_SUCCESS", "SCARD_E_NOT_TRANSACTED"} :
       LET ok == rv = "SCARD_S_SUCCESS"
       IN  /\ IFDPowerICC(rv)
           /\ cardAtr' = IF ok THEN inserted ELSE NoAtr
           /\ readerState' = IF ok THEN "POWERED" ELSE "SWALLOWED"
           /\ powerState' = IF ok THEN "POWERED" ELSE "UNPOWERED"
  /\ cardProtocol' = SCARD_PROTOCOL_UNDEFINED
  /\ dwCurrentState' = "PRESENT"

StatusStart ==
  /\ ehPc = "start"
  /\ ehPc' = "poll"
  /\ \/ /\ inserted # NoAtr
        /\ StatusPowerUp
     \/ /\ inserted = NoAtr
        /\ readerState' = "ABSENT" /\ cardAtr' = NoAtr
        /\ cardProtocol' = SCARD_PROTOCOL_UNDEFINED
        /\ dwCurrentState' = "ABSENT"
        /\ UNCHANGED <<powerState, powered>>
  /\ UNCHANGED <<contexts, hLockId, LockCount, handlesList, threadVars, inserted, historyVars>>

\* The reader does not answer.
StatusError ==
  /\ ReaderFails
  /\ readerState' = "UNKNOWN" /\ cardAtr' = NoAtr
  /\ cardProtocol' = SCARD_PROTOCOL_UNDEFINED
  /\ dwCurrentState' = "UNKNOWN"
  /\ UNCHANGED <<hLockId, LockCount, powerState, handlesList, powered, txn>>

\* The card is gone: every handle is to be told, and the lock is open.
StatusRemoved ==
  /\ inserted = NoAtr /\ dwCurrentState \in {"PRESENT", "UNKNOWN"}
  /\ handlesList' = RFSetReaderEventState("REMOVED")
  /\ hLockId' = NoHandle /\ LockCount' = 0
  /\ txn' = {}
  /\ readerState' = "ABSENT" /\ cardAtr' = NoAtr
  /\ cardProtocol' = SCARD_PROTOCOL_UNDEFINED
  /\ dwCurrentState' = "ABSENT"
  /\ UNCHANGED <<powerState, powered>>

StatusInserted ==
  /\ inserted # NoAtr /\ dwCurrentState \in {"ABSENT", "UNKNOWN"}
  /\ StatusPowerUp
  /\ UNCHANGED <<hLockId, LockCount, handlesList, txn>>

StatusSame ==
  /\ dwCurrentState = IF inserted = NoAtr THEN "ABSENT" ELSE "PRESENT"
  /\ UNCHANGED <<hLockId, LockCount, powerState, readerState, cardProtocol, cardAtr, handlesList,
                 powered, dwCurrentState, txn>>

StatusPoll ==
  /\ ehPc = "poll"
  /\ ehPc' = "wait"
  /\ StatusError \/ StatusRemoved \/ StatusInserted \/ StatusSame
  /\ UNCHANGED <<contexts, threadVars, inserted, overlapped, stale>>

\* After its sleep, under powerState_lock: a card that is powered and not
\* used is powered down, and one that was in use is so the next time.
StatusPowerOff ==
  /\ ehPc = "wait"
  /\ ehPc' = "poll"
  /\ powerState' = CASE powerState = "POWERED" -> "UNPOWERED"
                     [] powerState = "GRACE_PERIOD" -> "POWERED"
                     [] OTHER -> powerState
  /\ powered' = IF powerState = "POWERED" THEN FALSE ELSE powered
  /\ cardProtocol' = IF powerState = "POWERED" THEN SCARD_PROTOCOL_UNDEFINED ELSE cardProtocol
  /\ UNCHANGED <<contexts, hLockId, LockCount, readerState, cardAtr, handlesList, threadVars,
                 inserted, dwCurrentState, historyVars>>
-----------------------------------------------------------------------------
Connect(c) ==
  \/ \E share \in ShareModes, preferred \in Preferences : ConnectCheck(c, share, preferred)
  \/ ConnectWait(c) \/ ConnectPower(c) \/ ConnectProtocol(c) \/ ConnectShare(c)

Reconnect(c) ==
  \/ \E h \in Handles, share \in ShareModes, preferred \in Preferences, d \in Dispositions :
       ReconnectCheck(c, h, share, preferred, d)
  \/ ReconnectPower(c) \/ ReconnectProtocol(c) \/ ReconnectShare(c)

DisconnectSteps(c) ==
  \/ DisconnectWait(c) \/ DisconnectUnlock(c) \/ DisconnectPower(c)
  \/ DisconnectClose(c) \/ DisconnectGrace(c)

Transaction(c) ==
  \/ \E h \in Handles : SCardBeginTransaction(c, h)
  \/ \E h \in Handles, d \in Dispositions : SCardEndTransaction(c, h, d)
  \/ EndPower(c) \/ EndUnlock(c)
  \/ \E h \in Handles, protocol \in UNION Preferences : SCardTransmit(c, h, protocol)
  \/ Transmitted(c)

Context(c) ==
  \/ SCardEstablishContext(c) \/ SCardReleaseContext(c) \/ ClientDies(c)
  \/ RemoveContextHandle(c) \/ RemoveContextEnd(c)

Client(c) ==
  \/ Connect(c) \/ Reconnect(c) \/ Transaction(c) \/ Context(c)
  \/ \E h \in Handles, d \in Dispositions : SCardDisconnect(c, h, d)
  \/ DisconnectSteps(c)

StatusThread == StatusStart \/ StatusPoll \/ StatusPowerOff

Next ==
  \/ \E c \in Clients : Client(c)
  \/ StatusThread
  \/ InsertCard \/ RemoveCard

Spec == Init /\ [][Next]_vars
-----------------------------------------------------------------------------
(***************************************************************************)
(* Properties.                                                             *)
(***************************************************************************)
\* As long as the calls of the applications have not overlapped, the sharing
\* counter says how many handles are open, or that the only one is
\* exclusive: the next exclusive connection is then refused or granted for
\* the right reason (winscard.c:438, 693, 1000).
Settled == \A c \in Clients : ~Busy(c)
ContextsCountHandles ==
  ~overlapped /\ Settled =>
    \/ contexts = Cardinality(Open)
    \/ contexts = EXCLUSIVE_CONTEXT /\ Cardinality(Open) = 1

\* The lock of the reader is never left behind by a handle that is gone, as
\* long as the reader's list has room for every handle: a connection whose
\* handle the full list refuses keeps the lock it took (winscard.c:440-490).
LockHeldByOpenHandle == hLockId # NoHandle => hLockId \in Open

\* An application that has a transaction has the reader's lock, whatever the
\* other threads do: a transaction is only lost when its own handle ends it,
\* the card goes, or the context of another is removed (winscard_svc.c:783).
TransactionKept == \A h \in txn : hLockId = h

\* As long as the calls have not overlapped, an application whose card has
\* been reset by the call of another is told so before it can use the card
\* (RFSetReaderEventState, winscard.c:556, 862, 1145).
ResetIsTold == ~overlapped => \A h \in stale \cap Open : handlesList[h] # "none"
=============================================================================
