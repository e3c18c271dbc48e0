----------------------- MODULE ResourceManagerProofs -----------------------
(***************************************************************************)
(* Theorems about ResourceManager.tla, for any number of clients, handles  *)
(* and limits, and whatever the cards and the driver answer.               *)
(***************************************************************************)
EXTENDS ResourceManager, FiniteSetTheorems, TLAPS

-----------------------------------------------------------------------------
(***************************************************************************)
(* Who has which handle: no two contexts list the same one, a call is      *)
(* about a handle of its own context, and that handle stays open until the *)
(* call itself closes it.                                                  *)
(***************************************************************************)
HandleSteps == {"reconnect_power", "reconnect_protocol", "reconnect_share", "disconnect_wait",
                "disconnect_unlock", "disconnect_power", "disconnect_close", "disconnect_grace",
                "end_power", "end_unlock", "transmit", "spin"}

ListsApart == \A c, d \in Clients : c # d => cardsList[c] \cap cardsList[d] = {}

CallsOwn ==
  \A c \in Clients :
    /\ hCard[c] # NoHandle => hCard[c] \in cardsList[c]
    /\ pc[c] \in HandleSteps => hCard[c] # NoHandle
    /\ hCard[c] # NoHandle /\ pc[c] # "disconnect_grace" => hCard[c] \in Open

\* The inductive invariant the other ones rest on.
RMInv == RMTypeOK /\ ListsApart /\ CallsOwn
-----------------------------------------------------------------------------
(* Types.                                                                  *)

LEMMA CallType ==
  ASSUME NEW name \in {"none", "CONNECT", "RECONNECT", "DISCONNECT", "BEGIN", "END", "TRANSMIT", "RELEASE", "DIE"},
         NEW share \in ShareModes \cup {"SHARED"}, NEW preferred \in Preferences \cup {{}},
         NEW disposition \in Dispositions \cup {"LEAVE", "RESET"}
  PROVE  Call(name, share, preferred, disposition) \in Calls
BY DEF Call, Calls

LEMMA GotoType ==
  ASSUME ThreadTypeOK, NEW c \in Clients, NEW where \in Steps, Goto(c, where)
  PROVE  ThreadTypeOK'
BY DEF ThreadTypeOK, Goto

LEMMA ServeType ==
  ASSUME ThreadTypeOK, overlapped \in BOOLEAN, NEW c \in Clients, NEW request \in Calls,
         NEW h \in Handles \cup {NoHandle}, NEW where \in Steps, Serve(c, request, h, where)
  PROVE  snap' \in [Clients -> ReaderStates] => ThreadTypeOK' /\ overlapped' \in BOOLEAN
BY DEF ThreadTypeOK, Serve, Overlaps, Busy

LEMMA AnswerType ==
  ASSUME ThreadTypeOK, NEW c \in Clients, NEW cards \in SUBSET Handles, Answer(c, cards)
  PROVE  ThreadTypeOK'
<1>1. NoCall \in Calls
  BY CallType DEF NoCall
<1> QED
  BY <1>1 DEF ThreadTypeOK, Answer, Steps, ReaderStates

LEMMA EndDisconnectType ==
  ASSUME ThreadTypeOK, NEW c \in Clients, NEW success \in BOOLEAN, EndDisconnect(c, success)
  PROVE  ThreadTypeOK'
<1>1. /\ cardsList[c] \in SUBSET Handles
      /\ cardsList[c] \ {hCard[c]} \in SUBSET Handles
  BY DEF ThreadTypeOK
<1>2. CASE call[c].name = "DISCONNECT"
  BY <1>1, <1>2, AnswerType DEF EndDisconnect
<1>3. CASE call[c].name # "DISCONNECT"
  BY <1>1, <1>3 DEF EndDisconnect, ThreadTypeOK, Steps
<1> QED
  BY <1>2, <1>3

LEMMA LockType ==
  ASSUME SharingTypeOK, NEW h \in Handles
  PROVE  /\ RFLockSharing(h) => LockCount' \in Nat /\ hLockId' \in Handles \cup {NoHandle}
         /\ RFUnlockSharing(h) => LockCount' \in Nat /\ hLockId' \in Handles \cup {NoHandle}
         /\ RFUnlockAllSharing(h) => LockCount' \in Nat /\ hLockId' \in Handles \cup {NoHandle}
BY DEF SharingTypeOK, RFLockSharing, RFUnlockSharing, RFUnlockAllSharing

LEMMA EventType ==
  ASSUME NEW event \in {"none", "RESET", "REMOVED"}
  PROVE  RFSetReaderEventState(event) \in [Handles -> {"closed", "none", "RESET", "REMOVED"}]
BY DEF RFSetReaderEventState

LEMMA PowerType ==
  ASSUME SlotTypeOK, NEW rv \in PowerResults, IFDPowerICC(rv)
  PROVE  powered' \in BOOLEAN
BY DEF SlotTypeOK, PowerResults, IFDPowerICC

LEMMA NotePowerType ==
  ASSUME SlotTypeOK, SharingTypeOK, NEW rv \in PowerResults, NotePower(rv)
  PROVE  /\ powered' \in BOOLEAN /\ readerState' \in ReaderStates
         /\ cardAtr' \in Atrs \cup {NoAtr} /\ inserted' \in Atrs \cup {NoAtr}
         /\ stale' \in SUBSET Handles
<1>1. powered' \in BOOLEAN
  BY PowerType DEF NotePower
<1>2. readerState' \in ReaderStates
  BY DEF NotePower, ReaderStates
<1>3. cardAtr' \in Atrs \cup {NoAtr} /\ inserted' \in Atrs \cup {NoAtr}
  BY DEF NotePower, SlotTypeOK
<1>4. stale' \in SUBSET Handles
  BY DEF NotePower, SharingTypeOK, ResetCard, Open
<1> QED
  BY <1>1, <1>2, <1>3, <1>4

LEMMA ConnectType ==
  ASSUME RMTypeOK, NEW c \in Clients, Connect(c)
  PROVE  RMTypeOK'
<1> USE DEF RMTypeOK
<1>1. ASSUME NEW share \in ShareModes, NEW preferred \in Preferences, ConnectCheck(c, share, preferred)
      PROVE  RMTypeOK'
  <2> DEFINE where == IF hLockId = NoHandle THEN ConnectTarget(share) ELSE "connect_wait"
  <2>1. Call("CONNECT", share, preferred, "LEAVE") \in Calls
    BY CallType
  <2>2. where \in Steps
    BY <1>1 DEF ConnectCheck, ConnectTarget, Steps
  <2>3. snap' \in [Clients -> ReaderStates]
    BY <1>1 DEF ConnectCheck, ThreadTypeOK, SlotTypeOK
  <2>4. Serve(c, Call("CONNECT", share, preferred, "LEAVE"), NoHandle, where)
    BY <1>1 DEF ConnectCheck
  <2>5. ThreadTypeOK' /\ overlapped' \in BOOLEAN
    BY <2>1, <2>2, <2>3, <2>4, ServeType DEF SharingTypeOK
  <2> QED
    BY <1>1, <2>5 DEF ConnectCheck, SharingTypeOK, SlotTypeOK, readerVars, statusVars, slotVars
<1>2. ASSUME ConnectWait(c)
      PROVE  RMTypeOK'
  <2>1. cardsList[c] \in SUBSET Handles
    BY DEF ThreadTypeOK
  <2>2. ThreadTypeOK'
    BY <1>2, <2>1, AnswerType DEF ConnectWait, ConnectTarget, ThreadTypeOK, SlotTypeOK, Steps
  <2> QED
    BY <1>2, <2>2 DEF ConnectWait, SharingTypeOK, SlotTypeOK, readerVars, statusVars, slotVars, historyVars
<1>3. ASSUME ConnectPower(c)
      PROVE  RMTypeOK'
  <2>1. cardsList[c] \in SUBSET Handles
    BY DEF ThreadTypeOK
  <2>2. ThreadTypeOK'
    BY <1>3, <2>1, AnswerType, GotoType DEF ConnectPower, Steps
  <2>3. SlotTypeOK'
    BY <1>3, PowerType DEF ConnectPower, SlotTypeOK, statusVars
  <2> QED
    BY <1>3, <2>2, <2>3 DEF ConnectPower, SharingTypeOK, historyVars
<1>4. ASSUME ConnectProtocol(c)
      PROVE  RMTypeOK'
  <2>1. cardsList[c] \in SUBSET Handles
    BY DEF ThreadTypeOK
  <2>2. ThreadTypeOK'
    BY <1>4, <2>1, AnswerType, GotoType DEF ConnectProtocol, Steps
  <2> QED
    BY <1>4, <2>2 DEF ConnectProtocol, SharingTypeOK, SlotTypeOK, statusVars, slotVars, historyVars
<1>5. ASSUME ConnectShare(c)
      PROVE  RMTypeOK'
  <2>1. PICK h \in RFCreateReaderHandle : ConnectNew(c, h)
    BY <1>5 DEF ConnectShare
  <2>2. h \in Handles
    BY DEF RFCreateReaderHandle
  <2>3. ThreadTypeOK'
    <3>1. cardsList[c] \in SUBSET Handles
      BY DEF ThreadTypeOK
    <3>2. PICK cards \in SUBSET Handles : Answer(c, cards)
      BY <2>1, <2>2, <3>1 DEF ConnectNew
    <3> QED
      BY <3>2, AnswerType
  <2>4. SharingTypeOK'
    BY <1>5, <2>1, <2>2, LockType DEF ConnectShare, ConnectNew, SharingTypeOK, EXCLUSIVE_CONTEXT
  <2> QED
    BY <1>5, <2>3, <2>4 DEF ConnectShare, SlotTypeOK, statusVars, slotVars
<1> QED
  BY <1>1, <1>2, <1>3, <1>4, <1>5 DEF Connect

LEMMA ReconnectType ==
  ASSUME RMTypeOK, CallsOwn, NEW c \in Clients, Reconnect(c)
  PROVE  RMTypeOK'
<1> USE DEF RMTypeOK
<1>0. cardsList[c] \in SUBSET Handles /\ hCard[c] \in Handles \cup {NoHandle}
  BY DEF ThreadTypeOK
<1>1. ASSUME NEW h \in Handles, NEW share \in ShareModes, NEW preferred \in Preferences,
             NEW d \in Dispositions, ReconnectCheck(c, h, share, preferred, d)
      PROVE  RMTypeOK'
  <2> DEFINE where == IF d = "LEAVE" THEN "reconnect_protocol" ELSE "reconnect_power"
  <2>1. Call("RECONNECT", share, preferred, d) \in Calls
    BY CallType
  <2>2. where \in Steps
    BY DEF Steps
  <2>3. snap' \in [Clients -> ReaderStates]
    BY <1>1 DEF ReconnectCheck, ThreadTypeOK
  <2>4. Serve(c, Call("RECONNECT", share, preferred, d), h, where)
    BY <1>1 DEF ReconnectCheck
  <2>5. ThreadTypeOK' /\ overlapped' \in BOOLEAN
    BY <2>1, <2>2, <2>3, <2>4, ServeType DEF SharingTypeOK
  <2>6. handlesList' \in [Handles -> {"closed", "none", "RESET", "REMOVED"}]
    BY <1>1, EventType DEF ReconnectCheck, SharingTypeOK
  <2> QED
    BY <1>1, <2>5, <2>6 DEF ReconnectCheck, SharingTypeOK, SlotTypeOK, statusVars, slotVars
<1>2. ASSUME ReconnectPower(c)
      PROVE  RMTypeOK'
  <2>1. PICK rv \in PowerResults :
          /\ NotePower(rv)
          /\ IF rv = "SCARD_S_SUCCESS" THEN Goto(c, "reconnect_protocol") ELSE Answer(c, cardsList[c])
    BY <1>2 DEF ReconnectPower
  <2>2. ThreadTypeOK'
    BY <2>1, <1>0, AnswerType, GotoType DEF Steps
  <2> QED
    BY <1>2, <2>1, <2>2, NotePowerType DEF ReconnectPower, SharingTypeOK, SlotTypeOK, statusVars
<1>3. ASSUME ReconnectProtocol(c)
      PROVE  RMTypeOK'
  <2>1. ThreadTypeOK'
    BY <1>3, <1>0, AnswerType, GotoType DEF ReconnectProtocol, Steps
  <2> QED
    BY <1>3, <2>1 DEF ReconnectProtocol, SharingTypeOK, SlotTypeOK, statusVars, slotVars, historyVars
<1>4. ASSUME ReconnectShare(c)
      PROVE  RMTypeOK'
  <2>0. hCard[c] \in Handles
    BY <1>4, <1>0 DEF ReconnectShare, CallsOwn, HandleSteps
  <2>1. ThreadTypeOK'
    BY <1>4, <1>0, AnswerType DEF ReconnectShare
  <2>2. LockCount' \in Nat /\ hLockId' \in Handles \cup {NoHandle}
    BY <1>4, <2>0, LockType DEF ReconnectShare, SharingTypeOK
  <2>3. contexts' \in Int /\ contexts' >= EXCLUSIVE_CONTEXT
    BY <1>4 DEF ReconnectShare, SharingTypeOK, EXCLUSIVE_CONTEXT
  <2>4. handlesList' \in [Handles -> {"closed", "none", "RESET", "REMOVED"}]
    BY <1>4 DEF ReconnectShare, SharingTypeOK
  <2>5. txn' \in SUBSET Handles /\ stale' \in SUBSET Handles /\ overlapped' \in BOOLEAN
    BY <1>4, <2>0 DEF ReconnectShare, SharingTypeOK
  <2> QED
    BY <1>4, <2>1, <2>2, <2>3, <2>4, <2>5 DEF ReconnectShare, SharingTypeOK, SlotTypeOK, statusVars, slotVars
<1> QED
  BY <1>1, <1>2, <1>3, <1>4 DEF Reconnect

LEMMA DisconnectType ==
  ASSUME RMTypeOK, CallsOwn, NEW c \in Clients, DisconnectSteps(c)
  PROVE  RMTypeOK'
<1> USE DEF RMTypeOK
<1>0. hCard[c] \in Handles
  BY DEF DisconnectSteps, DisconnectWait, DisconnectUnlock, DisconnectPower, DisconnectClose,
         DisconnectGrace, CallsOwn, HandleSteps, ThreadTypeOK
<1>1. ASSUME DisconnectWait(c)
      PROVE  RMTypeOK'
  <2>1. ThreadTypeOK'
    BY <1>1, GotoType DEF DisconnectWait, Steps
  <2> QED
    BY <1>1, <2>1 DEF DisconnectWait, SharingTypeOK, SlotTypeOK, readerVars, statusVars, slotVars, historyVars
<1>2. ASSUME DisconnectUnlock(c)
      PROVE  RMTypeOK'
  <2>1. ThreadTypeOK'
    BY <1>2, GotoType, EndDisconnectType DEF DisconnectUnlock, Steps
  <2>2. LockCount' \in Nat /\ hLockId' \in Handles \cup {NoHandle}
    BY <1>0, <1>2, LockType DEF DisconnectUnlock
  <2>3. handlesList' \in [Handles -> {"closed", "none", "RESET", "REMOVED"}]
    BY <1>2, EventType DEF DisconnectUnlock, SharingTypeOK
  <2>4. txn' \in SUBSET Handles
    BY <1>2 DEF DisconnectUnlock, SharingTypeOK
  <2> QED
    BY <1>2, <2>1, <2>2, <2>3, <2>4 DEF DisconnectUnlock, SharingTypeOK, SlotTypeOK, statusVars, slotVars
<1>3. ASSUME DisconnectPower(c)
      PROVE  RMTypeOK'
  <2>1. ThreadTypeOK'
    BY <1>3, GotoType DEF DisconnectPower, Steps
  <2> QED
    BY <1>3, <2>1, NotePowerType DEF DisconnectPower, SharingTypeOK, SlotTypeOK, statusVars
<1>4. ASSUME DisconnectClose(c)
      PROVE  RMTypeOK'
  <2>1. ThreadTypeOK'
    BY <1>4, GotoType, EndDisconnectType DEF DisconnectClose, Steps
  <2>2. contexts' \in Int /\ contexts' >= EXCLUSIVE_CONTEXT
    BY <1>4 DEF DisconnectClose, ContextClosed, SharingTypeOK, EXCLUSIVE_CONTEXT
  <2>3. /\ handlesList' \in [Handles -> {"closed", "none", "RESET", "REMOVED"}]
        /\ txn' \in SUBSET Handles /\ stale' \in SUBSET Handles
    BY <1>4 DEF DisconnectClose, SharingTypeOK
  <2> QED
    BY <1>4, <2>1, <2>2, <2>3 DEF DisconnectClose, SharingTypeOK, SlotTypeOK, statusVars, slotVars
<1>5. ASSUME DisconnectGrace(c)
      PROVE  RMTypeOK'
  <2>1. ThreadTypeOK'
    BY <1>5, EndDisconnectType DEF DisconnectGrace
  <2> QED
    BY <1>5, <2>1 DEF DisconnectGrace, SharingTypeOK, SlotTypeOK, statusVars, slotVars, historyVars
<1> QED
  BY <1>1, <1>2, <1>3, <1>4, <1>5 DEF DisconnectSteps

LEMMA DisconnectCallType ==
  ASSUME RMTypeOK, NEW c \in Clients, NEW h \in Handles, NEW d \in Dispositions, SCardDisconnect(c, h, d)
  PROVE  RMTypeOK'
<1> USE DEF RMTypeOK
<1>1. Call("DISCONNECT", "SHARED", {}, d) \in Calls
  BY CallType
<1>2. DisconnectTarget(h, d) \in Steps
  BY DEF DisconnectTarget, Steps
<1>3. ThreadTypeOK' /\ overlapped' \in BOOLEAN
  <2>1. Serve(c, Call("DISCONNECT", "SHARED", {}, d), h, DisconnectTarget(h, d))
    BY DEF SCardDisconnect
  <2>2. snap' \in [Clients -> ReaderStates]
    BY DEF SCardDisconnect, ThreadTypeOK
  <2> QED
    BY <1>1, <1>2, <2>1, <2>2, ServeType DEF SharingTypeOK
<1> QED
  BY <1>3 DEF SCardDisconnect, SharingTypeOK, SlotTypeOK, readerVars, statusVars, slotVars

LEMMA TransactionType ==
  ASSUME RMTypeOK, CallsOwn, NEW c \in Clients, Transaction(c)
  PROVE  RMTypeOK'
<1> USE DEF RMTypeOK
<1>0. cardsList[c] \in SUBSET Handles /\ hCard[c] \in Handles \cup {NoHandle}
  BY DEF ThreadTypeOK
<1>1. ASSUME NEW h \in Handles, SCardBeginTransaction(c, h)
      PROVE  RMTypeOK'
  <2>1. LockCount' \in Nat /\ hLockId' \in Handles \cup {NoHandle}
    BY <1>1, LockType DEF SCardBeginTransaction
  <2>2. txn' \in SUBSET Handles /\ overlapped' \in BOOLEAN
    BY <1>1 DEF SCardBeginTransaction, SharingTypeOK, Overlaps, Busy
  <2> QED
    BY <1>1, <2>1, <2>2 DEF SCardBeginTransaction, SharingTypeOK, SlotTypeOK, ThreadTypeOK,
         threadVars, statusVars, slotVars
<1>2. ASSUME NEW h \in Handles, NEW d \in Dispositions, SCardEndTransaction(c, h, d)
      PROVE  RMTypeOK'
  <2>1. CASE d = "LEAVE"
    <3>1. LockCount' \in Nat /\ hLockId' \in Handles \cup {NoHandle}
      BY <1>2, <2>1, LockType DEF SCardEndTransaction, LeaveTransaction
    <3>2. txn' \in SUBSET Handles /\ overlapped' \in BOOLEAN
      BY <1>2, <2>1 DEF SCardEndTransaction, LeaveTransaction, SharingTypeOK, Overlaps, Busy
    <3> QED
      BY <1>2, <2>1, <3>1, <3>2 DEF SCardEndTransaction, SharingTypeOK, SlotTypeOK, ThreadTypeOK,
           threadVars, statusVars, slotVars
  <2>2. CASE d # "LEAVE"
    <3> DEFINE where == IF Resets(d) THEN "end_power" ELSE "end_unlock"
    <3>1. Call("END", "SHARED", {}, d) \in Calls
      BY CallType
    <3>2. where \in Steps
      BY DEF Steps
    <3>3. Serve(c, Call("END", "SHARED", {}, d), h, where)
      BY <1>2, <2>2 DEF SCardEndTransaction
    <3>4. snap' \in [Clients -> ReaderStates]
      BY <1>2, <2>2 DEF SCardEndTransaction, ThreadTypeOK
    <3>5. ThreadTypeOK' /\ overlapped' \in BOOLEAN
      BY <3>1, <3>2, <3>3, <3>4, ServeType DEF SharingTypeOK
    <3> QED
      BY <1>2, <2>2, <3>5 DEF SCardEndTransaction, SharingTypeOK, SlotTypeOK, statusVars, slotVars
  <2> QED
    BY <2>1, <2>2
<1>3. ASSUME EndPower(c)
      PROVE  RMTypeOK'
  <2>1. ThreadTypeOK'
    BY <1>3, GotoType DEF EndPower, Steps
  <2>2. handlesList' \in [Handles -> {"closed", "none", "RESET", "REMOVED"}]
    BY <1>3, EventType DEF EndPower
  <2> QED
    BY <1>3, <2>1, <2>2, NotePowerType DEF EndPower, SharingTypeOK, SlotTypeOK, statusVars
<1>4. ASSUME EndUnlock(c)
      PROVE  RMTypeOK'
  <2>1. ThreadTypeOK'
    BY <1>0, <1>4, AnswerType DEF EndUnlock
  <2>2. hCard[c] \in Handles
    BY <1>0, <1>4 DEF EndUnlock, CallsOwn, HandleSteps
  <2>3. LockCount' \in Nat /\ hLockId' \in Handles \cup {NoHandle}
    BY <1>4, <2>2, LockType DEF EndUnlock, LeaveTransaction
  <2>4. txn' \in SUBSET Handles
    BY <1>4 DEF EndUnlock, LeaveTransaction, SharingTypeOK
  <2> QED
    BY <1>4, <2>1, <2>3, <2>4 DEF EndUnlock, SharingTypeOK, SlotTypeOK, statusVars, slotVars
<1>5. ASSUME NEW h \in Handles, NEW protocol \in UNION Preferences, SCardTransmit(c, h, protocol)
      PROVE  RMTypeOK'
  <2> DEFINE where == IF protocol = "ANY_OLD" /\ cardProtocol = SCARD_PROTOCOL_UNDEFINED
                      THEN "spin" ELSE "transmit"
  <2>1. Call("TRANSMIT", "SHARED", {}, "LEAVE") \in Calls
    BY CallType
  <2>2. where \in Steps
    BY DEF Steps
  <2>3. Serve(c, Call("TRANSMIT", "SHARED", {}, "LEAVE"), h, where)
    BY <1>5 DEF SCardTransmit
  <2>4. snap' \in [Clients -> ReaderStates]
    BY <1>5 DEF SCardTransmit, ThreadTypeOK
  <2>5. ThreadTypeOK' /\ overlapped' \in BOOLEAN
    BY <2>1, <2>2, <2>3, <2>4, ServeType DEF SharingTypeOK
  <2> QED
    BY <1>5, <2>5 DEF SCardTransmit, SharingTypeOK, SlotTypeOK, readerVars, statusVars, slotVars
<1>6. ASSUME Transmitted(c)
      PROVE  RMTypeOK'
  <2>1. ThreadTypeOK'
    BY <1>0, <1>6, AnswerType DEF Transmitted
  <2> QED
    BY <1>6, <2>1 DEF Transmitted, SharingTypeOK, SlotTypeOK, readerVars, statusVars, slotVars, historyVars
<1> QED
  BY <1>1, <1>2, <1>3, <1>4, <1>5, <1>6 DEF Transaction

LEMMA ContextType ==
  ASSUME RMTypeOK, NEW c \in Clients, Context(c)
  PROVE  RMTypeOK'
<1> USE DEF RMTypeOK
<1>1. ASSUME SCardEstablishContext(c)
      PROVE  RMTypeOK'
  <2>1. ThreadTypeOK'
    BY <1>1 DEF SCardEstablishContext, ThreadTypeOK, Steps
  <2> QED
    BY <1>1, <2>1 DEF SCardEstablishContext, SharingTypeOK, SlotTypeOK, readerVars, statusVars, slotVars, historyVars
<1>2. ASSUME NEW name \in {"RELEASE", "DIE"}, Serve(c, Call(name, "SHARED", {}, "LEAVE"), NoHandle, "release"),
             UNCHANGED <<readerVars, statusVars, slotVars, snap, txn, stale>>
      PROVE  RMTypeOK'
  <2>1. Call(name, "SHARED", {}, "LEAVE") \in Calls
    BY CallType
  <2>2. snap' \in [Clients -> ReaderStates]
    BY <1>2 DEF ThreadTypeOK
  <2>3. "release" \in Steps /\ NoHandle \in Handles \cup {NoHandle}
    BY DEF Steps
  <2>4. ThreadTypeOK' /\ overlapped' \in BOOLEAN
    BY <1>2, <2>1, <2>2, <2>3, ServeType DEF SharingTypeOK
  <2> QED
    BY <1>2, <2>4 DEF SharingTypeOK, SlotTypeOK, readerVars, statusVars, slotVars
<1>3. ASSUME SCardReleaseContext(c)
      PROVE  RMTypeOK'
  BY <1>2, <1>3 DEF SCardReleaseContext
<1>4. ASSUME ClientDies(c)
      PROVE  RMTypeOK'
  <2>1. CASE hContext[c]
    BY <1>2, <1>4, <2>1 DEF ClientDies
  <2>2. CASE ~hContext[c]
    <3>1. ThreadTypeOK'
      BY <1>4, <2>2, GotoType DEF ClientDies, Steps
    <3> QED
      BY <1>4, <2>2, <3>1 DEF ClientDies, SharingTypeOK, SlotTypeOK, readerVars, statusVars, slotVars
  <2> QED
    BY <2>1, <2>2
<1>5. ASSUME RemoveContextHandle(c)
      PROVE  RMTypeOK'
  <2>1. PICK h \in cardsList[c] \cap Open :
          /\ hLockId' = NoHandle
          /\ txn' = txn \ {hLockId}
          /\ call' = [call EXCEPT ![c].disposition =
                        IF hLockId = h /\ handlesList[h] = "none" THEN "RESET" ELSE "LEAVE"]
          /\ hCard' = [hCard EXCEPT ![c] = h]
    BY <1>5 DEF RemoveContextHandle
  <2>2. call' \in [Clients -> Calls]
    BY <2>1 DEF ThreadTypeOK, Calls
  <2>3. ThreadTypeOK'
    BY <1>5, <2>1, <2>2 DEF RemoveContextHandle, ThreadTypeOK, Steps, Open
  <2>4. txn' \in SUBSET Handles
    BY <2>1 DEF SharingTypeOK
  <2> QED
    BY <1>5, <2>1, <2>3, <2>4 DEF RemoveContextHandle, SharingTypeOK, SlotTypeOK, statusVars, slotVars
<1>6. ASSUME RemoveContextEnd(c)
      PROVE  RMTypeOK'
  <2>1. NoCall \in Calls
    BY CallType DEF NoCall
  <2>2. ThreadTypeOK'
    BY <1>6, <2>1 DEF RemoveContextEnd, ThreadTypeOK, Steps
  <2> QED
    BY <1>6, <2>2 DEF RemoveContextEnd, SharingTypeOK, SlotTypeOK, readerVars, statusVars, slotVars, historyVars
<1> QED
  BY <1>1, <1>3, <1>4, <1>5, <1>6 DEF Context

LEMMA StatusType ==
  ASSUME RMTypeOK, StatusThread \/ InsertCard \/ RemoveCard
  PROVE  RMTypeOK'
<1> USE DEF RMTypeOK
<1>0. StatusPowerUp => /\ powered' \in BOOLEAN /\ cardAtr' \in Atrs \cup {NoAtr}
                       /\ readerState' \in ReaderStates /\ powerState' \in {"POWERED", "UNPOWERED"}
                       /\ dwCurrentState' = "PRESENT"
  BY PowerType DEF StatusPowerUp, PowerResults, ReaderStates, SlotTypeOK
<1>1. ASSUME UNCHANGED threadVars
      PROVE  ThreadTypeOK'
  BY <1>1 DEF threadVars, ThreadTypeOK
<1>2. ASSUME StatusStart
      PROVE  RMTypeOK'
  <2>1. SlotTypeOK'
    BY <1>0, <1>2 DEF StatusStart, SlotTypeOK, ReaderStates
  <2>2. SharingTypeOK'
    BY <1>2 DEF StatusStart, SharingTypeOK, historyVars
  <2> QED
    BY <1>1, <1>2, <2>1, <2>2 DEF StatusStart
<1>3. ASSUME StatusPoll
      PROVE  RMTypeOK'
  <2>1. SlotTypeOK'
    BY <1>0, <1>3 DEF StatusPoll, StatusError, StatusRemoved, StatusInserted, StatusSame, SlotTypeOK, ReaderStates
  <2>2. SharingTypeOK'
    BY <1>3, EventType DEF StatusPoll, StatusError, StatusRemoved, StatusInserted, StatusSame, SharingTypeOK
  <2> QED
    BY <1>1, <1>3, <2>1, <2>2 DEF StatusPoll
<1>4. ASSUME StatusPowerOff
      PROVE  RMTypeOK'
  <2>1. SlotTypeOK' /\ SharingTypeOK'
    BY <1>4 DEF StatusPowerOff, SlotTypeOK, SharingTypeOK, historyVars
  <2> QED
    BY <1>1, <1>4, <2>1 DEF StatusPowerOff
<1>5. ASSUME InsertCard \/ RemoveCard
      PROVE  RMTypeOK'
  <2>1. SlotTypeOK' /\ SharingTypeOK'
    BY <1>5 DEF InsertCard, RemoveCard, SlotTypeOK, SharingTypeOK, readerVars, statusVars, historyVars
  <2> QED
    BY <1>1, <1>5, <2>1 DEF InsertCard, RemoveCard
<1> QED
  BY <1>2, <1>3, <1>4, <1>5 DEF StatusThread

LEMMA StepTypes ==
  ASSUME RMTypeOK, CallsOwn, [Next]_vars
  PROVE  RMTypeOK'
<1>1. ASSUME UNCHANGED vars
      PROVE  RMTypeOK'
  BY <1>1 DEF vars, readerVars, threadVars, statusVars, slotVars, historyVars,
              RMTypeOK, SharingTypeOK, ThreadTypeOK, SlotTypeOK
<1>2. ASSUME NEW c \in Clients, Client(c)
      PROVE  RMTypeOK'
  BY <1>2, ConnectType, ReconnectType, TransactionType, ContextType, DisconnectCallType, DisconnectType
     DEF Client
<1> QED
  BY <1>1, <1>2, StatusType DEF Next
-----------------------------------------------------------------------------
(* Handles.                                                                *)

\* The handles of the other contexts are still open.
OthersOpen(c) == \A d \in Clients \ {c}, k \in Open : k \in cardsList[d] => k \in Open'

\* What a step of thread c may do to its place, its handle and its list.
LEMMA OneThreadMoves ==
  ASSUME RMInv, NEW c \in Clients, NEW p \in Steps, NEW h \in Handles \cup {NoHandle}, NEW cards \in SUBSET Handles,
         pc' = [pc EXCEPT ![c] = p], hCard' = [hCard EXCEPT ![c] = h],
         cardsList' = [cardsList EXCEPT ![c] = cards],
         \A d \in Clients \ {c} : cards \cap cardsList[d] = {},
         h # NoHandle => h \in cards,
         p \in HandleSteps => h # NoHandle,
         h # NoHandle /\ p # "disconnect_grace" => h \in Open',
         OthersOpen(c)
  PROVE  ListsApart' /\ CallsOwn'
<1> USE DEF RMInv, RMTypeOK, ThreadTypeOK
<1>1. ListsApart'
  BY DEF ListsApart
<1>2. CallsOwn'
  <2> SUFFICES ASSUME NEW d \in Clients
               PROVE  /\ hCard'[d] # NoHandle => hCard'[d] \in cardsList'[d]
                      /\ pc'[d] \in HandleSteps => hCard'[d] # NoHandle
                      /\ hCard'[d] # NoHandle /\ pc'[d] # "disconnect_grace" => hCard'[d] \in Open'
    BY DEF CallsOwn
  <2>1. CASE d = c
    BY <2>1
  <2>2. CASE d # c
    BY <2>2 DEF CallsOwn, OthersOpen
  <2> QED
    BY <2>1, <2>2
<1> QED
  BY <1>1, <1>2

LEMMA GotoOwns ==
  ASSUME RMInv, NEW c \in Clients, NEW where \in Steps, Goto(c, where), Open \subseteq Open',
         where \in HandleSteps => pc[c] \in HandleSteps, pc[c] # "disconnect_grace"
  PROVE  ListsApart' /\ CallsOwn'
<1>1. /\ pc' = [pc EXCEPT ![c] = where]
      /\ hCard' = [hCard EXCEPT ![c] = hCard[c]]
      /\ cardsList' = [cardsList EXCEPT ![c] = cardsList[c]]
      /\ hCard[c] \in Handles \cup {NoHandle} /\ cardsList[c] \in SUBSET Handles
  BY DEF Goto, RMInv, RMTypeOK, ThreadTypeOK
<1>2. /\ \A d \in Clients \ {c} : cardsList[c] \cap cardsList[d] = {}
      /\ hCard[c] # NoHandle => hCard[c] \in cardsList[c]
      /\ where \in HandleSteps => hCard[c] # NoHandle
      /\ OthersOpen(c)
  BY DEF RMInv, ListsApart, CallsOwn, OthersOpen
<1>3. hCard[c] # NoHandle /\ where # "disconnect_grace" => hCard[c] \in Open'
  BY DEF RMInv, CallsOwn, HandleSteps
<1> QED
  BY <1>1, <1>2, <1>3, OneThreadMoves

LEMMA ServeOwns ==
  ASSUME RMInv, NEW c \in Clients, NEW where \in Steps, NEW request, NEW h \in Handles \cup {NoHandle},
         Serve(c, request, h, where), Open \subseteq Open', where # "disconnect_grace",
         h # NoHandle => h \in Open /\ h \in cardsList[c],
         h = NoHandle => where \notin HandleSteps
  PROVE  ListsApart' /\ CallsOwn'
<1>1. /\ pc' = [pc EXCEPT ![c] = where]
      /\ hCard' = [hCard EXCEPT ![c] = h]
      /\ cardsList' = [cardsList EXCEPT ![c] = cardsList[c]]
      /\ cardsList[c] \in SUBSET Handles
  BY DEF Serve, RMInv, RMTypeOK, ThreadTypeOK
<1>2. /\ \A d \in Clients \ {c} : cardsList[c] \cap cardsList[d] = {}
      /\ OthersOpen(c)
  BY DEF RMInv, ListsApart, OthersOpen
<1> QED
  BY <1>1, <1>2, OneThreadMoves

LEMMA AnswerOwns ==
  ASSUME RMInv, NEW c \in Clients, NEW cards \in SUBSET Handles, Answer(c, cards),
         \A d \in Clients \ {c} : cards \cap cardsList[d] = {}, OthersOpen(c)
  PROVE  ListsApart' /\ CallsOwn'
<1>1. "idle" \in Steps \ HandleSteps
  BY DEF Steps, HandleSteps
<1> QED
  BY <1>1, OneThreadMoves DEF Answer

LEMMA EndDisconnectOwns ==
  ASSUME RMInv, NEW c \in Clients, NEW success \in BOOLEAN, EndDisconnect(c, success), OthersOpen(c)
  PROVE  ListsApart' /\ CallsOwn'
<1>0. /\ cardsList[c] \in SUBSET Handles /\ cardsList[c] \ {hCard[c]} \in SUBSET Handles
      /\ \A d \in Clients \ {c} : cardsList[c] \cap cardsList[d] = {}
      /\ \A d \in Clients \ {c} : (cardsList[c] \ {hCard[c]}) \cap cardsList[d] = {}
  BY DEF RMInv, RMTypeOK, ThreadTypeOK, ListsApart
<1>1. CASE call[c].name = "DISCONNECT"
  BY <1>0, <1>1, AnswerOwns DEF EndDisconnect
<1>2. CASE call[c].name # "DISCONNECT"
  <2>1. "release" \in Steps \ HandleSteps
    BY DEF Steps, HandleSteps
  <2>2. /\ pc' = [pc EXCEPT ![c] = "release"]
        /\ hCard' = [hCard EXCEPT ![c] = NoHandle]
        /\ cardsList' = [cardsList EXCEPT ![c] = cardsList[c] \ {hCard[c]}]
    BY <1>2 DEF EndDisconnect
  <2> QED
    BY <1>0, <2>1, <2>2, OneThreadMoves
<1> QED
  BY <1>1, <1>2

LEMMA NobodyMoves ==
  ASSUME RMInv, UNCHANGED threadVars, Open \subseteq Open'
  PROVE  ListsApart' /\ CallsOwn'
BY DEF RMInv, ListsApart, CallsOwn, threadVars

\* The list of handles is the same, or tells all of an event.
LEMMA ListKept ==
  /\ handlesList' = handlesList => Open' = Open
  /\ \A event \in {"RESET", "REMOVED"} : handlesList' = RFSetReaderEventState(event) => Open' = Open
BY DEF Open, RFSetReaderEventState


LEMMA ConnectOwns ==
  ASSUME RMInv, NEW c \in Clients, Connect(c)
  PROVE  ListsApart' /\ CallsOwn'
<1>0. /\ cardsList[c] \in SUBSET Handles
      /\ \A d \in Clients \ {c} : cardsList[c] \cap cardsList[d] = {}
      /\ NoHandle \in Handles \cup {NoHandle}
  BY DEF RMInv, RMTypeOK, ThreadTypeOK, ListsApart
<1>a. ASSUME Open' = Open
      PROVE  OthersOpen(c) /\ Open \subseteq Open'
  BY <1>a DEF OthersOpen
<1>1. ASSUME NEW share \in ShareModes, NEW preferred \in Preferences, ConnectCheck(c, share, preferred)
      PROVE  ListsApart' /\ CallsOwn'
  <2> DEFINE where == IF hLockId = NoHandle THEN ConnectTarget(share) ELSE "connect_wait"
  <2>1. where \in Steps \ HandleSteps
    BY <1>1 DEF ConnectCheck, ConnectTarget, Steps, HandleSteps
  <2>2. Serve(c, Call("CONNECT", share, preferred, "LEAVE"), NoHandle, where)
    BY <1>1 DEF ConnectCheck
  <2>3. Open' = Open
    BY <1>1, ListKept DEF ConnectCheck, readerVars
  <2>4. where # "disconnect_grace"
    BY <2>1 DEF HandleSteps
  <2> HIDE DEF where
  <2> QED
    BY <1>0, <1>a, <2>1, <2>2, <2>3, <2>4, ServeOwns
<1>2. ASSUME ConnectWait(c)
      PROVE  ListsApart' /\ CallsOwn'
  <2>1. Open' = Open
    BY <1>2, ListKept DEF ConnectWait, readerVars
  <2>2. CASE Answer(c, cardsList[c])
    BY <1>0, <1>a, <2>1, <2>2, AnswerOwns
  <2>3. CASE ~Answer(c, cardsList[c])
    <3> DEFINE where == ConnectTarget(call[c].share)
    <3>1. /\ where \in Steps \ HandleSteps
          /\ pc' = [pc EXCEPT ![c] = where]
          /\ UNCHANGED <<hCard, cardsList>>
      BY <1>2, <2>3 DEF ConnectWait, ConnectTarget, Steps, HandleSteps
    <3> HIDE DEF where
    <3>2. pc[c] \notin HandleSteps
      BY <1>2 DEF ConnectWait, HandleSteps
    <3> QED
      BY <2>1, <3>1, <3>2 DEF RMInv, RMTypeOK, ThreadTypeOK, ListsApart, CallsOwn, HandleSteps
  <2> QED
    BY <2>2, <2>3
<1>3. ASSUME ConnectPower(c) \/ ConnectProtocol(c)
      PROVE  ListsApart' /\ CallsOwn'
  <2>1. Open' = Open
    BY <1>3, ListKept DEF ConnectPower, ConnectProtocol
  <2>2. PICK where \in {"connect_protocol", "connect_share"} : Goto(c, where) \/ Answer(c, cardsList[c])
    BY <1>3 DEF ConnectPower, ConnectProtocol
  <2>3. where \in Steps \ HandleSteps /\ pc[c] # "disconnect_grace"
    BY <1>3 DEF Steps, HandleSteps, ConnectPower, ConnectProtocol
  <2> QED
    BY <1>0, <1>a, <2>1, <2>2, <2>3, GotoOwns, AnswerOwns
<1>4. ASSUME ConnectShare(c)
      PROVE  ListsApart' /\ CallsOwn'
  <2>1. PICK h \in RFCreateReaderHandle : ConnectNew(c, h)
    BY <1>4 DEF ConnectShare
  <2>2. PICK cards \in {cardsList[c], cardsList[c] \cup {h}} : Answer(c, cards)
    BY <2>1 DEF ConnectNew
  <2>3. cards \in SUBSET Handles /\ \A d \in Clients \ {c} : cards \cap cardsList[d] = {}
    BY <1>0, <2>2 DEF RFCreateReaderHandle
  <2>4. OthersOpen(c)
    BY <2>1 DEF OthersOpen, Open, ConnectNew, RFCreateReaderHandle, RMInv, RMTypeOK, SharingTypeOK
  <2> QED
    BY <2>2, <2>3, <2>4, AnswerOwns
<1> QED
  BY <1>1, <1>2, <1>3, <1>4 DEF Connect

LEMMA ReconnectOwns ==
  ASSUME RMInv, NEW c \in Clients, Reconnect(c)
  PROVE  ListsApart' /\ CallsOwn'
<1>0. /\ cardsList[c] \in SUBSET Handles
      /\ \A d \in Clients \ {c} : cardsList[c] \cap cardsList[d] = {}
  BY DEF RMInv, RMTypeOK, ThreadTypeOK, ListsApart
<1>a. ASSUME Open' = Open
      PROVE  OthersOpen(c) /\ Open \subseteq Open'
  BY <1>a DEF OthersOpen
<1>1. ASSUME NEW h \in Handles, NEW share \in ShareModes, NEW preferred \in Preferences,
             NEW d \in Dispositions, ReconnectCheck(c, h, share, preferred, d)
      PROVE  ListsApart' /\ CallsOwn'
  <2>1. PICK where \in {"reconnect_protocol", "reconnect_power"} :
          Serve(c, Call("RECONNECT", share, preferred, d), h, where)
    BY <1>1 DEF ReconnectCheck
  <2>2. where \in Steps /\ where # "disconnect_grace"
    BY DEF Steps
  <2>3. Open' = Open
    BY <1>1, ListKept DEF ReconnectCheck
  <2>4. h # NoHandle /\ h \in Open /\ h \in cardsList[c] /\ h \in Handles \cup {NoHandle}
    BY <1>1, HandleAssumption DEF ReconnectCheck, Owns
  <2> QED
    BY <1>a, <2>1, <2>2, <2>3, <2>4, ServeOwns
<1>2. ASSUME ReconnectPower(c) \/ ReconnectProtocol(c)
      PROVE  ListsApart' /\ CallsOwn'
  <2>1. Open' = Open
    BY <1>2, ListKept DEF ReconnectPower, ReconnectProtocol
  <2>2. PICK where \in {"reconnect_protocol", "reconnect_share"} : Goto(c, where) \/ Answer(c, cardsList[c])
    BY <1>2 DEF ReconnectPower, ReconnectProtocol
  <2>3. where \in Steps /\ pc[c] \in HandleSteps /\ pc[c] # "disconnect_grace"
    BY <1>2 DEF Steps, HandleSteps, ReconnectPower, ReconnectProtocol
  <2> QED
    BY <1>0, <1>a, <2>1, <2>2, <2>3, GotoOwns, AnswerOwns
<1>3. ASSUME ReconnectShare(c)
      PROVE  ListsApart' /\ CallsOwn'
  <2>1. Answer(c, cardsList[c])
    BY <1>3 DEF ReconnectShare
  <2>2. OthersOpen(c)
    BY <1>3 DEF OthersOpen, Open, ReconnectShare, RMInv, RMTypeOK, SharingTypeOK
  <2> QED
    BY <1>0, <2>1, <2>2, AnswerOwns
<1> QED
  BY <1>1, <1>2, <1>3 DEF Reconnect

LEMMA DisconnectOwns ==
  ASSUME RMInv, NEW c \in Clients, DisconnectSteps(c)
  PROVE  ListsApart' /\ CallsOwn'
<1>0. hCard[c] \in Handles /\ hCard[c] \in cardsList[c] /\ pc[c] \in HandleSteps
  BY DEF DisconnectSteps, DisconnectWait, DisconnectUnlock, DisconnectPower, DisconnectClose,
         DisconnectGrace, CallsOwn, HandleSteps, RMInv, RMTypeOK, ThreadTypeOK
<1>a. ASSUME Open' = Open
      PROVE  OthersOpen(c) /\ Open \subseteq Open'
  BY <1>a DEF OthersOpen
<1>1. ASSUME DisconnectWait(c) \/ DisconnectPower(c)
      PROVE  ListsApart' /\ CallsOwn'
  <2>1. Open' = Open
    BY <1>1, ListKept DEF DisconnectWait, DisconnectPower, readerVars
  <2>2. PICK where \in {"disconnect_unlock", "disconnect_close"} : Goto(c, where)
    BY <1>1 DEF DisconnectWait, DisconnectPower
  <2>3. where \in Steps /\ pc[c] # "disconnect_grace"
    BY <1>1 DEF DisconnectWait, DisconnectPower, Steps
  <2> QED
    BY <1>0, <1>a, <2>1, <2>2, <2>3, GotoOwns
<1>2. ASSUME DisconnectUnlock(c)
      PROVE  ListsApart' /\ CallsOwn'
  <2>1. Open' = Open
    BY <1>2, ListKept DEF DisconnectUnlock
  <2>2. PICK where \in {"disconnect_power", "disconnect_close"} : Goto(c, where) \/ EndDisconnect(c, FALSE)
    BY <1>2 DEF DisconnectUnlock
  <2>3. where \in Steps /\ pc[c] # "disconnect_grace"
    BY <1>2 DEF DisconnectUnlock, Steps
  <2> QED
    BY <1>0, <1>a, <2>1, <2>2, <2>3, GotoOwns, EndDisconnectOwns
<1>3. ASSUME DisconnectClose(c)
      PROVE  ListsApart' /\ CallsOwn'
  <2>1. \A k \in Open : k # hCard[c] => k \in Open'
    BY <1>3 DEF DisconnectClose, Open, RMInv, RMTypeOK, SharingTypeOK
  <2>2. OthersOpen(c)
    BY <1>0, <2>1 DEF OthersOpen, RMInv, ListsApart
  <2>3. CASE EndDisconnect(c, TRUE)
    BY <2>2, <2>3, EndDisconnectOwns
  <2>4. CASE Goto(c, "disconnect_grace")
    <3>1. /\ pc' = [pc EXCEPT ![c] = "disconnect_grace"]
          /\ hCard' = [hCard EXCEPT ![c] = hCard[c]]
          /\ cardsList' = [cardsList EXCEPT ![c] = cardsList[c]]
          /\ cardsList[c] \in SUBSET Handles
      BY <2>4 DEF Goto, RMInv, RMTypeOK, ThreadTypeOK
    <3>2. \A d \in Clients \ {c} : cardsList[c] \cap cardsList[d] = {}
      BY DEF RMInv, ListsApart
    <3>3. "disconnect_grace" \in Steps /\ hCard[c] # NoHandle /\ hCard[c] \in Handles \cup {NoHandle}
      BY <1>0, HandleAssumption DEF Steps
    <3> QED
      BY <1>0, <2>2, <3>1, <3>2, <3>3, OneThreadMoves
  <2> QED
    BY <1>3, <2>3, <2>4 DEF DisconnectClose
<1>4. ASSUME DisconnectGrace(c)
      PROVE  ListsApart' /\ CallsOwn'
  <2>1. Open' = Open
    BY <1>4, ListKept DEF DisconnectGrace
  <2> QED
    BY <1>4, <1>a, <2>1, EndDisconnectOwns DEF DisconnectGrace
<1> QED
  BY <1>1, <1>2, <1>3, <1>4 DEF DisconnectSteps

LEMMA DisconnectCallOwns ==
  ASSUME RMInv, NEW c \in Clients, NEW h \in Handles, NEW d \in Dispositions, SCardDisconnect(c, h, d)
  PROVE  ListsApart' /\ CallsOwn'
<1>1. PICK where \in {"disconnect_wait", "disconnect_unlock"} :
        Serve(c, Call("DISCONNECT", "SHARED", {}, d), h, where)
  BY DEF SCardDisconnect, DisconnectTarget
<1>2. where \in Steps /\ where # "disconnect_grace"
  BY DEF Steps
<1>3. Open' = Open
  BY ListKept DEF SCardDisconnect, readerVars
<1>4. h # NoHandle /\ h \in Open /\ h \in cardsList[c] /\ h \in Handles \cup {NoHandle}
  BY HandleAssumption DEF SCardDisconnect, Owns
<1> QED
  BY <1>1, <1>2, <1>3, <1>4, ServeOwns

LEMMA TransactionOwns ==
  ASSUME RMInv, NEW c \in Clients, Transaction(c)
  PROVE  ListsApart' /\ CallsOwn'
<1>0. /\ cardsList[c] \in SUBSET Handles
      /\ \A d \in Clients \ {c} : cardsList[c] \cap cardsList[d] = {}
  BY DEF RMInv, RMTypeOK, ThreadTypeOK, ListsApart
<1>a. ASSUME Open' = Open
      PROVE  OthersOpen(c) /\ Open \subseteq Open'
  BY <1>a DEF OthersOpen
<1>b. Open' = Open
  BY ListKept DEF Transaction, SCardBeginTransaction, SCardEndTransaction, EndPower, EndUnlock,
     SCardTransmit, Transmitted, readerVars
<1>c. ASSUME NEW h \in Handles, Owns(c, h)
      PROVE  h # NoHandle /\ h \in Open /\ h \in cardsList[c] /\ h \in Handles \cup {NoHandle}
  BY <1>c, HandleAssumption DEF Owns
<1>1. ASSUME NEW h \in Handles, SCardBeginTransaction(c, h)
      PROVE  ListsApart' /\ CallsOwn'
  BY <1>1, <1>b, NobodyMoves DEF SCardBeginTransaction
<1>2. ASSUME NEW h \in Handles, NEW d \in Dispositions, SCardEndTransaction(c, h, d)
      PROVE  ListsApart' /\ CallsOwn'
  <2>1. CASE d = "LEAVE"
    BY <1>2, <1>b, <2>1, NobodyMoves DEF SCardEndTransaction
  <2>2. CASE d # "LEAVE"
    <3>1. PICK where \in {"end_power", "end_unlock"} : Serve(c, Call("END", "SHARED", {}, d), h, where)
      BY <1>2, <2>2 DEF SCardEndTransaction
    <3>2. where \in Steps /\ where # "disconnect_grace" /\ Owns(c, h)
      BY <1>2 DEF Steps, SCardEndTransaction
    <3> QED
      BY <1>b, <1>c, <3>1, <3>2, ServeOwns
  <2> QED
    BY <2>1, <2>2
<1>3. ASSUME EndPower(c)
      PROVE  ListsApart' /\ CallsOwn'
  <2>1. "end_unlock" \in Steps /\ pc[c] \in HandleSteps /\ pc[c] # "disconnect_grace"
    BY <1>3 DEF Steps, HandleSteps, EndPower
  <2> QED
    BY <1>3, <1>b, <2>1, GotoOwns DEF EndPower
<1>4. ASSUME EndUnlock(c) \/ Transmitted(c)
      PROVE  ListsApart' /\ CallsOwn'
  <2>1. Answer(c, cardsList[c])
    BY <1>4 DEF EndUnlock, Transmitted
  <2> QED
    BY <1>0, <1>a, <1>b, <2>1, AnswerOwns
<1>5. ASSUME NEW h \in Handles, NEW protocol \in UNION Preferences, SCardTransmit(c, h, protocol)
      PROVE  ListsApart' /\ CallsOwn'
  <2>1. PICK where \in {"spin", "transmit"} : Serve(c, Call("TRANSMIT", "SHARED", {}, "LEAVE"), h, where)
    BY <1>5 DEF SCardTransmit
  <2>2. where \in Steps /\ where # "disconnect_grace" /\ Owns(c, h)
    BY <1>5 DEF Steps, SCardTransmit
  <2> QED
    BY <1>b, <1>c, <2>1, <2>2, ServeOwns
<1> QED
  BY <1>1, <1>2, <1>3, <1>4, <1>5 DEF Transaction

LEMMA ContextOwns ==
  ASSUME RMInv, NEW c \in Clients, Context(c)
  PROVE  ListsApart' /\ CallsOwn'
<1>0. /\ cardsList[c] \in SUBSET Handles
      /\ \A d \in Clients \ {c} : cardsList[c] \cap cardsList[d] = {}
      /\ NoHandle \in Handles \cup {NoHandle}
      /\ cardsList' = [cardsList EXCEPT ![c] = cardsList[c]]
  BY DEF RMInv, RMTypeOK, ThreadTypeOK, ListsApart, Context, SCardEstablishContext, SCardReleaseContext,
         ClientDies, RemoveContextHandle, RemoveContextEnd, Serve, Goto
<1>a. Open' = Open /\ OthersOpen(c)
  BY ListKept DEF Context, SCardEstablishContext, SCardReleaseContext, ClientDies, RemoveContextHandle,
     RemoveContextEnd, readerVars, OthersOpen
<1>1. CASE SCardEstablishContext(c) \/ RemoveContextEnd(c)
  <2>1. PICK where \in {"idle", "free"} : pc' = [pc EXCEPT ![c] = where] /\ UNCHANGED hCard
    BY <1>1 DEF SCardEstablishContext, RemoveContextEnd
  <2>2. /\ where \in Steps \ HandleSteps /\ pc[c] # "disconnect_grace"
        /\ hCard' = [hCard EXCEPT ![c] = hCard[c]] /\ hCard[c] \in Handles \cup {NoHandle}
    BY <1>1, <2>1 DEF Steps, HandleSteps, SCardEstablishContext, RemoveContextEnd, RMInv, RMTypeOK, ThreadTypeOK
  <2>3. /\ hCard[c] # NoHandle => hCard[c] \in cardsList[c]
        /\ hCard[c] # NoHandle => hCard[c] \in Open'
    BY <1>a, <2>2 DEF RMInv, CallsOwn
  <2> QED
    BY <1>0, <1>a, <2>1, <2>2, <2>3, OneThreadMoves
<1>2. CASE SCardReleaseContext(c) \/ ClientDies(c)
  <2>1. \/ \E request : Serve(c, request, NoHandle, "release")
        \/ Goto(c, "free") /\ pc[c] # "disconnect_grace"
    BY <1>2 DEF SCardReleaseContext, ClientDies
  <2>2. "release" \in Steps \ HandleSteps /\ "free" \in Steps \ HandleSteps /\ "release" # "disconnect_grace"
    BY DEF Steps, HandleSteps
  <2> QED
    BY <1>0, <1>a, <2>1, <2>2, ServeOwns, GotoOwns
<1>3. CASE RemoveContextHandle(c)
  <2>1. PICK h \in cardsList[c] \cap Open : hCard' = [hCard EXCEPT ![c] = h]
    BY <1>3 DEF RemoveContextHandle
  <2>2. /\ pc' = [pc EXCEPT ![c] = "disconnect_unlock"] /\ "disconnect_unlock" \in Steps
        /\ h \in Handles \cup {NoHandle} /\ h # NoHandle
    BY <1>3, HandleAssumption DEF RemoveContextHandle, Steps, Open
  <2> QED
    BY <1>0, <1>a, <2>1, <2>2, OneThreadMoves
<1> QED
  BY <1>1, <1>2, <1>3 DEF Context

LEMMA StatusOwns ==
  ASSUME RMInv, StatusThread \/ InsertCard \/ RemoveCard
  PROVE  ListsApart' /\ CallsOwn'
<1>1. UNCHANGED threadVars
  BY DEF StatusThread, StatusStart, StatusPoll, StatusPowerOff, InsertCard, RemoveCard
<1>2. Open' = Open
  BY ListKept DEF StatusThread, StatusStart, StatusPoll, StatusError, StatusRemoved, StatusInserted,
     StatusSame, StatusPowerOff, InsertCard, RemoveCard, readerVars
<1> QED
  BY <1>1, <1>2, NobodyMoves

LEMMA StepOwns ==
  ASSUME RMInv, [Next]_vars
  PROVE  RMInv'
<1>1. RMTypeOK'
  BY StepTypes DEF RMInv
<1>2. ASSUME UNCHANGED vars
      PROVE  ListsApart' /\ CallsOwn'
  BY <1>2, ListKept, NobodyMoves DEF vars, readerVars
<1>3. ASSUME NEW c \in Clients, Client(c)
      PROVE  ListsApart' /\ CallsOwn'
  BY <1>3, ConnectOwns, ReconnectOwns, TransactionOwns, ContextOwns, DisconnectCallOwns, DisconnectOwns
     DEF Client
<1> QED
  BY <1>1, <1>2, <1>3, StatusOwns DEF Next, RMInv

LEMMA InitOwns == Init => RMInv
<1>1. Init => SharingTypeOK
  <2>1. Init => /\ contexts = 0 /\ LockCount = 0 /\ overlapped = FALSE
                /\ hLockId \in Handles \cup {NoHandle}
                /\ txn = {} /\ stale = {}
    BY DEF Init
  <2>2. Init => handlesList \in [Handles -> {"closed", "none", "RESET", "REMOVED"}]
    BY DEF Init
  <2>3. 0 \in Nat /\ 0 \in Int /\ 0 >= EXCLUSIVE_CONTEXT /\ FALSE \in BOOLEAN /\ {} \in SUBSET Handles
    BY DEF EXCLUSIVE_CONTEXT
  <2>4. Init => /\ contexts \in Int /\ contexts >= EXCLUSIVE_CONTEXT /\ LockCount \in Nat
                /\ overlapped \in BOOLEAN /\ txn \in SUBSET Handles /\ stale \in SUBSET Handles
    BY <2>1, <2>3
  <2> QED
    BY <2>1, <2>2, <2>4 DEF SharingTypeOK
<1>2. Init => SlotTypeOK
  BY DEF Init, SlotTypeOK, ReaderStates
<1>3. Init => ThreadTypeOK
  <2>1. NoCall \in Calls /\ "free" \in Steps /\ "NONE" \in ReaderStates
    BY CallType DEF NoCall, Steps, ReaderStates
  <2> QED
    BY <2>1 DEF Init, ThreadTypeOK
<1>4. Init => ListsApart /\ CallsOwn
  BY DEF Init, ListsApart, CallsOwn, HandleSteps
<1> QED
  BY <1>1, <1>2, <1>3, <1>4 DEF RMInv, RMTypeOK

THEOREM HandlesOwned == Spec => []RMInv
<1>1. RMInv /\ [Next]_vars => RMInv'
  BY StepOwns
<1> QED
  BY <1>1, InitOwns, PTL DEF Spec
-----------------------------------------------------------------------------
(* Transactions.                                                           *)

ClosingSteps == {"disconnect_power", "disconnect_close"}

\* A handle about to be closed has given the lock back.
ClosersUnlocked == \A c \in Clients : pc[c] \in ClosingSteps => hLockId # hCard[c]

\* The calls that can change the lock.
LEMMA LockCalls ==
  ASSUME NEW c \in Clients, Client(c)
  PROVE  \/ UNCHANGED <<hLockId, LockCount>>
         \/ ConnectShare(c) \/ ReconnectShare(c) \/ DisconnectUnlock(c) \/ EndUnlock(c)
         \/ RemoveContextHandle(c)
         \/ \E h \in Handles : \/ SCardBeginTransaction(c, h)
                              \/ SCardEndTransaction(c, h, "LEAVE")
<1>1. CASE Connect(c)
  BY <1>1 DEF Connect, ConnectCheck, ConnectWait, ConnectPower, ConnectProtocol, readerVars
<1>2. CASE Reconnect(c)
  BY <1>2 DEF Reconnect, ReconnectCheck, ReconnectPower, ReconnectProtocol
<1>3. CASE Transaction(c)
  BY <1>3 DEF Transaction, SCardEndTransaction, EndPower, SCardTransmit, Transmitted, readerVars
<1>4. CASE Context(c)
  BY <1>4 DEF Context, SCardEstablishContext, SCardReleaseContext, ClientDies, RemoveContextEnd, readerVars
<1>5. CASE DisconnectSteps(c)
  BY <1>5 DEF DisconnectSteps, DisconnectWait, DisconnectPower, DisconnectClose, DisconnectGrace, readerVars
<1>6. CASE \E h \in Handles, d \in Dispositions : SCardDisconnect(c, h, d)
  BY <1>6 DEF SCardDisconnect, readerVars
<1> QED
  BY <1>1, <1>2, <1>3, <1>4, <1>5, <1>6 DEF Client

\* A thread does nothing to the place and the handle of another.
LEMMA OthersStay ==
  ASSUME RMInv, NEW c \in Clients, Client(c), NEW d \in Clients \ {c}
  PROVE  pc'[d] = pc[d] /\ hCard'[d] = hCard[d]
<1> USE DEF RMInv, RMTypeOK, ThreadTypeOK
<1>1. CASE Connect(c)
  BY <1>1 DEF Connect, ConnectCheck, ConnectWait, ConnectPower, ConnectProtocol, ConnectShare, ConnectNew,
     Serve, Goto, Answer
<1>2. CASE Reconnect(c)
  BY <1>2 DEF Reconnect, ReconnectCheck, ReconnectPower, ReconnectProtocol, ReconnectShare, Serve, Goto, Answer
<1>3. CASE Transaction(c)
  BY <1>3 DEF Transaction, SCardBeginTransaction, SCardEndTransaction, EndPower, EndUnlock, SCardTransmit,
     Transmitted, Serve, Goto, Answer, threadVars
<1>4. CASE Context(c)
  BY <1>4 DEF Context, SCardEstablishContext, SCardReleaseContext, ClientDies, RemoveContextHandle,
     RemoveContextEnd, Serve, Goto
<1>5. CASE DisconnectSteps(c)
  BY <1>5 DEF DisconnectSteps, DisconnectWait, DisconnectUnlock, DisconnectPower, DisconnectClose,
     DisconnectGrace, EndDisconnect, Goto, Answer
<1>6. CASE \E h \in Handles, left \in Dispositions : SCardDisconnect(c, h, left)
  BY <1>6 DEF SCardDisconnect, Serve
<1> QED
  BY <1>1, <1>2, <1>3, <1>4, <1>5, <1>6 DEF Client

\* A thread comes to the closing of its handle from the step that unlocks.
LEMMA ClosersComeFromUnlock ==
  ASSUME RMInv, NEW c \in Clients, Client(c), pc'[c] \in ClosingSteps
  PROVE  DisconnectUnlock(c) \/ DisconnectPower(c)
<1> USE DEF RMInv, RMTypeOK, ThreadTypeOK, ClosingSteps
<1>1. CASE Connect(c)
  BY <1>1 DEF Connect, ConnectCheck, ConnectWait, ConnectPower, ConnectProtocol, ConnectShare, ConnectNew,
     ConnectTarget, Serve, Goto, Answer
<1>2. CASE Reconnect(c)
  BY <1>2 DEF Reconnect, ReconnectCheck, ReconnectPower, ReconnectProtocol, ReconnectShare, Serve, Goto, Answer
<1>3. CASE Transaction(c)
  BY <1>3 DEF Transaction, SCardBeginTransaction, SCardEndTransaction, EndPower, EndUnlock, SCardTransmit,
     Transmitted, Serve, Goto, Answer, threadVars, Owns
<1>4. CASE Context(c)
  BY <1>4 DEF Context, SCardEstablishContext, SCardReleaseContext, ClientDies, RemoveContextHandle,
     RemoveContextEnd, Serve, Goto
<1>5. CASE DisconnectSteps(c)
  BY <1>5 DEF DisconnectSteps, DisconnectWait, DisconnectClose, DisconnectGrace, EndDisconnect, Goto, Answer
<1>6. CASE \E h \in Handles, d \in Dispositions : SCardDisconnect(c, h, d)
  BY <1>6 DEF SCardDisconnect, DisconnectTarget, Serve
<1> QED
  BY <1>1, <1>2, <1>3, <1>4, <1>5, <1>6 DEF Client

\* The lock is given to a handle that the calling context has or gets; no
\* other way out than the lists being full leaves it to a handle not open.
LEMMA LockMoves ==
  ASSUME RMInv, NEW c \in Clients, Client(c)
  PROVE  \/ hLockId' \in {hLockId, NoHandle}
         \/ /\ hLockId' \in cardsList[c] \cup RFCreateReaderHandle
            /\ hLockId' \in Open' \/ ~RFAddReaderHandle
<1> USE DEF RMInv, RMTypeOK, SharingTypeOK, ThreadTypeOK
<1>a. ASSUME NEW h
      PROVE  /\ RFLockSharing(h) => hLockId' \in {hLockId, h}
             /\ RFUnlockSharing(h) => hLockId' \in {hLockId, NoHandle}
             /\ RFUnlockAllSharing(h) => hLockId' \in {hLockId, NoHandle}
  BY DEF RFLockSharing, RFUnlockSharing, RFUnlockAllSharing
<1>1. CASE ConnectShare(c)
  <2>1. PICK h \in RFCreateReaderHandle : ConnectNew(c, h)
    BY <1>1 DEF ConnectShare
  <2>2. hLockId' \in {hLockId, h}
    BY <1>a, <2>1 DEF ConnectNew
  <2>3. h \in Handles
    BY DEF RFCreateReaderHandle
  <2>4. CASE call[c].share = "EXCLUSIVE" /\ contexts # 0
    BY <2>1, <2>4 DEF ConnectNew
  <2>5. CASE ~(call[c].share = "EXCLUSIVE" /\ contexts # 0)
    <3>1. handlesList' = [handlesList EXCEPT ![h] = IF RFAddReaderHandle THEN "none" ELSE @]
      BY <2>1, <2>5 DEF ConnectNew
    <3>2. h \in Open' \/ ~RFAddReaderHandle
      BY <2>3, <3>1 DEF Open
    <3> QED
      BY <2>2, <3>2
  <2> QED
    BY <2>4, <2>5
<1>2. CASE ReconnectShare(c)
  <2>1. hLockId' \in {hLockId, NoHandle, hCard[c]}
    BY <1>2, <1>a DEF ReconnectShare
  <2>2. hCard[c] \in cardsList[c] /\ hCard[c] \in Open
    BY <1>2 DEF ReconnectShare, CallsOwn, HandleSteps
  <2>3. Open \subseteq Open'
    BY <1>2 DEF ReconnectShare, Open
  <2> QED
    BY <2>1, <2>2, <2>3
<1>3. CASE DisconnectUnlock(c) \/ EndUnlock(c) \/ RemoveContextHandle(c)
  BY <1>3, <1>a DEF DisconnectUnlock, EndUnlock, LeaveTransaction, RemoveContextHandle
<1>4. ASSUME NEW h \in Handles, SCardBeginTransaction(c, h)
      PROVE  hLockId' \in {hLockId} \cup (cardsList[c] \cap Open')
  BY <1>4, <1>a, ListKept DEF SCardBeginTransaction, Owns
<1>5. ASSUME NEW h \in Handles, SCardEndTransaction(c, h, "LEAVE")
      PROVE  hLockId' \in {hLockId, NoHandle}
  BY <1>5, <1>a DEF SCardEndTransaction, LeaveTransaction
<1> QED
  BY <1>1, <1>2, <1>3, <1>4, <1>5, LockCalls

LEMMA StatusLock ==
  ASSUME StatusThread \/ InsertCard \/ RemoveCard
  PROVE  hLockId' \in {hLockId, NoHandle} /\ Open' = Open /\ UNCHANGED threadVars
BY ListKept DEF StatusThread, StatusStart, StatusPoll, StatusError, StatusRemoved, StatusInserted,
   StatusSame, StatusPowerOff, InsertCard, RemoveCard, readerVars

LEMMA StepClosers ==
  ASSUME RMInv, ClosersUnlocked, [Next]_vars
  PROVE  ClosersUnlocked'
<1> USE DEF RMInv, RMTypeOK, SharingTypeOK, ThreadTypeOK
<1>0. \A c \in Clients : pc[c] \in ClosingSteps => hCard[c] \in cardsList[c] /\ hCard[c] # NoHandle
  BY DEF CallsOwn, ClosingSteps, HandleSteps
<1>1. CASE UNCHANGED vars
  BY <1>1 DEF ClosersUnlocked, vars, readerVars, threadVars
<1>2. CASE StatusThread \/ InsertCard \/ RemoveCard
  BY <1>0, <1>2, StatusLock DEF ClosersUnlocked, threadVars
<1>3. ASSUME NEW c \in Clients, Client(c)
      PROVE  ClosersUnlocked'
  <2> SUFFICES ASSUME NEW d \in Clients, pc'[d] \in ClosingSteps
               PROVE  hLockId' # hCard'[d]
    BY DEF ClosersUnlocked
  <2>1. CASE d # c
    <3>1. pc'[d] = pc[d] /\ hCard'[d] = hCard[d]
      BY <1>3, <2>1, OthersStay
    <3>2. hCard[d] \in cardsList[d] /\ hCard[d] # NoHandle /\ hLockId # hCard[d]
      BY <1>0, <3>1 DEF ClosersUnlocked
    <3>3. hCard[d] \notin cardsList[c] \cup RFCreateReaderHandle
      BY <2>1, <3>2 DEF ListsApart, RFCreateReaderHandle
    <3> QED
      BY <1>3, <3>1, <3>2, <3>3, LockMoves
  <2>2. CASE d = c
    <3>1. DisconnectUnlock(c) \/ DisconnectPower(c)
      BY <1>3, <2>2, ClosersComeFromUnlock
    <3>2. CASE DisconnectPower(c)
      BY <2>2, <3>2 DEF DisconnectPower, ClosersUnlocked, ClosingSteps, Goto
    <3>3. CASE DisconnectUnlock(c)
      <4>1. hCard[c] # NoHandle
        BY <3>3 DEF DisconnectUnlock, CallsOwn, HandleSteps
      <4>2. RFUnlockAllSharing(hCard[c])
        BY <3>3 DEF DisconnectUnlock
      <4>3. hLockId' # hCard[c]
        BY <4>1, <4>2 DEF RFUnlockAllSharing, RFCheckSharing
      <4>4. hCard'[c] \in {hCard[c], NoHandle}
        BY <3>3 DEF DisconnectUnlock, Goto, EndDisconnect, Answer
      <4>5. Goto(c, "disconnect_power") \/ Goto(c, "disconnect_close") \/ EndDisconnect(c, FALSE)
        BY <3>3 DEF DisconnectUnlock
      <4>6. ~EndDisconnect(c, FALSE)
        BY <2>2 DEF EndDisconnect, Answer, ClosingSteps
      <4> QED
        BY <2>2, <4>3, <4>5, <4>6 DEF Goto
    <3> QED
      BY <3>1, <3>2, <3>3
  <2> QED
    BY <2>1, <2>2
<1> QED
  BY <1>1, <1>2, <1>3 DEF Next

\* Handles are closed by their own disconnection only.
LEMMA ClosedByDisconnect ==
  ASSUME RMInv, NEW c \in Clients, Client(c), NEW h \in Open, h \notin Open'
  PROVE  DisconnectClose(c) /\ h = hCard[c]
<1> USE DEF RMInv, RMTypeOK, SharingTypeOK
<1>1. CASE Connect(c)
  <2>1. CASE ConnectShare(c)
    BY <2>1 DEF ConnectShare, ConnectNew, RFCreateReaderHandle, Open
  <2> QED
    BY <1>1, <2>1, ListKept DEF Connect, ConnectCheck, ConnectWait, ConnectPower, ConnectProtocol, readerVars
<1>2. CASE Reconnect(c)
  <2>1. CASE ReconnectShare(c)
    BY <2>1 DEF ReconnectShare, Open
  <2> QED
    BY <1>2, <2>1, ListKept DEF Reconnect, ReconnectCheck, ReconnectPower, ReconnectProtocol
<1>3. CASE Transaction(c)
  BY <1>3, ListKept DEF Transaction, SCardBeginTransaction, SCardEndTransaction, EndPower, EndUnlock,
     SCardTransmit, Transmitted, readerVars
<1>4. CASE Context(c)
  BY <1>4, ListKept DEF Context, SCardEstablishContext, SCardReleaseContext, ClientDies, RemoveContextHandle,
     RemoveContextEnd, readerVars
<1>5. CASE DisconnectSteps(c)
  <2>1. CASE DisconnectClose(c)
    BY <2>1 DEF DisconnectClose, Open
  <2> QED
    BY <1>5, <2>1, ListKept DEF DisconnectSteps, DisconnectWait, DisconnectUnlock, DisconnectPower,
       DisconnectGrace, readerVars
<1>6. CASE \E h_1 \in Handles, d \in Dispositions : SCardDisconnect(c, h_1, d)
  BY <1>6, ListKept DEF SCardDisconnect, readerVars
<1> QED
  BY <1>1, <1>2, <1>3, <1>4, <1>5, <1>6 DEF Client

LEMMA StepLock ==
  ASSUME Cardinality(Handles) <= maxReaderHandles,
         RMInv, ClosersUnlocked, LockHeldByOpenHandle, [Next]_vars
  PROVE  LockHeldByOpenHandle'
<1>1. CASE UNCHANGED vars
  BY <1>1, ListKept DEF LockHeldByOpenHandle, vars, readerVars
<1>2. CASE StatusThread \/ InsertCard \/ RemoveCard
  BY <1>2, StatusLock DEF LockHeldByOpenHandle
<1>3. ASSUME NEW c \in Clients, Client(c)
      PROVE  LockHeldByOpenHandle'
  <2>1. CASE hLockId' = NoHandle
    BY <2>1 DEF LockHeldByOpenHandle
  <2>2. CASE hLockId' # NoHandle /\ hLockId' = hLockId
    <3>1. hLockId \in Open
      BY <2>2 DEF LockHeldByOpenHandle
    <3>2. ~(DisconnectClose(c) /\ hLockId = hCard[c])
      BY DEF DisconnectClose, ClosersUnlocked, ClosingSteps
    <3> QED
      BY <1>3, <2>2, <3>1, <3>2, ClosedByDisconnect DEF LockHeldByOpenHandle
  <2>3. CASE hLockId' # NoHandle /\ hLockId' # hLockId
    <3>1. /\ hLockId' \in cardsList[c] \cup RFCreateReaderHandle
          /\ hLockId' \in Open' \/ ~RFAddReaderHandle
      BY <1>3, <2>3, LockMoves
    <3>2. CASE hLockId' \in Open'
      BY <3>2 DEF LockHeldByOpenHandle
    <3>3. CASE hLockId' \notin Open'
      \* Then the list of the reader was full: it held every handle.
      <4>1. IsFiniteSet(Handles) /\ IsFiniteSet(Open) /\ Open \subseteq Handles
        BY HandleAssumption, FS_Subset DEF Open
      <4>2. Cardinality(Open) \in Nat /\ Cardinality(Handles) \in Nat /\ Cardinality(Open) <= Cardinality(Handles)
        BY <4>1, FS_CardinalityType, FS_Subset
      <4>3. Cardinality(Open) >= maxReaderHandles
        BY <3>1, <3>3, <4>2, LimitAssumption DEF RFAddReaderHandle
      <4>4. Cardinality(Open) = Cardinality(Handles)
        BY <4>2, <4>3, LimitAssumption
      <4>5. Open = Handles
        BY <4>1, <4>4, FS_Subset
      <4>6. hLockId' \in Open
        BY <3>1, <4>5 DEF RMInv, RMTypeOK, ThreadTypeOK, RFCreateReaderHandle
      <4>7. DisconnectClose(c) /\ hLockId' = hCard[c]
        BY <1>3, <3>3, <4>6, ClosedByDisconnect
      <4> QED
        BY <2>3, <4>7 DEF DisconnectClose
    <3> QED
      BY <3>2, <3>3
  <2> QED
    BY <2>1, <2>2, <2>3
<1> QED
  BY <1>1, <1>2, <1>3 DEF Next


\* A lock is given to a handle only if it has no other, and an application
\* that is told of a transaction has it.
LEMMA TakesLock ==
  ASSUME RMInv, TransactionKept, NEW h \in Handles, RFLockSharing(h),
         txn' \subseteq txn \cup (IF RFCheckSharing(h) THEN {h} ELSE {})
  PROVE  TransactionKept'
BY HandleAssumption DEF TransactionKept, RFLockSharing, RFCheckSharing, RMInv, RMTypeOK, SharingTypeOK

LEMMA LeavesLock ==
  ASSUME RMInv, TransactionKept, NEW h \in Handles,
         \/ /\ RFUnlockSharing(h)
            /\ txn' \subseteq IF RFCheckSharing(h) /\ LockCount <= 1 THEN txn \ {h} ELSE txn
         \/ RFUnlockAllSharing(h) /\ txn' \subseteq IF RFCheckSharing(h) THEN txn \ {h} ELSE txn
  PROVE  TransactionKept'
BY HandleAssumption DEF TransactionKept, RFUnlockSharing, RFUnlockAllSharing, RFCheckSharing, RMInv, RMTypeOK,
   SharingTypeOK

LEMMA StepTransaction ==
  ASSUME RMInv, TransactionKept, [Next]_vars
  PROVE  TransactionKept'
<1> USE DEF RMInv, RMTypeOK
<1>0. ASSUME hLockId' = hLockId, txn' \subseteq txn
      PROVE  TransactionKept'
  BY <1>0 DEF TransactionKept
<1>1. CASE UNCHANGED vars
  BY <1>0, <1>1 DEF vars, readerVars, historyVars
<1>2. CASE StatusThread \/ InsertCard \/ RemoveCard
  <2>1. (hLockId' = hLockId /\ txn' = txn) \/ txn' = {}
    BY <1>2 DEF StatusThread, StatusStart, StatusPoll, StatusError, StatusRemoved, StatusInserted,
       StatusSame, StatusPowerOff, InsertCard, RemoveCard, readerVars, historyVars
  <2> QED
    BY <1>0, <2>1 DEF TransactionKept
<1>3. ASSUME NEW c \in Clients, Client(c)
      PROVE  TransactionKept'
  <2>0. pc[c] \in HandleSteps => hCard[c] \in Handles
    BY DEF CallsOwn, ThreadTypeOK
  <2>1. CASE Connect(c)
    <3>1. CASE ConnectShare(c)
      <4>1. PICK h \in RFCreateReaderHandle : ConnectNew(c, h)
        BY <3>1 DEF ConnectShare
      <4>2. \/ UNCHANGED <<hLockId, txn>>
            \/ RFLockSharing(h) /\ txn' \subseteq txn \cup (IF RFCheckSharing(h) THEN {h} ELSE {})
        BY <4>1 DEF ConnectNew
      <4> QED
        BY <1>0, <4>2, TakesLock DEF RFCreateReaderHandle
    <3> QED
      BY <1>0, <2>1, <3>1 DEF Connect, ConnectCheck, ConnectWait, ConnectPower, ConnectProtocol, readerVars, historyVars
  <2>2. CASE Reconnect(c)
    <3>1. CASE ReconnectShare(c)
      <4>1. hCard[c] \in Handles
        BY <2>0, <3>1 DEF ReconnectShare, HandleSteps
      <4>2. \/ UNCHANGED <<hLockId, txn>>
            \/ /\ RFLockSharing(hCard[c])
               /\ txn' \subseteq txn \cup (IF RFCheckSharing(hCard[c]) THEN {hCard[c]} ELSE {})
            \/ /\ RFUnlockSharing(hCard[c])
               /\ txn' \subseteq IF RFCheckSharing(hCard[c]) /\ LockCount <= 1 THEN txn \ {hCard[c]} ELSE txn
        BY <3>1, EXCLUSIVE_CONTEXT # 1 DEF ReconnectShare, EXCLUSIVE_CONTEXT
      <4> QED
        BY <1>0, <4>1, <4>2, TakesLock, LeavesLock
    <3> QED
      BY <1>0, <2>2, <3>1 DEF Reconnect, ReconnectCheck, ReconnectPower, ReconnectProtocol, historyVars
  <2>3. CASE Transaction(c)
    <3>1. ASSUME NEW h \in Handles, LeaveTransaction(h)
          PROVE  TransactionKept'
      <4>1. RFUnlockSharing(h) /\ txn' \subseteq txn
        BY <3>1 DEF LeaveTransaction
      <4>2. RFCheckSharing(h) /\ LockCount <= 1 => txn' \subseteq txn \ {h}
        BY <3>1 DEF LeaveTransaction
      <4> QED
        BY <4>1, <4>2, LeavesLock
    <3>2. ASSUME NEW h \in Handles, SCardBeginTransaction(c, h)
          PROVE  TransactionKept'
      BY <3>2, TakesLock DEF SCardBeginTransaction
    <3>3. ASSUME NEW h \in Handles, NEW d \in Dispositions, SCardEndTransaction(c, h, d)
          PROVE  TransactionKept'
      BY <1>0, <3>1, <3>3 DEF SCardEndTransaction
    <3>4. CASE EndUnlock(c)
      BY <2>0, <3>1, <3>4 DEF EndUnlock, HandleSteps
    <3> QED
      BY <1>0, <2>3, <3>2, <3>3, <3>4 DEF Transaction, EndPower, SCardTransmit, Transmitted, readerVars, historyVars
  <2>4. CASE Context(c)
    <3>1. CASE RemoveContextHandle(c)
      BY <3>1 DEF RemoveContextHandle, TransactionKept
    <3> QED
      BY <1>0, <2>4, <3>1 DEF Context, SCardEstablishContext, SCardReleaseContext, ClientDies, RemoveContextEnd,
         readerVars, historyVars
  <2>5. CASE DisconnectSteps(c)
    <3>1. CASE DisconnectUnlock(c)
      BY <2>0, <3>1, LeavesLock DEF DisconnectUnlock, HandleSteps
    <3>2. CASE DisconnectClose(c)
      BY <1>0, <3>2 DEF DisconnectClose
    <3> QED
      BY <1>0, <2>5, <3>1, <3>2 DEF DisconnectSteps, DisconnectWait, DisconnectPower, DisconnectGrace,
         readerVars, historyVars
  <2>6. CASE \E h \in Handles, d \in Dispositions : SCardDisconnect(c, h, d)
    BY <1>0, <2>6 DEF SCardDisconnect, readerVars
  <2> QED
    BY <1>3, <2>1, <2>2, <2>3, <2>4, <2>5, <2>6 DEF Client
<1> QED
  BY <1>1, <1>2, <1>3 DEF Next

LEMMA InitLock == Init => ClosersUnlocked /\ LockHeldByOpenHandle /\ TransactionKept
BY DEF Init, ClosersUnlocked, ClosingSteps, LockHeldByOpenHandle, TransactionKept

\* The types of the reader, its threads and its slot.
THEOREM RMTypeCorrect == Spec => []RMTypeOK
<1>1. RMInv => RMTypeOK
  BY DEF RMInv
<1> QED
  BY <1>1, HandlesOwned, PTL

\* Whatever the threads of the other clients do, an application that has a
\* transaction has the reader's lock.
THEOREM TransactionIsKept == Spec => []TransactionKept
<1>1. Init => TransactionKept
  BY InitLock
<1>2. RMInv /\ TransactionKept /\ [Next]_vars => TransactionKept'
  BY StepTransaction
<1> QED
  BY <1>1, <1>2, HandlesOwned, PTL DEF Spec

\* The lock is not left by a handle that is gone, as long as the reader's
\* list of handles has room for all.
THEOREM LockNotLeftBehind ==
  ASSUME Cardinality(Handles) <= maxReaderHandles
  PROVE  Spec => []LockHeldByOpenHandle
<1>1. Init => ClosersUnlocked /\ LockHeldByOpenHandle
  BY InitLock
<1>2. RMInv /\ ClosersUnlocked /\ [Next]_vars => ClosersUnlocked'
  BY StepClosers
<1>3. RMInv /\ ClosersUnlocked /\ LockHeldByOpenHandle /\ [Next]_vars => LockHeldByOpenHandle'
  BY StepLock
<1> QED
  BY <1>1, <1>2, <1>3, HandlesOwned, PTL DEF Spec
-----------------------------------------------------------------------------
(* The sharing counter and the events, while the calls do not overlap.     *)

OneAtATime == ~overlapped => \A c, d \in Clients : Busy(c) /\ Busy(d) => c = d

ConnectSteps == {"connect_wait", "connect_power", "connect_protocol", "connect_share"}

Counted ==
  \/ contexts = Cardinality(Open)
  \/ (contexts = EXCLUSIVE_CONTEXT /\ Cardinality(Open) = 1)

\* A connection has found the reader without an exclusive handle, and it is
\* still so.
CountKept ==
  ~overlapped =>
    /\ Counted
    /\ \A c \in Clients : pc[c] \in ConnectSteps => contexts # EXCLUSIVE_CONTEXT

\* The event is set before the card is reset.
ToldFirst ==
  ~overlapped =>
    \A c \in Clients : pc[c] \in {"reconnect_power", "disconnect_power"} =>
      \A h \in Open : handlesList[h] # "none"

\* While calls do not overlap, a thread that does something to the reader is
\* alone in a call.
LEMMA AloneStep ==
  ASSUME RMInv, OneAtATime, NEW c \in Clients, Client(c), ~overlapped'
  PROVE  /\ ~overlapped
         /\ \/ \A d \in Clients \ {c} : ~Busy(d) /\ ~Busy(d)'
            \/ UNCHANGED <<readerVars, stale>> /\ ~Busy(c)'
<1> USE DEF RMInv, RMTypeOK, SharingTypeOK, ThreadTypeOK
<1>1. ~overlapped
  BY DEF Client, Connect, ConnectCheck, ConnectWait, ConnectPower, ConnectProtocol, ConnectShare,
     Reconnect, ReconnectCheck, ReconnectPower, ReconnectProtocol, ReconnectShare,
     Transaction, SCardBeginTransaction, SCardEndTransaction, EndPower, EndUnlock, SCardTransmit, Transmitted,
     Context, SCardEstablishContext, SCardReleaseContext, ClientDies, RemoveContextHandle, RemoveContextEnd,
     DisconnectSteps, DisconnectWait, DisconnectUnlock, DisconnectPower, DisconnectClose, DisconnectGrace,
     SCardDisconnect, Serve, historyVars
<1>2. CASE Busy(c)
  BY <1>1, <1>2, OthersStay DEF OneAtATime, Busy
<1>3. CASE ~Busy(c)
  <2>1. CASE overlapped' = (overlapped \/ Overlaps(c))
    BY <2>1, OthersStay DEF Overlaps, Busy
  <2>2. CASE SCardEstablishContext(c) \/ (ClientDies(c) /\ ~hContext[c])
    BY <2>2 DEF SCardEstablishContext, ClientDies, Goto, Busy, readerVars, historyVars
  <2>3. pc[c] \in {"free", "idle"}
    BY <1>3 DEF Busy
  <2>4. CASE Connect(c)
    BY <2>1, <2>3, <2>4 DEF Connect, ConnectCheck, ConnectWait, ConnectPower, ConnectProtocol, ConnectShare, Serve
  <2>5. CASE Reconnect(c)
    BY <2>1, <2>3, <2>5 DEF Reconnect, ReconnectCheck, ReconnectPower, ReconnectProtocol, ReconnectShare, Serve
  <2>6. CASE Transaction(c)
    BY <2>1, <2>3, <2>6 DEF Transaction, SCardBeginTransaction, SCardEndTransaction, EndPower, EndUnlock,
       SCardTransmit, Transmitted, Serve
  <2>7. CASE Context(c)
    BY <2>1, <2>2, <2>3, <2>7 DEF Context, SCardReleaseContext, ClientDies, RemoveContextHandle, RemoveContextEnd, Serve
  <2>8. CASE DisconnectSteps(c)
    BY <2>3, <2>8 DEF DisconnectSteps, DisconnectWait, DisconnectUnlock, DisconnectPower, DisconnectClose,
       DisconnectGrace
  <2>9. CASE \E h \in Handles, d \in Dispositions : SCardDisconnect(c, h, d)
    BY <2>1, <2>9 DEF SCardDisconnect, Serve
  <2> QED
    BY <2>4, <2>5, <2>6, <2>7, <2>8, <2>9 DEF Client
<1> QED
  BY <1>1, <1>2, <1>3

LEMMA StepOneAtATime ==
  ASSUME RMInv, OneAtATime, [Next]_vars
  PROVE  OneAtATime'
<1>1. CASE UNCHANGED vars
  BY <1>1 DEF OneAtATime, Busy, vars, threadVars, historyVars
<1>2. CASE StatusThread \/ InsertCard \/ RemoveCard
  BY <1>2 DEF OneAtATime, Busy, StatusThread, StatusStart, StatusPoll, StatusPowerOff, InsertCard, RemoveCard,
     threadVars, historyVars
<1>3. ASSUME NEW c \in Clients, Client(c), ~overlapped'
      PROVE  OneAtATime'
  <2>1. \A d \in Clients \ {c} : Busy(d)' <=> Busy(d)
    BY <1>3, OthersStay DEF Busy
  <2>2. /\ ~overlapped
        /\ (\A d \in Clients \ {c} : ~Busy(d)) \/ ~Busy(c)'
    BY <1>3, AloneStep
  <2>3. \A d, e \in Clients : Busy(d) /\ Busy(e) => d = e
    BY <2>2 DEF OneAtATime
  <2> QED
    BY <2>1, <2>2, <2>3 DEF OneAtATime
<1> QED
  BY <1>1, <1>2, <1>3 DEF Next, OneAtATime

LEMMA OpenFinite ==
  ASSUME TRUE
  PROVE  IsFiniteSet(Open) /\ Cardinality(Open) \in Nat
BY HandleAssumption, FS_Subset, FS_CardinalityType DEF Open

LEMMA StepCount ==
  ASSUME RMInv, OneAtATime, CountKept, [Next]_vars
  PROVE  CountKept'
<1> USE DEF RMInv, RMTypeOK, SharingTypeOK, ThreadTypeOK
<1>0. ASSUME UNCHANGED contexts, Open' = Open, ~overlapped => Counted
      PROVE  ~overlapped => Counted'
  BY <1>0 DEF Counted
<1>1. CASE UNCHANGED vars
  BY <1>0, <1>1, ListKept DEF CountKept, vars, readerVars, threadVars, historyVars
<1>2. CASE StatusThread \/ InsertCard \/ RemoveCard
  <2>1. UNCHANGED <<contexts, overlapped, pc>> /\ Open' = Open
    BY <1>2, StatusLock DEF StatusThread, StatusStart, StatusPoll, StatusPowerOff, InsertCard, RemoveCard,
       readerVars, threadVars, historyVars
  <2> QED
    BY <1>0, <2>1 DEF CountKept
<1>3. ASSUME NEW c \in Clients, Client(c), ~overlapped'
      PROVE  CountKept'
  <2>a. /\ ~overlapped
        /\ (\A d \in Clients \ {c} : ~Busy(d)') \/ (UNCHANGED readerVars /\ ~Busy(c)')
    BY <1>3, AloneStep
  <2>0. /\ ~overlapped /\ Counted
        /\ pc[c] \in ConnectSteps => contexts # EXCLUSIVE_CONTEXT
        /\ (\A d \in Clients \ {c} : ~Busy(d)') \/ (UNCHANGED readerVars /\ ~Busy(c)')
    BY <2>a DEF CountKept
  <2>1. ASSUME UNCHANGED contexts, Open' = Open,
               pc'[c] \in ConnectSteps => contexts # EXCLUSIVE_CONTEXT
        PROVE  CountKept'
    <3>1. Counted'
      BY <1>0, <2>0, <2>1
    <3>2. \A d \in Clients \ {c} : pc'[d] \in ConnectSteps => contexts' # EXCLUSIVE_CONTEXT
      BY <1>3, <2>0, <2>1, OthersStay DEF CountKept
    <3> QED
      BY <2>1, <3>1, <3>2 DEF CountKept
  <2>2. ASSUME Counted', \A d \in Clients \ {c} : ~Busy(d)', pc'[c] \notin ConnectSteps
        PROVE  CountKept'
    BY <2>2 DEF CountKept, Busy, ConnectSteps
  <2>3. CASE Connect(c)
    <3>1. CASE ConnectShare(c)
      <4>1. PICK h \in RFCreateReaderHandle : ConnectNew(c, h)
        BY <3>1 DEF ConnectShare
      <4>2. contexts # EXCLUSIVE_CONTEXT /\ contexts = Cardinality(Open) /\ h \in Handles \ Open
        BY <2>0, <3>1 DEF ConnectShare, ConnectSteps, Counted, RFCreateReaderHandle
      <4>3. PICK cards : Answer(c, cards)
        BY <4>1 DEF ConnectNew
      <4>4. pc'[c] = "idle"
        BY <4>3 DEF Answer
      <4>5. CASE UNCHANGED <<contexts, handlesList>>
        BY <2>1, <4>4, <4>5, ListKept DEF ConnectSteps
      <4>6. CASE ~UNCHANGED <<contexts, handlesList>>
        <5> DEFINE exclusive == call[c].share = "EXCLUSIVE"
        <5>1. ~(exclusive /\ contexts # 0)
          BY <4>1, <4>6 DEF ConnectNew
        <5>2. /\ contexts' = IF RFAddReaderHandle THEN (IF exclusive THEN EXCLUSIVE_CONTEXT ELSE contexts + 1)
                             ELSE IF exclusive \/ contexts = EXCLUSIVE_CONTEXT THEN 0 ELSE contexts
              /\ handlesList' = [handlesList EXCEPT ![h] = IF RFAddReaderHandle THEN "none" ELSE @]
          BY <4>1, <5>1 DEF ConnectNew
        <5> HIDE DEF exclusive
        <5>3. RFAddReaderHandle
          BY <4>2, <4>6, <5>1, <5>2, LimitAssumption DEF RFAddReaderHandle
        <5>4. Open' = Open \cup {h}
          BY <4>2, <5>2, <5>3 DEF Open
        <5>5. Cardinality(Open') = Cardinality(Open) + 1
          BY <4>2, <5>4, OpenFinite, FS_AddElement
        <5>6. Counted'
          BY <4>2, <5>1, <5>2, <5>3, <5>5 DEF Counted
        <5>7. pc[c] = "connect_share"
          BY <3>1 DEF ConnectShare
        <5> QED
          BY <2>0, <2>2, <4>4, <4>6, <5>6 DEF ConnectSteps, readerVars
      <4> QED
        BY <4>5, <4>6
    <3>2. ASSUME NEW share \in ShareModes, NEW preferred \in Preferences, ConnectCheck(c, share, preferred)
          PROVE  CountKept'
      BY <2>1, <3>2, ListKept DEF ConnectCheck, readerVars
    <3>3. CASE ConnectWait(c) \/ ConnectPower(c) \/ ConnectProtocol(c)
      <4>1. UNCHANGED contexts /\ Open' = Open /\ contexts # EXCLUSIVE_CONTEXT
        BY <2>0, <3>3, ListKept DEF ConnectWait, ConnectPower, ConnectProtocol, ConnectSteps, readerVars
      <4> QED
        BY <2>1, <4>1
    <3> QED
      BY <2>3, <3>1, <3>2, <3>3 DEF Connect
  <2>4. CASE Reconnect(c)
    <3>1. CASE ReconnectShare(c)
      <4>1. Open' = Open /\ pc'[c] = "idle"
        BY <3>1 DEF ReconnectShare, Open, Answer
      <4>2. Counted'
        <5>1. \/ contexts' = contexts
              \/ contexts = 1 /\ contexts' = EXCLUSIVE_CONTEXT
              \/ contexts = EXCLUSIVE_CONTEXT /\ contexts' = 1
          BY <3>1 DEF ReconnectShare
        <5>2. Cardinality(Open)' = Cardinality(Open)
          BY <4>1
        <5>3. /\ contexts = 1 => Cardinality(Open) = 1
              /\ contexts = EXCLUSIVE_CONTEXT => Cardinality(Open) = 1
          BY <2>0, OpenFinite DEF Counted, EXCLUSIVE_CONTEXT
        <5> QED
          BY <2>0, <5>1, <5>2, <5>3 DEF Counted
      <4>3. CASE contexts' = contexts
        BY <2>1, <4>1, <4>3 DEF ConnectSteps
      <4> QED
        BY <2>0, <2>2, <4>1, <4>2, <4>3 DEF ConnectSteps, readerVars
    <3>2. CASE ~ReconnectShare(c)
      <4>1. UNCHANGED contexts /\ Open' = Open
        BY <2>4, <3>2, ListKept DEF Reconnect, ReconnectCheck, ReconnectPower, ReconnectProtocol
      <4>2. pc'[c] \notin ConnectSteps
        BY <2>4, <3>2 DEF Reconnect, ReconnectCheck, ReconnectPower, ReconnectProtocol, Serve, Goto, Answer, ConnectSteps
      <4> QED
        BY <2>1, <4>1, <4>2
    <3> QED
      BY <3>1, <3>2
  <2>5. CASE Transaction(c)
    <3>1. UNCHANGED contexts /\ Open' = Open
      BY <2>5, ListKept DEF Transaction, SCardBeginTransaction, SCardEndTransaction, EndPower, EndUnlock,
         SCardTransmit, Transmitted, readerVars
    <3>2. pc'[c] \notin ConnectSteps
      BY <2>5 DEF Transaction, SCardBeginTransaction, SCardEndTransaction, EndPower, EndUnlock,
         SCardTransmit, Transmitted, Owns, Serve, Goto, Answer, ConnectSteps, threadVars
    <3> QED
      BY <2>1, <3>1, <3>2
  <2>6. CASE Context(c)
    <3>1. UNCHANGED contexts /\ Open' = Open
      BY <2>6, ListKept DEF Context, SCardEstablishContext, SCardReleaseContext, ClientDies, RemoveContextHandle,
         RemoveContextEnd, readerVars
    <3>2. pc'[c] \notin ConnectSteps
      BY <2>6 DEF Context, SCardEstablishContext, SCardReleaseContext, ClientDies, RemoveContextHandle,
         RemoveContextEnd, Serve, Goto, ConnectSteps
    <3> QED
      BY <2>1, <3>1, <3>2
  <2>7. CASE DisconnectSteps(c)
    <3>1. pc'[c] \notin ConnectSteps
      BY <2>7 DEF DisconnectSteps, DisconnectWait, DisconnectUnlock, DisconnectPower, DisconnectClose,
         DisconnectGrace, EndDisconnect, Goto, Answer, ConnectSteps
    <3>2. CASE DisconnectClose(c)
      <4>1. hCard[c] \in Open
        BY <3>2 DEF DisconnectClose, CallsOwn, HandleSteps
      <4>2. Open' = Open \ {hCard[c]}
        BY <3>2, <4>1 DEF DisconnectClose, Open
      <4>3. Cardinality(Open') = Cardinality(Open) - 1
        <5>1. PICK h \in Open : h = hCard[c]
          BY <4>1
        <5>2. Cardinality(Open \ {h}) = Cardinality(Open) - 1
          BY OpenFinite, FS_RemoveElement
        <5> QED
          BY <4>2, <5>1, <5>2
      <4>4. Cardinality(Open) # 0
        BY <4>1, OpenFinite, FS_EmptySet
      <4>5. Counted'
        BY <2>0, <3>2, <4>3, <4>4, OpenFinite DEF Counted, DisconnectClose, ContextClosed, EXCLUSIVE_CONTEXT
      <4>6. handlesList' # handlesList
        BY <4>1, <4>2 DEF Open
      <4> QED
        BY <2>0, <2>2, <3>1, <4>5, <4>6 DEF readerVars
    <3>3. CASE ~DisconnectClose(c)
      <4>1. UNCHANGED contexts /\ Open' = Open
        BY <2>7, <3>3, ListKept DEF DisconnectSteps, DisconnectWait, DisconnectUnlock, DisconnectPower,
           DisconnectGrace, readerVars
      <4> QED
        BY <2>1, <3>1, <4>1
    <3> QED
      BY <3>2, <3>3
  <2>8. CASE \E h \in Handles, d \in Dispositions : SCardDisconnect(c, h, d)
    <3>1. UNCHANGED contexts /\ Open' = Open
      BY <2>8, ListKept DEF SCardDisconnect, readerVars
    <3>2. pc'[c] \notin ConnectSteps
      BY <2>8 DEF SCardDisconnect, DisconnectTarget, Serve, ConnectSteps
    <3> QED
      BY <2>1, <3>1, <3>2
  <2> QED
    BY <1>3, <2>3, <2>4, <2>5, <2>6, <2>7, <2>8 DEF Client
<1> QED
  BY <1>1, <1>2, <1>3 DEF Next, CountKept


\* The events that are set are not taken back before the card is reset.
LEMMA StepTold ==
  ASSUME RMInv, OneAtATime, ToldFirst, ResetIsTold, [Next]_vars
  PROVE  ToldFirst' /\ ResetIsTold'
<1> USE DEF RMInv, RMTypeOK, SharingTypeOK, ThreadTypeOK
<1> DEFINE Told == \A h \in Open : handlesList[h] # "none"
           Tells == {"reconnect_power", "disconnect_power"}
<1>0. ASSUME NEW event \in {"RESET", "REMOVED"}, handlesList' = RFSetReaderEventState(event)
      PROVE  Told' /\ Open' = Open
  BY <1>0 DEF RFSetReaderEventState, Open
<1>1. CASE UNCHANGED vars
  BY <1>1 DEF ToldFirst, ResetIsTold, Open, vars, readerVars, threadVars, historyVars
<1>2. CASE StatusThread \/ InsertCard \/ RemoveCard
  <2>1. UNCHANGED <<overlapped, pc, stale>> /\ (UNCHANGED handlesList \/ handlesList' = RFSetReaderEventState("REMOVED"))
    BY <1>2 DEF StatusThread, StatusStart, StatusPoll, StatusPowerOff, StatusError, StatusRemoved, StatusInserted,
       StatusSame, InsertCard, RemoveCard, readerVars, threadVars, historyVars
  <2> QED
    BY <1>0, <2>1 DEF ToldFirst, ResetIsTold, Open
<1>3. ASSUME NEW c \in Clients, Client(c), ~overlapped'
      PROVE  ToldFirst' /\ ResetIsTold'
  <2>a. /\ ~overlapped
        /\ (\A d \in Clients \ {c} : ~Busy(d)') \/ (UNCHANGED <<readerVars, stale>> /\ ~Busy(c)')
    BY <1>3, AloneStep
  <2>b. /\ pc[c] \in Tells => Told
        /\ \A h \in stale \cap Open : handlesList[h] # "none"
    BY <2>a DEF ToldFirst, ResetIsTold
  <2>1. ASSUME pc'[c] \in Tells => Told'
        PROVE  ToldFirst'
    <3>1. CASE \A d \in Clients \ {c} : ~Busy(d)'
      BY <2>1, <3>1 DEF ToldFirst, Busy
    <3>2. CASE UNCHANGED <<readerVars, stale>> /\ ~Busy(c)'
      BY <1>3, <2>a, <3>2, OthersStay DEF ToldFirst, Busy, readerVars, Open
    <3> QED
      BY <2>a, <3>1, <3>2
  <2>2. ASSUME NEW S \in SUBSET Handles, Told', stale' \subseteq stale \cup S
        PROVE  ToldFirst' /\ ResetIsTold'
    BY <2>1, <2>2 DEF ResetIsTold
  <2>3. ASSUME stale' \subseteq stale, UNCHANGED handlesList, pc'[c] \notin Tells
        PROVE  ToldFirst' /\ ResetIsTold'
    BY <2>1, <2>3, <2>b DEF ResetIsTold, Open
  <2>4. CASE Connect(c)
    <3>0. pc'[c] \notin Tells
      BY <2>4 DEF Connect, ConnectCheck, ConnectWait, ConnectPower, ConnectProtocol, ConnectShare, ConnectNew,
         ConnectTarget, Serve, Goto, Answer
    <3>1. CASE ConnectShare(c)
      <4>1. PICK h \in RFCreateReaderHandle : ConnectNew(c, h)
        BY <3>1 DEF ConnectShare
      <4>2. \/ UNCHANGED <<handlesList, stale>>
            \/ /\ handlesList' = [handlesList EXCEPT ![h] = IF RFAddReaderHandle THEN "none" ELSE @]
               /\ stale' = stale \ {h}
        BY <4>1 DEF ConnectNew
      <4>3. ResetIsTold'
        BY <2>b, <4>2 DEF ResetIsTold, Open
      <4> QED
        BY <2>1, <3>0, <4>3
    <3> QED
      BY <2>3, <2>4, <3>0, <3>1 DEF Connect, ConnectCheck, ConnectWait, ConnectPower, ConnectProtocol,
         readerVars, historyVars
  <2>5. CASE Reconnect(c)
    <3>1. ASSUME NEW h \in Handles, NEW share \in ShareModes, NEW preferred \in Preferences,
                 NEW d \in Dispositions, ReconnectCheck(c, h, share, preferred, d)
          PROVE  ToldFirst' /\ ResetIsTold'
      <4>1. CASE d = "LEAVE"
        BY <2>3, <3>1, <4>1 DEF ReconnectCheck, Serve
      <4>2. CASE d # "LEAVE"
        BY <1>0, <2>2, <3>1, <4>2 DEF ReconnectCheck
      <4> QED
        BY <4>1, <4>2
    <3>2. CASE ReconnectPower(c)
      <4>1. pc[c] \in Tells /\ UNCHANGED handlesList
        BY <3>2 DEF ReconnectPower
      <4>2. \E S \in SUBSET Handles : stale' = stale \cup S
        BY <3>2 DEF ReconnectPower, NotePower, ResetCard, Open
      <4>3. Told'
        BY <2>b, <4>1 DEF Open
      <4> QED
        BY <2>2, <4>2, <4>3
    <3>3. CASE ReconnectProtocol(c)
      BY <2>3, <3>3 DEF ReconnectProtocol, Goto, Answer, historyVars
    <3>4. CASE ReconnectShare(c)
      <4>1. pc'[c] \notin Tells
        BY <3>4 DEF ReconnectShare, Answer
      <4>2. \/ UNCHANGED <<handlesList, stale>>
            \/ /\ handlesList' = [handlesList EXCEPT ![hCard[c]] = IF @ = "closed" THEN @ ELSE "none"]
               /\ stale' = stale \ {hCard[c]}
        BY <3>4 DEF ReconnectShare
      <4>3. ResetIsTold'
        BY <2>b, <4>2 DEF ResetIsTold, Open
      <4> QED
        BY <2>1, <4>1, <4>3
    <3> QED
      BY <2>5, <3>1, <3>2, <3>3, <3>4 DEF Reconnect
  <2>6. CASE Transaction(c)
    <3>1. CASE EndPower(c)
      <4>1. \E S \in SUBSET Handles : stale' = stale \cup S
        BY <3>1 DEF EndPower, NotePower, ResetCard, Open
      <4> QED
        BY <1>0, <2>2, <3>1, <4>1 DEF EndPower
    <3>2. CASE ~EndPower(c)
      <4>1. UNCHANGED <<handlesList, stale>>
        BY <2>6, <3>2 DEF Transaction, SCardBeginTransaction, SCardEndTransaction, EndUnlock, SCardTransmit,
           Transmitted, readerVars, historyVars
      <4>2. pc'[c] \notin Tells
        BY <2>6, <3>2 DEF Transaction, SCardBeginTransaction, SCardEndTransaction, EndUnlock, SCardTransmit,
           Transmitted, Owns, Serve, Answer, threadVars
      <4> QED
        BY <2>3, <4>1, <4>2
    <3> QED
      BY <3>1, <3>2
  <2>7. CASE Context(c)
    <3>1. UNCHANGED <<handlesList, stale>>
      BY <2>7 DEF Context, SCardEstablishContext, SCardReleaseContext, ClientDies, RemoveContextHandle,
         RemoveContextEnd, readerVars, historyVars
    <3>2. pc'[c] \notin Tells
      BY <2>7 DEF Context, SCardEstablishContext, SCardReleaseContext, ClientDies, RemoveContextHandle,
         RemoveContextEnd, Serve, Goto
    <3> QED
      BY <2>3, <3>1, <3>2
  <2>8. CASE DisconnectSteps(c)
    <3>1. CASE DisconnectUnlock(c)
      <4>1. CASE handlesList' = RFSetReaderEventState("RESET")
        BY <1>0, <2>2, <3>1, <4>1 DEF DisconnectUnlock
      <4>2. CASE handlesList' # RFSetReaderEventState("RESET")
        <5>1. UNCHANGED <<handlesList, stale>>
          BY <3>1, <4>2 DEF DisconnectUnlock
        <5>2. Goto(c, "disconnect_close") \/ EndDisconnect(c, FALSE)
          BY <3>1, <4>2 DEF DisconnectUnlock
        <5>3. pc'[c] \notin Tells
          BY <5>2 DEF Goto, EndDisconnect, Answer
        <5> QED
          BY <2>3, <5>1, <5>3
      <4> QED
        BY <4>1, <4>2
    <3>2. CASE DisconnectPower(c)
      <4>1. pc[c] \in Tells /\ UNCHANGED handlesList
        BY <3>2 DEF DisconnectPower
      <4>2. \E S \in SUBSET Handles : stale' = stale \cup S
        BY <3>2 DEF DisconnectPower, NotePower, ResetCard, Open
      <4>3. Told'
        BY <2>b, <4>1 DEF Open
      <4> QED
        BY <2>2, <4>2, <4>3
    <3>3. CASE DisconnectClose(c)
      <4>1. pc'[c] \notin Tells
        BY <3>3 DEF DisconnectClose, Goto, EndDisconnect, Answer
      <4>2. ResetIsTold'
        BY <2>b, <3>3 DEF DisconnectClose, ResetIsTold, Open
      <4> QED
        BY <2>1, <4>1, <4>2
    <3>4. CASE DisconnectWait(c) \/ DisconnectGrace(c)
      BY <2>3, <3>4 DEF DisconnectWait, DisconnectGrace, Goto, EndDisconnect, Answer, readerVars, historyVars
    <3> QED
      BY <2>8, <3>1, <3>2, <3>3, <3>4 DEF DisconnectSteps
  <2>9. CASE \E h \in Handles, d \in Dispositions : SCardDisconnect(c, h, d)
    BY <2>3, <2>9 DEF SCardDisconnect, DisconnectTarget, Serve, readerVars
  <2> QED
    BY <1>3, <2>4, <2>5, <2>6, <2>7, <2>8, <2>9 DEF Client
<1> QED
  BY <1>1, <1>2, <1>3 DEF Next, ToldFirst, ResetIsTold

LEMMA InitAlone == Init => OneAtATime /\ CountKept /\ ToldFirst /\ ResetIsTold
<1> SUFFICES ASSUME Init
             PROVE  OneAtATime /\ CountKept /\ ToldFirst /\ ResetIsTold
  OBVIOUS
<1>1. Open = {}
  BY DEF Init, Open
<1>2. Counted
  BY <1>1, FS_EmptySet DEF Init, Counted
<1> QED
  BY <1>1, <1>2 DEF Init, OneAtATime, Busy, CountKept, ConnectSteps, ToldFirst, ResetIsTold

\* As long as calls have not overlapped, the sharing counter says how many
\* handles are open.
THEOREM ContextsAreCounted == Spec => []ContextsCountHandles
<1>1. RMInv /\ OneAtATime /\ [Next]_vars => OneAtATime'
  BY StepOneAtATime
<1>2. RMInv /\ OneAtATime /\ CountKept /\ [Next]_vars => CountKept'
  BY StepCount
<1>3. CountKept => ContextsCountHandles
  BY DEF CountKept, Counted, ContextsCountHandles
<1> QED
  BY <1>1, <1>2, <1>3, InitAlone, HandlesOwned, PTL DEF Spec

\* As long as calls have not overlapped, an application whose card another
\* has reset is told so.
THEOREM ResetsAreTold == Spec => []ResetIsTold
<1>1. RMInv /\ OneAtATime /\ [Next]_vars => OneAtATime'
  BY StepOneAtATime
<1>2. RMInv /\ OneAtATime /\ ToldFirst /\ ResetIsTold /\ [Next]_vars => ToldFirst' /\ ResetIsTold'
  BY StepTold
<1> QED
  BY <1>1, <1>2, InitAlone, HandlesOwned, PTL DEF Spec
=============================================================================
