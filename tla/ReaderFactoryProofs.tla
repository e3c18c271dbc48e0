------------------------ MODULE ReaderFactoryProofs ------------------------
(***************************************************************************)
(* Theorems about ReaderFactory.tla, for any number of readers, drivers,   *)
(* slots, entries, callers and events.  All of them are about a daemon     *)
(* none of whose unprotected steps has gone wrong: hazard only grows, so   *)
(* that a step after which it is empty starts from where it was.           *)
(***************************************************************************)
EXTENDS ReaderFactory, FiniteSetTheorems, WellFoundedInduction, TLAPS

-----------------------------------------------------------------------------
(***************************************************************************)
(* Numbers and sets.                                                       *)
(***************************************************************************)
LEMMA Smallest ==
  ASSUME NEW S \in SUBSET Nat, S # {}
  PROVE  Min(S) \in S /\ \A y \in S : Min(S) <= y
<1> DEFINE R == OpToRel(<, Nat)
<1>1. IsWellFoundedOn(R, Nat)
  BY NatLessThanWellFounded
<1>2. PICK x \in S : \A y \in S : ~ (<<y, x>> \in R)
  <2> HIDE DEF R
  <2> QED
    BY <1>1, WFMin
<1>3. \A y \in S : <<y, x>> \in R <=> y < x
  BY DEF OpToRel
<1> HIDE DEF R
<1>4. \A y \in S : y \in Nat /\ x \in Nat
  OBVIOUS
<1>5. ASSUME NEW y \in S PROVE x <= y
  <2>1. ~ (y < x)
    BY <1>2, <1>3, Zenon
  <2> QED
    BY <2>1, <1>4
<1> QED
  BY <1>5 DEF Min

LEMMA Largest ==
  ASSUME NEW n \in Nat, NEW S \in SUBSET (0..n), S # {}
  PROVE  \E x \in S : \A y \in S : y <= x
<1> DEFINE D == {n - y : y \in S}
<1>1. D \in SUBSET Nat /\ D # {}
  <2>1. \A y \in S : n - y \in Nat
    OBVIOUS
  <2> QED
    BY <2>1
<1>2. Min(D) \in D /\ \A y \in D : Min(D) <= y
  <2> HIDE DEF D
  <2> QED
    BY <1>1, Smallest
<1>3. PICK x \in S : Min(D) = n - x
  BY <1>2
<1>4. \A y \in S : n - x <= n - y
  BY <1>2, <1>3
<1> QED
  BY <1>4

LEMMA EntriesAreNumbers ==
  /\ Cardinality(Entries) \in Nat /\ Entries = 1..Cardinality(Entries)
  /\ Entries \subseteq Nat /\ 0 \notin Entries
<1>1. Cardinality(Entries) \in Nat
  BY ReaderFactoryAssumption, FS_CardinalityType
<1>2. Entries = 1..Cardinality(Entries)
  BY ReaderFactoryAssumption
<1> QED
  BY <1>1, <1>2

LEMMA FirstEntry ==
  ASSUME NEW S \in SUBSET Entries, S # {}
  PROVE  Min(S) \in S /\ \A y \in S : Min(S) <= y
BY Smallest, EntriesAreNumbers

LEMMA ThreadsApart == Hotplug # Main /\ Hotplug \notin Callers /\ Main \notin Callers
                      /\ Hotplug \in Threads /\ Main \in Threads /\ Callers \subseteq Threads
BY ThreadAssumption DEF Hotplug, Main, Threads
-----------------------------------------------------------------------------
(***************************************************************************)
(* Types.                                                                  *)
(***************************************************************************)
GoneSteps == EndSteps \ {"Tested"}
AtSteps == {"Ref", "InUse"} \cup EndSteps \cup FillSteps

\* Whoever is at an entry is at one; whoever adds a reader has one to add.
Placed ==
  /\ \A t \in Threads : pc[t] \in AtSteps => at[t] \in Entries
  /\ pc[Hotplug] \in AddSteps => adding # NoAdding
  /\ pc[Hotplug] = "NextSlot" => adding.parent \in Entries
  /\ pc[Hotplug] \in FillSteps /\ adding.slot # 0 => adding.parent \in Entries
  /\ pc[Hotplug] \in {"Idle", "Stopped", "Rescan", "RescanNew", "Sweep"} => adding = NoAdding

Typed == TableTypeOK /\ HotplugTypeOK /\ ThreadTypeOK /\ Placed

LEMMA InitTyped == Init => Typed
<1> SUFFICES ASSUME Init PROVE Typed
  OBVIOUS
<1>1. TableTypeOK
  BY DEF Init, TableTypeOK, Unused, Readers
<1>2. <<>> \in Seq({"add", "remove"} \X Devices) /\ 0 \in 0..MaxEvents
  BY ReaderFactoryAssumption
<1>3. HotplugTypeOK
  BY <1>2 DEF Init, HotplugTypeOK, NotTracked
<1>4. ThreadTypeOK
  BY ThreadsApart DEF Init, ThreadTypeOK, NoRemoval, CallerSteps, MainSteps, HotplugSteps, Threads
<1>5. Placed
  BY ThreadsApart DEF Init, Placed, AtSteps, AddSteps, EndSteps, FillSteps, Hotplug, Main
<1> QED
  BY <1>1, <1>3, <1>4, <1>5 DEF Typed

\* What a thread may do next, and where it may be.
LEMMA GotoType ==
  ASSUME ThreadTypeOK, NEW t \in Threads, NEW label, Goto(t, label),
         t \in Callers => label \in CallerSteps, t = Main => label \in MainSteps,
         t = Hotplug => label \in HotplugSteps
  PROVE  /\ pc' \in [Threads -> CallerSteps \cup MainSteps \cup HotplugSteps]
         /\ pc'[Main] \in MainSteps /\ pc'[Hotplug] \in HotplugSteps
         /\ \A c \in Callers : pc'[c] \in CallerSteps
         /\ pc'[t] = label /\ \A u \in Threads \ {t} : pc'[u] = pc[u]
BY ThreadsApart DEF ThreadTypeOK, Goto, Threads

LEMMA MatchingInEntries == \A r : Matching(r) \subseteq Entries
BY DEF Matching

\* A thread that gives back an entry, in whichever way.
LEMMA DecrementTyped ==
  ASSUME Typed, NEW t \in Threads, NEW e \in Entries, UnrefDecrement(t, e), table[e].reference # 0
  PROVE  /\ TableTypeOK' /\ pc' \in [Threads -> CallerSteps \cup MainSteps \cup HotplugSteps]
         /\ pc'[Main] \in MainSteps /\ pc'[Hotplug] \in HotplugSteps
         /\ \A c \in Callers : pc'[c] \in CallerSteps
         /\ at' \in [Threads -> Entries \cup {0}]
         /\ pc'[t] = "Tested" /\ at'[t] = e
         /\ \A u \in Threads \ {t} : pc'[u] = pc[u] /\ at'[u] = at[u]
<1>1. TableTypeOK'
  <2>1. table[e].reference - 1 \in Nat
    BY DEF Typed, TableTypeOK, Readers
  <2>2. \A own \in BOOLEAN : [table[e] EXCEPT !.reference = @ - 1, !.mine = own] \in Readers
    BY ZenonT(60), <2>1 DEF Typed, TableTypeOK, Readers
  <2>3. table[e].mine \in BOOLEAN
    BY DEF Typed, TableTypeOK, Readers
  <2>4. PICK own \in BOOLEAN : table' = [table EXCEPT ![e] = [table[e] EXCEPT !.reference = @ - 1, !.mine = own]]
    BY <2>3 DEF UnrefDecrement
  <2> QED
    BY <2>2, <2>4 DEF Typed, TableTypeOK
<1>2. ThreadTypeOK /\ Goto(t, "Tested") /\ "Tested" \in CallerSteps \cap MainSteps \cap HotplugSteps
  BY DEF Typed, UnrefDecrement, Goto, CallerSteps, MainSteps, HotplugSteps, EndSteps
<1>3. /\ at' \in [Threads -> Entries \cup {0}] /\ at'[t] = e
      /\ \A u \in Threads \ {t} : at'[u] = at[u]
  BY <1>2 DEF UnrefDecrement, ThreadTypeOK
<1> QED
  BY <1>1, <1>2, <1>3, GotoType

LEMMA StepNames ==
  /\ EndSteps \subseteq CallerSteps \cap MainSteps \cap HotplugSteps
  /\ AddSteps \subseteq HotplugSteps /\ FillSteps \subseteq AddSteps
  /\ {"Removing", "Idle", "Stopped", "Rescan", "RescanNew", "Sweep"} \subseteq HotplugSteps
  /\ {"Removing", "Cleaning", "Exited", "Serving"} \subseteq MainSteps /\ {"Idle", "Ref", "InUse"} \subseteq CallerSteps
BY DEF EndSteps, CallerSteps, MainSteps, HotplugSteps, AddSteps, FillSteps

LEMMA ReturnsType ==
  ASSUME NEW t \in Threads
  PROVE  /\ t \in Callers => Returns(t) = "Idle"
         /\ t = Main => Returns(t) = "Removing"
         /\ t = Hotplug => Returns(t) = "Removing"
BY ThreadsApart DEF Returns

\* The steps of a removal.
LEMMA RemoveTyped ==
  ASSUME Typed, NEW t \in Threads, UnrefTest(t) \/ RemoveKill(t) \/ RemoveJoin(t) \/ RemoveClose(t) \/ RemoveForget(t)
  PROVE  Typed'
<1> DEFINE next == pc'[t]
<1>1. /\ pc[t] \in EndSteps /\ at[t] \in Entries
      /\ UNCHANGED <<tracker, bus, udev, plugs, adding, absent, at, removal, wanted, cleaning, lives>>
  BY DEF Typed, Placed, AtSteps, UnrefTest, RemoveKill, RemoveJoin, RemoveClose, RemoveForget, EndSteps, hotplugVars
<1>2. \E label \in {"Kill", "Join", "Close", "Forget", Returns(t)} : Goto(t, label)
  BY DEF UnrefTest, RemoveKill, RemoveJoin, RemoveClose, RemoveForget
<1>3. PICK label \in {"Kill", "Join", "Close", "Forget", Returns(t)} : Goto(t, label)
  BY <1>2
<1>4. /\ t \in Callers => label \in EndSteps \cup {"Idle"}
      /\ t = Main => label \in EndSteps \cup {"Removing"}
      /\ t = Hotplug => label \in EndSteps \cup {"Removing"}
  BY <1>3, ReturnsType DEF EndSteps
<1>5. /\ pc' \in [Threads -> CallerSteps \cup MainSteps \cup HotplugSteps]
      /\ pc'[Main] \in MainSteps /\ pc'[Hotplug] \in HotplugSteps
      /\ \A c \in Callers : pc'[c] \in CallerSteps
      /\ pc'[t] = label /\ \A u \in Threads \ {t} : pc'[u] = pc[u]
  BY <1>3, <1>4, StepNames, GotoType DEF Typed
<1>6. ThreadTypeOK'
  BY <1>1, <1>5 DEF Typed, ThreadTypeOK
<1>7. Placed'
  <2>1. t = Hotplug => pc'[Hotplug] \notin AddSteps \cup {"Idle", "Stopped", "Rescan", "RescanNew", "Sweep"}
    BY <1>4, <1>5 DEF AddSteps, EndSteps, FillSteps
  <2>2. \A u \in Threads : pc'[u] \in AtSteps => at'[u] \in Entries
    BY <1>1, <1>5 DEF Typed, Placed
  <2>3. t # Hotplug => pc'[Hotplug] = pc[Hotplug]
    BY <1>5, ThreadsApart
  <2> QED
    BY <1>1, <2>1, <2>2, <2>3 DEF Typed, Placed, AddSteps, FillSteps
<1>8. HotplugTypeOK'
  BY <1>1 DEF Typed, HotplugTypeOK
<1>9. TableTypeOK'
  <2>1. table' = table \/ RemoveKill(t) \/ RemoveJoin(t) \/ RemoveClose(t) \/ RemoveForget(t)
    BY DEF UnrefTest, tableVars
  <2>2. CASE table' = table
    BY <2>2 DEF Typed, TableTypeOK
  <2>3. ASSUME NEW r \in Readers, table' = [table EXCEPT ![at[t]] = r] PROVE TableTypeOK'
    BY <2>3, <1>1 DEF Typed, TableTypeOK
  <2>4. table[at[t]] \in Readers
    BY <1>1 DEF Typed, TableTypeOK
  <2>5. CASE RemoveKill(t)
    <3>1. [table[at[t]] EXCEPT !.dying = TRUE] \in Readers
      BY <2>4 DEF Readers
    <3> QED
      BY <3>1, <2>2, <2>3, <2>5 DEF RemoveKill
  <2>6. CASE RemoveJoin(t)
    <3>1. [table[at[t]] EXCEPT !.polling = "none"] \in Readers
      BY <2>4 DEF Readers
    <3> QED
      BY <3>1, <2>3, <2>6 DEF RemoveJoin
  <2>7. CASE RemoveClose(t)
    <3>1. [table[at[t]] EXCEPT !.isOpen = FALSE, !.vHandle = NULL, !.name = NULL] \in Readers
      BY <2>4 DEF Readers
    <3> QED
      BY ZenonT(60), <3>1, <2>2, <2>3, <2>7 DEF RemoveClose
  <2>8. CASE RemoveForget(t)
    <3>1. \A m, f \in Entries \cup {0} :
            [table[at[t]] EXCEPT !.pMutex = m, !.pFeeds = f, !.port = 0, !.dying = FALSE, !.vHandle = NULL] \in Readers
      BY <2>4 DEF Readers
    <3>2. table[at[t]].pMutex \in Entries \cup {0} /\ table[at[t]].pFeeds \in Entries \cup {0}
      BY <2>4 DEF Readers
    <3> DEFINE m0 == IF mutexes[table[at[t]].pMutex] = 1 THEN 0 ELSE table[at[t]].pMutex
               f0 == IF feeds[table[at[t]].pFeeds] = 1 THEN 0 ELSE table[at[t]].pFeeds
    <3>4. /\ m0 \in Entries \cup {0} /\ f0 \in Entries \cup {0}
          /\ table' = [table EXCEPT ![at[t]] = [table[at[t]] EXCEPT
                        !.pMutex = m0, !.pFeeds = f0, !.port = 0, !.dying = FALSE, !.vHandle = NULL]]
      BY ZenonT(60), <2>8, <3>2 DEF RemoveForget
    <3> HIDE DEF m0, f0
    <3>3. PICK m, f \in Entries \cup {0} :
            table' = [table EXCEPT ![at[t]] = [table[at[t]] EXCEPT
                        !.pMutex = m, !.pFeeds = f, !.port = 0, !.dying = FALSE, !.vHandle = NULL]]
      BY <3>4
    <3> QED
      BY <3>1, <3>3, <2>3
  <2> QED
    BY <2>1, <2>2, <2>5, <2>6, <2>7, <2>8
<1> QED
  BY <1>6, <1>7, <1>8, <1>9 DEF Typed

LEMMA RemoveNextTyped ==
  ASSUME Typed, NEW t \in Threads, RemoveNext(t)
  PROVE  Typed'
<1> DEFINE S == Matching(removal[t])
           e == Min(S)
<1>1. /\ t \in {Hotplug, Main} /\ pc[t] = "Removing"
      /\ UNCHANGED <<tracker, bus, udev, plugs, adding, absent, wanted, cleaning, lives>>
  BY DEF RemoveNext, hotplugVars
<1>2. HotplugTypeOK'
  BY <1>1 DEF Typed, HotplugTypeOK
<1>3. CASE S = {} \/ table[e].reference = 0
  <2>1. Removed(t)
    BY <1>3 DEF RemoveNext
  <2>2. PICK label : /\ Goto(t, label) /\ label \in {"Cleaning", "AddFailed", "Sweep"}
                     /\ t = Main => label = "Cleaning"
                     /\ t = Hotplug => label = (IF adding # NoAdding THEN "AddFailed" ELSE "Sweep")
    <3>1. \E label : /\ Goto(t, label)
                      /\ label = IF t = Main THEN "Cleaning" ELSE IF adding # NoAdding THEN "AddFailed" ELSE "Sweep"
      BY <2>1 DEF Removed
    <3> QED
      BY <3>1, <1>1, ThreadsApart
  <2>3. /\ pc' \in [Threads -> CallerSteps \cup MainSteps \cup HotplugSteps]
        /\ pc'[Main] \in MainSteps /\ pc'[Hotplug] \in HotplugSteps
        /\ \A c \in Callers : pc'[c] \in CallerSteps
        /\ pc'[t] = label /\ \A u \in Threads \ {t} : pc'[u] = pc[u]
    <3>1. /\ t = Main => label \in MainSteps
          /\ t = Hotplug => label \in HotplugSteps
          /\ t \notin Callers
      BY <2>2, <1>1, ThreadsApart, StepNames DEF AddSteps
    <3> QED
      BY <2>2, <3>1, GotoType DEF Typed
  <2>4. ThreadTypeOK'
    <3>1. /\ removal' = [removal EXCEPT ![t] = NoRemoval] /\ UNCHANGED <<table, at>>
      BY <2>1 DEF Removed
    <3>2. removal' \in [{Hotplug, Main} -> [base : Bases \cup {NULL}, port : Entries \cup {0}, from : Nat]]
      BY <1>1, <3>1 DEF Typed, ThreadTypeOK, NoRemoval
    <3> QED
      BY <1>1, <2>3, <3>1, <3>2 DEF Typed, ThreadTypeOK
  <2>5. Placed'
    <3>1. UNCHANGED at
      BY <2>1 DEF Removed
    <3>2. \A u \in Threads : pc'[u] \in AtSteps => at'[u] \in Entries
      BY <2>2, <2>3, <3>1 DEF Typed, Placed, AtSteps, EndSteps, FillSteps
    <3>3. CASE t = Hotplug
      BY <2>2, <2>3, <3>1, <3>2, <3>3, <1>1, ThreadsApart DEF Typed, Placed, AddSteps, FillSteps
    <3>4. CASE t # Hotplug
      <4>1. pc'[Hotplug] = pc[Hotplug]
        BY <3>4, <2>3, ThreadsApart
      <4> QED
        BY <4>1, <1>1, <3>2 DEF Typed, Placed
    <3> QED
      BY <3>3, <3>4
  <2>6. TableTypeOK'
    BY <2>1 DEF Removed, Typed, TableTypeOK
  <2> QED
    BY <1>2, <2>4, <2>5, <2>6 DEF Typed
<1>4. CASE ~(S = {} \/ table[e].reference = 0)
  <2>1. UnrefDecrement(t, e) /\ removal' = [removal EXCEPT ![t].from = e + 1]
    BY <1>4 DEF RemoveNext
  <2>2. e \in Entries /\ e + 1 \in Nat
    BY <1>4, FirstEntry, MatchingInEntries, EntriesAreNumbers
  <2> HIDE DEF e
  <2>3. /\ TableTypeOK' /\ pc' \in [Threads -> CallerSteps \cup MainSteps \cup HotplugSteps]
        /\ pc'[Main] \in MainSteps /\ pc'[Hotplug] \in HotplugSteps
        /\ \A c \in Callers : pc'[c] \in CallerSteps
        /\ at' \in [Threads -> Entries \cup {0}]
        /\ pc'[t] = "Tested" /\ at'[t] = e
        /\ \A u \in Threads \ {t} : pc'[u] = pc[u] /\ at'[u] = at[u]
    BY <2>1, <2>2, <1>4, DecrementTyped
  <2>4. removal' \in [{Hotplug, Main} -> [base : Bases \cup {NULL}, port : Entries \cup {0}, from : Nat]]
    BY <2>1, <2>2, <1>1 DEF Typed, ThreadTypeOK
  <2>5. ThreadTypeOK'
    BY <2>3, <2>4, <1>1 DEF Typed, ThreadTypeOK
  <2>6. Placed'
    <3>1. \A u \in Threads : pc'[u] \in AtSteps => at'[u] \in Entries
      BY <2>2, <2>3 DEF Typed, Placed
    <3>2. pc'[Hotplug] = pc[Hotplug] \/ pc'[Hotplug] = "Tested"
      BY <2>3, ThreadsApart
    <3> QED
      BY <1>1, <3>1, <3>2 DEF Typed, Placed, AddSteps, FillSteps
  <2> QED
    BY <1>2, <2>3, <2>5, <2>6 DEF Typed
<1> QED
  BY <1>3, <1>4

\* The calls of the clients.
LEMMA ClientTyped ==
  ASSUME Typed, NEW c \in Callers, Client(c)
  PROVE  Typed'
<1>1. UNCHANGED <<tracker, bus, udev, plugs, adding, absent, removal, cleaning, lives>>
  BY DEF Client, RFReaderInfo, RefReader, UnrefReader, hotplugVars
<1>2. c \in Threads /\ c # Hotplug /\ c # Main
  BY ThreadsApart
<1>3. HotplugTypeOK'
  BY <1>1 DEF Typed, HotplugTypeOK
<1>4. ASSUME TableTypeOK', pc' \in [Threads -> CallerSteps \cup MainSteps \cup HotplugSteps],
             pc'[Main] \in MainSteps, pc'[Hotplug] \in HotplugSteps,
             \A d \in Callers : pc'[d] \in CallerSteps,
             at' \in [Threads -> Entries \cup {0}], wanted' \in [Callers -> Names \cup {NULL}],
             pc'[c] \in AtSteps => at'[c] \in Entries,
             \A u \in Threads \ {c} : pc'[u] = pc[u] /\ at'[u] = at[u]
      PROVE  Typed'
  <2>1. ThreadTypeOK'
    BY <1>1, <1>4 DEF Typed, ThreadTypeOK
  <2>2. \A u \in Threads : pc'[u] \in AtSteps => at'[u] \in Entries
    BY <1>4 DEF Typed, Placed
  <2>3. pc'[Hotplug] = pc[Hotplug]
    BY <1>4, <1>2, ThreadsApart
  <2>4. Placed'
    BY <2>2, <2>3, <1>1 DEF Typed, Placed
  <2> QED
    BY <2>1, <2>4, <1>3, <1>4 DEF Typed
<1>5. ASSUME NEW e \in Entries, RFReaderInfo(c, e) PROVE Typed'
  <2>1. Goto(c, "Ref") /\ at' = [at EXCEPT ![c] = e] /\ table' = table /\ wanted' = [wanted EXCEPT ![c] = table[e].name]
    BY <1>5 DEF RFReaderInfo, tableVars
  <2>2. table[e].name \in Names \cup {NULL}
    BY DEF Typed, TableTypeOK, Readers
  <2>3. /\ TableTypeOK' /\ at' \in [Threads -> Entries \cup {0}] /\ wanted' \in [Callers -> Names \cup {NULL}]
        /\ at'[c] = e /\ \A u \in Threads \ {c} : at'[u] = at[u]
    BY <2>1, <2>2, <1>2 DEF Typed, TableTypeOK, ThreadTypeOK
  <2> QED
    BY <2>1, <2>3, <1>2, <1>4, StepNames, GotoType DEF Typed
<1>6. CASE RefReader(c)
  <2>1. pc[c] = "Ref" /\ Goto(c, "InUse") /\ at' = at /\ wanted' = wanted
        /\ table' = [table EXCEPT ![at[c]].reference = @ + 1]
    BY <1>6 DEF RefReader
  <2>2. at[c] \in Entries
    BY <2>1, <1>2 DEF Typed, Placed, AtSteps
  <2>3. [table[at[c]] EXCEPT !.reference = @ + 1] \in Readers
    BY <2>2 DEF Typed, TableTypeOK, Readers
  <2>4. TableTypeOK'
    BY <2>1, <2>2, <2>3 DEF Typed, TableTypeOK
  <2> QED
    BY <2>1, <2>2, <2>4, <1>2, <1>4, StepNames, GotoType DEF Typed, ThreadTypeOK
<1>7. CASE UnrefReader(c)
  <2>1. pc[c] = "InUse" /\ wanted' = [wanted EXCEPT ![c] = NULL]
    BY <1>7 DEF UnrefReader
  <2>2. at[c] \in Entries /\ wanted' \in [Callers -> Names \cup {NULL}]
    BY <2>1, <1>2 DEF Typed, Placed, AtSteps, ThreadTypeOK
  <2>3. CASE table[at[c]].reference = 0
    <3>1. Goto(c, "Idle") /\ at' = at /\ table' = table
      BY <1>7, <2>3 DEF UnrefReader
    <3> QED
      BY <3>1, <2>2, <1>2, <1>4, StepNames, GotoType DEF Typed, ThreadTypeOK, TableTypeOK
  <2>4. CASE table[at[c]].reference # 0
    <3>1. UnrefDecrement(c, at[c])
      BY <1>7, <2>4 DEF UnrefReader
    <3> QED
      BY <3>1, <2>4, <2>2, <1>2, <1>4, DecrementTyped
  <2> QED
    BY <2>3, <2>4
<1> QED
  BY <1>5, <1>6, <1>7 DEF Client

\* The polling threads.
LEMMA PollingTyped ==
  ASSUME Typed, NEW e \in Entries, PollingThread(e)
  PROVE  Typed'
<1>1. UNCHANGED <<hotplugVars, threadVars, lives>>
  BY DEF PollingThread, PollingEnds, PollingSeesCardGone
<1>2. table[e] \in Readers
  BY DEF Typed, TableTypeOK
<1>3. /\ [table[e] EXCEPT !.polling = "ended", !.dying = FALSE] \in Readers
      /\ [table[e] EXCEPT !.dying = FALSE] \in Readers
  BY ZenonT(60), <1>2 DEF Readers
<1>4. TableTypeOK'
  BY <1>3 DEF Typed, TableTypeOK, PollingThread, PollingEnds, PollingSeesCardGone
<1> QED
  BY <1>1, <1>4 DEF Typed, HotplugTypeOK, ThreadTypeOK, Placed, hotplugVars, threadVars

\* The user.
LEMMA PlugTyped ==
  ASSUME Typed, NEW d \in Devices, Plug(d) \/ Unplug(d)
  PROVE  Typed'
<1>1. UNCHANGED <<tableVars, tracker, adding, absent, threadVars, lives>>
  BY DEF Plug, Unplug
<1>2. /\ udev' = Append(udev, <<"add", d>>) \/ udev' = Append(udev, <<"remove", d>>)
      /\ bus' \subseteq Devices /\ plugs' = plugs + 1 /\ plugs < MaxEvents
  BY DEF Plug, Unplug, Typed, HotplugTypeOK
<1>3. PICK event \in {"add", "remove"} \X Devices : udev' = Append(udev, event)
  BY <1>2
<1>4. udev' \in Seq({"add", "remove"} \X Devices)
  <2>1. udev \in Seq({"add", "remove"} \X Devices)
    BY DEF Typed, HotplugTypeOK
  <2> QED
    BY <1>3, <2>1
<1>5. plugs' \in 0..MaxEvents
  BY <1>2, ReaderFactoryAssumption DEF Typed, HotplugTypeOK
<1>6. HotplugTypeOK'
  BY <1>1, <1>2, <1>4, <1>5 DEF Typed, HotplugTypeOK
<1> QED
  BY <1>1, <1>6 DEF Typed, TableTypeOK, ThreadTypeOK, Placed, threadVars, tableVars

\* The main thread on its way to the end.
LEMMA EndTyped ==
  ASSUME Typed, SignalTrap \/ Stop \/ RFCleanupReaders
  PROVE  Typed'
<1>1. UNCHANGED <<tableVars, hotplugVars, at, wanted>>
  BY DEF SignalTrap, Stop, RFCleanupReaders
<1>2. TableTypeOK' /\ HotplugTypeOK'
  BY <1>1 DEF Typed, TableTypeOK, HotplugTypeOK, tableVars, hotplugVars
<1>3. pc' = pc \/ \E label \in {"Exited", "Cleaning", "Removing"} : Goto(Main, label)
  BY DEF SignalTrap, Stop, RFCleanupReaders, Goto
<1>4. /\ pc' \in [Threads -> CallerSteps \cup MainSteps \cup HotplugSteps]
      /\ pc'[Main] \in MainSteps /\ pc'[Hotplug] \in HotplugSteps
      /\ \A c \in Callers : pc'[c] \in CallerSteps
      /\ \A u \in Threads \ {Main} : pc'[u] = pc[u]
      /\ pc'[Main] \in AtSteps => pc[Main] \in AtSteps
  <2>1. CASE pc' = pc
    BY <2>1 DEF Typed, ThreadTypeOK
  <2>2. ASSUME NEW label \in {"Exited", "Cleaning", "Removing"}, Goto(Main, label) PROVE <1>4!:
    <3>1. label \notin AtSteps /\ label \in MainSteps
      BY StepNames DEF AtSteps, EndSteps, FillSteps
    <3> QED
      BY <2>2, <3>1, ThreadsApart, GotoType DEF Typed
  <2> QED
    BY <1>3, <2>1, <2>2
<1>5. /\ removal' \in [{Hotplug, Main} -> [base : Bases \cup {NULL}, port : Entries \cup {0}, from : Nat]]
      /\ cleaning' \in Nat /\ lives' \in 0..3
  <2>1. CASE SignalTrap
    BY <2>1 DEF SignalTrap, Typed, ThreadTypeOK
  <2>2. CASE Stop
    BY <2>2 DEF Stop, Typed, ThreadTypeOK
  <2>3. CASE RFCleanupReaders
    <3> DEFINE rest == {e \in Entries : e >= cleaning /\ Used(e) /\ table[e].name # NULL}
               e == Min(rest)
    <3>1. CASE rest = {}
      BY <2>3, <3>1 DEF RFCleanupReaders, Typed, ThreadTypeOK
    <3>2. CASE rest # {}
      <4>1. e \in rest
        BY <3>2, FirstEntry
      <4>2. e \in Nat /\ e \in Entries /\ table[e].name \in Names /\ table[e].port \in Entries \cup {0}
        BY <4>1, EntriesAreNumbers DEF Typed, TableTypeOK, Readers
      <4>3. removal' = [removal EXCEPT ![Main] = [base |-> table[e].name.base, port |-> table[e].port, from |-> 1]]
            /\ cleaning' = e + 1 /\ lives' = lives
        BY <2>3, <3>2 DEF RFCleanupReaders, RFRemoveReader
      <4> HIDE DEF e
      <4> QED
        BY <4>2, <4>3 DEF Typed, ThreadTypeOK, Names
    <3> QED
      BY <3>1, <3>2
  <2> QED
    BY <2>1, <2>2, <2>3
<1>6. ThreadTypeOK'
  BY <1>1, <1>4, <1>5 DEF Typed, ThreadTypeOK
<1>7. Placed'
  <2>1. pc'[Hotplug] = pc[Hotplug]
    BY <1>4, ThreadsApart
  <2>2. \A u \in Threads : pc'[u] \in AtSteps => at'[u] \in Entries
    BY <1>1, <1>4 DEF Typed, Placed
  <2> QED
    BY <2>1, <2>2, <1>1 DEF Typed, Placed, hotplugVars
<1> QED
  BY <1>2, <1>6, <1>7 DEF Typed

LEMMA ElementType ==
  ASSUME NEW T, NEW s \in Seq(T), NEW i \in DOMAIN s
  PROVE  s[i] \in T
OBVIOUS

\* get_driver finds a driver of the table, or none.
LEMMA DriverType ==
  ASSUME NEW d \in Devices
  PROVE  classdriver(d) \in Libraries \cup {NULL} /\ get_driver(d) \in Libraries \cup {NULL}
<1>1. ASSUME NEW S \in SUBSET DOMAIN DriverTracker PROVE LastDriver(S) \in Libraries \cup {NULL}
  <2>1. CASE S = {}
    BY <2>1 DEF LastDriver
  <2>2. CASE S # {}
    <3>1. Len(DriverTracker) \in Nat /\ S \subseteq 0..Len(DriverTracker)
      BY ReaderFactoryAssumption
    <3>2. \E i \in S : \A j \in S : j <= i
      BY <3>1, <2>2, Largest
    <3> DEFINE last == CHOOSE i \in S : \A j \in S : j <= i
    <3>3. last \in DOMAIN DriverTracker
      BY <3>2
    <3> HIDE DEF last
    <3>4. DriverTracker[last] \in [library : Libraries, device : Devices, classDriver : BOOLEAN]
      BY <3>3, ElementType, ReaderFactoryAssumption
    <3>5. DriverTracker[last].library \in Libraries
      BY <3>4
    <3> QED
      BY <2>2, <3>5 DEF LastDriver, last
  <2> QED
    BY <2>1, <2>2
<1>2. Drivers(d, TRUE) \subseteq DOMAIN DriverTracker /\ Drivers(d, FALSE) \subseteq DOMAIN DriverTracker
  BY DEF Drivers
<1> QED
  BY <1>1, <1>2 DEF classdriver, get_driver

NewAdding == [device : Devices, port : Entries, library : Libraries, slot : Nat,
              parent : Entries \cup {0}, result : {"SUCCESS", "FAILED", "MISSING"}]

LEMMA NewAddingType ==
  ASSUME NEW d \in Devices, NEW i \in Entries, NEW l \in Libraries
  PROVE  LET a == RFAddReader(d, i, l)
         IN  /\ a \in NewAdding /\ a # NoAdding /\ a.slot < Slots[a.device]
             /\ a.slot = 0 /\ a.port = i /\ a.device = d /\ a.library = l
<1> DEFINE a == RFAddReader(d, i, l)
<1>0. RFAddReader(d, i, l) = [device |-> d, port |-> i, library |-> l, slot |-> 0, parent |-> 0, result |-> "SUCCESS"]
  BY DEF RFAddReader
<1>1. a = [device |-> d, port |-> i, library |-> l, slot |-> 0, parent |-> 0, result |-> "SUCCESS"]
  BY <1>0
<1>2. Slots[d] \in Nat \ {0} /\ i # 0
  BY ReaderFactoryAssumption, EntriesAreNumbers
<1> HIDE DEF a
<1>3. a.slot = 0 /\ a.device = d /\ a.port = i /\ a.library = l /\ NoAdding.port = 0
  BY <1>1 DEF NoAdding, RFAddReader
<1>4. a \in NewAdding
  BY <1>1 DEF NewAdding
<1>5. a # NoAdding
  BY <1>2, <1>3
<1>6. a.slot < Slots[a.device]
  BY <1>2, <1>3
<1> QED
  BY <1>3, <1>4, <1>5, <1>6 DEF a

\* The hotplug thread between two readers.
LEMMA HotplugTyped ==
  ASSUME Typed, HPReceive \/ HPRescanUsbBus \/ HPRescanNew \/ HPSweep \/ HPAddEnd
  PROVE  Typed'
<1>1. /\ UNCHANGED <<tableVars, bus, plugs, at, wanted, cleaning, lives>>
      /\ pc[Hotplug] \notin AtSteps
  BY DEF HPReceive, HPRescanUsbBus, HPRescanNew, HPSweep, HPAddEnd, AtSteps, EndSteps, FillSteps
<1>2. TableTypeOK'
  BY <1>1 DEF Typed, TableTypeOK, tableVars
<1> DEFINE Between == {"Idle", "Stopped", "Rescan", "RescanNew", "Sweep"}
           Goal == /\ HotplugTypeOK'
                   /\ removal' \in [{Hotplug, Main} -> [base : Bases \cup {NULL}, port : Entries \cup {0}, from : Nat]]
                   /\ \E label \in Between \cup {"Add", "Removing"} :
                        /\ Goto(Hotplug, label)
                        /\ label = "Add" => adding' # NoAdding
                        /\ label \in Between => adding' = NoAdding
<1>3. NextEvent \in Between
  BY DEF NextEvent
<1>4. ASSUME NEW d \in Devices, NEW otherwise \in Between, HPAddDevice(d, otherwise), adding = NoAdding,
             UNCHANGED <<bus, plugs, removal>>, udev' \in Seq({"add", "remove"} \X Devices), absent' \in BOOLEAN
      PROVE  Goal
  <2>1. CASE get_driver(d) = NULL \/ Untracked = {}
    BY <1>4, <2>1 DEF HPAddDevice, Typed, HotplugTypeOK, ThreadTypeOK
  <2>2. CASE ~(get_driver(d) = NULL \/ Untracked = {})
    <3>1. PICK i \in Entries :
            /\ tracker' = [tracker EXCEPT ![i] = [device |-> d, status |-> "PRESENT"]]
            /\ adding' = RFAddReader(d, i, get_driver(d))
            /\ Goto(Hotplug, "Add")
      <4>1. Min(Untracked) \in Entries
        BY <2>2, FirstEntry DEF Untracked
      <4> QED
        BY <4>1, <2>2, <1>4 DEF HPAddDevice
    <3>2. get_driver(d) \in Libraries
      BY <2>2, DriverType
    <3>3. adding' \in NewAdding /\ adding' # NoAdding /\ adding'.slot < Slots[adding'.device]
      BY <3>1, <3>2, NewAddingType
    <3>4. tracker' \in [Entries -> [device : Devices \cup {NULL}, status : {"ABSENT", "PRESENT", "FAILED"}]]
      BY <3>1 DEF Typed, HotplugTypeOK
    <3>5. HotplugTypeOK'
      BY <3>3, <3>4, <1>4 DEF HotplugTypeOK, NewAdding, Typed
    <3> QED
      BY <3>1, <3>3, <3>5, <1>4 DEF Typed, ThreadTypeOK
  <2> QED
    BY <2>1, <2>2
<1>5. ASSUME HPReceive PROVE Goal
  <2>1. /\ pc[Hotplug] = "Idle" /\ udev # <<>> /\ udev' = Tail(udev) /\ UNCHANGED <<bus, plugs, removal>>
    BY <1>5 DEF HPReceive
  <2>2. adding = NoAdding
    BY <2>1 DEF Typed, Placed
  <2>3. udev \in Seq({"add", "remove"} \X Devices) /\ Head(udev) \in {"add", "remove"} \X Devices
    BY <2>1 DEF Typed, HotplugTypeOK
  <2>4. udev' \in Seq({"add", "remove"} \X Devices) /\ Head(udev)[2] \in Devices
    BY <2>1, <2>3
  <2>5. CASE Head(udev)[1] = "remove"
    <3>1. Goto(Hotplug, "Rescan") /\ absent' = TRUE /\ UNCHANGED <<tracker, adding>>
      BY <1>5, <2>5 DEF HPReceive
    <3> QED
      BY <3>1, <2>1, <2>2, <2>4 DEF Typed, HotplugTypeOK, ThreadTypeOK
  <2>6. CASE Head(udev)[1] # "remove" /\ Head(udev)[2] \in bus
    <3>1. HPAddDevice(Head(udev)[2], NextEvent) /\ absent' = absent
      BY <1>5, <2>6 DEF HPReceive
    <3> QED
      BY <3>1, <2>1, <2>2, <2>4, <1>3, <1>4 DEF Typed, HotplugTypeOK
  <2>7. CASE Head(udev)[1] # "remove" /\ Head(udev)[2] \notin bus
    <3>1. Goto(Hotplug, NextEvent) /\ UNCHANGED <<tracker, adding, absent>>
      BY <1>5, <2>7 DEF HPReceive
    <3> QED
      BY <3>1, <2>1, <2>2, <2>4, <1>3 DEF Typed, HotplugTypeOK, ThreadTypeOK
  <2> QED
    BY <2>5, <2>6, <2>7
<1>6. ASSUME HPRescanUsbBus PROVE Goal
  <2>1. /\ pc[Hotplug] = "Rescan" /\ Goto(Hotplug, "RescanNew")
        /\ UNCHANGED <<bus, udev, plugs, adding, absent, removal>>
        /\ tracker' = [i \in Entries |-> [tracker[i] EXCEPT !.status =
                         IF tracker[i].device \in bus THEN "PRESENT" ELSE "ABSENT"]]
    BY <1>6 DEF HPRescanUsbBus
  <2>2. adding = NoAdding
    BY <2>1 DEF Typed, Placed
  <2>3. tracker' \in [Entries -> [device : Devices \cup {NULL}, status : {"ABSENT", "PRESENT", "FAILED"}]]
    BY <2>1 DEF Typed, HotplugTypeOK
  <2> QED
    BY <2>1, <2>2, <2>3 DEF Typed, HotplugTypeOK, ThreadTypeOK
<1>7. ASSUME HPRescanNew PROVE Goal
  <2>1. pc[Hotplug] = "RescanNew" /\ UNCHANGED <<bus, udev, plugs, absent, removal>>
    BY <1>7 DEF HPRescanNew
  <2>2. adding = NoAdding
    BY <2>1 DEF Typed, Placed
  <2>3. CASE bus \subseteq Known
    BY <1>7, <2>1, <2>2, <2>3 DEF HPRescanNew, Typed, HotplugTypeOK, ThreadTypeOK
  <2>4. CASE ~(bus \subseteq Known)
    <3>1. PICK d \in bus \ Known : HPAddDevice(d, "Sweep")
      BY <1>7, <2>4 DEF HPRescanNew
    <3>2. d \in Devices /\ udev' \in Seq({"add", "remove"} \X Devices) /\ absent' \in BOOLEAN
      BY <2>1 DEF Typed, HotplugTypeOK
    <3> QED
      BY <3>1, <3>2, <2>1, <2>2, <1>4
  <2> QED
    BY <2>3, <2>4
<1>8. ASSUME HPSweep PROVE Goal
  <2>1. pc[Hotplug] = "Sweep" /\ UNCHANGED <<bus, udev, plugs, adding>>
    BY <1>8 DEF HPSweep
  <2>2. adding = NoAdding
    BY <2>1 DEF Typed, Placed
  <2>3. CASE Gone = {}
    BY <1>8, <2>1, <2>2, <2>3, <1>3 DEF HPSweep, Typed, HotplugTypeOK, ThreadTypeOK
  <2>4. CASE Gone # {}
    <3> DEFINE i == Min(Gone)
    <3>1. i \in Gone
      BY <2>4, FirstEntry DEF Gone
    <3>2. i \in Entries /\ tracker[i].device \in Devices
      BY <3>1 DEF Gone, Typed, HotplugTypeOK
    <3>3. /\ removal' = [removal EXCEPT ![Hotplug] = [base |-> ReaderName[tracker[i].device], port |-> i, from |-> 1]]
          /\ tracker' = [tracker EXCEPT ![i] = NotTracked] /\ Goto(Hotplug, "Removing") /\ absent' = absent
      BY <1>8, <2>4 DEF HPSweep, RFRemoveReader
    <3> HIDE DEF i
    <3>4. tracker' \in [Entries -> [device : Devices \cup {NULL}, status : {"ABSENT", "PRESENT", "FAILED"}]]
      BY <3>2, <3>3 DEF Typed, HotplugTypeOK, NotTracked
    <3>5. ReaderName[tracker[i].device] \in Bases
      BY <3>2 DEF Bases
    <3>6. removal' \in [{Hotplug, Main} -> [base : Bases \cup {NULL}, port : Entries \cup {0}, from : Nat]]
      BY <3>2, <3>3, <3>5 DEF Typed, ThreadTypeOK
    <3> QED
      BY <2>1, <2>2, <3>3, <3>4, <3>6 DEF Typed, HotplugTypeOK
  <2> QED
    BY <2>3, <2>4
<1>9. ASSUME HPAddEnd PROVE Goal
  <2>1. /\ UNCHANGED <<bus, udev, plugs, absent, removal>> /\ pc[Hotplug] \in {"Added", "AddFailed"}
        /\ \E failed \in BOOLEAN : AddEnd(failed)
    BY <1>9 DEF HPAddEnd
  <2>2. adding # NoAdding
    BY <2>1 DEF Typed, Placed, AddSteps
  <2>3. adding.device \in Devices /\ adding.port \in Entries
    BY <2>2 DEF Typed, HotplugTypeOK
  <2>4. PICK failed \in BOOLEAN : AddEnd(failed)
    BY <2>1
  <2> DEFINE class == classdriver(adding.device)
             again == failed /\ class # NULL /\ class # get_driver(adding.device) /\ adding.library # class
  <2>5. CASE again
    <3>1. class \in Libraries
      BY <2>5, <2>3, DriverType
    <3>2. /\ adding' = RFAddReader(adding.device, adding.port, class)
          /\ Goto(Hotplug, "Add") /\ tracker' = tracker
      BY <2>4, <2>5 DEF AddEnd
    <3>3. adding' \in NewAdding /\ adding' # NoAdding /\ adding'.slot < Slots[adding'.device]
      BY <3>1, <3>2, <2>3, NewAddingType
    <3> QED
      BY <2>1, <3>2, <3>3 DEF Typed, HotplugTypeOK, ThreadTypeOK, NewAdding
  <2>6. CASE ~again
    <3>1. /\ tracker' = IF failed THEN [tracker EXCEPT ![adding.port].status = "FAILED"] ELSE tracker
          /\ adding' = NoAdding /\ Goto(Hotplug, IF absent THEN "RescanNew" ELSE NextEvent)
      BY <2>4, <2>6 DEF AddEnd
    <3>2. tracker' \in [Entries -> [device : Devices \cup {NULL}, status : {"ABSENT", "PRESENT", "FAILED"}]]
      BY <3>1, <2>3 DEF Typed, HotplugTypeOK
    <3>3. (IF absent THEN "RescanNew" ELSE NextEvent) \in Between
      BY <1>3
    <3> QED
      BY <2>1, <3>1, <3>2, <3>3 DEF Typed, HotplugTypeOK, ThreadTypeOK
  <2> QED
    BY <2>5, <2>6
<1>10. Goal
  <2> HIDE DEF Goal
  <2> QED
    BY <1>5, <1>6, <1>7, <1>8, <1>9
<1>11. PICK label \in Between \cup {"Add", "Removing"} :
         /\ Goto(Hotplug, label)
         /\ label = "Add" => adding' # NoAdding
         /\ label \in Between => adding' = NoAdding
  BY <1>10
<1>12. label \in HotplugSteps /\ label \notin AtSteps /\ label # "NextSlot"
       /\ (label \in AddSteps => label = "Add") /\ label \notin FillSteps
  BY DEF HotplugSteps, AtSteps, AddSteps, FillSteps, EndSteps
<1>13. /\ pc' \in [Threads -> CallerSteps \cup MainSteps \cup HotplugSteps]
       /\ pc'[Main] \in MainSteps /\ pc'[Hotplug] \in HotplugSteps
       /\ \A c \in Callers : pc'[c] \in CallerSteps
       /\ pc'[Hotplug] = label /\ \A u \in Threads \ {Hotplug} : pc'[u] = pc[u]
  BY <1>11, <1>12, ThreadsApart, GotoType DEF Typed
<1>14. ThreadTypeOK'
  BY <1>1, <1>10, <1>13 DEF Typed, ThreadTypeOK
<1>15. Placed'
  <2>1. \A u \in Threads : pc'[u] \in AtSteps => at'[u] \in Entries
    BY <1>1, <1>12, <1>13 DEF Typed, Placed
  <2> QED
    BY <1>11, <1>12, <1>13, <2>1 DEF Placed
<1> QED
  BY <1>2, <1>10, <1>14, <1>15 DEF Typed

-----------------------------------------------------------------------------
(***************************************************************************)
(* What the steps that fill an entry do, field by field.                   *)
(***************************************************************************)
\* There are as many counters as entries, and the others point to one less.
LEMMA OneIsFree ==
  ASSUME NEW g, NEW e \in Entries
  PROVE  \E o \in Entries : \A x \in Entries \ {e} : g[x] # o
<1>1. SUFFICES ASSUME \A o \in Entries : \E x \in Entries \ {e} : g[x] = o
               PROVE  FALSE
  OBVIOUS
<1> DEFINE f == [o \in Entries |-> CHOOSE x \in Entries \ {e} : g[x] = o]
<1>2. f \in [Entries -> Entries \ {e}] /\ \A o \in Entries : g[f[o]] = o
  BY <1>1
<1>3. IsFiniteSet(Entries \ {e}) /\ Cardinality(Entries \ {e}) = Cardinality(Entries) - 1
  BY FS_RemoveElement, ReaderFactoryAssumption
<1>4. Cardinality(Entries \ {e}) < Cardinality(Entries)
  BY <1>3, EntriesAreNumbers
<1> HIDE DEF f
<1>5. \E o, q \in Entries : o # q /\ f[o] = f[q]
  BY <1>2, <1>3, <1>4, ReaderFactoryAssumption, FS_PigeonHole
<1> QED
  BY <1>2, <1>5

LEMMA FreshIsFree ==
  ASSUME NEW e \in Entries
  PROVE  /\ FreshFeeds(e) \in Entries /\ \A x \in Entries \ {e} : table[x].pFeeds # FreshFeeds(e)
         /\ FreshMutex(e) \in Entries /\ \A x \in Entries \ {e} : table[x].pMutex # FreshMutex(e)
<1>1. \E o \in Entries : \A x \in Entries \ {e} : table[x].pFeeds # o
  <2> DEFINE g == [x \in Entries |-> table[x].pFeeds]
  <2>1. \E o \in Entries : \A x \in Entries \ {e} : g[x] # o
    <3> HIDE DEF g
    <3> QED
      BY OneIsFree
  <2> QED
    BY <2>1
<1>2. \E o \in Entries : \A x \in Entries \ {e} : table[x].pMutex # o
  <2> DEFINE g == [x \in Entries |-> table[x].pMutex]
  <2>1. \E o \in Entries : \A x \in Entries \ {e} : g[x] # o
    <3> HIDE DEF g
    <3> QED
      BY OneIsFree
  <2> QED
    BY <2>1
<1> DEFINE F == {o \in Entries : \A x \in Entries \ {e} : table[x].pFeeds # o}
           M == {o \in Entries : \A x \in Entries \ {e} : table[x].pMutex # o}
<1>3. Min(F) \in F /\ Min(M) \in M
  <2>1. F # {} /\ M # {} /\ F \in SUBSET Entries /\ M \in SUBSET Entries
    BY <1>1, <1>2
  <2> HIDE DEF F, M
  <2> QED
    BY <2>1, FirstEntry
<1> QED
  BY <1>3 DEF FreshFeeds, FreshMutex

\* Entry e becomes a reader with counters f and m, its parent's or nobody's.
ShareInto(f, m, parent, e, threadSafe, entry) ==
  /\ table' \in [Entries -> Readers]
  /\ \A x \in Entries \ {e} : table'[x] = table[x]
  /\ table'[e].pFeeds = f /\ table'[e].pMutex = m
  /\ table'[e].vHandle = IF parent = 0 THEN NULL ELSE table[parent].vHandle
  /\ table'[e].library = entry.library /\ table'[e].name = entry.name /\ table'[e].port = entry.port
  /\ table'[e].reference = entry.reference /\ table'[e].mine = entry.mine
  /\ feeds' = [feeds EXCEPT ![f] = IF parent = 0 THEN 1 ELSE @ + 1]
  /\ mutexes' = [mutexes EXCEPT ![m] = IF parent # 0 /\ ~threadSafe THEN @ + 1 ELSE 1]
  /\ IF parent = 0 THEN \A x \in Entries \ {e} : table[x].pFeeds # f ELSE f = table[parent].pFeeds
  /\ IF parent # 0 /\ ~threadSafe
     THEN m = table[parent].pMutex ELSE \A x \in Entries \ {e} : table[x].pMutex # m
  /\ numReaders' = numReaders + 1 /\ Goto(Hotplug, "Initialize")

LEMMA ShareEffect ==
  ASSUME TableTypeOK, NEW parent \in Entries \cup {0}, NEW e \in Entries, NEW threadSafe \in BOOLEAN,
         NEW entry \in Readers, ShareFrom(parent, e, threadSafe, entry),
         ~(parent # 0 /\ (table[parent].pFeeds = 0 \/ table[parent].pMutex = 0))
  PROVE  \E f, m \in Entries : ShareInto(f, m, parent, e, threadSafe, entry)
<1> DEFINE shared == parent # 0 /\ ~threadSafe
           f == IF parent = 0 THEN FreshFeeds(e) ELSE table[parent].pFeeds
           m == IF shared THEN table[parent].pMutex ELSE FreshMutex(e)
           h == IF parent = 0 THEN NULL ELSE table[parent].vHandle
<1>1. /\ feeds' = [feeds EXCEPT ![f] = IF parent = 0 THEN 1 ELSE @ + 1]
      /\ mutexes' = [mutexes EXCEPT ![m] = IF shared THEN @ + 1 ELSE 1]
      /\ table' = [table EXCEPT ![e] = [entry EXCEPT !.pFeeds = f, !.pMutex = m, !.vHandle = h]]
      /\ numReaders' = numReaders + 1 /\ Goto(Hotplug, "Initialize")
  BY DEF ShareFrom, ShareFeeds, ShareMutex
<1>2. parent # 0 => table[parent] \in Readers
  BY DEF TableTypeOK
<1>3. f \in Entries /\ m \in Entries /\ h \in Libraries \cup {NULL}
  BY <1>2, FreshIsFree DEF Readers
<1>4. /\ parent = 0 => \A x \in Entries \ {e} : table[x].pFeeds # f
      /\ parent # 0 => f = table[parent].pFeeds
      /\ shared => m = table[parent].pMutex
      /\ ~shared => \A x \in Entries \ {e} : table[x].pMutex # m
  BY FreshIsFree
<1>5. /\ parent = 0 => h = NULL
      /\ parent # 0 => h = table[parent].vHandle
  OBVIOUS
<1> HIDE DEF f, m, h
<1> DEFINE r == [entry EXCEPT !.pFeeds = f, !.pMutex = m, !.vHandle = h]
<1>6. /\ r \in Readers /\ r.pFeeds = f /\ r.pMutex = m /\ r.vHandle = h
      /\ r.library = entry.library /\ r.name = entry.name /\ r.port = entry.port
      /\ r.reference = entry.reference /\ r.mine = entry.mine
  BY <1>3 DEF Readers
<1>7. table' = [table EXCEPT ![e] = r]
  BY <1>1
<1> HIDE DEF r
<1>8. table' \in [Entries -> Readers] /\ table'[e] = r /\ \A x \in Entries \ {e} : table'[x] = table[x]
  BY <1>6, <1>7 DEF TableTypeOK
<1>9. table'[e].vHandle = IF parent = 0 THEN NULL ELSE table[parent].vHandle
  BY <1>5, <1>6, <1>8
<1>10. /\ IF parent = 0 THEN \A x \in Entries \ {e} : table[x].pFeeds # f ELSE f = table[parent].pFeeds
       /\ IF parent # 0 /\ ~threadSafe
          THEN m = table[parent].pMutex ELSE \A x \in Entries \ {e} : table[x].pMutex # m
  BY <1>4
<1>11. /\ table' \in [Entries -> Readers]
       /\ \A x \in Entries \ {e} : table'[x] = table[x]
       /\ table'[e].pFeeds = f /\ table'[e].pMutex = m
       /\ table'[e].library = entry.library /\ table'[e].name = entry.name /\ table'[e].port = entry.port
       /\ table'[e].reference = entry.reference /\ table'[e].mine = entry.mine
  BY <1>6, <1>8
<1>12. ShareInto(f, m, parent, e, threadSafe, entry)
  BY <1>1, <1>9, <1>10, <1>11 DEF ShareInto
<1> QED
  BY <1>3, <1>12

\* The name of a new reader.
LEMMA FreeDigitType ==
  ASSUME NEW S \in SUBSET Entries
  PROVE  /\ FreeDigit(S) \in 0..Cardinality(Entries)
         /\ \A x \in S : table[x].name.digit # FreeDigit(S)
         /\ S = {} => FreeDigit(S) = 0
<1> DEFINE N == Cardinality(Entries)
           D == (0..N) \ {table[e].name.digit : e \in S}
<1>1. D # {}
  <2>1. SUFFICES ASSUME \A d \in 0..N : \E x \in Entries : table[x].name.digit = d
                 PROVE  FALSE
    OBVIOUS
  <2> DEFINE I == 0..N
             f == [d \in I |-> CHOOSE x \in Entries : table[x].name.digit = d]
  <2>2. f \in [I -> Entries] /\ \A d \in I : table[f[d]].name.digit = d
    BY <2>1
  <2>3. IsFiniteSet(I) /\ Cardinality(I) = N + 1
    BY EntriesAreNumbers, FS_Interval
  <2>4. Cardinality(Entries) < Cardinality(I)
    BY <2>3, EntriesAreNumbers
  <2> HIDE DEF f, I
  <2>5. \E d, q \in I : d # q /\ f[d] = f[q]
    BY <2>2, <2>3, <2>4, ReaderFactoryAssumption, FS_PigeonHole
  <2> QED
    BY <2>2, <2>5
<1>2. D # {} /\ D \in SUBSET Nat
  <2>1. N \in Nat
    BY EntriesAreNumbers
  <2>2. 0..N \subseteq Nat
    BY <2>1
  <2>3. D \subseteq 0..N
    OBVIOUS
  <2> QED
    BY <1>1, <2>2, <2>3
<1>3. Min(D) \in D /\ \A y \in D : Min(D) <= y
  <2> HIDE DEF D
  <2> QED
    BY <1>2, Smallest
<1>4. S = {} => 0 \in D
  BY EntriesAreNumbers
<1>5. S = {} => Min(D) = 0
  <2> SUFFICES ASSUME S = {} PROVE Min(D) = 0
    OBVIOUS
  <2>1. Min(D) \in Nat /\ Min(D) <= 0
    <3> HIDE DEF D
    <3> QED
      BY <1>2, <1>3, <1>4
  <2> HIDE DEF D
  <2> QED
    BY <2>1
<1>6. FreeDigit(S) = Min(D)
  BY DEF FreeDigit
<1>7. \A x \in S : table[x].name.digit \notin D
  OBVIOUS
<1>8. D \subseteq 0..Cardinality(Entries)
  OBVIOUS
<1> HIDE DEF D
<1> QED
  BY <1>3, <1>5, <1>6, <1>7, <1>8

\* Entry e is given to the device of adding, with a digit none of its
\* relatives has.
Take(e, digit, parent) ==
  LET relatives == IF numReaders = 0 THEN {} ELSE Relatives(adding.library, adding.port)
  IN  /\ e \in FreeEntries /\ ~Duplicate(ReaderName[adding.device], adding.port)
      /\ digit \in Digits /\ \A x \in relatives : table[x].name.digit # digit
      /\ parent = 0 \/ parent \in relatives
      /\ table' \in [Entries -> Readers]
      /\ \A x \in Entries \ {e} : table'[x] = table[x]
      /\ table'[e].vHandle = NULL /\ table'[e].library = adding.library /\ table'[e].port = adding.port
      /\ table'[e].name = [base |-> ReaderName[adding.device], digit |-> digit, slot |-> 0]
      /\ table'[e].reference = 1 /\ table'[e].mine = TRUE
      /\ table'[e].pFeeds = 0 /\ table'[e].pMutex = 0
      /\ adding' = [adding EXCEPT !.parent = parent, !.slot = 0]
      /\ at' = [at EXCEPT ![Hotplug] = e] /\ Goto(Hotplug, "Share")
      /\ Leaving(e) # {} => "reused" \in hazard'
      /\ (\E x \in Entries : Used(x) /\ table[x].library # adding.library
                             /\ table[x].name.base = ReaderName[adding.device]
                             /\ table[x].name.digit = digit) => "two drivers" \in hazard'

AddRefused ==
  Duplicate(ReaderName[adding.device], adding.port) \/ FreeEntries = {}
  \/ NoName(IF numReaders = 0 THEN {} ELSE Relatives(adding.library, adding.port), adding.library)

LEMMA AddReaderEffect ==
  ASSUME Typed, AddReader, ~AddRefused
  PROVE  \E e, parent \in Entries \cup {0} : \E digit \in Digits : Take(e, digit, parent)
<1> DEFINE relatives == IF numReaders = 0 THEN {} ELSE Relatives(adding.library, adding.port)
           e == Min(FreeEntries)
           digit == FreeDigit(relatives)
           parent == IF relatives = {} THEN 0 ELSE CHOOSE x \in relatives : \A y \in relatives : y <= x
           base == ReaderName[adding.device]
           name == [base |-> base, digit |-> digit, slot |-> 0]
           r == [Unused EXCEPT !.library = adding.library, !.port = adding.port, !.name = name,
                               !.reference = 1, !.mine = TRUE]
<1>1. /\ ~Duplicate(base, adding.port) /\ FreeEntries # {} /\ ~NoName(relatives, adding.library)
      /\ pc[Hotplug] = "Add"
  BY DEF AddRefused, AddReader
<1>2. /\ table' = [table EXCEPT ![e] = r]
      /\ adding' = [adding EXCEPT !.parent = parent, !.slot = 0]
      /\ at' = [at EXCEPT ![Hotplug] = e] /\ Goto(Hotplug, "Share")
      /\ hazard' = hazard \cup (IF Leaving(e) # {} THEN {"reused"} ELSE {})
                          \cup (IF \E x \in Entries : Used(x) /\ table[x].library # adding.library
                                                      /\ table[x].name.base = base
                                                      /\ table[x].name.digit = table'[e].name.digit
                                THEN {"two drivers"} ELSE {})
  BY <1>1 DEF AddReader
<1>3. e \in FreeEntries /\ e \in Entries
  BY <1>1, FirstEntry DEF FreeEntries
<1>4. relatives \in SUBSET Entries
  BY DEF Relatives
<1>5. parent = 0 \/ parent \in relatives
  <2>1. ASSUME relatives # {} PROVE \E x \in relatives : \A y \in relatives : y <= x
    <3>1. relatives \in SUBSET (0..Cardinality(Entries)) /\ Cardinality(Entries) \in Nat
      BY <1>4, EntriesAreNumbers
    <3> HIDE DEF relatives
    <3> QED
      BY <2>1, <3>1, Largest
  <2> HIDE DEF relatives
  <2> QED
    BY <2>1
<1>6. adding \in NewAdding
  BY <1>1 DEF Typed, Placed, HotplugTypeOK, AddSteps, NewAdding
<1>7. digit \in Digits /\ \A x \in relatives : table[x].name.digit # digit
  <2>1. /\ digit \in 0..Cardinality(Entries)
        /\ \A x \in relatives : table[x].name.digit # digit
        /\ relatives = {} => digit = 0
    <3> HIDE DEF relatives
    <3> QED
      BY <1>4, FreeDigitType
  <2>2. Cardinality(Entries) \in Nat /\ Cardinality(Entries) > 0
    BY <1>3, EntriesAreNumbers
  <2>3. relatives # {} => digit < Cardinality(Entries)
    <3>1. Simultaneous[adding.library] \in Nat
      BY <1>6, ReaderFactoryAssumption DEF NewAdding
    <3> DEFINE M == {Simultaneous[adding.library], Cardinality(Entries)}
    <3>2. Min(M) \in M /\ \A y \in M : Min(M) <= y
      <4>1. M \in SUBSET Nat /\ M # {}
        BY <3>1, <2>2
      <4> HIDE DEF M
      <4> QED
        BY <4>1, Smallest
    <3>3. Min(M) <= Cardinality(Entries) /\ Min(M) \in Nat
      BY <3>1, <3>2, <2>2
    <3>4. relatives # {} => ~(digit >= Min(M))
      BY <1>1 DEF NoName
    <3> HIDE DEF M, digit, relatives
    <3> QED
      BY <3>3, <3>4, <2>1, <2>2
  <2> HIDE DEF digit, relatives
  <2> QED
    BY <2>1, <2>2, <2>3 DEF Digits
<1>8. parent \in Entries \cup {0}
  BY <1>4, <1>5
<1> HIDE DEF e, digit, parent, relatives
<1>9. name \in Names
  <2>1. base \in Bases /\ Slots[adding.device] \in Nat \ {0} /\ adding.device \in Devices
    BY <1>6, ReaderFactoryAssumption DEF NewAdding, Bases
  <2>2. 0 \in 0..(Slots[adding.device] - 1)
    BY <2>1
  <2>3. 0 \in UNION {0..Slots[d] - 1 : d \in Devices}
    BY <2>1, <2>2
  <2> QED
    BY <1>7, <2>1, <2>3 DEF Names
<1> HIDE DEF name
<1>10. /\ r \in Readers /\ r.vHandle = NULL /\ r.library = adding.library /\ r.port = adding.port /\ r.name = name
       /\ r.reference = 1 /\ r.mine = TRUE /\ r.pFeeds = 0 /\ r.pMutex = 0
  <2>1. adding.library \in Libraries /\ adding.port \in Entries
    BY <1>6 DEF NewAdding
  <2>2. Unused \in Readers /\ Unused.vHandle = NULL /\ Unused.pFeeds = 0 /\ Unused.pMutex = 0
    BY DEF Unused, Readers
  <2> QED
    BY <2>1, <2>2, <1>9 DEF Readers
<1> HIDE DEF r
<1>11. table' \in [Entries -> Readers] /\ table'[e] = r /\ \A x \in Entries \ {e} : table'[x] = table[x]
  BY <1>2, <1>3, <1>10 DEF Typed, TableTypeOK
<1>12. /\ Leaving(e) # {} => "reused" \in hazard'
       /\ (\E x \in Entries : Used(x) /\ table[x].library # adding.library
                              /\ table[x].name.base = base
                              /\ table[x].name.digit = digit) => "two drivers" \in hazard'
  <2>1. table'[e].name.digit = digit
    BY <1>10, <1>11 DEF name
  <2> QED
    BY <1>2, <2>1
<1>13. Take(e, digit, parent)
  BY <1>1, <1>2, <1>3, <1>5, <1>7, <1>10, <1>11, <1>12 DEF Take, name, relatives
<1> QED
  BY <1>3, <1>7, <1>8, <1>13

\* The same entry but for its channel and its polling thread.
SameLinks ==
  \A x \in Entries :
    /\ table'[x].vHandle = table[x].vHandle /\ table'[x].library = table[x].library
    /\ table'[x].name = table[x].name /\ table'[x].port = table[x].port
    /\ table'[x].pFeeds = table[x].pFeeds /\ table'[x].pMutex = table[x].pMutex

SameHolds == \A x \in Entries : table'[x].reference = table[x].reference /\ table'[x].mine = table[x].mine

LEMMA OneChanged ==
  ASSUME TableTypeOK, NEW e \in Entries, NEW r \in Readers, table' = [table EXCEPT ![e] = r]
  PROVE  TableTypeOK' /\ table'[e] = r /\ \A x \in Entries \ {e} : table'[x] = table[x]
BY DEF TableTypeOK

\* The entry of another slot of the reader in entry first.
NextSlotInto(e, f, m, entry) ==
  LET first == adding.parent
  IN  /\ e \in FreeEntries /\ ShareInto(f, m, first, e, adding.library \in SlotThreadSafe, entry)
      /\ entry.library = table[first].library /\ entry.port = table[first].port
      /\ entry.reference = 1 /\ entry.mine = TRUE
      /\ entry.name = IF table[first].name = NULL THEN NULL
                      ELSE [base |-> table[first].name.base, digit |-> table[first].name.digit, slot |-> adding.slot]
      /\ at' = [at EXCEPT ![Hotplug] = e] /\ UNCHANGED <<adding, removal>>
      /\ Leaving(e) # {} => "reused" \in hazard'

LEMMA NextSlotEffect ==
  ASSUME Typed, AddNextSlot, FreeEntries # {},
         table[adding.parent].pFeeds # 0, table[adding.parent].pMutex # 0
  PROVE  \E e, f, m \in Entries : \E entry \in Readers : NextSlotInto(e, f, m, entry)
<1> DEFINE e == Min(FreeEntries)
           first == adding.parent
           g == table[first]
           name == IF g.name = NULL THEN NULL ELSE [g.name EXCEPT !.slot = adding.slot]
           r == [Unused EXCEPT !.library = g.library, !.port = g.port, !.name = name, !.reference = 1, !.mine = TRUE]
<1>1. /\ pc[Hotplug] = "NextSlot"
      /\ ShareFrom(first, e, adding.library \in SlotThreadSafe, r)
      /\ at' = [at EXCEPT ![Hotplug] = e] /\ UNCHANGED <<adding, removal>>
      /\ Leaving(e) # {} => "reused" \in hazard'
  BY DEF AddNextSlot
<1>2. e \in FreeEntries /\ e \in Entries
  BY FirstEntry DEF FreeEntries
<1>3. adding \in NewAdding /\ adding.slot < Slots[adding.device] /\ first \in Entries
  BY <1>1 DEF Typed, Placed, HotplugTypeOK, AddSteps, NewAdding
<1>4. g \in Readers
  BY <1>3 DEF Typed, TableTypeOK
<1> HIDE DEF e, g
<1>5. adding.slot \in UNION {0..Slots[d] - 1 : d \in Devices}
  <2>1. adding.device \in Devices /\ adding.slot \in Nat
    BY <1>3 DEF NewAdding
  <2>2. Slots[adding.device] \in Nat
    BY <2>1, ReaderFactoryAssumption
  <2>3. adding.slot \in 0..(Slots[adding.device] - 1)
    BY <2>1, <2>2, <1>3
  <2> QED
    BY <2>1, <2>3
<1>6. /\ name \in Names \cup {NULL}
      /\ name = IF g.name = NULL THEN NULL
                ELSE [base |-> g.name.base, digit |-> g.name.digit, slot |-> adding.slot]
  <2>1. CASE g.name = NULL
    BY <2>1
  <2>2. CASE g.name # NULL
    <3>1. g.name \in Names
      BY <2>2, <1>4 DEF Readers
    <3>2. \A n \in Names : /\ [n EXCEPT !.slot = adding.slot] \in Names
                           /\ [n EXCEPT !.slot = adding.slot] = [base |-> n.base, digit |-> n.digit, slot |-> adding.slot]
      BY <1>5 DEF Names
    <3> QED
      BY <2>2, <3>1, <3>2
  <2> QED
    BY <2>1, <2>2
<1> HIDE DEF name
<1>7. /\ r \in Readers /\ r.library = g.library /\ r.port = g.port /\ r.name = name
      /\ r.reference = 1 /\ r.mine = TRUE
  <2>1. Unused \in Readers
    BY DEF Unused, Readers
  <2>2. g.library \in Libraries \cup {NULL} /\ g.port \in Entries \cup {0}
    BY <1>4 DEF Readers
  <2>3. name \in Names \cup {NULL}
    BY <1>6
  <2> QED
    BY ZenonT(60), <2>1, <2>2, <2>3 DEF Readers
<1> HIDE DEF r
<1>8. PICK f, m \in Entries : ShareInto(f, m, first, e, adding.library \in SlotThreadSafe, r)
  <2>1. TableTypeOK /\ (adding.library \in SlotThreadSafe) \in BOOLEAN
    BY DEF Typed
  <2> QED
    BY <1>1, <1>2, <1>3, <1>7, <2>1, ShareEffect
<1>9. NextSlotInto(e, f, m, r)
  BY <1>1, <1>2, <1>6, <1>7, <1>8 DEF NextSlotInto, g
<1> QED
  BY <1>2, <1>7, <1>9

\* The driver of the entry is started, or not.
InitializeAs(outcome) ==
  LET e == at[Hotplug]
      loads == ~Used(e) /\ outcome # "load"
  IN  /\ table' \in [Entries -> Readers] /\ \A x \in Entries \ {e} : table'[x] = table[x]
      /\ table'[e].vHandle = IF loads THEN adding.library ELSE table[e].vHandle
      /\ table'[e].library = table[e].library /\ table'[e].name = table[e].name /\ table'[e].port = table[e].port
      /\ table'[e].pFeeds = table[e].pFeeds /\ table'[e].pMutex = table[e].pMutex
      /\ SameHolds
      /\ opened' = IF loads THEN [opened EXCEPT ![adding.library] = @ + 1] ELSE opened
      /\ \/ /\ outcome = "ok" /\ Goto(Hotplug, "Spawn") /\ UNCHANGED <<adding, removal>>
         \/ /\ outcome # "ok" /\ Goto(Hotplug, "Removing")
            /\ \E result \in {"MISSING", "FAILED"} : adding' = [adding EXCEPT !.result = result]
            /\ RFRemoveReader(Hotplug, ReaderName[adding.device], adding.port)

LEMMA InitializeEffect ==
  ASSUME Typed, AddInitialize
  PROVE  \E outcome \in {"ok", "load", "missing", "open"} : (outcome = "load" => ~Used(at[Hotplug])) /\ InitializeAs(outcome)
<1> DEFINE e == at[Hotplug]
           load == ~Used(e)
<1>1. pc[Hotplug] = "Initialize"
  BY DEF AddInitialize
<1>2. e \in Entries /\ adding \in NewAdding
  BY <1>1, ThreadsApart DEF Typed, Placed, HotplugTypeOK, AddSteps, AtSteps, FillSteps, NewAdding
<1>3. PICK outcome \in {"ok"} \cup (DriverFails \cap ({"missing", "open"} \cup (IF load THEN {"load"} ELSE {}))) :
        /\ opened' = IF load /\ outcome # "load" THEN [opened EXCEPT ![adding.library] = @ + 1] ELSE opened
        /\ table' = [table EXCEPT
             ![e].vHandle = IF load /\ outcome # "load" THEN adding.library ELSE @,
             ![e].isOpen = (outcome = "ok")]
        /\ IF outcome = "ok"
           THEN Goto(Hotplug, "Spawn") /\ UNCHANGED <<adding, removal>>
           ELSE /\ adding' = [adding EXCEPT !.result = IF outcome = "missing" THEN "MISSING" ELSE "FAILED"]
                /\ RFRemoveReader(Hotplug, ReaderName[adding.device], adding.port) /\ Goto(Hotplug, "Removing")
  BY DEF AddInitialize
<1> DEFINE h == IF load /\ outcome # "load" THEN adding.library ELSE table[e].vHandle
<1>4. table[e] \in Readers /\ h \in Libraries \cup {NULL}
  BY <1>2 DEF Typed, TableTypeOK, Readers, NewAdding
<1> DEFINE r == [table[e] EXCEPT !.vHandle = h, !.isOpen = (outcome = "ok")]
<1>5. /\ r \in Readers /\ r.vHandle = h /\ r.library = table[e].library /\ r.name = table[e].name
      /\ r.port = table[e].port /\ r.pFeeds = table[e].pFeeds /\ r.pMutex = table[e].pMutex
      /\ r.reference = table[e].reference /\ r.mine = table[e].mine
  <2> HIDE DEF h
  <2> QED
    BY ZenonT(60), <1>4 DEF Readers
<1>6. TableTypeOK /\ table' = [table EXCEPT ![e] = r]
  BY <1>2, <1>3 DEF Typed, TableTypeOK
<1> HIDE DEF r
<1>7. TableTypeOK' /\ table'[e] = r /\ \A x \in Entries \ {e} : table'[x] = table[x]
  <2> HIDE DEF e
  <2> QED
    BY <1>2, <1>5, <1>6, OneChanged
<1>8. SameHolds
  BY <1>5, <1>7 DEF SameHolds
<1>9. \/ /\ outcome = "ok" /\ Goto(Hotplug, "Spawn") /\ UNCHANGED <<adding, removal>>
      \/ /\ outcome # "ok" /\ Goto(Hotplug, "Removing")
         /\ \E result \in {"MISSING", "FAILED"} : adding' = [adding EXCEPT !.result = result]
         /\ RFRemoveReader(Hotplug, ReaderName[adding.device], adding.port)
  BY <1>3
<1>10. InitializeAs(outcome)
  BY <1>3, <1>5, <1>7, <1>8, <1>9 DEF InitializeAs, TableTypeOK
<1>11. outcome \in {"ok", "load", "missing", "open"} /\ (outcome = "load" => load)
  BY <1>3
<1> QED
  BY <1>10, <1>11

-----------------------------------------------------------------------------
\* The hotplug thread inside RFAddReader.
LEMMA AddStepTyped ==
  ASSUME Typed, TableTypeOK', NEW label \in AddSteps \cup {"Removing"}, Goto(Hotplug, label),
         adding' \in NewAdding, adding' # NoAdding, adding'.slot < Slots[adding'.device],
         label \in AtSteps => at'[Hotplug] \in Entries,
         label \in FillSteps \cup {"NextSlot"} /\ (label = "NextSlot" \/ adding'.slot # 0) => adding'.parent \in Entries,
         at' \in [Threads -> Entries \cup {0}], \A u \in Threads \ {Hotplug} : at'[u] = at[u],
         removal' = removal \/ RFRemoveReader(Hotplug, ReaderName[adding.device], adding.port),
         adding \in NewAdding,
         UNCHANGED <<tracker, bus, udev, plugs, absent, wanted, cleaning, lives>>
  PROVE  Typed'
<1>1. label \in HotplugSteps /\ label \notin {"Idle", "Stopped", "Rescan", "RescanNew", "Sweep"}
  BY DEF HotplugSteps, AddSteps, FillSteps
<1>2. /\ pc' \in [Threads -> CallerSteps \cup MainSteps \cup HotplugSteps]
      /\ pc'[Main] \in MainSteps /\ pc'[Hotplug] \in HotplugSteps
      /\ \A c \in Callers : pc'[c] \in CallerSteps
      /\ pc'[Hotplug] = label /\ \A u \in Threads \ {Hotplug} : pc'[u] = pc[u]
  BY <1>1, ThreadsApart, GotoType DEF Typed
<1>3. removal' \in [{Hotplug, Main} -> [base : Bases \cup {NULL}, port : Entries \cup {0}, from : Nat]]
  <2>1. CASE removal' = removal
    BY <2>1 DEF Typed, ThreadTypeOK
  <2>2. CASE RFRemoveReader(Hotplug, ReaderName[adding.device], adding.port)
    <3>1. ReaderName[adding.device] \in Bases /\ adding.port \in Entries
      BY DEF NewAdding, Bases
    <3> QED
      BY <2>2, <3>1 DEF RFRemoveReader, Typed, ThreadTypeOK
  <2> QED
    BY <2>1, <2>2
<1>4. ThreadTypeOK'
  BY <1>2, <1>3 DEF Typed, ThreadTypeOK
<1>5. HotplugTypeOK'
  BY DEF Typed, HotplugTypeOK, NewAdding
<1>6. Placed'
  <2>1. \A u \in Threads : pc'[u] \in AtSteps => at'[u] \in Entries
    BY <1>2 DEF Typed, Placed
  <2> QED
    BY <1>1, <1>2, <2>1 DEF Placed, AddSteps, FillSteps
<1> QED
  BY <1>4, <1>5, <1>6 DEF Typed

\* Between the steps of RFAddReader.
LEMMA AddingType ==
  ASSUME Typed, pc[Hotplug] \in AddSteps
  PROVE  adding \in NewAdding /\ adding # NoAdding /\ adding.slot < Slots[adding.device]
BY DEF Typed, Placed, HotplugTypeOK, NewAdding

LEMMA AddingKept ==
  ASSUME adding \in NewAdding, adding.slot < Slots[adding.device],
         NEW result \in {"FAILED", "MISSING"}, adding' = [adding EXCEPT !.result = result]
  PROVE  adding' \in NewAdding /\ adding' # NoAdding /\ adding'.slot < Slots[adding'.device]
         /\ adding'.device = adding.device /\ adding'.port = adding.port /\ adding'.slot = adding.slot
         /\ adding'.parent = adding.parent /\ adding'.library = adding.library
<1>1. /\ adding' \in NewAdding
      /\ adding'.device = adding.device /\ adding'.port = adding.port /\ adding'.slot = adding.slot
      /\ adding'.parent = adding.parent /\ adding'.library = adding.library
  BY DEF NewAdding
<1>2. adding.port # 0
  BY EntriesAreNumbers DEF NewAdding
<1>3. adding' # NoAdding
  BY <1>1, <1>2 DEF NoAdding, RFAddReader
<1> QED
  BY <1>1, <1>3

\* The daemon dies instead.
LEMMA ExitTyped ==
  ASSUME Typed, Goto(Main, "Exited"), TableTypeOK', at' \in [Threads -> Entries \cup {0}],
         \A t \in Threads : pc[t] \in AtSteps => at'[t] \in Entries,
         UNCHANGED <<tracker, bus, udev, plugs, absent, wanted, cleaning, lives, adding, removal>>
  PROVE  Typed'
<1>1. /\ pc' \in [Threads -> CallerSteps \cup MainSteps \cup HotplugSteps]
      /\ pc'[Main] \in MainSteps /\ pc'[Hotplug] \in HotplugSteps
      /\ \A c \in Callers : pc'[c] \in CallerSteps
      /\ pc'[Main] = "Exited" /\ \A u \in Threads \ {Main} : pc'[u] = pc[u]
  BY ThreadsApart, StepNames, GotoType DEF Typed
<1>2. "Exited" \notin AtSteps /\ pc'[Hotplug] = pc[Hotplug]
  BY <1>1, ThreadsApart DEF AtSteps, EndSteps, FillSteps
<1>3. Placed'
  BY <1>1, <1>2 DEF Typed, Placed
<1> QED
  BY <1>1, <1>3 DEF Typed, ThreadTypeOK, HotplugTypeOK

LEMMA AddReaderTyped ==
  ASSUME Typed, AddReader
  PROVE  Typed'
<1>1. /\ pc[Hotplug] = "Add"
      /\ UNCHANGED <<tracker, bus, udev, plugs, absent, removal, wanted, cleaning, lives>>
  BY DEF AddReader
<1>2. adding \in NewAdding /\ adding # NoAdding /\ adding.slot < Slots[adding.device]
  BY <1>1, AddingType DEF AddSteps
<1>3. CASE AddRefused
  <2>1. AddFails("FAILED") /\ UNCHANGED <<table, at>>
    BY <1>3 DEF AddReader, AddRefused
  <2>2. adding' \in NewAdding /\ adding' # NoAdding /\ adding'.slot < Slots[adding'.device]
    BY <1>2, <2>1, AddingKept DEF AddFails
  <2>3. /\ "AddFailed" \in AddSteps \cup {"Removing"} /\ "AddFailed" \notin AtSteps \cup FillSteps \cup {"NextSlot"}
        /\ Goto(Hotplug, "AddFailed")
    BY <2>1 DEF AddSteps, AtSteps, FillSteps, EndSteps, AddFails
  <2>4. TableTypeOK' /\ at' \in [Threads -> Entries \cup {0}]
    BY <2>1 DEF Typed, TableTypeOK, ThreadTypeOK
  <2> QED
    BY <1>1, <1>2, <2>1, <2>2, <2>3, <2>4, AddStepTyped
<1>4. CASE ~AddRefused
  <2>1. PICK e, parent \in Entries \cup {0}, digit \in Digits : Take(e, digit, parent)
    BY <1>4, AddReaderEffect
  <2>2. /\ e \in Entries /\ TableTypeOK' /\ Goto(Hotplug, "Share") /\ at' = [at EXCEPT ![Hotplug] = e]
        /\ adding' = [adding EXCEPT !.parent = parent, !.slot = 0]
    BY <2>1 DEF Take, FreeEntries, TableTypeOK
  <2>3. adding' \in NewAdding /\ adding'.slot = 0 /\ adding'.port = adding.port /\ adding'.device = adding.device
    BY <1>2, <2>2 DEF NewAdding
  <2>4. adding'.slot < Slots[adding'.device] /\ adding' # NoAdding
    <3>1. adding.device \in Devices /\ adding.port # 0
      BY <1>2, EntriesAreNumbers DEF NewAdding
    <3>2. Slots[adding.device] \in Nat \ {0}
      BY <3>1, ReaderFactoryAssumption
    <3> QED
      BY <2>3, <3>1, <3>2 DEF NoAdding, RFAddReader
  <2>5. "Share" \in AddSteps \cup {"Removing"} /\ "Share" # "NextSlot"
    BY DEF AddSteps, FillSteps
  <2>6. /\ at' \in [Threads -> Entries \cup {0}] /\ at'[Hotplug] = e
        /\ \A u \in Threads \ {Hotplug} : at'[u] = at[u]
    BY <2>2, ThreadsApart DEF Typed, ThreadTypeOK
  <2> QED
    BY <1>1, <1>2, <2>2, <2>3, <2>4, <2>5, <2>6, AddStepTyped
<1> QED
  BY <1>3, <1>4

LEMMA AddShareTyped ==
  ASSUME Typed, AddShare
  PROVE  Typed'
<1> DEFINE e == at[Hotplug]
           parent == adding.parent
           safe == adding.library \in ThreadSafe
<1>1. /\ pc[Hotplug] = "Share" /\ ShareFrom(parent, e, safe, table[e])
      /\ UNCHANGED <<tracker, bus, udev, plugs, absent, removal, wanted, cleaning, lives, adding, at>>
  BY DEF AddShare, hotplugVars
<1>2. adding \in NewAdding /\ adding # NoAdding /\ adding.slot < Slots[adding.device]
  BY <1>1, AddingType DEF AddSteps, FillSteps
<1>3. e \in Entries /\ parent \in Entries \cup {0} /\ table[e] \in Readers /\ safe \in BOOLEAN
  BY <1>1, <1>2, ThreadsApart DEF Typed, Placed, AtSteps, FillSteps, TableTypeOK, NewAdding
<1>4. CASE parent # 0 /\ (table[parent].pFeeds = 0 \/ table[parent].pMutex = 0)
  <2>1. Goto(Main, "Exited") /\ table' = table
    BY <1>1, <1>4 DEF ShareFrom
  <2>2. /\ TableTypeOK' /\ at' \in [Threads -> Entries \cup {0}]
        /\ \A t \in Threads : pc[t] \in AtSteps => at'[t] \in Entries
    BY <1>1, <2>1 DEF Typed, TableTypeOK, ThreadTypeOK, Placed
  <2> QED
    BY <1>1, <2>1, <2>2, ExitTyped
<1>5. CASE ~(parent # 0 /\ (table[parent].pFeeds = 0 \/ table[parent].pMutex = 0))
  <2>1. PICK f, m \in Entries : ShareInto(f, m, parent, e, safe, table[e])
    <3> HIDE DEF e, safe, parent
    <3> QED
      BY <1>1, <1>3, <1>5, ShareEffect DEF Typed
  <2>2. TableTypeOK' /\ Goto(Hotplug, "Initialize")
    BY <2>1 DEF ShareInto, TableTypeOK
  <2>3. "Initialize" \in AddSteps \cup {"Removing"} /\ "Initialize" # "NextSlot" /\ "Share" \in FillSteps
    BY DEF AddSteps, FillSteps
  <2>4. adding.slot # 0 => adding.parent \in Entries
    BY <1>1, <2>3 DEF Typed, Placed
  <2>5. at' \in [Threads -> Entries \cup {0}] /\ at'[Hotplug] \in Entries
    BY <1>1, <1>3 DEF Typed, ThreadTypeOK
  <2> QED
    BY <1>1, <1>2, <2>2, <2>3, <2>4, <2>5, AddStepTyped
<1> QED
  BY <1>4, <1>5

LEMMA AddInitializeTyped ==
  ASSUME Typed, AddInitialize
  PROVE  Typed'
<1>1. /\ pc[Hotplug] = "Initialize"
      /\ UNCHANGED <<tracker, bus, udev, plugs, absent, wanted, cleaning, lives, at>>
  BY DEF AddInitialize
<1>2. adding \in NewAdding /\ adding # NoAdding /\ adding.slot < Slots[adding.device]
  BY <1>1, AddingType DEF AddSteps, FillSteps
<1>3. /\ at[Hotplug] \in Entries /\ at' \in [Threads -> Entries \cup {0}]
      /\ adding.slot # 0 => adding.parent \in Entries
  BY <1>1, ThreadsApart DEF Typed, Placed, AtSteps, FillSteps, ThreadTypeOK
<1>4. PICK outcome \in {"ok", "load", "missing", "open"} : InitializeAs(outcome)
  BY InitializeEffect
<1>5. TableTypeOK'
  BY <1>4 DEF InitializeAs, TableTypeOK
<1>6. "Spawn" \in AddSteps /\ "Removing" \notin AtSteps \cup FillSteps /\ "Spawn" # "NextSlot" /\ "Removing" # "NextSlot"
  BY DEF AddSteps, AtSteps, FillSteps, EndSteps
<1>7. CASE outcome = "ok"
  <2>1. Goto(Hotplug, "Spawn") /\ UNCHANGED <<adding, removal>>
    BY <1>4, <1>7 DEF InitializeAs
  <2> QED
    BY <1>1, <1>2, <1>3, <1>5, <1>6, <2>1, AddStepTyped
<1>8. CASE outcome # "ok"
  <2>1. PICK result \in {"MISSING", "FAILED"} :
          /\ adding' = [adding EXCEPT !.result = result] /\ Goto(Hotplug, "Removing")
          /\ RFRemoveReader(Hotplug, ReaderName[adding.device], adding.port)
    BY <1>4, <1>8 DEF InitializeAs
  <2>2. adding' \in NewAdding /\ adding' # NoAdding /\ adding'.slot < Slots[adding'.device]
    BY <1>2, <2>1, AddingKept
  <2> QED
    BY <1>1, <1>2, <1>3, <1>5, <1>6, <2>1, <2>2, AddStepTyped
<1> QED
  BY <1>7, <1>8

\* The polling thread is started, or the driver cannot say whether a card is in.
SpawnAs(ok) ==
  LET e == at[Hotplug]
  IN  /\ TableTypeOK' /\ SameLinks /\ SameHolds
      /\ \/ ok /\ adding.slot + 1 = Slots[adding.device] /\ Goto(Hotplug, "Added") /\ UNCHANGED <<adding, removal>>
         \/ /\ ok /\ adding.slot + 1 # Slots[adding.device] /\ Goto(Hotplug, "NextSlot") /\ removal' = removal
            /\ adding' = [adding EXCEPT !.slot = @ + 1, !.parent = IF adding.slot = 0 THEN e ELSE @]
         \/ /\ ~ok /\ adding' = [adding EXCEPT !.result = "FAILED"] /\ Goto(Hotplug, "Removing")
            /\ RFRemoveReader(Hotplug, ReaderName[adding.device], adding.port)

LEMMA SpawnEffect ==
  ASSUME Typed, AddSpawn
  PROVE  \E ok \in BOOLEAN : SpawnAs(ok)
<1> DEFINE e == at[Hotplug]
           r == [table[e] EXCEPT !.polling = "running"]
<1>1. pc[Hotplug] = "Spawn"
  BY DEF AddSpawn
<1>2. e \in Entries /\ table[e] \in Readers
  BY <1>1, ThreadsApart DEF Typed, Placed, AtSteps, FillSteps, TableTypeOK
<1>3. /\ r \in Readers /\ r.vHandle = table[e].vHandle /\ r.library = table[e].library
      /\ r.name = table[e].name /\ r.port = table[e].port /\ r.pFeeds = table[e].pFeeds
      /\ r.pMutex = table[e].pMutex /\ r.reference = table[e].reference /\ r.mine = table[e].mine
  BY <1>2 DEF Readers
<1>4. table' = [table EXCEPT ![e] = r] \/ table' = table
  BY DEF AddSpawn
<1>5. TableTypeOK' /\ SameLinks /\ SameHolds
  <2>1. CASE table' = table
    BY <2>1 DEF Typed, TableTypeOK, SameLinks, SameHolds
  <2>2. CASE table' = [table EXCEPT ![e] = r]
    <3> HIDE DEF e, r
    <3>1. TableTypeOK' /\ table'[e] = r /\ \A x \in Entries \ {e} : table'[x] = table[x]
      BY <1>2, <1>3, <2>2, OneChanged DEF Typed
    <3> QED
      BY <1>2, <1>3, <3>1 DEF SameLinks, SameHolds
  <2> QED
    BY <1>4, <2>1, <2>2
<1> HIDE DEF r
<1>6. \/ SpawnAs(TRUE)
      \/ SpawnAs(FALSE)
  BY <1>5 DEF AddSpawn, SpawnAs
<1> QED
  BY <1>6

LEMMA AddSpawnTyped ==
  ASSUME Typed, AddSpawn
  PROVE  Typed'
<1>1. /\ pc[Hotplug] = "Spawn"
      /\ UNCHANGED <<tracker, bus, udev, plugs, absent, wanted, cleaning, lives, at>>
  BY DEF AddSpawn
<1>2. adding \in NewAdding /\ adding # NoAdding /\ adding.slot < Slots[adding.device]
  BY <1>1, AddingType DEF AddSteps, FillSteps
<1>3. /\ at[Hotplug] \in Entries /\ at' \in [Threads -> Entries \cup {0}]
      /\ adding.slot # 0 => adding.parent \in Entries
  BY <1>1, ThreadsApart DEF Typed, Placed, AtSteps, FillSteps, ThreadTypeOK
<1>4. PICK ok \in BOOLEAN : SpawnAs(ok)
  BY SpawnEffect
<1>5. TableTypeOK'
  BY <1>4 DEF SpawnAs
<1>6. /\ {"Added", "NextSlot"} \subseteq AddSteps
      /\ {"Added", "NextSlot", "Removing"} \cap (AtSteps \cup FillSteps) = {}
  BY DEF AddSteps, AtSteps, FillSteps, EndSteps
<1>7. CASE Goto(Hotplug, "Added") /\ UNCHANGED <<adding, removal>>
  BY <1>1, <1>2, <1>3, <1>5, <1>6, <1>7, AddStepTyped
<1>8. CASE /\ adding.slot + 1 # Slots[adding.device] /\ Goto(Hotplug, "NextSlot") /\ removal' = removal
           /\ adding' = [adding EXCEPT !.slot = @ + 1, !.parent = IF adding.slot = 0 THEN at[Hotplug] ELSE @]
  <2> DEFINE slot == adding.slot + 1
             parent == IF adding.slot = 0 THEN at[Hotplug] ELSE adding.parent
  <2>2. /\ Slots[adding.device] \in Nat /\ adding.slot \in Nat /\ adding.port # 0 /\ slot \in Nat
    BY <1>2, ReaderFactoryAssumption, EntriesAreNumbers DEF NewAdding
  <2>4. parent \in Entries
    BY <1>3
  <2>5. slot < Slots[adding.device]
    BY <1>2, <1>8, <2>2
  <2>6. adding' = [adding EXCEPT !.slot = slot, !.parent = parent]
    BY <1>8
  <2> HIDE DEF slot, parent
  <2>1. /\ adding' \in NewAdding /\ adding'.device = adding.device /\ adding'.port = adding.port
        /\ adding'.slot = slot /\ adding'.parent = parent
    BY <1>2, <2>2, <2>4, <2>6 DEF NewAdding
  <2>7. adding' # NoAdding
    BY <2>1, <2>2 DEF NoAdding, RFAddReader
  <2>3. adding' # NoAdding /\ adding'.slot < Slots[adding'.device] /\ adding'.parent \in Entries
    BY <2>1, <2>4, <2>5, <2>7
  <2> QED
    BY <1>1, <1>2, <1>3, <1>5, <1>6, <1>8, <2>1, <2>3, AddStepTyped
<1>9. CASE /\ adding' = [adding EXCEPT !.result = "FAILED"] /\ Goto(Hotplug, "Removing")
           /\ RFRemoveReader(Hotplug, ReaderName[adding.device], adding.port)
  <2>1. adding' \in NewAdding /\ adding' # NoAdding /\ adding'.slot < Slots[adding'.device]
    BY <1>2, <1>9, AddingKept
  <2> QED
    BY <1>1, <1>2, <1>3, <1>5, <1>6, <1>9, <2>1, AddStepTyped
<1> QED
  BY <1>4, <1>7, <1>8, <1>9 DEF SpawnAs

LEMMA AddNextSlotTyped ==
  ASSUME Typed, AddNextSlot
  PROVE  Typed'
<1> DEFINE first == adding.parent
<1>1. /\ pc[Hotplug] = "NextSlot"
      /\ UNCHANGED <<tracker, bus, udev, plugs, absent, wanted, cleaning, lives>>
  BY DEF AddNextSlot
<1>2. adding \in NewAdding /\ adding # NoAdding /\ adding.slot < Slots[adding.device] /\ first \in Entries
  BY <1>1, AddingType DEF AddSteps, FillSteps, Typed, Placed
<1>3. {"Initialize", "Removing"} \subseteq AddSteps \cup {"Removing"} /\ "Removing" \notin AtSteps \cup FillSteps
      /\ "Initialize" # "NextSlot"
  BY DEF AddSteps, AtSteps, FillSteps, EndSteps
<1>4. CASE FreeEntries = {}
  <2>1. /\ adding' = [adding EXCEPT !.result = "FAILED"] /\ UNCHANGED <<table, at>>
        /\ RFRemoveReader(Hotplug, ReaderName[adding.device], adding.port) /\ Goto(Hotplug, "Removing")
    BY <1>4 DEF AddNextSlot
  <2>2. adding' \in NewAdding /\ adding' # NoAdding /\ adding'.slot < Slots[adding'.device]
    BY <1>2, <2>1, AddingKept
  <2>3. TableTypeOK' /\ at' \in [Threads -> Entries \cup {0}]
    BY <2>1 DEF Typed, TableTypeOK, ThreadTypeOK
  <2> QED
    BY <1>1, <1>2, <1>3, <2>1, <2>2, <2>3, AddStepTyped
<1>5. CASE FreeEntries # {} /\ (table[first].pFeeds = 0 \/ table[first].pMutex = 0)
  <2>1. first # 0
    BY <1>2, EntriesAreNumbers
  <2>2. Min(FreeEntries) \in Entries
    BY <1>5, FirstEntry DEF FreeEntries
  <2>3. Goto(Main, "Exited") /\ table' = table /\ at' = [at EXCEPT ![Hotplug] = Min(FreeEntries)]
        /\ UNCHANGED <<adding, removal>>
    BY <1>5, <2>1 DEF AddNextSlot, ShareFrom
  <2>4. /\ TableTypeOK' /\ at' \in [Threads -> Entries \cup {0}]
        /\ \A t \in Threads : pc[t] \in AtSteps => at'[t] \in Entries
    BY <2>2, <2>3, ThreadsApart DEF Typed, TableTypeOK, ThreadTypeOK, Placed
  <2> QED
    BY <1>1, <2>3, <2>4, ExitTyped
<1>6. CASE FreeEntries # {} /\ table[first].pFeeds # 0 /\ table[first].pMutex # 0
  <2>1. PICK e, f, m \in Entries, entry \in Readers : NextSlotInto(e, f, m, entry)
    BY <1>6, NextSlotEffect
  <2>2. /\ TableTypeOK' /\ Goto(Hotplug, "Initialize") /\ at' = [at EXCEPT ![Hotplug] = e]
        /\ UNCHANGED <<adding, removal>>
    BY <2>1 DEF NextSlotInto, ShareInto, TableTypeOK
  <2>3. /\ at' \in [Threads -> Entries \cup {0}] /\ at'[Hotplug] = e
        /\ \A u \in Threads \ {Hotplug} : at'[u] = at[u]
    BY <2>2, ThreadsApart DEF Typed, ThreadTypeOK
  <2> QED
    BY <1>1, <1>2, <1>3, <2>2, <2>3, AddStepTyped
<1> QED
  BY <1>4, <1>5, <1>6

LEMMA NextTyped ==
  ASSUME Typed, [Next]_vars
  PROVE  Typed'
<1>1. CASE HotplugThread
  BY <1>1, HotplugTyped, AddReaderTyped, AddShareTyped, AddInitializeTyped, AddSpawnTyped, AddNextSlotTyped
     DEF HotplugThread, Add
<1>2. ASSUME NEW t \in Threads, Remove(t) PROVE Typed'
  BY <1>2, RemoveTyped, RemoveNextTyped DEF Remove
<1>3. ASSUME NEW c \in Callers, Client(c) PROVE Typed'
  BY <1>3, ClientTyped
<1>4. ASSUME NEW e \in Entries, PollingThread(e) PROVE Typed'
  BY <1>4, PollingTyped
<1>5. ASSUME NEW d \in Devices, Plug(d) \/ Unplug(d) PROVE Typed'
  BY <1>5, PlugTyped
<1>6. CASE SignalTrap \/ Stop \/ RFCleanupReaders
  BY <1>6, EndTyped
<1>7. CASE UNCHANGED vars
  BY <1>7 DEF vars, tableVars, hotplugVars, threadVars, Typed, TableTypeOK, HotplugTypeOK, ThreadTypeOK, Placed
<1> QED
  BY <1>1, <1>2, <1>3, <1>4, <1>5, <1>6, <1>7 DEF Next

LEMMA TypedAlways == Spec => []Typed
<1>1. Init => Typed
  BY InitTyped
<1>2. Typed /\ [Next]_vars => Typed'
  BY NextTyped
<1> QED
  BY <1>1, <1>2, PTL DEF Spec

-----------------------------------------------------------------------------
(***************************************************************************)
(* Who holds an entry, as long as hazard is empty.                         *)
(***************************************************************************)
Mine(e) == IF table[e].mine THEN 1 ELSE 0

\* The count of an entry is the table's share and one for every call; who has
\* read 0 is alone with it; a reader stays until its removal closes it, and
\* one whose count is 0 is being removed; it has all that its removal gives
\* back.
HeldAt(e) ==
  /\ table[e].reference = Mine(e) + Cardinality(Users(e))
  /\ \A c \in Users(e) : Used(e) /\ table[e].name = wanted[c]
  /\ \A t \in Leaving(e) :
       /\ pc[t] \in GoneSteps => table[e].reference = 0 /\ Leaving(e) = {t}
       /\ pc[t] # "Forget" => Used(e)
       /\ pc[t] = "Forget" => ~Used(e) /\ Counted(e)
  /\ Alive /\ Used(e) /\ table[e].reference = 0 => Leaving(e) # {}
  /\ Used(e) => Counted(e) /\ table[e].name # NULL
  /\ Counted(e) => table[e].pMutex # 0

\* The reader that is being added.
FilledAt(e) ==
  /\ table[e].mine /\ table[e].name # NULL /\ table[e].port # 0
  /\ pc[Hotplug] = "Share" => ~Used(e) /\ table[e].pFeeds = 0
  /\ pc[Hotplug] = "Initialize" => table[e].pFeeds # 0
  /\ pc[Hotplug] = "Spawn" => Used(e)

Filled == pc[Hotplug] \in FillSteps => FilledAt(at[Hotplug])

Held == Typed /\ (\A e \in Entries : HeldAt(e)) /\ Filled

HeldInv == hazard = {} => Held

LEMMA UsersFinite ==
  ASSUME NEW e \in Entries
  PROVE  /\ IsFiniteSet(Users(e)) /\ Cardinality(Users(e)) \in Nat
         /\ Cardinality(Users(e)) = 0 <=> Users(e) = {}
<1>1. Users(e) \subseteq Callers /\ IsFiniteSet(Callers)
  BY ReaderFactoryAssumption DEF Users
<1> QED
  BY <1>1, FS_Subset, FS_CardinalityType, FS_EmptySet

\* An entry whose count is 0 has no call and is not the table's; one that is
\* not used has no call.
LEMMA NobodyHas ==
  ASSUME Typed, NEW e \in Entries, HeldAt(e)
  PROVE  /\ table[e].reference = 0 => Users(e) = {} /\ ~table[e].mine
         /\ ~Used(e) => Users(e) = {}
         /\ table[e].reference \in Nat /\ Mine(e) \in {0, 1} /\ table[e].mine \in BOOLEAN
<1>1. Mine(e) \in {0, 1} /\ (table[e].mine => Mine(e) = 1) /\ table[e].mine \in BOOLEAN /\ table[e].reference \in Nat
  BY DEF Mine, Typed, TableTypeOK, Readers
<1>2. table[e].reference = Mine(e) + Cardinality(Users(e))
  BY DEF HeldAt
<1>3. table[e].reference = 0 => Cardinality(Users(e)) = 0 /\ Mine(e) = 0
  BY <1>1, <1>2, UsersFinite
<1>4. ~Used(e) => Users(e) = {}
  BY DEF HeldAt
<1> QED
  BY <1>1, <1>3, <1>4, UsersFinite

SameAt(x) ==
  /\ table'[x].vHandle = table[x].vHandle /\ table'[x].name = table[x].name /\ table'[x].port = table[x].port
  /\ table'[x].pFeeds = table[x].pFeeds /\ table'[x].pMutex = table[x].pMutex
  /\ table'[x].reference = table[x].reference /\ table'[x].mine = table[x].mine

\* Only thread t moves.
OnlyMoves(t) ==
  /\ \A u \in Threads \ {t} : pc'[u] = pc[u] /\ at'[u] = at[u]
  /\ \A c \in Callers \ {t} : wanted'[c] = wanted[c]
  /\ Alive' => Alive

\* The calls and the removals an entry has are those it had.
SameThreadsAt(x) ==
  /\ Users(x)' = Users(x) /\ Leaving(x)' = Leaving(x)
  /\ \A t \in Leaving(x) : pc'[t] = pc[t]
  /\ \A c \in Users(x) : wanted'[c] = wanted[c]

LEMMA ThreadsElsewhere ==
  ASSUME NEW x, NEW t \in Threads, OnlyMoves(t),
         pc[t] \in EndSteps \cup {"InUse"} => at[t] # x, pc'[t] \in EndSteps \cup {"InUse"} => at'[t] # x
  PROVE  SameThreadsAt(x)
<1>1. \A c \in Callers : (pc'[c] = "InUse" /\ at'[c] = x) <=> (pc[c] = "InUse" /\ at[c] = x)
  BY ThreadsApart DEF OnlyMoves
<1>2. \A u \in Threads : (at'[u] = x /\ pc'[u] \in EndSteps) <=> (at[u] = x /\ pc[u] \in EndSteps)
  BY DEF OnlyMoves
<1>3. t \notin Leaving(x) /\ t \notin Users(x)
  BY DEF Leaving, Users
<1>4. Users(x)' = Users(x)
  BY <1>1 DEF Users
<1>5. Leaving(x)' = Leaving(x)
  BY <1>2 DEF Leaving
<1>6. (\A u \in Leaving(x) : pc'[u] = pc[u]) /\ \A c \in Users(x) : wanted'[c] = wanted[c]
  BY <1>3 DEF OnlyMoves, Leaving, Users
<1> QED
  BY <1>4, <1>5, <1>6 DEF SameThreadsAt

LEMMA HeldElsewhere ==
  ASSUME NEW x, HeldAt(x), SameAt(x), SameThreadsAt(x), Alive' => Alive
  PROVE  HeldAt(x)'
<1>1. /\ Users(x)' = Users(x) /\ Leaving(x)' = Leaving(x) /\ Used(x)' = Used(x) /\ Counted(x)' = Counted(x)
      /\ Mine(x)' = Mine(x)
  BY DEF SameAt, SameThreadsAt, Used, Counted, Mine
<1>2. Cardinality(Users(x))' = Cardinality(Users(x))
  BY <1>1
<1>3. (table[x].reference = Mine(x) + Cardinality(Users(x)))'
  BY <1>1, <1>2 DEF SameAt, HeldAt
<1>4. (\A c \in Users(x) : Used(x) /\ table[x].name = wanted[c])'
  BY <1>1 DEF SameAt, SameThreadsAt, HeldAt
<1>5. (\A t \in Leaving(x) :
         /\ pc[t] \in GoneSteps => table[x].reference = 0 /\ Leaving(x) = {t}
         /\ pc[t] # "Forget" => Used(x)
         /\ pc[t] = "Forget" => ~Used(x) /\ Counted(x))'
  BY <1>1 DEF SameAt, SameThreadsAt, HeldAt
<1>6. /\ (Alive /\ Used(x) /\ table[x].reference = 0 => Leaving(x) # {})'
      /\ (Used(x) => Counted(x) /\ table[x].name # NULL)'
      /\ (Counted(x) => table[x].pMutex # 0)'
  BY <1>1 DEF SameAt, HeldAt
<1> QED
  BY <1>3, <1>4, <1>5, <1>6 DEF HeldAt

LEMMA FilledKept ==
  ASSUME Filled, pc'[Hotplug] = pc[Hotplug], at'[Hotplug] = at[Hotplug],
         pc[Hotplug] \in FillSteps => SameAt(at[Hotplug])
  PROVE  Filled'
BY DEF Filled, FilledAt, SameAt, Used

LEMMA MovesBy ==
  ASSUME Typed, NEW t \in Threads, NEW label, Goto(t, label),
         at' = at \/ \E e : at' = [at EXCEPT ![t] = e],
         wanted' = wanted \/ (t \in Callers /\ \E n : wanted' = [wanted EXCEPT ![t] = n]),
         t = Main => Alive
  PROVE  OnlyMoves(t) /\ pc'[t] = label
<1>1. pc'[t] = label /\ \A u \in Threads \ {t} : pc'[u] = pc[u]
  BY DEF Typed, ThreadTypeOK, Goto
<1>2. \A u \in Threads \ {t} : at'[u] = at[u]
  BY DEF Typed, ThreadTypeOK
<1>3. \A c \in Callers \ {t} : wanted'[c] = wanted[c]
  BY DEF Typed, ThreadTypeOK
<1>4. Alive' => Alive
  BY <1>1, ThreadsApart DEF Alive
<1> QED
  BY <1>1, <1>2, <1>3, <1>4 DEF OnlyMoves

LEMMA HeldSame ==
  ASSUME Held, Typed', Alive' => Alive, \A x \in Entries : SameAt(x) /\ SameThreadsAt(x),
         pc'[Hotplug] \in FillSteps => pc'[Hotplug] = pc[Hotplug] /\ at'[Hotplug] = at[Hotplug]
  PROVE  Held'
<1>1. \A x \in Entries : HeldAt(x)'
  BY HeldElsewhere DEF Held
<1>2. Filled'
  <2>1. CASE pc'[Hotplug] \in FillSteps
    <3>1. pc[Hotplug] \in FillSteps => at[Hotplug] \in Entries
      BY ThreadsApart DEF Held, Typed, Placed, AtSteps
    <3> QED
      BY <2>1, <3>1, FilledKept DEF Held
  <2> QED
    BY <2>1 DEF Filled
<1> QED
  BY <1>1, <1>2 DEF Held

\* A thread that neither uses nor removes a reader moves.
LEMMA HeldQuiet ==
  ASSUME Held, Typed', NEW t \in Threads, OnlyMoves(t),
         pc[t] \notin EndSteps \cup {"InUse"}, pc'[t] \notin EndSteps \cup {"InUse"},
         \A x \in Entries : SameAt(x), t = Hotplug => pc'[t] \notin FillSteps
  PROVE  Held'
<1>1. \A x \in Entries : SameThreadsAt(x)
  BY ThreadsElsewhere
<1>2. pc'[Hotplug] \in FillSteps => pc'[Hotplug] = pc[Hotplug] /\ at'[Hotplug] = at[Hotplug]
  BY ThreadsApart DEF OnlyMoves
<1> QED
  BY <1>1, <1>2, HeldSame DEF OnlyMoves

LEMMA SameTable ==
  ASSUME table' = table
  PROVE  \A x \in Entries : SameAt(x)
BY DEF SameAt

LEMMA SameLinksAt ==
  ASSUME SameLinks, SameHolds
  PROVE  \A x \in Entries : SameAt(x)
BY DEF SameAt, SameLinks, SameHolds

LEMMA PollingSame ==
  ASSUME Typed, NEW e \in Entries, PollingThread(e)
  PROVE  \A x \in Entries : SameAt(x)
<1> DEFINE r == [table[e] EXCEPT !.polling = "ended", !.dying = FALSE]
           s == [table[e] EXCEPT !.dying = FALSE]
<1>1. table[e] \in Readers
  BY DEF Typed, TableTypeOK
<1>2. \A q \in {r, s} : /\ q \in Readers
         /\ q.vHandle = table[e].vHandle /\ q.name = table[e].name /\ q.port = table[e].port
         /\ q.pFeeds = table[e].pFeeds /\ q.pMutex = table[e].pMutex
         /\ q.reference = table[e].reference /\ q.mine = table[e].mine
  BY <1>1 DEF Readers
<1>3. PICK q \in {r, s} : table' = [table EXCEPT ![e] = q]
  BY DEF PollingThread, PollingEnds, PollingSeesCardGone
<1> HIDE DEF r, s
<1>4. table'[e] = q /\ \A x \in Entries \ {e} : table'[x] = table[x]
  BY <1>2, <1>3, OneChanged DEF Typed
<1> QED
  BY <1>2, <1>4 DEF SameAt

\* What goes on beside the threads, and the end of the daemon.
LEMMA HeldBeside ==
  ASSUME Held, Typed', \/ \E e \in Entries : PollingThread(e)
                       \/ \E d \in Devices : Plug(d) \/ Unplug(d)
                       \/ UNCHANGED vars
  PROVE  Held'
<1>1. UNCHANGED threadVars
  BY DEF PollingThread, PollingEnds, PollingSeesCardGone, Plug, Unplug, vars
<1>2. \A x \in Entries : SameThreadsAt(x)
  BY <1>1 DEF SameThreadsAt, Users, Leaving, threadVars
<1>3. \A x \in Entries : SameAt(x)
  BY PollingSame, SameTable DEF Held, Plug, Unplug, vars, tableVars
<1>4. (Alive' => Alive) /\ pc'[Hotplug] = pc[Hotplug] /\ at'[Hotplug] = at[Hotplug]
  BY <1>1 DEF Alive, threadVars
<1> QED
  BY <1>2, <1>3, <1>4, HeldSame

LEMMA HeldEnd ==
  ASSUME Held, Typed', SignalTrap \/ Stop \/ RFCleanupReaders
  PROVE  Held'
<1>1. UNCHANGED <<table, at, wanted>> /\ Alive
  BY DEF SignalTrap, Stop, RFCleanupReaders, tableVars, Alive
<1>2. \A x \in Entries : SameAt(x)
  BY <1>1, SameTable
<1>3. CASE Stop \/ RFCleanupReaders
  <2>1. PICK label \in {"Cleaning", "Exited", "Removing"} : Goto(Main, label)
    BY <1>3 DEF Stop, RFCleanupReaders
  <2>2. pc[Main] \in {"Serving", "Cleaning"}
    BY <1>3 DEF Stop, RFCleanupReaders
  <2>3. OnlyMoves(Main) /\ pc'[Main] = label
    BY <1>1, <2>1, ThreadsApart, MovesBy DEF Held
  <2>4. /\ pc[Main] \notin EndSteps \cup {"InUse"} /\ pc'[Main] \notin EndSteps \cup {"InUse"}
    BY <2>1, <2>2, <2>3 DEF EndSteps
  <2> QED
    BY <1>2, <2>3, <2>4, ThreadsApart, HeldQuiet
<1>4. CASE SignalTrap /\ pc' = pc
  <2>1. \A x \in Entries : SameThreadsAt(x)
    BY <1>1, <1>4 DEF SameThreadsAt, Users, Leaving
  <2> QED
    BY <1>1, <1>2, <1>4, <2>1, HeldSame
<1>5. CASE Goto(Main, "Exited")
  <2>1. OnlyMoves(Main) /\ pc'[Main] = "Exited"
    BY <1>1, <1>5, ThreadsApart, MovesBy DEF Held
  <2>2. ~Alive' /\ pc'[Hotplug] = pc[Hotplug] /\ at'[Hotplug] = at[Hotplug]
    BY <2>1, ThreadsApart DEF Alive, OnlyMoves
  <2>3. ASSUME NEW x \in Entries PROVE HeldAt(x)'
    <3>1. HeldAt(x)
      BY DEF Held
    <3>2. \A c \in Callers : pc'[c] = pc[c] /\ at'[c] = at[c] /\ wanted'[c] = wanted[c]
      BY <2>1, ThreadsApart DEF OnlyMoves
    <3>3. Users(x)' = Users(x)
      BY <3>2 DEF Users
    <3>4. /\ Cardinality(Users(x))' = Cardinality(Users(x)) /\ Used(x)' = Used(x) /\ Counted(x)' = Counted(x)
          /\ Mine(x)' = Mine(x) /\ table' = table
      BY <3>3, <1>1 DEF Used, Counted, Mine
    <3>5. Leaving(x)' = Leaving(x) \ {Main}
      BY <2>1 DEF Leaving, OnlyMoves, EndSteps
    <3>6. \A t \in Leaving(x)' : pc'[t] = pc[t] /\ t \in Leaving(x) /\ t # Main
      BY <3>5, <2>1 DEF OnlyMoves, Leaving
    <3>7. (\A t \in Leaving(x) :
             /\ pc[t] \in GoneSteps => table[x].reference = 0 /\ Leaving(x) = {t}
             /\ pc[t] # "Forget" => Used(x)
             /\ pc[t] = "Forget" => ~Used(x) /\ Counted(x))'
      <4>1. ASSUME NEW t \in Leaving(x)'
            PROVE  /\ pc'[t] \in GoneSteps => table'[x].reference = 0 /\ Leaving(x)' = {t}
                   /\ pc'[t] # "Forget" => Used(x)'
                   /\ pc'[t] = "Forget" => ~Used(x)' /\ Counted(x)'
        BY <3>1, <3>4, <3>5, <3>6 DEF HeldAt
      <4> QED
        BY <4>1
    <3>8. (\A c \in Users(x) : Used(x) /\ table[x].name = wanted[c])'
      BY <3>1, <3>2, <3>3, <3>4 DEF HeldAt, Users
    <3>9. (table[x].reference = Mine(x) + Cardinality(Users(x)))'
      BY <3>1, <3>4 DEF HeldAt
    <3>10. (Used(x) => Counted(x) /\ table[x].name # NULL)' /\ (Counted(x) => table[x].pMutex # 0)'
      BY <3>1, <3>4 DEF HeldAt
    <3> QED
      BY <2>2, <3>7, <3>8, <3>9, <3>10 DEF HeldAt
  <2>4. Filled'
    <3>1. pc[Hotplug] \in FillSteps => at[Hotplug] \in Entries
      BY ThreadsApart DEF Held, Typed, Placed, AtSteps
    <3> QED
      BY <1>2, <2>2, <3>1, FilledKept DEF Held
  <2> QED
    BY <2>3, <2>4 DEF Held
<1>6. SignalTrap => Goto(Main, "Exited") \/ pc' = pc
  BY DEF SignalTrap, Goto
<1> QED
  BY <1>3, <1>4, <1>5, <1>6

\* A removal goes on: its thread is alone with the entry.
LEMMA HeldOnward ==
  ASSUME Held, Typed', NEW t \in Threads, OnlyMoves(t), NEW e \in Entries,
         at[t] = e, at'[t] = e, pc[t] \in EndSteps \ {"Forget"}, pc'[t] \in {"Kill", "Join", "Close"},
         table[e].reference = 0, Leaving(e) = {t}, \A x \in Entries : SameAt(x)
  PROVE  Held'
<1>1. pc[t] \notin FillSteps \cup {"InUse"} /\ pc'[t] \notin FillSteps \cup {"InUse", "Forget"} /\ pc'[t] \in EndSteps
  BY DEF EndSteps, FillSteps
<1>2. ASSUME NEW x \in Entries \ {e} PROVE HeldAt(x)'
  <2>1. SameThreadsAt(x)
    BY <1>1, ThreadsElsewhere
  <2> QED
    BY <2>1, HeldElsewhere DEF Held, OnlyMoves
<1>3. HeldAt(e)'
  <2>1. HeldAt(e) /\ t \in Leaving(e) /\ pc[t] # "Forget" /\ SameAt(e)
    BY DEF Held
  <2>2. Used(e) /\ Used(e)' = Used(e) /\ Counted(e)' = Counted(e) /\ Mine(e)' = Mine(e)
        /\ table'[e].reference = table[e].reference /\ table'[e].name = table[e].name /\ table'[e].pMutex = table[e].pMutex
    BY <2>1 DEF HeldAt, SameAt, Used, Counted, Mine
  <2>3. \A c \in Callers : (pc'[c] = "InUse" /\ at'[c] = e) <=> (pc[c] = "InUse" /\ at[c] = e)
    BY <1>1, ThreadsApart DEF OnlyMoves
  <2>4. Users(e)' = Users(e) /\ \A c \in Users(e) : wanted'[c] = wanted[c]
    BY <2>3, <1>1 DEF Users, OnlyMoves
  <2>5. Leaving(e)' = {t}
    BY <1>1 DEF Leaving, OnlyMoves
  <2>6. (table[e].reference = Mine(e) + Cardinality(Users(e)))'
    BY <2>1, <2>2, <2>4 DEF HeldAt
  <2>7. (\A c \in Users(e) : Used(e) /\ table[e].name = wanted[c])'
    BY <2>1, <2>2, <2>4 DEF HeldAt
  <2>8. (\A u \in Leaving(e) :
           /\ pc[u] \in GoneSteps => table[e].reference = 0 /\ Leaving(e) = {u}
           /\ pc[u] # "Forget" => Used(e)
           /\ pc[u] = "Forget" => ~Used(e) /\ Counted(e))'
    BY <2>2, <2>5, <1>1
  <2> QED
    BY <2>1, <2>2, <2>5, <2>6, <2>7, <2>8 DEF HeldAt
<1>4. Filled'
  <2>1. CASE t = Hotplug
    BY <2>1 DEF Filled, FillSteps
  <2>2. CASE t # Hotplug
    <3>1. pc'[Hotplug] = pc[Hotplug] /\ at'[Hotplug] = at[Hotplug]
          /\ (pc[Hotplug] \in FillSteps => at[Hotplug] \in Entries)
      BY <2>2, ThreadsApart DEF OnlyMoves, Held, Typed, Placed, AtSteps
    <3> QED
      BY <3>1, FilledKept DEF Held
  <2> QED
    BY <2>1, <2>2
<1> QED
  BY <1>2, <1>3, <1>4 DEF Held

\* The count is not 0: the thread goes back to what it was doing.
LEMMA HeldBack ==
  ASSUME Held, Typed', NEW t \in Threads, OnlyMoves(t), NEW e \in Entries,
         at[t] = e, pc[t] = "Tested", pc'[t] \in {"Idle", "Removing"},
         table[e].reference # 0, \A x \in Entries : SameAt(x)
  PROVE  Held'
<1>1. /\ pc[t] \notin FillSteps \cup {"InUse"} /\ pc'[t] \notin FillSteps \cup EndSteps \cup {"InUse"}
      /\ pc[t] \in EndSteps
  BY DEF EndSteps, FillSteps
<1>2. ASSUME NEW x \in Entries \ {e} PROVE HeldAt(x)'
  <2>1. SameThreadsAt(x)
    BY <1>1, ThreadsElsewhere
  <2> QED
    BY <2>1, HeldElsewhere DEF Held, OnlyMoves
<1>3. HeldAt(e)'
  <2>1. HeldAt(e) /\ t \in Leaving(e) /\ SameAt(e)
    BY <1>1 DEF Held, Leaving
  <2>2. Used(e)' = Used(e) /\ Counted(e)' = Counted(e) /\ Mine(e)' = Mine(e)
        /\ table'[e].reference = table[e].reference /\ table'[e].name = table[e].name /\ table'[e].pMutex = table[e].pMutex
    BY <2>1 DEF SameAt, Used, Counted, Mine
  <2>3. \A c \in Callers : (pc'[c] = "InUse" /\ at'[c] = e) <=> (pc[c] = "InUse" /\ at[c] = e)
    BY <1>1, ThreadsApart DEF OnlyMoves
  <2>4. Users(e)' = Users(e) /\ \A c \in Users(e) : wanted'[c] = wanted[c]
    BY <2>3, <1>1 DEF Users, OnlyMoves
  <2>5. Leaving(e)' = Leaving(e) \ {t} /\ \A u \in Leaving(e)' : pc'[u] = pc[u]
    <3>1. \A u \in Threads : (at'[u] = e /\ pc'[u] \in EndSteps) <=> (at[u] = e /\ pc[u] \in EndSteps /\ u # t)
      BY <1>1 DEF OnlyMoves
    <3> QED
      BY <3>1 DEF Leaving, OnlyMoves
  <2>6. (table[e].reference = Mine(e) + Cardinality(Users(e)))'
    BY <2>1, <2>2, <2>4 DEF HeldAt
  <2>7. (\A c \in Users(e) : Used(e) /\ table[e].name = wanted[c])'
    BY <2>1, <2>2, <2>4 DEF HeldAt
  <2>8. (\A u \in Leaving(e) :
           /\ pc[u] \in GoneSteps => table[e].reference = 0 /\ Leaving(e) = {u}
           /\ pc[u] # "Forget" => Used(e)
           /\ pc[u] = "Forget" => ~Used(e) /\ Counted(e))'
    BY <2>1, <2>2, <2>5 DEF HeldAt
  <2> QED
    BY <2>1, <2>2, <2>6, <2>7, <2>8 DEF HeldAt
<1>4. Filled'
  <2>1. CASE t = Hotplug
    BY <2>1, <1>1 DEF Filled
  <2>2. CASE t # Hotplug
    <3>1. pc'[Hotplug] = pc[Hotplug] /\ at'[Hotplug] = at[Hotplug]
          /\ (pc[Hotplug] \in FillSteps => at[Hotplug] \in Entries)
      BY <2>2, ThreadsApart DEF OnlyMoves, Held, Typed, Placed, AtSteps
    <3> QED
      BY <3>1, FilledKept DEF Held
  <2> QED
    BY <2>1, <2>2
<1> QED
  BY <1>2, <1>3, <1>4 DEF Held

LEMMA HeldTest ==
  ASSUME Held, Typed', NEW t \in Threads, UnrefTest(t), hazard' = {}
  PROVE  Held'
<1> DEFINE e == at[t]
<1>1. pc[t] = "Tested" /\ UNCHANGED <<table, at, wanted>> /\ Alive /\ e \in Entries
  BY DEF UnrefTest, tableVars, Held, Typed, Placed, AtSteps, EndSteps
<1>2. \A x \in Entries : SameAt(x)
  BY <1>1, SameTable
<1>3. "Tested" \in EndSteps \ {"Forget"} /\ at'[t] = e
  BY <1>1 DEF EndSteps
<1>4. CASE table[e].reference = 0
  <2>1. Goto(t, "Kill") /\ Leaving(e) = {t}
    BY <1>4 DEF UnrefTest, Wrong
  <2>2. OnlyMoves(t) /\ pc'[t] = "Kill"
    BY <1>1, <2>1, MovesBy DEF Held
  <2> QED
    BY <1>1, <1>2, <1>3, <1>4, <2>1, <2>2, HeldOnward
<1>5. CASE table[e].reference # 0
  <2>1. Goto(t, Returns(t)) /\ Returns(t) \in {"Idle", "Removing"}
    BY <1>5, ReturnsType DEF UnrefTest, Threads
  <2>2. OnlyMoves(t) /\ pc'[t] = Returns(t)
    BY <1>1, <2>1, MovesBy DEF Held
  <2> QED
    BY <1>1, <1>2, <1>5, <2>1, <2>2, HeldBack
<1> QED
  BY <1>4, <1>5

\* A thread past its test is alone with an entry that has no call.
LEMMA GoneAlone ==
  ASSUME Held, NEW t \in Threads, pc[t] \in GoneSteps
  PROVE  /\ at[t] \in Entries /\ table[at[t]].reference = 0 /\ Leaving(at[t]) = {t}
         /\ Users(at[t]) = {} /\ ~table[at[t]].mine /\ table[at[t]] \in Readers
         /\ pc[t] = "Forget" <=> ~Used(at[t])
         /\ Counted(at[t]) /\ table[at[t]].pMutex # 0 /\ HeldAt(at[t])
         /\ pc[Hotplug] \in FillSteps => at[Hotplug] # at[t]
<1> DEFINE e == at[t]
<1>1. e \in Entries /\ table[e] \in Readers
  BY DEF Held, Typed, Placed, AtSteps, GoneSteps, TableTypeOK
<1>2. HeldAt(e) /\ t \in Leaving(e) /\ Typed
  BY <1>1 DEF Held, Leaving, GoneSteps
<1> HIDE DEF e
<1>3. /\ table[e].reference = 0 /\ Leaving(e) = {t} /\ (pc[t] = "Forget" <=> ~Used(e))
      /\ Counted(e) /\ table[e].pMutex # 0
  BY <1>2 DEF HeldAt
<1>4. Users(e) = {} /\ ~table[e].mine
  BY <1>1, <1>2, <1>3, NobodyHas, Zenon
<1>5. pc[Hotplug] \in FillSteps => table[at[Hotplug]].mine
  BY Zenon DEF Held, Filled, FilledAt
<1>6. pc[Hotplug] \in FillSteps => at[Hotplug] # e
  BY <1>4, <1>5, Zenon
<1> QED
  BY <1>1, <1>2, <1>3, <1>4, <1>6, Zenon DEF e

LEMMA KillSame ==
  ASSUME Typed, NEW t \in Threads, RemoveKill(t) \/ RemoveJoin(t)
  PROVE  \A x \in Entries : SameAt(x)
<1> DEFINE e == at[t]
           r == [table[e] EXCEPT !.dying = TRUE]
           s == [table[e] EXCEPT !.polling = "none"]
<1>1. e \in Entries /\ table[e] \in Readers
  BY DEF RemoveKill, RemoveJoin, Typed, Placed, AtSteps, EndSteps, TableTypeOK
<1>2. \A q \in {r, s} : /\ q \in Readers
         /\ q.vHandle = table[e].vHandle /\ q.name = table[e].name /\ q.port = table[e].port
         /\ q.pFeeds = table[e].pFeeds /\ q.pMutex = table[e].pMutex
         /\ q.reference = table[e].reference /\ q.mine = table[e].mine
  BY <1>1 DEF Readers
<1>3. table' = table \/ \E q \in {r, s} : table' = [table EXCEPT ![e] = q]
  BY DEF RemoveKill, RemoveJoin
<1> HIDE DEF r, s
<1>4. ASSUME NEW q \in {r, s}, table' = [table EXCEPT ![e] = q] PROVE \A x \in Entries : SameAt(x)
  <2>1. table'[e] = q /\ \A x \in Entries \ {e} : table'[x] = table[x]
    BY <1>1, <1>2, <1>4, OneChanged DEF Typed
  <2> QED
    BY <1>2, <2>1 DEF SameAt
<1> QED
  BY <1>3, <1>4, SameTable

LEMMA HeldKill ==
  ASSUME Held, Typed', NEW t \in Threads, RemoveKill(t) \/ RemoveJoin(t), NEW e, e = at[t]
  PROVE  Held'
<1>1. /\ pc[t] \in GoneSteps /\ pc[t] \in EndSteps \ {"Forget"} /\ UNCHANGED <<at, wanted>> /\ Alive
  BY DEF RemoveKill, RemoveJoin, EndSteps, GoneSteps
<1>2. e \in Entries /\ table[e].reference = 0 /\ Leaving(e) = {t}
  BY <1>1, GoneAlone
<1>3. PICK label \in {"Join", "Close"} : Goto(t, label)
  BY DEF RemoveKill, RemoveJoin
<1>4. OnlyMoves(t) /\ pc'[t] = label
  BY <1>1, <1>3, MovesBy DEF Held
<1>5. \A x \in Entries : SameAt(x)
  BY KillSame DEF Held
<1>6. at[t] = e /\ at'[t] = e
  BY <1>1
<1> QED
  BY <1>1, <1>2, <1>3, <1>4, <1>5, <1>6, HeldOnward

\* Where the hotplug thread has nothing in hand.
OutSteps == {"Idle", "Stopped", "Rescan", "RescanNew", "Sweep", "Removing", "Add", "Added", "AddFailed", "Ref",
             "Serving", "Cleaning", "Exited"}

LEMMA OutStepsAreQuiet == OutSteps \cap (EndSteps \cup FillSteps \cup {"InUse"}) = {}
BY DEF OutSteps, EndSteps, FillSteps

LEMMA HotplugMoves ==
  ASSUME HPReceive \/ HPRescanUsbBus \/ HPRescanNew \/ HPSweep \/ HPAddEnd
  PROVE  /\ pc[Hotplug] \in OutSteps /\ UNCHANGED <<tableVars, at, wanted, hazard>> /\ Alive
         /\ \E label \in OutSteps : Goto(Hotplug, label)
<1>1. NextEvent \in OutSteps
  BY DEF NextEvent, OutSteps
<1>2. CASE HPReceive
  BY <1>1, <1>2 DEF HPReceive, HPAddDevice, OutSteps
<1>3. CASE HPRescanUsbBus
  BY <1>3 DEF HPRescanUsbBus, OutSteps
<1>4. CASE HPRescanNew
  BY <1>4 DEF HPRescanNew, HPAddDevice, OutSteps
<1>5. CASE HPSweep
  BY <1>1, <1>5 DEF HPSweep, OutSteps
<1>6. CASE HPAddEnd
  <2>1. pc[Hotplug] \in {"Added", "AddFailed"} /\ UNCHANGED <<tableVars, at, wanted, hazard>> /\ Alive
    BY <1>6 DEF HPAddEnd
  <2>2. \A failed \in BOOLEAN : AddEnd(failed) => \E label \in OutSteps : Goto(Hotplug, label)
    BY <1>1 DEF AddEnd, OutSteps
  <2>3. \E failed \in BOOLEAN : AddEnd(failed)
    BY <1>6 DEF HPAddEnd
  <2> QED
    BY <2>1, <2>2, <2>3 DEF OutSteps
<1> QED
  BY <1>2, <1>3, <1>4, <1>5, <1>6

LEMMA HeldHotplug ==
  ASSUME Held, Typed', HPReceive \/ HPRescanUsbBus \/ HPRescanNew \/ HPSweep \/ HPAddEnd
  PROVE  Held'
<1>1. /\ pc[Hotplug] \in OutSteps /\ UNCHANGED <<table, at, wanted>> /\ Alive
      /\ \E label \in OutSteps : Goto(Hotplug, label)
  BY HotplugMoves DEF tableVars
<1>2. PICK label \in OutSteps : Goto(Hotplug, label)
  BY <1>1
<1>3. OnlyMoves(Hotplug) /\ pc'[Hotplug] = label
  BY <1>1, <1>2, ThreadsApart, MovesBy DEF Held
<1>4. \A x \in Entries : SameAt(x)
  BY <1>1, SameTable
<1> QED
  BY <1>1, <1>3, <1>4, OutStepsAreQuiet, ThreadsApart, HeldQuiet

\* The steps of RFAddReader that leave the entries as they are.
LEMMA AddMoves ==
  ASSUME Typed, \/ AddReader /\ AddRefused
                \/ AddSpawn
                \/ AddNextSlot /\ FreeEntries = {}
  PROVE  /\ UNCHANGED <<at, wanted, feeds, mutexes, opened, numReaders, tracker, hazard>>
         /\ pc[Hotplug] \in {"Add", "Spawn", "NextSlot"} /\ Alive
         /\ \E label \in {"AddFailed", "Added", "NextSlot", "Removing"} : Goto(Hotplug, label)
         /\ SameLinks /\ SameHolds
<1>1. CASE AddReader /\ AddRefused
  <2>1. UNCHANGED table
    BY <1>1 DEF AddReader, AddRefused
  <2>2. SameLinks /\ SameHolds
    BY <2>1 DEF SameLinks, SameHolds
  <2> QED
    BY <1>1, <2>2 DEF AddReader, AddRefused, AddFails
<1>2. CASE AddSpawn
  <2>1. PICK ok \in BOOLEAN : SpawnAs(ok)
    BY <1>2, SpawnEffect
  <2>2. SameLinks /\ SameHolds /\ \E label \in {"AddFailed", "Added", "NextSlot", "Removing"} : Goto(Hotplug, label)
    BY <2>1 DEF SpawnAs
  <2> QED
    BY <1>2, <2>2 DEF AddSpawn
<1>3. CASE AddNextSlot /\ FreeEntries = {}
  <2>1. UNCHANGED table
    BY <1>3 DEF AddNextSlot
  <2>2. SameLinks /\ SameHolds
    BY <2>1 DEF SameLinks, SameHolds
  <2> QED
    BY <1>3, <2>2 DEF AddNextSlot
<1> QED
  BY <1>1, <1>2, <1>3

LEMMA HeldAddMoves ==
  ASSUME Held, Typed', \/ AddReader /\ AddRefused
                       \/ AddSpawn
                       \/ AddNextSlot /\ FreeEntries = {}
  PROVE  Held'
<1>1. /\ UNCHANGED <<at, wanted>> /\ pc[Hotplug] \in {"Add", "Spawn", "NextSlot"} /\ Alive
      /\ \E label \in {"AddFailed", "Added", "NextSlot", "Removing"} : Goto(Hotplug, label)
      /\ SameLinks /\ SameHolds
  BY AddMoves DEF Held
<1>2. PICK label \in {"AddFailed", "Added", "NextSlot", "Removing"} : Goto(Hotplug, label)
  BY <1>1
<1>3. OnlyMoves(Hotplug) /\ pc'[Hotplug] = label
  BY <1>1, <1>2, ThreadsApart, MovesBy DEF Held
<1>4. \A x \in Entries : SameAt(x)
  BY <1>1, SameLinksAt
<1>5. pc[Hotplug] \notin EndSteps \cup {"InUse"} /\ pc'[Hotplug] \notin EndSteps \cup {"InUse"} \cup FillSteps
  BY <1>1, <1>2, <1>3 DEF EndSteps, FillSteps
<1> QED
  BY <1>3, <1>4, <1>5, ThreadsApart, HeldQuiet

LEMMA HeldRemoved ==
  ASSUME Held, Typed', NEW t \in {Hotplug, Main}, pc[t] = "Removing", Removed(t), Alive, wanted' = wanted
  PROVE  Held'
<1>1. UNCHANGED <<table, at>> /\ \E label \in {"Cleaning", "AddFailed", "Sweep"} : Goto(t, label)
  BY DEF Removed
<1>2. PICK label \in {"Cleaning", "AddFailed", "Sweep"} : Goto(t, label)
  BY <1>1
<1>3. OnlyMoves(t) /\ pc'[t] = label /\ t \in Threads
  BY <1>1, <1>2, ThreadsApart, MovesBy DEF Held
<1>4. \A x \in Entries : SameAt(x)
  BY <1>1, SameTable
<1>5. pc[t] \notin EndSteps \cup {"InUse"} /\ pc'[t] \notin EndSteps \cup {"InUse"} \cup FillSteps
  BY <1>2, <1>3 DEF EndSteps, FillSteps
<1> QED
  BY <1>3, <1>4, <1>5, HeldQuiet

LEMMA HeldReaderInfo ==
  ASSUME Held, Typed', NEW c \in Callers, NEW e \in Entries, RFReaderInfo(c, e)
  PROVE  Held'
<1>1. /\ pc[c] = "Idle" /\ Goto(c, "Ref") /\ at' = [at EXCEPT ![c] = e] /\ table' = table /\ Alive
      /\ wanted' = [wanted EXCEPT ![c] = table[e].name]
  BY DEF RFReaderInfo, tableVars
<1>2. OnlyMoves(c) /\ pc'[c] = "Ref" /\ c \in Threads /\ c # Hotplug
  BY <1>1, ThreadsApart, MovesBy DEF Held
<1>3. \A x \in Entries : SameAt(x)
  BY <1>1, SameTable
<1>4. pc[c] \notin EndSteps \cup {"InUse"} /\ pc'[c] \notin EndSteps \cup {"InUse"}
  BY <1>1, <1>2 DEF EndSteps
<1> QED
  BY <1>2, <1>3, <1>4, HeldQuiet

\* A step of thread t at entry e.
LEMMA HeldHere ==
  ASSUME Held, Typed', NEW t \in Threads, NEW e \in Entries, OnlyMoves(t),
         pc[t] \in EndSteps \cup {"InUse"} => at[t] = e, pc'[t] \in EndSteps \cup {"InUse"} => at'[t] = e,
         \A x \in Entries \ {e} : table'[x] = table[x], HeldAt(e)', Filled'
  PROVE  Held'
<1>1. ASSUME NEW x \in Entries \ {e} PROVE HeldAt(x)'
  <2>1. SameAt(x) /\ HeldAt(x)
    BY DEF SameAt, Held
  <2>2. SameThreadsAt(x)
    BY ThreadsElsewhere
  <2> QED
    BY <2>1, <2>2, HeldElsewhere DEF OnlyMoves
<1> QED
  BY <1>1 DEF Held

LEMMA FilledBeside ==
  ASSUME Held, NEW t \in Threads \ {Hotplug}, NEW e \in Entries, OnlyMoves(t),
         \A x \in Entries \ {e} : table'[x] = table[x], pc[Hotplug] \in FillSteps /\ at[Hotplug] = e => SameAt(e)
  PROVE  Filled'
<1>1. pc'[Hotplug] = pc[Hotplug] /\ at'[Hotplug] = at[Hotplug]
      /\ (pc[Hotplug] \in FillSteps => at[Hotplug] \in Entries)
  BY ThreadsApart DEF OnlyMoves, Held, Typed, Placed, AtSteps
<1>2. pc[Hotplug] \in FillSteps => SameAt(at[Hotplug])
  BY <1>1 DEF SameAt
<1> QED
  BY <1>1, <1>2, FilledKept DEF Held

LEMMA DecrementEffect ==
  ASSUME Typed, NEW t \in Threads, NEW e \in Entries, UnrefDecrement(t, e), table[e].reference # 0
  PROVE  /\ \A x \in Entries \ {e} : table'[x] = table[x]
         /\ table'[e].reference = table[e].reference - 1
         /\ table'[e].mine = IF t \in Callers THEN table[e].mine ELSE FALSE
         /\ table'[e].vHandle = table[e].vHandle /\ table'[e].library = table[e].library
         /\ table'[e].name = table[e].name /\ table'[e].port = table[e].port
         /\ table'[e].pFeeds = table[e].pFeeds /\ table'[e].pMutex = table[e].pMutex
         /\ Goto(t, "Tested") /\ at' = [at EXCEPT ![t] = e] /\ at'[t] = e
<1> DEFINE own == IF t \in Callers THEN table[e].mine ELSE FALSE
           r == [table[e] EXCEPT !.reference = @ - 1, !.mine = own]
<1>1. table[e] \in Readers /\ table[e].reference - 1 \in Nat
  BY DEF Typed, TableTypeOK, Readers
<1>2. own \in BOOLEAN
  BY <1>1 DEF Readers
<1>3. table' = [table EXCEPT ![e] = r]
  BY DEF UnrefDecrement
<1> HIDE DEF own
<1>4. /\ r \in Readers /\ r.reference = table[e].reference - 1 /\ r.mine = own
      /\ r.vHandle = table[e].vHandle /\ r.library = table[e].library /\ r.name = table[e].name /\ r.port = table[e].port
      /\ r.pFeeds = table[e].pFeeds /\ r.pMutex = table[e].pMutex
  BY <1>1, <1>2 DEF Readers
<1> HIDE DEF r
<1>5. table'[e] = r /\ \A x \in Entries \ {e} : table'[x] = table[x]
  BY <1>3, <1>4, OneChanged DEF Typed
<1>6. Goto(t, "Tested") /\ at' = [at EXCEPT ![t] = e] /\ at'[t] = e
  BY DEF UnrefDecrement, Goto, Typed, ThreadTypeOK
<1> QED
  BY <1>4, <1>5, <1>6 DEF own

LEMMA HeldDecrement ==
  ASSUME Held, Typed', NEW t \in Threads, NEW e \in Entries, UnrefDecrement(t, e), table[e].reference # 0,
         hazard' = {}, OnlyMoves(t), Used(e),
         IF t \in Callers THEN pc[t] = "InUse" /\ at[t] = e ELSE pc[t] = "Removing"
  PROVE  Held'
<1>1. /\ \A x \in Entries \ {e} : table'[x] = table[x]
      /\ table'[e].reference = table[e].reference - 1
      /\ table'[e].mine = (IF t \in Callers THEN table[e].mine ELSE FALSE)
      /\ table'[e].vHandle = table[e].vHandle
      /\ table'[e].name = table[e].name /\ table'[e].port = table[e].port
      /\ table'[e].pFeeds = table[e].pFeeds /\ table'[e].pMutex = table[e].pMutex
      /\ Goto(t, "Tested") /\ at'[t] = e
  BY ZenonT(60), DecrementEffect DEF Held
<1>2. pc'[t] = "Tested" /\ "Tested" \in EndSteps /\ "Tested" \notin GoneSteps \cup FillSteps \cup {"InUse", "Forget"}
  BY <1>1 DEF Goto, Held, Typed, ThreadTypeOK, EndSteps, GoneSteps, FillSteps
<1>3. HeldAt(e) /\ pc[t] \notin EndSteps
  BY DEF Held, EndSteps
<1>4. Used(e)' = Used(e) /\ Counted(e)' = Counted(e)
  BY <1>1 DEF Used, Counted
<1>5. \A u \in Leaving(e) : pc[u] = "Tested"
  BY <1>3 DEF HeldAt, GoneSteps, Leaving
<1>6. Leaving(e)' = Leaving(e) \cup {t} /\ t \notin Leaving(e)
  BY <1>1, <1>2, <1>3 DEF Leaving, OnlyMoves
<1>7. \A u \in Leaving(e)' : pc'[u] = "Tested"
  BY <1>2, <1>5, <1>6 DEF OnlyMoves, Leaving
<1>8. /\ Users(e) \subseteq Callers /\ IsFiniteSet(Users(e))
      /\ Users(e)' = Users(e) \ {t} /\ (t \in Callers => t \in Users(e)) /\ (t \notin Callers => t \notin Users(e))
  <2>1. \A c \in Callers : (pc'[c] = "InUse" /\ at'[c] = e) <=> (pc[c] = "InUse" /\ at[c] = e /\ c # t)
    BY <1>2 DEF OnlyMoves, Threads
  <2> QED
    BY <2>1, UsersFinite DEF Users
<1>9. (table[e].reference = Mine(e) + Cardinality(Users(e)))'
  <2>1. table[e].reference = Mine(e) + Cardinality(Users(e)) /\ table[e].reference \in Nat
        /\ Mine(e) \in {0, 1} /\ table[e].mine \in BOOLEAN
    BY <1>3, NobodyHas DEF HeldAt, Held
  <2>2. CASE t \in Callers
    <3>1. Cardinality(Users(e) \ {t}) = Cardinality(Users(e)) - 1 /\ Cardinality(Users(e)) \in Nat
      BY <1>8, <2>2, FS_RemoveElement, FS_CardinalityType
    <3>2. Mine(e)' = Mine(e)
      BY <1>1, <2>2 DEF Mine
    <3> QED
      BY <1>1, <1>8, <2>1, <3>1, <3>2
  <2>3. CASE t \notin Callers
    <3>1. table[e].mine
      BY <2>3 DEF UnrefDecrement
    <3>2. ~table'[e].mine
      BY <1>1, <2>3
    <3>3. Mine(e) = 1 /\ Mine(e)' = 0
      BY <3>1, <3>2 DEF Mine
    <3>4. Users(e)' = Users(e) /\ Cardinality(Users(e)) \in Nat
      BY <1>8, <2>3, FS_CardinalityType
    <3> QED
      BY <1>1, <2>1, <3>3, <3>4
  <2> QED
    BY <2>2, <2>3
<1>10. HeldAt(e)'
  <2>1. (\A c \in Users(e) : Used(e) /\ table[e].name = wanted[c])'
    BY <1>1, <1>3, <1>4, <1>8 DEF HeldAt, OnlyMoves
  <2>2. (\A u \in Leaving(e) :
           /\ pc[u] \in GoneSteps => table[e].reference = 0 /\ Leaving(e) = {u}
           /\ pc[u] # "Forget" => Used(e)
           /\ pc[u] = "Forget" => ~Used(e) /\ Counted(e))'
    BY <1>2, <1>4, <1>7
  <2> QED
    BY <1>1, <1>3, <1>4, <1>6, <1>9, <2>1, <2>2 DEF HeldAt
<1>11. Filled'
  <2>1. CASE t = Hotplug
    BY <1>2, <2>1 DEF Filled
  <2>2. CASE t # Hotplug
    <3>1. \A x \in {x \in Entries : at[Hotplug] = x /\ pc[Hotplug] \in FillSteps} : table'[x].mine = table[x].mine
      <4>1. CASE t \in Callers
        <5>1. table'[e].mine = table[e].mine
          BY <1>1, <4>1
        <5> QED
          BY <1>1, <5>1
      <4>2. CASE t \notin Callers
        <5>1. t = Main /\ e \notin BeingAdded
          BY <4>2, <2>2 DEF UnrefDecrement, Threads
        <5> QED
          BY <1>1, <5>1 DEF BeingAdded
      <4> QED
        BY <4>1, <4>2
    <3>2. pc'[Hotplug] = pc[Hotplug] /\ at'[Hotplug] = at[Hotplug]
          /\ (pc[Hotplug] \in FillSteps => at[Hotplug] \in Entries)
      BY <2>2, ThreadsApart DEF OnlyMoves, Held, Typed, Placed, AtSteps
    <3>3. ASSUME pc[Hotplug] \in FillSteps PROVE FilledAt(at[Hotplug])'
      <4> DEFINE x == at[Hotplug]
      <4>1. /\ table'[x].mine = table[x].mine /\ table'[x].name = table[x].name /\ table'[x].port = table[x].port
            /\ table'[x].vHandle = table[x].vHandle /\ table'[x].pFeeds = table[x].pFeeds
        <5>1. x \in Entries
          BY <3>2, <3>3
        <5>2. table'[x].mine = table[x].mine
          BY <5>1, <3>1, <3>3
        <5> QED
          BY <1>1, <5>1, <5>2
      <4>2. FilledAt(x)
        BY <3>3 DEF Held, Filled
      <4> QED
        BY <3>2, <4>1, <4>2 DEF FilledAt, Used
    <3> QED
      BY <3>2, <3>3 DEF Filled
  <2> QED
    BY <2>1, <2>2
<1>12. pc[t] \in EndSteps \cup {"InUse"} => at[t] = e
  BY <1>3
<1> QED
  BY <1>1, <1>10, <1>11, <1>12, HeldHere

LEMMA HeldRemoveNext ==
  ASSUME Held, Typed', NEW t \in Threads, RemoveNext(t), hazard' = {}
  PROVE  Held'
<1> DEFINE S == Matching(removal[t])
           e == Min(S)
<1>1. t \in {Hotplug, Main} /\ pc[t] = "Removing" /\ Alive /\ wanted' = wanted /\ t \notin Callers
  BY ThreadsApart DEF RemoveNext
<1>2. CASE S = {} \/ table[e].reference = 0
  <2>1. Removed(t)
    BY <1>2 DEF RemoveNext
  <2> QED
    BY <1>1, <2>1, HeldRemoved
<1>3. CASE ~(S = {} \/ table[e].reference = 0)
  <2>1. UnrefDecrement(t, e)
    BY <1>3 DEF RemoveNext
  <2>2. e \in S
    <3> HIDE DEF S
    <3> QED
      BY <1>3, FirstEntry, MatchingInEntries DEF S
  <2>3. e \in Entries /\ Used(e) /\ table[e].reference # 0
    BY <1>3, <2>2 DEF Matching, Matches
  <2> HIDE DEF e
  <2>4. Goto(t, "Tested") /\ at' = [at EXCEPT ![t] = e]
    BY <2>1 DEF UnrefDecrement, Goto
  <2>5. OnlyMoves(t)
    BY <1>1, <2>4, MovesBy DEF Held
  <2> QED
    BY <1>1, <2>1, <2>3, <2>5, HeldDecrement
<1> QED
  BY <1>2, <1>3

LEMMA HeldUnref ==
  ASSUME Held, Typed', NEW c \in Callers, UnrefReader(c), hazard' = {}
  PROVE  Held'
<1> DEFINE e == at[c]
<1>1. pc[c] = "InUse" /\ Alive /\ wanted' = [wanted EXCEPT ![c] = NULL] /\ c \in Threads /\ c # Main
  BY ThreadsApart DEF UnrefReader
<1>2. e \in Entries /\ c \in Users(e)
  BY <1>1 DEF Held, Typed, Placed, AtSteps, Users
<1>3. Used(e) /\ table[e].reference # 0
  BY <1>2, NobodyHas DEF Held, HeldAt
<1>4. UnrefDecrement(c, e)
  BY <1>3 DEF UnrefReader
<1>5. Goto(c, "Tested") /\ at' = [at EXCEPT ![c] = e]
  BY <1>4 DEF UnrefDecrement, Goto
<1>6. OnlyMoves(c)
  BY <1>1, <1>5, MovesBy DEF Held
<1> QED
  BY <1>1, <1>2, <1>3, <1>4, <1>6, HeldDecrement

LEMMA RefEffect ==
  ASSUME Typed, NEW c \in Callers, RefReader(c)
  PROVE  /\ at[c] \in Entries /\ \A x \in Entries \ {at[c]} : table'[x] = table[x]
         /\ table'[at[c]].reference = table[at[c]].reference + 1
         /\ table'[at[c]].mine = table[at[c]].mine
         /\ table'[at[c]].vHandle = table[at[c]].vHandle /\ table'[at[c]].library = table[at[c]].library
         /\ table'[at[c]].name = table[at[c]].name /\ table'[at[c]].port = table[at[c]].port
         /\ table'[at[c]].pFeeds = table[at[c]].pFeeds /\ table'[at[c]].pMutex = table[at[c]].pMutex
         /\ Goto(c, "InUse") /\ at' = at /\ wanted' = wanted /\ pc[c] = "Ref" /\ Alive
<1> DEFINE e == at[c]
           r == [table[e] EXCEPT !.reference = @ + 1]
<1>1. Goto(c, "InUse") /\ at' = at /\ wanted' = wanted /\ pc[c] = "Ref" /\ Alive /\ table' = [table EXCEPT ![e] = r]
  BY DEF RefReader
<1>2. e \in Entries /\ table[e] \in Readers
  BY <1>1 DEF Typed, Placed, AtSteps, TableTypeOK, Threads
<1>3. /\ r \in Readers /\ r.reference = table[e].reference + 1 /\ r.mine = table[e].mine
      /\ r.vHandle = table[e].vHandle /\ r.library = table[e].library /\ r.name = table[e].name /\ r.port = table[e].port
      /\ r.pFeeds = table[e].pFeeds /\ r.pMutex = table[e].pMutex
  BY <1>2 DEF Readers
<1> HIDE DEF r, e
<1>4. table'[e] = r /\ \A x \in Entries \ {e} : table'[x] = table[x]
  BY <1>1, <1>2, <1>3, OneChanged DEF Typed
<1> QED
  BY <1>1, <1>2, <1>3, <1>4 DEF e

LEMMA HeldRef ==
  ASSUME Held, Typed', NEW c \in Callers, RefReader(c), hazard' = {}, NEW e, e = at[c]
  PROVE  Held'
<1>1. /\ e \in Entries /\ \A x \in Entries \ {e} : table'[x] = table[x]
      /\ table'[e].reference = table[e].reference + 1
      /\ table'[e].mine = table[e].mine
      /\ table'[e].vHandle = table[e].vHandle
      /\ table'[e].name = table[e].name /\ table'[e].port = table[e].port
      /\ table'[e].pFeeds = table[e].pFeeds /\ table'[e].pMutex = table[e].pMutex
      /\ Goto(c, "InUse") /\ at' = at /\ wanted' = wanted /\ pc[c] = "Ref" /\ Alive
  BY RefEffect DEF Held
<1>2. table[e].reference # 0 /\ Used(e) /\ table[e].name = wanted[c]
  BY DEF RefReader, Wrong
<1>3. OnlyMoves(c) /\ pc'[c] = "InUse" /\ c \in Threads /\ c # Hotplug
  BY <1>1, ThreadsApart, MovesBy DEF Held
<1>4. HeldAt(e) /\ pc[c] \notin EndSteps \cup {"InUse"} /\ "InUse" \notin EndSteps
  BY <1>1 DEF Held, EndSteps
<1>5. Used(e)' = Used(e) /\ Counted(e)' = Counted(e) /\ Mine(e)' = Mine(e)
  BY <1>1 DEF Used, Counted, Mine
<1>6. Leaving(e)' = Leaving(e) /\ \A u \in Leaving(e) : pc'[u] = pc[u]
  <2>1. \A u \in Threads : (at'[u] = e /\ pc'[u] \in EndSteps) <=> (at[u] = e /\ pc[u] \in EndSteps)
    BY <1>3, <1>4 DEF OnlyMoves
  <2> QED
    BY <2>1, <1>4, <1>3 DEF Leaving, OnlyMoves
<1>7. Users(e)' = Users(e) \cup {c} /\ c \notin Users(e)
  <2>1. \A d \in Callers : (pc'[d] = "InUse" /\ at'[d] = e) <=> ((pc[d] = "InUse" /\ at[d] = e) \/ d = c)
    BY <1>1, <1>3 DEF OnlyMoves, Threads
  <2> QED
    BY <2>1, <1>4 DEF Users
<1>8. (table[e].reference = Mine(e) + Cardinality(Users(e)))'
  <2>1. table[e].reference = Mine(e) + Cardinality(Users(e)) /\ Mine(e) \in {0, 1} /\ table[e].reference \in Nat
    BY <1>1, <1>4, NobodyHas DEF HeldAt, Held
  <2>2. Cardinality(Users(e) \cup {c}) = Cardinality(Users(e)) + 1 /\ Cardinality(Users(e)) \in Nat
    BY <1>1, <1>7, UsersFinite, FS_AddElement
  <2> QED
    BY <1>1, <1>5, <1>7, <2>1, <2>2
<1>9. HeldAt(e)'
  <2>1. (\A d \in Users(e) : Used(e) /\ table[e].name = wanted[d])'
    BY <1>1, <1>2, <1>4, <1>5, <1>7 DEF HeldAt
  <2>2. (\A u \in Leaving(e) :
           /\ pc[u] \in GoneSteps => table[e].reference = 0 /\ Leaving(e) = {u}
           /\ pc[u] # "Forget" => Used(e)
           /\ pc[u] = "Forget" => ~Used(e) /\ Counted(e))'
    BY <1>2, <1>4, <1>5, <1>6 DEF HeldAt
  <2>3. table'[e].reference # 0
    BY <1>1, <1>4, NobodyHas DEF Held
  <2> QED
    BY <1>1, <1>4, <1>5, <1>6, <1>8, <2>1, <2>2, <2>3 DEF HeldAt
<1>10. Filled'
  <2>1. pc'[Hotplug] = pc[Hotplug] /\ at'[Hotplug] = at[Hotplug]
        /\ (pc[Hotplug] \in FillSteps => at[Hotplug] \in Entries)
    BY <1>3, ThreadsApart DEF OnlyMoves, Held, Typed, Placed, AtSteps
  <2>2. ASSUME pc[Hotplug] \in FillSteps PROVE FilledAt(at[Hotplug])'
    <3> DEFINE x == at[Hotplug]
    <3>1. /\ table'[x].mine = table[x].mine /\ table'[x].name = table[x].name /\ table'[x].port = table[x].port
          /\ table'[x].vHandle = table[x].vHandle /\ table'[x].pFeeds = table[x].pFeeds
      BY <1>1, <2>1, <2>2
    <3>2. FilledAt(x)
      BY <2>2 DEF Held, Filled
    <3> QED
      BY <2>1, <3>1, <3>2 DEF FilledAt, Used
  <2> QED
    BY <2>1, <2>2 DEF Filled
<1>11. pc[c] \in EndSteps \cup {"InUse"} => at[c] = e
  OBVIOUS
<1>12. at'[c] = e
  BY <1>1
<1> QED
  BY <1>1, <1>3, <1>9, <1>10, <1>11, <1>12, HeldHere

\* A removal has the entry for itself.
LEMMA CloseEffect ==
  ASSUME Held, NEW t \in Threads, RemoveClose(t)
  PROVE  LET e == at[t]
         IN  /\ \A x \in Entries \ {e} : table'[x] = table[x]
             /\ table'[e].vHandle = NULL /\ table'[e].name = NULL
             /\ table'[e].library = table[e].library /\ table'[e].port = table[e].port
             /\ table'[e].pFeeds = table[e].pFeeds /\ table'[e].pMutex = table[e].pMutex
             /\ table'[e].reference = table[e].reference /\ table'[e].mine = table[e].mine
             /\ opened' = IF LastFeed(e) THEN [opened EXCEPT ![table[e].vHandle] = @ - 1] ELSE opened
             /\ Used(e) /\ Goto(t, "Forget") /\ UNCHANGED <<at, wanted, feeds, mutexes, numReaders, hazard>>
             /\ pc[t] = "Close" /\ pc[t] \in GoneSteps /\ Alive
<1> DEFINE e == at[t]
           r == [table[e] EXCEPT !.isOpen = FALSE, !.vHandle = NULL, !.name = NULL]
<1>1. pc[t] = "Close" /\ pc[t] \in GoneSteps /\ Alive /\ UNCHANGED <<at, wanted, feeds, mutexes, numReaders, hazard>>
  BY DEF RemoveClose, GoneSteps, EndSteps
<1>2. e \in Entries /\ Used(e) /\ table[e] \in Readers /\ table[e].pFeeds # 0 /\ table[e].pMutex # 0
  BY <1>1, GoneAlone DEF Counted
<1>3. /\ table' = [table EXCEPT ![e] = r] /\ Goto(t, "Forget")
      /\ opened' = (IF LastFeed(e) THEN [opened EXCEPT ![table[e].vHandle] = @ - 1] ELSE opened)
  BY <1>2 DEF RemoveClose
<1>4. /\ r \in Readers /\ r.reference = table[e].reference /\ r.mine = table[e].mine
      /\ r.vHandle = NULL /\ r.library = table[e].library /\ r.name = NULL /\ r.port = table[e].port
      /\ r.pFeeds = table[e].pFeeds /\ r.pMutex = table[e].pMutex
  BY <1>2 DEF Readers
<1> HIDE DEF r, e
<1>5. table'[e] = r /\ \A x \in Entries \ {e} : table'[x] = table[x]
  BY <1>2, <1>3, <1>4, OneChanged DEF Held, Typed
<1>6. /\ \A x \in Entries \ {e} : table'[x] = table[x]
      /\ table'[e].vHandle = NULL /\ table'[e].name = NULL
      /\ table'[e].library = table[e].library /\ table'[e].port = table[e].port
      /\ table'[e].pFeeds = table[e].pFeeds /\ table'[e].pMutex = table[e].pMutex
      /\ table'[e].reference = table[e].reference /\ table'[e].mine = table[e].mine
  BY <1>4, <1>5
<1> QED
  BY <1>1, <1>2, <1>3, <1>6 DEF e

LEMMA ForgetEffect ==
  ASSUME Held, NEW t \in Threads, RemoveForget(t)
  PROVE  LET e == at[t]
             m == table[e].pMutex
             f == table[e].pFeeds
         IN  /\ \A x \in Entries \ {e} : table'[x] = table[x]
             /\ table'[e].vHandle = NULL /\ table'[e].name = table[e].name
             /\ table'[e].library = table[e].library /\ table'[e].port = 0
             /\ table'[e].pFeeds = IF feeds[f] = 1 THEN 0 ELSE f
             /\ table'[e].pMutex = IF mutexes[m] = 1 THEN 0 ELSE m
             /\ table'[e].reference = table[e].reference /\ table'[e].mine = table[e].mine
             /\ mutexes' = [mutexes EXCEPT ![m] = @ - 1] /\ feeds' = [feeds EXCEPT ![f] = @ - 1]
             /\ numReaders' = numReaders - 1
             /\ Goto(t, Returns(t)) /\ UNCHANGED <<at, wanted, opened, hazard>>
             /\ pc[t] = "Forget" /\ pc[t] \in GoneSteps /\ Alive
<1> DEFINE e == at[t]
           m == table[e].pMutex
           f == table[e].pFeeds
           m1 == IF mutexes[m] = 1 THEN 0 ELSE m
           f1 == IF feeds[f] = 1 THEN 0 ELSE f
           r == [table[e] EXCEPT !.pMutex = m1, !.pFeeds = f1, !.port = 0, !.dying = FALSE, !.vHandle = NULL]
<1>1. /\ pc[t] = "Forget" /\ pc[t] \in GoneSteps /\ Alive /\ UNCHANGED <<at, wanted, opened, hazard>>
      /\ mutexes' = [mutexes EXCEPT ![m] = @ - 1] /\ feeds' = [feeds EXCEPT ![f] = @ - 1]
      /\ numReaders' = numReaders - 1 /\ Goto(t, Returns(t))
  BY DEF RemoveForget, GoneSteps, EndSteps
<1>2. e \in Entries /\ table[e] \in Readers /\ m \in Entries \cup {0} /\ f \in Entries \cup {0}
  <2>1. e \in Entries /\ table[e] \in Readers
    BY <1>1, GoneAlone
  <2> QED
    BY <2>1 DEF Readers
<1>3. table' = [table EXCEPT ![e] = r]
  <2>1. table' = [table EXCEPT ![e] = [table[e] EXCEPT !.pMutex = m1, !.pFeeds = f1, !.port = 0,
                                          !.dying = FALSE, !.vHandle = NULL]]
    BY DEF RemoveForget
  <2> QED
    BY <2>1
<1>4. m1 \in Entries \cup {0} /\ f1 \in Entries \cup {0}
  BY <1>2
<1> HIDE DEF m1, f1
<1>5. /\ r \in Readers /\ r.reference = table[e].reference /\ r.mine = table[e].mine
      /\ r.vHandle = NULL /\ r.library = table[e].library /\ r.name = table[e].name /\ r.port = 0
      /\ r.pFeeds = f1 /\ r.pMutex = m1
  BY <1>2, <1>4 DEF Readers
<1> HIDE DEF r, e
<1>6. table'[e] = r /\ \A x \in Entries \ {e} : table'[x] = table[x]
  BY <1>2, <1>3, <1>5, OneChanged DEF Held, Typed
<1>7. /\ \A x \in Entries \ {e} : table'[x] = table[x]
      /\ table'[e].vHandle = NULL /\ table'[e].name = table[e].name
      /\ table'[e].library = table[e].library /\ table'[e].port = 0
      /\ table'[e].pFeeds = f1 /\ table'[e].pMutex = m1
      /\ table'[e].reference = table[e].reference /\ table'[e].mine = table[e].mine
  BY <1>5, <1>6
<1> QED
  BY <1>1, <1>2, <1>7 DEF e, f1, m1

\* The last two steps of a removal.
LEMMA HeldClose ==
  ASSUME Held, Typed', NEW t \in Threads, RemoveClose(t) \/ RemoveForget(t), NEW e, e = at[t]
  PROVE  Held'
<1>1. /\ \A x \in Entries \ {e} : table'[x] = table[x]
      /\ table'[e].vHandle = NULL
      /\ table'[e].reference = table[e].reference /\ table'[e].mine = table[e].mine
      /\ UNCHANGED <<at, wanted>> /\ pc[t] \in GoneSteps /\ Alive
  BY CloseEffect, ForgetEffect
<1>2. /\ e \in Entries /\ table[e].reference = 0 /\ Leaving(e) = {t}
      /\ Users(e) = {} /\ ~table[e].mine /\ HeldAt(e)
      /\ Counted(e) /\ table[e].pMutex # 0
      /\ pc[Hotplug] \in FillSteps => at[Hotplug] # e
  BY <1>1, GoneAlone
<1>3. PICK label \in {"Forget", "Idle", "Removing"} :
        /\ Goto(t, label)
        /\ IF label = "Forget"
           THEN table'[e].port = table[e].port /\ table'[e].pFeeds = table[e].pFeeds /\ table'[e].pMutex = table[e].pMutex
           ELSE table'[e].port = 0
  <2>1. CASE RemoveClose(t)
    <3>1. /\ Goto(t, "Forget")
          /\ table'[e].port = table[e].port /\ table'[e].pFeeds = table[e].pFeeds /\ table'[e].pMutex = table[e].pMutex
      BY <2>1, CloseEffect
    <3> QED
      BY <3>1
  <2>2. CASE RemoveForget(t)
    <3>1. Goto(t, Returns(t)) /\ Returns(t) \in {"Idle", "Removing"} /\ table'[e].port = 0
      BY <2>2, ForgetEffect, ReturnsType DEF Threads
    <3> QED
      BY <3>1
  <2> QED
    BY <2>1, <2>2
<1>4. OnlyMoves(t) /\ pc'[t] = label
  BY <1>1, <1>3, MovesBy DEF Held
<1>5. /\ pc[t] \in EndSteps /\ pc[t] # "InUse" /\ label \notin {"InUse"} \cup FillSteps
      /\ label \in EndSteps <=> label = "Forget"
  BY <1>1, <1>3 DEF GoneSteps, EndSteps, FillSteps
<1>6. Users(e)' = {}
  <2>1. \A c \in Callers : ~(pc'[c] = "InUse" /\ at'[c] = e)
    BY <1>1, <1>2, <1>4, <1>5 DEF Users, OnlyMoves, Threads
  <2> QED
    BY <2>1 DEF Users
<1>7. Leaving(e)' = IF label = "Forget" THEN {t} ELSE {}
  <2>1. \A u \in Threads : (at'[u] = e /\ pc'[u] \in EndSteps) <=> (u = t /\ label = "Forget")
    BY <1>1, <1>2, <1>4, <1>5 DEF Leaving, OnlyMoves
  <2> QED
    BY <2>1 DEF Leaving
<1>8. ~Used(e)' /\ (label = "Forget" => Counted(e)' /\ table'[e].pMutex # 0) /\ (label # "Forget" => ~Counted(e)')
  BY <1>1, <1>2, <1>3 DEF Used, Counted
<1>9. HeldAt(e)'
  <2>1. Mine(e)' = 0 /\ table'[e].reference = 0
    BY <1>1, <1>2 DEF Mine
  <2>2. Cardinality(Users(e)') = 0
    BY <1>6, FS_EmptySet
  <2>3. (table[e].reference = Mine(e) + Cardinality(Users(e)))'
    BY <2>1, <2>2
  <2>4. (\A u \in Leaving(e) :
           /\ pc[u] \in GoneSteps => table[e].reference = 0 /\ Leaving(e) = {u}
           /\ pc[u] # "Forget" => Used(e)
           /\ pc[u] = "Forget" => ~Used(e) /\ Counted(e))'
    BY <1>4, <1>7, <1>8, <2>1
  <2>5. (\A c \in Users(e) : Used(e) /\ table[e].name = wanted[c])'
    BY <1>6
  <2> QED
    BY <1>3, <1>8, <2>3, <2>4, <2>5 DEF HeldAt
<1>10. Filled'
  <2>1. CASE t = Hotplug
    BY <2>1, <1>4, <1>5 DEF Filled
  <2>2. CASE t # Hotplug
    <3> QED
      BY <1>1, <1>2, <1>4, <2>2, FilledBeside
  <2> QED
    BY <2>1, <2>2
<1>11. at[t] = e /\ at'[t] = e
  BY <1>1
<1> QED
  BY <1>1, <1>2, <1>4, <1>9, <1>10, <1>11, HeldHere

\* RFAddReader takes or fills an entry that looks free.
LEMMA HeldFresh ==
  ASSUME Held, Typed', NEW e \in Entries, OnlyMoves(Hotplug), ~Used(e), Leaving(e) = {},
         pc[Hotplug] \notin EndSteps \cup {"InUse"}, pc'[Hotplug] \notin EndSteps \cup {"InUse"},
         \A x \in Entries \ {e} : table'[x] = table[x],
         table'[e].reference = 1, table'[e].mine,
         table'[e].vHandle # NULL => table'[e].port # 0 /\ table'[e].pFeeds # 0 /\ table'[e].name # NULL,
         table'[e].pFeeds # 0 => table'[e].pMutex # 0,
         Filled'
  PROVE  Held'
<1>1. SameThreadsAt(e) /\ Users(e) = {}
  BY ThreadsApart, ThreadsElsewhere, NobodyHas DEF Held
<1>2. Users(e)' = {} /\ Leaving(e)' = {}
  BY <1>1 DEF SameThreadsAt
<1>3. Cardinality(Users(e)') = 0 /\ Mine(e)' = 1
  BY <1>2, FS_EmptySet DEF Mine
<1>4. HeldAt(e)'
  <2>1. (table[e].reference = Mine(e) + Cardinality(Users(e)))'
    BY <1>3
  <2>2. (Used(e) => Counted(e) /\ table[e].name # NULL)' /\ (Counted(e) => table[e].pMutex # 0)'
    BY DEF Used, Counted
  <2>3. /\ (\A c \in Users(e) : Used(e) /\ table[e].name = wanted[c])'
        /\ (\A t \in Leaving(e) :
              /\ pc[t] \in GoneSteps => table[e].reference = 0 /\ Leaving(e) = {t}
              /\ pc[t] # "Forget" => Used(e)
              /\ pc[t] = "Forget" => ~Used(e) /\ Counted(e))'
    BY <1>2
  <2> QED
    BY <2>1, <2>2, <2>3 DEF HeldAt
<1> QED
  BY <1>4, ThreadsApart, HeldHere

\* The reader that is being added has no call and no removal yet.
LEMMA FilledAlone ==
  ASSUME Held, pc[Hotplug] \in FillSteps
  PROVE  /\ at[Hotplug] \in Entries /\ FilledAt(at[Hotplug]) /\ HeldAt(at[Hotplug])
         /\ ~Used(at[Hotplug]) => Leaving(at[Hotplug]) = {} /\ table[at[Hotplug]].reference = 1
<1> DEFINE e == at[Hotplug]
<1>1. e \in Entries /\ FilledAt(e) /\ HeldAt(e)
  BY ThreadsApart DEF Held, Filled, Typed, Placed, AtSteps
<1>2. table[e].reference # 0 /\ table[e].mine
  <2> HIDE DEF e
  <2> QED
    BY <1>1, NobodyHas DEF Held, FilledAt
<1>3. ASSUME ~Used(e) PROVE Leaving(e) = {}
  <2>1. \A t \in Leaving(e) : pc[t] = "Forget"
    BY <1>1, <1>3 DEF HeldAt
  <2>2. "Forget" \in GoneSteps
    BY DEF GoneSteps, EndSteps
  <2> QED
    BY <1>1, <1>2, <2>1, <2>2 DEF HeldAt
<1>4. ASSUME ~Used(e) PROVE table[e].reference = 1
  <2>1. Users(e) = {}
    BY <1>1, <1>4, NobodyHas DEF Held
  <2>2. Cardinality(Users(e)) = 0 /\ Mine(e) = 1
    BY <1>2, <2>1, FS_EmptySet DEF Mine
  <2> QED
    BY <1>1, <2>2 DEF HeldAt
<1> QED
  BY <1>1, <1>3, <1>4

LEMMA NewNames ==
  ASSUME NEW d \in Devices, NEW digit \in Digits, NEW slot \in Nat, slot < Slots[d]
  PROVE  LET n == [base |-> ReaderName[d], digit |-> digit, slot |-> slot]
         IN  n \in Names /\ n # NULL
<1>1. ReaderName[d] \in Bases
  BY DEF Bases
<1>2. slot \in 0..(Slots[d] - 1)
  BY ReaderFactoryAssumption
<1>3. slot \in UNION {0..Slots[x] - 1 : x \in Devices}
  BY <1>2
<1>4. [base |-> ReaderName[d], digit |-> digit, slot |-> slot] \in Names
  BY <1>1, <1>3 DEF Names
<1> QED
  BY <1>4, NullAssumption

LEMMA HeldTake ==
  ASSUME Held, Typed', AddReader, ~AddRefused, hazard' = {}
  PROVE  Held'
<1>1. pc[Hotplug] = "Add" /\ Alive /\ wanted' = wanted
  BY DEF AddReader
<1>2. PICK e, parent \in Entries \cup {0}, digit \in Digits : Take(e, digit, parent)
  BY AddReaderEffect DEF Held
<1>3. /\ e \in Entries /\ ~Used(e) /\ Leaving(e) = {}
      /\ \A x \in Entries \ {e} : table'[x] = table[x]
      /\ table'[e].vHandle = NULL /\ table'[e].port = adding.port
      /\ table'[e].name = [base |-> ReaderName[adding.device], digit |-> digit, slot |-> 0]
      /\ table'[e].reference = 1 /\ table'[e].mine /\ table'[e].pFeeds = 0
      /\ at' = [at EXCEPT ![Hotplug] = e] /\ Goto(Hotplug, "Share")
  BY <1>2 DEF Take, FreeEntries
<1>4. OnlyMoves(Hotplug) /\ pc'[Hotplug] = "Share"
  BY <1>1, <1>3, ThreadsApart, MovesBy DEF Held
<1>5. at'[Hotplug] = e
  BY <1>3, ThreadsApart DEF Held, Typed, ThreadTypeOK
<1>6. adding \in NewAdding /\ adding.port # 0
  BY <1>1, AddingType, EntriesAreNumbers DEF AddSteps, Held, NewAdding
<1>7. table'[e].name # NULL
  <2>1. adding.device \in Devices /\ 0 < Slots[adding.device]
    BY <1>6, ReaderFactoryAssumption DEF NewAdding
  <2> QED
    BY <1>3, <2>1, NewNames
<1>8. Filled'
  BY <1>3, <1>4, <1>5, <1>6, <1>7 DEF Filled, FilledAt, Used
<1>9. {"Add", "Share"} \cap (EndSteps \cup {"InUse"}) = {}
  BY DEF EndSteps
<1> QED
  BY <1>1, <1>3, <1>4, <1>8, <1>9, HeldFresh

\* What a reader takes from its parent is still there.
LEMMA ParentThere ==
  ASSUME Held, Alive, NEW parent \in Entries, ~ParentGone(parent)
  PROVE  /\ Used(parent) /\ Leaving(parent) = {} /\ Counted(parent) /\ HeldAt(parent)
         /\ table[parent].pFeeds # 0 /\ table[parent].pMutex # 0 /\ table[parent].port # 0
         /\ table[parent].name # NULL /\ table[parent].name \in Names /\ table[parent].reference # 0
<1>1. Used(parent) /\ Leaving(parent) = {} /\ HeldAt(parent)
  BY EntriesAreNumbers DEF ParentGone, Held
<1>2. table[parent] \in Readers
  BY DEF Held, Typed, TableTypeOK
<1>3. table[parent].name \in Names \cup {NULL}
  BY <1>2 DEF Readers
<1>4. Counted(parent) /\ table[parent].name # NULL /\ table[parent].pMutex # 0
  BY <1>1 DEF HeldAt
<1> QED
  BY <1>1, <1>3, <1>4 DEF Counted, HeldAt

\* With its parent there, the reader shares what it has to.
LEMMA ShareHeld ==
  ASSUME Held, AddShare, hazard' = {}
  PROVE  LET e == at[Hotplug]
             parent == adding.parent
         IN  /\ pc[Hotplug] = "Share" /\ Alive /\ e \in Entries /\ adding \in NewAdding /\ hazard = {}
             /\ UNCHANGED <<opened, at, wanted, adding, tracker, removal>>
             /\ parent = 0 \/ (parent \in Entries /\ ~ParentGone(parent))
             /\ \E f, m \in Entries : ShareInto(f, m, parent, e, adding.library \in ThreadSafe, table[e])
<1> DEFINE e == at[Hotplug]
           parent == adding.parent
           safe == adding.library \in ThreadSafe
<1>1. /\ pc[Hotplug] = "Share" /\ Alive /\ ShareFrom(parent, e, safe, table[e])
      /\ UNCHANGED <<opened, at, wanted, adding, tracker, removal>>
  BY DEF AddShare, hotplugVars
<1>2. hazard = {} /\ ~ParentGone(parent)
  BY DEF AddShare, Wrong
<1>3. e \in Entries /\ table[e] \in Readers
  BY <1>1, FilledAlone DEF FillSteps, Held, Typed, TableTypeOK
<1>4. adding \in NewAdding /\ parent \in Entries \cup {0} /\ safe \in BOOLEAN
  BY <1>1, AddingType DEF AddSteps, FillSteps, Held, NewAdding
<1>5. ~(parent # 0 /\ (table[parent].pFeeds = 0 \/ table[parent].pMutex = 0))
  <2> HIDE DEF parent
  <2> QED
    BY <1>1, <1>2, <1>4, ParentThere
<1>6. \E f, m \in Entries : ShareInto(f, m, parent, e, safe, table[e])
  <2> HIDE DEF e, safe, parent
  <2> QED
    BY <1>1, <1>3, <1>4, <1>5, ShareEffect DEF Held, Typed
<1> QED
  BY <1>1, <1>2, <1>3, <1>4, <1>6

LEMMA HeldShare ==
  ASSUME Held, Typed', AddShare, hazard' = {}, NEW e, e = at[Hotplug], NEW parent, parent = adding.parent
  PROVE  Held'
<1>1. /\ pc[Hotplug] = "Share" /\ Alive /\ e \in Entries
      /\ UNCHANGED <<at, wanted, adding>>
      /\ parent = 0 \/ (parent \in Entries /\ ~ParentGone(parent))
      /\ \E f, m \in Entries : ShareInto(f, m, parent, e, adding.library \in ThreadSafe, table[e])
  BY ShareHeld
<1>2. PICK f, m \in Entries : ShareInto(f, m, parent, e, adding.library \in ThreadSafe, table[e])
  BY <1>1
<1>3. f # 0 /\ m # 0
  BY EntriesAreNumbers
<1>4. /\ ~Used(e) /\ Leaving(e) = {} /\ table[e].reference = 1 /\ table[e].mine
      /\ table[e].name # NULL /\ table[e].port # 0
  BY <1>1, FilledAlone DEF FillSteps, FilledAt
<1>5. /\ \A x \in Entries \ {e} : table'[x] = table[x]
      /\ table'[e].pFeeds = f /\ table'[e].pMutex = m
      /\ table'[e].name = table[e].name /\ table'[e].port = table[e].port
      /\ table'[e].reference = table[e].reference /\ table'[e].mine = table[e].mine
      /\ Goto(Hotplug, "Initialize")
  BY <1>2 DEF ShareInto
<1>6. OnlyMoves(Hotplug) /\ pc'[Hotplug] = "Initialize"
  BY <1>1, <1>5, ThreadsApart, MovesBy DEF Held
<1>7. table'[e].mine
  BY <1>4, <1>5
<1>8. Filled'
  BY <1>1, <1>3, <1>4, <1>5, <1>6, <1>7 DEF Filled, FilledAt
<1>9. {"Share", "Initialize"} \cap (EndSteps \cup {"InUse"}) = {}
  BY DEF EndSteps
<1> QED
  BY <1>1, <1>3, <1>4, <1>5, <1>6, <1>7, <1>8, <1>9, HeldFresh

LEMMA NextSlotHeld ==
  ASSUME Held, AddNextSlot, FreeEntries # {}, hazard' = {}
  PROVE  /\ pc[Hotplug] = "NextSlot" /\ Alive /\ adding \in NewAdding /\ adding.slot < Slots[adding.device]
         /\ UNCHANGED <<opened, wanted, tracker>> /\ hazard = {}
         /\ adding.parent \in Entries /\ ~ParentGone(adding.parent)
         /\ \E e, f, m \in Entries : \E entry \in Readers : NextSlotInto(e, f, m, entry)
<1>1. pc[Hotplug] = "NextSlot" /\ Alive /\ UNCHANGED <<opened, wanted, tracker>>
  BY DEF AddNextSlot
<1>2. hazard = {} /\ ~ParentGone(adding.parent)
  BY DEF AddNextSlot
<1>3. adding \in NewAdding /\ adding.slot < Slots[adding.device] /\ adding.parent \in Entries
  BY <1>1, AddingType DEF AddSteps, Held, Typed, Placed
<1>4. table[adding.parent].pFeeds # 0 /\ table[adding.parent].pMutex # 0
  BY <1>1, <1>2, <1>3, ParentThere
<1> QED
  BY <1>1, <1>2, <1>3, <1>4, NextSlotEffect DEF Held

\* The name of another slot is that of slot 0 with its number.
LEMMA SlotNames ==
  ASSUME NEW n \in Names, NEW d \in Devices, NEW slot \in Nat, slot < Slots[d]
  PROVE  LET s == [base |-> n.base, digit |-> n.digit, slot |-> slot]
         IN  s \in Names /\ s # NULL
<1>1. n.base \in Bases /\ n.digit \in Digits
  BY DEF Names
<1>2. slot \in 0..(Slots[d] - 1)
  BY ReaderFactoryAssumption
<1>3. slot \in UNION {0..Slots[x] - 1 : x \in Devices}
  BY <1>2
<1>4. [base |-> n.base, digit |-> n.digit, slot |-> slot] \in Names
  BY <1>1, <1>3 DEF Names
<1> QED
  BY <1>4, NullAssumption

LEMMA HeldNextSlot ==
  ASSUME Held, Typed', AddNextSlot, FreeEntries # {}, hazard' = {}, NEW first, first = adding.parent
  PROVE  Held'
<1>1. /\ pc[Hotplug] = "NextSlot" /\ Alive /\ wanted' = wanted /\ adding \in NewAdding
      /\ adding.slot < Slots[adding.device] /\ first \in Entries /\ ~ParentGone(first)
      /\ \E e, f, m \in Entries : \E entry \in Readers : NextSlotInto(e, f, m, entry)
  BY NextSlotHeld
<1>2. PICK e, f, m \in Entries, entry \in Readers : NextSlotInto(e, f, m, entry)
  BY <1>1
<1>3. f # 0 /\ m # 0
  BY EntriesAreNumbers
<1>4. /\ ~Used(e) /\ Leaving(e) = {} /\ entry.port = table[first].port
      /\ entry.reference = 1 /\ entry.mine
      /\ entry.name = IF table[first].name = NULL THEN NULL
                      ELSE [base |-> table[first].name.base, digit |-> table[first].name.digit, slot |-> adding.slot]
      /\ at' = [at EXCEPT ![Hotplug] = e]
      /\ ShareInto(f, m, first, e, adding.library \in SlotThreadSafe, entry)
  BY <1>2 DEF NextSlotInto, FreeEntries
<1>5. /\ \A x \in Entries \ {e} : table'[x] = table[x]
      /\ table'[e].pFeeds = f /\ table'[e].pMutex = m
      /\ table'[e].name = entry.name /\ table'[e].port = entry.port
      /\ table'[e].reference = 1 /\ table'[e].mine = entry.mine
      /\ Goto(Hotplug, "Initialize")
  BY <1>4 DEF ShareInto
<1>6. OnlyMoves(Hotplug) /\ pc'[Hotplug] = "Initialize"
  BY <1>1, <1>4, <1>5, ThreadsApart, MovesBy DEF Held
<1>7. table[first].name # NULL /\ table[first].name \in Names /\ table[first].port # 0
  BY <1>1, ParentThere
<1>8. table'[e].mine /\ table'[e].port # 0
  BY <1>4, <1>5, <1>7
<1>9. table'[e].name # NULL
  <2>1. adding.device \in Devices /\ adding.slot \in Nat
    BY <1>1 DEF NewAdding
  <2> QED
    BY <1>1, <1>4, <1>5, <1>7, <2>1, SlotNames
<1>10. at'[Hotplug] = e
  BY <1>4, ThreadsApart DEF Held, Typed, ThreadTypeOK
<1>11. Filled'
  BY <1>3, <1>5, <1>6, <1>8, <1>9, <1>10 DEF Filled, FilledAt
<1>12. {"NextSlot", "Initialize"} \cap (EndSteps \cup {"InUse"}) = {}
  BY DEF EndSteps
<1> QED
  BY <1>1, <1>3, <1>4, <1>5, <1>6, <1>8, <1>9, <1>11, <1>12, HeldFresh

LEMMA HeldInitialize ==
  ASSUME Held, Typed', AddInitialize, NEW e, e = at[Hotplug]
  PROVE  Held'
<1>1. pc[Hotplug] = "Initialize" /\ Alive /\ UNCHANGED <<at, wanted>>
  BY DEF AddInitialize
<1>2. PICK outcome \in {"ok", "load", "missing", "open"} : (outcome = "load" => ~Used(e)) /\ InitializeAs(outcome)
  BY InitializeEffect DEF Held
<1>3. /\ e \in Entries /\ HeldAt(e) /\ table[e].mine /\ table[e].name # NULL /\ table[e].port # 0 /\ table[e].pFeeds # 0
      /\ ~Used(e) => Leaving(e) = {} /\ table[e].reference = 1
  BY <1>1, FilledAlone DEF FillSteps, FilledAt
<1>4. table[e].pMutex # 0
  BY <1>3 DEF HeldAt, Counted
<1>5. adding.library # NULL
  BY <1>1, AddingType, ReaderFactoryAssumption DEF Held, AddSteps, FillSteps, NewAdding
<1>6. /\ \A x \in Entries \ {e} : table'[x] = table[x]
      /\ table'[e].vHandle = IF ~Used(e) /\ outcome # "load" THEN adding.library ELSE table[e].vHandle
      /\ table'[e].name = table[e].name /\ table'[e].port = table[e].port
      /\ table'[e].pFeeds = table[e].pFeeds /\ table'[e].pMutex = table[e].pMutex
      /\ table'[e].reference = table[e].reference /\ table'[e].mine = table[e].mine
      /\ (Goto(Hotplug, "Spawn") /\ outcome = "ok") \/ Goto(Hotplug, "Removing")
  BY <1>2, <1>3 DEF InitializeAs, SameHolds
<1>7. PICK label \in {"Spawn", "Removing"} : Goto(Hotplug, label) /\ (label = "Spawn" => outcome = "ok")
  BY <1>6
<1>8. OnlyMoves(Hotplug) /\ pc'[Hotplug] = label
  BY <1>1, <1>7, ThreadsApart, MovesBy DEF Held
<1>9. table'[e].mine
  BY <1>3, <1>6
<1>10. {"Initialize", "Spawn", "Removing"} \cap (EndSteps \cup {"InUse"}) = {} /\ "Removing" \notin FillSteps
  BY DEF EndSteps, FillSteps
<1>11. Filled'
  <2>1. CASE label = "Removing"
    BY <1>8, <1>10, <2>1 DEF Filled
  <2>2. CASE label = "Spawn"
    <3>1. table'[e].vHandle # NULL
      BY <1>5, <1>6, <1>7, <2>2 DEF Used
    <3> QED
      BY <1>1, <1>3, <1>6, <1>8, <1>9, <2>2, <3>1 DEF Filled, FilledAt, Used
  <2> QED
    BY <2>1, <2>2
<1>12. CASE ~Used(e)
  BY <1>3, <1>4, <1>6, <1>8, <1>9, <1>10, <1>11, <1>12, <1>1, HeldFresh
<1>13. CASE Used(e)
  <2>1. SameAt(e)
    BY <1>6, <1>13 DEF SameAt
  <2>2. SameThreadsAt(e)
    BY <1>1, <1>8, <1>10, ThreadsApart, ThreadsElsewhere
  <2>3. HeldAt(e)'
    BY <1>3, <1>8, <2>1, <2>2, HeldElsewhere DEF OnlyMoves
  <2>4. e = at[Hotplug] /\ e = at'[Hotplug]
    BY <1>1
  <2> QED
    BY <1>3, <1>6, <1>8, <1>11, <2>3, <2>4, ThreadsApart, HeldHere
<1> QED
  BY <1>12, <1>13

LEMMA NextHeld ==
  ASSUME Held, [Next]_vars, hazard' = {}
  PROVE  Held'
<1>1. Typed'
  BY NextTyped DEF Held
<1>2. CASE HotplugThread
  <2>1. CASE HPReceive \/ HPRescanUsbBus \/ HPRescanNew \/ HPSweep \/ HPAddEnd
    BY <1>1, <2>1, HeldHotplug
  <2>2. CASE AddReader
    BY <1>1, <2>2, HeldAddMoves, HeldTake
  <2>3. CASE AddShare
    BY <1>1, <2>3, HeldShare
  <2>4. CASE AddInitialize
    BY <1>1, <2>4, HeldInitialize
  <2>5. CASE AddSpawn
    BY <1>1, <2>5, HeldAddMoves
  <2>6. CASE AddNextSlot
    BY <1>1, <2>6, HeldAddMoves, HeldNextSlot
  <2> QED
    BY <1>2, <2>1, <2>2, <2>3, <2>4, <2>5, <2>6 DEF HotplugThread, Add
<1>3. ASSUME NEW t \in Threads, Remove(t) PROVE Held'
  BY <1>1, <1>3, HeldRemoveNext, HeldTest, HeldKill, HeldClose DEF Remove
<1>4. ASSUME NEW c \in Callers, Client(c) PROVE Held'
  BY <1>1, <1>4, HeldReaderInfo, HeldRef, HeldUnref DEF Client
<1>5. CASE \/ \E e \in Entries : PollingThread(e)
           \/ \E d \in Devices : Plug(d) \/ Unplug(d)
           \/ UNCHANGED vars
  BY <1>1, <1>5, HeldBeside
<1>6. CASE SignalTrap \/ Stop \/ RFCleanupReaders
  BY <1>1, <1>6, HeldEnd
<1> QED
  BY <1>2, <1>3, <1>4, <1>5, <1>6 DEF Next

\* What has gone wrong stays so.
LEMMA HazardGrows ==
  ASSUME [Next]_vars, hazard' = {}
  PROVE  hazard = {}
<1>1. CASE HotplugThread
  <2>1. CASE HPReceive \/ HPRescanUsbBus \/ HPRescanNew \/ HPSweep \/ HPAddEnd
    BY <2>1, HotplugMoves
  <2>2. CASE AddReader \/ AddShare \/ AddInitialize \/ AddSpawn \/ AddNextSlot
    BY <2>2 DEF AddReader, AddShare, AddInitialize, AddSpawn, AddNextSlot, Wrong
  <2> QED
    BY <1>1, <2>1, <2>2 DEF HotplugThread, Add
<1>2. ASSUME NEW t \in Threads, Remove(t) PROVE hazard = {}
  BY <1>2 DEF Remove, RemoveNext, Removed, UnrefDecrement, UnrefTest, RemoveKill, RemoveJoin, RemoveClose, RemoveForget, Wrong
<1>3. ASSUME NEW c \in Callers, Client(c) PROVE hazard = {}
  BY <1>3 DEF Client, RFReaderInfo, RefReader, UnrefReader, UnrefDecrement, Wrong
<1>4. ASSUME NEW e \in Entries, PollingThread(e) PROVE hazard = {}
  BY <1>4 DEF PollingThread, PollingEnds, PollingSeesCardGone, Wrong
<1>5. ASSUME NEW d \in Devices, Plug(d) \/ Unplug(d) PROVE hazard = {}
  BY <1>5 DEF Plug, Unplug
<1>6. CASE SignalTrap \/ Stop \/ RFCleanupReaders \/ UNCHANGED vars
  BY <1>6 DEF SignalTrap, Stop, RFCleanupReaders, vars
<1> QED
  BY <1>1, <1>2, <1>3, <1>4, <1>5, <1>6 DEF Next

LEMMA InitHeld == Init => Held
<1> SUFFICES ASSUME Init PROVE Held
  OBVIOUS
<1>1. Typed
  BY InitTyped
<1>2. /\ table = [e \in Entries |-> Unused] /\ pc[Hotplug] = "Idle"
      /\ \A t \in Threads : pc[t] \in {"Idle", "Serving"}
  BY ThreadsApart DEF Init
<1>3. ASSUME NEW e \in Entries PROVE HeldAt(e)
  <2>1. table[e].reference = 0 /\ ~table[e].mine /\ table[e].vHandle = NULL /\ table[e].port = 0
    BY <1>2 DEF Unused
  <2>2. Users(e) = {} /\ Leaving(e) = {}
    BY <1>2 DEF Users, Leaving, EndSteps, Threads
  <2>3. Cardinality(Users(e)) = 0 /\ Mine(e) = 0
    BY <2>1, <2>2, FS_EmptySet DEF Mine
  <2> QED
    BY <2>1, <2>2, <2>3 DEF HeldAt, Used, Counted
<1>4. Filled
  BY <1>2 DEF Filled, FillSteps
<1> QED
  BY <1>1, <1>3, <1>4 DEF Held

\* The inductive invariant, as long as nothing has gone wrong.
LEMMA HeldAlways == Spec => []HeldInv
<1>1. Init => HeldInv
  BY InitHeld DEF HeldInv
<1>2. HeldInv /\ [Next]_vars => HeldInv'
  BY NextHeld, HazardGrows DEF HeldInv
<1> QED
  BY <1>1, <1>2, PTL DEF Spec

\* A call keeps the reader it was made for until it gives it back, whatever is
\* unplugged, plugged or shut down meanwhile (RFReaderInfo, REF_READER and
\* UNREF_READER of readerfactory.c).
THEOREM Reference == Spec => []CallKeepsReader
<1>1. HeldInv => CallKeepsReader
  <2> SUFFICES ASSUME hazard = {}, Held, NEW c \in Callers, pc[c] = "InUse"
               PROVE  Used(at[c]) /\ table[at[c]].name = wanted[c] /\ table[at[c]].reference > 0
    BY DEF HeldInv, CallKeepsReader
  <2>1. at[c] \in Entries /\ c \in Users(at[c])
    BY DEF Held, Typed, Placed, AtSteps, Threads, Users
  <2>2. HeldAt(at[c])
    BY <2>1 DEF Held
  <2>3. table[at[c]].reference # 0 /\ table[at[c]].reference \in Nat
    BY <2>1, <2>2, NobodyHas DEF Held
  <2> QED
    BY <2>1, <2>2, <2>3 DEF HeldAt
<1> QED
  BY <1>1, HeldAlways, PTL
-----------------------------------------------------------------------------
(***************************************************************************)
(* What a step does to the readers and to what they share.                 *)
(***************************************************************************)
KeepsLinks ==
  \A x \in Entries :
    /\ table'[x].vHandle = table[x].vHandle /\ table'[x].name = table[x].name /\ table'[x].port = table[x].port
    /\ table'[x].pFeeds = table[x].pFeeds /\ table'[x].pMutex = table[x].pMutex

\* Whoever has closed a reader has still to forget it.
StillForgets ==
  /\ Alive' => Alive
  /\ Alive' => \A t \in Threads : pc[t] = "Forget" => pc'[t] = "Forget" /\ at'[t] = at[t]

Quiet == KeepsLinks /\ StillForgets /\ UNCHANGED <<feeds, mutexes, opened, numReaders>>

LEMMA QuietMove ==
  ASSUME NEW t \in Threads, OnlyMoves(t), pc[t] # "Forget" \/ ~Alive', KeepsLinks,
         UNCHANGED <<feeds, mutexes, opened, numReaders>>
  PROVE  Quiet
BY DEF OnlyMoves, Quiet, StillForgets

LEMMA KeepsLinksBy ==
  /\ (\A x \in Entries : SameAt(x)) => KeepsLinks
  /\ SameLinks => KeepsLinks
BY DEF SameAt, SameLinks, KeepsLinks

LEMMA QuietRemoval ==
  ASSUME Held, NEW t \in Threads, RemoveNext(t) \/ UnrefTest(t) \/ RemoveKill(t) \/ RemoveJoin(t)
  PROVE  Quiet
<1>1. UNCHANGED <<feeds, mutexes, opened, numReaders>> /\ Alive /\ UNCHANGED wanted
  BY DEF RemoveNext, UnrefTest, RemoveKill, RemoveJoin, tableVars
<1>2. pc[t] # "Forget"
  BY DEF RemoveNext, UnrefTest, RemoveKill, RemoveJoin
<1>3. CASE UnrefTest(t) \/ RemoveKill(t) \/ RemoveJoin(t)
  <2>1. at' = at /\ \E label : Goto(t, label)
    BY <1>3 DEF UnrefTest, RemoveKill, RemoveJoin
  <2>2. KeepsLinks
    BY <1>3, KillSame, SameTable, KeepsLinksBy DEF UnrefTest, tableVars, Held
  <2>3. OnlyMoves(t)
    BY <1>1, <2>1, MovesBy DEF Held
  <2> QED
    BY <1>1, <1>2, <2>2, <2>3, QuietMove
<1>4. CASE RemoveNext(t)
  <2> DEFINE S == Matching(removal[t])
             e == Min(S)
  <2>1. CASE S = {} \/ table[e].reference = 0
    <3>1. table' = table /\ at' = at /\ \E label : Goto(t, label)
      BY <1>4, <2>1 DEF RemoveNext, Removed
    <3>2. KeepsLinks /\ OnlyMoves(t)
      BY <1>1, <3>1, SameTable, KeepsLinksBy, MovesBy DEF Held
    <3> QED
      BY <1>1, <1>2, <3>2, QuietMove
  <2>2. CASE ~(S = {} \/ table[e].reference = 0)
    <3>1. UnrefDecrement(t, e)
      BY <1>4, <2>2 DEF RemoveNext
    <3>2. e \in S
      <4> HIDE DEF S
      <4> QED
        BY <2>2, FirstEntry, MatchingInEntries DEF S
    <3>3. e \in Entries /\ table[e].reference # 0
      BY <2>2, <3>2 DEF Matching
    <3> HIDE DEF e
    <3>4. KeepsLinks /\ Goto(t, "Tested") /\ at' = [at EXCEPT ![t] = e]
      BY <3>1, <3>3, DecrementEffect DEF Held, KeepsLinks
    <3>5. OnlyMoves(t)
      BY <1>1, <3>4, MovesBy DEF Held
    <3> QED
      BY <1>1, <1>2, <3>4, <3>5, QuietMove
  <2> QED
    BY <2>1, <2>2
<1> QED
  BY <1>3, <1>4

LEMMA QuietClient ==
  ASSUME Held, NEW c \in Callers, Client(c)
  PROVE  Quiet
<1>1. UNCHANGED <<feeds, mutexes, opened, numReaders>> /\ Alive /\ c \in Threads
  BY ThreadsApart DEF Client, RFReaderInfo, RefReader, UnrefReader, tableVars
<1>2. pc[c] # "Forget"
  BY DEF Client, RFReaderInfo, RefReader, UnrefReader
<1>3. ASSUME NEW e \in Entries, RFReaderInfo(c, e) PROVE Quiet
  <2>1. /\ Goto(c, "Ref") /\ at' = [at EXCEPT ![c] = e] /\ table' = table
        /\ wanted' = [wanted EXCEPT ![c] = table[e].name]
    BY <1>3 DEF RFReaderInfo, tableVars
  <2>2. KeepsLinks /\ OnlyMoves(c)
    BY <1>1, <2>1, SameTable, KeepsLinksBy, MovesBy DEF Held
  <2> QED
    BY <1>1, <1>2, <2>2, QuietMove
<1>4. CASE RefReader(c)
  <2>1. KeepsLinks /\ Goto(c, "InUse") /\ at' = at /\ wanted' = wanted
    BY <1>4, RefEffect DEF Held, KeepsLinks
  <2>2. OnlyMoves(c)
    BY <1>1, <2>1, MovesBy DEF Held
  <2> QED
    BY <1>1, <1>2, <2>1, <2>2, QuietMove
<1>5. CASE UnrefReader(c)
  <2>1. pc[c] = "InUse" /\ wanted' = [wanted EXCEPT ![c] = NULL] /\ at[c] \in Entries
    BY <1>1, <1>5 DEF UnrefReader, Held, Typed, Placed, AtSteps
  <2>2. \/ table' = table /\ at' = at /\ Goto(c, "Idle")
        \/ table[at[c]].reference # 0 /\ UnrefDecrement(c, at[c])
    BY <1>5 DEF UnrefReader
  <2>3. KeepsLinks /\ (at' = at \/ \E e : at' = [at EXCEPT ![c] = e]) /\ \E label : Goto(c, label)
    <3>1. CASE table' = table /\ at' = at /\ Goto(c, "Idle")
      BY <3>1, SameTable, KeepsLinksBy
    <3>2. CASE table[at[c]].reference # 0 /\ UnrefDecrement(c, at[c])
      BY ZenonT(60), <1>1, <2>1, <3>2, DecrementEffect DEF Held, KeepsLinks
    <3> QED
      BY <2>2, <3>1, <3>2
  <2>4. OnlyMoves(c)
    BY <1>1, <2>1, <2>3, MovesBy DEF Held
  <2> QED
    BY <1>1, <1>2, <2>3, <2>4, QuietMove
<1> QED
  BY <1>3, <1>4, <1>5 DEF Client

LEMMA QuietHotplug ==
  ASSUME Held, \/ HPReceive \/ HPRescanUsbBus \/ HPRescanNew \/ HPSweep \/ HPAddEnd
               \/ AddReader /\ AddRefused
               \/ AddSpawn
               \/ AddNextSlot /\ FreeEntries = {}
  PROVE  Quiet
<1>1. /\ UNCHANGED <<feeds, mutexes, opened, numReaders, at, wanted>> /\ Alive /\ KeepsLinks
      /\ pc[Hotplug] # "Forget" /\ \E label : Goto(Hotplug, label)
  <2>1. CASE HPReceive \/ HPRescanUsbBus \/ HPRescanNew \/ HPSweep \/ HPAddEnd
    <3>1. UNCHANGED <<tableVars, at, wanted>> /\ Alive /\ pc[Hotplug] \in OutSteps /\ \E label \in OutSteps : Goto(Hotplug, label)
      BY <2>1, HotplugMoves
    <3>2. KeepsLinks
      BY <3>1, SameTable, KeepsLinksBy DEF tableVars
    <3> QED
      BY <3>1, <3>2 DEF tableVars, OutSteps
  <2>2. CASE (AddReader /\ AddRefused) \/ AddSpawn \/ (AddNextSlot /\ FreeEntries = {})
    <3>1. /\ UNCHANGED <<at, wanted, feeds, mutexes, opened, numReaders>>
          /\ pc[Hotplug] \in {"Add", "Spawn", "NextSlot"} /\ Alive
          /\ \E label \in {"AddFailed", "Added", "NextSlot", "Removing"} : Goto(Hotplug, label)
          /\ SameLinks
      BY <2>2, AddMoves DEF Held
    <3> QED
      BY <3>1, KeepsLinksBy
  <2> QED
    BY <2>1, <2>2
<1>2. OnlyMoves(Hotplug)
  BY <1>1, ThreadsApart, MovesBy DEF Held
<1> QED
  BY <1>1, <1>2, ThreadsApart, QuietMove

LEMMA QuietBeside ==
  ASSUME Held, \/ \E e \in Entries : PollingThread(e)
               \/ \E d \in Devices : Plug(d) \/ Unplug(d)
               \/ SignalTrap \/ Stop \/ RFCleanupReaders
               \/ UNCHANGED vars
  PROVE  Quiet
<1>1. UNCHANGED <<feeds, mutexes, opened, numReaders, at, wanted>>
  BY DEF PollingThread, PollingEnds, PollingSeesCardGone, Plug, Unplug, SignalTrap, Stop, RFCleanupReaders, vars,
         tableVars, threadVars
<1>2. KeepsLinks
  BY PollingSame, SameTable, KeepsLinksBy DEF Held, Plug, Unplug, SignalTrap, Stop, RFCleanupReaders, vars, tableVars
<1>3. CASE \/ \E e \in Entries : PollingThread(e)
           \/ \E d \in Devices : Plug(d) \/ Unplug(d)
           \/ UNCHANGED vars
  <2>1. pc' = pc
    BY <1>3 DEF PollingThread, PollingEnds, PollingSeesCardGone, Plug, Unplug, vars, threadVars
  <2> QED
    BY <1>1, <1>2, <2>1 DEF Quiet, StillForgets, Alive
<1>4. CASE SignalTrap \/ Stop \/ RFCleanupReaders
  <2>1. Alive
    BY <1>4 DEF SignalTrap, Stop, RFCleanupReaders, Alive
  <2>2. CASE pc' = pc
    BY <1>1, <1>2, <2>1, <2>2 DEF Quiet, StillForgets
  <2>3. ASSUME NEW label, Goto(Main, label), pc[Main] # "Forget" \/ label = "Exited" PROVE Quiet
    <3>1. OnlyMoves(Main) /\ pc'[Main] = label
      BY <1>1, <2>1, <2>3, ThreadsApart, MovesBy DEF Held
    <3> QED
      BY <1>1, <1>2, <2>3, <3>1, ThreadsApart, QuietMove DEF Alive
  <2>4. \/ pc' = pc
        \/ \E label : Goto(Main, label) /\ (pc[Main] # "Forget" \/ label = "Exited")
    BY <1>4 DEF SignalTrap, Stop, RFCleanupReaders, Goto
  <2> QED
    BY <2>2, <2>3, <2>4
<1> QED
  BY <1>3, <1>4

\* The steps that change a reader or what it shares; all others are quiet.
LEMMA StepCases ==
  ASSUME Held, [Next]_vars
  PROVE  \/ Quiet
         \/ AddReader /\ ~AddRefused
         \/ AddShare
         \/ AddInitialize
         \/ AddNextSlot /\ FreeEntries # {}
         \/ \E t \in Threads : RemoveClose(t) \/ RemoveForget(t)
<1>1. CASE HotplugThread
  BY <1>1, QuietHotplug DEF HotplugThread, Add
<1>2. ASSUME NEW t \in Threads, Remove(t) PROVE Quiet \/ RemoveClose(t) \/ RemoveForget(t)
  BY <1>2, QuietRemoval DEF Remove
<1>3. ASSUME NEW c \in Callers, Client(c) PROVE Quiet
  BY <1>3, QuietClient
<1>4. CASE \/ \E e \in Entries : PollingThread(e)
           \/ \E d \in Devices : Plug(d) \/ Unplug(d)
           \/ SignalTrap \/ Stop \/ RFCleanupReaders
           \/ UNCHANGED vars
  BY <1>4, QuietBeside
<1> QED
  BY <1>1, <1>2, <1>3, <1>4 DEF Next
-----------------------------------------------------------------------------
(***************************************************************************)
(* What readers share, and how often.                                      *)
(***************************************************************************)
\* Those of C that point to counter o; that every counter n[o] is right; that
\* e shares its own with nobody.
Group(C, p, o) == {x \in C : p[x] = o}
Counting(C, p, n) == \A o \in Entries : Group(C, p, o) # {} => n[o] = Cardinality(Group(C, p, o))
Alone(C, p, e) == \A x \in C \ {e} : p[x] # p[e]

\* Counter o goes up, or down.
Up(n, n2, o) == n2[o] = n[o] + 1 /\ \A q \in Entries \ {o} : n2[q] = n[q]
Down(n, n2, o) == n2[o] = n[o] - 1 /\ \A q \in Entries \ {o} : n2[q] = n[q]

LEMMA GroupSize ==
  ASSUME NEW C \in SUBSET Entries, NEW p, NEW o
  PROVE  /\ Group(C, p, o) \subseteq Entries /\ IsFiniteSet(Group(C, p, o)) /\ Cardinality(Group(C, p, o)) \in Nat
         /\ Group(C, p, o) # {} => Cardinality(Group(C, p, o)) >= 1
<1>1. Group(C, p, o) \subseteq Entries /\ IsFiniteSet(Entries)
  BY ReaderFactoryAssumption DEF Group
<1>2. IsFiniteSet(Group(C, p, o)) /\ Cardinality(Group(C, p, o)) \in Nat
  BY <1>1, FS_Subset, FS_CardinalityType
<1>3. Group(C, p, o) # {} => Cardinality(Group(C, p, o)) # 0
  BY <1>2, FS_EmptySet
<1> QED
  BY <1>1, <1>2, <1>3

\* An entry leaves that shares with nobody: no counter changes.
LEMMA GroupWithout ==
  ASSUME NEW C \in SUBSET Entries, NEW p, NEW n, NEW e \in Entries, Counting(C, p, n),
         e \in C => Alone(C, p, e), NEW p2, \A x \in C \ {e} : p2[x] = p[x]
  PROVE  Counting(C \ {e}, p2, n)
<1> SUFFICES ASSUME NEW o \in Entries, Group(C \ {e}, p2, o) # {}
             PROVE  n[o] = Cardinality(Group(C \ {e}, p2, o))
  BY DEF Counting
<1>1. Group(C \ {e}, p2, o) = Group(C, p, o)
  <2>1. PICK y \in C \ {e} : p2[y] = o
    BY DEF Group
  <2>2. p[y] = o
    BY <2>1
  <2>3. ~(e \in C /\ p[e] = o)
    BY <2>1, <2>2 DEF Alone
  <2> QED
    BY <2>3 DEF Group
<1> QED
  BY <1>1 DEF Counting

\* One more entry points to the counter of another, which counts it.
LEMMA GroupJoin ==
  ASSUME NEW C \in SUBSET Entries, NEW p, NEW n, NEW e \in Entries, Counting(C, p, n),
         e \in C => Alone(C, p, e), NEW p2, NEW n2, NEW o \in Entries, Group(C \ {e}, p, o) # {},
         \A x \in C \ {e} : p2[x] = p[x], p2[e] = o,
         Up(n, n2, o)
  PROVE  Counting(C \cup {e}, p2, n2)
<1> SUFFICES ASSUME NEW q \in Entries, Group(C \cup {e}, p2, q) # {}
             PROVE  n2[q] = Cardinality(Group(C \cup {e}, p2, q))
  BY DEF Counting
<1>1. CASE q = o
  <2>1. Group(C, p, o) # {} /\ e \notin Group(C, p, o)
    BY DEF Group, Alone
  <2>2. Group(C \cup {e}, p2, o) = Group(C, p, o) \cup {e}
    BY <2>1 DEF Group
  <2>3. n[o] = Cardinality(Group(C, p, o)) /\ Cardinality(Group(C, p, o)) \in Nat /\ IsFiniteSet(Group(C, p, o))
    BY <2>1, GroupSize DEF Counting
  <2>4. Cardinality(Group(C, p, o) \cup {e}) = Cardinality(Group(C, p, o)) + 1
    BY <2>1, <2>3, FS_AddElement
  <2> QED
    BY <1>1, <2>2, <2>3, <2>4 DEF Up
<1>2. CASE q # o
  <2>1. PICK y \in C \ {e} : p2[y] = q
    BY <1>2 DEF Group
  <2>2. p[y] = q
    BY <2>1
  <2>3. ~(e \in C /\ p[e] = q)
    BY <2>1, <2>2 DEF Alone
  <2>4. Group(C \cup {e}, p2, q) = Group(C, p, q)
    BY <1>2, <2>3 DEF Group
  <2> QED
    BY <1>2, <2>4 DEF Counting, Up
<1> QED
  BY <1>1, <1>2

\* Or to a counter of its own, which starts at 1.
LEMMA GroupOwn ==
  ASSUME NEW C \in SUBSET Entries, NEW p, NEW n, NEW e \in Entries, Counting(C, p, n),
         e \in C => Alone(C, p, e), NEW p2, NEW n2, NEW o \in Entries, \A x \in C \ {e} : p[x] # o,
         \A x \in C \ {e} : p2[x] = p[x], p2[e] = o,
         \A q \in Entries \ {o} : n2[q] = n[q], n2[o] = 1
  PROVE  Counting(C \cup {e}, p2, n2)
<1> SUFFICES ASSUME NEW q \in Entries, Group(C \cup {e}, p2, q) # {}
             PROVE  n2[q] = Cardinality(Group(C \cup {e}, p2, q))
  BY DEF Counting
<1>1. CASE q = o
  <2>1. Group(C \cup {e}, p2, o) = {e}
    BY DEF Group
  <2> QED
    BY <1>1, <2>1, FS_Singleton
<1>2. CASE q # o
  <2>1. PICK y \in C \ {e} : p2[y] = q
    BY <1>2 DEF Group
  <2>2. p[y] = q
    BY <2>1
  <2>3. ~(e \in C /\ p[e] = q)
    BY <2>1, <2>2 DEF Alone
  <2>4. Group(C \cup {e}, p2, q) = Group(C, p, q)
    BY <1>2, <2>3 DEF Group
  <2> QED
    BY <1>2, <2>4 DEF Counting
<1> QED
  BY <1>1, <1>2

\* An entry leaves and its counter goes down.
LEMMA GroupLeave ==
  ASSUME NEW C \in SUBSET Entries, NEW p, NEW n, NEW e \in C, Counting(C, p, n), NEW o \in Entries, o = p[e],
         NEW p2, NEW n2, \A x \in C \ {e} : p2[x] = p[x],
         Down(n, n2, o)
  PROVE  Counting(C \ {e}, p2, n2)
<1> SUFFICES ASSUME NEW q \in Entries, Group(C \ {e}, p2, q) # {}
             PROVE  n2[q] = Cardinality(Group(C \ {e}, p2, q))
  BY DEF Counting
<1>1. CASE q = o
  <2>1. e \in Group(C, p, o) /\ Group(C \ {e}, p2, o) = Group(C, p, o) \ {e}
    BY DEF Group
  <2>2. n[o] = Cardinality(Group(C, p, o)) /\ IsFiniteSet(Group(C, p, o))
    BY <2>1, GroupSize DEF Counting
  <2>3. Cardinality(Group(C, p, o) \ {e}) = Cardinality(Group(C, p, o)) - 1
    BY <2>1, <2>2, FS_RemoveElement
  <2> QED
    BY <1>1, <2>1, <2>2, <2>3 DEF Down
<1>2. CASE q # o
  <2>1. Group(C \ {e}, p2, q) = Group(C, p, q)
    BY <1>2 DEF Group
  <2> QED
    BY <1>2, <2>1 DEF Counting, Down
<1> QED
  BY <1>1, <1>2

CountedEntries == {e \in Entries : Counted(e)}
FeedsOf == [e \in Entries |-> table[e].pFeeds]
MutexOf == [e \in Entries |-> table[e].pMutex]

\* The counters of the readers whose driver is l.
Loaded(l) == {f \in Entries : \E x \in Entries : Used(x) /\ table[x].pFeeds = f /\ table[x].vHandle = l}

\* An entry that looks free and that nobody is removing, as a driver that could
\* not be loaded leaves it, shares nothing.
Leftover ==
  Alive => \A e \in CountedEntries : ~Used(e) /\ Leaving(e) = {} =>
             Alone(CountedEntries, FeedsOf, e) /\ Alone(CountedEntries, MutexOf, e)

Counts ==
  /\ CounterTypeOK /\ Leftover
  /\ Counting(CountedEntries, FeedsOf, feeds) /\ Counting(CountedEntries, MutexOf, mutexes)
  /\ numReaders >= Cardinality(CountedEntries)
  /\ \A l \in Libraries : opened[l] >= Cardinality(Loaded(l))

CountsInv == hazard = {} => Held /\ Counts

LEMMA CountedFinite ==
  /\ CountedEntries \in SUBSET Entries /\ IsFiniteSet(CountedEntries) /\ Cardinality(CountedEntries) \in Nat
  /\ \A l : IsFiniteSet(Loaded(l)) /\ Cardinality(Loaded(l)) \in Nat
<1>1. CountedEntries \subseteq Entries /\ IsFiniteSet(Entries) /\ \A l : Loaded(l) \subseteq Entries
  BY ReaderFactoryAssumption DEF CountedEntries, Loaded
<1> QED
  BY <1>1, FS_Subset, FS_CardinalityType

\* Who shares nothing after a step shared nothing before it.
LEMMA LeftBefore ==
  ASSUME Held, NEW x \in Entries, Counted(x), ~Used(x), Leaving(x)' = {},
         \A u \in Threads : pc[u] = "Forget" /\ at[u] = x => pc'[u] = "Forget" /\ at'[u] = x
  PROVE  Leaving(x) = {}
<1>1. \A u \in Leaving(x) : pc[u] = "Forget" /\ at[u] = x /\ u \in Threads
  BY DEF Held, HeldAt, Leaving
<1>2. \A u \in Leaving(x) : u \in Leaving(x)'
  BY <1>1 DEF Leaving, EndSteps
<1> QED
  BY <1>2

LEMMA CountsQuiet ==
  ASSUME Held, Counts, Quiet
  PROVE  Counts'
<1>1. \A x \in Entries : /\ Used(x)' = Used(x) /\ Counted(x)' = Counted(x)
                         /\ table'[x].pFeeds = table[x].pFeeds /\ table'[x].pMutex = table[x].pMutex
                         /\ table'[x].vHandle = table[x].vHandle
  BY DEF Quiet, KeepsLinks, Used, Counted
<1>2. CountedEntries' = CountedEntries /\ FeedsOf' = FeedsOf /\ MutexOf' = MutexOf
  BY <1>1 DEF CountedEntries, FeedsOf, MutexOf
<1>3. \A l : Loaded(l)' = Loaded(l)
  BY <1>1 DEF Loaded
<1>4. Leftover'
  <2> SUFFICES ASSUME Alive', NEW x \in CountedEntries, ~Used(x)', Leaving(x)' = {}
               PROVE  Alone(CountedEntries, FeedsOf, x) /\ Alone(CountedEntries, MutexOf, x)
    BY <1>2 DEF Leftover
  <2>1. x \in Entries /\ Counted(x) /\ ~Used(x) /\ Alive
    BY <1>1 DEF CountedEntries, Quiet, StillForgets
  <2>2. Leaving(x) = {}
    BY <2>1, LeftBefore DEF Quiet, StillForgets
  <2> QED
    BY <2>1, <2>2 DEF Counts, Leftover
<1>5. CounterTypeOK'
  BY DEF Quiet, Counts, CounterTypeOK
<1>6. Counting(CountedEntries, FeedsOf, feeds)' /\ Counting(CountedEntries, MutexOf, mutexes)'
  BY <1>2 DEF Quiet, Counts, Counting
<1>7. (\A l \in Libraries : opened[l] >= Cardinality(Loaded(l)))' /\ (numReaders >= Cardinality(CountedEntries))'
  BY <1>2, <1>3 DEF Quiet, Counts
<1> QED
  BY <1>4, <1>5, <1>6, <1>7 DEF Counts

\* What a free entry leaves is its own.
LEMMA FreeIsAlone ==
  ASSUME Counts, Alive, NEW e \in Entries, ~Used(e), Leaving(e) = {}
  PROVE  e \in CountedEntries => Alone(CountedEntries, FeedsOf, e) /\ Alone(CountedEntries, MutexOf, e)
BY DEF Counts, Leftover

LEMMA ForgetsLater ==
  ASSUME NEW t \in Threads, OnlyMoves(t), pc[t] # "Forget"
  PROVE  \A u \in Threads : pc[u] = "Forget" => pc'[u] = "Forget" /\ at'[u] = at[u]
BY DEF OnlyMoves

LEMMA CountsTake ==
  ASSUME Held, Counts, AddReader, ~AddRefused, hazard' = {}
  PROVE  Counts'
<1>1. /\ pc[Hotplug] = "Add" /\ Alive /\ wanted' = wanted
      /\ UNCHANGED <<feeds, mutexes, opened, numReaders>>
  BY DEF AddReader
<1>2. PICK e, parent \in Entries \cup {0}, digit \in Digits : Take(e, digit, parent)
  BY AddReaderEffect DEF Held
<1>3. /\ e \in Entries /\ ~Used(e) /\ Leaving(e) = {}
      /\ \A x \in Entries \ {e} : table'[x] = table[x]
      /\ table'[e].vHandle = NULL /\ table'[e].pFeeds = 0
      /\ at' = [at EXCEPT ![Hotplug] = e] /\ Goto(Hotplug, "Share")
  BY <1>2 DEF Take, FreeEntries
<1>4. OnlyMoves(Hotplug)
  BY <1>1, <1>3, ThreadsApart, MovesBy DEF Held
<1> DEFINE C == CountedEntries
<1>5. CountedEntries' = C \ {e}
  BY <1>3 DEF CountedEntries, Counted
<1>6. \A x \in C \ {e} : FeedsOf'[x] = FeedsOf[x] /\ MutexOf'[x] = MutexOf[x]
  BY <1>3 DEF CountedEntries, FeedsOf, MutexOf
<1>7. e \in C => Alone(C, FeedsOf, e) /\ Alone(C, MutexOf, e)
  BY <1>1, <1>3, FreeIsAlone
<1>8. C \in SUBSET Entries /\ IsFiniteSet(C)
  BY CountedFinite
<1>9. Counting(C \ {e}, FeedsOf', feeds) /\ Counting(C \ {e}, MutexOf', mutexes)
  <2>1. Counting(C, FeedsOf, feeds) /\ Counting(C, MutexOf, mutexes)
    BY DEF Counts
  <2> HIDE DEF C
  <2> QED
    BY <1>3, <1>6, <1>7, <1>8, <2>1, GroupWithout
<1>10. Leftover'
  <2> SUFFICES ASSUME Alive', NEW x \in C \ {e}, ~Used(x)', Leaving(x)' = {}
               PROVE  Alone(C \ {e}, FeedsOf', x) /\ Alone(C \ {e}, MutexOf', x)
    BY <1>5 DEF Leftover
  <2>1. x \in Entries /\ Counted(x) /\ ~Used(x)
    BY <1>3 DEF CountedEntries, Used
  <2>2. Leaving(x) = {}
    BY <1>1, <1>4, <2>1, ThreadsApart, ForgetsLater, LeftBefore
  <2>3. Alone(C, FeedsOf, x) /\ Alone(C, MutexOf, x)
    BY <1>1, <2>1, <2>2 DEF Counts, Leftover
  <2> HIDE DEF C
  <2> QED
    BY <1>6, <2>3 DEF Alone
<1>11. \A l : Loaded(l)' = Loaded(l)
  <2>1. \A x \in Entries : Used(x)' = Used(x) /\ (Used(x) => table'[x] = table[x])
    BY <1>3 DEF Used
  <2> QED
    BY <2>1 DEF Loaded
<1>12. Cardinality(C \ {e}) <= Cardinality(C) /\ Cardinality(C \ {e}) \in Nat /\ Cardinality(C) \in Nat
  <2> HIDE DEF C
  <2> QED
    BY <1>8, FS_Subset, FS_CardinalityType
<1>13. (numReaders >= Cardinality(CountedEntries))'
  BY <1>1, <1>5, <1>12 DEF Counts, CounterTypeOK
<1>14. CounterTypeOK' /\ (\A l \in Libraries : opened[l] >= Cardinality(Loaded(l)))'
  BY <1>1, <1>11 DEF Counts, CounterTypeOK
<1>15. Counting(CountedEntries, FeedsOf, feeds)' /\ Counting(CountedEntries, MutexOf, mutexes)'
  BY <1>1, <1>5, <1>9 DEF Counting
<1> QED
  BY <1>10, <1>13, <1>14, <1>15 DEF Counts

\* A reader comes to share what its parent has, or has counters of its own.
LEMMA CountsShare ==
  ASSUME Held, Counts, NEW e \in Entries, NEW f \in Entries, NEW m \in Entries, NEW parent \in Entries \cup {0},
         NEW safe \in BOOLEAN, NEW entry, ShareInto(f, m, parent, e, safe, entry),
         ~Used(e), Leaving(e) = {}, Alive, entry.port # 0, parent # 0 => Used(parent), opened' = opened,
         OnlyMoves(Hotplug), pc[Hotplug] # "Forget"
  PROVE  Counts'
<1> DEFINE C == CountedEntries
<1>1. /\ \A x \in Entries \ {e} : table'[x] = table[x]
      /\ table'[e].pFeeds = f /\ table'[e].pMutex = m /\ table'[e].port = entry.port
      /\ table'[e].vHandle = (IF parent = 0 THEN NULL ELSE table[parent].vHandle)
      /\ feeds' = [feeds EXCEPT ![f] = IF parent = 0 THEN 1 ELSE @ + 1]
      /\ mutexes' = [mutexes EXCEPT ![m] = IF parent # 0 /\ ~safe THEN @ + 1 ELSE 1]
      /\ numReaders' = numReaders + 1
  BY DEF ShareInto
<1>2. /\ parent = 0 => \A x \in Entries \ {e} : table[x].pFeeds # f
      /\ parent # 0 => f = table[parent].pFeeds
      /\ parent # 0 /\ ~safe => m = table[parent].pMutex
      /\ ~(parent # 0 /\ ~safe) => \A x \in Entries \ {e} : table[x].pMutex # m
  BY DEF ShareInto
<1>3. f # 0 /\ m # 0
  BY EntriesAreNumbers
<1>4. CountedEntries' = C \cup {e}
  BY <1>1, <1>3 DEF CountedEntries, Counted
<1>5. /\ \A x \in Entries \ {e} : FeedsOf'[x] = FeedsOf[x] /\ MutexOf'[x] = MutexOf[x]
      /\ FeedsOf'[e] = f /\ MutexOf'[e] = m
      /\ \A x \in Entries : FeedsOf[x] = table[x].pFeeds /\ MutexOf[x] = table[x].pMutex
  BY <1>1 DEF FeedsOf, MutexOf
<1>6. C \in SUBSET Entries /\ IsFiniteSet(C) /\ Cardinality(C) \in Nat
  BY CountedFinite
<1>7. parent # 0 => parent \in C \ {e}
  BY DEF CountedEntries, Held, HeldAt
<1>8. e \in C => Alone(C, FeedsOf, e) /\ Alone(C, MutexOf, e)
  BY FreeIsAlone
<1>9. Counting(C, FeedsOf, feeds) /\ Counting(C, MutexOf, mutexes) /\ CounterTypeOK
  BY DEF Counts
<1>10. /\ feeds' \in [Entries -> Nat] /\ \A q \in Entries \ {f} : feeds'[q] = feeds[q]
       /\ feeds'[f] = IF parent = 0 THEN 1 ELSE feeds[f] + 1
  BY <1>1, <1>9 DEF CounterTypeOK
<1>11. /\ mutexes' \in [Entries -> Nat] /\ \A q \in Entries \ {m} : mutexes'[q] = mutexes[q]
       /\ mutexes'[m] = IF parent # 0 /\ ~safe THEN mutexes[m] + 1 ELSE 1
  BY <1>1, <1>9 DEF CounterTypeOK
<1>12. Leftover'
  <2> SUFFICES ASSUME Alive', NEW x \in C \cup {e}, ~Used(x)', Leaving(x)' = {}
               PROVE  Alone(C \cup {e}, FeedsOf', x) /\ Alone(C \cup {e}, MutexOf', x)
    BY <1>4 DEF Leftover
  <2>1. CASE x = e
    <3>1. parent = 0
      BY <1>1, <2>1 DEF Used
    <3> QED
      BY <1>2, <1>5, <1>6, <2>1, <3>1 DEF Alone
  <2>2. CASE x # e
    <3>1. x \in C /\ x \in Entries /\ Counted(x) /\ ~Used(x)
      BY <1>1, <2>2 DEF CountedEntries, Used
    <3>2. Leaving(x) = {}
      BY <3>1, ThreadsApart, ForgetsLater, LeftBefore
    <3>3. Alone(C, FeedsOf, x) /\ Alone(C, MutexOf, x)
      BY <3>1, <3>2 DEF Counts, Leftover
    <3>4. FeedsOf[x] # f /\ MutexOf[x] # m
      <4>1. parent # 0 => parent \in C \ {x}
        BY <1>7, <3>1
      <4>2. parent = 0 => FeedsOf[x] # f
        <5>1. x \in Entries \ {e} /\ FeedsOf[x] = table[x].pFeeds
          BY <1>5, <2>2, <3>1
        <5> QED
          BY <1>2, <5>1
      <4>3. parent # 0 => FeedsOf[x] # f
        BY <1>2, <1>5, <1>6, <4>1, <3>3 DEF Alone
      <4>4. parent # 0 /\ ~safe => MutexOf[x] # m
        BY <1>2, <1>5, <1>6, <4>1, <3>3 DEF Alone
      <4>5. ~(parent # 0 /\ ~safe) => MutexOf[x] # m
        BY <1>2, <1>5, <2>2, <3>1
      <4> QED
        BY <4>2, <4>3, <4>4, <4>5
    <3> HIDE DEF C
    <3> QED
      BY <1>5, <1>6, <2>2, <3>1, <3>3, <3>4 DEF Alone
  <2> QED
    BY <2>1, <2>2
<1>13. \A l : Loaded(l)' = Loaded(l)
  <2>1. CASE parent = 0
    <3>1. \A x \in Entries : Used(x)' = Used(x) /\ (Used(x) => table'[x] = table[x])
      BY <1>1, <2>1 DEF Used
    <3> QED
      BY <3>1 DEF Loaded
  <2>2. CASE parent # 0
    <3>1. \A x \in Entries \ {e} : Used(x)' = Used(x) /\ table'[x] = table[x]
      BY <1>1 DEF Used
    <3>2. /\ table'[e].pFeeds = table[parent].pFeeds /\ table'[e].vHandle = table[parent].vHandle
          /\ Used(parent) /\ parent \in Entries \ {e} /\ ~Used(e)
      BY <1>1, <1>2, <1>6, <1>7, <2>2
    <3> QED
      BY <3>1, <3>2 DEF Loaded
  <2> QED
    BY <2>1, <2>2
<1>14. (numReaders >= Cardinality(CountedEntries))'
  <2>1. Cardinality(C \cup {e}) <= Cardinality(C) + 1 /\ Cardinality(C \cup {e}) \in Nat
    <3> HIDE DEF C
    <3>1. Cardinality(C \cup {e}) = IF e \in C THEN Cardinality(C) ELSE Cardinality(C) + 1
      BY <1>6, FS_AddElement
    <3> QED
      BY <1>6, <3>1
  <2> QED
    BY <1>1, <1>4, <1>6, <1>9, <2>1 DEF Counts, CounterTypeOK
<1>15. CounterTypeOK' /\ (\A l \in Libraries : opened[l] >= Cardinality(Loaded(l)))'
  BY <1>1, <1>9, <1>10, <1>11, <1>13 DEF Counts, CounterTypeOK
<1> HIDE DEF C
<1>16. /\ \A x \in C \ {e} : FeedsOf'[x] = FeedsOf[x]
       /\ \A x \in C \ {e} : MutexOf'[x] = MutexOf[x]
       /\ \A x \in C \ {e} : FeedsOf[x] = table[x].pFeeds /\ MutexOf[x] = table[x].pMutex
  BY <1>5, <1>6
<1>17. Counting(C \cup {e}, FeedsOf', feeds')
  <2>1. CASE parent = 0
    <3>1. ASSUME NEW x \in C \ {e}
          PROVE  FeedsOf[x] # f
      <4>1. x \in Entries \ {e} /\ FeedsOf[x] = table[x].pFeeds
        BY <1>6, <1>16
      <4> QED
        BY <1>2, <2>1, <4>1
    <3>2. feeds'[f] = 1 /\ FeedsOf'[e] = f /\ (\A q \in Entries \ {f} : feeds'[q] = feeds[q])
      BY <1>5, <1>10, <2>1
    <3> QED
      BY <1>6, <1>8, <1>9, <1>16, <3>1, <3>2, GroupOwn
  <2>2. CASE parent # 0
    <3>1. Group(C \ {e}, FeedsOf, f) # {}
      BY <1>2, <1>7, <1>16, <2>2 DEF Group
    <3>2. Up(feeds, feeds', f) /\ FeedsOf'[e] = f
      BY <1>5, <1>10, <2>2 DEF Up
    <3> QED
      BY <1>6, <1>8, <1>9, <1>16, <3>1, <3>2, GroupJoin
  <2> QED
    BY <2>1, <2>2
<1>18. Counting(C \cup {e}, MutexOf', mutexes')
  <2>1. CASE ~(parent # 0 /\ ~safe)
    <3>1. \A x \in C \ {e} : MutexOf[x] # m
      BY <1>2, <1>6, <1>16, <2>1
    <3>2. mutexes'[m] = 1 /\ MutexOf'[e] = m /\ (\A q \in Entries \ {m} : mutexes'[q] = mutexes[q])
      BY <1>5, <1>11, <2>1
    <3> QED
      BY <1>6, <1>8, <1>9, <1>16, <3>1, <3>2, GroupOwn
  <2>2. CASE parent # 0 /\ ~safe
    <3>1. Group(C \ {e}, MutexOf, m) # {}
      BY <1>2, <1>7, <1>16, <2>2 DEF Group
    <3>2. Up(mutexes, mutexes', m) /\ MutexOf'[e] = m
      BY <1>5, <1>11, <2>2 DEF Up
    <3> QED
      BY <1>6, <1>8, <1>9, <1>16, <3>1, <3>2, GroupJoin
  <2> QED
    BY <2>1, <2>2
<1>19. Counting(CountedEntries, FeedsOf, feeds)' /\ Counting(CountedEntries, MutexOf, mutexes)'
  BY <1>4, <1>17, <1>18 DEF Counting
<1> QED
  BY <1>12, <1>14, <1>15, <1>19 DEF Counts

LEMMA ShareReady ==
  ASSUME Held, AddShare, hazard' = {}, NEW e, e = at[Hotplug], NEW parent, parent = adding.parent
  PROVE  /\ pc[Hotplug] # "Forget" /\ Alive /\ opened' = opened /\ OnlyMoves(Hotplug)
         /\ e \in Entries /\ ~Used(e) /\ Leaving(e) = {} /\ table[e].port # 0
         /\ parent \in Entries \cup {0} /\ (parent # 0 => Used(parent))
         /\ \E f, m \in Entries, safe \in BOOLEAN : ShareInto(f, m, parent, e, safe, table[e])
<1>1. /\ pc[Hotplug] = "Share" /\ Alive /\ e \in Entries /\ opened' = opened
      /\ UNCHANGED <<at, wanted>>
      /\ parent = 0 \/ (parent \in Entries /\ ~ParentGone(parent))
      /\ \E f, m \in Entries : ShareInto(f, m, parent, e, adding.library \in ThreadSafe, table[e])
  BY ShareHeld
<1>2. PICK f, m \in Entries : ShareInto(f, m, parent, e, adding.library \in ThreadSafe, table[e])
  BY <1>1
<1>3. ~Used(e) /\ Leaving(e) = {} /\ table[e].port # 0
  BY <1>1, FilledAlone DEF FillSteps, FilledAt
<1>4. Goto(Hotplug, "Initialize")
  BY <1>2 DEF ShareInto
<1>5. OnlyMoves(Hotplug)
  BY <1>1, <1>4, ThreadsApart, MovesBy DEF Held
<1>6. parent \in Entries \cup {0} /\ (parent # 0 => Used(parent))
  BY <1>1 DEF ParentGone
<1> DEFINE safe == adding.library \in ThreadSafe
<1>7. safe \in BOOLEAN /\ ShareInto(f, m, parent, e, safe, table[e])
  BY <1>2
<1> HIDE DEF safe
<1> QED
  BY <1>1, <1>3, <1>5, <1>6, <1>7

LEMMA CountsAddShare ==
  ASSUME Held, Counts, AddShare, hazard' = {}
  PROVE  Counts'
<1>1. PICK e \in Entries, parent \in Entries \cup {0}, f \in Entries, m \in Entries, safe \in BOOLEAN :
        /\ ShareInto(f, m, parent, e, safe, table[e]) /\ table[e].port # 0
        /\ ~Used(e) /\ Leaving(e) = {} /\ (parent # 0 => Used(parent))
  BY ShareReady
<1>2. pc[Hotplug] # "Forget" /\ Alive /\ opened' = opened /\ OnlyMoves(Hotplug)
  BY ShareReady
<1> QED
  BY <1>1, <1>2, CountsShare

LEMMA CountsNextSlot ==
  ASSUME Held, Counts, AddNextSlot, FreeEntries # {}, hazard' = {}, NEW first, first = adding.parent
  PROVE  Counts'
<1>1. /\ pc[Hotplug] = "NextSlot" /\ Alive /\ wanted' = wanted /\ opened' = opened
      /\ first \in Entries /\ ~ParentGone(first)
      /\ \E e, f, m \in Entries : \E entry \in Readers : NextSlotInto(e, f, m, entry)
  BY NextSlotHeld
<1>2. PICK e, f, m \in Entries, entry \in Readers : NextSlotInto(e, f, m, entry)
  BY <1>1
<1> DEFINE safe == adding.library \in SlotThreadSafe
<1>3. /\ ~Used(e) /\ Leaving(e) = {} /\ entry.port = table[first].port
      /\ at' = [at EXCEPT ![Hotplug] = e] /\ safe \in BOOLEAN
      /\ ShareInto(f, m, first, e, safe, entry)
  BY <1>2 DEF NextSlotInto, FreeEntries
<1>4. Goto(Hotplug, "Initialize")
  BY <1>3 DEF ShareInto
<1>5. OnlyMoves(Hotplug)
  BY <1>1, <1>3, <1>4, ThreadsApart, MovesBy DEF Held
<1>6. Used(first) /\ entry.port # 0 /\ pc[Hotplug] # "Forget" /\ first \in Entries \cup {0}
  BY <1>1, <1>3, ParentThere
<1> HIDE DEF safe
<1> QED
  BY <1>1, <1>3, <1>5, <1>6, CountsShare

\* A step that only starts or ends drivers.
LEMMA CountsSameShares ==
  ASSUME Held, Counts, StillForgets, UNCHANGED <<feeds, mutexes, numReaders>>,
         \A x \in Entries : /\ table'[x].port = table[x].port /\ table'[x].pFeeds = table[x].pFeeds
                            /\ table'[x].pMutex = table[x].pMutex,
         \A x \in Entries : ~Used(x)' /\ Leaving(x)' = {} => ~Used(x),
         opened' \in [Libraries -> Nat], \A l \in Libraries : opened'[l] >= Cardinality(Loaded(l)')
  PROVE  Counts'
<1>1. CountedEntries' = CountedEntries /\ FeedsOf' = FeedsOf /\ MutexOf' = MutexOf
  BY DEF CountedEntries, FeedsOf, MutexOf, Counted
<1>2. Leftover'
  <2> SUFFICES ASSUME Alive', NEW x \in CountedEntries, ~Used(x)', Leaving(x)' = {}
               PROVE  Alone(CountedEntries, FeedsOf, x) /\ Alone(CountedEntries, MutexOf, x)
    BY <1>1 DEF Leftover
  <2>1. x \in Entries /\ Counted(x) /\ ~Used(x) /\ Alive
    BY DEF CountedEntries, StillForgets
  <2>2. Leaving(x) = {}
    BY <2>1, LeftBefore DEF StillForgets
  <2> QED
    BY <2>1, <2>2 DEF Counts, Leftover
<1>3. CounterTypeOK'
  BY DEF Counts, CounterTypeOK
<1>4. Counting(CountedEntries, FeedsOf, feeds)' /\ Counting(CountedEntries, MutexOf, mutexes)'
  BY <1>1 DEF Counts, Counting
<1>5. (\A l \in Libraries : opened[l] >= Cardinality(Loaded(l)))' /\ (numReaders >= Cardinality(CountedEntries))'
  BY <1>1 DEF Counts
<1> QED
  BY <1>2, <1>3, <1>4, <1>5 DEF Counts

\* One more library loaded, or one less, for one more counter, or one less.
LEMMA OneLoaded ==
  ASSUME NEW S, IsFiniteSet(S), NEW o, NEW T, T \subseteq S \cup {o}
  PROVE  /\ Cardinality(T) <= Cardinality(S) + 1
         /\ T \subseteq S => Cardinality(T) <= Cardinality(S)
         /\ o \in S /\ o \notin T => Cardinality(T) <= Cardinality(S) - 1 /\ Cardinality(S) >= 1
<1>1. IsFiniteSet(S \cup {o}) /\ Cardinality(S) \in Nat /\ Cardinality(S \cup {o}) \in Nat
      /\ Cardinality(S \cup {o}) <= Cardinality(S) + 1
  BY FS_AddElement, FS_CardinalityType
<1>2. Cardinality(T) <= Cardinality(S \cup {o}) /\ Cardinality(T) \in Nat
  BY <1>1, FS_Subset, FS_CardinalityType
<1>3. T \subseteq S => Cardinality(T) <= Cardinality(S)
  BY FS_Subset
<1>4. ASSUME o \in S, o \notin T PROVE Cardinality(T) <= Cardinality(S) - 1 /\ Cardinality(S) >= 1
  <2>1. IsFiniteSet(S \ {o}) /\ Cardinality(S \ {o}) = Cardinality(S) - 1 /\ Cardinality(S \ {o}) \in Nat
    BY <1>4, FS_RemoveElement, FS_CardinalityType
  <2>2. T \subseteq S \ {o}
    BY <1>4
  <2>3. Cardinality(T) <= Cardinality(S \ {o})
    BY <2>1, <2>2, FS_Subset
  <2> QED
    BY <1>1, <1>2, <2>1, <2>3
<1> QED
  BY <1>1, <1>2, <1>3, <1>4

LEMMA CountsInitialize ==
  ASSUME Held, Counts, AddInitialize, NEW e, e = at[Hotplug]
  PROVE  Counts'
<1>1. pc[Hotplug] = "Initialize" /\ Alive /\ UNCHANGED <<at, wanted, feeds, mutexes, numReaders>>
  BY DEF AddInitialize
<1>2. PICK outcome \in {"ok", "load", "missing", "open"} : InitializeAs(outcome)
  BY InitializeEffect DEF Held
<1>3. e \in Entries /\ adding.library \in Libraries /\ adding.library # NULL
  BY <1>1, FilledAlone, AddingType, ReaderFactoryAssumption DEF FillSteps, Held, AddSteps, NewAdding
<1> DEFINE lib == adding.library
           o == table[e].pFeeds
<1>4. PICK loads \in BOOLEAN :
        /\ loads => ~Used(e)
        /\ \A x \in Entries \ {e} : table'[x] = table[x]
        /\ table'[e].vHandle = (IF loads THEN lib ELSE table[e].vHandle)
        /\ table'[e].port = table[e].port /\ table'[e].pFeeds = o /\ table'[e].pMutex = table[e].pMutex
        /\ opened' = (IF loads THEN [opened EXCEPT ![lib] = @ + 1] ELSE opened)
        /\ Goto(Hotplug, "Spawn") \/ Goto(Hotplug, "Removing")
  BY <1>2 DEF InitializeAs
<1>5. OnlyMoves(Hotplug) /\ Alive
  BY <1>1, <1>4, ThreadsApart, MovesBy DEF Held
<1>6. StillForgets
  BY <1>1, <1>5, ThreadsApart, ForgetsLater DEF StillForgets
<1>7. opened \in [Libraries -> Nat] /\ \A l \in Libraries : opened[l] >= Cardinality(Loaded(l))
  BY DEF Counts, CounterTypeOK
<1>8. opened' \in [Libraries -> Nat]
  BY <1>3, <1>4, <1>7
<1>9. \A x \in Entries : Used(x) => Used(x)'
  BY <1>3, <1>4 DEF Used
<1>10. ASSUME NEW l \in Libraries PROVE opened'[l] >= Cardinality(Loaded(l)')
  <2>1. Loaded(l)' \subseteq Loaded(l) \cup {o}
    BY <1>3, <1>4 DEF Loaded, Used
  <2>2. IsFiniteSet(Loaded(l)) /\ Cardinality(Loaded(l)) \in Nat
    BY CountedFinite
  <2>3. CASE loads /\ l = lib
    <3>1. opened'[l] = opened[l] + 1 /\ opened[l] \in Nat
      BY <1>3, <1>4, <1>7, <2>3
    <3>2. Cardinality(Loaded(l)') <= Cardinality(Loaded(l)) + 1
      BY <2>1, <2>2, OneLoaded
    <3>3. IsFiniteSet(Loaded(l)') /\ Cardinality(Loaded(l)') \in Nat
      <4>1. IsFiniteSet(Loaded(l) \cup {o})
        BY <2>2, FS_AddElement
      <4> QED
        BY <2>1, <4>1, FS_Subset, FS_CardinalityType
    <3> QED
      BY <1>7, <2>2, <3>1, <3>2, <3>3
  <2>4. CASE ~(loads /\ l = lib)
    <3>1. opened'[l] = opened[l]
      BY <1>3, <1>4, <1>7, <2>4
    <3>2. Loaded(l)' \subseteq Loaded(l)
      BY <1>3, <1>4, <2>4 DEF Loaded, Used
    <3>3. Cardinality(Loaded(l)') <= Cardinality(Loaded(l)) /\ Cardinality(Loaded(l)') \in Nat
      BY <2>2, <3>2, FS_Subset, FS_CardinalityType
    <3> QED
      BY <1>7, <2>2, <3>1, <3>3
  <2> QED
    BY <2>3, <2>4
<1>11. \A x \in Entries : /\ table'[x].port = table[x].port /\ table'[x].pFeeds = table[x].pFeeds
                          /\ table'[x].pMutex = table[x].pMutex
  BY <1>4
<1> QED
  BY <1>1, <1>6, <1>8, <1>9, <1>10, <1>11, CountsSameShares

\* Who uses the last of a counter uses it alone.
LEMMA LastAlone ==
  ASSUME NEW C \in SUBSET Entries, NEW p, NEW n, Counting(C, p, n), NEW e \in C, p[e] \in Entries
  PROVE  n[p[e]] \in Nat /\ n[p[e]] >= 1 /\ (n[p[e]] = 1 => Alone(C, p, e))
<1> DEFINE G == Group(C, p, p[e])
<1>1. e \in G /\ G # {}
  BY DEF Group
<1>2. n[p[e]] = Cardinality(G) /\ IsFiniteSet(G) /\ Cardinality(G) \in Nat /\ Cardinality(G) >= 1
  BY <1>1, GroupSize DEF Counting
<1>3. ASSUME n[p[e]] = 1, NEW x \in C \ {e}, p[x] = p[e] PROVE FALSE
  <2>1. x \in G \ {e}
    BY <1>3 DEF Group
  <2> HIDE DEF G
  <2>2. Cardinality(G \ {e}) = Cardinality(G) - 1 /\ IsFiniteSet(G \ {e})
    BY <1>1, <1>2, FS_RemoveElement
  <2>3. Cardinality(G \ {e}) = 0
    BY <1>2, <1>3, <2>2
  <2> QED
    BY <2>1, <2>2, <2>3, FS_EmptySet
<1> QED
  BY <1>2, <1>3 DEF Alone

LEMMA CountsClose ==
  ASSUME Held, Counts, NEW t \in Threads, RemoveClose(t), NEW e, e = at[t]
  PROVE  Counts'
<1>1. PICK o, lib : o = table[e].pFeeds /\ lib = table[e].vHandle
  OBVIOUS
<1>2. /\ \A x \in Entries \ {e} : table'[x] = table[x]
      /\ table'[e].vHandle = NULL /\ table'[e].port = table[e].port
      /\ table'[e].pFeeds = o /\ table'[e].pMutex = table[e].pMutex
      /\ opened' = (IF LastFeed(e) THEN [opened EXCEPT ![lib] = @ - 1] ELSE opened)
      /\ Used(e) /\ Goto(t, "Forget") /\ UNCHANGED <<at, wanted, feeds, mutexes, numReaders>>
      /\ pc[t] = "Close" /\ pc[t] \in GoneSteps /\ Alive
  BY <1>1, CloseEffect
<1>3. e \in Entries /\ Counted(e) /\ table[e] \in Readers
  BY <1>2, GoneAlone
<1>4. e \in CountedEntries /\ FeedsOf[e] = o /\ o \in Entries /\ lib \in Libraries
  BY <1>2, <1>3, <1>1 DEF CountedEntries, FeedsOf, Counted, Readers, Used
<1>5. OnlyMoves(t) /\ pc'[t] = "Forget"
  BY <1>2, MovesBy DEF Held
<1>6. StillForgets
  BY <1>2, <1>5, ForgetsLater DEF StillForgets
<1>7. t \in Leaving(e)'
  BY <1>2, <1>5 DEF Leaving, EndSteps
<1>8. \A x \in Entries : ~Used(x)' /\ Leaving(x)' = {} => ~Used(x)
  BY <1>2, <1>7 DEF Used
<1>9. feeds[o] \in Nat /\ feeds[o] >= 1 /\ (feeds[o] = 1 => Alone(CountedEntries, FeedsOf, e))
  <2>1. CountedEntries \in SUBSET Entries /\ Counting(CountedEntries, FeedsOf, feeds)
    BY CountedFinite DEF Counts
  <2> QED
    BY <1>4, <2>1, LastAlone
<1>10. opened \in [Libraries -> Nat] /\ \A l \in Libraries : opened[l] >= Cardinality(Loaded(l))
  BY DEF Counts, CounterTypeOK
<1>11. \A l : Loaded(l)' \subseteq Loaded(l)
  BY <1>2 DEF Loaded, Used
<1>12. \A l : /\ IsFiniteSet(Loaded(l)) /\ Cardinality(Loaded(l)) \in Nat
              /\ Cardinality(Loaded(l)') \in Nat /\ Cardinality(Loaded(l)') <= Cardinality(Loaded(l))
  BY <1>11, CountedFinite, FS_Subset, FS_CardinalityType
<1>13. \A x \in Entries : /\ table'[x].port = table[x].port /\ table'[x].pFeeds = table[x].pFeeds
                          /\ table'[x].pMutex = table[x].pMutex
  BY <1>1, <1>2
<1>14. CASE LastFeed(e)
  <2>1. \A x \in Entries \ {e} : Used(x) => table[x].pFeeds # o
    <3>1. \A x \in CountedEntries \ {e} : FeedsOf[x] # o
      BY <1>4, <1>9, <1>14, <1>1 DEF LastFeed, Alone
    <3> QED
      BY <3>1 DEF Held, HeldAt, CountedEntries, FeedsOf
  <2>2. o \in Loaded(lib) /\ o \notin Loaded(lib)'
    BY <1>2, <1>3, <1>4, <1>1, <2>1 DEF Loaded, Used
  <2>3. Cardinality(Loaded(lib)') <= Cardinality(Loaded(lib)) - 1 /\ Cardinality(Loaded(lib)) >= 1
    <3>1. Loaded(lib)' \subseteq Loaded(lib) \cup {o}
      BY <1>11
    <3> QED
      BY <1>12, <2>2, <3>1, OneLoaded
  <2>4. /\ opened'[lib] = opened[lib] - 1 /\ opened[lib] \in Nat /\ opened[lib] >= 1
        /\ \A l \in Libraries \ {lib} : opened'[l] = opened[l]
    BY <1>2, <1>4, <1>10, <1>12, <1>14, <2>3
  <2>5. opened' \in [Libraries -> Nat]
    BY <1>2, <1>4, <1>10, <1>14, <2>4
  <2>6. \A l \in Libraries : opened'[l] >= Cardinality(Loaded(l)')
    <3>1. opened'[lib] >= Cardinality(Loaded(lib)')
      BY <1>4, <1>10, <1>12, <2>3, <2>4
    <3>2. ASSUME NEW l \in Libraries \ {lib} PROVE opened'[l] >= Cardinality(Loaded(l)')
      BY <1>10, <1>12, <2>4
    <3> QED
      BY <3>1, <3>2
  <2> QED
    BY <1>2, <1>13, <1>6, <1>8, <2>5, <2>6, CountsSameShares
<1>15. CASE ~LastFeed(e)
  <2>1. opened' = opened
    BY <1>2, <1>15
  <2>2. \A l \in Libraries : opened'[l] >= Cardinality(Loaded(l)')
    BY <1>10, <1>12, <2>1
  <2> QED
    BY <1>2, <1>13, <1>6, <1>8, <1>10, <2>1, <2>2, CountsSameShares
<1> QED
  BY <1>14, <1>15

LEMMA CountsForget ==
  ASSUME Held, Counts, NEW t \in Threads, RemoveForget(t), NEW e, e = at[t]
  PROVE  Counts'
<1>1. PICK f, m : f = table[e].pFeeds /\ m = table[e].pMutex
  OBVIOUS
<1>2. /\ \A x \in Entries \ {e} : table'[x] = table[x]
      /\ table'[e].vHandle = NULL /\ table'[e].port = 0
      /\ mutexes' = [mutexes EXCEPT ![m] = @ - 1] /\ feeds' = [feeds EXCEPT ![f] = @ - 1]
      /\ numReaders' = numReaders - 1
      /\ Goto(t, Returns(t)) /\ UNCHANGED <<at, wanted, opened>>
      /\ pc[t] = "Forget" /\ pc[t] \in GoneSteps /\ Alive
  BY <1>1, ForgetEffect
<1>3. e \in Entries /\ Counted(e) /\ table[e].pMutex # 0 /\ ~Used(e) /\ table[e] \in Readers
  BY <1>2, GoneAlone
<1> DEFINE C == CountedEntries
<1>4. /\ e \in C /\ FeedsOf[e] = f /\ MutexOf[e] = m /\ f \in Entries /\ m \in Entries
      /\ C \in SUBSET Entries /\ IsFiniteSet(C) /\ Cardinality(C) \in Nat
  BY <1>1, <1>3, CountedFinite DEF CountedEntries, FeedsOf, MutexOf, Counted, Readers
<1>5. CountedEntries' = C \ {e}
  BY <1>2, <1>3 DEF CountedEntries, Counted
<1>6. \A x \in C \ {e} : FeedsOf'[x] = FeedsOf[x] /\ MutexOf'[x] = MutexOf[x]
  BY <1>2 DEF CountedEntries, FeedsOf, MutexOf
<1>7. Counting(C, FeedsOf, feeds) /\ Counting(C, MutexOf, mutexes) /\ CounterTypeOK
  BY DEF Counts
<1>8. OnlyMoves(t)
  BY <1>2, MovesBy DEF Held
<1>9. Leftover'
  <2> SUFFICES ASSUME Alive', NEW x \in C \ {e}, ~Used(x)', Leaving(x)' = {}
               PROVE  Alone(C \ {e}, FeedsOf', x) /\ Alone(C \ {e}, MutexOf', x)
    BY <1>5 DEF Leftover
  <2>1. x \in Entries /\ x # e /\ Counted(x) /\ ~Used(x)
    BY <1>2 DEF CountedEntries, Used
  <2>2. \A u \in Threads : pc[u] = "Forget" /\ at[u] = x => pc'[u] = "Forget" /\ at'[u] = x
    BY <1>8, <2>1 DEF OnlyMoves
  <2>3. Leaving(x) = {}
    BY <2>1, <2>2, LeftBefore
  <2>4. Alone(C, FeedsOf, x) /\ Alone(C, MutexOf, x)
    BY <1>2, <2>1, <2>3 DEF Counts, Leftover
  <2> HIDE DEF C
  <2> QED
    BY <1>6, <2>4 DEF Alone
<1>10. \A l : Loaded(l)' = Loaded(l)
  <2>1. \A x \in Entries : Used(x)' = Used(x) /\ (Used(x) => table'[x] = table[x])
    BY <1>2, <1>3 DEF Used
  <2> QED
    BY <2>1 DEF Loaded
<1> HIDE DEF C
<1>11. feeds[f] \in Nat /\ feeds[f] >= 1 /\ mutexes[m] \in Nat /\ mutexes[m] >= 1
  BY <1>4, <1>7, LastAlone
<1>12. /\ Down(feeds, feeds', f) /\ feeds' \in [Entries -> Nat]
       /\ Down(mutexes, mutexes', m) /\ mutexes' \in [Entries -> Nat]
  BY <1>2, <1>4, <1>7, <1>11 DEF Down, CounterTypeOK
<1>13. Counting(C \ {e}, FeedsOf', feeds')
  <2>1. Down(feeds, feeds', f) /\ (\A x \in C \ {e} : FeedsOf'[x] = FeedsOf[x])
    BY <1>6, <1>12
  <2> QED
    BY <1>4, <1>7, <2>1, GroupLeave
<1>14. Counting(C \ {e}, MutexOf', mutexes')
  <2>1. Down(mutexes, mutexes', m) /\ (\A x \in C \ {e} : MutexOf'[x] = MutexOf[x])
    BY <1>6, <1>12
  <2> QED
    BY <1>4, <1>7, <2>1, GroupLeave
<1>15. Cardinality(C \ {e}) = Cardinality(C) - 1 /\ Cardinality(C \ {e}) \in Nat
  BY <1>4, FS_RemoveElement, FS_CardinalityType
<1>16. numReaders' \in Nat /\ (numReaders >= Cardinality(CountedEntries))'
  <2>1. numReaders >= Cardinality(C) /\ numReaders \in Nat
    BY <1>7 DEF Counts, C, CounterTypeOK
  <2>2. numReaders' >= Cardinality(C \ {e}) /\ numReaders' \in Nat
    BY <1>2, <1>4, <1>15, <2>1
  <2> QED
    BY <1>5, <2>2
<1>17. Counting(CountedEntries, FeedsOf, feeds)' /\ Counting(CountedEntries, MutexOf, mutexes)'
  BY <1>5, <1>13, <1>14
<1>18. CounterTypeOK' /\ (\A l \in Libraries : opened[l] >= Cardinality(Loaded(l)))'
  BY <1>2, <1>7, <1>10, <1>12, <1>16 DEF Counts, CounterTypeOK
<1> QED
  BY <1>9, <1>16, <1>17, <1>18 DEF Counts

LEMMA InitCounts == Init => Counts
<1> SUFFICES ASSUME Init PROVE Counts
  OBVIOUS
<1>1. /\ table = [e \in Entries |-> Unused] /\ feeds = [e \in Entries |-> 0] /\ mutexes = [e \in Entries |-> 0]
      /\ opened = [l \in Libraries |-> 0] /\ numReaders = 0
  BY DEF Init
<1>2. \A e \in Entries : ~Used(e) /\ ~Counted(e)
  BY <1>1 DEF Used, Counted, Unused
<1>3. CountedEntries = {} /\ \A l : Loaded(l) = {}
  BY <1>2 DEF CountedEntries, Loaded
<1>4. Cardinality({}) = 0
  BY FS_EmptySet
<1>5. Counting(CountedEntries, FeedsOf, feeds) /\ Counting(CountedEntries, MutexOf, mutexes) /\ Leftover
  BY <1>3 DEF Counting, Group, Leftover
<1> QED
  BY <1>1, <1>3, <1>4, <1>5 DEF Counts, CounterTypeOK

LEMMA NextCounts ==
  ASSUME Held, Counts, [Next]_vars, hazard' = {}
  PROVE  Counts'
<1>1. ASSUME NEW t \in Threads, RemoveClose(t) \/ RemoveForget(t) PROVE Counts'
  BY <1>1, CountsClose, CountsForget
<1> QED
  BY <1>1, StepCases, CountsQuiet, CountsTake, CountsAddShare, CountsInitialize, CountsNextSlot

LEMMA CountsAlways == Spec => []CountsInv
<1>1. Init => CountsInv
  BY InitHeld, InitCounts DEF CountsInv
<1>2. CountsInv /\ [Next]_vars => CountsInv'
  BY NextHeld, NextCounts, HazardGrows DEF CountsInv
<1> QED
  BY <1>1, <1>2, PTL DEF Spec

\* pFeeds and pMutex count exactly the readers that point to them, so that
\* neither is freed while a reader uses it (RFAddReader, RFInitializeReader
\* and removeReader of readerfactory.c).
THEOREM SharedCounters == Spec => []CountersCountReaders
<1>1. CountsInv => CountersCountReaders
  <2> SUFFICES ASSUME hazard = {}, Held, Counts, NEW e \in Entries, Counted(e)
               PROVE  /\ feeds[table[e].pFeeds] = Cardinality({x \in Entries : Counted(x) /\ table[x].pFeeds = table[e].pFeeds})
                      /\ mutexes[table[e].pMutex] = Cardinality({x \in Entries : Counted(x) /\ table[x].pMutex = table[e].pMutex})
    BY DEF CountsInv, CountersCountReaders
  <2>1. table[e].pFeeds \in Entries /\ table[e].pMutex \in Entries
    BY DEF Held, HeldAt, Counted, Typed, TableTypeOK, Readers
  <2>2. \A o : /\ Group(CountedEntries, FeedsOf, o) = {x \in Entries : Counted(x) /\ table[x].pFeeds = o}
               /\ Group(CountedEntries, MutexOf, o) = {x \in Entries : Counted(x) /\ table[x].pMutex = o}
    BY DEF Group, CountedEntries, FeedsOf, MutexOf
  <2>3. /\ e \in {x \in Entries : Counted(x) /\ table[x].pFeeds = table[e].pFeeds}
        /\ e \in {x \in Entries : Counted(x) /\ table[x].pMutex = table[e].pMutex}
    OBVIOUS
  <2> QED
    BY <2>1, <2>2, <2>3 DEF Counts, Counting
<1> QED
  BY <1>1, CountsAlways, PTL

\* The library of a reader in the table is loaded, whichever of the readers
\* opened it and in whatever order they go (RFInitializeReader and
\* RFUnInitializeReader).
THEOREM Loading == Spec => []LibraryLoaded
<1>1. CountsInv => LibraryLoaded
  <2> SUFFICES ASSUME hazard = {}, Held, Counts, NEW e \in Entries, Used(e)
               PROVE  opened[table[e].vHandle] > 0
    BY DEF CountsInv, LibraryLoaded
  <2>1. table[e].vHandle \in Libraries /\ table[e].pFeeds \in Entries
    BY DEF Held, HeldAt, Counted, Used, Typed, TableTypeOK, Readers
  <2>2. table[e].pFeeds \in Loaded(table[e].vHandle)
    BY <2>1 DEF Loaded
  <2>3. Cardinality(Loaded(table[e].vHandle)) \in Nat /\ Cardinality(Loaded(table[e].vHandle)) # 0
    BY <2>2, CountedFinite, FS_EmptySet
  <2>4. opened[table[e].vHandle] >= Cardinality(Loaded(table[e].vHandle)) /\ opened[table[e].vHandle] \in Nat
    BY <2>1 DEF Counts, CounterTypeOK
  <2> QED
    BY <2>3, <2>4
<1> QED
  BY <1>1, CountsAlways, PTL

\* The variables keep their types as long as nothing has gone wrong: a counter
\* of readers, of loads or of users never goes below 0.
THEOREM ReaderTypes == Spec => [](hazard = {} => RFTypeOK)
<1>1. CountsInv => (hazard = {} => RFTypeOK)
  BY DEF CountsInv, Held, Typed, Counts, RFTypeOK
<1> QED
  BY <1>1, CountsAlways, PTL
-----------------------------------------------------------------------------
(***************************************************************************)
(* Names.                                                                  *)
(***************************************************************************)
SameReader(x, y) == x.base = y.base /\ x.digit = y.digit

\* The reader that is being added has the digit of its own slots only, and a
\* slot that none of them has.
NamedAt(e) ==
  /\ table[e].name.slot = adding.slot
  /\ \A x \in Entries \ {e} :
       Used(x) /\ SameReader(table[x].name, table[e].name) => table[x].name.slot < adding.slot
  /\ adding.slot # 0 =>
       /\ adding.parent \in Entries \ {e}
       /\ Used(adding.parent) => SameReader(table[adding.parent].name, table[e].name)

NamedNext(first) ==
  \A x \in Entries :
    Used(x) /\ SameReader(table[x].name, table[first].name) => table[x].name.slot < adding.slot

Named ==
  /\ pc[Hotplug] \in FillSteps => NamedAt(at[Hotplug])
  /\ pc[Hotplug] = "NextSlot" /\ Used(adding.parent) => NamedNext(adding.parent)

NamedInv == hazard = {} => Held /\ Counts /\ Named

LEMMA NameTypes ==
  ASSUME Held, NEW x \in Entries, table[x].name # NULL
  PROVE  table[x].name \in Names /\ table[x].name.slot \in Nat
<1>1. table[x].name \in Names
  BY DEF Held, Typed, TableTypeOK, Readers
<1>2. table[x].name.slot \in UNION {0..Slots[d] - 1 : d \in Devices}
  BY <1>1 DEF Names
<1> QED
  BY <1>1, <1>2, ReaderFactoryAssumption

\* Who removes a reader does not add one.
LEMMA RemovalMoves ==
  ASSUME Held, NEW t \in Threads, Remove(t)
  PROVE  /\ adding' = adding /\ tracker' = tracker
         /\ t = Hotplug => pc'[Hotplug] \notin FillSteps \cup {"NextSlot"}
         /\ t # Hotplug => pc'[Hotplug] = pc[Hotplug] /\ at'[Hotplug] = at[Hotplug]
<1>1. adding' = adding /\ tracker' = tracker
  BY DEF Remove, RemoveNext, UnrefTest, RemoveKill, RemoveJoin, RemoveClose, RemoveForget, hotplugVars
<1>2. at' = at \/ \E e : at' = [at EXCEPT ![t] = e]
  BY DEF Remove, RemoveNext, Removed, UnrefDecrement, UnrefTest, RemoveKill, RemoveJoin, RemoveClose, RemoveForget
<1>3. \E label \in EndSteps \cup {"Idle", "Removing", "Cleaning", "AddFailed", "Sweep"} : Goto(t, label)
  <2>1. Returns(t) \in {"Idle", "Removing"}
    BY ReturnsType DEF Threads
  <2>2. ASSUME RemoveNext(t)
        PROVE  \E label \in {"Tested", "Cleaning", "AddFailed", "Sweep"} : Goto(t, label)
    BY <2>2 DEF RemoveNext, Removed, UnrefDecrement, Goto
  <2> QED
    BY <2>1, <2>2 DEF Remove, UnrefTest, RemoveKill, RemoveJoin, RemoveClose, RemoveForget, EndSteps
<1>4. PICK label \in EndSteps \cup {"Idle", "Removing", "Cleaning", "AddFailed", "Sweep"} : Goto(t, label)
  BY <1>3
<1>5. label \notin FillSteps \cup {"NextSlot"}
  BY DEF EndSteps, FillSteps
<1> QED
  BY <1>1, <1>2, <1>4, <1>5, ThreadsApart DEF Goto, Held, Typed, ThreadTypeOK

LEMMA ClientMoves ==
  ASSUME Held, NEW c \in Callers, Client(c)
  PROVE  pc'[Hotplug] = pc[Hotplug] /\ at'[Hotplug] = at[Hotplug] /\ adding' = adding /\ tracker' = tracker
<1>1. adding' = adding /\ tracker' = tracker
  BY DEF Client, RFReaderInfo, RefReader, UnrefReader, hotplugVars
<1>2. at' = at \/ \E e : at' = [at EXCEPT ![c] = e]
  BY DEF Client, RFReaderInfo, RefReader, UnrefReader, UnrefDecrement
<1>3. \E label : pc' = [pc EXCEPT ![c] = label]
  BY DEF Client, RFReaderInfo, RefReader, UnrefReader, UnrefDecrement, Goto
<1> QED
  BY <1>1, <1>2, <1>3, ThreadsApart DEF Held, Typed, ThreadTypeOK

LEMMA BesideMoves ==
  ASSUME Held, \/ \E e \in Entries : PollingThread(e)
               \/ \E d \in Devices : Plug(d) \/ Unplug(d)
               \/ SignalTrap \/ Stop \/ RFCleanupReaders
               \/ UNCHANGED vars
  PROVE  pc'[Hotplug] = pc[Hotplug] /\ at'[Hotplug] = at[Hotplug] /\ adding' = adding /\ tracker' = tracker
<1>1. adding' = adding /\ at' = at /\ tracker' = tracker
  BY DEF PollingThread, PollingEnds, PollingSeesCardGone, Plug, Unplug, SignalTrap, Stop, RFCleanupReaders, vars,
         hotplugVars, threadVars
<1>2. pc' = pc \/ \E label : pc' = [pc EXCEPT ![Main] = label]
  BY DEF PollingThread, PollingEnds, PollingSeesCardGone, Plug, Unplug, SignalTrap, Stop, RFCleanupReaders, vars,
         threadVars, Goto
<1> QED
  BY <1>1, <1>2, ThreadsApart DEF Held, Typed, ThreadTypeOK

LEMMA NamedOut ==
  ASSUME pc'[Hotplug] \notin FillSteps \cup {"NextSlot"}
  PROVE  Named'
BY DEF Named

\* Readers go, and the one that is being added stays.
LEMMA NamedStays ==
  ASSUME Held, Named, pc'[Hotplug] = pc[Hotplug], at'[Hotplug] = at[Hotplug], adding' = adding,
         \A x \in Entries : Used(x)' => Used(x) /\ table'[x].name = table[x].name,
         pc[Hotplug] \in FillSteps => table'[at[Hotplug]].name = table[at[Hotplug]].name
  PROVE  Named'
<1>1. ASSUME pc[Hotplug] \in FillSteps PROVE NamedAt(at[Hotplug])'
  BY <1>1 DEF Named, NamedAt
<1>2. ASSUME pc[Hotplug] = "NextSlot", Used(adding.parent)' PROVE NamedNext(adding.parent)'
  <2>1. adding.parent \in Entries
    BY <1>2 DEF Held, Typed, Placed
  <2>2. NamedNext(adding.parent) /\ table'[adding.parent].name = table[adding.parent].name
    BY <1>2, <2>1 DEF Named
  <2> QED
    BY <2>2 DEF NamedNext
<1> QED
  BY <1>1, <1>2 DEF Named

LEMMA NamedTake ==
  ASSUME Held, Counts, AddReader, ~AddRefused, hazard' = {}
  PROVE  Named'
<1>1. PICK e, parent \in Entries \cup {0}, digit \in Digits : Take(e, digit, parent)
  BY AddReaderEffect DEF Held
<1>2. adding \in NewAdding
  BY AddingType DEF AddReader, AddSteps, Held
<1>3. PICK base, port, library : base = ReaderName[adding.device] /\ port = adding.port /\ library = adding.library
  OBVIOUS
<1>4. /\ e \in Entries /\ ~Used(e)
      /\ \A x \in Entries \ {e} : table'[x] = table[x]
      /\ table'[e].name = [base |-> base, digit |-> digit, slot |-> 0]
      /\ adding' = [adding EXCEPT !.parent = parent, !.slot = 0]
      /\ at' = [at EXCEPT ![Hotplug] = e] /\ Goto(Hotplug, "Share")
  BY <1>1, <1>3 DEF Take, FreeEntries
<1>5. adding'.slot = 0
  BY <1>2, <1>4 DEF NewAdding
<1>6. at'[Hotplug] = e /\ pc'[Hotplug] = "Share"
  BY <1>4, ThreadsApart DEF Goto, Held, Typed, ThreadTypeOK
<1>7. ASSUME NEW x \in Entries, Used(x) PROVE ~(table[x].name.base = base /\ table[x].name.digit = digit)
  <2> SUFFICES ASSUME table[x].name.base = base, table[x].name.digit = digit PROVE FALSE
    OBVIOUS
  <2>1. numReaders # 0
    <3>1. x \in CountedEntries
      BY <1>7 DEF Held, HeldAt, CountedEntries
    <3>2. Cardinality(CountedEntries) # 0 /\ Cardinality(CountedEntries) \in Nat
      BY <3>1, CountedFinite, FS_EmptySet
    <3> QED
      BY <3>2 DEF Counts, CounterTypeOK
  <2>2. table[x].library = library
    BY <1>1, <1>3, <1>7 DEF Take
  <2>3. x \notin Relatives(library, port)
    BY <1>1, <1>3, <2>1 DEF Take
  <2>4. table[x].port = port
    BY <1>7, <2>2, <2>3 DEF Relatives
  <2>5. ~Duplicate(base, port)
    BY <1>1, <1>3 DEF Take
  <2> QED
    BY <1>7, <2>1, <2>4, <2>5 DEF Duplicate, Matches
<1>8. NamedAt(e)'
  <2>1. \A x \in Entries \ {e} : Used(x)' => ~SameReader(table[x].name, table[e].name)'
    BY <1>4, <1>7 DEF SameReader, Used
  <2> QED
    BY <1>4, <1>5, <2>1 DEF NamedAt
<1> QED
  BY <1>6, <1>8 DEF Named

\* The reader that is being added is filled.
LEMMA NamedFill ==
  ASSUME Held, Named, pc[Hotplug] \in FillSteps, NEW e, e = at[Hotplug], at'[Hotplug] = e, adding' = adding,
         \A x \in Entries \ {e} : table'[x] = table[x], table'[e].name = table[e].name,
         pc'[Hotplug] # "NextSlot"
  PROVE  Named'
<1>1. NamedAt(e)
  BY DEF Named
<1>2. NamedAt(e)'
  BY <1>1 DEF NamedAt, Used
<1> QED
  BY <1>2 DEF Named

LEMMA NamedShare ==
  ASSUME Held, Named, AddShare, hazard' = {}, NEW e, e = at[Hotplug]
  PROVE  Named'
<1>1. /\ pc[Hotplug] = "Share" /\ UNCHANGED <<at, adding>>
      /\ \E f, m \in Entries : ShareInto(f, m, adding.parent, e, adding.library \in ThreadSafe, table[e])
  BY ShareHeld
<1>2. /\ \A x \in Entries \ {e} : table'[x] = table[x]
      /\ table'[e].name = table[e].name /\ Goto(Hotplug, "Initialize")
  BY <1>1 DEF ShareInto
<1>3. pc'[Hotplug] = "Initialize"
  BY <1>2, ThreadsApart DEF Goto, Held, Typed, ThreadTypeOK
<1> QED
  BY <1>1, <1>2, <1>3, NamedFill DEF FillSteps

LEMMA NamedInitialize ==
  ASSUME Held, Named, AddInitialize, NEW e, e = at[Hotplug]
  PROVE  Named'
<1>1. pc[Hotplug] = "Initialize" /\ at' = at
  BY DEF AddInitialize
<1>2. PICK outcome \in {"ok", "load", "missing", "open"} : InitializeAs(outcome)
  BY InitializeEffect DEF Held
<1>3. /\ \A x \in Entries \ {e} : table'[x] = table[x]
      /\ table'[e].name = table[e].name
      /\ (Goto(Hotplug, "Spawn") /\ adding' = adding) \/ Goto(Hotplug, "Removing")
  BY <1>2 DEF InitializeAs
<1>4. (pc'[Hotplug] = "Spawn" /\ adding' = adding) \/ pc'[Hotplug] = "Removing"
  BY <1>3, ThreadsApart DEF Goto, Held, Typed, ThreadTypeOK
<1>5. CASE pc'[Hotplug] = "Removing"
  BY <1>5, NamedOut DEF FillSteps
<1>6. CASE pc'[Hotplug] = "Spawn" /\ adding' = adding
  BY <1>1, <1>3, <1>6, NamedFill DEF FillSteps
<1> QED
  BY <1>4, <1>5, <1>6

\* The next slot has a number that no slot of the reader has.
LEMMA NamedSpawn ==
  ASSUME Held, Named, AddSpawn, NEW e, e = at[Hotplug]
  PROVE  Named'
<1>1. pc[Hotplug] = "Spawn" /\ at' = at
  BY DEF AddSpawn
<1>2. PICK ok \in BOOLEAN : SpawnAs(ok)
  BY SpawnEffect DEF Held
<1>3. /\ SameLinks
      /\ \/ Goto(Hotplug, "Added") \/ Goto(Hotplug, "Removing")
         \/ /\ Goto(Hotplug, "NextSlot")
            /\ adding' = [adding EXCEPT !.slot = @ + 1, !.parent = IF adding.slot = 0 THEN e ELSE @]
  BY <1>2 DEF SpawnAs
<1>4. \/ pc'[Hotplug] \in {"Added", "Removing"}
      \/ /\ pc'[Hotplug] = "NextSlot"
         /\ adding' = [adding EXCEPT !.slot = @ + 1, !.parent = IF adding.slot = 0 THEN e ELSE @]
  BY <1>3, ThreadsApart DEF Goto, Held, Typed, ThreadTypeOK
<1>5. CASE pc'[Hotplug] \in {"Added", "Removing"}
  BY <1>5, NamedOut DEF FillSteps
<1>6. CASE /\ pc'[Hotplug] = "NextSlot"
           /\ adding' = [adding EXCEPT !.slot = @ + 1, !.parent = IF adding.slot = 0 THEN e ELSE @]
  <2>1. adding \in NewAdding /\ e \in Entries /\ NamedAt(e)
    BY <1>1, AddingType, FilledAlone DEF AddSteps, FillSteps, Held, Named
  <2>2. /\ adding'.slot = adding.slot + 1 /\ adding.slot \in Nat
        /\ adding'.parent = (IF adding.slot = 0 THEN e ELSE adding.parent)
    BY <1>6, <2>1 DEF NewAdding
  <2>3. \A x \in Entries : Used(x)' = Used(x) /\ table'[x].name = table[x].name
    BY <1>3, SameLinksAt DEF SameAt, Used, SameLinks
  <2>4. ASSUME Used(adding'.parent), NEW x \in Entries, Used(x),
               SameReader(table[x].name, table[adding'.parent].name)
        PROVE  table[x].name.slot < adding.slot + 1
    <3>1. SameReader(table[x].name, table[e].name)
      BY <2>1, <2>2, <2>4 DEF NamedAt, SameReader
    <3>2. table[x].name # NULL
      BY <2>4 DEF Held, HeldAt
    <3>3. table[x].name.slot \in Nat
      BY <3>2, NameTypes
    <3>4. CASE x = e
      BY <2>1, <2>2, <3>4 DEF NamedAt
    <3>5. CASE x # e
      BY <2>1, <2>2, <2>4, <3>1, <3>3, <3>5 DEF NamedAt
    <3> QED
      BY <3>4, <3>5
  <2>5. adding'.parent \in Entries
    BY <2>1, <2>2 DEF NamedAt
  <2>6. Used(adding.parent)' => NamedNext(adding.parent)'
    BY <2>2, <2>3, <2>4, <2>5 DEF NamedNext, Used
  <2>7. "NextSlot" \notin FillSteps
    BY DEF FillSteps
  <2> QED
    BY <1>6, <2>6, <2>7 DEF Named
<1> QED
  BY <1>4, <1>5, <1>6

LEMMA NamedNextSlot ==
  ASSUME Held, Named, AddNextSlot, FreeEntries # {}, hazard' = {}, NEW first, first = adding.parent
  PROVE  Named'
<1>1. /\ pc[Hotplug] = "NextSlot" /\ Alive /\ adding \in NewAdding
      /\ first \in Entries /\ ~ParentGone(first)
      /\ \E e, f, m \in Entries : \E entry \in Readers : NextSlotInto(e, f, m, entry)
  BY NextSlotHeld
<1>2. PICK e, f, m \in Entries, entry \in Readers : NextSlotInto(e, f, m, entry)
  BY <1>1
<1>3. Used(first) /\ table[first].name # NULL
  BY <1>1, ParentThere
<1>4. /\ ~Used(e) /\ at' = [at EXCEPT ![Hotplug] = e] /\ adding' = adding
      /\ entry.name = [base |-> table[first].name.base, digit |-> table[first].name.digit, slot |-> adding.slot]
      /\ ShareInto(f, m, first, e, adding.library \in SlotThreadSafe, entry)
  BY <1>2, <1>3 DEF NextSlotInto, FreeEntries
<1>5. /\ \A x \in Entries \ {e} : table'[x] = table[x]
      /\ table'[e].name = entry.name /\ Goto(Hotplug, "Initialize")
  BY <1>4 DEF ShareInto
<1>6. pc'[Hotplug] = "Initialize" /\ at'[Hotplug] = e
  BY <1>4, <1>5, ThreadsApart DEF Goto, Held, Typed, ThreadTypeOK
<1>7. NamedNext(first)
  BY <1>1, <1>3 DEF Named
<1>8. NamedAt(e)'
  <2>1. table'[e].name.slot = adding'.slot
    BY <1>4, <1>5
  <2>2. first \in Entries \ {e} /\ adding'.parent = first
    BY <1>1, <1>3, <1>4
  <2>3. SameReader(table'[first].name, table'[e].name)
    BY <1>4, <1>5, <2>2 DEF SameReader
  <2>4. ASSUME NEW x \in Entries \ {e}, Used(x)', SameReader(table'[x].name, table'[e].name)
        PROVE  table'[x].name.slot < adding'.slot
    BY <1>4, <1>5, <1>7, <2>4 DEF NamedNext, SameReader, Used
  <2> QED
    BY <2>1, <2>2, <2>3, <2>4 DEF NamedAt
<1> QED
  BY <1>6, <1>8 DEF Named

\* A removal: the reader that is being added is another one.
LEMMA RemovalKeepsFilled ==
  ASSUME Held, NEW t \in Threads, Remove(t)
  PROVE  /\ \A x \in Entries : Used(x)' => Used(x) /\ table'[x].name = table[x].name
         /\ pc[Hotplug] \in FillSteps => table'[at[Hotplug]].name = table[at[Hotplug]].name
<1>1. CASE RemoveNext(t) \/ UnrefTest(t) \/ RemoveKill(t) \/ RemoveJoin(t)
  BY <1>1, QuietRemoval, FilledAlone DEF Quiet, KeepsLinks, Used
<1>2. ASSUME NEW e, e = at[t], RemoveClose(t) \/ RemoveForget(t)
      PROVE  /\ \A x \in Entries : Used(x)' => Used(x) /\ table'[x].name = table[x].name
             /\ pc[Hotplug] \in FillSteps => table'[at[Hotplug]].name = table[at[Hotplug]].name
  <2>1. (\A x \in Entries \ {e} : table'[x] = table[x]) /\ table'[e].vHandle = NULL /\ pc[t] \in GoneSteps
    BY <1>2, CloseEffect, ForgetEffect
  <2>2. pc[Hotplug] \in FillSteps => at[Hotplug] \in Entries \ {e}
    BY <1>2, <2>1, GoneAlone, FilledAlone
  <2> QED
    BY <2>1, <2>2 DEF Used
<1> QED
  BY <1>1, <1>2 DEF Remove

LEMMA NextNamed ==
  ASSUME Held, Counts, Named, [Next]_vars, hazard' = {}
  PROVE  Named'
<1>1. CASE HotplugThread
  <2>1. CASE HPReceive \/ HPRescanUsbBus \/ HPRescanNew \/ HPSweep \/ HPAddEnd
    <3>1. PICK label \in OutSteps : Goto(Hotplug, label)
      BY <2>1, HotplugMoves
    <3>2. pc'[Hotplug] = label
      BY <3>1, ThreadsApart DEF Goto, Held, Typed, ThreadTypeOK
    <3> QED
      BY <3>2, NamedOut DEF OutSteps, FillSteps
  <2>2. CASE AddReader /\ AddRefused
    <3>1. Goto(Hotplug, "AddFailed")
      BY <2>2 DEF AddReader, AddRefused, AddFails
    <3>2. pc'[Hotplug] = "AddFailed"
      BY <3>1, ThreadsApart DEF Goto, Held, Typed, ThreadTypeOK
    <3> QED
      BY <3>2, NamedOut DEF FillSteps
  <2>3. CASE AddReader /\ ~AddRefused
    BY <2>3, NamedTake
  <2>4. CASE AddShare \/ AddInitialize \/ AddSpawn
    BY <2>4, NamedShare, NamedInitialize, NamedSpawn
  <2>5. CASE AddNextSlot /\ FreeEntries = {}
    <3>1. Goto(Hotplug, "Removing")
      BY <2>5 DEF AddNextSlot
    <3>2. pc'[Hotplug] = "Removing"
      BY <3>1, ThreadsApart DEF Goto, Held, Typed, ThreadTypeOK
    <3> QED
      BY <3>2, NamedOut DEF FillSteps
  <2>6. CASE AddNextSlot /\ FreeEntries # {}
    BY <2>6, NamedNextSlot
  <2> QED
    BY <1>1, <2>1, <2>2, <2>3, <2>4, <2>5, <2>6 DEF HotplugThread, Add
<1>2. ASSUME NEW t \in Threads, Remove(t) PROVE Named'
  BY <1>2, RemovalMoves, RemovalKeepsFilled, NamedOut, NamedStays
<1>3. ASSUME NEW c \in Callers, Client(c) PROVE Named'
  BY <1>3, ClientMoves, QuietClient, FilledAlone, NamedStays DEF Quiet, KeepsLinks, Used
<1>4. CASE \/ \E e \in Entries : PollingThread(e)
           \/ \E d \in Devices : Plug(d) \/ Unplug(d)
           \/ SignalTrap \/ Stop \/ RFCleanupReaders
           \/ UNCHANGED vars
  BY <1>4, BesideMoves, QuietBeside, FilledAlone, NamedStays DEF Quiet, KeepsLinks, Used
<1> QED
  BY <1>1, <1>2, <1>3, <1>4 DEF Next

LEMMA InitNamed == Init => Named
<1>1. Init => pc[Hotplug] = "Idle"
  BY ThreadsApart DEF Init
<1> QED
  BY <1>1 DEF Named, FillSteps

LEMMA NamedAlways == Spec => []NamedInv
<1>1. Init => NamedInv
  BY InitHeld, InitCounts, InitNamed DEF NamedInv
<1>2. NamedInv /\ [Next]_vars => NamedInv'
  BY NextHeld, NextCounts, NextNamed, HazardGrows DEF NamedInv
<1> QED
  BY <1>1, <1>2, PTL DEF Spec

\* The table as the applications see it.
Shown == [e \in {x \in Entries : Used(x)} |-> table[e].name]

LEMMA ShownSame ==
  ASSUME \A x \in Entries : Used(x)' = Used(x) /\ (Used(x) => table'[x].name = table[x].name)
  PROVE  Shown' = Shown
BY DEF Shown

LEMMA ShownAdd ==
  ASSUME NEW e \in Entries, NEW n \in Names, ~Used(e), Used(e)', table'[e].name = n,
         \A x \in Entries \ {e} : Used(x)' = Used(x) /\ (Used(x) => table'[x].name = table[x].name /\ table[x].name # n)
  PROVE  NamesOf!Next
<1>1. DOMAIN Shown = {x \in Entries : Used(x)} /\ \A x \in DOMAIN Shown : Shown[x] = table[x].name
  BY DEF Shown
<1>2. e \notin DOMAIN Shown /\ n \notin {Shown[p] : p \in DOMAIN Shown}
  BY <1>1
<1>3. Shown' = [q \in DOMAIN Shown \cup {e} |-> IF q = e THEN n ELSE Shown[q]]
  <2>1. {x \in Entries : Used(x)'} = DOMAIN Shown \cup {e}
    BY <1>1
  <2>2. \A x \in DOMAIN Shown \cup {e} : table'[x].name = (IF x = e THEN n ELSE Shown[x])
    BY <1>1
  <2>3. Shown' = [x \in {y \in Entries : Used(y)'} |-> table'[x].name]
    BY DEF Shown
  <2> QED
    BY <2>1, <2>2, <2>3
<1>4. NamesOf!Add(e, n)
  BY <1>2, <1>3 DEF NamesOf!Add, NamesOf!Taken, Shown
<1> QED
  BY <1>4 DEF NamesOf!Next

LEMMA ShownRemove ==
  ASSUME NEW e \in Entries, Used(e), ~Used(e)',
         \A x \in Entries \ {e} : Used(x)' = Used(x) /\ (Used(x) => table'[x].name = table[x].name)
  PROVE  NamesOf!Next
<1>1. DOMAIN Shown = {x \in Entries : Used(x)} /\ \A x \in DOMAIN Shown : Shown[x] = table[x].name
  BY DEF Shown
<1>2. Shown' = [q \in DOMAIN Shown \ {e} |-> Shown[q]]
  <2>1. {x \in Entries : Used(x)'} = DOMAIN Shown \ {e}
    BY <1>1
  <2>2. \A x \in DOMAIN Shown \ {e} : table'[x].name = Shown[x]
    BY <1>1
  <2>3. Shown' = [x \in {y \in Entries : Used(y)'} |-> table'[x].name]
    BY DEF Shown
  <2> QED
    BY <2>1, <2>2, <2>3
<1>3. NamesOf!Remove(e)
  BY <1>1, <1>2 DEF NamesOf!Remove, Shown
<1> QED
  BY <1>3 DEF NamesOf!Next

\* No reader in the table has the name of the one that is being added.
LEMMA FilledNewName ==
  ASSUME Held, Named, pc[Hotplug] \in FillSteps, NEW e, e = at[Hotplug]
  PROVE  /\ e \in Entries /\ table[e].name \in Names
         /\ \A x \in Entries \ {e} : Used(x) => table[x].name # table[e].name
<1>1. e \in Entries /\ table[e].name # NULL /\ NamedAt(e)
  BY FilledAlone DEF FilledAt, Named
<1>2. table[e].name \in Names /\ table[e].name.slot \in Nat
  BY <1>1, NameTypes
<1>3. ASSUME NEW x \in Entries \ {e}, Used(x), table[x].name = table[e].name PROVE FALSE
  BY <1>1, <1>2, <1>3 DEF NamedAt, SameReader
<1> QED
  BY <1>1, <1>2, <1>3

LEMMA NamesShare ==
  ASSUME Held, Named, AddShare, hazard' = {}, NEW e, e = at[Hotplug], NEW parent, parent = adding.parent
  PROVE  NamesOf!Next \/ Shown' = Shown
<1>1. /\ pc[Hotplug] = "Share" /\ e \in Entries /\ (parent = 0 \/ (parent \in Entries /\ ~ParentGone(parent)))
      /\ \E f, m \in Entries : ShareInto(f, m, parent, e, adding.library \in ThreadSafe, table[e])
  BY ShareHeld
<1>2. /\ \A x \in Entries \ {e} : table'[x] = table[x]
      /\ table'[e].name = table[e].name
      /\ table'[e].vHandle = IF parent = 0 THEN NULL ELSE table[parent].vHandle
  BY <1>1 DEF ShareInto
<1>3. /\ ~Used(e) /\ table[e].name \in Names
      /\ \A x \in Entries \ {e} : Used(x) => table[x].name # table[e].name
  BY <1>1, FilledAlone, FilledNewName DEF FillSteps, FilledAt
<1>4. CASE parent = 0
  BY <1>2, <1>3, <1>4, ShownSame DEF Used
<1>5. CASE parent # 0
  <2>1. Used(e)'
    BY <1>1, <1>2, <1>5 DEF ParentGone, Used
  <2>2. \A x \in Entries \ {e} : Used(x)' = Used(x)
    BY <1>2 DEF Used
  <2> QED
    BY <1>1, <1>2, <1>3, <2>1, <2>2, ShownAdd
<1> QED
  BY <1>4, <1>5

LEMMA NamesInitialize ==
  ASSUME Held, Named, AddInitialize, NEW e, e = at[Hotplug]
  PROVE  NamesOf!Next \/ Shown' = Shown
<1>1. pc[Hotplug] = "Initialize"
  BY DEF AddInitialize
<1>2. PICK outcome \in {"ok", "load", "missing", "open"} : InitializeAs(outcome)
  BY InitializeEffect DEF Held
<1>3. /\ \A x \in Entries \ {e} : table'[x] = table[x]
      /\ table'[e].name = table[e].name
      /\ table'[e].vHandle = IF ~Used(e) /\ outcome # "load" THEN adding.library ELSE table[e].vHandle
  BY <1>2 DEF InitializeAs
<1>4. /\ e \in Entries /\ table[e].name \in Names
      /\ \A x \in Entries \ {e} : Used(x) => table[x].name # table[e].name
  BY <1>1, FilledNewName DEF FillSteps
<1>5. \A x \in Entries \ {e} : Used(x)' = Used(x)
  BY <1>3 DEF Used
<1>6. CASE ~Used(e) /\ Used(e)'
  BY <1>3, <1>4, <1>5, <1>6, ShownAdd
<1>7. CASE ~(~Used(e) /\ Used(e)')
  <2>1. Used(e)' = Used(e)
    BY <1>3, <1>7 DEF Used
  <2> QED
    BY <1>3, <1>5, <2>1, ShownSame
<1> QED
  BY <1>6, <1>7

LEMMA NamesNextSlot ==
  ASSUME Held, Named, AddNextSlot, FreeEntries # {}, hazard' = {}, NEW first, first = adding.parent
  PROVE  NamesOf!Next
<1>1. /\ pc[Hotplug] = "NextSlot" /\ Alive /\ adding \in NewAdding /\ adding.slot < Slots[adding.device]
      /\ first \in Entries /\ ~ParentGone(first)
      /\ \E e, f, m \in Entries : \E entry \in Readers : NextSlotInto(e, f, m, entry)
  BY NextSlotHeld
<1>2. PICK e, f, m \in Entries, entry \in Readers : NextSlotInto(e, f, m, entry)
  BY <1>1
<1>3. Used(first) /\ table[first].name # NULL /\ table[first].name \in Names
  BY <1>1, ParentThere
<1>4. PICK n : n = [base |-> table[first].name.base, digit |-> table[first].name.digit, slot |-> adding.slot]
  OBVIOUS
<1>5. /\ ~Used(e) /\ entry.name = n
      /\ ShareInto(f, m, first, e, adding.library \in SlotThreadSafe, entry)
  BY <1>2, <1>3, <1>4 DEF NextSlotInto, FreeEntries
<1>6. /\ \A x \in Entries \ {e} : table'[x] = table[x]
      /\ table'[e].name = n /\ table'[e].vHandle = IF first = 0 THEN NULL ELSE table[first].vHandle
  BY <1>5 DEF ShareInto
<1>7. n \in Names
  <2>1. adding.device \in Devices /\ adding.slot \in Nat
    BY <1>1 DEF NewAdding
  <2> QED
    BY <1>1, <1>3, <1>4, <2>1, SlotNames
<1>8. Used(e)' /\ \A x \in Entries \ {e} : Used(x)' = Used(x)
  BY <1>1, <1>3, <1>6, EntriesAreNumbers DEF Used
<1>9. NamedNext(first) /\ adding.slot \in Nat
  BY <1>1, <1>3 DEF Named, NewAdding
<1>10. ASSUME NEW x \in Entries, Used(x), table[x].name = n PROVE FALSE
  <2>1. table[x].name.slot = adding.slot /\ SameReader(table[x].name, table[first].name)
    BY <1>4, <1>10 DEF SameReader
  <2> QED
    BY <1>9, <1>10, <2>1 DEF NamedNext
<1> QED
  BY <1>5, <1>6, <1>7, <1>8, <1>10, ShownAdd

\* Every step of the table is one of its names, or changes none.
LEMMA NamesStep ==
  ASSUME Held, Named, [Next]_vars, hazard' = {}
  PROVE  NamesOf!Next \/ Shown' = Shown
<1>1. CASE Quiet
  BY <1>1, ShownSame DEF Quiet, KeepsLinks, Used
<1>2. CASE AddReader /\ ~AddRefused
  <2>1. PICK e, parent \in Entries \cup {0}, digit \in Digits : Take(e, digit, parent)
    BY <1>2, AddReaderEffect DEF Held
  <2>2. ~Used(e) /\ table'[e].vHandle = NULL /\ \A x \in Entries \ {e} : table'[x] = table[x]
    BY <2>1 DEF Take, FreeEntries
  <2> QED
    BY <2>2, ShownSame DEF Used
<1>3. CASE AddShare \/ AddInitialize \/ (AddNextSlot /\ FreeEntries # {})
  BY <1>3, NamesShare, NamesInitialize, NamesNextSlot
<1>4. ASSUME NEW t \in Threads, RemoveClose(t), NEW e, e = at[t] PROVE NamesOf!Next
  <2>1. (\A x \in Entries \ {e} : table'[x] = table[x]) /\ table'[e].vHandle = NULL /\ Used(e) /\ pc[t] \in GoneSteps
    BY <1>4, CloseEffect
  <2>2. e \in Entries
    BY <1>4, <2>1, GoneAlone
  <2> QED
    BY <2>1, <2>2, ShownRemove DEF Used
<1>5. ASSUME NEW t \in Threads, RemoveForget(t), NEW e, e = at[t] PROVE Shown' = Shown
  <2>1. /\ \A x \in Entries \ {e} : table'[x] = table[x]
        /\ table'[e].vHandle = NULL /\ pc[t] = "Forget" /\ pc[t] \in GoneSteps
    BY <1>5, ForgetEffect
  <2>2. e \in Entries /\ ~Used(e)
    BY <1>5, <2>1, GoneAlone
  <2> QED
    BY <2>1, <2>2, ShownSame DEF Used
<1> QED
  BY <1>1, <1>2, <1>3, <1>4, <1>5, StepCases

\* As long as no step has gone wrong the table of readers is what ReaderNames
\* promises: readers come and go one at a time, each with a name nobody else
\* has (RFAddReader, RFSetReaderName and RFUnInitializeReader).
THEOREM ReaderNamesKept == Spec /\ [](hazard = {}) => NamesSpec
<1>1. Init => NamesOf!Init
  <2>1. Init => {x \in Entries : Used(x)} = {}
    BY DEF Init, Used, Unused
  <2> QED
    BY <2>1 DEF NamesOf!Init
<1>2. NamedInv /\ hazard = {} /\ (hazard = {})' /\ [Next]_vars => [NamesOf!Next]_Shown
  BY NamesStep DEF NamedInv
<1> QED
  BY <1>1, <1>2, NamedAlways, PTL DEF Spec, NamesSpec, NamesOf!Spec, Shown
-----------------------------------------------------------------------------
(***************************************************************************)
(* Readers and the devices the hotplug thread knows.                       *)
(***************************************************************************)
\* A reader the table still holds, and one it has given up, which goes as soon
\* as the last call has given it back.
Kept(e) == Used(e) /\ table[e].mine
GivenUp(e) == Used(e) /\ ~table[e].mine

\* Slots of one reader.
Slotted(x, y) == table[x].port = table[y].port /\ table[x].name.base = table[y].name.base

HotplugRemoves == pc[Hotplug] \in {"Removing"} \cup EndSteps
Removes(e) == HotplugRemoves /\ Matches(e, removal[Hotplug].base, removal[Hotplug].port)
Adds(e) == Matches(e, ReaderName[adding.device], adding.port)

OnBus(e) ==
  /\ tracker[table[e].port].device # NULL
  /\ table[e].name.base = ReaderName[tracker[table[e].port].device]

\* A reader that is kept has its device, or the hotplug thread will come to it.
KeptOnBus == \A e \in Entries : Kept(e) => OnBus(e) \/ (Removes(e) /\ removal[Hotplug].from <= e)

\* The slots of a reader are given up in order, and no new one comes meanwhile.
InOrder ==
  /\ \A x, y \in Entries : Kept(x) /\ GivenUp(y) /\ Slotted(x, y) =>
       Removes(x) /\ y < removal[Hotplug].from /\ removal[Hotplug].from <= x
  /\ \A e \in Entries : Removes(e) /\ e < removal[Hotplug].from => GivenUp(e)
  /\ pc[Hotplug] \in FillSteps \cup {"NextSlot"} => \A e \in Entries : Adds(e) => Kept(e)

\* What is being added is a reader of the device, all its slots too.
OfDevice ==
  /\ pc[Hotplug] \in FillSteps =>
       /\ table[at[Hotplug]].port = adding.port
       /\ table[at[Hotplug]].name.base = ReaderName[adding.device]
       /\ adding.slot # 0 /\ Used(adding.parent) => Adds(adding.parent)
  /\ pc[Hotplug] = "NextSlot" /\ Used(adding.parent) => Adds(adding.parent)

DeviceKnown == adding # NoAdding => tracker[adding.port].device = adding.device

Tracked == DeviceKnown /\ (pc[Main] = "Serving" => KeptOnBus /\ InOrder /\ OfDevice)

TrackedInv == hazard = {} => Held /\ Counts /\ Named /\ Tracked

\* A reader goes, or keeps what it is.
Stays(x) ==
  Used(x)' => /\ Used(x) /\ table'[x].name = table[x].name /\ table'[x].port = table[x].port
              /\ table'[x].mine = table[x].mine

LEMMA StaysKept ==
  ASSUME NEW x, Stays(x), Used(x)'
  PROVE  (Kept(x)' <=> Kept(x)) /\ (GivenUp(x)' <=> GivenUp(x)) /\ Used(x)
BY Zenon DEF Stays, Kept, GivenUp

LEMMA StaysMatches ==
  ASSUME NEW x, Stays(x), NEW base, NEW port, Matches(x, base, port)'
  PROVE  Matches(x, base, port)
BY DEF Stays, Matches

LEMMA StaysBy ==
  ASSUME \A x \in Entries : SameAt(x)
  PROVE  \A x \in Entries : Stays(x)
BY Zenon DEF SameAt, Stays, Used

LEMMA KeptOrGivenUp ==
  ASSUME NEW x, Used(x)
  PROVE  (Kept(x) \/ GivenUp(x)) /\ ~(Kept(x) /\ GivenUp(x))
BY Zenon DEF Kept, GivenUp

LEMMA KeptUsed ==
  \A x : (Kept(x) => Used(x)) /\ (GivenUp(x) => Used(x)) /\ (\A base, port : Matches(x, base, port) => Used(x))
BY Zenon DEF Kept, GivenUp, Matches

\* A reader that is used is at a port.
LEMMA PortOf ==
  ASSUME Held, NEW x \in Entries, Used(x)
  PROVE  table[x].port \in Entries /\ table[x].name # NULL /\ x \in Nat
<1>1. Counted(x) /\ table[x].name # NULL /\ table[x] \in Readers
  BY DEF Held, HeldAt, Typed, TableTypeOK
<1> QED
  BY <1>1, EntriesAreNumbers DEF Counted, Readers

Fills == pc[Hotplug] \in FillSteps \cup {"NextSlot"}

\* The hotplug thread goes on adding what it was adding.
FillsOn ==
  /\ pc'[Hotplug] = pc[Hotplug] /\ at'[Hotplug] = at[Hotplug] /\ adding' = adding
  /\ pc[Hotplug] \in FillSteps => /\ table'[at[Hotplug]].name = table[at[Hotplug]].name
                                  /\ table'[at[Hotplug]].port = table[at[Hotplug]].port

LEMMA OrderStays ==
  ASSUME Held, Named, KeptOnBus, InOrder, OfDevice, \A x \in Entries : Stays(x),
         HotplugRemoves' <=> HotplugRemoves, removal'[Hotplug] = removal[Hotplug],
         \A i \in Entries : tracker[i].device # NULL => tracker'[i].device = tracker[i].device,
         Fills' => FillsOn
  PROVE  KeptOnBus' /\ InOrder' /\ OfDevice'
<1>1. ASSUME NEW x \in Entries, Removes(x)' PROVE Removes(x)
  BY <1>1, StaysMatches DEF Removes
<1>2. ASSUME NEW x \in Entries, Used(x)' PROVE Removes(x)' <=> Removes(x)
  BY <1>2 DEF Removes, Stays, Matches
<1>3. KeptOnBus'
  <2> SUFFICES ASSUME NEW e \in Entries, Kept(e)'
               PROVE  OnBus(e)' \/ (Removes(e)' /\ removal'[Hotplug].from <= e)
    BY DEF KeptOnBus
  <2>1. Used(e)' /\ Used(e) /\ Kept(e) /\ table'[e].port = table[e].port /\ table'[e].name = table[e].name
    <3>1. Used(e)' /\ Stays(e)
      BY Zenon DEF Kept
    <3> QED
      BY <3>1, StaysKept DEF Stays
  <2>2. OnBus(e) => OnBus(e)'
    BY <2>1, PortOf DEF OnBus
  <2> QED
    BY <1>2, <2>1, <2>2 DEF KeptOnBus
<1>4. InOrder'
  <2>1. ASSUME NEW x \in Entries, NEW y \in Entries, Kept(x)', GivenUp(y)', Slotted(x, y)'
        PROVE  Removes(x)' /\ y < removal'[Hotplug].from /\ removal'[Hotplug].from <= x
    <3>1. Used(x)' /\ Used(y)' /\ Stays(x) /\ Stays(y)
      BY <2>1, Zenon DEF Kept, GivenUp
    <3>2. Kept(x) /\ GivenUp(y)
      BY <2>1, <3>1, StaysKept
    <3>3. Slotted(x, y)
      BY <2>1, <3>1 DEF Slotted, Stays
    <3> QED
      BY <1>2, <3>1, <3>2, <3>3 DEF InOrder
  <2>2. ASSUME NEW e \in Entries, Removes(e)', e < removal'[Hotplug].from PROVE GivenUp(e)'
    <3>1. Removes(e) /\ Used(e)'
      BY <1>1, <2>2 DEF Removes, Matches
    <3>2. GivenUp(e)
      BY <2>2, <3>1 DEF InOrder
    <3> QED
      BY <3>1, <3>2, StaysKept
  <2>3. ASSUME Fills', NEW e \in Entries, Adds(e)' PROVE Kept(e)'
    <3>1. Fills /\ adding' = adding
      BY <2>3 DEF Fills, FillsOn
    <3>2. Adds(e) /\ Used(e)'
      BY <2>3, <3>1, StaysMatches DEF Adds, Matches
    <3>3. Kept(e)
      BY <3>1, <3>2 DEF InOrder, Fills
    <3> QED
      BY <3>2, <3>3, StaysKept
  <2> QED
    BY <2>1, <2>2, <2>3 DEF InOrder, Fills
<1>5. OfDevice'
  <2>1. ASSUME pc'[Hotplug] \in FillSteps \cup {"NextSlot"} PROVE FillsOn
    BY <2>1 DEF Fills
  <2>2. ASSUME FillsOn, Used(adding.parent)', adding.parent \in Entries PROVE Used(adding.parent) /\ (Adds(adding.parent) => Adds(adding.parent)')
    BY <2>2 DEF FillsOn, Stays, Adds, Matches
  <2>3. ASSUME pc'[Hotplug] \in FillSteps
        PROVE  /\ table'[at'[Hotplug]].port = adding'.port
               /\ table'[at'[Hotplug]].name.base = ReaderName[adding'.device]
               /\ adding'.slot # 0 /\ Used(adding.parent)' => Adds(adding.parent)'
    <3>1. FillsOn /\ pc[Hotplug] \in FillSteps
      BY <2>1, <2>3 DEF FillsOn
    <3>2. ASSUME adding'.slot # 0, Used(adding.parent)' PROVE Adds(adding.parent)'
      <4>1. adding.slot # 0 /\ adding' = adding
        BY <3>1, <3>2 DEF FillsOn
      <4>2. adding.parent \in Entries
        BY <3>1, <4>1 DEF Named, NamedAt
      <4>3. Used(adding.parent)
        BY <2>2, <3>1, <3>2, <4>2
      <4>4. Adds(adding.parent)
        BY <3>1, <4>1, <4>3 DEF OfDevice
      <4> QED
        BY <2>2, <3>1, <3>2, <4>2, <4>4
    <3> QED
      BY <3>1, <3>2 DEF FillsOn, OfDevice
  <2>4. ASSUME pc'[Hotplug] = "NextSlot", Used(adding.parent)' PROVE Adds(adding.parent)'
    <3>1. FillsOn /\ pc[Hotplug] = "NextSlot"
      BY <2>1, <2>4 DEF FillsOn
    <3>2. adding.parent \in Entries
      BY <3>1 DEF Held, Typed, Placed
    <3>3. Used(adding.parent)
      BY <2>2, <2>4, <3>1, <3>2
    <3>4. Adds(adding.parent)
      BY <3>1, <3>3 DEF OfDevice
    <3> QED
      BY <2>2, <2>4, <3>1, <3>2, <3>4
  <2> QED
    BY <2>3, <2>4 DEF OfDevice
<1> QED
  BY <1>3, <1>4, <1>5

\* A removal under way.
LEMMA RemovalStays ==
  ASSUME Held, NEW t \in Threads, Remove(t), ~RemoveNext(t)
  PROVE  /\ \A x \in Entries : Stays(x)
         /\ removal' = removal
         /\ t = Hotplug => HotplugRemoves /\ HotplugRemoves'
         /\ pc[Hotplug] \in FillSteps => /\ table'[at[Hotplug]].name = table[at[Hotplug]].name
                                         /\ table'[at[Hotplug]].port = table[at[Hotplug]].port
<1>1. removal' = removal /\ pc[t] \in EndSteps
  BY DEF Remove, UnrefTest, RemoveKill, RemoveJoin, RemoveClose, RemoveForget, EndSteps
<1>2. t = Hotplug => HotplugRemoves'
  <2>1. Returns(t) \in {"Idle", "Removing"} /\ (t = Hotplug => Returns(t) = "Removing")
    BY ReturnsType DEF Threads
  <2>2. \E label \in EndSteps \cup {Returns(t)} : Goto(t, label)
    BY DEF Remove, UnrefTest, RemoveKill, RemoveJoin, RemoveClose, RemoveForget, EndSteps
  <2> QED
    BY <2>1, <2>2, ThreadsApart DEF Goto, HotplugRemoves, Held, Typed, ThreadTypeOK
<1>3. CASE UnrefTest(t) \/ RemoveKill(t) \/ RemoveJoin(t)
  <2>1. \A x \in Entries : SameAt(x)
    BY <1>3, KillSame, SameTable DEF UnrefTest, tableVars, Held
  <2>2. \A x \in Entries : Stays(x)
    BY <2>1, StaysBy
  <2> QED
    BY <1>1, <1>2, <2>1, <2>2, FilledAlone DEF HotplugRemoves, SameAt
<1>4. ASSUME NEW e, e = at[t], RemoveClose(t) \/ RemoveForget(t)
      PROVE  /\ \A x \in Entries : Stays(x)
             /\ pc[Hotplug] \in FillSteps => /\ table'[at[Hotplug]].name = table[at[Hotplug]].name
                                             /\ table'[at[Hotplug]].port = table[at[Hotplug]].port
  <2>1. (\A x \in Entries \ {e} : table'[x] = table[x]) /\ table'[e].vHandle = NULL /\ pc[t] \in GoneSteps
    BY <1>4, CloseEffect, ForgetEffect
  <2>2. pc[Hotplug] \in FillSteps => at[Hotplug] \in Entries \ {e}
    BY <1>4, <2>1, GoneAlone, FilledAlone
  <2>3. \A x \in Entries : Stays(x)
    BY <2>1, Zenon DEF Stays, Used
  <2> QED
    BY <2>1, <2>2, <2>3
<1> QED
  BY <1>1, <1>2, <1>3, <1>4 DEF Remove, HotplugRemoves

LEMMA TrackedRemoval ==
  ASSUME Held, Named, Tracked, NEW t \in Threads, Remove(t), ~RemoveNext(t)
  PROVE  Tracked'
<1>1. DeviceKnown'
  BY RemovalMoves DEF DeviceKnown, Tracked
<1>2. ASSUME pc'[Main] = "Serving" PROVE KeptOnBus' /\ InOrder' /\ OfDevice'
  <2>1. t # Main
    <3>1. Returns(Main) = "Removing"
      BY ReturnsType, ThreadsApart
    <3>2. \E label \in EndSteps \cup {Returns(t)} : Goto(t, label)
      BY DEF Remove, UnrefTest, RemoveKill, RemoveJoin, RemoveClose, RemoveForget, EndSteps
    <3> QED
      BY <1>2, <3>1, <3>2, ThreadsApart DEF Goto, EndSteps, Held, Typed, ThreadTypeOK
  <2>2. pc'[Main] = pc[Main]
    <3>1. \E label : Goto(t, label)
      BY DEF Remove, UnrefTest, RemoveKill, RemoveJoin, RemoveClose, RemoveForget
    <3> QED
      BY <2>1, <3>1, ThreadsApart DEF Goto, Held, Typed, ThreadTypeOK
  <2>3. KeptOnBus /\ InOrder /\ OfDevice
    BY <1>2, <2>2 DEF Tracked
  <2>4. pc'[Hotplug] \in FillSteps \cup {"NextSlot"} => t # Hotplug
    BY RemovalMoves
  <2>5. t # Hotplug => pc'[Hotplug] = pc[Hotplug] /\ at'[Hotplug] = at[Hotplug] /\ adding' = adding
    BY RemovalMoves
  <2>6. pc[Hotplug] \in FillSteps => /\ table'[at[Hotplug]].name = table[at[Hotplug]].name
                                    /\ table'[at[Hotplug]].port = table[at[Hotplug]].port
    BY RemovalStays
  <2>7. Fills' => FillsOn
    BY <2>4, <2>5, <2>6 DEF Fills, FillsOn
  <2>8. t = Hotplug => HotplugRemoves /\ HotplugRemoves'
    BY RemovalStays
  <2>9. HotplugRemoves' <=> HotplugRemoves
    BY <2>5, <2>8 DEF HotplugRemoves
  <2>10. tracker' = tracker /\ removal'[Hotplug] = removal[Hotplug] /\ \A x \in Entries : Stays(x)
    BY RemovalMoves, RemovalStays
  <2> QED
    BY <2>3, <2>7, <2>9, <2>10, OrderStays
<1> QED
  BY <1>1, <1>2 DEF Tracked

LEMMA ClientStays ==
  ASSUME Held, NEW c \in Callers, Client(c)
  PROVE  /\ \A x \in Entries : Stays(x)
         /\ \A x \in Entries : table'[x].name = table[x].name /\ table'[x].port = table[x].port
<1>1. \A x \in Entries : table'[x].name = table[x].name /\ table'[x].port = table[x].port
  BY QuietClient DEF Quiet, KeepsLinks
<1>2. ASSUME NEW e \in Entries, RFReaderInfo(c, e) PROVE \A x \in Entries : Stays(x)
  BY <1>2, SameTable, StaysBy DEF RFReaderInfo, tableVars
<1>3. ASSUME RefReader(c) PROVE \A x \in Entries : Stays(x)
  <2>1. /\ \A x \in Entries \ {at[c]} : table'[x] = table[x]
        /\ table'[at[c]].mine = table[at[c]].mine /\ table'[at[c]].vHandle = table[at[c]].vHandle
        /\ table'[at[c]].name = table[at[c]].name /\ table'[at[c]].port = table[at[c]].port
    BY <1>3, RefEffect DEF Held
  <2> QED
    BY <2>1, Zenon DEF Stays, Used
<1>4. ASSUME UnrefReader(c) PROVE \A x \in Entries : Stays(x)
  <2>1. at[c] \in Entries /\ (table' = table \/ (table[at[c]].reference # 0 /\ UnrefDecrement(c, at[c])))
    BY <1>4, ThreadsApart DEF UnrefReader, Held, Typed, Placed, AtSteps
  <2>2. CASE table' = table
    BY <2>2, SameTable, StaysBy
  <2>3. CASE table[at[c]].reference # 0 /\ UnrefDecrement(c, at[c])
    <3>1. /\ \A x \in Entries \ {at[c]} : table'[x] = table[x]
          /\ table'[at[c]].mine = table[at[c]].mine /\ table'[at[c]].vHandle = table[at[c]].vHandle
          /\ table'[at[c]].name = table[at[c]].name /\ table'[at[c]].port = table[at[c]].port
      BY ZenonT(60), <2>1, <2>3, DecrementEffect, ThreadsApart DEF Held
    <3> QED
      BY <3>1, Zenon DEF Stays, Used
  <2> QED
    BY <2>1, <2>2, <2>3
<1> QED
  BY <1>1, <1>2, <1>3, <1>4 DEF Client

LEMMA TrackedClient ==
  ASSUME Held, Named, Tracked, NEW c \in Callers, Client(c)
  PROVE  Tracked'
<1>1. DeviceKnown'
  BY ClientMoves DEF DeviceKnown, Tracked
<1>2. removal' = removal /\ pc'[Main] = pc[Main]
  <2>1. removal' = removal /\ \E label : pc' = [pc EXCEPT ![c] = label]
    BY DEF Client, RFReaderInfo, RefReader, UnrefReader, UnrefDecrement, Goto
  <2> QED
    BY <2>1, ThreadsApart DEF Held, Typed, ThreadTypeOK
<1>3. ASSUME pc'[Main] = "Serving" PROVE KeptOnBus' /\ InOrder' /\ OfDevice'
  <2>1. KeptOnBus /\ InOrder /\ OfDevice
    BY <1>2, <1>3 DEF Tracked
  <2>2. (HotplugRemoves' <=> HotplugRemoves) /\ tracker' = tracker
    BY ClientMoves DEF HotplugRemoves
  <2>3. Fills' => FillsOn
    BY ClientMoves, ClientStays, FilledAlone DEF FillsOn
  <2> QED
    BY <1>2, <2>1, <2>2, <2>3, ClientStays, OrderStays
<1> QED
  BY <1>1, <1>3 DEF Tracked

LEMMA TrackedBeside ==
  ASSUME Held, Named, Tracked, \/ \E e \in Entries : PollingThread(e)
                               \/ \E d \in Devices : Plug(d) \/ Unplug(d)
                               \/ SignalTrap \/ Stop \/ RFCleanupReaders
                               \/ UNCHANGED vars
  PROVE  Tracked'
<1>1. DeviceKnown'
  BY BesideMoves DEF DeviceKnown, Tracked
<1>2. ASSUME pc'[Main] = "Serving" PROVE pc[Main] = "Serving" /\ removal' = removal
  <2>1. (pc' = pc /\ removal' = removal) \/ \E label \in {"Exited", "Cleaning", "Removing"} : pc' = [pc EXCEPT ![Main] = label]
    BY DEF PollingThread, PollingEnds, PollingSeesCardGone, Plug, Unplug, SignalTrap, Stop, RFCleanupReaders, vars,
           threadVars, Goto
  <2> QED
    BY <1>2, <2>1, ThreadsApart DEF Held, Typed, ThreadTypeOK
<1>3. \A x \in Entries : SameAt(x)
  BY PollingSame, SameTable DEF Held, Plug, Unplug, SignalTrap, Stop, RFCleanupReaders, vars, tableVars
<1>4. ASSUME pc'[Main] = "Serving" PROVE KeptOnBus' /\ InOrder' /\ OfDevice'
  <2>1. KeptOnBus /\ InOrder /\ OfDevice /\ removal' = removal
    BY <1>2, <1>4 DEF Tracked
  <2>2. (HotplugRemoves' <=> HotplugRemoves) /\ tracker' = tracker
    BY BesideMoves DEF HotplugRemoves
  <2>3. \A x \in Entries : Stays(x)
    BY <1>3, StaysBy
  <2>4. Fills' => FillsOn
    BY <1>3, BesideMoves, FilledAlone DEF FillsOn, SameAt
  <2> QED
    BY <2>1, <2>2, <2>3, <2>4, OrderStays
<1> QED
  BY <1>1, <1>4 DEF Tracked

\* Where the hotplug thread neither fills an entry nor removes readers.
Between == {"Idle", "Stopped", "Rescan", "RescanNew", "Sweep", "Add", "Added", "AddFailed"}

LEMMA BetweenIsQuiet == Between \cap ({"Removing", "NextSlot"} \cup EndSteps \cup FillSteps) = {}
BY DEF Between, EndSteps, FillSteps

DevicesStay == \A i \in Entries : tracker[i].device # NULL => tracker'[i].device = tracker[i].device

LEMMA AddDeviceTracks ==
  ASSUME Held, NEW d \in Devices, NEW otherwise \in Between, HPAddDevice(d, otherwise), adding = NoAdding
  PROVE  DeviceKnown' /\ DevicesStay /\ \E label \in Between : Goto(Hotplug, label)
<1>1. CASE get_driver(d) = NULL \/ Untracked = {}
  <2>1. UNCHANGED <<tracker, adding>> /\ Goto(Hotplug, otherwise)
    BY <1>1 DEF HPAddDevice
  <2> QED
    BY <2>1 DEF DeviceKnown, DevicesStay
<1>2. CASE ~(get_driver(d) = NULL \/ Untracked = {})
  <2>1. PICK i \in Entries :
          /\ tracker[i].device = NULL
          /\ tracker' = [tracker EXCEPT ![i] = [device |-> d, status |-> "PRESENT"]]
          /\ adding' = RFAddReader(d, i, get_driver(d))
          /\ Goto(Hotplug, "Add")
    <3>1. Min(Untracked) \in Untracked
      BY <1>2, FirstEntry DEF Untracked
    <3> QED
      BY <1>2, <3>1 DEF HPAddDevice, Untracked
  <2>2. adding'.port = i /\ adding'.device = d
    BY <2>1 DEF RFAddReader
  <2>3. tracker'[i].device = d /\ \A j \in Entries \ {i} : tracker'[j] = tracker[j]
    BY <2>1 DEF Held, Typed, HotplugTypeOK
  <2> QED
    BY <2>1, <2>2, <2>3 DEF DeviceKnown, DevicesStay, Between
<1> QED
  BY <1>1, <1>2

LEMMA HotplugTracks ==
  ASSUME Held, DeviceKnown, HPReceive \/ HPRescanUsbBus \/ HPRescanNew \/ HPAddEnd
  PROVE  /\ DeviceKnown' /\ DevicesStay /\ removal' = removal /\ pc[Hotplug] \in Between
         /\ \E label \in Between : Goto(Hotplug, label)
<1>1. NextEvent \in Between
  BY DEF NextEvent, Between
<1>2. CASE HPReceive
  <2>1. pc[Hotplug] = "Idle" /\ udev # <<>> /\ removal' = removal /\ adding = NoAdding
    BY <1>2 DEF HPReceive, Held, Typed, Placed
  <2>2. udev \in Seq({"add", "remove"} \X Devices) /\ Head(udev) \in {"add", "remove"} \X Devices
    BY <2>1 DEF Held, Typed, HotplugTypeOK
  <2>3. CASE HPAddDevice(Head(udev)[2], NextEvent)
    BY <1>1, <2>1, <2>2, <2>3, AddDeviceTracks DEF Between
  <2>4. CASE UNCHANGED <<tracker, adding>> /\ \E label \in Between : Goto(Hotplug, label)
    BY <2>1, <2>4 DEF DeviceKnown, DevicesStay, Between
  <2> QED
    BY <1>1, <1>2, <2>3, <2>4 DEF HPReceive, Between
<1>3. CASE HPRescanUsbBus
  <2>1. /\ pc[Hotplug] = "Rescan" /\ Goto(Hotplug, "RescanNew") /\ UNCHANGED <<adding, removal>>
        /\ tracker' = [i \in Entries |-> [tracker[i] EXCEPT !.status =
                         IF tracker[i].device \in bus THEN "PRESENT" ELSE "ABSENT"]]
    BY <1>3 DEF HPRescanUsbBus
  <2>2. adding' = NoAdding
    BY <2>1 DEF Held, Typed, Placed
  <2>3. \A i \in Entries : tracker'[i].device = tracker[i].device
    BY <2>1 DEF Held, Typed, HotplugTypeOK
  <2> QED
    BY <2>1, <2>2, <2>3 DEF DeviceKnown, DevicesStay, Between
<1>4. CASE HPRescanNew
  <2>1. pc[Hotplug] = "RescanNew" /\ removal' = removal /\ adding = NoAdding /\ bus \subseteq Devices
    BY <1>4 DEF HPRescanNew, Held, Typed, Placed, HotplugTypeOK
  <2>2. CASE UNCHANGED <<tracker, adding>> /\ Goto(Hotplug, "Sweep")
    BY <2>1, <2>2 DEF DeviceKnown, DevicesStay, Between
  <2>3. CASE \E d \in bus \ Known : HPAddDevice(d, "Sweep")
    BY <2>1, <2>3, AddDeviceTracks DEF Between
  <2> QED
    BY <1>4, <2>2, <2>3 DEF HPRescanNew
<1>5. CASE HPAddEnd
  <2>1. pc[Hotplug] \in {"Added", "AddFailed"} /\ removal' = removal
    BY <1>5 DEF HPAddEnd
  <2>2. adding \in NewAdding /\ adding # NoAdding
    BY <2>1, AddingType DEF AddSteps, Held
  <2>3. tracker[adding.port].device = adding.device /\ adding.port \in Entries
    BY <2>2 DEF DeviceKnown, NewAdding
  <2>4. PICK failed \in BOOLEAN : AddEnd(failed)
    BY <1>5 DEF HPAddEnd
  <2>5. CASE /\ adding' = RFAddReader(adding.device, adding.port, classdriver(adding.device))
             /\ Goto(Hotplug, "Add") /\ UNCHANGED tracker
    <3>1. adding'.device = adding.device /\ adding'.port = adding.port
      BY <2>5 DEF RFAddReader
    <3> QED
      BY <2>1, <2>3, <2>5, <3>1 DEF DeviceKnown, DevicesStay, Between
  <2>6. CASE /\ tracker' = IF failed THEN [tracker EXCEPT ![adding.port].status = "FAILED"] ELSE tracker
             /\ adding' = NoAdding /\ Goto(Hotplug, IF absent THEN "RescanNew" ELSE NextEvent)
    <3>1. \A i \in Entries : tracker'[i].device = tracker[i].device
      BY <2>6 DEF Held, Typed, HotplugTypeOK
    <3> QED
      BY <1>1, <2>1, <2>6, <3>1 DEF DeviceKnown, DevicesStay, Between
  <2> QED
    BY <2>4, <2>5, <2>6 DEF AddEnd
<1> QED
  BY <1>2, <1>3, <1>4, <1>5

\* The hotplug thread moves on, and adds or removes nothing by that.
LEMMA TrackedOn ==
  ASSUME Held, Named, Tracked, DeviceKnown', DevicesStay, removal' = removal, ~HotplugRemoves,
         NEW label \in Between, Goto(Hotplug, label), \A x \in Entries : Stays(x)
  PROVE  Tracked'
<1>1. pc'[Hotplug] = label /\ pc'[Main] = pc[Main]
  BY ThreadsApart DEF Goto, Held, Typed, ThreadTypeOK
<1>2. ~HotplugRemoves' /\ ~Fills'
  BY <1>1, BetweenIsQuiet DEF HotplugRemoves, Fills
<1>3. removal'[Hotplug] = removal[Hotplug]
  OBVIOUS
<1>4. ASSUME pc'[Main] = "Serving" PROVE KeptOnBus' /\ InOrder' /\ OfDevice'
  <2>1. KeptOnBus /\ InOrder /\ OfDevice
    BY <1>1, <1>4 DEF Tracked
  <2> QED
    BY <1>2, <1>3, <2>1, OrderStays DEF DevicesStay
<1> QED
  BY <1>4 DEF Tracked

LEMMA TrackedHotplug ==
  ASSUME Held, Named, Tracked, HPReceive \/ HPRescanUsbBus \/ HPRescanNew \/ HPAddEnd
  PROVE  Tracked'
<1>1. DeviceKnown' /\ DevicesStay /\ removal' = removal /\ pc[Hotplug] \in Between
  BY HotplugTracks DEF Tracked
<1>2. PICK label \in Between : Goto(Hotplug, label)
  BY HotplugTracks DEF Tracked
<1>3. ~HotplugRemoves
  BY <1>1, BetweenIsQuiet DEF HotplugRemoves
<1>4. \A x \in Entries : Stays(x)
  BY HotplugMoves, SameTable, StaysBy DEF tableVars
<1> QED
  BY <1>1, <1>2, <1>3, <1>4, TrackedOn

LEMMA AddRefusedIsTracked ==
  ASSUME Held, Named, Tracked, AddReader, AddRefused
  PROVE  Tracked'
<1>1. /\ pc[Hotplug] = "Add" /\ Goto(Hotplug, "AddFailed") /\ UNCHANGED <<table, removal, tracker>>
      /\ adding' = [adding EXCEPT !.result = "FAILED"]
  BY DEF AddReader, AddRefused, AddFails
<1>2. adding \in NewAdding /\ adding # NoAdding
  BY <1>1, AddingType DEF AddSteps, Held
<1>3. DeviceKnown'
  BY <1>1, <1>2 DEF Tracked, DeviceKnown, NewAdding
<1>4. \A x \in Entries : Stays(x)
  BY <1>1, SameTable, StaysBy
<1>5. ~HotplugRemoves /\ DevicesStay
  BY <1>1 DEF HotplugRemoves, DevicesStay, EndSteps
<1> QED
  BY <1>1, <1>3, <1>4, <1>5, TrackedOn DEF Between

\* An entry becomes a reader of the device that is being added.
Comes(e) ==
  /\ Used(e)' /\ table'[e].mine
  /\ table'[e].port = adding.port /\ table'[e].name.base = ReaderName[adding.device]

LEMMA ComesKept ==
  ASSUME NEW e, Comes(e)
  PROVE  Kept(e)' /\ ~GivenUp(e)'
BY Zenon DEF Comes, Kept, GivenUp

\* Before a removal comes to its first reader none is given up.
LEMMA OrderAdds ==
  ASSUME Held, KeptOnBus, InOrder, ~HotplugRemoves, DeviceKnown, adding \in NewAdding, adding # NoAdding,
         NEW e \in Entries, \A x \in Entries \ {e} : Stays(x), Stays(e) \/ (Fills /\ Comes(e)),
         tracker' = tracker, HotplugRemoves' => removal'[Hotplug].from = 1,
         Fills' => \A x \in Entries : Adds(x)' => Kept(x)'
  PROVE  KeptOnBus' /\ InOrder'
<1>1. adding.port \in Entries /\ adding.device \in Devices /\ adding.device # NULL
  BY ReaderFactoryAssumption DEF NewAdding
<1>2. tracker[adding.port].device = adding.device
  BY DEF DeviceKnown
<1>3. \A x \in Entries : Stays(x) \/ (x = e /\ Fills /\ Comes(e))
  OBVIOUS
<1>4. KeptOnBus'
  <2> SUFFICES ASSUME NEW x \in Entries, Kept(x)' PROVE OnBus(x)'
    BY DEF KeptOnBus
  <2>1. CASE Stays(x)
    <3>1. Used(x)' /\ Used(x) /\ Kept(x) /\ table'[x].port = table[x].port /\ table'[x].name = table[x].name
      <4>1. Used(x)'
        BY Zenon DEF Kept
      <4> QED
        BY <2>1, <4>1, StaysKept DEF Stays
    <3>2. OnBus(x)
      BY <3>1 DEF KeptOnBus, Removes
    <3> QED
      BY <3>1, <3>2, PortOf DEF OnBus
  <2>2. CASE x = e /\ Comes(e)
    BY <1>1, <1>2, <2>2 DEF OnBus, Comes
  <2> QED
    BY <1>3, <2>1, <2>2
<1>5. ASSUME NEW x \in Entries, NEW y \in Entries, Kept(x)', GivenUp(y)', Slotted(x, y)' PROVE FALSE
  <2>1. Stays(y) /\ Used(y)'
    BY <1>3, <1>5, ComesKept DEF GivenUp
  <2>2. GivenUp(y) /\ Used(y) /\ table'[y].port = table[y].port /\ table'[y].name = table[y].name
    BY <1>5, <2>1, StaysKept DEF Stays
  <2>3. CASE Stays(x)
    <3>1. Used(x)'
      BY <1>5, Zenon DEF Kept
    <3>2. Kept(x) /\ table'[x].port = table[x].port /\ table'[x].name = table[x].name
      BY <1>5, <2>3, <3>1, StaysKept DEF Stays
    <3>3. Slotted(x, y)
      BY <1>5, <2>2, <3>2 DEF Slotted
    <3> QED
      BY <2>2, <3>2, <3>3 DEF InOrder, Removes
  <2>4. CASE x = e /\ Fills /\ Comes(e)
    <3>1. Adds(y)
      BY <1>5, <2>2, <2>4 DEF Comes, Slotted, Adds, Matches
    <3>2. Kept(y)
      BY <2>4, <3>1 DEF InOrder, Fills
    <3> QED
      BY <2>2, <3>2, KeptOrGivenUp
  <2> QED
    BY <1>3, <2>3, <2>4
<1>6. ASSUME NEW x \in Entries, Removes(x)', x < removal'[Hotplug].from PROVE FALSE
  <2>1. removal'[Hotplug].from = 1
    BY <1>6 DEF Removes
  <2> QED
    BY <1>6, <2>1, EntriesAreNumbers
<1> QED
  BY <1>4, <1>5, <1>6 DEF InOrder, Fills

LEMMA AddsKept ==
  ASSUME InOrder, Fills, NEW e \in Entries, \A x \in Entries \ {e} : Stays(x), Stays(e) \/ Comes(e),
         adding'.device = adding.device, adding'.port = adding.port
  PROVE  \A x \in Entries : Adds(x)' => Kept(x)'
<1> SUFFICES ASSUME NEW x \in Entries, Adds(x)' PROVE Kept(x)'
  OBVIOUS
<1>1. CASE Stays(x)
  <2>1. Used(x)' /\ Adds(x)
    BY <1>1, StaysMatches DEF Adds, Matches
  <2>2. Kept(x)
    BY <2>1 DEF InOrder, Fills
  <2> QED
    BY <1>1, <2>1, <2>2, StaysKept
<1>2. CASE x = e /\ Comes(e)
  BY <1>2, ComesKept
<1> QED
  BY <1>1, <1>2

LEMMA TakeIsTracked ==
  ASSUME Held, Counts, Tracked, AddReader, ~AddRefused, hazard' = {}
  PROVE  Tracked'
<1>1. PICK e, parent \in Entries \cup {0}, digit \in Digits : Take(e, digit, parent)
  BY AddReaderEffect DEF Held
<1>2. pc[Hotplug] = "Add" /\ tracker' = tracker /\ removal' = removal
  BY DEF AddReader
<1>3. adding \in NewAdding /\ adding # NoAdding
  BY <1>2, AddingType DEF AddSteps, Held
<1>4. PICK base, port : base = ReaderName[adding.device] /\ port = adding.port
  OBVIOUS
<1>5. /\ e \in Entries /\ ~Used(e) /\ ~Duplicate(base, port)
      /\ \A x \in Entries \ {e} : table'[x] = table[x]
      /\ table'[e].vHandle = NULL /\ table'[e].port = port
      /\ table'[e].name = [base |-> base, digit |-> digit, slot |-> 0]
      /\ adding' = [adding EXCEPT !.parent = parent, !.slot = 0]
      /\ at' = [at EXCEPT ![Hotplug] = e] /\ Goto(Hotplug, "Share")
  BY <1>1, <1>4 DEF Take, FreeEntries
<1>6. adding'.slot = 0 /\ adding'.device = adding.device /\ adding'.port = port
  BY <1>3, <1>4, <1>5 DEF NewAdding
<1>7. at'[Hotplug] = e /\ pc'[Hotplug] = "Share" /\ pc'[Main] = pc[Main]
  BY <1>5, ThreadsApart DEF Goto, Held, Typed, ThreadTypeOK
<1>8. DeviceKnown'
  BY <1>2, <1>3, <1>4, <1>6 DEF Tracked, DeviceKnown
<1>9. \A x \in Entries : Stays(x)
  BY <1>5, Zenon DEF Stays, Used
<1>10. ~HotplugRemoves /\ ~HotplugRemoves'
  BY <1>2, <1>7 DEF HotplugRemoves, EndSteps
<1>11. \A x \in Entries : ~Adds(x)'
  <2> SUFFICES ASSUME NEW x \in Entries, Adds(x)' PROVE FALSE
    OBVIOUS
  <2>1. Matches(x, base, port)'
    BY <1>4, <1>6 DEF Adds
  <2>2. Matches(x, base, port)
    BY <1>9, <2>1, StaysMatches
  <2>3. numReaders # 0
    <3>1. x \in CountedEntries
      BY <2>2 DEF Held, HeldAt, CountedEntries, Matches
    <3>2. Cardinality(CountedEntries) # 0 /\ Cardinality(CountedEntries) \in Nat
      BY <3>1, CountedFinite, FS_EmptySet
    <3> QED
      BY <3>2 DEF Counts, CounterTypeOK
  <2> QED
    BY <1>5, <2>2, <2>3 DEF Duplicate
<1>12. ASSUME pc'[Main] = "Serving" PROVE KeptOnBus' /\ InOrder' /\ OfDevice'
  <2>1. KeptOnBus /\ InOrder /\ DeviceKnown
    BY <1>7, <1>12 DEF Tracked
  <2>2. KeptOnBus' /\ InOrder'
    BY <1>2, <1>3, <1>5, <1>9, <1>10, <1>11, <2>1, OrderAdds
  <2>3. OfDevice'
    BY <1>4, <1>5, <1>6, <1>7 DEF OfDevice
  <2> QED
    BY <2>2, <2>3
<1> QED
  BY <1>8, <1>12 DEF Tracked

LEMMA OfDeviceFill ==
  ASSUME Held, Named, OfDevice, pc[Hotplug] \in FillSteps, NEW e, e = at[Hotplug], at'[Hotplug] = e,
         adding'.device = adding.device, adding'.port = adding.port, adding'.slot = adding.slot,
         adding'.parent = adding.parent, \A x \in Entries \ {e} : Stays(x),
         table'[e].name = table[e].name, table'[e].port = table[e].port, pc'[Hotplug] # "NextSlot"
  PROVE  OfDevice'
<1>1. table'[e].port = adding.port /\ table'[e].name.base = ReaderName[adding.device]
  BY DEF OfDevice
<1>2. ASSUME adding'.slot # 0, Used(adding.parent)' PROVE Adds(adding.parent)'
  <2>1. adding.parent \in Entries \ {e} /\ adding.slot # 0
    BY <1>2 DEF Named, NamedAt
  <2>2. PICK p : p = adding.parent
    OBVIOUS
  <2>3. Used(p)' /\ Stays(p)
    BY <1>2, <2>1, <2>2
  <2>4. Used(p) /\ table'[p].name = table[p].name /\ table'[p].port = table[p].port
    BY <2>3 DEF Stays
  <2>5. Adds(p)
    BY <2>1, <2>2, <2>4 DEF OfDevice
  <2>6. Adds(p)'
    BY <2>3, <2>4, <2>5 DEF Adds, Matches
  <2> QED
    BY <2>2, <2>6 DEF Adds, Matches, Used
<1> QED
  BY <1>1, <1>2 DEF OfDevice

LEMMA ShareIsTracked ==
  ASSUME Held, Named, Tracked, AddShare, hazard' = {}, NEW e, e = at[Hotplug]
  PROVE  Tracked'
<1>1. /\ pc[Hotplug] = "Share" /\ e \in Entries /\ adding \in NewAdding
      /\ UNCHANGED <<at, adding, tracker, removal>>
      /\ \E f, m \in Entries : ShareInto(f, m, adding.parent, e, adding.library \in ThreadSafe, table[e])
  BY ShareHeld
<1>2. /\ \A x \in Entries \ {e} : table'[x] = table[x]
      /\ table'[e].name = table[e].name /\ table'[e].port = table[e].port /\ table'[e].mine = table[e].mine
      /\ Goto(Hotplug, "Initialize")
  BY <1>1 DEF ShareInto
<1>3. pc'[Hotplug] = "Initialize" /\ pc'[Main] = pc[Main]
  BY <1>2, ThreadsApart DEF Goto, Held, Typed, ThreadTypeOK
<1>4. DeviceKnown'
  BY <1>1 DEF Tracked, DeviceKnown
<1>5. pc[Hotplug] \in FillSteps /\ table[e].mine /\ adding # NoAdding
  BY <1>1, FilledAlone, AddingType, Zenon DEF FillSteps, FilledAt, AddSteps, Held
<1>6. Fills /\ ~HotplugRemoves /\ ~HotplugRemoves'
  BY <1>1, <1>3 DEF Fills, FillSteps, HotplugRemoves, EndSteps
<1>7. \A x \in Entries \ {e} : Stays(x)
  BY <1>2, Zenon DEF Stays, Used
<1>8. ASSUME pc'[Main] = "Serving" PROVE KeptOnBus' /\ InOrder' /\ OfDevice'
  <2>1. KeptOnBus /\ InOrder /\ OfDevice /\ DeviceKnown
    BY <1>3, <1>8 DEF Tracked
  <2>2. table'[e].mine
    BY <1>2, <1>5, Zenon
  <2>3. Stays(e) \/ Comes(e)
    <3>1. table[e].port = adding.port /\ table[e].name.base = ReaderName[adding.device]
      BY <1>5, <2>1 DEF OfDevice
    <3>2. CASE Used(e)'
      BY <1>2, <2>2, <3>1, <3>2, Zenon DEF Comes
    <3>3. CASE ~Used(e)'
      BY <3>3 DEF Stays
    <3> QED
      BY <3>2, <3>3
  <2>4. \A x \in Entries : Adds(x)' => Kept(x)'
    BY <1>1, <1>6, <1>7, <2>1, <2>3, AddsKept
  <2>5. KeptOnBus' /\ InOrder'
    BY <1>1, <1>5, <1>6, <1>7, <2>1, <2>3, <2>4, OrderAdds
  <2>6. OfDevice'
    BY <1>1, <1>2, <1>3, <1>5, <1>7, <2>1, OfDeviceFill
  <2> QED
    BY <2>5, <2>6
<1> QED
  BY <1>4, <1>8 DEF Tracked

LEMMA InitializeIsTracked ==
  ASSUME Held, Named, Tracked, AddInitialize, NEW e, e = at[Hotplug]
  PROVE  Tracked'
<1>1. pc[Hotplug] = "Initialize" /\ UNCHANGED <<at, tracker>>
  BY DEF AddInitialize
<1>2. pc[Hotplug] \in FillSteps /\ e \in Entries /\ table[e].mine /\ adding \in NewAdding /\ adding # NoAdding
  BY <1>1, FilledAlone, AddingType, Zenon DEF FillSteps, FilledAt, AddSteps, Held
<1>3. PICK outcome \in {"ok", "load", "missing", "open"} : InitializeAs(outcome)
  BY InitializeEffect DEF Held
<1>4. /\ \A x \in Entries \ {e} : table'[x] = table[x]
      /\ table'[e].name = table[e].name /\ table'[e].port = table[e].port
      /\ SameHolds
      /\ \/ Goto(Hotplug, "Spawn") /\ UNCHANGED <<adding, removal>>
         \/ /\ Goto(Hotplug, "Removing") /\ RFRemoveReader(Hotplug, ReaderName[adding.device], adding.port)
            /\ \E result \in {"MISSING", "FAILED"} : adding' = [adding EXCEPT !.result = result]
  BY <1>3 DEF InitializeAs
<1>5. /\ adding'.device = adding.device /\ adding'.port = adding.port /\ adding'.slot = adding.slot
      /\ adding'.parent = adding.parent
  BY <1>2, <1>4 DEF NewAdding
<1>6. pc'[Main] = pc[Main] /\ pc'[Hotplug] \in {"Spawn", "Removing"}
      /\ (pc'[Hotplug] = "Removing" => RFRemoveReader(Hotplug, ReaderName[adding.device], adding.port))
  BY <1>4, ThreadsApart DEF Goto, Held, Typed, ThreadTypeOK
<1>7. HotplugRemoves' => removal'[Hotplug].from = 1
  BY <1>6 DEF HotplugRemoves, EndSteps, RFRemoveReader, Held, Typed, ThreadTypeOK
<1>8. DeviceKnown'
  BY <1>1, <1>2, <1>5 DEF Tracked, DeviceKnown
<1>9. Fills /\ ~HotplugRemoves
  BY <1>1 DEF Fills, FillSteps, HotplugRemoves, EndSteps
<1>10. \A x \in Entries \ {e} : Stays(x)
  BY <1>4, Zenon DEF Stays, Used
<1>11. ASSUME pc'[Main] = "Serving" PROVE KeptOnBus' /\ InOrder' /\ OfDevice'
  <2>1. KeptOnBus /\ InOrder /\ OfDevice /\ DeviceKnown
    BY <1>6, <1>11 DEF Tracked
  <2>2. table'[e].mine
    BY <1>2, <1>4, Zenon DEF SameHolds
  <2>3. Stays(e) \/ Comes(e)
    <3>1. table[e].port = adding.port /\ table[e].name.base = ReaderName[adding.device]
      BY <1>2, <2>1 DEF OfDevice
    <3>2. CASE Used(e)'
      BY <1>4, <2>2, <3>1, <3>2, Zenon DEF Comes
    <3>3. CASE ~Used(e)'
      BY <3>3 DEF Stays
    <3> QED
      BY <3>2, <3>3
  <2>4. \A x \in Entries : Adds(x)' => Kept(x)'
    BY <1>2, <1>5, <1>9, <1>10, <2>1, <2>3, AddsKept
  <2>5. KeptOnBus' /\ InOrder'
    BY <1>1, <1>2, <1>7, <1>9, <1>10, <2>1, <2>3, <2>4, OrderAdds
  <2>6. OfDevice'
    BY <1>1, <1>2, <1>4, <1>5, <1>6, <1>10, <2>1, OfDeviceFill
  <2> QED
    BY <2>5, <2>6
<1> QED
  BY <1>8, <1>11 DEF Tracked

LEMMA SpawnIsTracked ==
  ASSUME Held, Named, Tracked, AddSpawn, NEW e, e = at[Hotplug]
  PROVE  Tracked'
<1>1. pc[Hotplug] = "Spawn" /\ UNCHANGED <<at, tracker>>
  BY DEF AddSpawn
<1>2. pc[Hotplug] \in FillSteps /\ e \in Entries /\ Used(e) /\ adding \in NewAdding /\ adding # NoAdding
  BY <1>1, FilledAlone, AddingType DEF FillSteps, FilledAt, AddSteps, Held
<1>3. PICK ok \in BOOLEAN : SpawnAs(ok)
  BY SpawnEffect DEF Held
<1>4. \A x \in Entries : SameAt(x) /\ Stays(x)
  BY <1>3, SameLinksAt, StaysBy DEF SpawnAs
<1>5. \/ Goto(Hotplug, "Added") /\ UNCHANGED <<adding, removal>>
      \/ /\ Goto(Hotplug, "NextSlot")
         /\ adding' = [adding EXCEPT !.slot = @ + 1, !.parent = IF adding.slot = 0 THEN e ELSE @]
      \/ /\ Goto(Hotplug, "Removing") /\ adding' = [adding EXCEPT !.result = "FAILED"]
         /\ RFRemoveReader(Hotplug, ReaderName[adding.device], adding.port)
  BY <1>3 DEF SpawnAs
<1>6. Fills /\ ~HotplugRemoves
  BY <1>1 DEF Fills, FillSteps, HotplugRemoves, EndSteps
<1>7. adding'.device = adding.device /\ adding'.port = adding.port
  BY <1>2, <1>5 DEF NewAdding
<1>8. DeviceKnown'
  BY <1>1, <1>2, <1>7 DEF Tracked, DeviceKnown
<1>9. pc'[Main] = pc[Main]
  BY <1>5, ThreadsApart DEF Goto, Held, Typed, ThreadTypeOK
<1>10. ASSUME pc'[Main] = "Serving", HotplugRemoves' => removal'[Hotplug].from = 1
       PROVE  KeptOnBus' /\ InOrder'
  <2>1. KeptOnBus /\ InOrder /\ DeviceKnown
    BY <1>9, <1>10 DEF Tracked
  <2>2. \A x \in Entries : Adds(x)' => Kept(x)'
    BY <1>2, <1>4, <1>6, <1>7, <2>1, AddsKept
  <2> QED
    BY <1>1, <1>2, <1>4, <1>6, <1>10, <2>1, <2>2, OrderAdds
<1>11. CASE Goto(Hotplug, "Added") /\ UNCHANGED <<adding, removal>>
  <2>1. DevicesStay /\ "Added" \in Between
    BY <1>1 DEF DevicesStay, Between
  <2> QED
    BY <1>4, <1>6, <1>8, <1>11, <2>1, TrackedOn
<1>12. CASE /\ Goto(Hotplug, "NextSlot")
            /\ adding' = [adding EXCEPT !.slot = @ + 1, !.parent = IF adding.slot = 0 THEN e ELSE @]
  <2>1. pc'[Hotplug] = "NextSlot"
    BY <1>12, ThreadsApart DEF Goto, Held, Typed, ThreadTypeOK
  <2>2. pc'[Hotplug] \notin FillSteps /\ ~HotplugRemoves'
    BY <2>1 DEF FillSteps, HotplugRemoves, EndSteps
  <2>3. PICK p : p = IF adding.slot = 0 THEN e ELSE adding.parent
    OBVIOUS
  <2>4. adding'.parent = p
    BY <1>2, <1>12, <2>3 DEF NewAdding
  <2>5. p \in Entries
    BY <1>2, <2>3 DEF Named, NamedAt
  <2>6. ASSUME pc'[Main] = "Serving", Used(p)' PROVE Adds(p)'
    <3>1. Used(p) /\ table'[p].name = table[p].name /\ table'[p].port = table[p].port
      BY <1>4, <2>5, <2>6 DEF Stays
    <3>2. OfDevice
      BY <1>9, <2>6 DEF Tracked
    <3>3. Adds(p)
      BY <1>2, <2>3, <3>1, <3>2 DEF OfDevice, Adds, Matches
    <3> QED
      BY <1>7, <2>6, <3>1, <3>3 DEF Adds, Matches
  <2>7. pc'[Main] = "Serving" => OfDevice'
    BY <2>2, <2>4, <2>6 DEF OfDevice, Used, Adds, Matches
  <2> QED
    BY <1>8, <1>10, <2>2, <2>7 DEF Tracked
<1>13. CASE /\ Goto(Hotplug, "Removing")
            /\ RFRemoveReader(Hotplug, ReaderName[adding.device], adding.port)
  <2>1. pc'[Hotplug] = "Removing" /\ removal'[Hotplug].from = 1
    BY <1>13, ThreadsApart DEF Goto, RFRemoveReader, Held, Typed, ThreadTypeOK
  <2>2. OfDevice'
    BY <2>1 DEF OfDevice, FillSteps
  <2> QED
    BY <1>8, <1>10, <2>1, <2>2 DEF Tracked
<1> QED
  BY <1>5, <1>11, <1>12, <1>13

LEMMA NoSlotIsTracked ==
  ASSUME Held, Tracked, AddNextSlot, FreeEntries = {}
  PROVE  Tracked'
<1>1. /\ pc[Hotplug] = "NextSlot" /\ UNCHANGED <<at, tracker, table>> /\ Goto(Hotplug, "Removing")
      /\ adding' = [adding EXCEPT !.result = "FAILED"]
      /\ RFRemoveReader(Hotplug, ReaderName[adding.device], adding.port)
  BY DEF AddNextSlot
<1>2. adding \in NewAdding /\ adding # NoAdding /\ adding.parent \in Entries
  BY <1>1, AddingType DEF AddSteps, Held, Typed, Placed
<1>3. adding'.device = adding.device /\ adding'.port = adding.port
  BY <1>1, <1>2 DEF NewAdding
<1>4. pc'[Hotplug] = "Removing" /\ removal'[Hotplug].from = 1 /\ pc'[Main] = pc[Main]
  BY <1>1, ThreadsApart DEF Goto, RFRemoveReader, Held, Typed, ThreadTypeOK
<1>5. ~HotplugRemoves /\ ~Fills' /\ OfDevice'
  BY <1>1, <1>4 DEF HotplugRemoves, EndSteps, Fills, FillSteps, OfDevice
<1>6. \A x \in Entries : Stays(x)
  BY <1>1, SameTable, StaysBy
<1>7. DeviceKnown'
  BY <1>1, <1>2, <1>3 DEF Tracked, DeviceKnown
<1>8. ASSUME pc'[Main] = "Serving" PROVE KeptOnBus' /\ InOrder'
  <2>1. KeptOnBus /\ InOrder /\ DeviceKnown
    BY <1>4, <1>8 DEF Tracked
  <2> QED
    BY <1>1, <1>2, <1>4, <1>5, <1>6, <2>1, OrderAdds
<1> QED
  BY <1>5, <1>7, <1>8 DEF Tracked

LEMMA NextSlotIsTracked ==
  ASSUME Held, Tracked, AddNextSlot, FreeEntries # {}, hazard' = {}, NEW first, first = adding.parent
  PROVE  Tracked'
<1>1. /\ pc[Hotplug] = "NextSlot" /\ Alive /\ adding \in NewAdding /\ tracker' = tracker
      /\ first \in Entries /\ ~ParentGone(first)
      /\ \E e, f, m \in Entries : \E entry \in Readers : NextSlotInto(e, f, m, entry)
  BY NextSlotHeld
<1>2. PICK e, f, m \in Entries, entry \in Readers : NextSlotInto(e, f, m, entry)
  BY <1>1
<1>3. Used(first) /\ table[first].name # NULL /\ first # 0
  BY <1>1, ParentThere, EntriesAreNumbers
<1>4. /\ ~Used(e) /\ \A x \in Entries \ {e} : table'[x] = table[x]
      /\ table'[e].vHandle = table[first].vHandle /\ table'[e].port = table[first].port
      /\ table'[e].name = [base |-> table[first].name.base, digit |-> table[first].name.digit, slot |-> adding.slot]
      /\ at' = [at EXCEPT ![Hotplug] = e] /\ UNCHANGED <<adding, removal>> /\ Goto(Hotplug, "Initialize")
  BY <1>2, <1>3 DEF NextSlotInto, ShareInto, FreeEntries
<1>5. table'[e].mine
  BY <1>2, Zenon DEF NextSlotInto, ShareInto
<1>6. pc'[Hotplug] = "Initialize" /\ at'[Hotplug] = e /\ pc'[Main] = pc[Main]
  BY <1>4, ThreadsApart DEF Goto, Held, Typed, ThreadTypeOK
<1>7. Fills /\ ~HotplugRemoves /\ ~HotplugRemoves'
  BY <1>1, <1>6 DEF Fills, HotplugRemoves, EndSteps
<1>8. adding # NoAdding
  BY <1>1, AddingType DEF AddSteps, Held
<1>9. \A x \in Entries \ {e} : Stays(x)
  BY <1>4, Zenon DEF Stays, Used
<1>10. DeviceKnown'
  BY <1>1, <1>4 DEF Tracked, DeviceKnown
<1>11. ASSUME pc'[Main] = "Serving" PROVE KeptOnBus' /\ InOrder' /\ OfDevice'
  <2>1. KeptOnBus /\ InOrder /\ OfDevice /\ DeviceKnown
    BY <1>6, <1>11 DEF Tracked
  <2>2. Adds(first)
    BY <1>1, <1>3, <2>1 DEF OfDevice
  <2>3. table'[e].port = adding.port /\ table'[e].name.base = ReaderName[adding.device] /\ Used(e)'
    BY <1>3, <1>4, <2>2 DEF Adds, Matches, Used
  <2>4. Comes(e)
    BY <1>5, <2>3, Zenon DEF Comes
  <2>5. \A x \in Entries : Adds(x)' => Kept(x)'
    BY <1>4, <1>7, <1>9, <2>1, <2>4, AddsKept
  <2>6. KeptOnBus' /\ InOrder'
    BY <1>1, <1>7, <1>8, <1>9, <2>1, <2>4, <2>5, OrderAdds
  <2>7. Adds(first)'
    <3>1. first \in Entries \ {e}
      BY <1>1, <1>3, <1>4
    <3> QED
      BY <1>4, <2>2, <3>1 DEF Adds, Matches, Used
  <2>8. Adds(adding.parent)'
    BY <1>4, <2>7 DEF Adds, Matches, Used
  <2>9. OfDevice'
    BY <1>4, <1>6, <2>3, <2>8 DEF OfDevice
  <2> QED
    BY <2>6, <2>9
<1> QED
  BY <1>10, <1>11 DEF Tracked

LEMMA SweepIsTracked ==
  ASSUME Held, Named, Tracked, HPSweep
  PROVE  Tracked'
<1>1. pc[Hotplug] = "Sweep" /\ UNCHANGED <<table, adding>> /\ adding = NoAdding
  BY DEF HPSweep, Held, Typed, Placed, tableVars
<1>2. DeviceKnown' /\ ~HotplugRemoves
  BY <1>1 DEF DeviceKnown, HotplugRemoves, EndSteps
<1>3. \A x \in Entries : Stays(x) /\ SameAt(x)
  BY <1>1, SameTable, StaysBy
<1>4. CASE Gone = {}
  <2>1. Goto(Hotplug, NextEvent) /\ UNCHANGED <<tracker, removal>>
    BY <1>4 DEF HPSweep
  <2>2. NextEvent \in Between /\ DevicesStay
    BY <2>1 DEF NextEvent, Between, DevicesStay
  <2> QED
    BY <1>2, <1>3, <2>1, <2>2, TrackedOn
<1>5. CASE Gone # {}
  <2>1. PICK i \in Entries :
          /\ RFRemoveReader(Hotplug, ReaderName[tracker[i].device], i)
          /\ tracker' = [tracker EXCEPT ![i] = NotTracked] /\ Goto(Hotplug, "Removing")
    <3>1. Min(Gone) \in Gone
      BY <1>5, FirstEntry DEF Gone
    <3> QED
      BY <1>5, <3>1 DEF HPSweep, Gone
  <2>2. PICK base : base = ReaderName[tracker[i].device]
    OBVIOUS
  <2>3. /\ removal'[Hotplug] = [base |-> base, port |-> i, from |-> 1]
        /\ pc'[Hotplug] = "Removing" /\ pc'[Main] = pc[Main]
        /\ \A j \in Entries \ {i} : tracker'[j] = tracker[j]
    BY <2>1, <2>2, ThreadsApart DEF RFRemoveReader, Goto, Held, Typed, ThreadTypeOK, HotplugTypeOK
  <2>4. HotplugRemoves' /\ ~Fills' /\ OfDevice'
    BY <2>3 DEF HotplugRemoves, Fills, OfDevice, FillSteps
  <2>5. ASSUME pc'[Main] = "Serving" PROVE KeptOnBus' /\ InOrder'
    <3>1. KeptOnBus /\ InOrder
      BY <2>3, <2>5 DEF Tracked
    <3>2. \A x \in Entries : Kept(x)' = Kept(x) /\ GivenUp(x)' = GivenUp(x)
      BY <1>1 DEF Kept, GivenUp, Used
    <3>3. KeptOnBus'
      <4> SUFFICES ASSUME NEW x \in Entries, Kept(x)
                   PROVE  OnBus(x)' \/ (Removes(x)' /\ removal'[Hotplug].from <= x)
        BY <3>2 DEF KeptOnBus
      <4>1. OnBus(x) /\ Used(x)
        BY <1>2, <3>1, KeptUsed DEF KeptOnBus, Removes
      <4>2. CASE table[x].port = i
        <5>1. Matches(x, base, i)'
          BY <1>1, <2>2, <4>1, <4>2 DEF Matches, OnBus, Used
        <5> QED
          BY <2>3, <2>4, <5>1, EntriesAreNumbers DEF Removes
      <4>3. CASE table[x].port # i
        BY <1>1, <2>3, <4>1, <4>3, PortOf DEF OnBus
      <4> QED
        BY <4>2, <4>3
    <3>4. InOrder'
      <4>1. ASSUME NEW x \in Entries, NEW y \in Entries, Kept(x)', GivenUp(y)', Slotted(x, y)' PROVE FALSE
        BY <1>1, <1>2, <3>1, <3>2, <4>1 DEF InOrder, Slotted, Removes
      <4>2. ASSUME NEW x \in Entries, x < removal'[Hotplug].from PROVE FALSE
        BY <2>3, <4>2, EntriesAreNumbers
      <4> QED
        BY <2>4, <4>1, <4>2 DEF InOrder, Fills
    <3> QED
      BY <3>3, <3>4
  <2> QED
    BY <1>2, <2>4, <2>5 DEF Tracked
<1> QED
  BY <1>4, <1>5

\* The removal by the hotplug thread: what it has come to, and what is left.
Left(x) == Matches(x, removal[Hotplug].base, removal[Hotplug].port) /\ removal[Hotplug].from <= x

LEMMA LeftMatching == \A x \in Entries : x \in Matching(removal[Hotplug]) <=> Left(x)
BY EntriesAreNumbers DEF Matching, Left

\* Nothing is left of the removal that the table still holds.
LEMMA RemovedIsTracked ==
  ASSUME Held, Named, Tracked, pc[Hotplug] = "Removing", Removed(Hotplug), tracker' = tracker, adding' = adding,
         pc[Main] = "Serving" => \A x \in Entries : ~(Kept(x) /\ Left(x))
  PROVE  Tracked'
<1>1. PICK label \in {"AddFailed", "Sweep"} : Goto(Hotplug, label)
  BY ThreadsApart DEF Removed
<1>2. pc'[Hotplug] = label /\ pc'[Main] = pc[Main] /\ table' = table
  BY <1>1, ThreadsApart DEF Goto, Removed, Held, Typed, ThreadTypeOK
<1>3. HotplugRemoves /\ ~HotplugRemoves' /\ ~Fills' /\ OfDevice'
  BY <1>1, <1>2 DEF HotplugRemoves, Fills, EndSteps, FillSteps, OfDevice
<1>4. DeviceKnown'
  BY DEF Tracked, DeviceKnown
<1>5. \A x \in Entries : /\ Kept(x)' = Kept(x) /\ GivenUp(x)' = GivenUp(x) /\ OnBus(x)' = OnBus(x)
                         /\ (Removes(x) /\ removal[Hotplug].from <= x => Left(x))
  BY <1>2 DEF Kept, GivenUp, OnBus, Used, Removes, Left
<1>6. ASSUME pc'[Main] = "Serving" PROVE KeptOnBus' /\ InOrder'
  <2>1. KeptOnBus /\ InOrder /\ \A x \in Entries : ~(Kept(x) /\ Left(x))
    BY <1>2, <1>6 DEF Tracked
  <2>2. KeptOnBus'
    BY <1>5, <2>1 DEF KeptOnBus
  <2>3. ASSUME NEW x \in Entries, NEW y \in Entries, Kept(x)', GivenUp(y)', Slotted(x, y)' PROVE FALSE
    BY <1>2, <1>5, <2>1, <2>3 DEF InOrder, Slotted
  <2>4. InOrder'
    BY <1>3, <2>3 DEF InOrder, Removes, Fills
  <2> QED
    BY <2>2, <2>4
<1> QED
  BY <1>3, <1>4, <1>6 DEF Tracked

\* The first reader that is left is given up.
LEMMA GiveUpIsTracked ==
  ASSUME Held, Tracked, pc[Hotplug] = "Removing", NEW e \in Entries, Left(e),
         \A x \in Entries : Left(x) => e <= x, UnrefDecrement(Hotplug, e), table[e].reference # 0,
         removal' = [removal EXCEPT ![Hotplug].from = e + 1], tracker' = tracker, adding' = adding
  PROVE  Tracked'
<1>1. /\ \A x \in Entries \ {e} : table'[x] = table[x]
      /\ table'[e].vHandle = table[e].vHandle /\ table'[e].name = table[e].name /\ table'[e].port = table[e].port
      /\ Goto(Hotplug, "Tested")
  BY DecrementEffect, ThreadsApart DEF Held
<1>2. table'[e].mine = FALSE
  BY DecrementEffect, ThreadsApart DEF Held
<1>3. pc'[Hotplug] = "Tested" /\ pc'[Main] = pc[Main]
  BY <1>1, ThreadsApart DEF Goto, Held, Typed, ThreadTypeOK
<1>4. PICK base, port, from : /\ base = removal[Hotplug].base /\ port = removal[Hotplug].port
                              /\ from = removal[Hotplug].from
  OBVIOUS
<1>5. /\ removal'[Hotplug].base = base /\ removal'[Hotplug].port = port /\ removal'[Hotplug].from = e + 1
      /\ from \in Nat
  BY <1>4 DEF Held, Typed, ThreadTypeOK
<1>6. HotplugRemoves /\ HotplugRemoves' /\ ~Fills' /\ OfDevice'
  BY <1>3 DEF HotplugRemoves, Fills, EndSteps, FillSteps, OfDevice
<1>7. DeviceKnown'
  BY DEF Tracked, DeviceKnown
<1>8. \A x \in Entries \ {e} : Kept(x)' = Kept(x) /\ GivenUp(x)' = GivenUp(x)
  BY <1>1 DEF Kept, GivenUp, Used
<1>9. Used(e) /\ Used(e)' /\ ~Kept(e)' /\ GivenUp(e)'
  <2>1. Used(e) /\ Used(e)'
    BY <1>1 DEF Left, Matches, Used
  <2> QED
    BY <1>2, <2>1, Zenon DEF Kept, GivenUp
<1>10. \A x \in Entries : Removes(x)' <=> Matches(x, base, port)
  BY <1>1, <1>5, <1>6 DEF Removes, Matches, Used
<1>11. \A x \in Entries : Removes(x) <=> Matches(x, base, port)
  BY <1>4, <1>6 DEF Removes
<1>12. /\ \A x \in Entries : Left(x) <=> Matches(x, base, port) /\ from <= x
       /\ from <= e /\ Matches(e, base, port) /\ Entries \subseteq Nat
  BY <1>4, EntriesAreNumbers DEF Left
<1>13. ASSUME pc'[Main] = "Serving" PROVE KeptOnBus' /\ InOrder'
  <2>1. KeptOnBus /\ InOrder
    BY <1>3, <1>13 DEF Tracked
  <2>2. \A x \in Entries \ {e} : OnBus(x)' = OnBus(x)
    BY <1>1 DEF OnBus
  <2>3. \A x \in Entries \ {e} : Matches(x, base, port) /\ from <= x => e + 1 <= x
    BY <1>12
  <2>4. KeptOnBus'
    <3> SUFFICES ASSUME NEW x \in Entries \ {e}, Kept(x)
                 PROVE  OnBus(x)' \/ (Removes(x)' /\ removal'[Hotplug].from <= x)
      BY <1>8, <1>9 DEF KeptOnBus
    <3>1. OnBus(x) \/ (Matches(x, base, port) /\ from <= x)
      BY <1>4, <1>11, <2>1 DEF KeptOnBus
    <3> QED
      BY <1>5, <1>10, <2>2, <2>3, <3>1
  <2>5. ASSUME NEW x \in Entries, NEW y \in Entries, Kept(x)', GivenUp(y)', Slotted(x, y)'
        PROVE  Removes(x)' /\ y < removal'[Hotplug].from /\ removal'[Hotplug].from <= x
    <3>1. x # e /\ Kept(x) /\ Used(x) /\ Slotted(x, y)
      <4>1. x # e /\ Kept(x)
        BY <1>8, <1>9, <2>5
      <4>2. Slotted(x, y)
        BY <1>1, <2>5 DEF Slotted
      <4> QED
        BY <4>1, <4>2, KeptUsed
    <3>2. CASE y = e
      <4>1. Matches(x, base, port)
        BY <1>12, <3>1, <3>2 DEF Matches, Slotted
      <4>2. from <= x
        <5>1. x < from => GivenUp(x)
          BY <1>4, <1>11, <2>1, <4>1 DEF InOrder
        <5> QED
          BY <1>5, <1>12, <3>1, <5>1, KeptOrGivenUp
      <4> QED
        BY <1>5, <1>10, <1>12, <2>3, <3>1, <3>2, <4>1, <4>2
    <3>3. CASE y # e
      <4>1. GivenUp(y)
        BY <1>8, <2>5, <3>3
      <4>2. Matches(x, base, port) /\ y < from /\ from <= x
        BY <1>4, <1>11, <2>1, <3>1, <4>1 DEF InOrder
      <4> QED
        BY <1>5, <1>10, <1>12, <2>3, <3>1, <4>2
    <3> QED
      BY <3>2, <3>3
  <2>6. ASSUME NEW x \in Entries, Removes(x)', x < removal'[Hotplug].from PROVE GivenUp(x)'
    <3>1. CASE x = e
      BY <1>9, <3>1
    <3>2. CASE x # e
      <4>1. Matches(x, base, port) /\ x < e
        BY <1>5, <1>10, <1>12, <2>6, <3>2
      <4>2. x < from
        BY <1>5, <1>12, <2>3, <3>2, <4>1
      <4>3. GivenUp(x)
        BY <1>4, <1>11, <2>1, <4>1, <4>2 DEF InOrder
      <4> QED
        BY <1>8, <3>2, <4>3
    <3> QED
      BY <3>1, <3>2
  <2>7. InOrder'
    BY <1>6, <2>5, <2>6 DEF InOrder, Fills
  <2> QED
    BY <2>4, <2>7
<1> QED
  BY <1>6, <1>7, <1>13 DEF Tracked

LEMMA RemoveNextIsTracked ==
  ASSUME Held, Named, Tracked, NEW t \in Threads, RemoveNext(t)
  PROVE  Tracked'
<1>1. t \in {Hotplug, Main} /\ pc[t] = "Removing" /\ UNCHANGED <<tracker, adding>>
  BY DEF RemoveNext, hotplugVars
<1>2. CASE t = Main
  <2>1. \E label \in {"Cleaning", "Tested"} : Goto(Main, label)
    BY <1>2 DEF RemoveNext, Removed, UnrefDecrement, Goto
  <2>2. pc'[Main] # "Serving"
    BY <2>1, ThreadsApart DEF Goto, Held, Typed, ThreadTypeOK
  <2> QED
    BY <1>1, <2>2 DEF Tracked, DeviceKnown
<1>3. CASE t = Hotplug
  <2>1. PICK S : S = Matching(removal[Hotplug])
    OBVIOUS
  <2>2. S \in SUBSET Entries /\ \A x \in Entries : x \in S <=> Left(x)
    BY <2>1, LeftMatching, MatchingInEntries
  <2>3. PICK e : e = Min(S)
    OBVIOUS
  <2>4. S # {} => e \in S /\ \A x \in S : e <= x
    BY <2>2, <2>3, FirstEntry
  <2>5. CASE S = {} \/ table[e].reference = 0
    <3>1. Removed(Hotplug)
      BY <1>3, <2>1, <2>3, <2>5 DEF RemoveNext
    <3>2. ASSUME pc[Main] = "Serving", NEW x \in Entries, Kept(x), Left(x) PROVE FALSE
      <4>1. e \in Entries /\ Left(e) /\ table[e].reference = 0
        BY <2>2, <2>4, <2>5, <3>2
      <4>2. GivenUp(e)
        <5>1. Used(e) /\ ~table[e].mine
          BY <4>1, NobodyHas DEF Held, Left, Matches
        <5> QED
          BY <5>1, Zenon DEF GivenUp
      <4>3. e < removal[Hotplug].from
        <5>1. Slotted(x, e)
          BY <3>2, <4>1 DEF Left, Matches, Slotted
        <5> QED
          BY <3>2, <4>1, <4>2, <5>1 DEF Tracked, InOrder
      <4> QED
        BY <4>1, <4>3, EntriesAreNumbers DEF Left, Held, Typed, ThreadTypeOK
    <3> QED
      BY <1>1, <1>3, <3>1, <3>2, RemovedIsTracked
  <2>6. CASE ~(S = {} \/ table[e].reference = 0)
    <3>1. e \in Entries /\ Left(e) /\ \A x \in Entries : Left(x) => e <= x
      BY <2>2, <2>4, <2>6
    <3>2. UnrefDecrement(Hotplug, e) /\ removal' = [removal EXCEPT ![Hotplug].from = e + 1]
      BY <1>3, <2>1, <2>3, <2>6 DEF RemoveNext
    <3> QED
      BY <1>1, <1>3, <2>6, <3>1, <3>2, GiveUpIsTracked
  <2> QED
    BY <2>5, <2>6
<1> QED
  BY <1>1, <1>2, <1>3

LEMMA NextTracked ==
  ASSUME Held, Counts, Named, Tracked, [Next]_vars, hazard' = {}
  PROVE  Tracked'
<1>1. CASE HotplugThread
  <2>1. CASE HPReceive \/ HPRescanUsbBus \/ HPRescanNew \/ HPAddEnd
    BY <2>1, TrackedHotplug
  <2>2. CASE HPSweep
    BY <2>2, SweepIsTracked
  <2>3. CASE AddReader
    BY <2>3, AddRefusedIsTracked, TakeIsTracked
  <2>4. CASE AddShare
    BY <2>4, ShareIsTracked
  <2>5. CASE AddInitialize
    BY <2>5, InitializeIsTracked
  <2>6. CASE AddSpawn
    BY <2>6, SpawnIsTracked
  <2>7. CASE AddNextSlot
    BY <2>7, NoSlotIsTracked, NextSlotIsTracked
  <2> QED
    BY <1>1, <2>1, <2>2, <2>3, <2>4, <2>5, <2>6, <2>7 DEF HotplugThread, Add
<1>2. ASSUME NEW t \in Threads, Remove(t) PROVE Tracked'
  BY <1>2, RemoveNextIsTracked, TrackedRemoval
<1>3. ASSUME NEW c \in Callers, Client(c) PROVE Tracked'
  BY <1>3, TrackedClient
<1>4. CASE \/ \E e \in Entries : PollingThread(e)
           \/ \E d \in Devices : Plug(d) \/ Unplug(d)
           \/ SignalTrap \/ Stop \/ RFCleanupReaders
           \/ UNCHANGED vars
  BY <1>4, TrackedBeside
<1> QED
  BY <1>1, <1>2, <1>3, <1>4 DEF Next

LEMMA TrackedAlways == Spec => []TrackedInv
<1>1. Init => Tracked
  <2> SUFFICES ASSUME Init PROVE Tracked
    OBVIOUS
  <2>1. pc[Hotplug] = "Idle" /\ adding = NoAdding /\ \A e \in Entries : ~Used(e)
    BY ThreadsApart DEF Init, Unused, Used
  <2>2. \A e \in Entries : ~Kept(e) /\ ~GivenUp(e)
    BY <2>1, Zenon DEF Kept, GivenUp
  <2> QED
    BY <2>1, <2>2 DEF Tracked, DeviceKnown, KeptOnBus, InOrder, OfDevice, Removes, HotplugRemoves, EndSteps, FillSteps
<1>2. Init => TrackedInv
  BY <1>1, InitHeld, InitCounts, InitNamed DEF TrackedInv
<1>3. TrackedInv /\ [Next]_vars => TrackedInv'
  BY NextHeld, NextCounts, NextNamed, NextTracked, HazardGrows DEF TrackedInv
<1> QED
  BY <1>2, <1>3, PTL DEF Spec

\* A reader whose device has gone stays in the table only as long as a call
\* uses it, somebody is removing it, or the sweep of the hotplug thread is
\* about to come to it (HPRescanUsbBus and RFRemoveReader, slot by slot).
THEOREM Orphans == Spec => []NoOrphan
<1>1. TrackedInv => NoOrphan
  <2> SUFFICES ASSUME hazard = {}, Held, Tracked, pc[Main] = "Serving", NEW e \in Entries, Used(e)
               PROVE  \/ tracker[table[e].port].device # NULL
                      \/ Users(e) # {} \/ Leaving(e) # {}
                      \/ pc[Hotplug] \in {"Removing"} \cup EndSteps /\ e \in Matching(removal[Hotplug])
    BY DEF TrackedInv, NoOrphan
  <2>1. CASE Kept(e)
    <3>1. OnBus(e) \/ (Removes(e) /\ removal[Hotplug].from <= e)
      BY <2>1 DEF Tracked, KeptOnBus
    <3> QED
      BY <3>1, LeftMatching DEF OnBus, Removes, HotplugRemoves, Left
  <2>2. CASE ~Kept(e)
    <3>1. ~table[e].mine
      BY <2>2, Zenon DEF Kept
    <3>2. table[e].reference = Cardinality(Users(e)) /\ Cardinality(Users(e)) \in Nat
      BY <3>1, UsersFinite DEF Held, HeldAt, Mine
    <3>3. Users(e) = {} => table[e].reference = 0
      BY <3>2, UsersFinite
    <3> QED
      BY <3>3 DEF Held, HeldAt, Alive
  <2> QED
    BY <2>1, <2>2
<1> QED
  BY <1>1, TrackedAlways, PTL
=============================================================================
