--------------------------- MODULE ReaderFactory ---------------------------
(***************************************************************************)
(* The table of readers of pcscd: readerfactory.c, the hotplug thread of   *)
(* hotplug_libudev.c that adds and removes readers as devices come and go, *)
(* the calls that use a reader meanwhile, the polling thread of each       *)
(* reader and the end of the daemon (pcscdaemon.c).                        *)
(*                                                                         *)
(* An entry of the table is used when its vHandle is set.  The readers of  *)
(* one driver share the library, pFeeds (how many readers use it) and,     *)
(* unless the driver is thread safe, mMutex and pMutex (how many readers   *)
(* share the mutex).  reference counts the users of an entry: 1 for the    *)
(* table and 1 for every call in progress; who brings it to 0 removes the  *)
(* reader.  The counts are read outside their lock, and a removal is not   *)
(* under usbNotifierMutex: the steps below are cut where that shows.       *)
(***************************************************************************)
EXTENDS Integers, Sequences, FiniteSets, FiniteSetsExt

CONSTANTS
  Devices,         \* readers of the user, as udev knows them
  Libraries,       \* drivers
  Callers,         \* threads of clients
  Entries,         \* indices of sReadersContexts (PCSCLITE_MAX_READERS_CONTEXTS)
  DriverTracker,   \* sequence of [library, device, classDriver]
  ReaderName,      \* device -> name its driver gives it in Info.plist
  Slots,           \* device -> number of slots
  Simultaneous,    \* library -> TAG_IFD_SIMULTANEOUS_ACCESS, 1 if undefined
  ThreadSafe,      \* libraries with TAG_IFD_THREAD_SAFE
  SlotThreadSafe,  \* libraries with TAG_IFD_SLOT_THREAD_SAFE
  DriverFails,     \* what may fail: subset of {"load", "open", "missing", "status"}
  MaxEvents,       \* bound: devices plugged and unplugged
  NULL

ASSUME ReaderFactoryAssumption ==
  /\ IsFiniteSet(Entries) /\ Entries = 1..Cardinality(Entries) /\ IsFiniteSet(Callers)
  /\ NULL \notin Libraries \cup Devices
  /\ DriverTracker \in Seq([library : Libraries, device : Devices, classDriver : BOOLEAN])
  /\ DOMAIN ReaderName = Devices
  /\ Slots \in [Devices -> Nat \ {0}]
  /\ Simultaneous \in [Libraries -> Nat \ {0}]
  /\ ThreadSafe \subseteq Libraries /\ SlotThreadSafe \subseteq Libraries
  /\ MaxEvents \in Nat

VARIABLES
  table,      \* sReadersContexts
  feeds,      \* the counters pFeeds points to, 0 when freed
  mutexes,    \* the counters pMutex points to, 0 when freed
  opened,     \* how many times each library is loaded
  numReaders, \* dwNumReadersContexts
  tracker,    \* readerTracker of the hotplug thread
  bus,        \* devices plugged
  udev,       \* events the hotplug thread has not read
  plugs,      \* number of events so far, up to MaxEvents
  pc, at,     \* where each thread is, and on which entry
  removal,    \* the name and port that RFRemoveReader of a thread looks for, and from where
  adding,     \* the RFAddReader of the hotplug thread
  cleaning,   \* the entry RFCleanupReaders has come to
  absent,     \* whether HPRescanUsbBus is in progress
  wanted,     \* the reader a call has been asked for
  lives,      \* signals left before the daemon dies at once
  hazard      \* history: the shared steps that have gone wrong

tableVars == <<table, feeds, mutexes, opened, numReaders>>
hotplugVars == <<tracker, bus, udev, plugs, adding, absent>>
threadVars == <<pc, at, removal, wanted, cleaning>>
vars == <<tableVars, hotplugVars, threadVars, lives, hazard>>

Hotplug == "hotplug"
Main == "main"
Threads == Callers \cup {Hotplug, Main}
Digits == 0..(Cardinality(Entries) - 1)
Bases == {ReaderName[d] : d \in Devices}
Names == [base : Bases, digit : Digits, slot : UNION {0..Slots[d] - 1 : d \in Devices}]
ASSUME NullAssumption == NULL \notin Names
ASSUME ThreadAssumption == Hotplug \notin Callers /\ Main \notin Callers

NoRemoval == [base |-> NULL, port |-> 0, from |-> 0]

\* RFAddReader at its start.
RFAddReader(device, port, library) ==
  [device |-> device, port |-> port, library |-> library, slot |-> 0, parent |-> 0, result |-> "SUCCESS"]
NoAdding == RFAddReader(NULL, 0, NULL)

Unused == [vHandle |-> NULL, library |-> NULL, name |-> NULL, port |-> 0, isOpen |-> FALSE,
           reference |-> 0, mine |-> FALSE, polling |-> "none", dying |-> FALSE,
           pFeeds |-> 0, pMutex |-> 0]
NotTracked == [device |-> NULL, status |-> "ABSENT"]

Used(e) == table[e].vHandle # NULL
Users(e) == {c \in Callers : pc[c] = "InUse" /\ at[c] = e}

\* The end of a reader, from the decrement of its count.
EndSteps == {"Tested", "Kill", "Join", "Close", "Forget"}
CallerSteps == {"Idle", "Ref", "InUse"} \cup EndSteps
MainSteps == {"Serving", "Cleaning", "Removing", "Exited"} \cup EndSteps
FillSteps == {"Share", "Initialize", "Spawn"}
AddSteps == {"Add", "NextSlot", "Added", "AddFailed"} \cup FillSteps
HotplugSteps == {"Idle", "Stopped", "Rescan", "RescanNew", "Sweep", "Removing"} \cup AddSteps \cup EndSteps

Readers == [vHandle : Libraries \cup {NULL}, library : Libraries \cup {NULL},
            name : Names \cup {NULL}, port : Entries \cup {0}, isOpen : BOOLEAN,
            reference : Nat, mine : BOOLEAN, polling : {"none", "running", "ended"},
            dying : BOOLEAN, pFeeds : Entries \cup {0}, pMutex : Entries \cup {0}]

TableTypeOK == table \in [Entries -> Readers]

CounterTypeOK ==
  /\ feeds \in [Entries -> Nat] /\ mutexes \in [Entries -> Nat]
  /\ opened \in [Libraries -> Nat] /\ numReaders \in Nat

HotplugTypeOK ==
  /\ tracker \in [Entries -> [device : Devices \cup {NULL}, status : {"ABSENT", "PRESENT", "FAILED"}]]
  /\ bus \subseteq Devices /\ udev \in Seq({"add", "remove"} \X Devices) /\ plugs \in 0..MaxEvents
  /\ absent \in BOOLEAN
  /\ \/ adding = NoAdding
     \/ /\ adding \in [device : Devices, port : Entries, library : Libraries, slot : Nat,
                       parent : Entries \cup {0}, result : {"SUCCESS", "FAILED", "MISSING"}]
        /\ adding.slot < Slots[adding.device]

ThreadTypeOK ==
  /\ pc \in [Threads -> CallerSteps \cup MainSteps \cup HotplugSteps]
  /\ pc[Main] \in MainSteps /\ pc[Hotplug] \in HotplugSteps /\ \A c \in Callers : pc[c] \in CallerSteps
  /\ at \in [Threads -> Entries \cup {0}]
  /\ removal \in [{Hotplug, Main} -> [base : Bases \cup {NULL}, port : Entries \cup {0}, from : Nat]]
  /\ wanted \in [Callers -> Names \cup {NULL}] /\ cleaning \in Nat /\ lives \in 0..3

RFTypeOK == TableTypeOK /\ CounterTypeOK /\ HotplugTypeOK /\ ThreadTypeOK

Init ==
  /\ table = [e \in Entries |-> Unused]
  /\ feeds = [e \in Entries |-> 0] /\ mutexes = [e \in Entries |-> 0]
  /\ opened = [l \in Libraries |-> 0] /\ numReaders = 0
  /\ tracker = [e \in Entries |-> NotTracked]
  /\ bus = {} /\ udev = <<>> /\ plugs = 0
  /\ pc = [t \in Threads |-> IF t = Main THEN "Serving" ELSE "Idle"]
  /\ at = [t \in Threads |-> 0] /\ removal = [t \in {Hotplug, Main} |-> NoRemoval]
  /\ adding = NoAdding /\ absent = FALSE /\ cleaning = 1
  /\ wanted = [c \in Callers |-> NULL]
  /\ lives = 3 /\ hazard = {}

Goto(t, label) == pc' = [pc EXCEPT ![t] = label]
Alive == pc[Main] # "Exited"
Wrong(what, really) == hazard' = IF really THEN hazard \cup {what} ELSE hazard
-----------------------------------------------------------------------------
(***************************************************************************)
(* Reference counts.  A thread t gives back entry e and, when it then      *)
(* reads 0, removes the reader; Returns says where it goes on.             *)
(***************************************************************************)
Returns(t) ==
  CASE t \in Callers -> "Idle" [] t = Main -> "Removing" [] t = Hotplug -> "Removing"

\* Threads between the decrement of the count of e and the end of the removal.
Leaving(e) == {t \in Threads : at[t] = e /\ pc[t] \in EndSteps}

\* The entry the hotplug thread is filling.
BeingAdded == {e \in Entries : at[Hotplug] = e /\ pc[Hotplug] \in FillSteps}

UnrefDecrement(t, e) ==
  /\ table' = [table EXCEPT ![e].reference = @ - 1, ![e].mine = IF t \in Callers THEN @ ELSE FALSE]
  /\ pc' = [pc EXCEPT ![t] = "Tested"] /\ at' = [at EXCEPT ![t] = e]
  /\ hazard' = hazard \cup (IF t \notin Callers /\ ~table[e].mine THEN {"removed twice"} ELSE {})
                      \cup (IF t = Main /\ e \in BeingAdded THEN {"adding"} ELSE {})

UnrefTest(t) ==
  /\ Alive /\ pc[t] = "Tested"
  /\ LET zero == table[at[t]].reference = 0
     IN  /\ Goto(t, IF zero THEN "Kill" ELSE Returns(t))
         /\ Wrong("count", zero /\ Leaving(at[t]) # {t})
  /\ UNCHANGED <<tableVars, hotplugVars, at, removal, wanted, cleaning, lives>>

\* EHDestroyEventHandler asks the polling thread to end and waits for it.
RemoveKill(t) ==
  LET e == at[t]
  IN  /\ Alive /\ pc[t] = "Kill"
      /\ IF table[e].polling # "none" /\ table[e].name # NULL
         THEN table' = [table EXCEPT ![e].dying = TRUE] /\ Goto(t, "Join")
         ELSE Goto(t, "Close") /\ UNCHANGED table
      /\ UNCHANGED <<feeds, mutexes, opened, numReaders, hotplugVars, at, removal, wanted, cleaning, lives, hazard>>

RemoveJoin(t) ==
  /\ Alive /\ pc[t] = "Join" /\ table[at[t]].polling # "running"
  /\ table' = [table EXCEPT ![at[t]].polling = "none"]
  /\ Goto(t, "Close")
  /\ UNCHANGED <<feeds, mutexes, opened, numReaders, hotplugVars, at, removal, wanted, cleaning, lives, hazard>>

\* RFUnloadReader: nobody else uses the library.
LastFeed(e) == feeds[table[e].pFeeds] = 1

\* Mutant: the slots of the reader are closed together.
RemoveCloseSlots(t) ==
  LET e == at[t]
  IN  /\ Alive /\ pc[t] = "Close"
      /\ table' = [x \in Entries |-> IF table[x].port = table[e].port
                                     THEN [table[x] EXCEPT !.isOpen = FALSE, !.vHandle = NULL, !.name = NULL]
                                     ELSE table[x]]
      /\ Goto(t, "Forget")
      /\ UNCHANGED <<opened, feeds, mutexes, numReaders, hotplugVars, at, removal, wanted, cleaning, lives, hazard>>

\* RFUnInitializeReader: close the channel, unload the driver; from here on
\* the entry looks free.
RemoveClose(t) ==
  LET e == at[t]
  IN  /\ Alive /\ pc[t] = "Close"
      /\ IF table[e].pFeeds = 0 \/ table[e].pMutex = 0
         THEN Goto(t, Returns(t)) /\ UNCHANGED <<table, opened>>
         ELSE /\ table' = [table EXCEPT ![e].isOpen = FALSE, ![e].vHandle = NULL, ![e].name = NULL]
              /\ opened' = IF Used(e) /\ LastFeed(e)
                           THEN [opened EXCEPT ![table[e].vHandle] = @ - 1] ELSE opened
              /\ Goto(t, "Forget")
      /\ UNCHANGED <<feeds, mutexes, numReaders, hotplugVars, at, removal, wanted, cleaning, lives, hazard>>

\* The rest of removeReader: the counters, and the fields of the entry.
RemoveForget(t) ==
  LET e == at[t]
      m == table[e].pMutex
      f == table[e].pFeeds
  IN  /\ Alive /\ pc[t] = "Forget"
      /\ mutexes' = [mutexes EXCEPT ![m] = @ - 1]
      /\ feeds' = [feeds EXCEPT ![f] = @ - 1]
      /\ table' = [table EXCEPT ![e].pMutex = IF mutexes[m] = 1 THEN 0 ELSE @,
                                ![e].pFeeds = IF feeds[f] = 1 THEN 0 ELSE @,
                                ![e].port = 0, ![e].dying = FALSE, ![e].vHandle = NULL]
      /\ numReaders' = numReaders - 1
      /\ Goto(t, Returns(t))
      /\ UNCHANGED <<opened, hotplugVars, at, removal, wanted, cleaning, lives, hazard>>

\* The polling thread sees that it has to end; or it sees first that the card
\* has gone, and RFSetReaderEventState clears the field it is asked through.
PollingEnds(e) ==
  /\ Alive /\ table[e].polling = "running" /\ table[e].dying
  /\ table' = [table EXCEPT ![e].polling = "ended", ![e].dying = FALSE]
  /\ UNCHANGED <<feeds, mutexes, opened, numReaders, hotplugVars, threadVars, lives, hazard>>

PollingSeesCardGone(e) ==
  /\ Alive /\ table[e].polling = "running" /\ table[e].dying
  /\ table' = [table EXCEPT ![e].dying = FALSE]
  /\ Wrong("kill lost", TRUE)
  /\ UNCHANGED <<feeds, mutexes, opened, numReaders, hotplugVars, threadVars, lives>>
-----------------------------------------------------------------------------
(***************************************************************************)
(* RFRemoveReader: every slot of the reader, one after the other.          *)
(***************************************************************************)
Matches(e, base, port) == Used(e) /\ table[e].name.base = base /\ table[e].port = port

\* Mutant: the first slot only.
MatchingFirstSlot(r) == {e \in Entries : e >= r.from /\ Matches(e, r.base, r.port) /\ table[e].name.slot = 0}

\* What is left for RFRemoveReader to remove.
Matching(r) == {e \in Entries : e >= r.from /\ Matches(e, r.base, r.port)}

RFRemoveReader(t, base, port) ==
  removal' = [removal EXCEPT ![t] = [base |-> base, port |-> port, from |-> 1]]

\* The hotplug thread goes on with its RFAddReader or its sweep, the main
\* thread with RFCleanupReaders.
Removed(t) ==
  /\ Goto(t, IF t = Main THEN "Cleaning" ELSE IF adding # NoAdding THEN "AddFailed" ELSE "Sweep")
  /\ removal' = [removal EXCEPT ![t] = NoRemoval]
  /\ UNCHANGED <<table, at, hazard>>

RemoveNext(t) ==
  LET S == Matching(removal[t])
      e == Min(S)
  IN  /\ Alive /\ t \in {Hotplug, Main} /\ pc[t] = "Removing"
      /\ IF S = {} \/ table[e].reference = 0
         THEN Removed(t)
         ELSE UnrefDecrement(t, e) /\ removal' = [removal EXCEPT ![t].from = e + 1]
      /\ UNCHANGED <<feeds, mutexes, opened, numReaders, hotplugVars, wanted, cleaning, lives>>
-----------------------------------------------------------------------------
(***************************************************************************)
(* RFAddReader, called by the hotplug thread for a device, a port and a    *)
(* library: find an entry and a name, share what a clone shares, start the *)
(* driver and the polling thread, then do the same for the other slots.    *)
(***************************************************************************)
\* The readers that library already has, or that it may have beside this one.
Relatives(library, port) ==
  {e \in Entries : /\ Used(e) /\ table[e].library = library
                   /\ table[e].port # port \/ Simultaneous[library] > 1}

\* The digit of RFSetReaderName: 0, or the first one no relative has.
FreeDigit(relatives) == Min((0..Cardinality(Entries)) \ {table[e].name.digit : e \in relatives})

NoName(relatives, library) ==
  relatives # {} /\ FreeDigit(relatives) >= Min({Simultaneous[library], Cardinality(Entries)})

FreeEntries == {e \in Entries : ~Used(e)}

Duplicate(base, port) == numReaders # 0 /\ \E e \in Entries : Matches(e, base, port)

AddFails(result) ==
  /\ adding' = [adding EXCEPT !.result = result]
  /\ Goto(Hotplug, "AddFailed")

\* The name is taken, but the entry still looks free.
AddReader ==
  LET base == ReaderName[adding.device]
      relatives == IF numReaders = 0 THEN {} ELSE Relatives(adding.library, adding.port)
      e == Min(FreeEntries)
      parent == IF relatives = {} THEN 0
                ELSE CHOOSE x \in relatives : \A y \in relatives : y <= x
  IN  /\ Alive /\ pc[Hotplug] = "Add"
      /\ IF Duplicate(base, adding.port) \/ FreeEntries = {} \/ NoName(relatives, adding.library)
         THEN AddFails("FAILED") /\ UNCHANGED <<table, at, hazard>>
         ELSE /\ table' = [table EXCEPT ![e] =
                   [Unused EXCEPT !.library = adding.library, !.port = adding.port,
                                  !.name = [base |-> base, digit |-> FreeDigit(relatives), slot |-> 0],
                                  !.reference = 1, !.mine = TRUE]]
              /\ adding' = [adding EXCEPT !.parent = parent, !.slot = 0]
              /\ at' = [at EXCEPT ![Hotplug] = e]
              /\ Goto(Hotplug, "Share")
              /\ hazard' = hazard \cup (IF Leaving(e) # {} THEN {"reused"} ELSE {})
                                  \cup (IF \E x \in Entries : Used(x) /\ table[x].library # adding.library
                                                              /\ table[x].name.base = base
                                                              /\ table[x].name.digit = table'[e].name.digit
                                        THEN {"two drivers"} ELSE {})
      /\ UNCHANGED <<feeds, mutexes, opened, numReaders, tracker, bus, udev, plugs, absent,
                     removal, wanted, cleaning, lives>>

\* A counter for e that nobody else points to, as malloc gives it.
FreshFeeds(e) == Min({o \in Entries : \A x \in Entries \ {e} : table[x].pFeeds # o})
FreshMutex(e) == Min({o \in Entries : \A x \in Entries \ {e} : table[x].pMutex # o})

\* Mutant: a clone does not count.
ShareFeedsUncounted(parent, e) ==
  LET o == IF parent = 0 THEN FreshFeeds(e) ELSE table[parent].pFeeds
  IN  [to |-> o, count |-> IF parent = 0 THEN [feeds EXCEPT ![o] = 1] ELSE feeds]

\* A reader uses the library of its parent, and its mutex when shared is
\* TRUE; or it has counters of its own.
ShareFeeds(parent, e) ==
  LET o == IF parent = 0 THEN FreshFeeds(e) ELSE table[parent].pFeeds
  IN  [to |-> o, count |-> [feeds EXCEPT ![o] = IF parent = 0 THEN 1 ELSE @ + 1]]

ShareMutex(parent, shared, e) ==
  LET o == IF shared THEN table[parent].pMutex ELSE FreshMutex(e)
  IN  [to |-> o, count |-> [mutexes EXCEPT ![o] = IF shared THEN @ + 1 ELSE 1]]

\* What the code takes from the parent without looking whether that reader is
\* still there: with its counters freed, the daemon dies.
ShareFrom(parent, e, threadSafe, entry) ==
  LET f == ShareFeeds(parent, e)
      m == ShareMutex(parent, parent # 0 /\ ~threadSafe, e)
  IN  IF parent # 0 /\ (table[parent].pFeeds = 0 \/ table[parent].pMutex = 0)
      THEN Goto(Main, "Exited") /\ UNCHANGED <<table, feeds, mutexes, numReaders>>
      ELSE /\ feeds' = f.count /\ mutexes' = m.count
           /\ table' = [table EXCEPT ![e] = [entry EXCEPT
                          !.pFeeds = f.to, !.pMutex = m.to,
                          !.vHandle = IF parent = 0 THEN NULL ELSE table[parent].vHandle]]
           /\ numReaders' = numReaders + 1
           /\ Goto(Hotplug, "Initialize")

ParentGone(parent) == parent # 0 /\ (~Used(parent) \/ Leaving(parent) # {})

AddShare ==
  /\ Alive /\ pc[Hotplug] = "Share"
  /\ ShareFrom(adding.parent, at[Hotplug], adding.library \in ThreadSafe, table[at[Hotplug]])
  /\ Wrong("parent", ParentGone(adding.parent))
  /\ UNCHANGED <<opened, hotplugVars, at, removal, wanted, cleaning, lives>>

\* RFInitializeReader: load the library unless a clone has it, bind its
\* functions, open the channel.
AddInitialize ==
  LET e == at[Hotplug]
      load == ~Used(e)
      base == ReaderName[adding.device]
  IN  /\ Alive /\ pc[Hotplug] = "Initialize"
      /\ \E outcome \in {"ok"} \cup (DriverFails \cap ({"missing", "open"} \cup (IF load THEN {"load"} ELSE {}))) :
           /\ opened' = IF load /\ outcome # "load" THEN [opened EXCEPT ![adding.library] = @ + 1] ELSE opened
           /\ table' = [table EXCEPT
                ![e].vHandle = IF load /\ outcome # "load" THEN adding.library ELSE @,
                ![e].isOpen = (outcome = "ok")]
           /\ IF outcome = "ok"
              THEN Goto(Hotplug, "Spawn") /\ UNCHANGED <<adding, removal>>
              ELSE /\ adding' = [adding EXCEPT !.result = IF outcome = "missing" THEN "MISSING" ELSE "FAILED"]
                   /\ RFRemoveReader(Hotplug, base, adding.port) /\ Goto(Hotplug, "Removing")
      /\ UNCHANGED <<feeds, mutexes, numReaders, tracker, bus, udev, plugs, absent, at, wanted, cleaning, lives, hazard>>

\* EHSpawnEventHandler.
AddSpawn ==
  LET e == at[Hotplug]
  IN  /\ Alive /\ pc[Hotplug] = "Spawn"
      /\ \/ /\ table' = [table EXCEPT ![e].polling = "running"]
            /\ IF adding.slot + 1 = Slots[adding.device]
               THEN Goto(Hotplug, "Added") /\ UNCHANGED adding
               ELSE /\ adding' = [adding EXCEPT !.slot = @ + 1, !.parent = IF adding.slot = 0 THEN e ELSE @]
                    /\ Goto(Hotplug, "NextSlot")
            /\ UNCHANGED removal
         \/ /\ "status" \in DriverFails
            /\ adding' = [adding EXCEPT !.result = "FAILED"]
            /\ RFRemoveReader(Hotplug, ReaderName[adding.device], adding.port) /\ Goto(Hotplug, "Removing")
            /\ UNCHANGED table
      /\ UNCHANGED <<feeds, mutexes, opened, numReaders, tracker, bus, udev, plugs, absent, at, wanted, cleaning, lives, hazard>>

\* The entry of another slot: everything but its number is that of slot 0.
AddNextSlot ==
  LET first == adding.parent
      e == Min(FreeEntries)
      f == table[first]
  IN  /\ Alive /\ pc[Hotplug] = "NextSlot"
      /\ IF FreeEntries = {}
         THEN /\ adding' = [adding EXCEPT !.result = "FAILED"]
              /\ RFRemoveReader(Hotplug, ReaderName[adding.device], adding.port)
              /\ Goto(Hotplug, "Removing")
              /\ UNCHANGED <<table, feeds, mutexes, numReaders, at, hazard>>
         ELSE /\ ShareFrom(first, e, adding.library \in SlotThreadSafe,
                           [Unused EXCEPT !.library = f.library, !.port = f.port,
                              !.name = IF f.name = NULL THEN NULL ELSE [f.name EXCEPT !.slot = adding.slot],
                              !.reference = 1, !.mine = TRUE])
              /\ at' = [at EXCEPT ![Hotplug] = e]
              /\ hazard' = hazard \cup (IF ParentGone(first) THEN {"parent"} ELSE {})
                                  \cup (IF Leaving(e) # {} THEN {"reused"} ELSE {})
              /\ UNCHANGED <<adding, removal>>
      /\ UNCHANGED <<opened, tracker, bus, udev, plugs, absent, wanted, cleaning, lives>>
-----------------------------------------------------------------------------
(***************************************************************************)
(* The hotplug thread.                                                     *)
(***************************************************************************)
Plug(d) ==
  /\ Alive /\ plugs < MaxEvents /\ d \notin bus
  /\ bus' = bus \cup {d} /\ udev' = Append(udev, <<"add", d>>) /\ plugs' = plugs + 1
  /\ UNCHANGED <<tableVars, tracker, adding, absent, threadVars, lives, hazard>>

Unplug(d) ==
  /\ Alive /\ plugs < MaxEvents /\ d \in bus
  /\ bus' = bus \ {d} /\ udev' = Append(udev, <<"remove", d>>) /\ plugs' = plugs + 1
  /\ UNCHANGED <<tableVars, tracker, adding, absent, threadVars, lives, hazard>>

\* get_driver: the last specific driver that has the device, else the last
\* class driver.
Drivers(d, class) == {i \in DOMAIN DriverTracker : DriverTracker[i].device = d /\ DriverTracker[i].classDriver = class}
LastDriver(S) == IF S = {} THEN NULL ELSE DriverTracker[CHOOSE i \in S : \A j \in S : j <= i].library
classdriver(d) == LastDriver(Drivers(d, TRUE))
get_driver(d) == IF Drivers(d, FALSE) # {} THEN LastDriver(Drivers(d, FALSE)) ELSE classdriver(d)

Untracked == {i \in Entries : tracker[i].device = NULL}

\* HPAddDevice, up to its first RFAddReader; otherwise is where it goes when
\* there is nothing to add.
HPAddDevice(d, otherwise) ==
  LET i == Min(Untracked)
  IN  IF get_driver(d) = NULL \/ Untracked = {}
      THEN Goto(Hotplug, otherwise) /\ UNCHANGED <<tracker, adding>>
      ELSE /\ tracker' = [tracker EXCEPT ![i] = [device |-> d, status |-> "PRESENT"]]
           /\ adding' = RFAddReader(d, i, get_driver(d))
           /\ Goto(Hotplug, "Add")

\* Back to the events, unless the daemon is stopping.
NextEvent == IF pc[Main] = "Serving" THEN "Idle" ELSE "Stopped"

HPReceive ==
  LET action == Head(udev)[1]
      d == Head(udev)[2]
  IN  /\ Alive /\ pc[Hotplug] = "Idle" /\ udev # <<>>
      /\ udev' = Tail(udev)
      /\ IF action = "remove"
         THEN Goto(Hotplug, "Rescan") /\ absent' = TRUE /\ UNCHANGED <<tracker, adding>>
         ELSE /\ IF d \in bus THEN HPAddDevice(d, NextEvent)
                 ELSE Goto(Hotplug, NextEvent) /\ UNCHANGED <<tracker, adding>>
              /\ UNCHANGED absent
      /\ UNCHANGED <<tableVars, bus, plugs, at, removal, wanted, cleaning, lives, hazard>>

Known == {tracker[i].device : i \in Entries}

\* HPRescanUsbBus: who is on the bus is present, who was not known is added,
\* the others are removed.
HPRescanUsbBus ==
  /\ Alive /\ pc[Hotplug] = "Rescan"
  /\ tracker' = [i \in Entries |-> [tracker[i] EXCEPT !.status =
                   IF tracker[i].device \in bus THEN "PRESENT" ELSE "ABSENT"]]
  /\ Goto(Hotplug, "RescanNew")
  /\ UNCHANGED <<tableVars, bus, udev, plugs, adding, absent, at, removal, wanted, cleaning, lives, hazard>>

HPRescanNew ==
  /\ Alive /\ pc[Hotplug] = "RescanNew"
  /\ IF bus \subseteq Known
     THEN Goto(Hotplug, "Sweep") /\ UNCHANGED <<tracker, adding>>
     ELSE \E d \in bus \ Known : HPAddDevice(d, "Sweep")
  /\ UNCHANGED <<tableVars, bus, udev, plugs, absent, at, removal, wanted, cleaning, lives, hazard>>

Gone == {i \in Entries : tracker[i].status = "ABSENT" /\ tracker[i].device # NULL}

\* One absent device: its readers are removed, then its entry is freed.
HPSweep ==
  LET i == Min(Gone)
  IN  /\ Alive /\ pc[Hotplug] = "Sweep"
      /\ IF Gone = {}
         THEN Goto(Hotplug, NextEvent) /\ absent' = FALSE /\ UNCHANGED <<tracker, removal>>
         ELSE /\ RFRemoveReader(Hotplug, ReaderName[tracker[i].device], i)
              /\ tracker' = [tracker EXCEPT ![i] = NotTracked]
              /\ Goto(Hotplug, "Removing") /\ UNCHANGED absent
      /\ UNCHANGED <<tableVars, bus, udev, plugs, adding, at, wanted, cleaning, lives, hazard>>

\* The end of HPAddDevice, with the class driver as a second chance.
AddEnd(failed) ==
  LET class == classdriver(adding.device)
      other == class # NULL /\ class # get_driver(adding.device)
      done == IF absent THEN "RescanNew" ELSE NextEvent
  IN  IF failed /\ other /\ adding.library # class
      THEN /\ adding' = RFAddReader(adding.device, adding.port, class)
           /\ Goto(Hotplug, "Add") /\ UNCHANGED tracker
      ELSE /\ tracker' = IF failed THEN [tracker EXCEPT ![adding.port].status = "FAILED"] ELSE tracker
           /\ adding' = NoAdding /\ Goto(Hotplug, done)

HPAddEnd ==
  /\ Alive
  /\ \/ pc[Hotplug] = "Added" /\ AddEnd(FALSE)
     \/ pc[Hotplug] = "AddFailed" /\ AddEnd(adding.result = "FAILED")
  /\ UNCHANGED <<tableVars, bus, udev, plugs, absent, at, removal, wanted, cleaning, lives, hazard>>
-----------------------------------------------------------------------------
(***************************************************************************)
(* The calls of the clients.                                               *)
(***************************************************************************)
\* RFReaderInfo: the entry is found, and its count is not 0.
RFReaderInfo(c, e) ==
  /\ Alive /\ pc[c] = "Idle" /\ Used(e) /\ table[e].name # NULL
  /\ table[e].reference # 0
  /\ wanted' = [wanted EXCEPT ![c] = table[e].name]
  /\ at' = [at EXCEPT ![c] = e] /\ Goto(c, "Ref")
  /\ UNCHANGED <<tableVars, hotplugVars, removal, cleaning, lives, hazard>>

\* Mutant: the call does not count.
RefReaderUncounted(c) ==
  /\ Alive /\ pc[c] = "Ref" /\ Goto(c, "InUse")
  /\ Wrong("look-up", table[at[c]].reference = 0 \/ ~Used(at[c]) \/ table[at[c]].name # wanted[c])
  /\ UNCHANGED <<tableVars, hotplugVars, at, removal, wanted, cleaning, lives>>

\* _RefReader: only the increment is under reference_lock.
RefReader(c) ==
  LET e == at[c]
  IN  /\ Alive /\ pc[c] = "Ref"
      /\ table' = [table EXCEPT ![e].reference = @ + 1]
      /\ Goto(c, "InUse")
      /\ Wrong("look-up", table[e].reference = 0 \/ ~Used(e) \/ table[e].name # wanted[c])
      /\ UNCHANGED <<feeds, mutexes, opened, numReaders, hotplugVars, at, removal, wanted, cleaning, lives>>

\* The call ends.
UnrefReader(c) ==
  LET e == at[c]
  IN  /\ Alive /\ pc[c] = "InUse"
      /\ IF table[e].reference = 0
         THEN Goto(c, "Idle") /\ UNCHANGED <<table, at, hazard>>
         ELSE UnrefDecrement(c, e)
      /\ wanted' = [wanted EXCEPT ![c] = NULL]
      /\ UNCHANGED <<feeds, mutexes, opened, numReaders, hotplugVars, removal, cleaning, lives>>
-----------------------------------------------------------------------------
(***************************************************************************)
(* The end of the daemon.                                                  *)
(***************************************************************************)
\* signal_trap: SIGTERM ends the daemon at once; of the others the first asks
\* and the third does not wait any more.
SignalTrap ==
  /\ Alive /\ lives > 0
  /\ \/ Goto(Main, "Exited") /\ UNCHANGED lives
     \/ /\ lives' = lives - 1
        /\ pc' = IF lives' = 0 THEN [pc EXCEPT ![Main] = "Exited"] ELSE pc
  /\ UNCHANGED <<tableVars, hotplugVars, at, removal, wanted, cleaning, hazard>>

\* SVCServiceRunLoop sees AraKiri: HPStopHotPluggables, then the readers.
Stop ==
  /\ pc[Main] = "Serving" /\ lives < 3
  /\ Goto(Main, "Cleaning")
  /\ UNCHANGED <<tableVars, hotplugVars, at, removal, wanted, cleaning, lives, hazard>>

\* RFCleanupReaders, entry by entry.
RFCleanupReaders ==
  LET rest == {e \in Entries : e >= cleaning /\ Used(e) /\ table[e].name # NULL}
      e == Min(rest)
  IN  /\ pc[Main] = "Cleaning"
      /\ IF rest = {}
         THEN Goto(Main, "Exited") /\ UNCHANGED <<removal, cleaning>>
         ELSE /\ RFRemoveReader(Main, table[e].name.base, table[e].port)
              /\ cleaning' = e + 1
              /\ Goto(Main, "Removing")
      /\ UNCHANGED <<tableVars, hotplugVars, at, wanted, lives, hazard>>
-----------------------------------------------------------------------------
Add == AddReader \/ AddShare \/ AddInitialize \/ AddSpawn \/ AddNextSlot \/ HPAddEnd
HotplugThread == HPReceive \/ HPRescanUsbBus \/ HPRescanNew \/ HPSweep \/ Add
Remove(t) == RemoveNext(t) \/ UnrefTest(t) \/ RemoveKill(t) \/ RemoveJoin(t) \/ RemoveClose(t) \/ RemoveForget(t)
Client(c) == (\E e \in Entries : RFReaderInfo(c, e)) \/ RefReader(c) \/ UnrefReader(c)
PollingThread(e) == PollingEnds(e) \/ PollingSeesCardGone(e)

Next ==
  \/ HotplugThread
  \/ \E t \in Threads : Remove(t)
  \/ \E c \in Callers : Client(c)
  \/ \E e \in Entries : PollingThread(e)
  \/ \E d \in Devices : Plug(d) \/ Unplug(d)
  \/ SignalTrap \/ Stop \/ RFCleanupReaders

Spec == Init /\ [][Next]_vars
-----------------------------------------------------------------------------
(***************************************************************************)
(* Properties.  The table is not protected in eight places, and hazard says  *)
(* which of them has bitten:                                               *)
(*   count         two threads give back the last two uses of an entry,    *)
(*                 and both read 0                                         *)
(*   look-up       an entry is given up between the test of its count and  *)
(*                 the increment                                           *)
(*   removed twice RFRemoveReader comes a second time to a reader that a   *)
(*                 call still uses, and gives back what the call holds     *)
(*   parent        a reader becomes the clone of one being removed         *)
(*   reused        an entry is taken before its removal has ended          *)
(*   two drivers   readers of one name have two drivers, and only readers   *)
(*                 of one library are numbered                             *)
(*   adding        the shutdown removes the reader that is being added      *)
(*   kill lost     the polling thread clears the request to end            *)
(* The invariants hold as long as none of them has.                        *)
(***************************************************************************)
Counted(e) == table[e].port # 0 /\ table[e].pFeeds # 0

\* pFeeds and pMutex are shared by clones and slots, counted up by the hotplug
\* thread and down by whoever removes a reader: they count exactly the readers
\* that point to them, so that neither is freed while a reader uses it.
CountersCountReaders ==
  hazard = {} =>
    \A e \in Entries : Counted(e) =>
      /\ feeds[table[e].pFeeds] = Cardinality({x \in Entries : Counted(x) /\ table[x].pFeeds = table[e].pFeeds})
      /\ mutexes[table[e].pMutex] = Cardinality({x \in Entries : Counted(x) /\ table[x].pMutex = table[e].pMutex})

\* The driver's library stays loaded as long as one of its readers is in the
\* table, whichever of them opened it and in whatever order they go.
LibraryLoaded ==
  hazard = {} => \A e \in Entries : Used(e) => opened[table[e].vHandle] > 0

\* A call keeps the reader it was made for, whatever is unplugged, plugged or
\* shut down meanwhile.
CallKeepsReader ==
  hazard = {} => \A c \in Callers : pc[c] = "InUse" =>
                   Used(at[c]) /\ table[at[c]].name = wanted[c] /\ table[at[c]].reference > 0

\* A reader whose device has gone stays in the table only as long as a call
\* uses it or its removal is under way.
NoOrphan ==
  hazard = {} /\ pc[Main] = "Serving" =>
    \A e \in Entries : Used(e) =>
      \/ tracker[table[e].port].device # NULL
      \/ Users(e) # {} \/ Leaving(e) # {} \/ \E c \in Callers : pc[c] = "Ref" /\ at[c] = e
      \/ pc[Hotplug] \in {"Removing"} \cup EndSteps /\ e \in Matching(removal[Hotplug])

\* For the applications, who look readers up by name, the table is names in
\* places (ReaderNames): no two readers share one, clones and slots included.
NamesOf == INSTANCE ReaderNames WITH Places <- Entries,
             readers <- [e \in {x \in Entries : Used(x)} |-> table[e].name]
NamesSpec == NamesOf!Spec
=============================================================================
