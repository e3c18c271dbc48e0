-------------------------- MODULE PcscDaemonProofs --------------------------
(***************************************************************************)
(* Theorems about PcscDaemon.tla, for any number of processes, clients,    *)
(* signals and failing calls: what the father of a process is told, and    *)
(* that a process that serves is found.                                    *)
(***************************************************************************)
EXTENDS PcscDaemon, TLAPS

-----------------------------------------------------------------------------
(* Types, and what each step does to the points of the processes.          *)

Points == {"off", "check", "sweep", "fork", "init", "record", "listen", "prepare", "loop",
           "select", "create", "look", "stop", "clean", "cleanPid", "exit", "gone"}

Typed ==
  /\ pc \in [Daemons -> Points]
  /\ socketFile \in Daemons \cup {Systemd, None} /\ pidFile \in Daemons \cup {None}
  /\ DOMAIN alarm = Daemons
  /\ exitValue \in [Daemons -> {"0", "1"}]
  /\ father \in [Daemons -> {"none", "absent", "waiting", "0", "1", "2"}]
  /\ DOMAIN client = Clients
  /\ faults \in Nat

\* The points of the groups the model names.
LEMMA PointSets ==
  /\ Serving = {"loop", "select", "create", "look", "stop"}
  /\ Trapped = {"init", "record", "listen", "prepare", "stop", "loop", "select", "create", "look"}
  /\ AtExit = {"clean", "cleanPid", "exit"}
  /\ Live = Trapped \cup AtExit \cup {"check", "sweep", "fork"}
BY DEF Serving, Trapped, AtExit, Live, Looping

\* The readers can be set up or not: the process goes on, leaves with its
\* files, or leaves at once.
LEMMA SetUpOutcome ==
  ASSUME NEW d \in Daemons, SetUp(d)
  PROVE  /\ pc[d] = "init"
         /\ \/ /\ pc' = [pc EXCEPT ![d] = "gone"] /\ faults' = faults + 1
               /\ father' = [father EXCEPT ![d] = Hears(father[d], "2")]
            \/ /\ \E p \in {"clean", "record"} : pc' = [pc EXCEPT ![d] = p]
               /\ father' = father /\ faults' \in {faults, faults + 1}
         /\ UNCHANGED <<setVars, fileVars, exitValue, alarm, client>>
<1>1. /\ pc[d] = "init"
      /\ \/ Goto(d, "gone") /\ father' = [father EXCEPT ![d] = Hears(@, "2")] /\ Fault
         \/ Goto(d, "clean") /\ Fault /\ UNCHANGED father
         \/ Goto(d, "clean") /\ UNCHANGED <<father, faults>>
         \/ Goto(d, "record") /\ UNCHANGED <<father, faults>>
      /\ UNCHANGED <<setVars, fileVars, exitValue, alarm, client>>
  BY Zenon DEF SetUp
<1> QED
  BY <1>1 DEF Goto, Fault

\* A connection is served or closed; an alarm may be put off.
LEMMA CreateOutcome ==
  ASSUME Typed, NEW d \in Daemons, CreateContextThread(d)
  PROVE  /\ pc[d] = "create" /\ pc' = [pc EXCEPT ![d] = "look"]
         /\ DOMAIN alarm' = Daemons /\ \A e \in Daemons : e # d => alarm'[e] = alarm[e]
         /\ \/ \E c : client' = [client EXCEPT ![c] = Out]
            \/ \E c, s : client' = [client EXCEPT ![c] = s] /\ s.at = d
         /\ faults' \in {faults, faults + 1}
         /\ UNCHANGED <<setVars, fileVars, exitValue, father>>
<1> DEFINE c == accepted[d]
<1>1. /\ pc[d] = "create" /\ Goto(d, "look")
      /\ alarm' = alarm \/ alarm' = [alarm EXCEPT ![d] = @ /\ ~autoExit]
      /\ \/ client' = [client EXCEPT ![c] = [Out EXCEPT !.st = "served", !.at = d]]
         \/ client' = [client EXCEPT ![c] = Out]
      /\ UNCHANGED faults \/ Fault
      /\ UNCHANGED <<setVars, fileVars, exitValue, father>>
  BY Zenon DEF CreateContextThread
<1> HIDE DEF c
<1>2. [Out EXCEPT !.st = "served", !.at = d].at = d
  BY DEF Out
<1>3. DOMAIN alarm' = Daemons /\ \A e \in Daemons : e # d => alarm'[e] = alarm[e]
  BY <1>1, Zenon DEF Typed
<1>4. \/ \E x : client' = [client EXCEPT ![x] = Out]
      \/ \E x, s : client' = [client EXCEPT ![x] = s] /\ s.at = d
  BY Zenon, <1>1, <1>2
<1>5. faults' \in {faults, faults + 1}
  BY <1>1 DEF Fault
<1> QED
  BY <1>1, <1>3, <1>4, <1>5 DEF Goto

\* A signal interrupts select, or makes the process leave.
LEMMA SignalOutcome ==
  ASSUME Typed, NEW d \in Daemons, Signal(d) \/ AlarmRings(d)
  PROVE  /\ pc[d] \in Trapped
         /\ pc' = pc \/ pc' = [pc EXCEPT ![d] = "clean"]
            \/ (pc[d] = "select" /\ pc' = [pc EXCEPT ![d] = "look"])
         /\ \/ alarm' = alarm /\ exitValue' = exitValue
            \/ /\ alarm[d] /\ alarm' = [alarm EXCEPT ![d] = FALSE]
               /\ exitValue' = [exitValue EXCEPT ![d] = "0"]
         /\ UNCHANGED <<setVars, fileVars, father, client, faults>>
<1>1. PICK sig \in {"SIGINT", "SIGTERM", "SIGALRM"}, now \in BOOLEAN :
        /\ pc[d] \in Trapped /\ Trap(d, now)
        /\ exitValue' = [exitValue EXCEPT ![d] = IF sig = "SIGALRM" THEN "0" ELSE @]
        /\ IF sig = "SIGALRM" THEN alarm[d] /\ alarm' = [alarm EXCEPT ![d] = FALSE]
           ELSE alarm' = alarm
        /\ UNCHANGED <<setVars, fileVars, father, client, faults>>
  BY DEF Signal, AlarmRings, SignalTrap
<1>2. pc' = pc \/ pc' = [pc EXCEPT ![d] = "clean"]
      \/ (pc[d] = "select" /\ pc' = [pc EXCEPT ![d] = "look"])
  BY <1>1 DEF Typed, Trap, Goto
<1>3. sig # "SIGALRM" => exitValue' = exitValue
  BY <1>1 DEF Typed
<1> QED
  BY <1>1, <1>2, <1>3

\* Every step keeps the types.
LEMMA TypedStep == ASSUME Typed, Next PROVE Typed'
<1>1. ASSUME NEW d \in Daemons, Start(d) \/ CheckRunning(d) \/ Sweep(d) \/ Fork(d)
      PROVE  Typed'
  BY <1>1, PointSets DEF Typed, Start, CheckRunning, Sweep, Fork, Goto, Refused,
     CleanedSocket, Fault,
     setVars, fileVars, processVars, boundVars, Points
<1>2. ASSUME NEW d \in Daemons, RecordPid(d) \/ Listen(d) \/ Prepare(d)
      PROVE  Typed'
  BY <1>2, PointSets DEF Typed, RecordPid, Listen, Prepare, Goto, Listener, CleanedSocket,
     Hears, Fault,
     setVars, fileVars, processVars, boundVars, Points
<1>3. ASSUME NEW d \in Daemons, EnterSelect(d) \/ Accept(d) \/ LookAtAraKiri(d) \/ StopReaders(d)
      PROVE  Typed'
  BY <1>3, PointSets DEF Typed, EnterSelect, Accept, LookAtAraKiri, StopReaders, Goto,
     setVars, fileVars, processVars, boundVars, Points
<1>4. ASSUME NEW d \in Daemons, CleanSocket(d) \/ CleanPid(d)
      PROVE  Typed'
  BY <1>4, PointSets DEF Typed, CleanSocket, CleanPid, Goto, CleanedSocket,
     setVars, fileVars, processVars, boundVars, Points
<1>5. ASSUME NEW d \in Daemons, Exit(d) \/ Kill(d)
      PROVE  Typed'
  BY <1>5, PointSets DEF Typed, Exit, Kill, Dies, Goto, Hears, Out,
     setVars, fileVars, processVars, boundVars, Points
<1>6. ASSUME NEW d \in Daemons, SetUp(d)
      PROVE  Typed'
  BY <1>6, SetUpOutcome, PointSets DEF Typed, setVars, fileVars, Hears, Points
<1>7. ASSUME NEW d \in Daemons, CreateContextThread(d)
      PROVE  Typed'
  BY <1>7, CreateOutcome, PointSets DEF Typed, setVars, fileVars, Out, Points
<1>8. ASSUME NEW d \in Daemons, Signal(d) \/ AlarmRings(d)
      PROVE  Typed'
  BY <1>8, SignalOutcome, PointSets DEF Typed, setVars, fileVars, Points
<1>9. ASSUME NEW c \in Clients, ClientConnects(c) \/ ContextLeaves(c) \/ ThreadEnds(c)
      PROVE  Typed'
  BY <1>9, PointSets DEF Typed, ClientConnects, ContextLeaves, ThreadEnds, Out,
     setVars, fileVars, processVars, boundVars, Points
<1> QED
  BY <1>1, <1>2, <1>3, <1>4, <1>5, <1>6, <1>7, <1>8, <1>9 DEF Next, Steps, StartUp, Loop

-----------------------------------------------------------------------------
(* The father.                                                             *)

\* Only a process that has come to serve has clients and an alarm; until then
\* it leaves with a failure.
Untold(d) == father[d] \notin {"0", "absent"}

ToldInTime(d) ==
  /\ pc[d] \in {"off", "check", "sweep", "fork"} => father[d] = "none"
  /\ pc[d] \in {"init", "record", "listen", "prepare"} => father[d] \in {"waiting", "absent"}
  /\ pc[d] \in Serving => father[d] \in {"0", "absent"}
  /\ Untold(d) => ~alarm[d] /\ exitValue[d] = "1"
  /\ Untold(d) => \A c \in Clients : client[c].at = d => client[c].st \notin {"served", "leaving"}

\* What one step may tell the father.
Tells(d) ==
  /\ father'[d] = "0" /\ father[d] # "0" => pc'[d] \in Serving
  /\ pc'[d] \in Serving => father'[d] \in {"0", "absent"}

\* Every step keeps ToldInTime, and tells the father the truth.
LEMMA ToldStep ==
  ASSUME Typed, \A d \in Daemons : ToldInTime(d), Next, NEW e \in Daemons
  PROVE  ToldInTime(e)' /\ Tells(e)
<1>1. ASSUME NEW d \in Daemons, Start(d) \/ CheckRunning(d) \/ Sweep(d) \/ Fork(d)
      PROVE  ToldInTime(e)' /\ Tells(e)
  BY <1>1, PointSets DEF Typed, ToldInTime, Untold, Tells, Start, CheckRunning, Sweep, Fork,
     Goto, Refused, CleanedSocket, Fault,
     setVars, fileVars, processVars, boundVars
<1>2. ASSUME NEW d \in Daemons, RecordPid(d) \/ Listen(d) \/ Prepare(d)
      PROVE  ToldInTime(e)' /\ Tells(e)
  BY <1>2, PointSets DEF Typed, ToldInTime, Untold, Tells, RecordPid, Listen, Prepare, Goto,
     Listener, CleanedSocket, Hears, Fault,
     setVars, fileVars, processVars, boundVars
<1>3. ASSUME NEW d \in Daemons, EnterSelect(d) \/ Accept(d) \/ LookAtAraKiri(d) \/ StopReaders(d)
      PROVE  ToldInTime(e)' /\ Tells(e)
  BY <1>3, PointSets DEF Typed, ToldInTime, Untold, Tells, EnterSelect, Accept, LookAtAraKiri,
     StopReaders, Goto,
     setVars, fileVars, processVars, boundVars
<1>4. ASSUME NEW d \in Daemons, CleanSocket(d) \/ CleanPid(d)
      PROVE  ToldInTime(e)' /\ Tells(e)
  BY <1>4, PointSets DEF Typed, ToldInTime, Untold, Tells, CleanSocket, CleanPid, Goto,
     CleanedSocket,
     setVars, fileVars, processVars, boundVars
<1>5. ASSUME NEW d \in Daemons, Exit(d) \/ Kill(d)
      PROVE  ToldInTime(e)' /\ Tells(e)
  BY <1>5, PointSets DEF Typed, ToldInTime, Untold, Tells, Exit, Kill, Dies, Goto, Hears, Out,
     setVars, fileVars, processVars, boundVars
<1>6. ASSUME NEW d \in Daemons, SetUp(d)
      PROVE  ToldInTime(e)' /\ Tells(e)
  BY <1>6, SetUpOutcome, PointSets DEF Typed, ToldInTime, Untold, Tells, setVars, fileVars,
     Hears
<1>7. ASSUME NEW d \in Daemons, CreateContextThread(d)
      PROVE  ToldInTime(e)' /\ Tells(e)
  <2>1. pc[d] = "create" /\ pc' = [pc EXCEPT ![d] = "look"] /\ UNCHANGED <<exitValue, father>>
    BY <1>7, CreateOutcome
  <2>2. ~Untold(d)
    BY <1>7, <2>1, PointSets DEF ToldInTime, Untold
  <2>3. e # d => alarm'[e] = alarm[e]
    BY <1>7, CreateOutcome
  <2>4. \/ \E x : client' = [client EXCEPT ![x] = Out]
        \/ \E x, s : client' = [client EXCEPT ![x] = s] /\ s.at = d
    BY <1>7, CreateOutcome
  <2>5. ASSUME e # d, NEW c \in Clients, client'[c].at = e,
               client'[c].st \in {"served", "leaving"}
        PROVE  client[c] = client'[c]
    BY <2>4, <2>5 DEF Typed, Out
  <2>6. Untold(e)' => Untold(e) /\ e # d
    BY <2>1, <2>2 DEF Untold
  <2>7. Untold(e)' => \A c \in Clients : client'[c].at = e => client'[c].st \notin {"served", "leaving"}
    BY <2>5, <2>6 DEF ToldInTime
  <2>8. Untold(e)' => ~alarm'[e] /\ exitValue'[e] = "1"
    BY <2>1, <2>3, <2>6 DEF ToldInTime
  <2> QED
    BY <2>1, <2>7, <2>8, PointSets DEF Typed, ToldInTime, Untold, Tells
<1>8. ASSUME NEW d \in Daemons, Signal(d) \/ AlarmRings(d)
      PROVE  ToldInTime(e)' /\ Tells(e)
  BY <1>8, SignalOutcome, PointSets DEF Typed, ToldInTime, Untold, Tells, setVars, fileVars
<1>9. ASSUME NEW c \in Clients, ClientConnects(c)
      PROVE  ToldInTime(e)' /\ Tells(e)
  BY <1>9, PointSets
  DEF Typed, ToldInTime, Untold, Tells, ClientConnects, Out, setVars, fileVars, processVars, boundVars
<1>10. ASSUME NEW c \in Clients, ContextLeaves(c)
      PROVE  ToldInTime(e)' /\ Tells(e)
  <2>1. PICK last : client' = [client EXCEPT ![c] = [st |-> "leaving", at |-> client[c].at, last |-> last]]
    BY <1>10, Zenon DEF ContextLeaves
  <2>2. client[c].st = "served" /\ UNCHANGED <<pc, exitValue, alarm, father>>
    BY <1>10 DEF ContextLeaves
  <2> QED
    BY <2>1, <2>2, PointSets DEF Typed, ToldInTime, Untold, Tells
<1>11. ASSUME NEW c \in Clients, ThreadEnds(c)
      PROVE  ToldInTime(e)' /\ Tells(e)
  <2>1. /\ client[c].st = "leaving" /\ client' = [client EXCEPT ![c] = Out]
        /\ UNCHANGED <<pc, exitValue, father>>
    BY <1>11 DEF ThreadEnds
  <2>2. e # client[c].at => alarm'[e] = alarm[e]
    BY <1>11 DEF ThreadEnds, Typed
  <2>3. Untold(e) => ~alarm'[e]
    BY <2>1, <2>2 DEF ToldInTime
  <2> QED
    BY <2>1, <2>3, PointSets DEF Typed, ToldInTime, Untold, Tells, Out
<1> QED
  BY <1>1, <1>2, <1>3, <1>4, <1>5, <1>6, <1>7, <1>8, <1>9, <1>10, <1>11 DEF Next, Steps,
     StartUp, Loop

\* The father of a process hears of success when the process comes to serve,
\* and at no other time; however signals strike, whatever call fails, and
\* although the exit code itself is 0 after an alarm (pcscdaemon.c:600-609,
\* 639-651).
THEOREM FatherIsTold == Spec => FatherKnows
<1> DEFINE Told == \A d \in Daemons : ToldInTime(d)
           Truth == \A d \in Daemons : Tells(d)
<1>1. Init => Typed /\ Told
  BY PointSets, DaemonAssumption DEF Init, Typed, Points, ToldInTime, Untold, Out
<1>2. Typed /\ Told /\ [Next]_vars => Typed' /\ Told'
  <2>1. CASE Next
    BY <2>1, TypedStep, ToldStep
  <2>2. CASE UNCHANGED vars
    BY <2>2 DEF vars, setVars, fileVars, processVars, boundVars, Typed, ToldInTime, Untold
  <2> QED
    BY <2>1, <2>2
<1>3. Typed /\ Told /\ [Next]_vars => [Truth]_vars
  BY ToldStep
<1>4. FatherKnows <=> [][Truth]_vars
  BY DEF FatherKnows, Tells
<1> QED
  BY <1>1, <1>2, <1>3, <1>4, PTL DEF Spec

-----------------------------------------------------------------------------
(* The process that serves.                                                *)

\* What NoOverlap leaves after each step.
Calm ==
  \A d, e \in Daemons :
    pc[d] \in {"check", "sweep", "fork", "init", "record", "listen"} =>
      e = d \/ pc[e] \in Serving \cup {"off", "gone"}

\* At most one process has found that none is running, and has not gone.
Alone(d, e) == pc[d] \in Live \ {"check"} /\ pc[e] \in Live \ {"check"} => d = e

\* The files name it, from the moment it has written them.
Found(d) ==
  /\ pc[d] \in {"listen", "prepare"} \cup Serving => pidFile = d
  /\ pc[d] \in {"prepare"} \cup Serving => socketFile = Listener(d)

FoundInv == faults = 0 => \A d, e \in Daemons : Alone(d, e) /\ Found(d)

\* Every step keeps it: a process that starts beside one that serves finds
\* its files, and is refused.
LEMMA FoundStep ==
  ASSUME Typed, Calm, Calm', FoundInv, Next, faults' = 0, NEW e \in Daemons, NEW f \in Daemons
  PROVE  Alone(e, f)' /\ Found(e)'
<1>1. ASSUME NEW d \in Daemons, Start(d) \/ Sweep(d) \/ Fork(d)
      PROVE  Alone(e, f)' /\ Found(e)'
  BY <1>1, PointSets, DaemonAssumption DEF Typed, Calm, FoundInv, Alone, Found, Listener,
     Start, Sweep, Fork, Goto, Refused, CleanedSocket, Fault,
     setVars, fileVars, processVars, boundVars
<1>2. ASSUME NEW d \in Daemons, CheckRunning(d)
      PROVE  Alone(e, f)' /\ Found(e)'
  BY <1>2, PointSets, DaemonAssumption DEF Typed, Calm, FoundInv, Alone, Found, Listener,
     CheckRunning, Goto, Refused, Fault,
     setVars, fileVars, processVars, boundVars
<1>3. ASSUME NEW d \in Daemons, RecordPid(d) \/ Listen(d) \/ Prepare(d)
      PROVE  Alone(e, f)' /\ Found(e)'
  BY <1>3, PointSets, DaemonAssumption DEF Typed, Calm, FoundInv, Alone, Found, Listener,
     RecordPid, Listen, Prepare, Goto, Listener, CleanedSocket, Hears, Fault,
     setVars, fileVars, processVars, boundVars
<1>4. ASSUME NEW d \in Daemons, EnterSelect(d) \/ Accept(d) \/ LookAtAraKiri(d) \/ StopReaders(d)
      PROVE  Alone(e, f)' /\ Found(e)'
  BY <1>4, PointSets, DaemonAssumption DEF Typed, Calm, FoundInv, Alone, Found, Listener,
     EnterSelect, Accept, LookAtAraKiri, StopReaders, Goto,
     setVars, fileVars, processVars, boundVars
<1>5. ASSUME NEW d \in Daemons, CleanSocket(d) \/ CleanPid(d)
      PROVE  Alone(e, f)' /\ Found(e)'
  BY <1>5, PointSets, DaemonAssumption DEF Typed, Calm, FoundInv, Alone, Found, Listener,
     CleanSocket, CleanPid, Goto, CleanedSocket,
     setVars, fileVars, processVars, boundVars
<1>6. ASSUME NEW d \in Daemons, Exit(d) \/ Kill(d)
      PROVE  Alone(e, f)' /\ Found(e)'
  BY <1>6, PointSets, DaemonAssumption DEF Typed, Calm, FoundInv, Alone, Found, Listener,
     Exit, Kill, Dies, Goto, Hears, Out,
     setVars, fileVars, processVars, boundVars
<1>7. ASSUME NEW d \in Daemons, SetUp(d)
      PROVE  Alone(e, f)' /\ Found(e)'
  BY <1>7, SetUpOutcome, PointSets, DaemonAssumption DEF Typed, Calm, FoundInv, Alone, Found,
     Listener, setVars, fileVars, Hears
<1>8. ASSUME NEW d \in Daemons, CreateContextThread(d)
      PROVE  Alone(e, f)' /\ Found(e)'
  BY <1>8, CreateOutcome, PointSets, DaemonAssumption DEF Typed, Calm, FoundInv, Alone, Found,
     Listener, setVars, fileVars, Out
<1>9. ASSUME NEW d \in Daemons, Signal(d) \/ AlarmRings(d)
      PROVE  Alone(e, f)' /\ Found(e)'
  BY <1>9, SignalOutcome, PointSets, DaemonAssumption DEF Typed, Calm, FoundInv, Alone, Found,
     Listener, setVars, fileVars
<1>10. ASSUME NEW c \in Clients, ClientConnects(c) \/ ContextLeaves(c) \/ ThreadEnds(c)
      PROVE  Alone(e, f)' /\ Found(e)'
  BY <1>10, PointSets, DaemonAssumption DEF Typed, Calm, FoundInv, Alone, Found, Listener,
     ClientConnects, ContextLeaves, ThreadEnds, Out,
     setVars, fileVars, processVars, boundVars
<1> QED
  BY <1>1, <1>2, <1>3, <1>4, <1>5, <1>6, <1>7, <1>8, <1>9, <1>10 DEF Next, Steps, StartUp, Loop

\* As long as no system call fails and no process starts while another one
\* starts or leaves, a process that serves is alone, behind the socket and
\* named by the pid file, whatever killed processes have left, with systemd's
\* socket or its own (pcscdaemon.c:337-383, 629-670).
THEOREM ServingIsFound == Spec /\ [][NoOverlap]_vars => []DaemonFound
<1>1. Init => Typed /\ Calm /\ FoundInv
  BY PointSets, DaemonAssumption DEF Init, Typed, Points, Calm, FoundInv, Alone, Found
<1>2. Typed /\ Calm /\ FoundInv /\ [Next]_vars /\ [NoOverlap]_vars => Typed' /\ Calm' /\ FoundInv'
  <2> SUFFICES ASSUME Typed, Calm, FoundInv, [Next]_vars, [NoOverlap]_vars
               PROVE  Typed' /\ Calm' /\ FoundInv'
    OBVIOUS
  <2>1. CASE UNCHANGED vars
    BY <2>1 DEF vars, setVars, fileVars, processVars, boundVars, Typed, Calm, FoundInv, Alone,
       Found, Listener
  <2>2. CASE ~UNCHANGED vars
    <3>1. Next /\ NoOverlap
      BY <2>2
    <3>2. Calm'
      BY <3>1 DEF NoOverlap, Calm
    <3> QED
      BY <3>1, <3>2, TypedStep, FoundStep DEF FoundInv
  <2> QED
    BY <2>1, <2>2
<1>3. FoundInv => DaemonFound
  BY DEF FoundInv, Found, DaemonFound
<1> QED
  BY <1>1, <1>2, <1>3, PTL DEF Spec

=============================================================================
