----------------------------- MODULE PcscDaemon -----------------------------
(***************************************************************************)
(* The life of pcscd (pcscdaemon.c, winscard_msg_srv.c, the threads of     *)
(* winscard_svc.c): one process looks for another one through the socket   *)
(* and the pid file, cleans what a dead one has left, starts its readers,  *)
(* records its pid, listens, and makes a thread for every client; signals  *)
(* strike it at any step, and it leaves by at_exit, or is killed.  Started *)
(* by systemd it is handed the socket, which outlives it; with auto-exit   *)
(* it leaves some time after its last client.                              *)
(*                                                                         *)
(* Everything between two system calls that another process can see is one *)
(* action.  What happens inside a client's thread is in ResourceManager    *)
(* and ClientLibrary, what the readers do in ReaderFactory.                *)
(***************************************************************************)
EXTENDS SimcList, ReaderConf

CONSTANTS Daemons,      \* processes, each started once at most
          Clients,      \* applications that connect
          MaxContexts,  \* contextMaxThreadCounter
          Files,        \* what may be in the directory of reader.conf
          Systemd,      \* who holds the socket that systemd made
          MaxSignals,   \* bound: signals sent by hand
          MaxFaults     \* bound: system calls that fail

ASSUME DaemonAssumption ==
  /\ MaxContexts \in Nat \ {0}
  /\ Systemd \notin Daemons /\ None \notin Daemons \cup {Systemd}
  /\ MaxSignals \in Nat /\ MaxFaults \in Nat

VARIABLES
  pc,                  \* where the main thread of each process is
  activated, autoExit, \* SocketActivated and AutoExit
  conf,                \* the files of the configuration directory
  socketFile, pidFile, \* the process behind /var/run/pcscd/pcscd.comm, in pcscd.pid
  backlog,             \* connections no one has accepted, by listener
  araKiri, initPhase,  \* AraKiri, Init
  exitValue, lives,    \* ExitValue, the lives of signal_trap
  alarm,               \* the alarm of the process is set
  contexts,            \* contextsList
  accepted,            \* the connection the main thread has in hand
  father,              \* what the process that forked has been told
  client,              \* where each client is, and with which process
  signals, faults, killed  \* counted, and whether SIGKILL was used

processVars == <<araKiri, initPhase, exitValue, lives, alarm, contexts, accepted, father>>
fileVars == <<socketFile, pidFile>>
setVars == <<activated, autoExit, conf>>
boundVars == <<signals, faults, killed>>
vars == <<pc, setVars, fileVars, backlog, processVars, client, boundVars>>

Looping == {"loop", "select", "create", "look"}
Trapped == {"init", "record", "listen", "prepare", "stop"} \cup Looping
AtExit == {"clean", "cleanPid", "exit"}
Listening == {"prepare", "stop"} \cup Looping \cup AtExit
Live == Trapped \cup AtExit \cup {"check", "sweep", "fork"}

Listener(d) == IF activated THEN Systemd ELSE d

Out == [st |-> "out", at |-> None, last |-> FALSE]

Goto(d, s) == pc' = [pc EXCEPT ![d] = s]

\* A system call that may fail does, within the bound.
Fault == faults < MaxFaults /\ faults' = faults + 1

-----------------------------------------------------------------------------
(* Start-up.                                                               *)

\* The command line has been read; systemd starts a process when a client is
\* waiting on its socket and none is running.
Start(d) ==
  /\ pc[d] = "off"
  /\ activated => backlog[Systemd] # <<>> /\ \A e \in Daemons : pc[e] \notin Live
  /\ Goto(d, "check")
  /\ UNCHANGED <<setVars, fileVars, backlog, processVars, client, boundVars>>

\* Mutant: a second process cleans up behind itself.
RefusedCleans(d) == Goto(d, "clean")

\* EXIT_FAILURE, before anything was made.
Refused(d) == Goto(d, "gone")

\* stat, GetDaemonPid and kill(pid, 0): a pid file that names a dead process
\* is swept away, unless its number now belongs to another program.
CheckRunning(d) ==
  /\ pc[d] = "check"
  /\ \/ socketFile = None /\ Goto(d, "fork") /\ UNCHANGED faults
     \/ socketFile # None /\ pidFile = None /\ Goto(d, "fork") /\ UNCHANGED faults
     \/ socketFile # None /\ pidFile # None /\ pc[pidFile] \in Live /\ Refused(d) /\ UNCHANGED faults
     \/ /\ socketFile # None /\ pidFile # None /\ pc[pidFile] \notin Live
        /\ \/ Goto(d, "sweep") /\ UNCHANGED faults
           \/ Refused(d) /\ Fault
  /\ UNCHANGED <<setVars, fileVars, backlog, processVars, client, signals, killed>>

\* clean_temp_files: the socket is systemd's when systemd has made it.
CleanedSocket == IF activated THEN socketFile ELSE None

Sweep(d) ==
  /\ pc[d] = "sweep"
  /\ socketFile' = CleanedSocket
  /\ pidFile' = None
  /\ Goto(d, "fork")
  /\ UNCHANGED <<setVars, backlog, processVars, client, boundVars>>

\* In the foreground nobody waits; else the father waits for a byte.
Fork(d) ==
  /\ pc[d] = "fork"
  /\ \/ /\ father' \in {[father EXCEPT ![d] = w] : w \in {"absent", "waiting"}}
        /\ Goto(d, "init") /\ UNCHANGED faults
     \/ Refused(d) /\ Fault /\ UNCHANGED father
  /\ UNCHANGED <<setVars, fileVars, backlog, araKiri, initPhase, exitValue, lives, alarm,
                 contexts, accepted, client, signals, killed>>

\* What the father reads when the pipe is closed without a byte.
Hears(w, status) == IF w = "waiting" THEN status ELSE w

\* The directory, the reader structures and reader.conf.
SetUp(d) ==
  /\ pc[d] = "init"
  /\ \/ Goto(d, "gone") /\ father' = [father EXCEPT ![d] = Hears(@, "2")] /\ Fault
     \/ Goto(d, "clean") /\ Fault /\ UNCHANGED father
     \/ StartRefused(conf, FALSE) /\ Goto(d, "clean") /\ UNCHANGED <<father, faults>>
     \/ ~StartRefused(conf, FALSE) /\ Goto(d, "record") /\ UNCHANGED <<father, faults>>
  /\ UNCHANGED <<setVars, fileVars, backlog, araKiri, initPhase, exitValue, lives, alarm,
                 contexts, accepted, client, signals, killed>>

\* The pid is recorded, if it can be; from here on a signal is left to the
\* main loop.
RecordPid(d) ==
  /\ pc[d] = "record"
  /\ \/ pidFile' = d /\ UNCHANGED faults
     \/ Fault /\ UNCHANGED pidFile
  /\ initPhase' = [initPhase EXCEPT ![d] = FALSE]
  /\ Goto(d, "listen")
  /\ UNCHANGED <<setVars, socketFile, backlog, araKiri, exitValue, lives, alarm, contexts,
                 accepted, father, client, signals, killed>>

\* InitializeSocket takes any socket file away and makes its own.
Listen(d) ==
  /\ pc[d] = "listen"
  /\ \/ socketFile' = Listener(d) /\ Goto(d, "prepare") /\ UNCHANGED faults
     \/ socketFile' \in {socketFile, CleanedSocket} /\ Goto(d, "clean") /\ Fault
  /\ UNCHANGED <<setVars, pidFile, backlog, processVars, client, signals, killed>>

\* Mutant: the father is told before the hotplug thread is there.
PrepareTellsFirst(d) ==
  /\ pc[d] = "prepare"
  /\ contexts' = [contexts EXCEPT ![d] = EmptyList]
  /\ father' = [father EXCEPT ![d] = Hears(@, "0")]
  /\ \/ Goto(d, "loop") /\ UNCHANGED faults
     \/ Goto(d, "clean") /\ Fault
  /\ UNCHANGED <<setVars, fileVars, backlog, araKiri, initPhase, exitValue, lives, alarm,
                 accepted, client, signals, killed>>

\* The contexts, the hotplug thread, and the good news for the father.
Prepare(d) ==
  /\ pc[d] = "prepare"
  /\ contexts' = [contexts EXCEPT ![d] = EmptyList]
  /\ \/ Goto(d, "loop") /\ father' = [father EXCEPT ![d] = Hears(@, "0")] /\ UNCHANGED faults
     \/ Goto(d, "clean") /\ Fault /\ UNCHANGED father
  /\ UNCHANGED <<setVars, fileVars, backlog, araKiri, initPhase, exitValue, lives, alarm,
                 accepted, client, signals, killed>>

StartUp(d) ==
  CheckRunning(d) \/ Sweep(d) \/ Fork(d) \/ SetUp(d) \/ RecordPid(d) \/ Listen(d) \/ Prepare(d)

-----------------------------------------------------------------------------
(* SVCServiceRunLoop.                                                      *)

\* Between the test of AraKiri and select, a signal wakes nobody.
EnterSelect(d) ==
  /\ pc[d] = "loop"
  /\ Goto(d, "select")
  /\ UNCHANGED <<setVars, fileVars, backlog, processVars, client, boundVars>>

Accept(d) ==
  /\ pc[d] = "select"
  /\ backlog[Listener(d)] # <<>>
  /\ accepted' = [accepted EXCEPT ![d] = Head(backlog[Listener(d)])]
  /\ backlog' = [backlog EXCEPT ![Listener(d)] = Tail(@)]
  /\ Goto(d, "create")
  /\ UNCHANGED <<setVars, fileVars, araKiri, initPhase, exitValue, lives, alarm, contexts,
                 father, client, boundVars>>

Joins(d, c) == list_append(contexts[d], c).list

Room(d) == list_size(contexts[d]) < MaxContexts

\* CreateContextThread, under contextsList_lock: a connection too many, or
\* for which no thread can be made, is closed.
CreateContextThread(d) ==
  LET c == accepted[d]
  IN /\ pc[d] = "create"
     /\ \/ /\ Room(d)
           /\ contexts' = [contexts EXCEPT ![d] = Joins(d, c)]
           /\ client' = [client EXCEPT ![c] = [Out EXCEPT !.st = "served", !.at = d]]
           /\ alarm' = [alarm EXCEPT ![d] = @ /\ ~autoExit]
           /\ UNCHANGED faults
        \/ /\ ~Room(d)
           /\ client' = [client EXCEPT ![c] = Out]
           /\ UNCHANGED <<contexts, alarm, faults>>
        \/ /\ Room(d) /\ Fault
           /\ contexts' = [contexts EXCEPT ![d] = list_delete(Joins(d, c), c).list]
           /\ client' = [client EXCEPT ![c] = Out]
           /\ UNCHANGED alarm
     /\ accepted' = [accepted EXCEPT ![d] = None]
     /\ Goto(d, "look")
     /\ UNCHANGED <<setVars, fileVars, backlog, araKiri, initPhase, exitValue, lives, father,
                    signals, killed>>

LookAtAraKiri(d) ==
  /\ pc[d] = "look"
  /\ Goto(d, IF araKiri[d] THEN "stop" ELSE "loop")
  /\ UNCHANGED <<setVars, fileVars, backlog, processVars, client, boundVars>>

\* HPStopHotPluggables, RFCleanupReaders, ContextsDeinitialize: the threads
\* of the clients are left running.
StopReaders(d) ==
  /\ pc[d] = "stop"
  /\ Goto(d, "clean")
  /\ UNCHANGED <<setVars, fileVars, backlog, processVars, client, boundVars>>

Loop(d) ==
  EnterSelect(d) \/ Accept(d) \/ CreateContextThread(d) \/ LookAtAraKiri(d) \/ StopReaders(d)

-----------------------------------------------------------------------------
(* at_exit.                                                                *)

CleanSocket(d) ==
  /\ pc[d] = "clean"
  /\ socketFile' = CleanedSocket
  /\ Goto(d, "cleanPid")
  /\ UNCHANGED <<setVars, pidFile, backlog, processVars, client, boundVars>>

CleanPid(d) ==
  /\ pc[d] = "cleanPid"
  /\ pidFile' = None
  /\ Goto(d, "exit")
  /\ UNCHANGED <<setVars, socketFile, backlog, processVars, client, boundVars>>

\* The end of a process takes its connections with it; those that wait on
\* systemd's socket stay.
Dies(d) ==
  /\ Goto(d, "gone")
  /\ backlog' = [backlog EXCEPT ![d] = <<>>]
  /\ client' = [c \in Clients |->
                  IF client[c].at = d \/ accepted[d] = c THEN Out ELSE client[c]]
  /\ contexts' = [contexts EXCEPT ![d] = EmptyList]
  /\ accepted' = [accepted EXCEPT ![d] = None]
  /\ alarm' = [alarm EXCEPT ![d] = FALSE]

Exit(d) ==
  /\ pc[d] = "exit"
  /\ Dies(d)
  /\ father' = [father EXCEPT ![d] = Hears(@, exitValue[d])]
  /\ UNCHANGED <<setVars, fileVars, araKiri, initPhase, exitValue, lives, boundVars>>

\* SIGKILL, or a crash: nothing is cleaned.
Kill(d) ==
  /\ pc[d] \in Live
  /\ ~killed /\ killed' = TRUE
  /\ Dies(d)
  /\ father' = [father EXCEPT ![d] = Hears(@, "2")]
  /\ UNCHANGED <<setVars, fileVars, araKiri, initPhase, exitValue, lives, signals, faults>>

-----------------------------------------------------------------------------
(* Signals.                                                                *)

\* The handler sets a flag, and select is interrupted; or it leaves at once.
Trap(d, now) ==
  IF now THEN Goto(d, "clean")
  ELSE Goto(d, IF pc[d] = "select" THEN "look" ELSE pc[d])

\* signal_trap: SIGTERM leaves at once, as does any signal during start-up
\* or once there is no life left.
SignalTrap(d, sig) ==
  LET first == ~araKiri[d]
      now == \/ sig = "SIGTERM"
             \/ first /\ initPhase[d]
             \/ ~first /\ lives[d] = 1
  IN /\ Trap(d, now)
     /\ exitValue' = [exitValue EXCEPT ![d] = IF sig = "SIGALRM" THEN "0" ELSE @]
     /\ araKiri' = [araKiri EXCEPT ![d] = @ \/ sig # "SIGTERM"]
     /\ lives' = [lives EXCEPT ![d] = IF first \/ sig = "SIGTERM" THEN @ ELSE @ - 1]
     /\ UNCHANGED <<setVars, fileVars, backlog, initPhase, contexts, accepted, father, client,
                    faults, killed>>

Signal(d) ==
  /\ pc[d] \in Trapped
  /\ signals < MaxSignals /\ signals' = signals + 1
  /\ \E sig \in {"SIGINT", "SIGTERM"} : SignalTrap(d, sig)
  /\ UNCHANGED alarm

AlarmRings(d) ==
  /\ pc[d] \in Trapped
  /\ alarm[d] /\ alarm' = [alarm EXCEPT ![d] = FALSE]
  /\ SignalTrap(d, "SIGALRM")
  /\ UNCHANGED signals

-----------------------------------------------------------------------------
(* Clients.                                                                *)

\* ClientSetupSession: the connection is made by the kernel, whoever listens.
ClientConnects(c) ==
  /\ client[c].st = "out"
  /\ socketFile \in {Systemd} \cup {d \in Daemons : pc[d] \in Listening}
  /\ backlog' = [backlog EXCEPT ![socketFile] = Append(@, c)]
  /\ client' = [client EXCEPT ![c] = [Out EXCEPT !.st = "queued", !.at = socketFile]]
  /\ UNCHANGED <<pc, setVars, fileVars, processVars, boundVars>>

\* MSGCleanupClient: the context leaves the list, and the size is read, under
\* the lock; the alarm is set after it.
ContextLeaves(c) ==
  LET d == client[c].at
      left == list_delete(contexts[d], c).list
  IN /\ client[c].st = "served"
     /\ contexts' = [contexts EXCEPT ![d] = left]
     /\ client' = [client EXCEPT ![c] = [st |-> "leaving", at |-> d, last |-> list_size(left) < 1]]
     /\ UNCHANGED <<pc, setVars, fileVars, backlog, araKiri, initPhase, exitValue, lives, alarm,
                    accepted, father, boundVars>>

ThreadEnds(c) ==
  /\ client[c].st = "leaving"
  /\ alarm' = [alarm EXCEPT ![client[c].at] = @ \/ (autoExit /\ client[c].last)]
  /\ client' = [client EXCEPT ![c] = Out]
  /\ UNCHANGED <<pc, setVars, fileVars, backlog, araKiri, initPhase, exitValue, lives, contexts,
                 accepted, father, boundVars>>

-----------------------------------------------------------------------------
Init ==
  /\ pc = [d \in Daemons |-> "off"]
  /\ activated \in BOOLEAN /\ autoExit \in BOOLEAN
  /\ conf \in Files
  /\ socketFile = (IF activated THEN Systemd ELSE None) /\ pidFile = None
  /\ backlog = [l \in Daemons \cup {Systemd} |-> <<>>]
  /\ araKiri = [d \in Daemons |-> FALSE] /\ initPhase = [d \in Daemons |-> TRUE]
  /\ exitValue = [d \in Daemons |-> "1"] /\ lives = [d \in Daemons |-> 2]
  /\ alarm = [d \in Daemons |-> FALSE]
  /\ contexts = [d \in Daemons |-> EmptyList]
  /\ accepted = [d \in Daemons |-> None]
  /\ father = [d \in Daemons |-> "none"]
  /\ client = [c \in Clients |-> Out]
  /\ signals = 0 /\ faults = 0 /\ killed = FALSE

Steps(d) == StartUp(d) \/ Loop(d) \/ CleanSocket(d) \/ CleanPid(d) \/ Exit(d)

Next ==
  \/ \E d \in Daemons : Start(d) \/ Steps(d) \/ Kill(d) \/ Signal(d) \/ AlarmRings(d)
  \/ \E c \in Clients : ClientConnects(c) \/ ContextLeaves(c) \/ ThreadEnds(c)

Spec == Init /\ [][Next]_vars

-----------------------------------------------------------------------------
(* Properties.                                                             *)

Serving == Looping \cup {"stop"}

\* No process starts while another one starts or leaves.
NoOverlap ==
  \A d, e \in Daemons :
    pc'[d] \in {"check", "sweep", "fork", "init", "record", "listen"} =>
      e = d \/ pc'[e] \in Serving \cup {"off", "gone"}

\* Whatever a killed process has left, a process that serves is alone, behind
\* the socket and named by the pid file, so that clients and the next process
\* find it: neither a refused process nor the sweep of another one's files
\* takes them away.  So it is as long as no system call fails, and as no
\* process starts while another one starts or leaves (pcscdaemon.c:337-383,
\* 629-670).
DaemonFound ==
  \A d \in Daemons :
    pc[d] \in Serving /\ faults = 0 => socketFile = Listener(d) /\ pidFile = d

\* The father is told of success when the process comes to serve, and at no
\* other time (pcscdaemon.c:600-609, 639-651).
FatherKnows ==
  [][\A d \in Daemons :
       /\ father'[d] = "0" /\ father[d] # "0" => pc'[d] \in Serving
       /\ pc'[d] \in Serving => father'[d] \in {"0", "absent"}]_vars
=============================================================================
