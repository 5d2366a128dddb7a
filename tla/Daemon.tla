------------------------------- MODULE Daemon -------------------------------
(***************************************************************************)
(* The life of the tdm daemon (tdm/testdm.cpp): launches that count one    *)
(* another, the order in which main makes and deletes what its threads     *)
(* use, the stop signal, and the monitoring loop with the shared memory    *)
(* it reads (tdm/status.cpp), which DPS scripts write (etc/mondps.c and    *)
(* test_shmem of the debug menu) under a System V semaphore with SEM_UNDO  *)
(* (tbase/base.cpp).                                                       *)
(*                                                                         *)
(* What the handler and test threads do in detail is in TestMng; here they *)
(* touch the CTestMng of a port when they begin and when they end.         *)
(*                                                                         *)
(* A definition whose name ends in _Bug is the one after it with a mistake *)
(* that would be easy to make; the properties are tried against it.        *)
(***************************************************************************)
EXTENDS Integers, FiniteSets

CONSTANTS
  Launches,  \* processes of the program tdm
  Uncounted, \* those in which popen or fgets fails when they count
  Writers,   \* processes that write the DPS status
  SemDenied, \* processes of both kinds in which CreateSem fails
  PortCnt,   \* PORT_CNT
  Values     \* what a write can put into the shared memory; 0 is a new segment

ASSUME LaunchesAssumption == IsFiniteSet(Launches) /\ Uncounted \subseteq Launches
ASSUME WritersAssumption == Launches \cap Writers = {}
ASSUME DeniedAssumption == SemDenied \subseteq Launches \cup Writers
ASSUME PortAssumption == PortCnt \in Nat \ {0}
ASSUME ValuesAssumption == 0 \in Values

Procs == Launches \cup Writers
Ports == 1..PortCnt

(* The threads that call ProcRecvMsg (bridge) and ProcRecvSock. *)
Handlers == {"bridge", "server", "client"}

VARIABLES
  pc,            \* where main of each process is
  handled,       \* the launches whose signal handler is installed
  g_condTestDm,  \* of each launch
  running,       \* the handler threads of each launch
  at,            \* the port whose message a handler thread processes, 0 for none
  g_pTestMng,    \* of each launch and port: null, live or freed
  test,          \* the test threads of each launch, by port
  sem,           \* the semaphore: NoSem or its value
  undo,          \* what the kernel adds to it when a process ends
  unlocked,      \* some process went on without the lock
  shm,           \* the two halves of the shared DpsStatus
  statDps        \* the copy of it in each launch

mainvars == <<handled, g_condTestDm>>
threadvars == <<running, at, test>>
semvars == <<sem, undo, unlocked>>
dpsvars == <<shm, statDps>>
vars == <<pc, mainvars, threadvars, g_pTestMng, semvars, dpsvars>>

NoSem == -1

LoopPcs == {"loop", "lock", "read1", "read2", "unlock", "monitor"}
DeletePcs == {"del_status", "del_bridge", "del_client", "hung", "del_mng", "exit"}
InitPcs == {"signal", "folders", "bridge", "server", "client", "mng",
            "sem", "setval", "ready", "arm"}
EndPcs == {"ended", "segv", "crashed"}
DaemonPcs == InitPcs \cup LoopPcs \cup DeletePcs
LaunchPcs == {"none", "check"} \cup DaemonPcs \cup EndPcs

WriterPcs == {"none", "sem", "setval", "lock", "write1", "write2",
              "unlock", "ended", "torn"}

Alive == {p \in Launches : pc[p] \notin {"none"} \cup EndPcs}
Daemons == {p \in Launches : pc[p] \in DaemonPcs}

Init ==
  /\ pc = [p \in Procs |-> "none"]
  /\ handled = {}
  /\ g_condTestDm = [p \in Launches |-> 0]
  /\ running = [p \in Launches |-> {}]
  /\ at = [p \in Launches |-> [h \in Handlers |-> 0]]
  /\ test = [p \in Launches |-> {}]
  /\ g_pTestMng = [p \in Launches |-> [i \in Ports |-> "null"]]
  /\ sem = NoSem
  /\ undo = [p \in Procs |-> 0]
  /\ unlocked = FALSE
  /\ shm = <<0, 0>>
  /\ statDps = [p \in Launches |-> <<0, 0>>]

Goto(p, where) == pc' = [pc EXCEPT ![p] = where]

-----------------------------------------------------------------------------
(* The System V semaphore of tbase/base.cpp. *)

(* Every process that opens the semaphore sets it. *)
CreateSem_Bug(p, made, found) ==
  /\ sem' = (IF sem = NoSem THEN 0 ELSE sem)
  /\ Goto(p, made)
  /\ UNCHANGED <<undo, unlocked>>

(* semget makes it with value 0; only the process that made it goes on to  *)
(* SETVAL.  Where one of the calls fails the id is negative, and when that *)
(* is SETVAL the semaphore stays at 0.                                     *)
CreateSem(p, made, found) ==
  /\ \/ /\ p \in SemDenied
        /\ sem' \in {sem, IF sem = NoSem THEN 0 ELSE sem}
        /\ Goto(p, found)
     \/ /\ p \notin SemDenied
        /\ IF sem = NoSem THEN sem' = 0 /\ Goto(p, made)
                          ELSE UNCHANGED sem /\ Goto(p, found)
  /\ UNCHANGED <<undo, unlocked>>

(* semctl SETVAL: the value becomes 1, and all undo counts 0. *)
SetVal ==
  /\ sem' = 1
  /\ undo' = [q \in Procs |-> 0]
  /\ UNCHANGED unlocked

(* semop -1 with SEM_UNDO; with a negative id only an error that nobody    *)
(* looks at.                                                               *)
LockSem(p) ==
  \/ /\ p \in SemDenied
     /\ unlocked' = TRUE
     /\ UNCHANGED <<sem, undo>>
  \/ /\ p \notin SemDenied /\ sem > 0
     /\ sem' = sem - 1
     /\ undo' = [undo EXCEPT ![p] = @ + 1]
     /\ UNCHANGED unlocked

(* semop +1 with SEM_UNDO. *)
UnlockSem(p) ==
  \/ p \in SemDenied /\ UNCHANGED semvars
  \/ /\ p \notin SemDenied
     /\ sem' = sem + 1
     /\ undo' = [undo EXCEPT ![p] = @ - 1]
     /\ UNCHANGED unlocked

(* The kernel does not know of an unfinished section. *)
ExitSem_Bug(p) == UNCHANGED semvars

(* A process ends: the kernel applies its undo count, down to 0. *)
ExitSem(p) ==
  /\ sem' = (IF undo[p] = 0 THEN sem ELSE IF sem + undo[p] < 0 THEN 0 ELSE sem + undo[p])
  /\ undo' = [undo EXCEPT ![p] = 0]
  /\ UNCHANGED unlocked

-----------------------------------------------------------------------------
(* The end of a launch: its threads and its memory go with it. *)
End(p, how) ==
  /\ Goto(p, how)
  /\ handled' = handled \ {p}
  /\ g_condTestDm' = [g_condTestDm EXCEPT ![p] = 0]
  /\ g_pTestMng' = [g_pTestMng EXCEPT ![p] = [i \in Ports |-> "null"]]
  /\ statDps' = [statDps EXCEPT ![p] = <<0, 0>>]
  /\ running' = [running EXCEPT ![p] = {}]
  /\ at' = [at EXCEPT ![p] = [h \in Handlers |-> 0]]
  /\ test' = [test EXCEPT ![p] = {}]
  /\ ExitSem(p)
  /\ UNCHANGED shm

(* SIGKILL, or a crash of its own: at any moment. *)
Killed(p) == p \in Alive /\ End(p, "ended")

-----------------------------------------------------------------------------
(* main, up to the loop. *)

Launch(p) ==
  /\ pc[p] = "none"
  /\ Goto(p, "check")
  /\ UNCHANGED <<mainvars, threadvars, g_pTestMng, semvars, dpsvars>>

(* ps -e | grep tdm | wc -l.  When it fails the count is -1 or 0. *)
CountProgs(p) == IF p \in Uncounted THEN -1 ELSE Cardinality(Alive)

(* The process does not know that it counts itself. *)
CheckProgRunning_Bug(p) ==
  /\ pc[p] = "check"
  /\ Goto(p, IF CountProgs(p) > 2 THEN "ended" ELSE "signal")
  /\ UNCHANGED <<mainvars, threadvars, g_pTestMng, semvars, dpsvars>>

(* main goes on unless it counts another process than this one. *)
CheckProgRunning(p) ==
  /\ pc[p] = "check"
  /\ Goto(p, IF CountProgs(p) > 1 THEN "ended" ELSE "signal")
  /\ UNCHANGED <<mainvars, threadvars, g_pTestMng, semvars, dpsvars>>

SetSignal(p) ==
  /\ pc[p] = "signal"
  /\ handled' = handled \cup {p}
  /\ Goto(p, "folders")
  /\ UNCHANGED <<g_condTestDm, threadvars, g_pTestMng, semvars, dpsvars>>

(* GetTpcId and CreateTestFolders. *)
CreateTestFolders(p) ==
  /\ pc[p] = "folders"
  /\ Goto(p, "bridge")
  /\ UNCHANGED <<mainvars, threadvars, g_pTestMng, semvars, dpsvars>>

(* InitResource: from here on the threads call ProcRecvMsg, and from the   *)
(* next two steps on ProcRecvSock.                                         *)
StartThread(p, h, next) ==
  /\ pc[p] = h
  /\ running' = [running EXCEPT ![p] = @ \cup {h}]
  /\ Goto(p, next)
  /\ UNCHANGED <<mainvars, at, test, g_pTestMng, semvars, dpsvars>>

StartThreads(p) ==
  \/ StartThread(p, "bridge", "server")
  \/ StartThread(p, "server", "client")
  \/ StartThread(p, "client", "mng")

(* One more CTestMng; the last one is followed by the CStatus. *)
NewTestMng(p) ==
  /\ pc[p] = "mng"
  /\ \E i \in Ports :
       /\ g_pTestMng[p][i] = "null"
       /\ \A j \in 1..(i - 1) : g_pTestMng[p][j] = "live"
       /\ g_pTestMng' = [g_pTestMng EXCEPT ![p][i] = "live"]
       /\ Goto(p, IF i = PortCnt THEN "sem" ELSE "mng")
  /\ UNCHANGED <<mainvars, threadvars, semvars, dpsvars>>

(* CStatus::CStatus, which has also cleared statDps. *)
NewStatus(p) ==
  \/ /\ pc[p] = "sem"
     /\ CreateSem(p, "setval", "ready")
     /\ UNCHANGED <<mainvars, threadvars, g_pTestMng, dpsvars>>
  \/ /\ pc[p] = "setval"
     /\ SetVal
     /\ Goto(p, "ready")
     /\ UNCHANGED <<mainvars, threadvars, g_pTestMng, dpsvars>>

(* The twelve messages to the host go through the bridge. *)
NotifyProgReady(p) ==
  /\ pc[p] = "ready"
  /\ Goto(p, "arm")
  /\ UNCHANGED <<mainvars, threadvars, g_pTestMng, semvars, dpsvars>>

(* A stop signal that came earlier is forgotten here. *)
Arm(p) ==
  /\ pc[p] = "arm"
  /\ g_condTestDm' = [g_condTestDm EXCEPT ![p] = 1]
  /\ Goto(p, "loop")
  /\ UNCHANGED <<handled, threadvars, g_pTestMng, semvars, dpsvars>>

-----------------------------------------------------------------------------
(* The monitoring loop: CheckOs changes nothing another part reads. *)

LoopTest(p) ==
  /\ pc[p] = "loop"
  /\ Goto(p, IF g_condTestDm[p] = 1 THEN "lock" ELSE "del_status")
  /\ UNCHANGED <<mainvars, threadvars, g_pTestMng, semvars, dpsvars>>

(* CStatus::CheckDps: LockSem, the copy in two halves, UnlockSem, each     *)
(* whatever the one before it returned.                                    *)
CheckDps(p) ==
  /\ \/ pc[p] = "lock" /\ LockSem(p) /\ Goto(p, "read1") /\ UNCHANGED statDps
     \/ /\ pc[p] = "read1"
        /\ statDps' = [statDps EXCEPT ![p][1] = shm[1]]
        /\ Goto(p, "read2") /\ UNCHANGED semvars
     \/ /\ pc[p] = "read2"
        /\ statDps' = [statDps EXCEPT ![p][2] = shm[2]]
        /\ Goto(p, "unlock") /\ UNCHANGED semvars
     \/ pc[p] = "unlock" /\ UnlockSem(p) /\ Goto(p, "monitor") /\ UNCHANGED statDps
  /\ UNCHANGED <<mainvars, threadvars, g_pTestMng, shm>>

(* CheckTest of both CTestMng objects, CopyLogFile of the first one only   *)
(* (the loop stops before PORT_MAX), and the sleep.                        *)
Monitor(p) ==
  /\ pc[p] = "monitor"
  /\ Goto(p, "loop")
  /\ UNCHANGED <<mainvars, threadvars, g_pTestMng, semvars, dpsvars>>

-----------------------------------------------------------------------------
(* DeleteResource. *)

DeleteStatus(p) ==
  /\ pc[p] = "del_status"
  /\ Goto(p, "del_bridge")
  /\ UNCHANGED <<mainvars, threadvars, g_pTestMng, semvars, dpsvars>>

(* StopThread without the join. *)
StopThread_Bug(p, h, next) ==
  /\ pc[p] = (IF h = "bridge" THEN "del_bridge" ELSE "del_client")
  /\ Goto(p, next)
  /\ UNCHANGED <<mainvars, threadvars, g_pTestMng, semvars, dpsvars>>

(* StopThread of bridge or client joins the thread when its callback has   *)
(* returned.  The server is not stopped.                                   *)
StopThread(p, h, next) ==
  /\ pc[p] = (IF h = "bridge" THEN "del_bridge" ELSE "del_client")
  /\ at[p][h] = 0
  /\ running' = [running EXCEPT ![p] = @ \ {h}]
  /\ Goto(p, next)
  /\ UNCHANGED <<mainvars, at, test, g_pTestMng, semvars, dpsvars>>

(* A thread that never comes back is waited for: one that waits for room   *)
(* in a full queue (MsgqThread), for the condition of a StartTest whose    *)
(* thread could not be made (TestMng), or that set its flag after          *)
(* StopThread had cleared it (SocketClient).                               *)
StopHangs(p) ==
  /\ pc[p] \in {"del_bridge", "del_client"}
  /\ Goto(p, "hung")
  /\ UNCHANGED <<mainvars, threadvars, g_pTestMng, semvars, dpsvars>>

StopThreads(p) ==
  \/ StopThread(p, "bridge", "del_client")
  \/ StopThread(p, "client", "del_mng")

DeleteTestMng(p) ==
  /\ pc[p] = "del_mng"
  /\ \E i \in Ports :
       /\ g_pTestMng[p][i] = "live"
       /\ \A j \in 1..(i - 1) : g_pTestMng[p][j] = "freed"
       /\ g_pTestMng' = [g_pTestMng EXCEPT ![p][i] = "freed"]
       /\ Goto(p, IF i = PortCnt THEN "exit" ELSE "del_mng")
  /\ UNCHANGED <<mainvars, threadvars, semvars, dpsvars>>

(* The path names are deleted and main returns. *)
Exit(p) == pc[p] = "exit" /\ End(p, "ended")

-----------------------------------------------------------------------------
(* Signals, and the other threads of a launch. *)

(* SIGINT or SIGTERM.  Before SetSignal it ends the process; afterwards    *)
(* ProcSignalStop clears the flag.  If main sleeps in semop and the signal *)
(* is delivered to it, semop returns EINTR (SA_RESTART does not apply to   *)
(* it) and main goes on without the lock.                                  *)
ProcSignalStop(p) ==
  /\ p \in Alive /\ p \in handled
  /\ g_condTestDm' = [g_condTestDm EXCEPT ![p] = 0]
  /\ \/ UNCHANGED <<pc, unlocked>>
     \/ /\ pc[p] = "lock" /\ sem = 0 /\ p \notin SemDenied
        /\ unlocked' = TRUE
        /\ Goto(p, "read1")
  /\ UNCHANGED <<handled, threadvars, g_pTestMng, sem, undo, dpsvars>>

DefaultSignal(p) == p \in Alive \ handled /\ End(p, "ended")

(* A thread uses the CTestMng of a port: a null pointer ends the process,  *)
(* a freed object may.                                                     *)
Touch(p, i, step) ==
  \/ g_pTestMng[p][i] # "null" /\ step
  \/ g_pTestMng[p][i] # "live" /\ End(p, "segv")

(* A message for this cell and a valid port is passed to a callback. *)
HandleBegin(p, h, i) ==
  /\ h \in running[p] /\ at[p][h] = 0
  /\ Touch(p, i, /\ at' = [at EXCEPT ![p][h] = i]
                 /\ UNCHANGED <<pc, mainvars, running, test, g_pTestMng, semvars, dpsvars>>)

(* A MSG_INIT: its answer carries szProgVersion, which callback.cpp takes  *)
(* for a pointer while testdm.cpp defines an array: SendMsg reads the text *)
(* of the version as an address, which is not mapped.                      *)
HandleInit(p, h) ==
  /\ h \in running[p] /\ at[p][h] = 0
  /\ End(p, "crashed")

(* The callback returns; it may have started a test. *)
HandleEnd(p, h) ==
  /\ at[p][h] # 0
  /\ Touch(p, at[p][h],
           /\ at' = [at EXCEPT ![p][h] = 0]
           /\ test' \in {test, [test EXCEPT ![p] = @ \cup {at[p][h]}]}
           /\ UNCHANGED <<pc, mainvars, running, g_pTestMng, semvars, dpsvars>>)

(* A STOP that finds the id of a test thread before the pid of its child   *)
(* sends SIGKILL to pid 0, the process group of the daemon.                *)
StopKillsGroup(p, h) ==
  /\ at[p][h] # 0
  /\ at[p][h] \in test[p] \/ \E g \in Handlers \ {h} : at[p][g] = at[p][h]
  /\ End(p, "crashed")

(* A START whose test was over before it detached the thread detaches the  *)
(* id 0, where the C library reads the thread's descriptor.                *)
DetachesNone(p, h) == at[p][h] # 0 /\ End(p, "crashed")

(* The script of a test is over and its detached thread tidies up. *)
TestEnd(p, i) ==
  /\ i \in test[p]
  /\ Touch(p, i, /\ test' = [test EXCEPT ![p] = @ \ {i}]
                 /\ UNCHANGED <<pc, mainvars, running, at, g_pTestMng, semvars, dpsvars>>)

-----------------------------------------------------------------------------
(* A process that writes the DPS status. *)

StartWriter(w) ==
  /\ pc[w] = "none"
  /\ Goto(w, "sem")
  /\ UNCHANGED <<mainvars, threadvars, g_pTestMng, semvars, dpsvars>>

OpenSem(w) ==
  /\ \/ pc[w] = "sem" /\ CreateSem(w, "setval", "lock")
     \/ pc[w] = "setval" /\ SetVal /\ Goto(w, "lock")
  /\ UNCHANGED <<mainvars, threadvars, g_pTestMng, dpsvars>>

(* The channels are measured; LockSem, SetShmem in two halves, UnlockSem.  *)
(* mondps does so every 500 ms, test_shmem once.                           *)
WriteDps(w) ==
  /\ \/ pc[w] = "lock" /\ LockSem(w) /\ Goto(w, "write1") /\ UNCHANGED shm
     \/ /\ pc[w] = "write1"
        /\ \E v \in Values : shm' = [shm EXCEPT ![1] = v]
        /\ Goto(w, "write2") /\ UNCHANGED semvars
     \/ /\ pc[w] = "write2"
        /\ shm' = [shm EXCEPT ![2] = shm[1]]
        /\ Goto(w, "unlock") /\ UNCHANGED semvars
     \/ /\ pc[w] = "unlock" /\ UnlockSem(w) /\ UNCHANGED shm
        /\ \/ Goto(w, "lock")
           \/ Goto(w, "ended")
  /\ UNCHANGED <<mainvars, threadvars, g_pTestMng, statDps>>

(* Killed at any moment: mondps never calls its SetSignal, and StopTest    *)
(* sends SIGKILL.                                                          *)
KillWriter(w) ==
  /\ pc[w] \notin {"none", "ended", "torn"}
  /\ ExitSem(w)
  /\ Goto(w, IF pc[w] = "write2" THEN "torn" ELSE "ended")
  /\ UNCHANGED <<mainvars, threadvars, g_pTestMng, dpsvars>>

-----------------------------------------------------------------------------
StartStep(p) ==
  \/ CheckProgRunning(p) \/ SetSignal(p) \/ CreateTestFolders(p)
  \/ StartThreads(p) \/ NewTestMng(p) \/ NewStatus(p)
  \/ NotifyProgReady(p) \/ Arm(p)

LoopStep(p) == LoopTest(p) \/ CheckDps(p) \/ Monitor(p)

DeleteStep(p) ==
  DeleteStatus(p) \/ StopThreads(p) \/ DeleteTestMng(p) \/ Exit(p)

MainStep(p) == StartStep(p) \/ LoopStep(p) \/ DeleteStep(p)

ThreadStep(p) ==
  \/ \E h \in Handlers :
       \/ \E i \in Ports : HandleBegin(p, h, i)
       \/ HandleInit(p, h) \/ StopKillsGroup(p, h) \/ DetachesNone(p, h) \/ HandleEnd(p, h)
  \/ \E i \in Ports : TestEnd(p, i)

WriterStep(w) == OpenSem(w) \/ WriteDps(w)

Next ==
  \/ \E p \in Launches :
       \/ Launch(p) \/ MainStep(p) \/ ThreadStep(p)
       \/ StopHangs(p) \/ Killed(p) \/ ProcSignalStop(p) \/ DefaultSignal(p)
  \/ \E w \in Writers : StartWriter(w) \/ WriterStep(w) \/ KillWriter(w)

Spec == Init /\ [][Next]_vars

Joins(p, h) == pc[p] = IF h = "bridge" THEN "del_bridge" ELSE "del_client"

(* Processes that can run do, and the queue of semop is first-in first-out *)
(* (hence SF).  A callback whose thread main joins returns, or StopHangs.  *)
Fairness ==
  /\ \A p \in Launches :
       /\ SF_vars(MainStep(p))
       /\ \A h \in {"bridge", "client"} : WF_vars(Joins(p, h) /\ HandleEnd(p, h))
  /\ \A w \in Writers : WF_vars(WriterStep(w))

FairSpec == Spec /\ Fairness

-----------------------------------------------------------------------------
(* Every variable has a value of its C++ type; a thread runs only in a     *)
(* launch that got past InitResource's first step and has not ended.       *)
TypeOK ==
  /\ pc \in [Procs -> LaunchPcs \cup WriterPcs]
  /\ \A p \in Launches : pc[p] \in LaunchPcs
  /\ \A w \in Writers : pc[w] \in WriterPcs
  /\ handled \subseteq Launches
  /\ g_condTestDm \in [Launches -> {0, 1}]
  /\ running \in [Launches -> SUBSET Handlers]
  /\ at \in [Launches -> [Handlers -> 0..PortCnt]]
  /\ test \in [Launches -> SUBSET Ports]
  /\ g_pTestMng \in [Launches -> [Ports -> {"null", "live", "freed"}]]
  /\ sem \in Nat \cup {NoSem}
  /\ undo \in [Procs -> Int]
  /\ unlocked \in BOOLEAN
  /\ shm \in Values \X Values
  /\ statDps \in [Launches -> Values \X Values]
  /\ \A p \in Launches : running[p] # {} => p \in Alive

(* testdm.cpp:30, "running check": two tdm daemons never run at the same   *)
(* time, however their launches overlap, unless one of them could not      *)
(* count.  They would read the same message files and kernel queue.        *)
OneDaemon ==
  \A p, q \in Daemons \ Uncounted : p = q

(* A START, a STOP or a test that ends uses a CTestMng that is not there   *)
(* only while main has not made the CTestMng objects yet, and then again   *)
(* while it deletes them; by then no thread that StopThread could stop is  *)
(* left.  What else crashes the daemon in between is in StopKillsGroup,    *)
(* DetachesNone and HandleInit.                                            *)
MngMissingOnlyAtEnds ==
  [][\A p \in Launches : pc[p] # "segv" /\ pc'[p] = "segv" =>
       \/ pc[p] \in {"server", "client", "mng"}
       \/ pc[p] \in {"del_mng", "exit"} /\ running[p] \subseteq {"server"}]_vars

(* While nobody goes on without the lock, at most one process is between   *)
(* LockSem and UnlockSem.                                                  *)
InSection(x) == pc[x] \in {"read1", "read2", "write1", "write2", "unlock"}
DpsExclusive ==
  ~unlocked => \A x, y \in Procs : InSection(x) /\ InSection(y) => x = y

(* The status the daemon has just copied is one that a process wrote as a  *)
(* whole, unless a writer died in the middle of its write (the kernel      *)
(* gives the lock of the dead to the next one) or a process went on        *)
(* without the lock: a signal ended its semop, or it has no semaphore.     *)
DpsReadWhole ==
  \A p \in Launches :
    pc[p] = "unlock" /\ ~unlocked =>
      statDps[p][1] = statDps[p][2] \/ \E w \in Writers : pc[w] = "torn"

(* The process that made the semaphore died before it was set to 1, or     *)
(* could not set it: no one gets the lock any more.                        *)
SemStuck ==
  sem = 0 /\ \A q \in Procs : pc[q] # "setval" /\ undo[q] = 0

(* A stop signal that arrives while the daemon is in its loop ends it,     *)
(* though its threads may be in the middle of messages and it may wait for *)
(* the semaphore; unless the semaphore is stuck, or main joins a thread    *)
(* that never comes back.                                                  *)
StopHeeded ==
  \A p \in Launches :
    (pc[p] \in LoopPcs /\ g_condTestDm[p] = 0) ~> (pc[p] \in EndPcs \cup {"hung"} \/ SemStuck)

=============================================================================
