------------------------------ MODULE TestMng ------------------------------
(***************************************************************************)
(* CTestMng, the test manager of one port (tdm/testmng.cpp), together with *)
(* the START and STOP branches of its callers (tdm/callback.cpp), the log  *)
(* list it feeds (tdm/log.cpp) and the test processes it forks.            *)
(*                                                                         *)
(* The callers are the daemon's message handler threads: one of the bridge *)
(* CMsgqThread (ProcMsg) and one each of CSocketServer and CSocketClient   *)
(* (ProcSock).  All of them call the same CTestMng without a lock; only    *)
(* the hand-over of the version to a new TestThread is under mutexSync.    *)
(* Each critical section is one action, so the mutex needs no variable.    *)
(*                                                                         *)
(* A definition whose name ends in _Bug is the one after it with a mistake *)
(* that would be easy to make; the properties are tried against it.        *)
(***************************************************************************)
EXTENDS Naturals, Sequences, FiniteSets

CONSTANTS
  MsgqHandlers,  \* handler threads that run ProcMsg
  SockHandlers,  \* handler threads that run ProcSock
  Starters,      \* the handlers that ever receive MSG_TEST_START
  Versions,      \* test slots of the port (MSGVER_*)
  Threads,       \* TestThread instances: the bound on the number of runs
  NoThread,      \* the value 0 of a pthread_t
  NoVersion,     \* no message in hand, an int not yet assigned
  ZeroPid,       \* a pid_t that was never assigned and happens to be 0
  Garbage,       \* a pid_t that was never assigned and is not 0
  Faults         \* which rare events of the system calls may happen

Handlers == MsgqHandlers \cup SockHandlers

ASSUME SetsAssumption ==
  /\ Starters \subseteq Handlers
  /\ MsgqHandlers \cap SockHandlers = {}
  /\ Faults \subseteq {"spurious", "fork", "create", "copy"}
ASSUME ValuesAssumption ==
  /\ NoThread \notin Threads
  /\ NoVersion \notin Versions
  /\ ZeroPid # Garbage
  /\ ZeroPid \notin Threads
  /\ Garbage \notin Threads
ASSUME FiniteAssumption == IsFiniteSet(Handlers) /\ IsFiniteSet(Threads)

VARIABLES
  hpc,             \* where each handler is in ProcMsg/ProcSock and StartTest/StopTest
  hver,            \* the version of the message it is processing
  iVersion,        \* CTestMng::iVersion, through which a new thread learns its version
  idThread,        \* CTestMng::idThread
  pidTestProcess,  \* CTestMng::pidTestProcess; a process is named after its thread
  listLogFile,     \* CLog::listLogFile, each log file named after its version
  logFile,         \* the log file of each version: absent, with lines that no copy was
                   \* tried of, copied, or not copied because the last try failed
  tpc,             \* where each TestThread is
  tver,            \* its local iVersion
  child,           \* its test process
  daemon           \* the tdm process

hvars == <<hpc, hver>>
tvars == <<tpc, tver, child>>
logvars == <<listLogFile, logFile>>
vars == <<hpc, hver, iVersion, idThread, pidTestProcess, listLogFile, logFile,
          tpc, tver, child, daemon>>

Starting == {"checked", "compile", "create"}
HandlerPcs == {"idle", "waiting", "detach", "report",
               "stop", "kill", "poll", "abort_ok", "abort_fail"} \cup Starting
ThreadPcs == {"unborn", "born", "fork", "store", "waitpid", "copylog", "dellog",
              "clear", "done"}

Waiting == {h \in Handlers : hpc[h] = "waiting"}
Born == {t \in Threads : tpc[t] = "born"}
Unborn == {t \in Threads : tpc[t] = "unborn"}

(* CTestMng::IsTestOn *)
IsTestOn(v) == idThread[v] # NoThread

(* A version is in the log list. *)
Listed(v) == \E i \in DOMAIN listLogFile : listLogFile[i] = v

Init ==
  /\ hpc = [h \in Handlers |-> "idle"]
  /\ hver = [h \in Handlers |-> NoVersion]
  /\ iVersion = NoVersion
  /\ idThread = [v \in Versions |-> NoThread]
  /\ pidTestProcess \in [Versions -> {ZeroPid, Garbage}]
  /\ listLogFile = <<>>
  /\ logFile = [v \in Versions |-> "none"]
  /\ tpc = [t \in Threads |-> "unborn"]
  /\ tver = [t \in Threads |-> NoVersion]
  /\ child = [t \in Threads |-> "none"]
  /\ daemon = "up"

-----------------------------------------------------------------------------
(* Handlers: MSG_TEST_START. *)

Goto(h, pc) == hpc' = [hpc EXCEPT ![h] = pc]

(* The callback returns and the handler thread waits for the next message. *)
Return(h) ==
  /\ Goto(h, "idle")
  /\ hver' = [hver EXCEPT ![h] = NoVersion]

(* Bound: a start is received only while a thread is left to run it. *)
SpareThread ==
  Cardinality(Unborn) > Cardinality({h \in Handlers : hpc[h] \in Starting})

(* MSG_TEST_START of a version that is off; of one that is on, it is dropped. *)
RecvStart(h, v) ==
  /\ daemon = "up" /\ hpc[h] = "idle" /\ h \in Starters
  /\ SpareThread
  /\ ~IsTestOn(v)
  /\ Goto(h, "checked")
  /\ hver' = [hver EXCEPT ![h] = v]
  /\ UNCHANGED <<iVersion, idThread, pidTestProcess, logvars, tvars, daemon>>

(* The script is missing or has the wrong extension: MSG_DONE, no test. *)
RejectScript(h) ==
  /\ daemon = "up" /\ hpc[h] = "checked"
  /\ Return(h)
  /\ UNCHANGED <<iVersion, idThread, pidTestProcess, logvars, tvars, daemon>>

(* CLog::AddLogFileList: appended unless it is there. *)
AddLogFileList(v) ==
  listLogFile' = IF Listed(v) THEN listLogFile ELSE Append(listLogFile, v)

(* StartTest looks at idThread again, after the script was copied; it      *)
(* removes the old log file and lists the new one.                         *)
PrepareLog(h) ==
  /\ daemon = "up" /\ hpc[h] = "checked"
  /\ ~IsTestOn(hver[h])
  /\ logFile' = [logFile EXCEPT ![hver[h]] = "none"]
  /\ AddLogFileList(hver[h])
  /\ Goto(h, "compile")
  /\ UNCHANGED <<hver, iVersion, idThread, pidTestProcess, tvars, daemon>>

StartRefused(h) ==
  /\ daemon = "up" /\ hpc[h] = "checked"
  /\ IsTestOn(hver[h])
  /\ Return(h)
  /\ UNCHANGED <<iVersion, idThread, pidTestProcess, logvars, tvars, daemon>>

CompileOk(h) ==
  /\ daemon = "up" /\ hpc[h] = "compile"
  /\ Goto(h, "create")
  /\ UNCHANGED <<hver, iVersion, idThread, pidTestProcess, logvars, tvars, daemon>>

(* The compiler failed: StartTest returns -2, the log stays listed and no  *)
(* message is sent.                                                        *)
CompileError(h) ==
  /\ daemon = "up" /\ hpc[h] = "compile"
  /\ Return(h)
  /\ UNCHANGED <<iVersion, idThread, pidTestProcess, logvars, tvars, daemon>>

(* iVersion is not set. *)
CreateThreadUnset_Bug(h, t) ==
  /\ daemon = "up" /\ hpc[h] = "create"
  /\ tpc[t] = "unborn"
  /\ idThread' = [idThread EXCEPT ![hver[h]] = t]
  /\ tpc' = [tpc EXCEPT ![t] = "born"]
  /\ Goto(h, "waiting")
  /\ UNCHANGED <<hver, iVersion, pidTestProcess, logvars, tver, child, daemon>>

(* No wait for the new thread. *)
CreateThreadNoWait_Bug(h, t) ==
  /\ daemon = "up" /\ hpc[h] = "create"
  /\ tpc[t] = "unborn"
  /\ iVersion' = hver[h]
  /\ idThread' = [idThread EXCEPT ![hver[h]] = t]
  /\ tpc' = [tpc EXCEPT ![t] = "born"]
  /\ Goto(h, "detach")
  /\ UNCHANGED <<hver, pidTestProcess, logvars, tver, child, daemon>>

(* mutexSync is taken, iVersion set, the thread created, and the handler   *)
(* waits on condSync, which releases the mutex.                            *)
CreateThread(h, t) ==
  /\ daemon = "up" /\ hpc[h] = "create"
  /\ tpc[t] = "unborn"
  /\ iVersion' = hver[h]
  /\ idThread' = [idThread EXCEPT ![hver[h]] = t]
  /\ tpc' = [tpc EXCEPT ![t] = "born"]
  /\ Goto(h, "waiting")
  /\ UNCHANGED <<hver, pidTestProcess, logvars, tver, child, daemon>>

(* pthread_create fails, and its result is not looked at. *)
CreateFails(h) ==
  /\ daemon = "up" /\ hpc[h] = "create" /\ "create" \in Faults
  /\ iVersion' = hver[h]
  /\ Goto(h, "waiting")
  /\ UNCHANGED <<hver, idThread, pidTestProcess, logvars, tvars, daemon>>

(* pthread_cond_wait returns without a signal: it has no predicate. *)
SpuriousWakeup(h) ==
  /\ daemon = "up" /\ hpc[h] = "waiting" /\ "spurious" \in Faults
  /\ Goto(h, "detach")
  /\ UNCHANGED <<hver, iVersion, idThread, pidTestProcess, logvars, tvars, daemon>>

(* pthread_detach(idThread[v]) reads the thread's descriptor: the process  *)
(* dies of it when the slot was cleared in the meantime.                   *)
Detach(h) ==
  /\ daemon = "up" /\ hpc[h] = "detach"
  /\ daemon' = IF IsTestOn(hver[h]) THEN "up" ELSE "dead"
  /\ Goto(h, "report")
  /\ UNCHANGED <<hver, iVersion, idThread, pidTestProcess, logvars, tvars>>

(* StartTest returned 0: MSG_TEST is sent to the host. *)
ReportTest(h) ==
  /\ daemon = "up" /\ hpc[h] = "report"
  /\ Return(h)
  /\ UNCHANGED <<iVersion, idThread, pidTestProcess, logvars, tvars, daemon>>

-----------------------------------------------------------------------------
(* Handlers: MSG_TEST_STOP. *)

(* ProcSock stops only a test that is on, ProcMsg calls StopTest anyway. *)
RecvStop(h, v) ==
  /\ daemon = "up" /\ hpc[h] = "idle"
  /\ h \in SockHandlers => IsTestOn(v)
  /\ Goto(h, "stop")
  /\ hver' = [hver EXCEPT ![h] = v]
  /\ UNCHANGED <<iVersion, idThread, pidTestProcess, logvars, tvars, daemon>>

StopCheck(h) ==
  /\ daemon = "up" /\ hpc[h] = "stop"
  /\ Goto(h, IF IsTestOn(hver[h]) THEN "kill" ELSE "abort_ok")
  /\ UNCHANGED <<hver, iVersion, idThread, pidTestProcess, logvars, tvars, daemon>>

(* kill(pid, SIGKILL): pid 0 is the whole process group, the daemon and    *)
(* the test processes it forked; a pid already reaped is nobody.           *)
Kill(h) ==
  LET pid == pidTestProcess[hver[h]]
      hit == {t \in Threads : child[t] = "live" /\ (pid = ZeroPid \/ pid = t)}
  IN /\ daemon = "up" /\ hpc[h] = "kill"
     /\ child' = [t \in Threads |-> IF t \in hit THEN "dead" ELSE child[t]]
     /\ daemon' = IF pid = ZeroPid THEN "dead" ELSE "up"
     /\ Goto(h, "poll")
     /\ UNCHANGED <<hver, iVersion, idThread, pidTestProcess, logvars, tpc, tver>>

(* The loop ends without a look at idThread. *)
PollDone_Bug(h) ==
  /\ daemon = "up" /\ hpc[h] = "poll"
  /\ Goto(h, "abort_ok")
  /\ UNCHANGED <<hver, iVersion, idThread, pidTestProcess, logvars, tvars, daemon>>

(* The ten looks at idThread, 100 ms apart: the slot is seen empty ... *)
PollDone(h) ==
  /\ daemon = "up" /\ hpc[h] = "poll"
  /\ ~IsTestOn(hver[h])
  /\ Goto(h, "abort_ok")
  /\ UNCHANGED <<hver, iVersion, idThread, pidTestProcess, logvars, tvars, daemon>>

(* ... or the last look still finds it taken. *)
PollTimeout(h) ==
  /\ daemon = "up" /\ hpc[h] = "poll"
  /\ IsTestOn(hver[h])
  /\ Goto(h, "abort_fail")
  /\ UNCHANGED <<hver, iVersion, idThread, pidTestProcess, logvars, tvars, daemon>>

(* MSG_FAIL with ABORT OK or ABORT FAIL. *)
AbortReply(h) ==
  /\ daemon = "up" /\ hpc[h] \in {"abort_ok", "abort_fail"}
  /\ Return(h)
  /\ UNCHANGED <<iVersion, idThread, pidTestProcess, logvars, tvars, daemon>>

-----------------------------------------------------------------------------
(* TestThread. *)

ThreadGoto(t, pc) == tpc' = [tpc EXCEPT ![t] = pc]

(* No signal. *)
Handoff_Bug(t) ==
  /\ daemon = "up" /\ tpc[t] = "born"
  /\ tver' = [tver EXCEPT ![t] = iVersion]
  /\ ThreadGoto(t, "fork")
  /\ UNCHANGED <<hvars, iVersion, idThread, pidTestProcess, logvars, child, daemon>>

(* Under mutexSync: the thread reads iVersion and signals condSync, which  *)
(* wakes one handler if any waits.                                         *)
Handoff(t) ==
  /\ daemon = "up" /\ tpc[t] = "born"
  /\ tver' = [tver EXCEPT ![t] = iVersion]
  /\ ThreadGoto(t, "fork")
  /\ \/ Waiting = {} /\ UNCHANGED hpc
     \/ \E h \in Waiting : Goto(h, "detach")
  /\ UNCHANGED <<hver, iVersion, idThread, pidTestProcess, logvars, child, daemon>>

Fork(t) ==
  /\ daemon = "up" /\ tpc[t] = "fork"
  /\ child' = [child EXCEPT ![t] = "live"]
  /\ ThreadGoto(t, "store")
  /\ UNCHANGED <<hvars, iVersion, idThread, pidTestProcess, logvars, tver, daemon>>

(* fork fails: neither the log is copied nor its entry removed. *)
ForkFails(t) ==
  /\ daemon = "up" /\ tpc[t] = "fork" /\ "fork" \in Faults
  /\ ThreadGoto(t, "clear")
  /\ UNCHANGED <<hvars, iVersion, idThread, pidTestProcess, logvars, tver, child, daemon>>

(* The member iVersion is used in place of the local one. *)
StorePid_Bug(t) ==
  /\ daemon = "up" /\ tpc[t] = "store"
  /\ pidTestProcess' = [pidTestProcess EXCEPT ![iVersion] = t]
  /\ ThreadGoto(t, "waitpid")
  /\ UNCHANGED <<hvars, iVersion, idThread, logvars, tver, child, daemon>>

StorePid(t) ==
  /\ daemon = "up" /\ tpc[t] = "store"
  /\ pidTestProcess' = [pidTestProcess EXCEPT ![tver[t]] = t]
  /\ ThreadGoto(t, "waitpid")
  /\ UNCHANGED <<hvars, iVersion, idThread, logvars, tver, child, daemon>>

(* waitpid does not block. *)
WaitpidNoHang_Bug(t) ==
  /\ daemon = "up" /\ tpc[t] = "waitpid"
  /\ ThreadGoto(t, "copylog")
  /\ UNCHANGED <<hvars, iVersion, idThread, pidTestProcess, logvars, tver, child, daemon>>

(* The log is not copied any more after the test. *)
WaitpidNoCopy_Bug(t) ==
  /\ daemon = "up" /\ tpc[t] = "waitpid"
  /\ child[t] = "dead"
  /\ child' = [child EXCEPT ![t] = "reaped"]
  /\ ThreadGoto(t, "dellog")
  /\ UNCHANGED <<hvars, iVersion, idThread, pidTestProcess, logvars, tver, daemon>>

(* The thread returns after waitpid. *)
WaitpidReturns_Bug(t) ==
  /\ daemon = "up" /\ tpc[t] = "waitpid"
  /\ child[t] = "dead"
  /\ child' = [child EXCEPT ![t] = "reaped"]
  /\ ThreadGoto(t, "done")
  /\ UNCHANGED <<hvars, iVersion, idThread, pidTestProcess, logvars, tver, daemon>>

Waitpid(t) ==
  /\ daemon = "up" /\ tpc[t] = "waitpid"
  /\ child[t] = "dead"
  /\ child' = [child EXCEPT ![t] = "reaped"]
  /\ ThreadGoto(t, "copylog")
  /\ UNCHANGED <<hvars, iVersion, idThread, pidTestProcess, logvars, tver, daemon>>

(* CLog::CopyLogFile of some files: cp is called for those listed and      *)
(* present.  It may fail for any of them (the share is away or full), and  *)
(* nobody looks at its result.                                             *)
CopyLogFile(vs) ==
  LET tried == {v \in vs : Listed(v) /\ logFile[v] # "none"}
  IN \E bad \in SUBSET tried :
       /\ bad # {} => "copy" \in Faults
       /\ logFile' = [v \in Versions |-> IF v \in bad THEN "failed"
                                         ELSE IF v \in tried THEN "copied" ELSE logFile[v]]

CopyLog(t) ==
  /\ daemon = "up" /\ tpc[t] = "copylog"
  /\ CopyLogFile({tver[t]})
  /\ ThreadGoto(t, "dellog")
  /\ UNCHANGED <<hvars, iVersion, idThread, pidTestProcess, listLogFile, tver, child, daemon>>

(* The head of the list is erased. *)
DelLogFileList_Bug(v) == listLogFile' = IF Listed(v) THEN Tail(listLogFile) ELSE listLogFile

(* CLog::DelLogFileList: the first entry of that source is erased. *)
DelLogFileList(v) ==
  IF Listed(v)
  THEN \E i \in DOMAIN listLogFile :
         /\ listLogFile[i] = v
         /\ \A j \in 1..(i - 1) : listLogFile[j] # v
         /\ listLogFile' = SubSeq(listLogFile, 1, i - 1)
                           \o SubSeq(listLogFile, i + 1, Len(listLogFile))
  ELSE UNCHANGED listLogFile

DelLog(t) ==
  /\ daemon = "up" /\ tpc[t] = "dellog"
  /\ DelLogFileList(tver[t])
  /\ ThreadGoto(t, "clear")
  /\ UNCHANGED <<hvars, iVersion, idThread, pidTestProcess, logFile, tver, child, daemon>>

(* idThread[iVersion] = 0, whatever thread is recorded there. *)
Clear(t) ==
  /\ daemon = "up" /\ tpc[t] = "clear"
  /\ idThread' = [idThread EXCEPT ![tver[t]] = NoThread]
  /\ ThreadGoto(t, "done")
  /\ UNCHANGED <<hvars, iVersion, pidTestProcess, logvars, tver, child, daemon>>

-----------------------------------------------------------------------------
(* Test processes, and the main thread. *)

(* The script appends to its log file (REPORT of sctbasic.h). *)
WriteLog(t) ==
  /\ child[t] = "live"
  /\ logFile' = [logFile EXCEPT ![tver[t]] = "fresh"]
  /\ UNCHANGED <<hvars, iVersion, idThread, pidTestProcess, listLogFile, tvars, daemon>>

(* The script ends by itself; it outlives a daemon that crashed. *)
ChildExit(t) ==
  /\ child[t] = "live"
  /\ child' = [child EXCEPT ![t] = "dead"]
  /\ UNCHANGED <<hvars, iVersion, idThread, pidTestProcess, logvars, tpc, tver, daemon>>

(* Every three seconds main copies all listed log files. *)
CopyAll ==
  /\ daemon = "up"
  /\ CopyLogFile(Versions)
  /\ UNCHANGED <<hvars, iVersion, idThread, pidTestProcess, listLogFile, tvars, daemon>>

-----------------------------------------------------------------------------
HandlerStep(h) ==
  \/ RejectScript(h) \/ PrepareLog(h) \/ StartRefused(h)
  \/ CompileOk(h) \/ CompileError(h)
  \/ (\E t \in Threads : CreateThread(h, t)) \/ CreateFails(h)
  \/ Detach(h) \/ ReportTest(h)
  \/ StopCheck(h) \/ Kill(h) \/ PollDone(h) \/ PollTimeout(h) \/ AbortReply(h)

ThreadStep(t) ==
  \/ Handoff(t) \/ Fork(t) \/ ForkFails(t) \/ StorePid(t) \/ Waitpid(t)
  \/ CopyLog(t) \/ DelLog(t) \/ Clear(t)

Next ==
  \/ \E h \in Handlers :
       \/ \E v \in Versions : RecvStart(h, v) \/ RecvStop(h, v)
       \/ HandlerStep(h)
       \/ SpuriousWakeup(h)
  \/ \E t \in Threads : ThreadStep(t) \/ WriteLog(t) \/ ChildExit(t)
  \/ CopyAll

(* Threads that can run do; a script may run for ever. *)
Fairness ==
  /\ \A h \in Handlers : WF_vars(HandlerStep(h))
  /\ \A t \in Threads : WF_vars(ThreadStep(t))

Spec == Init /\ [][Next]_vars
FairSpec == Spec /\ Fairness

-----------------------------------------------------------------------------
(* Properties that hold whatever handlers are told to start tests. *)

(* Every variable has a value of its C++ type, and a handler or thread in  *)
(* the middle of its work knows its version.                               *)
TypeOK ==
  /\ hpc \in [Handlers -> HandlerPcs]
  /\ hver \in [Handlers -> Versions \cup {NoVersion}]
  /\ \A h \in Handlers : hpc[h] # "idle" => hver[h] \in Versions
  /\ iVersion \in Versions \cup {NoVersion}
  /\ idThread \in [Versions -> Threads \cup {NoThread}]
  /\ pidTestProcess \in [Versions -> Threads \cup {ZeroPid, Garbage}]
  /\ listLogFile \in Seq(Versions)
  /\ logFile \in [Versions -> {"none", "fresh", "copied", "failed"}]
  /\ tpc \in [Threads -> ThreadPcs]
  /\ tver \in [Threads -> Versions \cup {NoVersion}]
  /\ \A t \in Threads :
       /\ tpc[t] = "born" => iVersion \in Versions
       /\ tpc[t] \notin {"unborn", "born"} => tver[t] \in Versions
       /\ child[t] # "none" => tver[t] \in Versions
  /\ child \in [Threads -> {"none", "live", "dead", "reaped"}]
  /\ daemon \in {"up", "dead"}

(* The hand-over under mutexSync: for every handler in pthread_cond_wait   *)
(* there is a thread that has not signalled yet, so no wake-up is lost     *)
(* although the wait has no predicate.                                     *)
NoLostWakeup == Cardinality(Waiting) <= Cardinality(Born)

(* StopTest never kills the test of another version: the pid recorded for  *)
(* a version is the child of a thread that ran that version.               *)
KillTargetsOwnVersion ==
  \A v \in Versions : pidTestProcess[v] \in Threads =>
    /\ tver[pidTestProcess[v]] = v
    /\ child[pidTestProcess[v]] # "none"

(* StartTest returns, unless the daemon dies: a handler is not stuck in    *)
(* its condition wait, so the messages behind it are processed.            *)
StartReturns ==
  \A h \in Handlers :
    (hpc[h] \in Starting \cup {"waiting", "detach", "report"})
      ~> (hpc[h] = "idle" \/ daemon = "dead")

(* The script of a test: over also when fork failed. *)
Script ==
  [t \in Threads |->
     CASE child[t] = "live" -> "live"
       [] child[t] \in {"dead", "reaped"} -> "over"
       [] child[t] = "none" /\ tpc[t] \in {"clear", "done"} -> "over"
       [] OTHER -> "none"]

(* When the script of a thread is over, killed or not, or could not be     *)
(* forked, its slot becomes free: IsTestOn does not stay 1 for ever.  This *)
(* is about the handlers that start one version; a thread that took the    *)
(* wrong version clears the wrong slot (StartRunsRequested below).         *)
SlotFreed ==
  Cardinality(Versions) = 1 =>
    \A t \in Threads :
      (Script[t] = "over") ~> (daemon = "dead" \/ \A v \in Versions : idThread[v] # t)

-----------------------------------------------------------------------------
(* Properties that need all MSG_TEST_START to come through one handler,    *)
(* and pthread_cond_wait to return for signals only.                       *)

OneStarter ==
  /\ \A g, h \in Starters : g = h
  /\ "spurious" \notin Faults

(* The thread recorded for a version runs that version, not the one of     *)
(* another StartTest that wrote iVersion.                                  *)
HandoffExact ==
  \A v \in Versions, t \in Threads :
    idThread[v] = t /\ tver[t] # NoVersion => tver[t] = v

(* Two scripts of one version never run at the same time. *)
OneRunPerVersion ==
  \A s, t \in Threads :
    child[s] = "live" /\ child[t] = "live" /\ tver[s] = tver[t] => s = t

Slot == INSTANCE TestSlot
  WITH Tests <- Threads, NoTest <- NoThread, slot <- idThread, script <- Script

(* idThread is a slot for each version: a test holds it from before its    *)
(* script begins until the script is over, through StartTest, StopTest and *)
(* a fork that fails, and no other test of the version begins meanwhile.   *)
SlotsHold == Slot!Spec

(* While a script runs its log is listed: main keeps copying it and the    *)
(* last copy at the end finds it.                                          *)
LogListedWhileRunning ==
  \A t \in Threads : daemon = "up" /\ child[t] = "live" => Listed(tver[t])

(* ABORT OK is sent only when no script of that version runs any more. *)
AbortOkMeansDead ==
  [][\A h \in Handlers :
       hpc[h] # "abort_ok" /\ hpc'[h] = "abort_ok" =>
         \A t \in Threads : child'[t] = "live" => tver'[t] # hver'[h]]_vars

(* testmng.cpp:84, :137: when the next StartTest removes the log of a run, *)
(* a copy has been made after its last line, or was tried and cp failed;   *)
(* lines are lost in the second case only.                                 *)
LogNotLost ==
  [][\A v \in Versions :
       logFile[v] # "none" /\ logFile'[v] = "none" => logFile[v] \in {"copied", "failed"}]_vars

-----------------------------------------------------------------------------
(* What the protocol of tbase/def.h says, and the code does not keep. *)

(* def.h: MSG_TEST_STOP "Request Target to stop the test": the test, not   *)
(* the daemon that runs it.                                                *)
StopKeepsDaemon ==
  [][\A h \in Handlers : hpc[h] = "kill" /\ hpc'[h] # "kill" => daemon' = "up"]_vars

(* def.h: MSG_TEST_START "Request Target to start the test": the thread    *)
(* recorded for the version runs the script of that version.               *)
StartRunsRequested == HandoffExact

=============================================================================
