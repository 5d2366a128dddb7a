--------------------------- MODULE TestMng_proofs ---------------------------
(***************************************************************************)
(* What TestMng guarantees for any number of handlers, versions and        *)
(* threads.                                                                *)
(***************************************************************************)
EXTENDS TestMng, FiniteSetTheorems, SequenceTheorems, TLAPS

-----------------------------------------------------------------------------
(* Types. *)

(* CLog::DelLogFileList leaves a list of versions. *)
LEMMA DelKeepsType ==
  ASSUME NEW v \in Versions, listLogFile \in Seq(Versions), DelLogFileList(v)
  PROVE  listLogFile' \in Seq(Versions)
<1>1. CASE Listed(v)
  <2>1. PICK i \in DOMAIN listLogFile :
          listLogFile' = SubSeq(listLogFile, 1, i - 1)
                         \o SubSeq(listLogFile, i + 1, Len(listLogFile))
    BY <1>1 DEF DelLogFileList
  <2>2. i \in 1..Len(listLogFile) /\ Len(listLogFile) \in Nat
    OBVIOUS
  <2>3. SubSeq(listLogFile, 1, i - 1) \in Seq(Versions)
    BY <2>2
  <2>4. SubSeq(listLogFile, i + 1, Len(listLogFile)) \in Seq(Versions)
    BY <2>2
  <2> QED
    BY <2>1, <2>3, <2>4
<1>2. CASE ~Listed(v)
  BY <1>2 DEF DelLogFileList
<1> QED
  BY <1>1, <1>2

(* CLog::CopyLogFile, whether its copies fail or not: a log it has tried   *)
(* has no lines left that no copy was tried of, and no log disappears.     *)
LEMMA CopyTries ==
  ASSUME NEW vs, CopyLogFile(vs), logFile \in [Versions -> {"none", "fresh", "copied", "failed"}]
  PROVE  /\ logFile' \in [Versions -> {"none", "fresh", "copied", "failed"}]
         /\ \A v \in Versions :
              /\ logFile'[v] = "fresh" => logFile[v] = "fresh" /\ ~(v \in vs /\ Listed(v))
              /\ logFile'[v] = "none" => logFile[v] = "none"
<1> DEFINE tried == {v \in vs : Listed(v) /\ logFile[v] # "none"}
<1>1. PICK bad \in SUBSET tried :
        logFile' = [v \in Versions |-> IF v \in bad THEN "failed"
                                      ELSE IF v \in tried THEN "copied" ELSE logFile[v]]
  BY DEF CopyLogFile
<1>2. \A v \in Versions : v \notin tried /\ logFile[v] = "fresh" => ~(v \in vs /\ Listed(v))
  OBVIOUS
<1>3. \A v \in bad : v \in tried
  BY <1>1
<1> HIDE DEF tried
<1> QED BY <1>1, <1>2, <1>3

LEMMA InitTypeOK == Init => TypeOK
  BY ValuesAssumption, SetsAssumption DEF Init, TypeOK, HandlerPcs, ThreadPcs

(* Every action keeps the types, those of a handler at work and of a       *)
(* running thread included.                                                *)
LEMMA NextTypeOK == TypeOK /\ [Next]_vars => TypeOK'
<1> SUFFICES ASSUME TypeOK, [Next]_vars PROVE TypeOK'
  OBVIOUS
<1> USE DEF TypeOK, HandlerPcs, ThreadPcs, Starting, hvars, tvars, logvars, Goto, Return
<1>1. ASSUME NEW h \in Handlers, NEW v \in Versions, RecvStart(h, v) PROVE TypeOK'
  BY <1>1 DEF RecvStart
<1>2. ASSUME NEW h \in Handlers, NEW v \in Versions, RecvStop(h, v) PROVE TypeOK'
  BY <1>2 DEF RecvStop
<1>3. ASSUME NEW h \in Handlers, HandlerStep(h) PROVE TypeOK'
  <2>1. CASE RejectScript(h) BY <2>1 DEF RejectScript
  <2>2. CASE PrepareLog(h)
    <3>1. hver[h] \in Versions BY <2>2 DEF PrepareLog
    <3>2. listLogFile' \in Seq(Versions)
      BY <2>2, <3>1 DEF PrepareLog, AddLogFileList
    <3>3. logFile' \in [Versions -> {"none", "fresh", "copied", "failed"}]
      BY <2>2 DEF PrepareLog
    <3> QED BY <2>2, <3>2, <3>3 DEF PrepareLog
  <2>3. CASE StartRefused(h) BY <2>3 DEF StartRefused
  <2>4. CASE CompileOk(h) BY <2>4 DEF CompileOk
  <2>5. CASE CompileError(h) BY <2>5 DEF CompileError
  <2>6. ASSUME NEW t \in Threads, CreateThread(h, t) PROVE TypeOK'
    BY <2>6 DEF CreateThread
  <2>7. CASE CreateFails(h) BY <2>7 DEF CreateFails
  <2>8. CASE Detach(h) BY <2>8 DEF Detach
  <2>9. CASE ReportTest(h) BY <2>9 DEF ReportTest
  <2>10. CASE StopCheck(h) BY <2>10 DEF StopCheck
  <2>11. CASE Kill(h) BY <2>11 DEF Kill
  <2>12. CASE PollDone(h) BY <2>12 DEF PollDone
  <2>13. CASE PollTimeout(h) BY <2>13 DEF PollTimeout
  <2>14. CASE AbortReply(h) BY <2>14 DEF AbortReply
  <2> QED BY <1>3, <2>1, <2>2, <2>3, <2>4, <2>5, <2>6, <2>7, <2>8, <2>9,
             <2>10, <2>11, <2>12, <2>13, <2>14 DEF HandlerStep
<1>4. ASSUME NEW h \in Handlers, SpuriousWakeup(h) PROVE TypeOK'
  BY <1>4 DEF SpuriousWakeup
<1>5. ASSUME NEW t \in Threads, ThreadStep(t) PROVE TypeOK'
  <2>1. CASE Handoff(t)
    <3>1. hpc' \in [Handlers -> HandlerPcs]
          /\ \A h \in Handlers : hpc'[h] # "idle" => hver[h] \in Versions
      BY <2>1 DEF Handoff, Waiting
    <3>2. tver' \in [Threads -> Versions \cup {NoVersion}] /\ tver'[t] \in Versions
      BY <2>1 DEF Handoff
    <3> QED BY <2>1, <3>1, <3>2 DEF Handoff, ThreadGoto
  <2>2. CASE Fork(t) BY <2>2 DEF Fork, ThreadGoto
  <2>3. CASE ForkFails(t) BY <2>3 DEF ForkFails, ThreadGoto
  <2>4. CASE StorePid(t) BY <2>4 DEF StorePid, ThreadGoto
  <2>5. CASE Waitpid(t) BY <2>5 DEF Waitpid, ThreadGoto
  <2>6. CASE CopyLog(t)
    <3>1. logFile' \in [Versions -> {"none", "fresh", "copied", "failed"}]
      BY <2>6, CopyTries DEF CopyLog
    <3> QED BY <2>6, <3>1 DEF CopyLog, ThreadGoto
  <2>7. CASE DelLog(t)
    <3>1. tver[t] \in Versions BY <2>7 DEF DelLog
    <3>2. listLogFile' \in Seq(Versions) BY <2>7, <3>1, DelKeepsType DEF DelLog
    <3> QED BY <2>7, <3>2 DEF DelLog, ThreadGoto
  <2>8. CASE Clear(t) BY <2>8 DEF Clear, ThreadGoto
  <2> QED BY <1>5, <2>1, <2>2, <2>3, <2>4, <2>5, <2>6, <2>7, <2>8 DEF ThreadStep
<1>6. ASSUME NEW t \in Threads, WriteLog(t) PROVE TypeOK'
  BY <1>6 DEF WriteLog
<1>7. ASSUME NEW t \in Threads, ChildExit(t) PROVE TypeOK'
  BY <1>7 DEF ChildExit
<1>8. CASE CopyAll
  <2>1. logFile' \in [Versions -> {"none", "fresh", "copied", "failed"}]
    BY <1>8, CopyTries DEF CopyAll
  <2> QED BY <1>8, <2>1 DEF CopyAll
<1>9. CASE UNCHANGED vars
  BY <1>9 DEF vars
<1> QED
  BY <1>1, <1>2, <1>3, <1>4, <1>5, <1>6, <1>7, <1>8, <1>9 DEF Next

(* A handler in the middle of a message and a thread past the hand-over    *)
(* always know their version, whatever the interleaving.                   *)
THEOREM TypeCorrect == Spec => []TypeOK
<1>1. Init => TypeOK BY InitTypeOK
<1>2. TypeOK /\ [Next]_vars => TypeOK' BY NextTypeOK
<1> QED BY <1>1, <1>2, PTL DEF Spec

-----------------------------------------------------------------------------
(* Pids. *)

(* A thread has a test process exactly from its fork on, and the process   *)
(* is reaped when the thread is past waitpid.                              *)
ChildOfThread ==
  \A t \in Threads :
    /\ tpc[t] \in {"unborn", "born", "fork"} => child[t] = "none"
    /\ tpc[t] \in {"store", "waitpid"} => child[t] \in {"live", "dead"}
    /\ tpc[t] \in {"copylog", "dellog"} => child[t] = "reaped"
    /\ tpc[t] \in {"clear", "done"} => child[t] \in {"none", "reaped"}

PidInv == TypeOK /\ ChildOfThread /\ KillTargetsOwnVersion

(* Handlers move nothing of a thread but its birth, and kill only ends a   *)
(* process that lives.                                                     *)
LEMMA HandlersKeepThreads ==
  ASSUME TypeOK, NEW h \in Handlers,
         (\E v \in Versions : RecvStart(h, v) \/ RecvStop(h, v))
           \/ HandlerStep(h) \/ SpuriousWakeup(h)
  PROVE  /\ pidTestProcess' = pidTestProcess /\ tver' = tver
         /\ \A t \in Threads : tpc'[t] = tpc[t] \/ (tpc[t] = "unborn" /\ tpc'[t] = "born")
         /\ \A t \in Threads : child'[t] = child[t] \/ (child[t] = "live" /\ child'[t] = "dead")
<1> USE DEF tvars, logvars
<1>1. ASSUME NEW v \in Versions, RecvStart(h, v) \/ RecvStop(h, v)
      PROVE  pidTestProcess' = pidTestProcess /\ tver' = tver /\ tpc' = tpc /\ child' = child
  BY <1>1 DEF RecvStart, RecvStop
<1>2. ASSUME NEW t \in Threads, CreateThread(h, t)
      PROVE  /\ pidTestProcess' = pidTestProcess /\ tver' = tver /\ child' = child
             /\ tpc[t] = "unborn" /\ tpc' = [tpc EXCEPT ![t] = "born"]
  BY <1>2 DEF CreateThread
<1>3. CASE Kill(h)
  BY <1>3 DEF Kill, TypeOK
<1>4. CASE \/ RejectScript(h) \/ PrepareLog(h) \/ StartRefused(h) \/ CompileOk(h)
           \/ CompileError(h) \/ CreateFails(h) \/ Detach(h) \/ ReportTest(h)
           \/ StopCheck(h) \/ PollDone(h) \/ PollTimeout(h) \/ AbortReply(h)
           \/ SpuriousWakeup(h)
  BY <1>4 DEF RejectScript, PrepareLog, StartRefused, CompileOk, CompileError, CreateFails,
       Detach, ReportTest, StopCheck, PollDone, PollTimeout, AbortReply, SpuriousWakeup
<1>5. ASSUME NEW t \in Threads, CreateThread(h, t)
      PROVE  \A s \in Threads : tpc'[s] = tpc[s] \/ (tpc[s] = "unborn" /\ tpc'[s] = "born")
  BY <1>2, <1>5 DEF TypeOK
<1> QED
  BY <1>1, <1>2, <1>3, <1>4, <1>5 DEF HandlerStep

LEMMA InitPidInv == Init => PidInv
  BY InitTypeOK, ValuesAssumption DEF Init, PidInv, ChildOfThread, KillTargetsOwnVersion

LEMMA NextPidInv == PidInv /\ [Next]_vars => PidInv'
<1> SUFFICES ASSUME PidInv, [Next]_vars PROVE PidInv'
  OBVIOUS
<1> USE DEF PidInv
<1>0. TypeOK'
  BY NextTypeOK
<1> SUFFICES ChildOfThread' /\ KillTargetsOwnVersion'
  BY <1>0
<1> USE ValuesAssumption DEF ChildOfThread, KillTargetsOwnVersion, TypeOK, ThreadPcs
<1>1. ASSUME NEW h \in Handlers,
             (\E v \in Versions : RecvStart(h, v) \/ RecvStop(h, v))
               \/ HandlerStep(h) \/ SpuriousWakeup(h)
      PROVE  ChildOfThread' /\ KillTargetsOwnVersion'
  <2>1. /\ pidTestProcess' = pidTestProcess /\ tver' = tver
        /\ \A t \in Threads : tpc'[t] = tpc[t] \/ (tpc[t] = "unborn" /\ tpc'[t] = "born")
        /\ \A t \in Threads : child'[t] = child[t] \/ (child[t] = "live" /\ child'[t] = "dead")
    BY <1>1, HandlersKeepThreads
  <2>2. ChildOfThread'
    BY <2>1
  <2>3. KillTargetsOwnVersion'
    BY <2>1
  <2> QED BY <2>2, <2>3
<1>2. ASSUME NEW t \in Threads, ThreadStep(t)
      PROVE  ChildOfThread' /\ KillTargetsOwnVersion'
  <2> USE DEF ThreadGoto, logvars, hvars
  <2>1. CASE Handoff(t) BY <2>1 DEF Handoff
  <2>2. CASE Fork(t) BY <2>2 DEF Fork
  <2>3. CASE ForkFails(t) BY <2>3 DEF ForkFails
  <2>4. CASE StorePid(t) BY <2>4 DEF StorePid
  <2>5. CASE Waitpid(t) BY <2>5 DEF Waitpid
  <2>6. CASE CopyLog(t) BY <2>6 DEF CopyLog
  <2>7. CASE DelLog(t) BY <2>7 DEF DelLog
  <2>8. CASE Clear(t) BY <2>8 DEF Clear
  <2> QED BY <1>2, <2>1, <2>2, <2>3, <2>4, <2>5, <2>6, <2>7, <2>8 DEF ThreadStep
<1>3. ASSUME NEW t \in Threads, WriteLog(t) PROVE ChildOfThread' /\ KillTargetsOwnVersion'
  BY <1>3 DEF WriteLog, tvars
<1>4. ASSUME NEW t \in Threads, ChildExit(t) PROVE ChildOfThread' /\ KillTargetsOwnVersion'
  BY <1>4 DEF ChildExit
<1>5. CASE CopyAll
  BY <1>5 DEF CopyAll, tvars
<1>6. CASE UNCHANGED vars
  BY <1>6 DEF vars
<1> QED
  BY <1>1, <1>2, <1>3, <1>4, <1>5, <1>6 DEF Next

(* StopTest of a version never kills the script of another version, with   *)
(* any number of handlers starting and stopping tests at once.             *)
THEOREM KillIsSelective == Spec => []KillTargetsOwnVersion
<1>1. Init => PidInv BY InitPidInv
<1>2. PidInv /\ [Next]_vars => PidInv' BY NextPidInv
<1>3. PidInv => KillTargetsOwnVersion BY DEF PidInv
<1> QED BY <1>1, <1>2, <1>3, PTL DEF Spec

-----------------------------------------------------------------------------
(* The condition wait. *)

LEMMA WaitingBornFinite == IsFiniteSet(Waiting) /\ IsFiniteSet(Born)
<1>1. Waiting \subseteq Handlers /\ Born \subseteq Threads
  BY DEF Waiting, Born
<1> QED
  BY <1>1, FiniteAssumption, FS_Subset

(* Nobody new waits and no birth is undone: the bound is kept. *)
LEMMA FewerWaiters ==
  ASSUME NoLostWakeup, Waiting' \subseteq Waiting, Born \subseteq Born',
         IsFiniteSet(Born')
  PROVE  NoLostWakeup'
<1>1. Cardinality(Waiting') <= Cardinality(Waiting)
  BY WaitingBornFinite, FS_Subset
<1>2. Cardinality(Born) <= Cardinality(Born')
  BY FS_Subset
<1>3. IsFiniteSet(Waiting')
  BY WaitingBornFinite, FS_Subset
<1>4. /\ Cardinality(Waiting) \in Nat /\ Cardinality(Born) \in Nat
      /\ Cardinality(Waiting') \in Nat /\ Cardinality(Born') \in Nat
  BY <1>3, WaitingBornFinite, FS_CardinalityType
<1> QED
  BY <1>1, <1>2, <1>4 DEF NoLostWakeup

(* pthread_create and the wait behind it add one to both sides. *)
LEMMA CreateKeepsBound ==
  ASSUME TypeOK, NoLostWakeup, NEW h \in Handlers, NEW t \in Threads, CreateThread(h, t)
  PROVE  NoLostWakeup'
<1>1. Waiting' = Waiting \cup {h} /\ h \notin Waiting
  BY DEF CreateThread, Waiting, Goto, TypeOK
<1>2. Born' = Born \cup {t} /\ t \notin Born
  BY DEF CreateThread, Born, TypeOK
<1>3. Cardinality(Waiting') = Cardinality(Waiting) + 1
  BY <1>1, WaitingBornFinite, FS_AddElement
<1>4. Cardinality(Born') = Cardinality(Born) + 1
  BY <1>2, WaitingBornFinite, FS_AddElement
<1>5. Cardinality(Waiting) \in Nat /\ Cardinality(Born) \in Nat
  BY WaitingBornFinite, FS_CardinalityType
<1> QED
  BY <1>3, <1>4, <1>5 DEF NoLostWakeup

(* The signal takes one from both, or there is nobody to wake. *)
LEMMA HandoffKeepsBound ==
  ASSUME TypeOK, NoLostWakeup, NEW t \in Threads, Handoff(t)
  PROVE  NoLostWakeup'
<1>1. Born' = Born \ {t} /\ t \in Born
  BY DEF Handoff, ThreadGoto, Born, TypeOK
<1>2. Cardinality(Born') = Cardinality(Born) - 1 /\ IsFiniteSet(Born')
  BY <1>1, WaitingBornFinite, FS_RemoveElement
<1>3. Cardinality(Waiting) \in Nat /\ Cardinality(Born) \in Nat /\ Cardinality(Born') \in Nat
  BY <1>2, WaitingBornFinite, FS_CardinalityType
<1>4. CASE Waiting = {} /\ UNCHANGED hpc
  <2>1. Waiting' = {}
    BY <1>4 DEF Waiting
  <2> QED
    BY <2>1, <1>3, FS_EmptySet DEF NoLostWakeup
<1>5. ASSUME NEW h \in Waiting, Goto(h, "detach")
      PROVE  NoLostWakeup'
  <2>1. Waiting' = Waiting \ {h}
    BY <1>5 DEF Waiting, Goto, TypeOK
  <2>2. Cardinality(Waiting') = Cardinality(Waiting) - 1
    BY <2>1, WaitingBornFinite, FS_RemoveElement
  <2> QED
    BY <2>2, <1>2, <1>3 DEF NoLostWakeup
<1> QED
  BY <1>4, <1>5 DEF Handoff

LEMMA NextNoLostWakeup ==
  ASSUME "create" \notin Faults, TypeOK, NoLostWakeup, [Next]_vars
  PROVE  NoLostWakeup'
<1> DEFINE Shrinks == Waiting' \subseteq Waiting /\ Born \subseteq Born'
<1>0. IsFiniteSet(Born')
  <2>1. Born' \subseteq Threads
    BY DEF Born
  <2> QED
    BY <2>1, FiniteAssumption, FS_Subset
<1>1. Shrinks => NoLostWakeup'
  BY <1>0, FewerWaiters
<1> USE DEF Waiting, Born, TypeOK, Goto, Return, Starting, tvars, hvars, logvars
<1>2. ASSUME NEW h \in Handlers, NEW v \in Versions, RecvStart(h, v) \/ RecvStop(h, v)
      PROVE  Shrinks
  BY <1>2 DEF RecvStart, RecvStop
<1>3. ASSUME NEW h \in Handlers, HandlerStep(h) PROVE Shrinks \/ NoLostWakeup'
  <2>1. CASE \/ RejectScript(h) \/ PrepareLog(h) \/ StartRefused(h)
             \/ CompileOk(h) \/ CompileError(h) \/ Detach(h) \/ ReportTest(h)
    BY <2>1 DEF RejectScript, PrepareLog, StartRefused, CompileOk, CompileError, Detach,
         ReportTest
  <2>2. ASSUME NEW t \in Threads, CreateThread(h, t) PROVE NoLostWakeup'
    BY <2>2, CreateKeepsBound
  <2>3. ~CreateFails(h)
    BY DEF CreateFails
  <2>4. CASE \/ StopCheck(h) \/ Kill(h) \/ PollDone(h) \/ PollTimeout(h) \/ AbortReply(h)
    BY <2>4 DEF StopCheck, Kill, PollDone, PollTimeout, AbortReply
  <2> QED
    BY <1>3, <2>1, <2>2, <2>3, <2>4 DEF HandlerStep
<1>4. ASSUME NEW h \in Handlers, SpuriousWakeup(h) PROVE Shrinks
  BY <1>4 DEF SpuriousWakeup
<1>5. ASSUME NEW t \in Threads, ThreadStep(t) PROVE Shrinks \/ NoLostWakeup'
  <2>1. CASE Handoff(t)
    BY <2>1, HandoffKeepsBound
  <2>2. CASE Fork(t) \/ ForkFails(t) \/ StorePid(t) \/ Waitpid(t) \/ CopyLog(t)
             \/ DelLog(t) \/ Clear(t)
    BY <2>2 DEF Fork, ForkFails, StorePid, Waitpid, CopyLog, DelLog, Clear, ThreadGoto
  <2> QED
    BY <1>5, <2>1, <2>2 DEF ThreadStep
<1>6. ASSUME NEW t \in Threads, WriteLog(t) \/ ChildExit(t) PROVE Shrinks
  BY <1>6 DEF WriteLog, ChildExit
<1>7. ASSUME CopyAll PROVE Shrinks
  BY <1>7 DEF CopyAll
<1>8. ASSUME UNCHANGED vars PROVE Shrinks
  BY <1>8 DEF vars
<1> HIDE DEF Shrinks
<1> QED
  BY <1>1, <1>2, <1>3, <1>4, <1>5, <1>6, <1>7, <1>8 DEF Next

(* For every handler in pthread_cond_wait there is a thread that has yet   *)
(* to signal, as long as pthread_create does not fail: the wait needs no   *)
(* predicate to end, only to mean something.                               *)
THEOREM WakeupsSuffice ==
  ASSUME "create" \notin Faults
  PROVE  Spec => []NoLostWakeup
<1>1. Init => NoLostWakeup
  <2> SUFFICES ASSUME Init PROVE NoLostWakeup
    OBVIOUS
  <2>1. Waiting = {} /\ Born = {}
    BY DEF Init, Waiting, Born
  <2> QED
    BY <2>1, FS_EmptySet DEF NoLostWakeup
<1>2. TypeOK /\ NoLostWakeup /\ [Next]_vars => NoLostWakeup'
  BY NextNoLostWakeup
<1> QED
  BY <1>1, <1>2, TypeCorrect, PTL DEF Spec

-----------------------------------------------------------------------------
(* One starter. *)

(* A start is in the hands of a starter, and compiles only for a free slot. *)
StartersOnly ==
  \A h \in Handlers :
    /\ hpc[h] \in Starting \cup {"waiting", "detach", "report"} => h \in Starters
    /\ hpc[h] \in {"compile", "create"} => idThread[hver[h]] = NoThread

(* The starter waits for the thread it has just created, with iVersion as  *)
(* it left it.                                                             *)
BornIsAwaited ==
  \A t \in Threads :
    /\ tpc[t] \in {"unborn", "born"} => tver[t] = NoVersion
    /\ tpc[t] = "born" => \E h \in Starters : /\ hpc[h] = "waiting"
                                             /\ idThread[hver[h]] = t
                                             /\ iVersion = hver[h]

(* A thread at work is the one recorded for its version. *)
RunningIsRecorded ==
  \A t \in Threads :
    tpc[t] \notin {"unborn", "born", "done"} => idThread[tver[t]] = t

(* The thread recorded for a version is at work on it, or about to read it *)
(* from iVersion.                                                          *)
RecordedRuns ==
  \A v \in Versions, t \in Threads : idThread[v] = t =>
    /\ tpc[t] \notin {"unborn", "done"}
    /\ tpc[t] = "born" => iVersion = v
    /\ tpc[t] # "born" => tver[t] = v

OneStarterInv ==
  TypeOK /\ ChildOfThread /\ StartersOnly /\ BornIsAwaited /\ RunningIsRecorded /\ RecordedRuns

LEMMA InitOneStarterInv == Init => OneStarterInv
  BY InitPidInv, ValuesAssumption
  DEF Init, PidInv, OneStarterInv, StartersOnly, BornIsAwaited, RunningIsRecorded, RecordedRuns,
      Starting

LEMMA NextOneStarterInv ==
  ASSUME OneStarter, OneStarterInv, PidInv', [Next]_vars
  PROVE  OneStarterInv'
<1> USE ValuesAssumption, SetsAssumption
    DEF OneStarter, OneStarterInv, StartersOnly, BornIsAwaited, RunningIsRecorded,
        RecordedRuns, Starting, TypeOK, ThreadPcs, HandlerPcs
<1>0. TypeOK' /\ ChildOfThread'
  BY DEF PidInv
<1> DEFINE Goal == StartersOnly' /\ BornIsAwaited' /\ RunningIsRecorded' /\ RecordedRuns'
<1> SUFFICES Goal
  BY <1>0
<1> USE DEF Goto, Return, tvars, hvars, logvars, IsTestOn
<1>1. ASSUME NEW h \in Handlers, NEW v \in Versions, RecvStart(h, v) PROVE Goal
  BY <1>1 DEF RecvStart
<1>2. ASSUME NEW h \in Handlers, NEW v \in Versions, RecvStop(h, v) PROVE Goal
  BY <1>2 DEF RecvStop
<1>3. ASSUME NEW h \in Handlers, HandlerStep(h) PROVE Goal
  <2>1. CASE RejectScript(h) BY <2>1 DEF RejectScript
  <2>2. CASE PrepareLog(h) BY <2>2 DEF PrepareLog
  <2>3. CASE StartRefused(h) BY <2>3 DEF StartRefused
  <2>4. CASE CompileOk(h) BY <2>4 DEF CompileOk
  <2>5. CASE CompileError(h) BY <2>5 DEF CompileError
  <2>6. ASSUME NEW t \in Threads, CreateThread(h, t) PROVE Goal
    <3>1. /\ h \in Starters /\ hver[h] \in Versions /\ tpc[t] = "unborn"
          /\ \A s \in Threads : tpc[s] # "born"
      BY <2>6 DEF CreateThread
    <3>2. StartersOnly' BY <2>6, <3>1 DEF CreateThread
    <3>3. BornIsAwaited'
      <4>1. tver[t] = NoVersion /\ hpc'[h] = "waiting" /\ idThread'[hver[h]] = t
            /\ iVersion' = hver[h] /\ hver' = hver /\ tver' = tver
        BY <2>6, <3>1 DEF CreateThread
      <4>2. \A s \in Threads : tpc'[s] = "born" => s = t
        BY <2>6, <3>1 DEF CreateThread
      <4>3. \A s \in Threads : tpc'[s] \in {"unborn", "born"} => tver'[s] = NoVersion
        BY <2>6, <4>1 DEF CreateThread
      <4> QED BY <4>1, <4>2, <4>3, <3>1
    <3>4. RunningIsRecorded' BY <2>6, <3>1 DEF CreateThread
    <3>5. RecordedRuns' BY <2>6, <3>1 DEF CreateThread
    <3> QED BY <3>2, <3>3, <3>4, <3>5
  <2>7. CASE CreateFails(h) BY <2>7 DEF CreateFails
  <2>8. CASE Detach(h) BY <2>8 DEF Detach
  <2>9. CASE ReportTest(h) BY <2>9 DEF ReportTest
  <2>10. CASE StopCheck(h) BY <2>10 DEF StopCheck
  <2>11. CASE Kill(h) BY <2>11 DEF Kill
  <2>12. CASE PollDone(h) BY <2>12 DEF PollDone
  <2>13. CASE PollTimeout(h) BY <2>13 DEF PollTimeout
  <2>14. CASE AbortReply(h) BY <2>14 DEF AbortReply
  <2> QED BY <1>3, <2>1, <2>2, <2>3, <2>4, <2>5, <2>6, <2>7, <2>8, <2>9,
             <2>10, <2>11, <2>12, <2>13, <2>14 DEF HandlerStep
<1>4. ASSUME NEW h \in Handlers, SpuriousWakeup(h) PROVE Goal
  BY <1>4 DEF SpuriousWakeup
<1>5. ASSUME NEW t \in Threads, ThreadStep(t) PROVE Goal
  <2> USE DEF ThreadGoto
  <2>1. CASE Handoff(t)
    <3>1. PICK h \in Starters : hpc[h] = "waiting" /\ idThread[hver[h]] = t /\ iVersion = hver[h]
      BY <2>1 DEF Handoff
    <3>2. \A s \in Threads : tpc[s] = "born" => s = t
      BY <3>1
    <3>3. tpc'[t] = "fork" /\ tver'[t] = iVersion /\ iVersion \in Versions
          /\ UNCHANGED <<hver, iVersion, idThread>>
          /\ \A s \in Threads : s # t => tpc'[s] = tpc[s] /\ tver'[s] = tver[s]
      BY <2>1 DEF Handoff
    <3>4. StartersOnly' BY <2>1 DEF Handoff, Waiting
    <3>5. BornIsAwaited' BY <3>2, <3>3
    <3>6. RunningIsRecorded' BY <3>1, <3>3
    <3>7. RecordedRuns' BY <2>1, <3>2, <3>3 DEF Handoff
    <3> QED BY <3>4, <3>5, <3>6, <3>7
  <2>2. CASE Fork(t) BY <2>2 DEF Fork
  <2>3. CASE ForkFails(t) BY <2>3 DEF ForkFails
  <2>4. CASE StorePid(t) BY <2>4 DEF StorePid
  <2>5. CASE Waitpid(t) BY <2>5 DEF Waitpid
  <2>6. CASE CopyLog(t) BY <2>6 DEF CopyLog
  <2>7. CASE DelLog(t) BY <2>7 DEF DelLog
  <2>8. CASE Clear(t) BY <2>8 DEF Clear
  <2> QED BY <1>5, <2>1, <2>2, <2>3, <2>4, <2>5, <2>6, <2>7, <2>8 DEF ThreadStep
<1>6. ASSUME NEW t \in Threads, WriteLog(t) PROVE Goal BY <1>6 DEF WriteLog
<1>7. ASSUME NEW t \in Threads, ChildExit(t) PROVE Goal BY <1>7 DEF ChildExit
<1>8. ASSUME CopyAll PROVE Goal BY <1>8 DEF CopyAll
<1>9. ASSUME UNCHANGED vars PROVE Goal BY <1>9 DEF vars
<1> HIDE DEF Goal
<1> QED
  BY <1>1, <1>2, <1>3, <1>4, <1>5, <1>6, <1>7, <1>8, <1>9 DEF Next

LEMMA OneStarterInvariant ==
  ASSUME OneStarter
  PROVE  Spec => []OneStarterInv
<1>1. Init => OneStarterInv BY InitOneStarterInv
<1>2. OneStarterInv /\ PidInv' /\ [Next]_vars => OneStarterInv' BY NextOneStarterInv
<1>3. Init => PidInv BY InitPidInv
<1>4. PidInv /\ [Next]_vars => PidInv' BY NextPidInv
<1> QED BY <1>1, <1>2, <1>3, <1>4, PTL DEF Spec

(* With one starter and no spurious wake-up, the thread recorded for a     *)
(* version runs that version.                                              *)
THEOREM OneStarterHandsOff ==
  ASSUME OneStarter
  PROVE  Spec => []HandoffExact
<1>1. OneStarterInv => HandoffExact
  BY ValuesAssumption DEF OneStarterInv, HandoffExact, RecordedRuns, BornIsAwaited
<1> QED BY <1>1, OneStarterInvariant, PTL

(* ... two scripts of one version never run at once ... *)
THEOREM OneStarterRunsOnce ==
  ASSUME OneStarter
  PROVE  Spec => []OneRunPerVersion
<1>1. OneStarterInv => OneRunPerVersion
  BY DEF OneStarterInv, OneRunPerVersion, RunningIsRecorded, ChildOfThread, TypeOK, ThreadPcs
<1> QED BY <1>1, OneStarterInvariant, PTL

(* ... and ABORT OK is sent only when the script is dead.                  *)
THEOREM OneStarterAborts ==
  ASSUME OneStarter
  PROVE  Spec => AbortOkMeansDead
<1> DEFINE A == \A h \in Handlers :
                  hpc[h] # "abort_ok" /\ hpc'[h] = "abort_ok" =>
                    \A t \in Threads : child'[t] = "live" => tver'[t] # hver'[h]
<1>1. OneStarterInv /\ [Next]_vars => [A]_vars
  <2> SUFFICES ASSUME OneStarterInv, Next, NEW g \in Handlers,
                      hpc[g] # "abort_ok", hpc'[g] = "abort_ok"
               PROVE  \A t \in Threads : child'[t] = "live" => tver'[t] # hver'[g]
    BY DEF vars
  <2> USE DEF OneStarterInv, TypeOK, Goto, Return, tvars, hvars, logvars
  <2>1. \A t \in Threads : child[t] = "live" => idThread[tver[t]] = t
    BY DEF ChildOfThread, RunningIsRecorded, ThreadPcs
  <2>2. ASSUME NEW h \in Handlers, StopCheck(h) \/ PollDone(h)
        PROVE  \A t \in Threads : child'[t] = "live" => tver'[t] # hver'[g]
    <3>1. h = g /\ idThread[hver[g]] = NoThread /\ UNCHANGED <<child, tver, hver>>
      BY <2>2 DEF StopCheck, PollDone, IsTestOn
    <3> QED BY <2>1, <3>1, ValuesAssumption
  <2>3. ASSUME NEW h \in Handlers,
               ~(StopCheck(h) \/ PollDone(h)),
               \/ \E v \in Versions : RecvStart(h, v) \/ RecvStop(h, v)
               \/ HandlerStep(h)
               \/ SpuriousWakeup(h)
        PROVE  FALSE
    BY <2>3 DEF RecvStart, RecvStop, HandlerStep, RejectScript, PrepareLog, StartRefused,
         CompileOk, CompileError, CreateThread, CreateFails, Detach, ReportTest, Kill,
         PollTimeout, AbortReply, SpuriousWakeup
  <2>4. ASSUME NEW t \in Threads, ThreadStep(t) \/ WriteLog(t) \/ ChildExit(t) PROVE FALSE
    BY <2>4 DEF ThreadStep, Handoff, Fork, ForkFails, StorePid, Waitpid, CopyLog, DelLog,
         Clear, WriteLog, ChildExit, Waiting
  <2>5. ~CopyAll
    BY DEF CopyAll
  <2> QED BY <2>2, <2>3, <2>4, <2>5 DEF Next
<1>2. Spec => [][A]_vars
  BY <1>1, OneStarterInvariant, PTL DEF Spec
<1> QED BY <1>2 DEF AbortOkMeansDead

-----------------------------------------------------------------------------
(* Slots, with one starter. *)

(* Script, one test at a time. *)
LEMMA ScriptOf ==
  ASSUME TypeOK
  PROVE  /\ DOMAIN Script = Threads /\ Script = [t \in Threads |-> Script[t]]
         /\ \A t \in Threads :
              /\ Script[t] \in {"none", "live", "over"}
              /\ child[t] = "live" <=> Script[t] = "live"
              /\ child[t] \in {"dead", "reaped"} => Script[t] = "over"
              /\ child[t] = "none" /\ tpc[t] \in {"clear", "done"} => Script[t] = "over"
              /\ child[t] = "none" /\ tpc[t] \notin {"clear", "done"} => Script[t] = "none"
  BY DEF Script, TypeOK

LEMMA ScriptNext ==
  ASSUME TypeOK'
  PROVE  /\ DOMAIN Script' = Threads /\ Script' = [t \in Threads |-> Script'[t]]
         /\ \A t \in Threads :
              /\ Script'[t] \in {"none", "live", "over"}
              /\ child'[t] = "live" <=> Script'[t] = "live"
              /\ child'[t] \in {"dead", "reaped"} => Script'[t] = "over"
              /\ child'[t] = "none" /\ tpc'[t] \in {"clear", "done"} => Script'[t] = "over"
              /\ child'[t] = "none" /\ tpc'[t] \notin {"clear", "done"} => Script'[t] = "none"
  BY DEF Script, TypeOK

LEMMA SameScript ==
  ASSUME TypeOK, TypeOK', \A t \in Threads : Script'[t] = Script[t]
  PROVE  Script' = Script
  BY ScriptOf, ScriptNext

LEMMA SameScriptOf ==
  ASSUME TypeOK, TypeOK', NEW t \in Threads, child'[t] = child[t],
         tpc'[t] \in {"clear", "done"} <=> tpc[t] \in {"clear", "done"}
  PROVE  Script'[t] = Script[t]
<1>1. child[t] \in {"none", "live", "dead", "reaped"}
  BY DEF TypeOK
<1>2. CASE child[t] = "none" /\ tpc[t] \in {"clear", "done"}
  BY <1>2, ScriptOf, ScriptNext
<1>3. CASE child[t] = "none" /\ tpc[t] \notin {"clear", "done"}
  BY <1>3, ScriptOf, ScriptNext
<1>4. CASE child[t] # "none"
  BY <1>1, <1>4, ScriptOf, ScriptNext
<1> QED BY <1>2, <1>3, <1>4

(* Nothing of a test changes but where its thread is, before the script or *)
(* after it.                                                               *)
LEMMA SlotsStutter ==
  ASSUME TypeOK, TypeOK', UNCHANGED idThread,
         \A t \in Threads : \/ child'[t] = child[t]
                            \/ child[t] = "dead" /\ child'[t] = "reaped",
         \A t \in Threads : tpc'[t] \in {"clear", "done"} /\ child[t] = "none"
                              => tpc[t] \in {"clear", "done"},
         \A t \in Threads : tpc[t] \in {"clear", "done"} => tpc'[t] \in {"clear", "done"}
  PROVE  UNCHANGED Slot!slotvars
<1>1. ASSUME NEW t \in Threads PROVE Script'[t] = Script[t]
  <2>1. CASE child'[t] # child[t]
    BY <2>1, ScriptOf, ScriptNext
  <2>2. CASE child'[t] = child[t] /\ child[t] = "none"
    BY <2>2, SameScriptOf
  <2>3. CASE child'[t] = child[t] /\ child[t] # "none"
    <3>1. child[t] \in {"live", "dead", "reaped"}
      BY <2>3 DEF TypeOK
    <3> QED BY <2>3, <3>1, ScriptOf, ScriptNext
  <2> QED BY <2>1, <2>2, <2>3
<1> QED BY <1>1, SameScript DEF Slot!slotvars

(* kill, or the end of scripts. *)
LEMMA ScriptsEnd ==
  ASSUME TypeOK, TypeOK', UNCHANGED <<idThread, tpc>>,
         \A t \in Threads : \/ child'[t] = child[t]
                            \/ child[t] = "live" /\ child'[t] = "dead"
  PROVE  \E S \in SUBSET Threads : Slot!End(S)
<1> DEFINE S == {t \in Threads : child'[t] # child[t]}
<1>1. \A t \in S : Script[t] = "live"
  BY ScriptOf
<1>2. ASSUME NEW t \in Threads PROVE Script'[t] = IF t \in S THEN "over" ELSE Script[t]
  <2>1. CASE t \in S
    BY <2>1, ScriptNext
  <2>2. CASE t \notin S
    BY <2>2, SameScriptOf
  <2> QED BY <2>1, <2>2
<1>3. Script' = [t \in Threads |-> IF t \in S THEN "over" ELSE Script[t]]
  BY <1>2, ScriptNext
<1>4. Slot!End(S)
  BY <1>1, <1>3 DEF Slot!End
<1> QED BY <1>4

(* pthread_create puts a new thread into the slot of its version. *)
LEMMA CreateTakes ==
  ASSUME OneStarterInv, TypeOK', NEW h \in Handlers, NEW t \in Threads, CreateThread(h, t)
  PROVE  \E v \in Versions : Slot!Take(v, t)
<1> USE DEF OneStarterInv
<1>1. PICK v \in Versions : v = hver[h]
  BY DEF TypeOK, CreateThread
<1>2. idThread[v] = NoThread /\ idThread' = [idThread EXCEPT ![v] = t] /\ tpc[t] = "unborn"
  BY <1>1 DEF CreateThread, StartersOnly
<1>3. Script[t] = "none"
  BY <1>2, ScriptOf DEF ChildOfThread
<1>4. \A w \in Versions : idThread[w] # t
  BY <1>2 DEF RecordedRuns
<1>5. /\ child' = child /\ tpc'[t] = "born" /\ child[t] = "none"
      /\ \A s \in Threads : s # t => tpc'[s] = tpc[s]
  BY <1>2 DEF CreateThread, TypeOK, ChildOfThread
<1>6. \A s \in Threads : Script'[s] = Script[s]
  <2>1. \A s \in Threads : /\ child'[s] = child[s]
                           /\ tpc'[s] \in {"clear", "done"} <=> tpc[s] \in {"clear", "done"}
    BY <1>2, <1>5
  <2> QED BY <2>1, SameScriptOf
<1>7. Script' = Script
  BY <1>6, SameScript
<1> QED BY <1>2, <1>3, <1>4, <1>7 DEF Slot!Take

(* fork, in the slot of the thread's version. *)
LEMMA ForkBegins ==
  ASSUME OneStarterInv, TypeOK', NEW t \in Threads, Fork(t) \/ ForkFails(t)
  PROVE  \E v \in Versions : Slot!Begin(v, t)
<1> USE DEF OneStarterInv
<1>1. PICK v \in Versions : v = tver[t]
  BY DEF TypeOK, Fork, ForkFails
<1>2. idThread[v] = t /\ tpc[t] = "fork" /\ child[t] = "none" /\ idThread' = idThread
  BY <1>1 DEF Fork, ForkFails, RunningIsRecorded, ChildOfThread
<1>3. Script[t] = "none"
  BY <1>2, ScriptOf
<1>4. PICK now \in {"live", "over"} : Script'[t] = now
  BY <1>2, ScriptNext DEF Fork, ForkFails, ThreadGoto, TypeOK
<1>5. \A s \in Threads : s # t => tpc'[s] = tpc[s] /\ child'[s] = child[s]
  BY DEF Fork, ForkFails, ThreadGoto, TypeOK
<1>6. \A s \in Threads : s # t => Script'[s] = Script[s]
  BY <1>5, SameScriptOf
<1>7. Script' = [Script EXCEPT ![t] = now]
  BY <1>4, <1>6, ScriptOf, ScriptNext
<1> QED BY <1>2, <1>3, <1>7 DEF Slot!Begin

(* idThread[iVersion] = 0, after waitpid or a fork that failed. *)
LEMMA ClearLeaves ==
  ASSUME OneStarterInv, TypeOK', NEW t \in Threads, Clear(t)
  PROVE  \E v \in Versions : Slot!Leave(v, t)
<1> USE DEF OneStarterInv
<1>1. PICK v \in Versions : v = tver[t]
  BY DEF TypeOK, Clear
<1>2. idThread[v] = t /\ tpc[t] = "clear" /\ idThread' = [idThread EXCEPT ![v] = NoThread]
  BY <1>1 DEF Clear, RunningIsRecorded
<1>3. Script[t] = "over"
  BY <1>2, ScriptOf DEF ChildOfThread
<1>4. /\ child' = child /\ tpc'[t] = "done"
      /\ \A s \in Threads : s # t => tpc'[s] = tpc[s]
  BY DEF Clear, ThreadGoto, TypeOK
<1>5. \A s \in Threads : Script'[s] = Script[s]
  <2>1. \A s \in Threads : /\ child'[s] = child[s]
                           /\ tpc'[s] \in {"clear", "done"} <=> tpc[s] \in {"clear", "done"}
    BY <1>2, <1>4
  <2> QED BY <2>1, SameScriptOf
<1>6. Script' = Script
  BY <1>5, SameScript
<1> QED BY <1>2, <1>3, <1>6 DEF Slot!Leave

(* With one starter, a version's idThread is a slot that one test at a     *)
(* time holds: it takes it before its script begins and leaves it when the *)
(* script is over.  Every step is one of the slot's or leaves it alone.    *)
THEOREM OneStarterHoldsSlots ==
  ASSUME OneStarter
  PROVE  Spec => SlotsHold
<1>1. Init => Slot!Init
  <2> SUFFICES ASSUME Init PROVE Slot!Init
    OBVIOUS
  <2>1. \A t \in Threads : Script[t] = "none"
    BY InitTypeOK, ScriptOf DEF Init
  <2>2. Script = [t \in Threads |-> "none"]
    BY <2>1, InitTypeOK, ScriptOf
  <2> QED BY <2>2 DEF Init, Slot!Init
<1>2. OneStarterInv /\ TypeOK' /\ [Next]_vars => [Slot!Next]_(Slot!slotvars)
  <2> SUFFICES ASSUME OneStarterInv, TypeOK', [Next]_vars
               PROVE  Slot!Next \/ UNCHANGED Slot!slotvars
    OBVIOUS
  <2>0. TypeOK
    BY DEF OneStarterInv
  <2>1. ASSUME NEW h \in Handlers,
               (\E v \in Versions : RecvStart(h, v) \/ RecvStop(h, v))
                 \/ HandlerStep(h) \/ SpuriousWakeup(h)
        PROVE  Slot!Next \/ UNCHANGED Slot!slotvars
    <3>1. ASSUME NEW t \in Threads, CreateThread(h, t) PROVE Slot!Next
      BY <3>1, CreateTakes DEF Slot!Next
    <3>2. CASE Kill(h)
      <4>1. UNCHANGED <<idThread, tpc>>
        BY <3>2 DEF Kill
      <4>2. \A t \in Threads : child'[t] = child[t] \/ (child[t] = "live" /\ child'[t] = "dead")
        BY <2>0, <2>1, HandlersKeepThreads
      <4> QED BY <2>0, <4>1, <4>2, ScriptsEnd DEF Slot!Next
    <3>3. ASSUME ~Kill(h), \A t \in Threads : ~CreateThread(h, t)
          PROVE  UNCHANGED <<idThread, child, tpc>>
      BY <2>1, <3>3 DEF RecvStart, RecvStop, HandlerStep, RejectScript, PrepareLog, StartRefused,
         CompileOk, CompileError, CreateFails, Detach, ReportTest, StopCheck,
         PollDone, PollTimeout, AbortReply, SpuriousWakeup, tvars
    <3> QED BY <2>0, <3>1, <3>2, <3>3, SlotsStutter
  <2>2. ASSUME NEW t \in Threads, ThreadStep(t)
        PROVE  Slot!Next \/ UNCHANGED Slot!slotvars
    <3>1. CASE Fork(t) \/ ForkFails(t)
      BY <3>1, ForkBegins DEF Slot!Next
    <3>2. CASE Clear(t)
      BY <3>2, ClearLeaves DEF Slot!Next
    <3>3. CASE Handoff(t) \/ StorePid(t) \/ CopyLog(t)
      <4>1. /\ UNCHANGED <<idThread, child>>
            /\ \A s \in Threads : s # t => tpc'[s] = tpc[s]
            /\ tpc'[t] \notin {"clear", "done"} /\ tpc[t] \notin {"clear", "done"}
        BY <2>0, <3>3 DEF Handoff, StorePid, CopyLog, ThreadGoto, TypeOK
      <4> QED BY <2>0, <4>1, SlotsStutter
    <3>4. CASE Waitpid(t)
      <4>1. /\ UNCHANGED idThread
            /\ \A s \in Threads : s # t => tpc'[s] = tpc[s] /\ child'[s] = child[s]
            /\ child[t] = "dead" /\ child'[t] = "reaped"
            /\ tpc'[t] = "copylog" /\ tpc[t] = "waitpid"
        BY <2>0, <3>4 DEF Waitpid, ThreadGoto, TypeOK
      <4> QED BY <2>0, <4>1, SlotsStutter
    <3>5. CASE DelLog(t)
      <4>1. /\ UNCHANGED <<idThread, child>> /\ child[t] = "reaped"
            /\ \A s \in Threads : s # t => tpc'[s] = tpc[s]
            /\ tpc'[t] = "clear" /\ tpc[t] = "dellog"
        BY <2>0, <3>5 DEF DelLog, ThreadGoto, TypeOK, OneStarterInv, ChildOfThread
      <4> QED BY <2>0, <4>1, SlotsStutter
    <3> QED BY <2>2, <3>1, <3>2, <3>3, <3>4, <3>5 DEF ThreadStep
  <2>3. ASSUME NEW t \in Threads, ChildExit(t) PROVE Slot!Next
    <3>1. /\ UNCHANGED <<idThread, tpc>>
          /\ \A s \in Threads : child'[s] = child[s] \/ (child[s] = "live" /\ child'[s] = "dead")
      BY <2>0, <2>3 DEF ChildExit, TypeOK
    <3> QED BY <2>0, <3>1, ScriptsEnd DEF Slot!Next
  <2>4. ASSUME NEW t \in Threads, WriteLog(t) PROVE UNCHANGED <<idThread, child, tpc>>
    BY <2>4 DEF WriteLog, tvars
  <2>5. ASSUME CopyAll \/ UNCHANGED vars PROVE UNCHANGED <<idThread, child, tpc>>
    BY <2>5 DEF CopyAll, vars, tvars
  <2>6. UNCHANGED <<idThread, child, tpc>> => UNCHANGED Slot!slotvars
    BY <2>0, SlotsStutter
  <2> QED BY <2>1, <2>2, <2>3, <2>4, <2>5, <2>6 DEF Next
<1>3. OneStarterInv => TypeOK
  BY DEF OneStarterInv
<1> QED BY <1>1, <1>2, <1>3, OneStarterInvariant, PTL DEF Spec, SlotsHold, Slot!Spec

-----------------------------------------------------------------------------
(* Log files, with one starter. *)

(* CLog::AddLogFileList: the version is listed, and nothing is unlisted. *)
LEMMA AddLists ==
  ASSUME listLogFile \in Seq(Versions), NEW v \in Versions, AddLogFileList(v)
  PROVE  Listed(v)' /\ \A w \in Versions : Listed(w) => Listed(w)'
<1>1. CASE Listed(v)
  BY <1>1 DEF AddLogFileList, Listed
<1>2. CASE ~Listed(v)
  <2>1. listLogFile' = Append(listLogFile, v)
    BY <1>2 DEF AddLogFileList
  <2>2. /\ Len(listLogFile) \in Nat /\ Len(listLogFile') = Len(listLogFile) + 1
        /\ listLogFile'[Len(listLogFile) + 1] = v
        /\ \A i \in 1..Len(listLogFile) : listLogFile'[i] = listLogFile[i]
        /\ DOMAIN listLogFile = 1..Len(listLogFile)
        /\ DOMAIN listLogFile' = 1..Len(listLogFile')
    BY <2>1
  <2> QED
    BY <2>2 DEF Listed
<1> QED
  BY <1>1, <1>2

(* CLog::DelLogFileList unlists no other version. *)
LEMMA DelKeepsOthers ==
  ASSUME listLogFile \in Seq(Versions), NEW v \in Versions, DelLogFileList(v),
         NEW w \in Versions, w # v, Listed(w)
  PROVE  Listed(w)'
<1>1. CASE ~Listed(v)
  BY <1>1 DEF DelLogFileList, Listed
<1>2. CASE Listed(v)
  <2> DEFINE n == Len(listLogFile)
  <2>1. PICK i \in DOMAIN listLogFile :
          /\ listLogFile[i] = v
          /\ listLogFile' = SubSeq(listLogFile, 1, i - 1) \o SubSeq(listLogFile, i + 1, n)
    BY <1>2 DEF DelLogFileList
  <2>2. PICK j \in DOMAIN listLogFile : listLogFile[j] = w
    BY DEF Listed
  <2>3. n \in Nat /\ i \in 1..n /\ j \in 1..n /\ i # j
    BY <2>1, <2>2
  <2> DEFINE a == SubSeq(listLogFile, 1, i - 1)
             b == SubSeq(listLogFile, i + 1, n)
  <2>4. /\ a \in Seq(Versions) /\ Len(a) = i - 1
        /\ b \in Seq(Versions) /\ Len(b) = n - i
    BY <2>3
  <2>5. /\ \A k \in 1..(i - 1) : a[k] = listLogFile[k]
        /\ \A k \in 1..(n - i) : b[k] = listLogFile[i + k]
    BY <2>3
  <2> HIDE DEF a, b, n
  <2>6. /\ DOMAIN (a \o b) = 1..(Len(a) + Len(b))
        /\ \A k \in 1..Len(a) : (a \o b)[k] = a[k]
        /\ \A k \in 1..Len(b) : (a \o b)[Len(a) + k] = b[k]
    <3>1. /\ a \o b \in Seq(Versions)
          /\ Len(a \o b) = Len(a) + Len(b)
          /\ \A k \in 1..(Len(a) + Len(b)) :
               (a \o b)[k] = IF k <= Len(a) THEN a[k] ELSE b[k - Len(a)]
      BY <2>4, ConcatProperties
    <3>2. Len(a) \in Nat /\ Len(b) \in Nat
      BY <2>4
    <3>3. ASSUME NEW k \in 1..Len(b) PROVE (a \o b)[Len(a) + k] = b[k]
      <4>1. /\ Len(a) + k \in 1..(Len(a) + Len(b)) /\ ~(Len(a) + k <= Len(a))
            /\ (Len(a) + k) - Len(a) = k
        BY <3>2
      <4> QED BY <3>1, <4>1
    <3> QED BY <3>1, <3>2, <3>3
  <2>7. ASSUME j < i PROVE j \in DOMAIN (a \o b) /\ (a \o b)[j] = w
    <3>1. j \in 1..(i - 1) /\ j \in 1..((i - 1) + (n - i))
      BY <2>3, <2>7
    <3> QED BY <3>1, <2>2, <2>4, <2>5, <2>6
  <2>8. ASSUME ~(j < i)
        PROVE  (i - 1) + (j - i) \in DOMAIN (a \o b) /\ (a \o b)[(i - 1) + (j - i)] = w
    <3>1. /\ j - i \in 1..(n - i) /\ (i - 1) + (j - i) \in 1..((i - 1) + (n - i))
          /\ i + (j - i) = j
      BY <2>3, <2>8
    <3>2. b[j - i] = w
      BY <3>1, <2>2, <2>5
    <3> QED BY <3>1, <3>2, <2>4, <2>6
  <2>9. Listed(w)' <=> \E k \in DOMAIN (a \o b) : (a \o b)[k] = w
    BY <2>1 DEF Listed, a, b, n
  <2> QED
    BY <2>7, <2>8, <2>9
<1> QED
  BY <1>1, <1>2

(* The log is listed from StartTest's entry on: for a starter about to     *)
(* create the thread, for the thread to which the version is on its way,   *)
(* and for a thread that has not unlisted it yet.                          *)
StartIsListed ==
  /\ \A h \in Handlers : hpc[h] \in {"compile", "create"} => Listed(hver[h])
  /\ \A t \in Threads :
       /\ tpc[t] = "born" => Listed(iVersion)
       /\ tpc[t] \in {"fork", "store", "waitpid", "copylog", "dellog"} => Listed(tver[t])

(* A log with lines that no copy was tried of belongs to a thread that has *)
(* still to try.                                                           *)
FreshIsOwned ==
  \A v \in Versions : logFile[v] = "fresh" =>
    \E t \in Threads : tver[t] = v /\ tpc[t] \in {"store", "waitpid", "copylog"}

LEMMA InitLogInv == Init => StartIsListed /\ FreshIsOwned
  BY DEF Init, StartIsListed, FreshIsOwned

LEMMA NextStartIsListed ==
  ASSUME OneStarter, OneStarterInv, StartIsListed, [Next]_vars
  PROVE  StartIsListed'
<1> USE ValuesAssumption, SetsAssumption
    DEF OneStarterInv, StartIsListed, TypeOK, ThreadPcs, HandlerPcs
<1> USE DEF Goto, Return, tvars, hvars, logvars, IsTestOn
<1> DEFINE Goal == StartIsListed'
<1> SUFFICES Goal
  OBVIOUS
<1>0. ASSUME listLogFile' = listLogFile, NEW w PROVE Listed(w)' = Listed(w)
  BY <1>0 DEF Listed
<1>1. ASSUME NEW h \in Handlers, NEW v \in Versions, RecvStart(h, v) \/ RecvStop(h, v)
      PROVE  Goal
  BY <1>1 DEF RecvStart, RecvStop, Listed
<1>2. ASSUME NEW h \in Handlers, PrepareLog(h) PROVE Goal
  <2>1. PICK v \in Versions : hver[h] = v /\ AddLogFileList(v)
    BY <1>2 DEF PrepareLog
  <2>2. Listed(v)' /\ \A w \in Versions : Listed(w) => Listed(w)'
    BY <2>1, AddLists
  <2>3. UNCHANGED <<hver, iVersion, tpc, tver>> /\ hpc' = [hpc EXCEPT ![h] = "compile"]
    BY <1>2 DEF PrepareLog
  <2>4. \A g \in Handlers : hpc'[g] \in {"compile", "create"} => Listed(hver[g])'
    BY <2>1, <2>2, <2>3 DEF Listed
  <2>5. \A t \in Threads :
          /\ tpc'[t] = "born" => Listed(iVersion)'
          /\ tpc'[t] \in {"fork", "store", "waitpid", "copylog", "dellog"} => Listed(tver[t])'
    BY <2>2, <2>3 DEF Listed
  <2> QED BY <2>4, <2>5
<1>3. ASSUME NEW h \in Handlers, NEW t \in Threads, CreateThread(h, t) PROVE Goal
  <2>1. /\ h \in Starters /\ Listed(hver[h]) /\ tpc[t] = "unborn"
        /\ \A s \in Threads : tpc[s] # "born"
    BY <1>3 DEF CreateThread, OneStarter, StartersOnly, BornIsAwaited, Starting
  <2> QED BY <1>3, <2>1 DEF CreateThread, Listed
<1>4. ASSUME NEW h \in Handlers, CreateFails(h) PROVE Goal
  <2>1. \A s \in Threads : tpc[s] # "born"
    BY <1>4 DEF CreateFails, OneStarter, StartersOnly, BornIsAwaited, Starting
  <2> QED BY <1>4, <2>1 DEF CreateFails, Listed
<1>5. ASSUME NEW h \in Handlers,
             \/ RejectScript(h) \/ StartRefused(h) \/ CompileOk(h) \/ CompileError(h)
             \/ Detach(h) \/ ReportTest(h)
      PROVE  Goal
  <2>1. UNCHANGED <<listLogFile, iVersion, tpc, tver>>
        /\ \A g \in Handlers : hpc'[g] \in {"compile", "create"} =>
             hpc[g] \in {"compile", "create"} /\ hver'[g] = hver[g]
    BY <1>5 DEF RejectScript, StartRefused, CompileOk, CompileError, Detach, ReportTest
  <2> QED BY <2>1 DEF Listed
<1>6. ASSUME NEW h \in Handlers,
             \/ StopCheck(h) \/ Kill(h) \/ PollDone(h) \/ PollTimeout(h) \/ AbortReply(h)
             \/ SpuriousWakeup(h)
      PROVE  Goal
  BY <1>6 DEF StopCheck, Kill, PollDone, PollTimeout, AbortReply, SpuriousWakeup, Listed
<1>7. ASSUME NEW t \in Threads, ThreadStep(t) PROVE Goal
  <2> USE DEF ThreadGoto
  <2>1. CASE Handoff(t)
    <3>1. \A h \in Handlers : hpc'[h] \in {"compile", "create"} => hpc[h] = hpc'[h]
      BY <2>1 DEF Handoff, Waiting
    <3>2. /\ tpc' = [tpc EXCEPT ![t] = "fork"] /\ tver' = [tver EXCEPT ![t] = iVersion]
          /\ tpc[t] = "born" /\ UNCHANGED <<hver, iVersion, listLogFile>>
      BY <2>1 DEF Handoff
    <3> QED BY <3>1, <3>2 DEF Listed
  <2>2. CASE Fork(t) \/ ForkFails(t) \/ StorePid(t) \/ Waitpid(t) \/ CopyLog(t) \/ Clear(t)
    BY <2>2 DEF Fork, ForkFails, StorePid, Waitpid, CopyLog, Clear, Listed
  <2>3. CASE DelLog(t)
    <3> DEFINE u == tver[t]
    <3>1. u \in Versions /\ idThread[u] = t /\ DelLogFileList(u)
          /\ UNCHANGED <<hpc, hver, iVersion, tver>> /\ tpc' = [tpc EXCEPT ![t] = "clear"]
      BY <2>3 DEF DelLog, RunningIsRecorded
    <3>2. \A w \in Versions : w # u /\ Listed(w) => Listed(w)'
      BY <3>1, DelKeepsOthers
    <3>3. \A h \in Handlers : hpc[h] \in {"compile", "create"} => hver[h] # u /\ hver[h] \in Versions
      BY <3>1 DEF StartersOnly
    <3>4. \A s \in Threads : tpc[s] = "born" => iVersion # u /\ iVersion \in Versions
      BY <3>1, <2>3 DEF BornIsAwaited, DelLog
    <3>5. \A s \in Threads : tpc'[s] \in {"fork", "store", "waitpid", "copylog", "dellog"}
                               => tpc[s] = tpc'[s] /\ tver[s] # u /\ tver[s] \in Versions
      BY <3>1 DEF RunningIsRecorded
    <3> HIDE DEF u
    <3>6. \A h \in Handlers : hpc'[h] \in {"compile", "create"} => Listed(hver[h])'
      BY <3>1, <3>2, <3>3 DEF Listed
    <3>7. \A s \in Threads : tpc'[s] = "born" => Listed(iVersion)'
      BY <3>1, <3>2, <3>4 DEF Listed
    <3>8. \A s \in Threads : tpc'[s] \in {"fork", "store", "waitpid", "copylog", "dellog"}
                               => Listed(tver[s])'
      BY <3>1, <3>2, <3>5 DEF Listed
    <3> QED BY <3>6, <3>7, <3>8 DEF Listed
  <2> QED BY <1>7, <2>1, <2>2, <2>3 DEF ThreadStep
<1>8. ASSUME NEW t \in Threads, WriteLog(t) \/ ChildExit(t) PROVE Goal
  BY <1>8 DEF WriteLog, ChildExit, Listed
<1>9. ASSUME CopyAll \/ UNCHANGED vars PROVE Goal
  BY <1>9 DEF CopyAll, vars, Listed
<1> HIDE DEF Goal
<1> QED
  BY <1>1, <1>2, <1>3, <1>4, <1>5, <1>6, <1>7, <1>8, <1>9 DEF Next, HandlerStep

(* The last copy of a thread finds its log listed, so it leaves no line    *)
(* untried behind.                                                         *)
LEMMA NextFreshIsOwned ==
  ASSUME OneStarter, OneStarterInv, StartIsListed, FreshIsOwned, [Next]_vars
  PROVE  FreshIsOwned'
<1> USE ValuesAssumption DEF OneStarterInv, TypeOK, ThreadPcs, FreshIsOwned
<1> USE DEF Goto, Return, tvars, hvars, logvars
<1> DEFINE Goal == FreshIsOwned'
<1> SUFFICES Goal
  OBVIOUS
<1>1. ASSUME NEW h \in Handlers,
             (\E v \in Versions : RecvStart(h, v) \/ RecvStop(h, v))
               \/ HandlerStep(h) \/ SpuriousWakeup(h)
      PROVE  Goal
  <2>1. /\ tver' = tver
        /\ \A t \in Threads : tpc'[t] = tpc[t] \/ tpc[t] = "unborn"
    BY <1>1, HandlersKeepThreads
  <2>2. \A v \in Versions : logFile'[v] = "fresh" => logFile[v] = "fresh"
    <3>1. CASE PrepareLog(h) BY <3>1 DEF PrepareLog
    <3>2. CASE ~PrepareLog(h)
      BY <1>1, <3>2 DEF RecvStart, RecvStop, HandlerStep, RejectScript, StartRefused, CompileOk,
           CompileError, CreateThread, CreateFails, Detach, ReportTest, StopCheck, Kill,
           PollDone, PollTimeout, AbortReply, SpuriousWakeup
    <3> QED BY <3>1, <3>2
  <2> QED BY <2>1, <2>2
<1>2. ASSUME NEW t \in Threads, ThreadStep(t) PROVE Goal
  <2> USE DEF ThreadGoto
  <2>1. CASE Handoff(t) BY <2>1 DEF Handoff
  <2>2. CASE Fork(t) BY <2>2 DEF Fork
  <2>3. CASE ForkFails(t) BY <2>3 DEF ForkFails
  <2>4. CASE StorePid(t) BY <2>4 DEF StorePid
  <2>5. CASE Waitpid(t) BY <2>5 DEF Waitpid
  <2>6. CASE CopyLog(t)
    <3>1. tver[t] \in Versions /\ Listed(tver[t])
      BY <2>6 DEF CopyLog, StartIsListed
    <3>2. \A v \in Versions : logFile'[v] = "fresh" => logFile[v] = "fresh" /\ v # tver[t]
      BY <2>6, <3>1, CopyTries DEF CopyLog
    <3>3. tver' = tver /\ \A s \in Threads : s # t => tpc'[s] = tpc[s]
      BY <2>6 DEF CopyLog
    <3>4. SUFFICES ASSUME NEW v \in Versions, logFile'[v] = "fresh"
                   PROVE  \E s \in Threads : /\ tver'[s] = v
                                             /\ tpc'[s] \in {"store", "waitpid", "copylog"}
      OBVIOUS
    <3>5. PICK s \in Threads : tver[s] = v /\ tpc[s] \in {"store", "waitpid", "copylog"}
      BY <3>2, <3>4
    <3>6. s # t
      BY <3>2, <3>4, <3>5
    <3> QED BY <3>3, <3>5, <3>6
  <2>7. CASE DelLog(t) BY <2>7, ZenonT(60) DEF DelLog
  <2>8. CASE Clear(t) BY <2>8 DEF Clear
  <2> QED BY <1>2, <2>1, <2>2, <2>3, <2>4, <2>5, <2>6, <2>7, <2>8 DEF ThreadStep
<1>3. ASSUME NEW t \in Threads, WriteLog(t) PROVE Goal
  <2>1. tpc[t] \in {"store", "waitpid"}
    BY <1>3 DEF WriteLog, ChildOfThread
  <2> QED BY <1>3, <2>1 DEF WriteLog
<1>4. ASSUME NEW t \in Threads, ChildExit(t) PROVE Goal
  BY <1>4 DEF ChildExit
<1>5. ASSUME CopyAll PROVE Goal
  <2>1. \A v \in Versions : logFile'[v] = "fresh" => logFile[v] = "fresh"
    BY <1>5, CopyTries DEF CopyAll
  <2> QED BY <1>5, <2>1 DEF CopyAll
<1>6. ASSUME UNCHANGED vars PROVE Goal
  BY <1>6 DEF vars
<1> HIDE DEF Goal
<1> QED
  BY <1>1, <1>2, <1>3, <1>4, <1>5, <1>6 DEF Next

LogInv == OneStarterInv /\ StartIsListed /\ FreshIsOwned

LEMMA LogInvariant ==
  ASSUME OneStarter
  PROVE  Spec => []LogInv
<1>1. Init => StartIsListed /\ FreshIsOwned BY InitLogInv
<1>2. OneStarterInv /\ StartIsListed /\ FreshIsOwned /\ [Next]_vars
        => StartIsListed' /\ FreshIsOwned'
  BY NextStartIsListed, NextFreshIsOwned
<1>3. LogInv <=> OneStarterInv /\ StartIsListed /\ FreshIsOwned BY DEF LogInv
<1> QED BY <1>1, <1>2, <1>3, OneStarterInvariant, PTL DEF Spec

(* With one starter, the log of a running script is listed: no other       *)
(* test's end takes it off the list, however versions end and restart.     *)
THEOREM OneStarterListsLogs ==
  ASSUME OneStarter
  PROVE  Spec => []LogListedWhileRunning
<1>1. LogInv => LogListedWhileRunning
  BY DEF LogInv, OneStarterInv, LogListedWhileRunning, StartIsListed, ChildOfThread, TypeOK,
      ThreadPcs
<1> QED BY <1>1, LogInvariant, PTL

(* ... and StartTest removes no log with lines that no copy was tried of.  *)
THEOREM OneStarterKeepsLogs ==
  ASSUME OneStarter
  PROVE  Spec => LogNotLost
<1> DEFINE A == \A v \in Versions :
                  logFile[v] # "none" /\ logFile'[v] = "none" => logFile[v] \in {"copied", "failed"}
<1>1. LogInv /\ [Next]_vars => [A]_vars
  <2> SUFFICES ASSUME LogInv, Next, NEW w \in Versions, logFile[w] = "fresh"
               PROVE  logFile'[w] # "none"
    BY DEF vars, LogInv, OneStarterInv, TypeOK
  <2> USE DEF LogInv, OneStarterInv, TypeOK, Goto, Return, tvars, hvars, logvars
  <2>1. idThread[w] # NoThread
    BY ValuesAssumption DEF FreshIsOwned, RunningIsRecorded, ThreadPcs
  <2>2. ASSUME NEW h \in Handlers,
               (\E v \in Versions : RecvStart(h, v) \/ RecvStop(h, v))
                 \/ HandlerStep(h) \/ SpuriousWakeup(h)
        PROVE  logFile'[w] = "fresh"
    <3>1. CASE PrepareLog(h) BY <2>1, <3>1 DEF PrepareLog, IsTestOn
    <3>2. CASE ~PrepareLog(h)
      BY <2>2, <3>2 DEF RecvStart, RecvStop, HandlerStep, RejectScript, StartRefused, CompileOk,
           CompileError, CreateThread, CreateFails, Detach, ReportTest, StopCheck, Kill,
           PollDone, PollTimeout, AbortReply, SpuriousWakeup
    <3> QED BY <3>1, <3>2
  <2>3. ASSUME NEW t \in Threads, ThreadStep(t) \/ WriteLog(t) \/ ChildExit(t)
        PROVE  logFile'[w] # "none"
    <3>1. CASE CopyLog(t) BY <3>1, CopyTries DEF CopyLog
    <3>2. CASE ~CopyLog(t)
      BY <2>3, <3>2 DEF ThreadStep, Handoff, Fork, ForkFails, StorePid, Waitpid, DelLog, Clear,
           WriteLog, ChildExit
    <3> QED BY <3>1, <3>2
  <2>4. CopyAll => logFile'[w] # "none"
    BY CopyTries DEF CopyAll
  <2> QED BY <2>2, <2>3, <2>4 DEF Next
<1>2. Spec => [][A]_vars
  BY <1>1, LogInvariant, PTL DEF Spec
<1> QED BY <1>2 DEF LogNotLost

=============================================================================
