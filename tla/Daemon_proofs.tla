---------------------------- MODULE Daemon_proofs ----------------------------
(***************************************************************************)
(* What holds of Daemon for any finite number of launches, and for any     *)
(* writers, ports and values.                                              *)
(***************************************************************************)
EXTENDS Daemon, FiniteSetTheorems, TLAPS

(* The disjuncts of Next: what a launch does, or is done to it, and what a *)
(* writer does.                                                            *)
LaunchMove(p) ==
  \/ Launch(p) \/ MainStep(p) \/ ThreadStep(p)
  \/ StopHangs(p) \/ Killed(p) \/ ProcSignalStop(p) \/ DefaultSignal(p)
WriterMove(w) == StartWriter(w) \/ WriterStep(w) \/ KillWriter(w)

Ends(p) == \E how \in EndPcs : End(p, how)

(* The moves of a launch in which it does not end, by what they change.    *)
QuietMove(p) ==
  \/ Launch(p) \/ CheckProgRunning(p) \/ CreateTestFolders(p) \/ NotifyProgReady(p)
  \/ LoopTest(p) \/ Monitor(p) \/ DeleteStatus(p) \/ StopHangs(p)

HandlerMove(p) ==
  \E h \in Handlers :
    \/ \E i \in Ports :
         /\ h \in running[p] /\ at[p][h] = 0 /\ g_pTestMng[p][i] # "null"
         /\ at' = [at EXCEPT ![p][h] = i]
         /\ UNCHANGED <<pc, mainvars, running, test, g_pTestMng, semvars, dpsvars>>
    \/ /\ at[p][h] # 0 /\ g_pTestMng[p][at[p][h]] # "null"
       /\ at' = [at EXCEPT ![p][h] = 0]
       /\ test' \in {test, [test EXCEPT ![p] = @ \cup {at[p][h]}]}
       /\ UNCHANGED <<pc, mainvars, running, g_pTestMng, semvars, dpsvars>>

TestMove(p) ==
  \E i \in test[p] :
    /\ test' = [test EXCEPT ![p] = @ \ {i}]
    /\ UNCHANGED <<pc, mainvars, running, at, g_pTestMng, semvars, dpsvars>>

LEMMA LaunchMoves ==
  ASSUME NEW p \in Launches, LaunchMove(p)
  PROVE  \/ QuietMove(p) \/ SetSignal(p) \/ StartThreads(p) \/ NewTestMng(p)
         \/ NewStatus(p) \/ Arm(p) \/ CheckDps(p) \/ StopThreads(p) \/ DeleteTestMng(p)
         \/ ProcSignalStop(p) \/ HandlerMove(p) \/ TestMove(p)
         \/ Ends(p)
<1>1. CASE ThreadStep(p)
  <2>1. ASSUME NEW h \in Handlers, NEW i \in Ports, HandleBegin(p, h, i)
        PROVE  HandlerMove(p) \/ Ends(p)
    BY <2>1 DEF HandleBegin, Touch, HandlerMove, Ends, EndPcs
  <2>2. ASSUME NEW h \in Handlers, HandleEnd(p, h)
        PROVE  HandlerMove(p) \/ Ends(p)
    BY <2>2 DEF HandleEnd, Touch, HandlerMove, Ends, EndPcs
  <2>3. ASSUME NEW h \in Handlers, HandleInit(p, h) \/ StopKillsGroup(p, h) \/ DetachesNone(p, h)
        PROVE  Ends(p)
    BY <2>3 DEF HandleInit, StopKillsGroup, DetachesNone, Ends, EndPcs
  <2>4. ASSUME NEW i \in Ports, TestEnd(p, i)
        PROVE  TestMove(p) \/ Ends(p)
    BY <2>4 DEF TestEnd, Touch, TestMove, Ends, EndPcs
  <2>5. QED
    BY <1>1, <2>1, <2>2, <2>3, <2>4 DEF ThreadStep
<1>2. CASE Killed(p) \/ DefaultSignal(p) \/ Exit(p)
  BY <1>2 DEF Killed, DefaultSignal, Exit, Ends, EndPcs
<1>3. QED
  BY <1>1, <1>2
  DEF LaunchMove, MainStep, StartStep, LoopStep, DeleteStep, QuietMove

-----------------------------------------------------------------------------
(* The semaphore. *)
SemType ==
  sem \in Nat \cup {NoSem} /\ undo \in [Procs -> Int] /\ unlocked \in BOOLEAN

LEMMA SemTypes ==
  ASSUME SemType, NEW x \in Procs
  PROVE  /\ \A made, found : CreateSem(x, made, found) => SemType'
         /\ (SetVal \/ LockSem(x) \/ UnlockSem(x) \/ ExitSem(x)) => SemType'
<1>1. ASSUME NEW made, NEW found, CreateSem(x, made, found)
      PROVE  SemType'
  BY <1>1 DEF CreateSem, SemType, NoSem
<1>2. SetVal \/ LockSem(x) \/ UnlockSem(x) => SemType'
  <2>1. SetVal => SemType'
    BY DEF SetVal, SemType
  <2>2. ASSUME LockSem(x)
        PROVE  SemType'
    <3>1. CASE x \in SemDenied
      BY <2>2, <3>1 DEF LockSem, SemType
    <3>2. CASE x \notin SemDenied
      BY <2>2, <3>2 DEF LockSem, SemType, NoSem
    <3>3. QED
      BY <3>1, <3>2
  <2>3. ASSUME UnlockSem(x)
        PROVE  SemType'
    BY <2>3 DEF UnlockSem, semvars, SemType, NoSem
  <2>4. QED
    BY <2>1, <2>2, <2>3
<1>3. ASSUME ExitSem(x)
      PROVE  SemType'
  BY <1>3 DEF ExitSem, SemType, NoSem
<1>4. QED
  BY <1>1, <1>2, <1>3

-----------------------------------------------------------------------------
(* TypeOK is inductive with: threads run only in a launch that has got     *)
(* past StartThread of the bridge, and a message is processed only by a    *)
(* thread that runs.                                                       *)
PastPcs == DaemonPcs \ {"signal", "folders", "bridge"}
ThreadsLive ==
  \A p \in Launches :
    /\ running[p] # {} \/ test[p] # {} => pc[p] \in PastPcs
    /\ \A h \in Handlers : at[p][h] # 0 => h \in running[p]

DataType ==
  /\ handled \subseteq Launches
  /\ g_condTestDm \in [Launches -> {0, 1}]
  /\ running \in [Launches -> SUBSET Handlers]
  /\ at \in [Launches -> [Handlers -> 0..PortCnt]]
  /\ test \in [Launches -> SUBSET Ports]
  /\ g_pTestMng \in [Launches -> [Ports -> {"null", "live", "freed"}]]
  /\ shm \in Values \X Values
  /\ statDps \in [Launches -> Values \X Values]

PcType ==
  /\ pc \in [Procs -> LaunchPcs \cup WriterPcs]
  /\ \A p \in Launches : pc[p] \in LaunchPcs
  /\ \A w \in Writers : pc[w] \in WriterPcs

TypeInv == PcType /\ DataType /\ SemType /\ ThreadsLive

LEMMA TypeInvGives == TypeInv => TypeOK
BY DEF TypeInv, PcType, DataType, SemType, ThreadsLive, TypeOK, PastPcs, DaemonPcs, LaunchPcs,
       InitPcs, LoopPcs, DeletePcs, Alive, EndPcs

LEMMA TypeInit == Init => TypeInv
<1> SUFFICES ASSUME Init
             PROVE  TypeInv
  OBVIOUS
<1>1. PcType
  BY DEF Init, PcType, LaunchPcs, WriterPcs, Procs
<1>2. DataType
  <2>1. <<0, 0>> \in Values \X Values
    BY ValuesAssumption
  <2>2. statDps \in [Launches -> Values \X Values] /\ shm \in Values \X Values
    BY <2>1 DEF Init
  <2>3. at \in [Launches -> [Handlers -> 0..PortCnt]]
    BY PortAssumption DEF Init
  <2>4. QED
    BY <2>2, <2>3 DEF Init, DataType
<1>3. SemType
  <2>1. sem \in Nat \cup {NoSem} /\ unlocked \in BOOLEAN
    BY DEF Init
  <2>2. undo \in [Procs -> Int]
    <3>1. undo = [p \in Procs |-> 0]
      BY DEF Init
    <3>2. QED
      BY <3>1
  <2>3. QED
    BY <2>1, <2>2 DEF SemType
<1>4. ThreadsLive
  BY DEF Init, ThreadsLive
<1>5. QED
  BY <1>1, <1>2, <1>3, <1>4 DEF TypeInv

(* Where a launch and a writer can go. *)
LEMMA PcStep == TypeInv /\ [Next]_vars => PcType'
<1> SUFFICES ASSUME TypeInv, [Next]_vars
             PROVE  PcType'
  OBVIOUS
<1>1. ASSUME NEW p \in Launches, LaunchMove(p)
      PROVE  PcType'
  <2>1. \E where \in LaunchPcs : pc' = [pc EXCEPT ![p] = where]
    <3>0. pc = [pc EXCEPT ![p] = pc[p]] /\ pc[p] \in LaunchPcs
      BY DEF TypeInv, PcType, Procs
    <3>1. CASE QuietMove(p) \/ SetSignal(p) \/ StartThreads(p) \/ NewTestMng(p) \/ NewStatus(p)
      BY <3>1
      DEF QuietMove, Launch, CheckProgRunning, CreateTestFolders, NotifyProgReady, LoopTest,
          Monitor, DeleteStatus, StopHangs, SetSignal, StartThreads, StartThread, NewTestMng,
          NewStatus,
          CreateSem, Goto, LaunchPcs, DaemonPcs, InitPcs, LoopPcs, DeletePcs, EndPcs
    <3>2. CASE Arm(p) \/ CheckDps(p) \/ StopThreads(p) \/ DeleteTestMng(p) \/ Ends(p)
      BY <3>2
      DEF Arm, CheckDps, StopThreads, StopThread, DeleteTestMng, Ends, End, Goto, LaunchPcs,
          DaemonPcs, InitPcs, LoopPcs, DeletePcs, EndPcs
    <3>3. CASE ProcSignalStop(p) \/ HandlerMove(p) \/ TestMove(p)
      BY <3>0, <3>3
      DEF ProcSignalStop, HandlerMove, TestMove, Goto, LaunchPcs, DaemonPcs, LoopPcs
    <3>4. QED
      BY <1>1, <3>1, <3>2, <3>3, LaunchMoves
  <2>2. QED
    BY <2>1, WritersAssumption DEF TypeInv, PcType, Procs
<1>2. ASSUME NEW w \in Writers, WriterMove(w)
      PROVE  PcType'
  <2>1. \E where \in WriterPcs : pc' = [pc EXCEPT ![w] = where]
    BY <1>2
    DEF WriterMove, StartWriter, WriterStep, OpenSem, WriteDps, KillWriter, CreateSem, Goto,
        WriterPcs
  <2>2. QED
    BY <2>1, WritersAssumption DEF TypeInv, PcType, Procs
<1>3. CASE UNCHANGED vars
  BY <1>3 DEF vars, TypeInv, PcType
<1>4. QED
  BY <1>1, <1>2, <1>3 DEF Next, LaunchMove, WriterMove

LEMMA SemStep == TypeInv /\ [Next]_vars => SemType'
<1> SUFFICES ASSUME TypeInv, [Next]_vars
             PROVE  SemType'
  OBVIOUS
<1>0. SemType
  BY DEF TypeInv
<1>1. ASSUME NEW p \in Launches, LaunchMove(p)
      PROVE  SemType'
  <2>0. p \in Procs
    BY DEF Procs
  <2>1. CASE UNCHANGED semvars
    BY <1>0, <2>1 DEF semvars, SemType
  <2>2. CASE NewStatus(p) \/ CheckDps(p)
    BY <1>0, <2>0, <2>1, <2>2, SemTypes DEF NewStatus, CheckDps
  <2>3. CASE Ends(p)
    BY <1>0, <2>0, <2>3, SemTypes DEF Ends, End
  <2>4. CASE ProcSignalStop(p)
    BY <1>0, <2>4 DEF ProcSignalStop, SemType
  <2>5. CASE \/ QuietMove(p) \/ SetSignal(p) \/ StartThreads(p) \/ NewTestMng(p) \/ Arm(p)
             \/ StopThreads(p) \/ DeleteTestMng(p) \/ HandlerMove(p) \/ TestMove(p)
    <3>1. UNCHANGED semvars
      BY <2>5
      DEF QuietMove, Launch, CheckProgRunning, CreateTestFolders, NotifyProgReady, LoopTest,
          Monitor, DeleteStatus, StopHangs, SetSignal, StartThreads, StartThread, NewTestMng, Arm,
          StopThreads, StopThread, DeleteTestMng, HandlerMove, TestMove
    <3>2. QED
      BY <2>1, <3>1
  <2>6. QED
    BY <1>1, <2>2, <2>3, <2>4, <2>5, LaunchMoves
<1>2. ASSUME NEW w \in Writers, WriterMove(w)
      PROVE  SemType'
  <2>1. w \in Procs
    BY DEF Procs
  <2>2. CASE UNCHANGED semvars
    BY <1>0, <2>2 DEF semvars, SemType
  <2>3. QED
    BY <1>0, <1>2, <2>1, <2>2, SemTypes
    DEF WriterMove, StartWriter, WriterStep, OpenSem, WriteDps, KillWriter
<1>3. CASE UNCHANGED vars
  BY <1>0, <1>3 DEF vars, semvars, SemType
<1>4. QED
  BY <1>1, <1>2, <1>3 DEF Next, LaunchMove, WriterMove

LEMMA DataStep == TypeInv /\ [Next]_vars => DataType'
<1> SUFFICES ASSUME TypeInv, [Next]_vars
             PROVE  DataType'
  OBVIOUS
<1>0. DataType
  BY DEF TypeInv
<1>1. ASSUME NEW p \in Launches, LaunchMove(p)
      PROVE  DataType'
  <2>1. CASE QuietMove(p)
    BY <1>0, <2>1
    DEF QuietMove, Launch, CheckProgRunning, CreateTestFolders, NotifyProgReady, LoopTest,
        Monitor, DeleteStatus, StopHangs, DataType, mainvars, threadvars, dpsvars
  <2>2. CASE SetSignal(p) \/ Arm(p) \/ NewStatus(p) \/ ProcSignalStop(p)
    BY <1>0, <2>2
    DEF SetSignal, Arm, NewStatus, ProcSignalStop, DataType, mainvars, threadvars, dpsvars
  <2>3. CASE StartThreads(p) \/ StopThreads(p)
    BY <1>0, <2>3, SMTT(30)
    DEF StartThreads, StopThreads, StartThread, StopThread, DataType, mainvars, threadvars,
        dpsvars, Handlers
  <2>4. CASE NewTestMng(p) \/ DeleteTestMng(p)
    <3>1. UNCHANGED <<handled, g_condTestDm, running, at, test, shm, statDps>>
      BY <2>4 DEF NewTestMng, DeleteTestMng, mainvars, threadvars, dpsvars
    <3>2. PICK i \in Ports : \E s \in {"live", "freed"} :
                               g_pTestMng' = [g_pTestMng EXCEPT ![p][i] = s]
      BY <2>4 DEF NewTestMng, DeleteTestMng
    <3>3. g_pTestMng' \in [Launches -> [Ports -> {"null", "live", "freed"}]]
      BY <1>0, <3>2 DEF DataType
    <3>4. QED
      BY <1>0, <3>1, <3>3 DEF DataType
  <2>5. CASE CheckDps(p)
    <3>1. /\ UNCHANGED <<handled, g_condTestDm, running, at, test, g_pTestMng, shm>>
          /\ \/ statDps' = statDps
             \/ statDps' = [statDps EXCEPT ![p][1] = shm[1]]
             \/ statDps' = [statDps EXCEPT ![p][2] = shm[2]]
      BY <2>5 DEF CheckDps, mainvars, threadvars
    <3>2. statDps' \in [Launches -> Values \X Values]
      <4>1. statDps[p] \in Values \X Values /\ shm[1] \in Values /\ shm[2] \in Values
        BY <1>0 DEF DataType
      <4>2. /\ [statDps[p] EXCEPT ![1] = shm[1]] \in Values \X Values
            /\ [statDps[p] EXCEPT ![2] = shm[2]] \in Values \X Values
        BY <4>1
      <4>3. QED
        BY <1>0, <3>1, <4>2 DEF DataType
    <3>3. QED
      BY <1>0, <3>1, <3>2 DEF DataType
  <2>6. CASE HandlerMove(p)
    <3>1. UNCHANGED <<handled, g_condTestDm, running, g_pTestMng, shm, statDps>>
      BY <2>6 DEF HandlerMove, mainvars, dpsvars
    <3>2. /\ at' \in [Launches -> [Handlers -> 0..PortCnt]]
          /\ test' \in [Launches -> SUBSET Ports]
      <4>1. PICK h \in Handlers :
              /\ \E i \in 0..PortCnt : at' = [at EXCEPT ![p][h] = i]
              /\ \/ test' = test
                 \/ /\ at[p][h] # 0
                    /\ test' = [test EXCEPT ![p] = @ \cup {at[p][h]}]
        BY <2>6, PortAssumption DEF HandlerMove, Ports
      <4>2. at[p][h] \in 0..PortCnt
        BY <1>0 DEF DataType
      <4>3. at' \in [Launches -> [Handlers -> 0..PortCnt]]
        BY <1>0, <4>1 DEF DataType
      <4>4. test' \in [Launches -> SUBSET Ports]
        <5>1. CASE test' = test
          BY <1>0, <5>1 DEF DataType
        <5>2. CASE at[p][h] # 0 /\ test' = [test EXCEPT ![p] = @ \cup {at[p][h]}]
          <6>1. at[p][h] \in Ports
            BY <4>2, <5>2, PortAssumption DEF Ports
          <6>2. test[p] \cup {at[p][h]} \in SUBSET Ports
            BY <1>0, <6>1 DEF DataType
          <6>3. QED
            BY <1>0, <5>2, <6>2 DEF DataType
        <5>3. QED
          BY <4>1, <5>1, <5>2
      <4>5. QED
        BY <4>3, <4>4
    <3>3. QED
      BY <1>0, <3>1, <3>2 DEF DataType
  <2>7. CASE TestMove(p)
    BY <1>0, <2>7 DEF TestMove, DataType, mainvars, dpsvars
  <2>8. CASE Ends(p)
    <3>1. <<0, 0>> \in Values \X Values /\ 0 \in 0..PortCnt
      BY ValuesAssumption, PortAssumption
    <3>2. QED
      BY <1>0, <2>8, <3>1 DEF Ends, End, DataType
  <2>9. QED
    BY <1>1, <2>1, <2>2, <2>3, <2>4, <2>5, <2>6, <2>7, <2>8, LaunchMoves
<1>2. ASSUME NEW w \in Writers, WriterMove(w)
      PROVE  DataType'
  <2>1. /\ UNCHANGED <<handled, g_condTestDm, running, at, test, g_pTestMng, statDps>>
        /\ \/ shm' = shm
           \/ \E v \in Values : shm' = [shm EXCEPT ![1] = v]
           \/ shm' = [shm EXCEPT ![2] = shm[1]]
    BY <1>2
    DEF WriterMove, StartWriter, WriterStep, OpenSem, WriteDps, KillWriter, mainvars,
        threadvars, dpsvars
  <2>2. shm' \in Values \X Values
    BY <1>0, <2>1 DEF DataType
  <2>3. QED
    BY <1>0, <2>1, <2>2 DEF DataType
<1>3. CASE UNCHANGED vars
  BY <1>0, <1>3 DEF vars, mainvars, threadvars, dpsvars, DataType
<1>4. QED
  BY <1>1, <1>2, <1>3 DEF Next, LaunchMove, WriterMove

(* A launch that is past a point of main stays so until it ends. *)
LEMMA LiveStep == TypeInv /\ [Next]_vars => ThreadsLive'
<1> SUFFICES ASSUME TypeInv, [Next]_vars
             PROVE  ThreadsLive'
  OBVIOUS
<1>0. ThreadsLive /\ DataType /\ PcType
  BY DEF TypeInv
<1>1. ASSUME NEW p \in Launches, LaunchMove(p)
      PROVE  ThreadsLive'
  <2> SUFFICES ASSUME NEW q \in Launches
               PROVE  /\ running'[q] # {} \/ test'[q] # {} => pc'[q] \in PastPcs
                      /\ \A h \in Handlers : at'[q][h] # 0 => h \in running'[q]
    BY DEF ThreadsLive
  <2>1. CASE q # p
    <3>1. pc'[q] = pc[q] /\ running'[q] = running[q] /\ test'[q] = test[q] /\ at'[q] = at[q]
      <4>1. CASE QuietMove(p) \/ SetSignal(p) \/ Arm(p) \/ NewStatus(p) \/ ProcSignalStop(p)
        BY <1>0, <2>1, <4>1
        DEF QuietMove, Launch, CheckProgRunning, CreateTestFolders, NotifyProgReady, LoopTest,
            Monitor, DeleteStatus, StopHangs, SetSignal, Arm, NewStatus, CreateSem, ProcSignalStop,
            Goto,
            threadvars, PcType, Procs
      <4>2. CASE \/ StartThreads(p) \/ StopThreads(p) \/ NewTestMng(p) \/ DeleteTestMng(p)
                 \/ CheckDps(p)
        BY <1>0, <2>1, <4>2
        DEF StartThreads, StopThreads, StartThread, StopThread, NewTestMng, DeleteTestMng,
            CheckDps, Goto, threadvars, PcType, DataType, Procs
      <4>3. CASE HandlerMove(p) \/ TestMove(p) \/ Ends(p)
        BY <1>0, <2>1, <4>3
        DEF HandlerMove, TestMove, Ends, End, Goto, PcType, DataType, Procs
      <4>4. QED
        BY <1>1, <4>1, <4>2, <4>3, LaunchMoves
    <3>2. QED
      BY <1>0, <3>1 DEF ThreadsLive
  <2>2. CASE q = p
    <3>0. p \in Procs
      BY DEF Procs
    <3>1. CASE QuietMove(p) \/ SetSignal(p) \/ Arm(p) \/ NewStatus(p) \/ ProcSignalStop(p)
      BY <1>0, <2>2, <3>0, <3>1
      DEF QuietMove, Launch, CheckProgRunning, CreateTestFolders, NotifyProgReady, LoopTest,
          Monitor, DeleteStatus, StopHangs, SetSignal, Arm, NewStatus, CreateSem, ProcSignalStop,
          Goto,
          threadvars, PcType, ThreadsLive, PastPcs, DaemonPcs, InitPcs, LoopPcs, DeletePcs
    <3>2. CASE NewTestMng(p) \/ DeleteTestMng(p) \/ CheckDps(p)
      BY <1>0, <2>2, <3>0, <3>2
      DEF NewTestMng, DeleteTestMng, CheckDps, Goto, threadvars, PcType, ThreadsLive, PastPcs,
          DaemonPcs, InitPcs, LoopPcs, DeletePcs
    <3>3. CASE StartThreads(p) \/ StopThreads(p)
      BY <1>0, <2>2, <3>0, <3>3
      DEF StartThreads, StopThreads, StartThread, StopThread, Goto, PcType, DataType,
          ThreadsLive, PastPcs, DaemonPcs, InitPcs, LoopPcs, DeletePcs
    <3>4. CASE HandlerMove(p) \/ TestMove(p)
      BY <1>0, <2>2, <3>0, <3>4 DEF HandlerMove, TestMove, DataType, ThreadsLive
    <3>5. CASE Ends(p)
      BY <1>0, <2>2, <3>0, <3>5 DEF Ends, End, DataType
    <3>6. QED
      BY <1>1, <3>1, <3>2, <3>3, <3>4, <3>5, LaunchMoves
  <2>3. QED
    BY <2>1, <2>2
<1>2. ASSUME NEW w \in Writers, WriterMove(w)
      PROVE  ThreadsLive'
  <2>1. /\ UNCHANGED threadvars
        /\ \A p \in Launches : pc'[p] = pc[p]
    BY <1>0, <1>2, WritersAssumption
    DEF WriterMove, StartWriter, WriterStep, OpenSem, WriteDps, KillWriter, CreateSem, Goto,
        PcType, Procs
  <2>2. QED
    BY <1>0, <2>1 DEF threadvars, ThreadsLive
<1>3. CASE UNCHANGED vars
  BY <1>0, <1>3 DEF vars, threadvars, ThreadsLive
<1>4. QED
  BY <1>1, <1>2, <1>3 DEF Next, LaunchMove, WriterMove

LEMMA TypeStep == TypeInv /\ [Next]_vars => TypeInv'
BY PcStep, SemStep, DataStep, LiveStep DEF TypeInv

(* Every variable keeps a value of its C++ type, and threads run only in a *)
(* launch that has started them and has not ended.                         *)
THEOREM TypeCorrect == Spec => []TypeOK
<1>1. Init => TypeInv
  BY TypeInit
<1>2. TypeInv /\ [Next]_vars => TypeInv'
  BY TypeStep
<1>3. QED
  BY <1>1, <1>2, TypeInvGives, PTL DEF Spec

-----------------------------------------------------------------------------
LEMMA CountType ==
  ASSUME NEW p
  PROVE  IsFiniteSet(Alive) /\ CountProgs(p) \in Int
<1>1. IsFiniteSet(Alive)
  BY LaunchesAssumption, FS_Subset DEF Alive
<1>2. Cardinality(Alive) \in Nat
  BY <1>1, FS_CardinalityType
<1>3. QED
  BY <1>1, <1>2 DEF CountProgs

LEMMA AloneWhenCounted ==
  ASSUME NEW p \in Alive, CountProgs(p) <= 1, p \notin Uncounted
  PROVE  Alive = {p}
<1>1. IsFiniteSet(Alive)
  BY CountType
<1>2. IsFiniteSet({p}) /\ Cardinality({p}) = 1
  BY FS_Singleton
<1>3. Cardinality(Alive) \in Nat /\ Cardinality(Alive) <= 1
  BY <1>1, FS_CardinalityType DEF CountProgs
<1>4. {p} \subseteq Alive
  OBVIOUS
<1>5. Cardinality({p}) <= Cardinality(Alive)
  BY <1>1, <1>4, FS_Subset
<1>6. Cardinality({p}) = Cardinality(Alive)
  BY <1>2, <1>3, <1>5
<1>7. QED
  BY <1>1, <1>4, <1>6, FS_Subset

(* The only step that makes a daemon of a launch is its count. *)
LEMMA NewDaemon ==
  ASSUME TypeInv, [Next]_vars, NEW p \in Launches, p \in Daemons', p \notin Daemons
  PROVE  CheckProgRunning(p) /\ CountProgs(p) <= 1
<1>0. PcType /\ p \in Procs /\ pc[p] \notin DaemonPcs /\ pc'[p] \in DaemonPcs
  BY DEF TypeInv, Daemons, Procs
<1>1. ASSUME NEW q \in Launches, LaunchMove(q)
      PROVE  QuietMove(q) /\ q = p
  <2>1. CASE QuietMove(q) \/ SetSignal(q) \/ StartThreads(q) \/ NewTestMng(q) \/ NewStatus(q)
    BY <1>0, <2>1
    DEF QuietMove, Launch, CheckProgRunning, CreateTestFolders, NotifyProgReady, LoopTest,
        Monitor, DeleteStatus, StopHangs, SetSignal, StartThreads, StartThread, NewTestMng,
        NewStatus,
        CreateSem, Goto, PcType, DaemonPcs, InitPcs, LoopPcs, DeletePcs
  <2>2. CASE Arm(q) \/ CheckDps(q) \/ StopThreads(q) \/ DeleteTestMng(q) \/ Ends(q)
    BY <1>0, <2>2
    DEF Arm, CheckDps, StopThreads, StopThread, DeleteTestMng, Ends, End, Goto, PcType,
        DaemonPcs, InitPcs, LoopPcs, DeletePcs, EndPcs
  <2>3. CASE ProcSignalStop(q) \/ HandlerMove(q) \/ TestMove(q)
    BY <1>0, <2>3
    DEF ProcSignalStop, HandlerMove, TestMove, Goto, PcType, DaemonPcs, InitPcs, LoopPcs,
        DeletePcs
  <2>4. QED
    BY <1>1, <2>1, <2>2, <2>3, LaunchMoves
<1>2. ASSUME NEW w \in Writers, WriterMove(w)
      PROVE  pc'[p] = pc[p]
  BY <1>0, <1>2, WritersAssumption
  DEF WriterMove, StartWriter, WriterStep, OpenSem, WriteDps, KillWriter, CreateSem, Goto,
      PcType, Procs
<1>3. QuietMove(p)
  BY <1>0, <1>1, <1>2 DEF Next, LaunchMove, WriterMove, vars
<1>4. CountProgs(p) \in Int
  BY CountType
<1>5. QED
  BY <1>0, <1>3, <1>4
  DEF QuietMove, Launch, CheckProgRunning, CreateTestFolders, NotifyProgReady, LoopTest,
      Monitor, DeleteStatus, StopHangs, Goto, PcType, DaemonPcs, InitPcs, LoopPcs, DeletePcs

(* testdm.cpp:30: however many launches overlap, at most one that could    *)
(* count becomes a daemon: from its first step to its count a launch is    *)
(* there for the others to see, and it goes on only when it is alone.      *)
THEOREM AtMostOneDaemon == Spec => []OneDaemon
<1>1. Init => TypeInv /\ OneDaemon
  <2>1. Init => OneDaemon
    BY DEF Init, OneDaemon, Daemons, DaemonPcs, InitPcs, LoopPcs, DeletePcs, Procs
  <2>2. QED
    BY <2>1, TypeInit
<1>2. (TypeInv /\ OneDaemon) /\ [Next]_vars => (TypeInv /\ OneDaemon)'
  <2> SUFFICES ASSUME TypeInv, OneDaemon, [Next]_vars,
                      NEW p \in Daemons' \ Uncounted, NEW q \in Daemons' \ Uncounted
               PROVE  p = q
    BY TypeStep DEF OneDaemon
  <2>0. p \in Launches /\ q \in Launches
    BY DEF Daemons
  <2>1. CASE p \in Daemons /\ q \in Daemons
    BY <2>1 DEF OneDaemon
  <2>2. ASSUME NEW x \in {p, q}, NEW y \in {p, q}, x \notin Daemons
        PROVE  x = y
    <3>1. CheckProgRunning(x) /\ CountProgs(x) <= 1
      BY <2>0, <2>2, NewDaemon
    <3>2. x \in Alive
      BY <2>0, <3>1 DEF CheckProgRunning, Alive, EndPcs
    <3>3. Alive = {x}
      BY <3>1, <3>2, AloneWhenCounted
    <3>4. CASE y \in Daemons
      BY <3>3, <3>4 DEF Daemons, Alive, DaemonPcs, InitPcs, LoopPcs, DeletePcs, EndPcs
    <3>5. CASE y \notin Daemons
      <4>1. CheckProgRunning(y)
        BY <2>0, <3>5, NewDaemon
      <4>2. y \in Alive
        BY <2>0, <4>1 DEF CheckProgRunning, Alive, EndPcs
      <4>3. QED
        BY <3>3, <4>2
    <3>6. QED
      BY <3>4, <3>5
  <2>3. QED
    BY <2>1, <2>2
<1>3. QED
  BY <1>1, <1>2, PTL DEF Spec

-----------------------------------------------------------------------------
(* MngMissingOnlyAtEnds: between the last CTestMng made and the first deleted   *)
(* all of them are there, and before the first is deleted the two threads  *)
(* that can be stopped are.                                                *)
AllLivePcs == {"sem", "setval", "ready", "arm"} \cup LoopPcs
                \cup {"del_status", "del_bridge", "del_client", "hung"}
MngInv ==
  \A p \in Launches :
    /\ pc[p] \in AllLivePcs => \A i \in Ports : g_pTestMng[p][i] = "live"
    /\ pc[p] \in {"del_client", "del_mng", "exit"} => "bridge" \notin running[p]
    /\ pc[p] \in {"del_mng", "exit"} => "client" \notin running[p]

LEMMA MngStep == TypeInv /\ MngInv /\ [Next]_vars => MngInv'
<1> SUFFICES ASSUME TypeInv, MngInv, [Next]_vars, NEW q \in Launches
             PROVE  /\ pc'[q] \in AllLivePcs => \A i \in Ports : g_pTestMng'[q][i] = "live"
                    /\ pc'[q] \in {"del_client", "del_mng", "exit"} => "bridge" \notin running'[q]
                    /\ pc'[q] \in {"del_mng", "exit"} => "client" \notin running'[q]
  BY DEF MngInv
<1> DEFINE Goal == /\ pc'[q] \in AllLivePcs => \A i \in Ports : g_pTestMng'[q][i] = "live"
                   /\ pc'[q] \in {"del_client", "del_mng", "exit"} => "bridge" \notin running'[q]
                   /\ pc'[q] \in {"del_mng", "exit"} => "client" \notin running'[q]
<1>0. PcType /\ DataType /\ q \in Procs
  BY DEF TypeInv, Procs
<1>1. ASSUME pc'[q] = pc[q], running'[q] = running[q], g_pTestMng'[q] = g_pTestMng[q]
      PROVE  Goal
  BY <1>1 DEF MngInv
<1>2. ASSUME NEW p \in Launches, LaunchMove(p)
      PROVE  Goal
  <2>1. CASE q # p
    <3>1. pc'[q] = pc[q] /\ running'[q] = running[q] /\ g_pTestMng'[q] = g_pTestMng[q]
      <4>1. CASE QuietMove(p) \/ SetSignal(p) \/ Arm(p) \/ NewStatus(p) \/ ProcSignalStop(p)
        BY <1>0, <2>1, <4>1
        DEF QuietMove, Launch, CheckProgRunning, CreateTestFolders, NotifyProgReady, LoopTest,
            Monitor, DeleteStatus, StopHangs, SetSignal, Arm, NewStatus, CreateSem, ProcSignalStop,
            Goto,
            threadvars, PcType
      <4>2. CASE \/ StartThreads(p) \/ StopThreads(p) \/ NewTestMng(p) \/ DeleteTestMng(p)
                 \/ CheckDps(p)
        BY <1>0, <2>1, <4>2
        DEF StartThreads, StopThreads, StartThread, StopThread, NewTestMng, DeleteTestMng,
            CheckDps, Goto, threadvars, PcType, DataType
      <4>3. CASE HandlerMove(p) \/ TestMove(p) \/ Ends(p)
        BY <1>0, <2>1, <4>3
        DEF HandlerMove, TestMove, Ends, End, Goto, PcType, DataType
      <4>4. QED
        BY <1>2, <4>1, <4>2, <4>3, LaunchMoves
    <3>2. QED
      BY <1>1, <3>1
  <2>2. CASE q = p
    <3>1. CASE QuietMove(p) \/ SetSignal(p) \/ Arm(p) \/ NewStatus(p) \/ ProcSignalStop(p)
      BY <1>0, <2>2, <3>1
      DEF QuietMove, Launch, CheckProgRunning, CreateTestFolders, NotifyProgReady, LoopTest,
          Monitor, DeleteStatus, StopHangs, SetSignal, Arm, NewStatus, CreateSem, ProcSignalStop,
          Goto,
          threadvars, PcType, MngInv, AllLivePcs, LoopPcs
    <3>2. CASE CheckDps(p)
      BY <1>0, <2>2, <3>2
      DEF CheckDps, Goto, threadvars, PcType, MngInv, AllLivePcs, LoopPcs
    <3>3. CASE NewTestMng(p)
      <4>1. PICK i \in Ports :
              /\ \A j \in 1..(i - 1) : g_pTestMng[p][j] = "live"
              /\ g_pTestMng' = [g_pTestMng EXCEPT ![p][i] = "live"]
              /\ pc' = [pc EXCEPT ![p] = IF i = PortCnt THEN "sem" ELSE "mng"]
        BY <3>3 DEF NewTestMng, Goto
      <4>2. CASE i = PortCnt
        <5>1. \A j \in Ports : g_pTestMng'[p][j] = "live"
          BY <1>0, <2>2, <4>1, <4>2, PortAssumption DEF DataType, Ports
        <5>2. pc'[q] = "sem"
          BY <1>0, <2>2, <4>1, <4>2 DEF PcType
        <5>3. QED
          BY <2>2, <5>1, <5>2
      <4>3. CASE i # PortCnt
        BY <1>0, <2>2, <4>1, <4>3 DEF PcType, AllLivePcs, LoopPcs
      <4>4. QED
        BY <4>2, <4>3
    <3>4. CASE DeleteTestMng(p)
      BY <1>0, <2>2, <3>4
      DEF DeleteTestMng, Goto, threadvars, PcType, MngInv, AllLivePcs, LoopPcs
    <3>5. CASE StartThreads(p) \/ StopThreads(p)
      BY <1>0, <2>2, <3>5
      DEF StartThreads, StopThreads, StartThread, StopThread, Goto, PcType, DataType, MngInv,
          AllLivePcs, LoopPcs
    <3>6. CASE HandlerMove(p) \/ TestMove(p)
      BY <1>1, <3>6 DEF HandlerMove, TestMove
    <3>7. CASE Ends(p)
      BY <1>0, <2>2, <3>7 DEF Ends, End, Goto, PcType, EndPcs, AllLivePcs, LoopPcs
    <3>8. QED
      BY <1>2, <3>1, <3>2, <3>3, <3>4, <3>5, <3>6, <3>7, LaunchMoves
  <2>3. QED
    BY <2>1, <2>2
<1>3. ASSUME NEW w \in Writers, WriterMove(w)
      PROVE  Goal
  <2>1. pc'[q] = pc[q] /\ running' = running /\ g_pTestMng' = g_pTestMng
    BY <1>0, <1>3, WritersAssumption
    DEF WriterMove, StartWriter, WriterStep, OpenSem, WriteDps, KillWriter, CreateSem, Goto,
        PcType, threadvars
  <2>2. QED
    BY <1>1, <2>1
<1>4. CASE UNCHANGED vars
  BY <1>1, <1>4 DEF vars, threadvars
<1>5. QED
  BY <1>2, <1>3, <1>4 DEF Next, LaunchMove, WriterMove

(* A launch that ends by a use of something that is not there was touching *)
(* a CTestMng that is not live.                                            *)
LEMMA CrashTouches ==
  ASSUME TypeInv, [Next]_vars, NEW p \in Launches, pc[p] # "segv", pc'[p] = "segv"
  PROVE  /\ running[p] # {} \/ test[p] # {}
         /\ \E i \in Ports : g_pTestMng[p][i] # "live"
<1>0. PcType /\ DataType /\ ThreadsLive /\ p \in Procs
  BY DEF TypeInv, Procs
<1>1. ASSUME NEW q \in Launches, LaunchMove(q)
      PROVE  q = p /\ ThreadStep(p)
  <2>1. CASE QuietMove(q) \/ SetSignal(q) \/ StartThreads(q) \/ NewTestMng(q) \/ NewStatus(q)
    BY <1>0, <2>1
    DEF QuietMove, Launch, CheckProgRunning, CreateTestFolders, NotifyProgReady, LoopTest,
        Monitor, DeleteStatus, StopHangs, SetSignal, StartThreads, StartThread, NewTestMng,
        NewStatus,
        CreateSem, Goto, PcType
  <2>2. CASE Arm(q) \/ CheckDps(q) \/ StopThreads(q) \/ DeleteTestMng(q) \/ ProcSignalStop(q)
    BY <1>0, <2>2
    DEF Arm, CheckDps, StopThreads, StopThread, DeleteTestMng, ProcSignalStop, Goto, PcType
  <2>3. CASE Killed(q) \/ DefaultSignal(q) \/ Exit(q)
    BY <1>0, <2>3 DEF Killed, DefaultSignal, Exit, End, Goto, PcType
  <2>4. CASE ThreadStep(q)
    <3>1. q = p
      BY <1>0, <2>4
      DEF ThreadStep, HandleBegin, HandleEnd, HandleInit, StopKillsGroup, DetachesNone, TestEnd,
          Touch, End, Goto, PcType
    <3>2. QED
      BY <2>4, <3>1
  <2>5. QED
    BY <1>1, <2>1, <2>2, <2>3, <2>4
    DEF LaunchMove, MainStep, StartStep, LoopStep, DeleteStep, QuietMove
<1>2. ASSUME NEW w \in Writers, WriterMove(w)
      PROVE  pc'[p] = pc[p]
  BY <1>0, <1>2, WritersAssumption
  DEF WriterMove, StartWriter, WriterStep, OpenSem, WriteDps, KillWriter, CreateSem, Goto,
      PcType
<1>3. ThreadStep(p)
  BY <1>1, <1>2 DEF Next, LaunchMove, WriterMove, vars
<1>4. ASSUME NEW h \in Handlers, NEW i \in Ports, HandleBegin(p, h, i)
      PROVE  running[p] # {} /\ g_pTestMng[p][i] # "live"
  BY <1>4 DEF HandleBegin, Touch
<1>5. ASSUME NEW h \in Handlers, HandleEnd(p, h)
      PROVE  running[p] # {} /\ at[p][h] \in Ports /\ g_pTestMng[p][at[p][h]] # "live"
  <2>1. at[p][h] # 0 /\ at[p][h] \in 0..PortCnt
    BY <1>0, <1>5 DEF HandleEnd, DataType
  <2>2. at[p][h] \in Ports /\ h \in running[p]
    BY <1>0, <2>1, PortAssumption DEF Ports, ThreadsLive
  <2>3. QED
    BY <1>5, <2>2 DEF HandleEnd, Touch
<1>6. ASSUME NEW h \in Handlers, HandleInit(p, h) \/ StopKillsGroup(p, h) \/ DetachesNone(p, h)
      PROVE  FALSE
  BY <1>0, <1>6 DEF HandleInit, StopKillsGroup, DetachesNone, End, Goto, PcType
<1>7. ASSUME NEW i \in Ports, TestEnd(p, i)
      PROVE  test[p] # {} /\ g_pTestMng[p][i] # "live"
  BY <1>7 DEF TestEnd, Touch
<1>8. QED
  BY <1>3, <1>4, <1>5, <1>6, <1>7 DEF ThreadStep

(* testdm.cpp:81, 122: for any number of ports, launches and messages, a   *)
(* handler or a test uses a CTestMng that is not there only while main     *)
(* makes or deletes the CTestMng objects.                                  *)
THEOREM MngThereInBetween == Spec => MngMissingOnlyAtEnds
<1> DEFINE Step ==
      \A p \in Launches : pc[p] # "segv" /\ pc'[p] = "segv" =>
        \/ pc[p] \in {"server", "client", "mng"}
        \/ pc[p] \in {"del_mng", "exit"} /\ running[p] \subseteq {"server"}
<1>1. Init => TypeInv /\ MngInv
  <2>1. Init => MngInv
    BY DEF Init, MngInv, AllLivePcs, LoopPcs, Procs
  <2>2. QED
    BY <2>1, TypeInit
<1>2. (TypeInv /\ MngInv) /\ [Next]_vars => (TypeInv /\ MngInv)'
  BY TypeStep, MngStep
<1>3. TypeInv /\ MngInv /\ [Next]_vars => [Step]_vars
  <2> SUFFICES ASSUME TypeInv, MngInv, [Next]_vars, NEW p \in Launches,
                      pc[p] # "segv", pc'[p] = "segv"
               PROVE  \/ pc[p] \in {"server", "client", "mng"}
                      \/ pc[p] \in {"del_mng", "exit"} /\ running[p] \subseteq {"server"}
    OBVIOUS
  <2>1. /\ running[p] # {} \/ test[p] # {}
        /\ \E i \in Ports : g_pTestMng[p][i] # "live"
    BY CrashTouches
  <2>2. pc[p] \in PastPcs /\ pc[p] \notin AllLivePcs
    BY <2>1 DEF TypeInv, ThreadsLive, MngInv
  <2>3. pc[p] \in {"server", "client", "mng", "del_mng", "exit"}
    BY <2>2 DEF PastPcs, AllLivePcs, DaemonPcs, InitPcs, DeletePcs
  <2>4. running[p] \subseteq Handlers
    BY DEF TypeInv, DataType
  <2>5. QED
    BY <2>3, <2>4 DEF MngInv, Handlers
<1>4. QED
  BY <1>1, <1>2, <1>3, PTL DEF Spec, MngMissingOnlyAtEnds

-----------------------------------------------------------------------------
(* The lock of the status.  While nobody goes on without the lock the undo *)
(* count of a process says whether it is in its section, and the semaphore *)
(* is 0 as long as one is, or has made the semaphore and not set it.       *)
Held(x) == InSection(x) \/ pc[x] = "setval"
LockInv ==
  ~unlocked =>
    /\ \A x \in Procs : undo[x] = IF InSection(x) THEN 1 ELSE 0
    /\ \A x, y \in Procs : Held(x) /\ Held(y) => x = y
    /\ \A x \in Procs : Held(x) => sem = 0 /\ x \notin SemDenied
    /\ sem \in {NoSem, 0, 1}

(* A process alone moves, and its move has nothing to do with the lock,    *)
LEMMA LockApart ==
  ASSUME LockInv, ~unlocked, sem' = sem, undo' = undo, NEW x \in Procs,
         \A y \in Procs \ {x} : pc'[y] = pc[y],
         InSection(x)' <=> InSection(x), pc[x] # "setval", pc'[x] # "setval"
  PROVE  LockInv'
<1>1. \A y \in Procs : (InSection(y)' <=> InSection(y)) /\ (Held(y)' <=> Held(y))
  BY DEF Held, InSection
<1>2. QED
  BY <1>1 DEF LockInv

(* or it is one of the calls of the semaphore, or the end of a process.    *)
LEMMA LockCalls ==
  ASSUME TypeInv, LockInv, ~unlocked, NEW x \in Procs,
         \A y \in Procs \ {x} : pc'[y] = pc[y],
         \/ \E made, found : /\ CreateSem(x, made, found) /\ pc[x] = "sem"
                             /\ made = "setval" /\ found \in {"ready", "lock"}
         \/ SetVal /\ pc[x] = "setval" /\ pc'[x] \in {"ready", "lock"}
         \/ LockSem(x) /\ pc[x] = "lock" /\ pc'[x] \in {"read1", "write1"}
         \/ UnlockSem(x) /\ pc[x] = "unlock" /\ pc'[x] \in {"monitor", "lock", "ended"}
         \/ ExitSem(x) /\ pc'[x] \in EndPcs \cup {"torn"}
  PROVE  LockInv'
<1>0. /\ undo \in [Procs -> Int] /\ pc \in [Procs -> LaunchPcs \cup WriterPcs]
      /\ \A y \in Procs : undo[y] = IF InSection(y) THEN 1 ELSE 0
      /\ \A y, z \in Procs : Held(y) /\ Held(z) => y = z
      /\ \A y \in Procs : Held(y) => sem = 0 /\ y \notin SemDenied
      /\ sem \in {-1, 0, 1}
  BY DEF TypeInv, PcType, SemType, LockInv, NoSem
<1>1. \A y \in Procs \ {x} : (InSection(y)' <=> InSection(y)) /\ (Held(y)' <=> Held(y))
  BY DEF Held, InSection
<1> DEFINE Free == \A y \in Procs \ {x} : ~Held(y) /\ ~InSection(y) /\ undo[y] = 0
<1>2. CASE \E made, found : /\ CreateSem(x, made, found) /\ pc[x] = "sem"
                            /\ made = "setval" /\ found \in {"ready", "lock"}
  <2>1. ~InSection(x) /\ ~Held(x) /\ undo' = undo
    BY <1>2 DEF InSection, Held, CreateSem
  <2>2. CASE sem = -1 /\ x \notin SemDenied
    <3>1. sem' = 0 /\ pc'[x] = "setval"
      BY <1>0, <1>2, <2>2 DEF CreateSem, Goto, NoSem
    <3>2. ~InSection(x)' /\ \A y \in Procs : ~Held(y) /\ ~InSection(y)
      BY <1>0, <2>2, <3>1 DEF InSection, Held
    <3>3. QED
      BY <1>0, <1>1, <2>1, <2>2, <3>1, <3>2 DEF LockInv
  <2>3. CASE sem # -1 \/ x \in SemDenied
    <3>1. /\ sem' = sem \/ (sem = -1 /\ sem' = 0)
          /\ pc'[x] \in {"ready", "lock"}
      <4>1. pc' = [pc EXCEPT ![x] = "ready"] \/ pc' = [pc EXCEPT ![x] = "lock"]
        BY <1>2, <2>3 DEF CreateSem, Goto, NoSem
      <4>2. sem' = sem \/ (sem = -1 /\ sem' = 0)
        BY <1>2, <2>3 DEF CreateSem, Goto, NoSem
      <4>3. QED
        BY <1>0, <4>1, <4>2
    <3>2. ~InSection(x)' /\ ~Held(x)'
      BY <3>1 DEF InSection, Held
    <3>3. QED
      BY <1>0, <1>1, <2>1, <3>1, <3>2 DEF LockInv, NoSem
  <2>4. QED
    BY <2>2, <2>3
<1>3. CASE SetVal /\ pc[x] = "setval" /\ pc'[x] \in {"ready", "lock"}
  <2>1. Held(x) /\ ~InSection(x)' /\ ~Held(x)' /\ sem' = 1 /\ undo' = [q \in Procs |-> 0]
    BY <1>3 DEF InSection, Held, SetVal
  <2>2. \A y \in Procs : ~Held(y)' /\ ~InSection(y)'
    BY <1>0, <1>1, <2>1 DEF Held
  <2>3. QED
    BY <2>1, <2>2 DEF LockInv
<1>4. CASE LockSem(x) /\ pc[x] = "lock" /\ pc'[x] \in {"read1", "write1"}
  <2> SUFFICES ASSUME ~unlocked'
               PROVE  LockInv'
    BY DEF LockInv
  <2>1. sem = 1 /\ sem' = 0 /\ undo' = [undo EXCEPT ![x] = @ + 1] /\ x \notin SemDenied
    BY <1>0, <1>4 DEF LockSem
  <2>2. InSection(x)' /\ Held(x)' /\ \A y \in Procs : ~Held(y) /\ ~InSection(y)
    BY <1>0, <1>4, <2>1 DEF InSection, Held
  <2>3. \A y \in Procs : undo'[y] = IF y = x THEN 1 ELSE 0
    BY <1>0, <2>1, <2>2
  <2>4. QED
    BY <1>1, <2>1, <2>2, <2>3 DEF LockInv
<1>5. CASE UnlockSem(x) /\ pc[x] = "unlock" /\ pc'[x] \in {"monitor", "lock", "ended"}
  <2>1. InSection(x) /\ Held(x) /\ x \notin SemDenied /\ ~InSection(x)' /\ ~Held(x)'
    BY <1>0, <1>5 DEF InSection, Held
  <2>2. sem' = 1 /\ \A y \in Procs : undo'[y] = 0 /\ ~Held(y)' /\ ~InSection(y)'
    <3>1. sem = 0 /\ \A y \in Procs \ {x} : ~Held(y) /\ ~InSection(y)
      BY <1>0, <2>1 DEF Held
    <3>2. QED
      BY <1>0, <1>1, <1>5, <2>1, <3>1 DEF UnlockSem
  <2>3. QED
    BY <2>2 DEF LockInv
<1>6. CASE ExitSem(x) /\ pc'[x] \in EndPcs \cup {"torn"}
  <2>1. ~InSection(x)' /\ ~Held(x)' /\ undo' = [undo EXCEPT ![x] = 0]
    BY <1>6 DEF InSection, Held, EndPcs, ExitSem
  <2>2. CASE InSection(x)
    <3>1. sem = 0 /\ undo[x] = 1 /\ \A y \in Procs \ {x} : ~Held(y) /\ ~InSection(y)
      BY <1>0, <2>2 DEF Held
    <3>2. sem' = 1 /\ \A y \in Procs : undo'[y] = 0 /\ ~Held(y)' /\ ~InSection(y)'
      BY <1>0, <1>1, <1>6, <2>1, <3>1 DEF ExitSem
    <3>3. QED
      BY <3>2 DEF LockInv
  <2>3. CASE ~InSection(x)
    <3>1. sem' = sem /\ \A y \in Procs : undo'[y] = undo[y]
      BY <1>0, <1>6, <2>1, <2>3 DEF ExitSem
    <3>2. QED
      BY <1>0, <1>1, <2>1, <2>3, <3>1 DEF LockInv, NoSem
  <2>4. QED
    BY <2>2, <2>3
<1>7. QED
  BY <1>2, <1>3, <1>4, <1>5, <1>6

LEMMA LockStep == TypeInv /\ LockInv /\ [Next]_vars => LockInv'
<1> SUFFICES ASSUME TypeInv, LockInv, [Next]_vars, ~unlocked'
             PROVE  LockInv'
  BY DEF LockInv
<1>0. PcType
  BY DEF TypeInv
<1>1. ASSUME NEW p \in Launches, LaunchMove(p)
      PROVE  LockInv'
  <2>0. /\ p \in Procs /\ pc[p] \in LaunchPcs
    BY <1>0 DEF Procs, PcType
  <2>1. CASE QuietMove(p) \/ SetSignal(p) \/ StartThreads(p) \/ NewTestMng(p) \/ Arm(p)
    <3>1. /\ sem' = sem /\ undo' = undo /\ ~unlocked
          /\ \A y \in Procs \ {p} : pc'[y] = pc[y]
          /\ ~InSection(p) /\ ~InSection(p)' /\ pc[p] # "setval" /\ pc'[p] # "setval"
      BY <1>0, <2>0, <2>1
      DEF QuietMove, Launch, CheckProgRunning, CreateTestFolders, NotifyProgReady, LoopTest,
          Monitor, DeleteStatus, StopHangs, SetSignal, StartThreads, StartThread, NewTestMng, Arm,
          Goto,
          semvars, PcType, InSection
    <3>2. QED
      BY <2>0, <3>1, LockApart
  <2>2. CASE StopThreads(p) \/ DeleteTestMng(p)
    <3>1. /\ sem' = sem /\ undo' = undo /\ ~unlocked
          /\ \A y \in Procs \ {p} : pc'[y] = pc[y]
          /\ ~InSection(p) /\ ~InSection(p)' /\ pc[p] # "setval" /\ pc'[p] # "setval"
      BY <1>0, <2>0, <2>2
      DEF StopThreads, StopThread, DeleteTestMng, Goto, semvars, PcType, InSection
    <3>2. QED
      BY <2>0, <3>1, LockApart
  <2>3. CASE ProcSignalStop(p) \/ HandlerMove(p) \/ TestMove(p)
    <3>1. pc' = pc /\ sem' = sem /\ undo' = undo /\ unlocked' = unlocked
      BY <2>3 DEF ProcSignalStop, HandlerMove, TestMove, semvars
    <3>2. QED
      BY <3>1 DEF LockInv, Held, InSection
  <2>4. CASE NewStatus(p)
    <3>1. /\ ~unlocked /\ \A y \in Procs \ {p} : pc'[y] = pc[y]
          /\ \/ CreateSem(p, "setval", "ready") /\ pc[p] = "sem"
             \/ SetVal /\ pc[p] = "setval" /\ pc'[p] \in {"ready", "lock"}
      BY <1>0, <2>0, <2>4 DEF NewStatus, CreateSem, SetVal, Goto, PcType
    <3>2. QED
      BY <2>0, <3>1, LockCalls
  <2>5. CASE CheckDps(p)
    <3>1. ~unlocked /\ \A y \in Procs \ {p} : pc'[y] = pc[y]
      BY <1>0, <2>0, <2>5 DEF CheckDps, LockSem, UnlockSem, Goto, PcType, semvars
    <3>2. CASE pc[p] \in {"read1", "read2"}
      <4>1. /\ sem' = sem /\ undo' = undo
            /\ InSection(p) /\ InSection(p)' /\ pc'[p] # "setval"
        BY <1>0, <2>0, <2>5, <3>2 DEF CheckDps, Goto, PcType, semvars, InSection
      <4>2. QED
        BY <2>0, <3>1, <3>2, <4>1, LockApart
    <3>3. CASE pc[p] \notin {"read1", "read2"}
      <4>1. \/ LockSem(p) /\ pc[p] = "lock" /\ pc'[p] \in {"read1", "write1"}
            \/ UnlockSem(p) /\ pc[p] = "unlock" /\ pc'[p] \in {"monitor", "lock", "ended"}
        BY <1>0, <2>0, <2>5, <3>3 DEF CheckDps, Goto, PcType
      <4>2. QED
        BY <2>0, <3>1, <4>1, LockCalls
    <3>4. QED
      BY <3>2, <3>3
  <2>6. CASE Ends(p)
    <3>1. /\ ~unlocked /\ \A y \in Procs \ {p} : pc'[y] = pc[y]
          /\ ExitSem(p) /\ pc'[p] \in EndPcs \cup {"torn"}
      BY <1>0, <2>0, <2>6 DEF Ends, End, ExitSem, Goto, PcType
    <3>2. QED
      BY <2>0, <3>1, LockCalls
  <2>7. QED
    BY <1>1, <2>1, <2>2, <2>3, <2>4, <2>5, <2>6, LaunchMoves
<1>2. ASSUME NEW w \in Writers, WriterMove(w)
      PROVE  LockInv'
  <2>0. w \in Procs /\ pc[w] \in WriterPcs
    BY <1>0 DEF Procs, PcType
  <2>1. ~unlocked /\ \A y \in Procs \ {w} : pc'[y] = pc[y]
    BY <1>0, <1>2, <2>0
    DEF WriterMove, StartWriter, WriterStep, OpenSem, WriteDps, KillWriter, CreateSem, SetVal,
        LockSem, UnlockSem, ExitSem, Goto, PcType, semvars
  <2>2. CASE StartWriter(w) \/ (WriteDps(w) /\ pc[w] \in {"write1", "write2"})
    <3>1. /\ sem' = sem /\ undo' = undo /\ (InSection(w)' <=> InSection(w))
          /\ pc[w] # "setval" /\ pc'[w] # "setval"
      BY <1>0, <2>0, <2>2 DEF StartWriter, WriteDps, Goto, PcType, semvars, InSection
    <3>2. QED
      BY <2>0, <2>1, <3>1, LockApart
  <2>3. CASE OpenSem(w)
    <3>1. \/ CreateSem(w, "setval", "lock") /\ pc[w] = "sem"
          \/ SetVal /\ pc[w] = "setval" /\ pc'[w] \in {"ready", "lock"}
      BY <1>0, <2>0, <2>3 DEF OpenSem, Goto, PcType
    <3>2. QED
      BY <2>0, <2>1, <3>1, LockCalls
  <2>4. CASE WriteDps(w) /\ pc[w] \notin {"write1", "write2"}
    <3>1. \/ LockSem(w) /\ pc[w] = "lock" /\ pc'[w] \in {"read1", "write1"}
          \/ UnlockSem(w) /\ pc[w] = "unlock" /\ pc'[w] \in {"monitor", "lock", "ended"}
      BY <1>0, <2>0, <2>4 DEF WriteDps, Goto, PcType
    <3>2. QED
      BY <2>0, <2>1, <3>1, LockCalls
  <2>5. CASE KillWriter(w)
    <3>1. ExitSem(w) /\ pc'[w] \in EndPcs \cup {"torn"}
      BY <1>0, <2>0, <2>5 DEF KillWriter, Goto, PcType, EndPcs
    <3>2. QED
      BY <2>0, <2>1, <3>1, LockCalls
  <2>6. QED
    BY <1>2, <2>2, <2>3, <2>4, <2>5 DEF WriterMove, WriterStep
<1>3. CASE UNCHANGED vars
  BY <1>3 DEF vars, semvars, LockInv, Held, InSection
<1>4. QED
  BY <1>1, <1>2, <1>3 DEF Next, LaunchMove, WriterMove

(* What the lock is for: nobody reads while the two halves differ.         *)
DpsInv ==
  ~unlocked /\ (\A w \in Writers : pc[w] # "torn") =>
    /\ shm[1] = shm[2] \/ \E w \in Writers : pc[w] = "write2"
    /\ \A p \in Launches :
         /\ pc[p] = "read2" => statDps[p][1] = shm[1]
         /\ pc[p] = "unlock" => statDps[p][1] = statDps[p][2]

LEMMA NoReaderBeside ==
  ASSUME TypeInv, LockInv, ~unlocked, NEW p \in Launches, NEW w \in Writers,
         InSection(p)
  PROVE  ~InSection(w)
BY WritersAssumption DEF LockInv, Held, Procs

LEMMA DpsStep == TypeInv /\ LockInv /\ DpsInv /\ [Next]_vars => DpsInv'
<1> SUFFICES ASSUME TypeInv, LockInv, DpsInv, [Next]_vars, ~unlocked',
                    \A w \in Writers : pc'[w] # "torn"
             PROVE  /\ shm'[1] = shm'[2] \/ \E w \in Writers : pc'[w] = "write2"
                    /\ \A p \in Launches :
                         /\ pc'[p] = "read2" => statDps'[p][1] = shm'[1]
                         /\ pc'[p] = "unlock" => statDps'[p][1] = statDps'[p][2]
  BY DEF DpsInv
<1> DEFINE Goal == /\ shm'[1] = shm'[2] \/ \E w \in Writers : pc'[w] = "write2"
                   /\ \A p \in Launches :
                        /\ pc'[p] = "read2" => statDps'[p][1] = shm'[1]
                        /\ pc'[p] = "unlock" => statDps'[p][1] = statDps'[p][2]
<1>0. PcType /\ DataType
  BY DEF TypeInv
<1>1. ASSUME NEW p \in Launches, LaunchMove(p)
      PROVE  Goal
  <2>0. /\ p \in Procs /\ p \notin Writers /\ pc[p] \in LaunchPcs
    BY <1>0, WritersAssumption DEF Procs, PcType
  <2>1. /\ ~unlocked /\ shm' = shm /\ \A y \in Procs \ {p} : pc'[y] = pc[y]
        /\ \A y \in Launches \ {p} : statDps'[y] = statDps[y]
    <3>1. CASE QuietMove(p) \/ SetSignal(p) \/ StartThreads(p) \/ NewTestMng(p) \/ Arm(p)
      BY <1>0, <2>0, <3>1
      DEF QuietMove, Launch, CheckProgRunning, CreateTestFolders, NotifyProgReady, LoopTest,
          Monitor, DeleteStatus, StopHangs, SetSignal, StartThreads, StartThread, NewTestMng, Arm,
          Goto,
          semvars, dpsvars, PcType
    <3>2. CASE StopThreads(p) \/ DeleteTestMng(p) \/ NewStatus(p)
      BY <1>0, <2>0, <3>2
      DEF StopThreads, StopThread, DeleteTestMng, NewStatus, CreateSem, SetVal, Goto, semvars,
          dpsvars, PcType
    <3>3. CASE ProcSignalStop(p) \/ HandlerMove(p) \/ TestMove(p)
      BY <1>0, <2>0, <3>3
      DEF ProcSignalStop, HandlerMove, TestMove, Goto, semvars, dpsvars, PcType
    <3>4. CASE CheckDps(p)
      <4>1. ~unlocked /\ shm' = shm /\ \A y \in Procs \ {p} : pc'[y] = pc[y]
        BY <1>0, <2>0, <3>4 DEF CheckDps, LockSem, UnlockSem, Goto, semvars, PcType
      <4>2. \A y \in Launches \ {p} : statDps'[y] = statDps[y]
        BY <1>0, <3>4 DEF CheckDps, DataType
      <4>3. QED
        BY <4>1, <4>2
    <3>5. CASE Ends(p)
      BY <1>0, <2>0, <3>5 DEF Ends, End, ExitSem, Goto, PcType, DataType
    <3>6. QED
      BY <1>1, <3>1, <3>2, <3>3, <3>4, <3>5, LaunchMoves
  <2>2. \A w \in Writers : pc'[w] = pc[w]
    BY <2>0, <2>1 DEF Procs
  <2>3. /\ shm[1] = shm[2] \/ \E w \in Writers : pc[w] = "write2"
        /\ \A q \in Launches :
             /\ pc[q] = "read2" => statDps[q][1] = shm[1]
             /\ pc[q] = "unlock" => statDps[q][1] = statDps[q][2]
    BY <2>1, <2>2 DEF DpsInv
  <2>4. /\ pc'[p] = "read2" => statDps'[p][1] = shm[1]
        /\ pc'[p] = "unlock" => statDps'[p][1] = statDps'[p][2]
    <3>1. CASE CheckDps(p)
      <4>1. statDps[p] \in Values \X Values
        BY <1>0 DEF DataType
      <4>2. CASE pc[p] = "read1"
        <5>1. statDps' = [statDps EXCEPT ![p][1] = shm[1]] /\ pc'[p] = "read2"
          BY <1>0, <2>0, <3>1, <4>2 DEF CheckDps, Goto, PcType
        <5>2. QED
          BY <1>0, <4>1, <5>1 DEF DataType
      <4>3. CASE pc[p] = "read2"
        <5>1. statDps' = [statDps EXCEPT ![p][2] = shm[2]] /\ pc'[p] = "unlock"
          BY <1>0, <2>0, <3>1, <4>3 DEF CheckDps, Goto, PcType
        <5>2. \A w \in Writers : ~InSection(w)
          BY <2>1, <4>3, NoReaderBeside DEF InSection
        <5>3. shm[1] = shm[2]
          BY <2>3, <5>2 DEF InSection
        <5>4. statDps[p][1] = shm[1]
          BY <2>3, <4>3
        <5>5. QED
          BY <1>0, <4>1, <5>1, <5>3, <5>4 DEF DataType
      <4>4. CASE pc[p] \notin {"read1", "read2"}
        BY <1>0, <2>0, <3>1, <4>4 DEF CheckDps, Goto, PcType
      <4>5. QED
        BY <4>2, <4>3, <4>4
    <3>2. CASE Ends(p)
      BY <1>0, <2>0, <3>2 DEF Ends, End, Goto, PcType, EndPcs
    <3>3. CASE ProcSignalStop(p) \/ HandlerMove(p) \/ TestMove(p)
      BY <2>3, <3>3 DEF ProcSignalStop, HandlerMove, TestMove, dpsvars
    <3>4. CASE QuietMove(p) \/ SetSignal(p) \/ StartThreads(p) \/ NewTestMng(p) \/ Arm(p)
      BY <1>0, <2>0, <3>4
      DEF QuietMove, Launch, CheckProgRunning, CreateTestFolders, NotifyProgReady, LoopTest,
          Monitor, DeleteStatus, StopHangs, SetSignal, StartThreads, StartThread, NewTestMng, Arm,
          Goto,
          PcType
    <3>5. CASE StopThreads(p) \/ DeleteTestMng(p) \/ NewStatus(p)
      BY <1>0, <2>0, <3>5
      DEF StopThreads, StopThread, DeleteTestMng, NewStatus, CreateSem, Goto, PcType
    <3>6. QED
      BY <1>1, <3>1, <3>2, <3>3, <3>4, <3>5, LaunchMoves
  <2>5. QED
    BY <2>1, <2>2, <2>3, <2>4 DEF Procs
<1>2. ASSUME NEW w \in Writers, WriterMove(w)
      PROVE  Goal
  <2>0. /\ w \in Procs /\ w \notin Launches /\ pc[w] \in WriterPcs
    BY <1>0, WritersAssumption DEF Procs, PcType
  <2>1. /\ ~unlocked /\ statDps' = statDps /\ \A y \in Procs \ {w} : pc'[y] = pc[y]
    BY <1>0, <1>2, <2>0
    DEF WriterMove, StartWriter, WriterStep, OpenSem, WriteDps, KillWriter, CreateSem, SetVal,
        LockSem, UnlockSem, ExitSem, Goto, PcType, semvars, dpsvars
  <2>2. /\ \A p \in Launches : pc'[p] = pc[p]
        /\ \A v \in Writers \ {w} : pc'[v] = pc[v]
    BY <2>0, <2>1 DEF Procs
  <2>3. pc[w] # "torn"
    BY <1>0, <1>2, <2>0
    DEF WriterMove, StartWriter, WriterStep, OpenSem, WriteDps, KillWriter
  <2>4. /\ shm[1] = shm[2] \/ \E v \in Writers : pc[v] = "write2"
        /\ \A p \in Launches :
             /\ pc[p] = "read2" => statDps[p][1] = shm[1]
             /\ pc[p] = "unlock" => statDps[p][1] = statDps[p][2]
    BY <2>1, <2>2, <2>3 DEF DpsInv
  <2>5. CASE pc[w] = "write1" /\ WriteDps(w)
    <3>1. pc'[w] = "write2"
      BY <1>0, <2>0, <2>5 DEF WriteDps, Goto, PcType
    <3>2. \A p \in Launches : pc[p] # "read2"
      BY <2>1, <2>5, NoReaderBeside DEF InSection
    <3>3. QED
      BY <2>1, <2>2, <2>4, <3>1, <3>2
  <2>6. CASE pc[w] = "write2" /\ WriteDps(w)
    <3>1. shm \in Values \X Values /\ shm' = [shm EXCEPT ![2] = shm[1]]
      BY <1>0, <2>6 DEF WriteDps, DataType
    <3>2. shm'[1] = shm[1] /\ shm'[2] = shm[1]
      BY <3>1
    <3>3. QED
      BY <2>1, <2>2, <2>4, <3>2
  <2>7. CASE ~(pc[w] \in {"write1", "write2"} /\ WriteDps(w))
    <3>1. shm' = shm /\ (pc[w] = "write2" => pc'[w] = "torn")
      BY <1>0, <1>2, <2>0, <2>7
      DEF WriterMove, StartWriter, WriterStep, OpenSem, WriteDps, KillWriter, Goto, PcType,
          dpsvars
    <3>2. QED
      BY <2>1, <2>2, <2>4, <3>1
  <2>8. QED
    BY <2>5, <2>6, <2>7
<1>3. CASE UNCHANGED vars
  BY <1>3 DEF vars, semvars, dpsvars, DpsInv
<1>4. QED
  BY <1>1, <1>2, <1>3 DEF Next, LaunchMove, WriterMove

(* base.cpp:142, status.cpp:132: any number of launches and writers, made  *)
(* and killed at any moment, share the semaphore without a half-written    *)
(* status being copied, until a writer dies in it or a process goes on     *)
(* without the lock.                                                       *)
THEOREM DpsNeverTorn == Spec => []DpsReadWhole
<1>1. Init => TypeInv /\ LockInv /\ DpsInv
  <2> SUFFICES ASSUME Init
               PROVE  TypeInv /\ LockInv /\ DpsInv
    OBVIOUS
  <2>1. LockInv
    BY DEF Init, LockInv, Held, InSection
  <2>2. DpsInv
    BY DEF Init, DpsInv, Procs
  <2>3. QED
    BY <2>1, <2>2, TypeInit
<1>2. (TypeInv /\ LockInv /\ DpsInv) /\ [Next]_vars => (TypeInv /\ LockInv /\ DpsInv)'
  BY TypeStep, LockStep, DpsStep
<1>3. DpsInv => DpsReadWhole
  BY DEF DpsInv, DpsReadWhole
<1>4. QED
  BY <1>1, <1>2, <1>3, PTL DEF Spec

(* At most one process is between LockSem and UnlockSem. *)
THEOREM DpsLockExcludes == Spec => []DpsExclusive
<1>1. Init => TypeInv /\ LockInv
  BY TypeInit DEF Init, LockInv, Held, InSection
<1>2. (TypeInv /\ LockInv) /\ [Next]_vars => (TypeInv /\ LockInv)'
  BY TypeStep, LockStep
<1>3. LockInv => DpsExclusive
  BY DEF LockInv, DpsExclusive, Held
<1>4. QED
  BY <1>1, <1>2, <1>3, PTL DEF Spec

=============================================================================
