------------------------- MODULE ScriptBuild_proofs -------------------------
(***************************************************************************)
(* What holds of ScriptBuild for any jobs, scripts and requests.           *)
(***************************************************************************)
EXTENDS ScriptBuild, TLAPS

(* The paths of a request are paths, and the script it asks for is among   *)
(* what is copied for it.                                                  *)
LEMMA RequestPaths ==
  ASSUME NEW r \in Requests
  PROVE  /\ ProcFile(r) \in Paths /\ RunFile(r) \in Paths
         /\ Copied(r) \subseteq Paths
         /\ ProcFile(r) \in Copied(r)
         /\ ProcFile(r)[2] = r.name /\ r.name \in Names
         /\ WorkPath(r) = "exec" <=> ProcFile(r)[1] \in {"exec", "work"}
         /\ WorkPath(r) = "exec" => Copied(r) = {ProcFile(r)}
         /\ WorkPath(r) # "exec" => \A p \in Copied(r) : p[1] \notin {"exec", "work"}
<1>1. /\ r.way \in Ways /\ r.port \in {1, 2} /\ r.name \in Names
      /\ WorkPath(r) \in {"port1", "port2", "exec"}
      /\ r.way = "hand" => WorkPath(r) = "exec"
  BY RequestsAssumption DEF Ways, Ports, WorkPath, PortFolder
<1>2. QED
  BY <1>1 DEF ProcFile, RunFile, Copied, Paths, Folders

LEMMA RequestSlot ==
  ASSUME TypeOK, NEW j \in Jobs
  PROVE  /\ req[j].port \in Ports /\ req[j].version \in TestVersions
         /\ Slot(j) \in Slots /\ TakenSlot(j) \in Slots
         /\ Found(j) \in Jobs \cup {NoJob}
<1>1. /\ req[j].port \in Ports /\ req[j].version \in TestVersions
      /\ taken[j] \in TestVersions
  BY RequestsAssumption DEF TypeOK
<1>2. Slot(j) \in Slots /\ TakenSlot(j) \in Slots
  BY <1>1 DEF Slot, TakenSlot, Slots
<1>3. Found(j) \in Jobs \cup {NoJob}
  BY DEF Found, TypeOK
<1>4. QED
  BY <1>1, <1>2, <1>3

-----------------------------------------------------------------------------
(* The disjuncts of Next, for a job and for the share. *)
JobStep(j) ==
  \/ Begin(j) \/ Reject(j) \/ Copy(j) \/ StartRefused(j) \/ Prepare(j)
  \/ Compile(j) \/ Link(j) \/ CompileError(j) \/ Clean(j) \/ Create(j)
  \/ Handoff(j) \/ ExecFails(j) \/ Exec(j) \/ ScriptEnd(j)

(* A job moves from one point to another, and only that job. *)
LEMMA OneMoves ==
  ASSUME TypeOK, NEW j \in Jobs, JobStep(j)
  PROVE  /\ \E where \in {"none"} \cup Preparing \cup Testing \cup Ended :
               pc' = [pc EXCEPT ![j] = where]
         /\ req' = req /\ share' = share
         /\ \A k \in Jobs \ {j} : pc'[k] = pc[k]
BY DEF JobStep, Begin, Reject, Copy, StartRefused, Prepare, Compile, Link, CompileError,
       Clean, Create, Handoff, ExecFails, Exec, ScriptEnd, Goto, TypeOK, Preparing, Testing, Ended,
       filevars, mngvars, jobvars

LEMMA TypeInit == Init => TypeOK
BY CountsAssumption DEF Init, TypeOK, TestVersions

LEMMA TypeStep == TypeOK /\ [Next]_vars => TypeOK'
<1> SUFFICES ASSUME TypeOK, [Next]_vars
             PROVE  TypeOK'
  OBVIOUS
<1>1. ASSUME NEW j \in Jobs, JobStep(j)
      PROVE  TypeOK'
  <2>1. /\ req' \in [Jobs -> Requests] /\ share' \in [Names -> 1..RevBound]
        /\ pc' \in [Jobs -> {"none"} \cup Preparing \cup Testing \cup Ended]
    BY <1>1, OneMoves DEF TypeOK
  <2>2. /\ ProcFile(req[j]) \in Paths /\ RunFile(req[j]) \in Paths /\ req[j].name \in Names
    BY RequestPaths DEF TypeOK
  <2>3. source' \in [Paths -> 0..RevBound]
    <3>1. CASE Copy(j)
      <4>1. \A p \in Paths : share[p[2]] \in 0..RevBound
        BY DEF TypeOK, Paths
      <4>2. QED
        BY <3>1, <4>1 DEF Copy, TypeOK
    <3>2. CASE ~Copy(j)
      <4>1. source' = source \/ Clean(j)
        BY <1>1, <3>2
        DEF JobStep, Begin, Reject, StartRefused, Prepare, Compile, Link, CompileError,
            Create, Handoff, ExecFails, Exec, ScriptEnd, filevars
      <4>2. 0 \in 0..RevBound /\ source \in [Paths -> 0..RevBound]
        BY CountsAssumption DEF TypeOK
      <4>3. QED
        BY <2>2, <4>1, <4>2 DEF Clean
    <3>3. QED
      BY <3>1, <3>2
  <2>4. program' \in [Paths -> Jobs \cup {NoJob}]
    BY <1>1, <2>2
    DEF JobStep, Begin, Reject, Copy, StartRefused, Prepare, Compile, Link, CompileError,
        Clean, Create, Handoff, ExecFails, Exec, ScriptEnd, TypeOK, filevars, mngvars, jobvars
  <2>5. want' \in [Jobs -> 0..RevBound]
    BY <1>1, <2>2, CountsAssumption
    DEF JobStep, Begin, Reject, Copy, StartRefused, Prepare, Compile, Link, CompileError,
        Clean, Create, Handoff, ExecFails, Exec, ScriptEnd, TypeOK, filevars, mngvars, jobvars
  <2>6. uncopied' \subseteq Jobs /\ touched' \subseteq Jobs /\ crossed' \subseteq Jobs
    BY <1>1
    DEF JobStep, Begin, Reject, Copy, StartRefused, Prepare, Compile, Link, CompileError,
        Clean, Create, Handoff, ExecFails, Exec, ScriptEnd, TypeOK, filevars, mngvars, jobvars,
        SourceUsers, ProgramUsers,
        SlotUsers, Awaiting, Others
  <2>7. /\ ran' \in [Jobs -> Jobs \cup {NoJob}]
        /\ \A k \in Jobs : pc'[k] = "running" <=> ran'[k] # NoJob
    <3>1. CASE Exec(j)
      BY <3>1, RequestSlot DEF Exec, Goto, TypeOK
    <3>2. CASE ScriptEnd(j)
      BY <3>2, NoJobAssumption DEF ScriptEnd, Goto, TypeOK
    <3>3. CASE ~Exec(j) /\ ~ScriptEnd(j)
      <4>1. ran' = ran /\ pc[j] # "running" /\ pc'[j] # "running"
        BY <1>1, <3>3
        DEF JobStep, Begin, Reject, Copy, StartRefused, Prepare, Compile, Link, CompileError,
            Clean, Create, Handoff, ExecFails, TypeOK, Goto, filevars, mngvars, jobvars
      <4>2. QED
        BY <1>1, <4>1, OneMoves DEF TypeOK
    <3>4. QED
      BY <3>1, <3>2, <3>3
  <2>8. strRunProg' \in [Slots -> Paths \cup {<<>>}]
    BY <1>1, <2>2, RequestSlot
    DEF JobStep, Begin, Reject, Copy, StartRefused, Prepare, Compile, Link, CompileError,
        Clean, Create, Handoff, ExecFails, Exec, ScriptEnd, TypeOK, filevars, mngvars, jobvars
  <2>9. iVersion' \in [Ports -> TestVersions] /\ taken' \in [Jobs -> TestVersions]
    <3>1. /\ iVersion' = iVersion \/ Create(j)
          /\ taken' = taken \/ Handoff(j) \/ ScriptEnd(j)
      BY <1>1
      DEF JobStep, Begin, Reject, Copy, StartRefused, Prepare, Compile, Link, CompileError,
          Clean, Create, Handoff, ExecFails, Exec, ScriptEnd, filevars, mngvars, jobvars
    <3>2. req[j].port \in Ports /\ req[j].version \in TestVersions
      BY RequestSlot
    <3>3. iVersion' \in [Ports -> TestVersions]
      BY <3>1, <3>2 DEF Create, TypeOK
    <3>4. taken' \in [Jobs -> TestVersions]
      BY <3>1, <3>2 DEF Handoff, ScriptEnd, TypeOK, TestVersions
    <3>5. QED
      BY <3>3, <3>4
  <2>10. idThread' \in [Slots -> Jobs \cup {NoJob}]
    <3>1. idThread' = idThread \/ Create(j) \/ Clear(j)
      BY <1>1
      DEF JobStep, Begin, Reject, Copy, StartRefused, Prepare, Compile, Link, CompileError,
          Clean, Create, Handoff, ExecFails, Exec, ScriptEnd, filevars, mngvars, jobvars
    <3>2. QED
      BY <3>1, RequestSlot DEF Create, Clear, TypeOK
  <2>11. QED
    BY <2>1, <2>3, <2>4, <2>5, <2>6, <2>7, <2>8, <2>9, <2>10 DEF TypeOK
<1>2. ASSUME NEW n \in Names, Update(n)
      PROVE  TypeOK'
  BY <1>2, CountsAssumption DEF Update, TypeOK, mngvars, jobvars
<1>3. CASE UNCHANGED vars
  BY <1>3 DEF vars, filevars, mngvars, jobvars, TypeOK
<1>4. QED
  BY <1>1, <1>2, <1>3 DEF Next, JobStep

(* Every variable keeps a value of its kind, and a job has a program in    *)
(* execution just while it is running.                                     *)
THEOREM TypeCorrect == Spec => []TypeOK
<1>1. Init => TypeOK
  BY TypeInit
<1>2. TypeOK /\ [Next]_vars => TypeOK'
  BY TypeStep
<1>3. QED
  BY <1>1, <1>2, PTL DEF Spec

-----------------------------------------------------------------------------
(* ExecFindsOwnBuild is not inductive: from the linking to the execution a *)
(* job that nobody disturbed has its program where it will look for it,    *)
(* and strRunProg and iVersion, or the version taken, lead its thread      *)
(* there.                                                                  *)
Built(j) == pc[j] \in {"clean", "create", "born", "exec"} => program[RunFile(req[j])] = j

Stored(j) ==
  pc[j] \in {"compile", "link", "clean", "create", "born", "exec"} =>
    strRunProg[Slot(j)] = RunFile(req[j])
HandedOver(j) ==
  /\ pc[j] = "born" => iVersion[req[j].port] = req[j].version
  /\ pc[j] = "exec" => taken[j] = req[j].version
Told(j) == ByHand(j) \/ (Stored(j) /\ HandedOver(j))

Ran(j) == pc[j] # "noexec" /\ (pc[j] = "running" => ran[j] = j)
OwnInv == \A j \in Jobs \ (touched \cup crossed) : Built(j) /\ Told(j)

(* Such a job finds its program. *)
LEMMA FindsOwn ==
  ASSUME TypeOK, NEW j \in Jobs, pc[j] = "exec", Built(j), Told(j)
  PROVE  Found(j) = j
<1>1. RunFile(req[j]) \in Paths /\ program[RunFile(req[j])] = j
  BY RequestPaths DEF TypeOK, Built
<1>2. CASE ByHand(j)
  BY <1>1, <1>2 DEF Found
<1>3. CASE ~ByHand(j)
  <2>1. TakenSlot(j) = Slot(j) /\ strRunProg[Slot(j)] = RunFile(req[j])
    BY <1>3 DEF Told, Stored, HandedOver, TakenSlot, Slot
  <2>2. QED
    BY <1>1, <1>3, <2>1 DEF Found
<1>4. QED
  BY <1>2, <1>3

(* What j's step leaves to the others. *)
LEMMA OthersKeep ==
  ASSUME TypeOK, NEW j \in Jobs, JobStep(j), NEW k \in Jobs \ {j},
         k \notin touched', k \notin crossed', Built(k), Told(k), Ran(k)
  PROVE  Built(k)' /\ Told(k)' /\ Ran(k)'
<1>1. /\ req' = req /\ pc'[k] = pc[k]
      /\ RunFile(req'[k]) = RunFile(req[k]) /\ RunFile(req[j]) \in Paths
      /\ RunFile(req[k]) \in Paths
  BY RequestPaths, OneMoves DEF TypeOK
<1>2. ran'[k] = ran[k] /\ taken'[k] = taken[k]
  BY DEF JobStep, Begin, Reject, Copy, StartRefused, Prepare, Compile, Link, CompileError,
         Clean, Create, Handoff, ExecFails, Exec, ScriptEnd, TypeOK, filevars, mngvars, jobvars
<1>3. Built(k)'
  <2>1. \/ program'[RunFile(req[k])] = program[RunFile(req[k])]
        \/ pc[k] \notin {"clean", "create", "born", "exec"}
    BY <1>1
    DEF JobStep, Begin, Reject, Copy, StartRefused, Prepare, Compile, Link, CompileError,
        Clean, Create, Handoff, ExecFails, Exec, ScriptEnd, TypeOK, filevars, mngvars, jobvars,
        ProgramUsers, Others
  <2>2. QED
    BY <1>1, <2>1 DEF Built
<1>4. Told(k)'
  <2>1. CASE ByHand(k)
    BY <1>1, <2>1 DEF Told, ByHand
  <2>2. CASE ~ByHand(k)
    <3>1. Stored(k) /\ HandedOver(k) /\ Slot(k)' = Slot(k)
      BY <1>1, <2>2 DEF Told, Slot
    <3>2. Slot(k) \in Slots /\ Slot(j) \in Slots
          /\ req[j].port \in Ports /\ req[k].port \in Ports
      BY RequestSlot
    <3>3. \/ strRunProg'[Slot(k)] = strRunProg[Slot(k)]
          \/ pc[k] \notin {"compile", "link", "clean", "create", "born", "exec"}
      <4>1. strRunProg' = strRunProg \/ (Prepare(j) /\ ~ByHand(j))
        BY DEF JobStep, Begin, Reject, Copy, StartRefused, Prepare, Compile, Link, CompileError,
               Clean, Create, Handoff, ExecFails, Exec, ScriptEnd, filevars, mngvars, jobvars
      <4>2. CASE Prepare(j) /\ ~ByHand(j)
        <5>1. /\ strRunProg' = [strRunProg EXCEPT ![Slot(j)] = RunFile(req[j])]
              /\ k \notin SlotUsers(j)
          BY <4>2 DEF Prepare
        <5>2. CASE Slot(k) # Slot(j)
          BY <3>2, <5>1, <5>2 DEF TypeOK
        <5>3. CASE Slot(k) = Slot(j)
          BY <2>2, <5>1, <5>3 DEF SlotUsers, Others
        <5>4. QED
          BY <5>2, <5>3
      <4>3. QED
        BY <4>1, <4>2
    <3>4. iVersion'[req[k].port] = iVersion[req[k].port]
          \/ pc[k] # "born"
          \/ iVersion'[req[k].port] = req[k].version
      <4>1. iVersion' = iVersion \/ Create(j)
        BY DEF JobStep, Begin, Reject, Copy, StartRefused, Prepare, Compile, Link, CompileError,
               Clean, Create, Handoff, ExecFails, Exec, ScriptEnd, filevars, mngvars, jobvars
      <4>2. CASE Create(j)
        <5>1. /\ iVersion' = [iVersion EXCEPT ![req[j].port] = req[j].version]
              /\ k \notin Awaiting(j)
          BY <4>2 DEF Create
        <5>2. CASE req[k].port # req[j].port
          BY <3>2, <5>1, <5>2 DEF TypeOK
        <5>3. CASE req[k].port = req[j].port
          BY <3>2, <5>1, <5>3 DEF Awaiting, Others, TypeOK
        <5>4. QED
          BY <5>2, <5>3
      <4>3. QED
        BY <4>1, <4>2
    <3>5. Stored(k)'
      BY <1>1, <3>1, <3>3 DEF Stored
    <3>6. HandedOver(k)'
      BY <1>1, <1>2, <3>1, <3>4 DEF HandedOver
    <3>7. QED
      BY <3>5, <3>6 DEF Told
  <2>3. QED
    BY <2>1, <2>2
<1>5. Ran(k)'
  BY <1>1, <1>2 DEF Ran
<1>6. QED
  BY <1>3, <1>4, <1>5

(* What it does for j itself. *)
LEMMA SelfKeeps ==
  ASSUME TypeOK, NEW j \in Jobs, JobStep(j), Built(j), Told(j), Ran(j)
  PROVE  Built(j)' /\ Told(j)' /\ Ran(j)'
<1>1. /\ req' = req /\ RunFile(req[j]) \in Paths /\ RunFile(req'[j]) = RunFile(req[j])
      /\ (ByHand(j) <=> ByHand(j)') /\ Slot(j)' = Slot(j)
  BY RequestPaths, OneMoves DEF TypeOK, ByHand, Slot
<1>2. Slot(j) \in Slots /\ req[j].port \in Ports
  BY RequestSlot
<1>3. CASE Prepare(j)
  <2>1. pc'[j] = "compile" /\ (~ByHand(j) => strRunProg'[Slot(j)] = RunFile(req[j]))
    BY <1>2, <1>3 DEF Prepare, Goto, TypeOK
  <2>2. QED
    BY <1>1, <2>1 DEF Built, Told, Stored, HandedOver, Ran
<1>4. CASE Link(j)
  <2>1. /\ pc[j] = "link" /\ pc'[j] = "clean" /\ program'[RunFile(req[j])] = j
        /\ strRunProg' = strRunProg
    BY <1>1, <1>4 DEF Link, Goto, TypeOK, mngvars
  <2>2. QED
    BY <1>1, <2>1 DEF Built, Told, Stored, HandedOver, Ran
<1>5. CASE Compile(j) \/ Clean(j)
  <2>1. /\ pc[j] \in {"compile", "clean"}
        /\ pc[j] = "compile" => pc'[j] = "link"
        /\ pc[j] = "clean" => pc'[j] = IF ByHand(j) THEN "exec" ELSE "create"
        /\ program' = program /\ strRunProg' = strRunProg
    BY <1>5 DEF Compile, Clean, Goto, TypeOK, filevars, mngvars
  <2>2. QED
    BY <1>1, <2>1 DEF Built, Told, Stored, HandedOver, Ran
<1>6. CASE Create(j)
  <2>1. /\ pc[j] = "create" /\ pc'[j] = "born"
        /\ program' = program /\ strRunProg' = strRunProg
        /\ iVersion'[req[j].port] = req[j].version
    BY <1>2, <1>6 DEF Create, Goto, TypeOK, filevars
  <2>2. QED
    BY <1>1, <2>1 DEF Built, Told, Stored, HandedOver, Ran
<1>7. CASE Handoff(j)
  <2>1. /\ pc[j] = "born" /\ pc'[j] = "exec"
        /\ program' = program /\ strRunProg' = strRunProg
        /\ taken'[j] = iVersion[req[j].port]
    BY <1>7 DEF Handoff, Goto, TypeOK, filevars, mngvars
  <2>2. QED
    BY <1>1, <2>1 DEF Built, Told, Stored, HandedOver, Ran
<1>8. CASE Exec(j) \/ ExecFails(j)
  <2>1. pc[j] = "exec"
    BY <1>8 DEF Exec, ExecFails
  <2>2. Found(j) = j /\ j # NoJob
    BY <2>1, FindsOwn, NoJobAssumption
  <2>3. pc'[j] = "running" /\ ran'[j] = j
    BY <1>8, <2>2 DEF Exec, ExecFails, Goto, TypeOK
  <2>4. QED
    BY <1>1, <2>3 DEF Built, Told, Stored, HandedOver, Ran
<1>9. CASE Begin(j) \/ Reject(j) \/ Copy(j) \/ StartRefused(j) \/ CompileError(j)
           \/ ScriptEnd(j)
  <2>1. pc'[j] \in {"copy", "rejected", "prepare", "failed", "over"}
    BY <1>9 DEF Begin, Reject, Copy, StartRefused, CompileError, ScriptEnd, Goto, TypeOK
  <2>2. QED
    BY <2>1 DEF Built, Told, Stored, HandedOver, Ran
<1>10. QED
  BY <1>3, <1>4, <1>5, <1>6, <1>7, <1>8, <1>9 DEF JobStep

(* Who is left alone after a step was so before, unless its script ends.   *)
LEMMA LeftAlone ==
  ASSUME TypeOK, NEW j \in Jobs, JobStep(j), NEW k \in Jobs,
         k \notin touched', k \notin crossed'
  PROVE  (k \notin touched /\ k \notin crossed) \/ pc'[k] = "over"
BY DEF JobStep, Begin, Reject, Copy, StartRefused, Prepare, Compile, Link, CompileError,
       Clean, Create, Handoff, ExecFails, Exec, ScriptEnd, Goto, TypeOK, filevars, mngvars,
       jobvars

LEMMA OwnStep ==
  TypeOK /\ OwnInv /\ ExecFindsOwnBuild /\ [Next]_vars => OwnInv' /\ ExecFindsOwnBuild'
<1> SUFFICES ASSUME TypeOK, OwnInv, ExecFindsOwnBuild, [Next]_vars
             PROVE  OwnInv' /\ ExecFindsOwnBuild'
  OBVIOUS
<1>1. ASSUME NEW j \in Jobs, JobStep(j), NEW k \in Jobs, k \notin touched', k \notin crossed'
      PROVE  Built(k)' /\ Told(k)' /\ Ran(k)'
  <2>1. CASE pc'[k] = "over"
    BY <2>1 DEF Built, Told, Stored, HandedOver, Ran
  <2>2. CASE k \notin touched /\ k \notin crossed
    <3>1. Built(k) /\ Told(k) /\ Ran(k)
      BY <2>2 DEF OwnInv, ExecFindsOwnBuild, Ran
    <3>2. QED
      BY <1>1, <3>1, OthersKeep, SelfKeeps
  <2>3. QED
    BY <1>1, <2>1, <2>2, LeftAlone
<1>2. ASSUME NEW n \in Names, Update(n)
      PROVE  OwnInv' /\ ExecFindsOwnBuild'
  <2>1. UNCHANGED <<program, strRunProg, iVersion, pc, req, taken, ran, touched, crossed>>
    BY <1>2 DEF Update, mngvars, jobvars
  <2>2. QED
    BY <2>1 DEF OwnInv, Built, Told, Stored, HandedOver, ByHand, Slot, ExecFindsOwnBuild
<1>3. CASE UNCHANGED vars
  <2>1. UNCHANGED <<program, strRunProg, iVersion, pc, req, taken, ran, touched, crossed>>
    BY <1>3 DEF vars, filevars, mngvars, jobvars
  <2>2. QED
    BY <2>1 DEF OwnInv, Built, Told, Stored, HandedOver, ByHand, Slot, ExecFindsOwnBuild
<1>4. ASSUME NEW j \in Jobs, JobStep(j)
      PROVE  OwnInv' /\ ExecFindsOwnBuild'
  BY <1>1, <1>4 DEF OwnInv, ExecFindsOwnBuild, Ran
<1>5. QED
  BY <1>2, <1>3, <1>4 DEF Next, JobStep

(* callback.cpp:345: a start that no other start got in the way of runs    *)
(* the program it has compiled, however many jobs share its folder and     *)
(* its port: the one got in the way of the file, of strRunProg of the      *)
(* version, or of iVersion before the thread took it.                      *)
THEOREM RunsOwnBuild == Spec => []ExecFindsOwnBuild
<1>1. Init => TypeOK /\ OwnInv /\ ExecFindsOwnBuild
  BY TypeInit DEF Init, OwnInv, Built, Told, Stored, HandedOver, ExecFindsOwnBuild
<1>2. (TypeOK /\ OwnInv /\ ExecFindsOwnBuild) /\ [Next]_vars
        => (TypeOK /\ OwnInv /\ ExecFindsOwnBuild)'
  BY TypeStep, OwnStep
<1>3. QED
  BY <1>1, <1>2, PTL DEF Spec

-----------------------------------------------------------------------------
(* StaleTakesFailures needs to know, of the folders that a start empties   *)
(* again, who has left a source there: a job that has not come to its      *)
(* clean-up, or never will.                                                *)
Leavers == {"prepare", "compile", "link", "clean", "failed"}
LeftBy(p) == {k \in Jobs : ProcFile(req[k]) = p /\ pc[k] \in Leavers}
HasOwner == \A p \in Paths : p[1] \in {"exec", "work"} /\ source[p] # 0 => LeftBy(p) # {}

(* What a job wants is not newer than the share, and an older source is    *)
(* there only after its own copy has failed.                               *)
Wanted == \A j \in Jobs : want[j] <= share[req[j].name]
Stale(j) ==
  /\ pc[j] \in {"prepare", "compile"}
  /\ source[ProcFile(req[j])] # 0
  /\ source[ProcFile(req[j])] < want[j]
Excused(j) ==
  /\ j \in uncopied
  /\ WorkPath(req[j]) = "exec" => \E k \in Others(j) : k \in LeftBy(ProcFile(req[j]))
StaleExcused == \A j \in Jobs : Stale(j) => Excused(j)

StaleInv == HasOwner /\ Wanted /\ StaleExcused

(* What a step of a job does to a source, and that who has left a source   *)
(* stays its owner as long as it is there.                                 *)
LEMMA SourceMoves ==
  ASSUME TypeOK, NEW j \in Jobs, JobStep(j), NEW p \in Paths
  PROVE  \/ source'[p] = source[p]
         \/ source'[p] = 0
         \/ Copy(j) /\ p \in Copied(req[j]) /\ source'[p] = share[p[2]]
BY DEF JobStep, Begin, Reject, Copy, StartRefused, Prepare, Compile, Link, CompileError,
       Clean, Create, Handoff, ExecFails, Exec, ScriptEnd, TypeOK, filevars, mngvars, jobvars

LEMMA OwnerStays ==
  ASSUME TypeOK, NEW j \in Jobs, JobStep(j), NEW p \in Paths, NEW k \in LeftBy(p),
         source'[p] # 0
  PROVE  k \in LeftBy(p)'
<1>1. req' = req /\ k \in Jobs /\ ProcFile(req[k]) = p /\ pc[k] \in Leavers
  BY OneMoves DEF LeftBy
<1>2. pc'[k] \in Leavers
  <2>1. CASE k # j
    BY <1>1, <2>1, OneMoves
  <2>2. CASE k = j
    BY <1>1, <2>2
    DEF JobStep, Begin, Reject, Copy, StartRefused, Prepare, Compile, Link, CompileError,
        Clean, Create, Handoff, ExecFails, Exec, ScriptEnd, TypeOK, Goto, Leavers
  <2>3. QED
    BY <2>1, <2>2
<1>3. QED
  BY <1>1, <1>2 DEF LeftBy

LEMMA OwnerStep ==
  ASSUME TypeOK, HasOwner, NEW j \in Jobs, JobStep(j)
  PROVE  HasOwner'
<1> SUFFICES ASSUME NEW p \in Paths, p[1] \in {"exec", "work"}, source'[p] # 0
             PROVE  LeftBy(p)' # {}
  BY DEF HasOwner
<1>1. CASE Copy(j) /\ p \in Copied(req[j])
  <2>1. req[j] \in Requests /\ p = ProcFile(req[j])
    <3>1. req[j] \in Requests
      BY DEF TypeOK
    <3>2. WorkPath(req[j]) = "exec"
      BY <1>1, <3>1, RequestPaths
    <3>3. QED
      BY <1>1, <3>1, <3>2, RequestPaths
  <2>2. req' = req /\ pc'[j] = "prepare"
    BY <1>1 DEF Copy, Goto, TypeOK
  <2>3. j \in LeftBy(p)'
    BY <2>1, <2>2 DEF LeftBy, Leavers
  <2>4. QED
    BY <2>3
<1>2. CASE ~(Copy(j) /\ p \in Copied(req[j]))
  <2>1. source[p] # 0
    BY <1>2, SourceMoves
  <2>2. PICK k \in LeftBy(p) : TRUE
    BY <2>1 DEF HasOwner
  <2>3. QED
    BY <2>2, OwnerStays
<1>3. QED
  BY <1>1, <1>2

LEMMA WantedStep ==
  ASSUME TypeOK, Wanted, NEW j \in Jobs, JobStep(j)
  PROVE  Wanted'
<1> SUFFICES ASSUME NEW k \in Jobs
             PROVE  want'[k] <= share[req[k].name]
  BY OneMoves DEF Wanted
<1>1. share[req[k].name] \in 1..RevBound /\ want[k] <= share[req[k].name]
  BY RequestPaths DEF TypeOK, Wanted
<1>2. want'[k] \in {want[k], 0, share[req[k].name]}
  BY DEF JobStep, Begin, Reject, Copy, StartRefused, Prepare, Compile, Link, CompileError,
         Clean, Create, Handoff, ExecFails, Exec, ScriptEnd, TypeOK, filevars, mngvars, jobvars
<1>3. QED
  BY <1>1, <1>2, CountsAssumption

LEMMA ExcusedStep ==
  ASSUME TypeOK, StaleInv, NEW j \in Jobs, JobStep(j)
  PROVE  StaleExcused'
<1> SUFFICES ASSUME NEW k \in Jobs, Stale(k)'
             PROVE  Excused(k)'
  BY DEF StaleExcused
<1> DEFINE p == ProcFile(req[k])
<1>1. /\ req' = req /\ share' = share /\ p \in Paths /\ p[2] = req[k].name
      /\ WorkPath(req[k]) = "exec" => p[1] \in {"exec", "work"}
      /\ p \in Copied(req[k])
  BY OneMoves, RequestPaths DEF TypeOK
<1>2. /\ pc'[k] \in {"prepare", "compile"}
      /\ source'[p] # 0 /\ source'[p] < want'[k]
  BY <1>1 DEF Stale
<1>3. want[k] <= share[p[2]] /\ want[k] \in Nat /\ share[p[2]] \in Nat
  BY <1>1, RequestPaths, CountsAssumption DEF TypeOK, StaleInv, Wanted
<1>4. CASE k # j
  <2>1. pc'[k] = pc[k] /\ want'[k] = want[k] /\ (k \in uncopied => k \in uncopied')
    BY <1>4, OneMoves
    DEF JobStep, Begin, Reject, Copy, StartRefused, Prepare, Compile, Link, CompileError,
        Clean, Create, Handoff, ExecFails, Exec, ScriptEnd, TypeOK, filevars, mngvars, jobvars
  <2>2. source'[p] = source[p]
    BY <1>1, <1>2, <1>3, <2>1, SourceMoves
  <2>3. Excused(k)
    BY <1>2, <2>1, <2>2 DEF StaleInv, StaleExcused, Stale
  <2>4. QED
    BY <1>1, <1>2, <2>1, <2>3, OwnerStays DEF Excused, Others
<1>5. CASE k = j
  <2>1. CASE Prepare(j)
    <3>1. Excused(j) /\ uncopied' = uncopied
      BY <1>1, <1>2, <1>5, <2>1 DEF Prepare, jobvars, StaleInv, StaleExcused, Stale
    <3>2. QED
      BY <1>1, <1>2, <1>5, <3>1, OwnerStays DEF Excused, Others
  <2>2. CASE Copy(j)
    <3>1. want'[j] = share[p[2]] /\ pc[j] = "copy"
      BY <1>1, <1>5, <2>2 DEF Copy, TypeOK
    <3>2. j \in uncopied' /\ source' = source
      BY <1>1, <1>2, <1>3, <1>5, <2>2, <3>1 DEF Copy
    <3>3. ASSUME WorkPath(req[j]) = "exec"
          PROVE  \E l \in Others(j) : l \in LeftBy(p)'
      <4>1. PICK l \in LeftBy(p) : TRUE
        BY <1>1, <1>2, <1>5, <3>2, <3>3 DEF StaleInv, HasOwner
      <4>2. l \in Others(j)
        BY <3>1, <4>1 DEF LeftBy, Leavers, Others
      <4>3. QED
        BY <1>1, <1>2, <4>1, <4>2, OwnerStays
    <3>4. QED
      BY <1>1, <1>5, <3>2, <3>3 DEF Excused
  <2>3. CASE ~Prepare(j) /\ ~Copy(j)
    BY <1>2, <1>5, <2>3
    DEF JobStep, Begin, Reject, StartRefused, Compile, Link, CompileError,
        Clean, Create, Handoff, ExecFails, Exec, ScriptEnd, TypeOK, Goto
  <2>4. QED
    BY <2>1, <2>2, <2>3
<1>6. QED
  BY <1>4, <1>5

LEMMA StaleStep == TypeOK /\ StaleInv /\ [Next]_vars => StaleInv'
<1> SUFFICES ASSUME TypeOK, StaleInv, [Next]_vars
             PROVE  StaleInv'
  OBVIOUS
<1>1. ASSUME NEW j \in Jobs, JobStep(j)
      PROVE  StaleInv'
  BY <1>1, OwnerStep, WantedStep, ExcusedStep DEF StaleInv
<1>2. ASSUME NEW n \in Names, Update(n)
      PROVE  StaleInv'
  <2>1. UNCHANGED <<source, pc, req, want, uncopied>>
    BY <1>2 DEF Update, mngvars, jobvars
  <2>2. HasOwner' /\ StaleExcused'
    BY <2>1 DEF StaleInv, HasOwner, LeftBy, StaleExcused, Stale, Excused
  <2>3. ASSUME NEW k \in Jobs
        PROVE  want[k] <= share'[req[k].name]
    <3>1. req[k].name \in Names
      BY RequestPaths DEF TypeOK
    <3>2. /\ want[k] <= share[req[k].name] /\ want[k] \in 0..RevBound
          /\ share[req[k].name] \in 1..RevBound
      BY <3>1 DEF TypeOK, StaleInv, Wanted
    <3>3. share'[req[k].name] \in {share[req[k].name], share[req[k].name] + 1}
      BY <1>2, <3>1 DEF Update, TypeOK
    <3>4. QED
      BY <3>2, <3>3, CountsAssumption
  <2>4. QED
    BY <2>1, <2>2, <2>3 DEF StaleInv, Wanted
<1>3. CASE UNCHANGED vars
  BY <1>3
  DEF vars, filevars, mngvars, jobvars, StaleInv, HasOwner, LeftBy, Wanted, StaleExcused, Stale,
      Excused
<1>4. QED
  BY <1>1, <1>2, <1>3 DEF Next, JobStep

(* callback.cpp:339: whatever fails and whatever overlaps, a job compiles  *)
(* an old revision only after its own copy failed, and in the folders that *)
(* are emptied again only one that another job has left there.             *)
THEOREM StaleSource == Spec => StaleTakesFailures
<1> DEFINE Step ==
      \A j \in Jobs :
        pc[j] = "compile" /\ pc'[j] = "link" /\ source[ProcFile(req[j])] < want[j] =>
          /\ j \in uncopied
          /\ \/ WorkPath(req[j]) # "exec"
             \/ \E k \in Others(j) :
                  /\ ProcFile(req[k]) = ProcFile(req[j])
                  /\ pc[k] \in {"prepare", "compile", "link", "clean", "failed"}
<1>1. Init => TypeOK /\ StaleInv
  <2>1. Init => StaleInv
    <3> SUFFICES ASSUME Init
                 PROVE  StaleInv
      OBVIOUS
    <3>1. HasOwner /\ StaleExcused
      BY DEF Init, HasOwner, StaleExcused, Stale
    <3>2. Wanted
      BY RequestPaths DEF Init, Wanted
    <3>3. QED
      BY <3>1, <3>2 DEF StaleInv
  <2>2. QED
    BY <2>1, TypeInit
<1>2. (TypeOK /\ StaleInv) /\ [Next]_vars => (TypeOK /\ StaleInv)'
  BY TypeStep, StaleStep
<1>3. TypeOK /\ StaleInv /\ [Next]_vars => [Step]_vars
  <2> SUFFICES ASSUME TypeOK, StaleInv, Next, NEW j \in Jobs,
                      pc[j] = "compile", pc'[j] = "link",
                      source[ProcFile(req[j])] < want[j]
               PROVE  /\ j \in uncopied
                      /\ \/ WorkPath(req[j]) # "exec"
                         \/ \E k \in Others(j) :
                              /\ ProcFile(req[k]) = ProcFile(req[j])
                              /\ pc[k] \in Leavers
    BY DEF Leavers
  <2>1. Compile(j)
    <3>1. PICK k \in Jobs : JobStep(k)
      BY DEF Next, JobStep, Update
    <3>2. k = j
      BY <3>1, OneMoves
    <3>3. QED
      BY <3>1, <3>2
      DEF JobStep, Begin, Reject, Copy, StartRefused, Prepare, Link, CompileError,
          Clean, Create, Handoff, ExecFails, Exec, ScriptEnd, TypeOK, Goto
  <2>2. Stale(j)
    BY <2>1 DEF Compile, Stale
  <2>3. Excused(j)
    BY <2>2 DEF StaleInv, StaleExcused
  <2>4. QED
    BY <2>3 DEF Excused, LeftBy
<1>4. QED
  BY <1>1, <1>2, <1>3, PTL DEF Spec, StaleTakesFailures

=============================================================================
