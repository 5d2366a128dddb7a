---------------------------- MODULE ScriptBuild ----------------------------
(***************************************************************************)
(* From the source of a script to its process: the START branches of       *)
(* tdm/callback.cpp copy it into a work folder, StartTest (tdm/testmng.cpp)*)
(* compiles it there and its TestThread runs it; texec (texec/scriptexec   *)
(* .cpp) does the same by hand.  They share the folders: the daemon's jobs *)
(* of all versions but PORT_TEST build in work/exec, for both ports, and   *)
(* texec puts its programs there too, named after the script.  CTestMng   *)
(* keeps the program of each version and hands the version to the new      *)
(* thread, so the starts of a port share that as well.                     *)
(*                                                                         *)
(* What else a thread does between fork and its end is in TestMng.         *)
(*                                                                         *)
(* A definition whose name ends in _Bug is the one after it with a mistake *)
(* that would be easy to make; the properties are tried against it.        *)
(***************************************************************************)
EXTENDS Integers, FiniteSets

CONSTANTS
  Jobs,       \* starts of scripts
  Names,      \* script names
  Requests,   \* what a start can ask for: [way, port, version, name]
  SockCnt,    \* threads that run ProcSock; one more runs ProcMsg
  RevBound,   \* the share sees this many revisions of a script
  NoJob

Ways == {"file", "sock", "hand"}
Ports == {1, 2}
TestVersions == {"test", "other"}
Slots == Ports \X TestVersions

ASSUME RequestsAssumption ==
  Requests \subseteq [way : Ways, port : Ports, version : TestVersions, name : Names]
ASSUME CountsAssumption == SockCnt \in Nat /\ RevBound \in Nat \ {0}
ASSUME NoJobAssumption == NoJob \notin Jobs

VARIABLES
  share,      \* the revision of each script on the share
  source,     \* by folder and name: the revision copied there, 0 for no file
  program,    \* by folder and name: the job that compiled it, or NoJob
  strRunProg, \* by port and version: the path StartTest stored last
  iVersion,   \* of each port: the version handed to the newest thread
  idThread,   \* by port and version: the job that is on, or NoJob
  pc,         \* how far each job is
  req,        \* its request
  want,       \* the revision on the share when it copied its script, until compiled
  taken,      \* the version its thread took from iVersion
  ran,        \* the job whose program it runs, or NoJob
  uncopied,   \* jobs whose cp failed, until compiled
  touched,    \* jobs whose files another job has written meanwhile
  crossed     \* jobs whose strRunProg or iVersion another has written meanwhile

filevars == <<share, source, program>>
mngvars == <<strRunProg, iVersion, idThread>>
jobvars == <<req, want, taken, ran>>
vars == <<filevars, mngvars, pc, jobvars, uncopied, touched, crossed>>


Folders == {"port1", "port2", "exec", "work"}
Paths == Folders \X Names

PortFolder(port) == IF port = 1 THEN "port1" ELSE "port2"

(* ProcMsg takes the folder of the port for every version, ProcSock for    *)
(* PORT_TEST only.                                                         *)
WorkPath(r) ==
  IF r.way = "file" \/ (r.way = "sock" /\ r.version = "test")
  THEN PortFolder(r.port) ELSE "exec"

(* strScriptProcFile *)
ProcFile(r) == <<IF r.way = "hand" THEN "work" ELSE WorkPath(r), r.name>>

(* strScriptRunFile *)
RunFile(r) == <<WorkPath(r), r.name>>

(* cp -f .../* : into the folder of a port come all scripts of the folder. *)
Copied(r) ==
  IF WorkPath(r) = "exec" THEN {ProcFile(r)} ELSE {<<WorkPath(r), n>> : n \in Names}

Preparing == {"copy", "prepare", "compile", "link", "clean", "create", "born"}
Testing == {"exec", "running"}
Ended == {"over", "rejected", "failed", "noexec"}

(* Empty strings; nobody reads iVersion before it is set.                  *)
Init ==
  /\ share = [n \in Names |-> 1]
  /\ source = [p \in Paths |-> 0]
  /\ program = [p \in Paths |-> NoJob]
  /\ strRunProg = [x \in Slots |-> <<>>]
  /\ iVersion = [i \in Ports |-> "other"]
  /\ idThread = [x \in Slots |-> NoJob]
  /\ pc = [j \in Jobs |-> "none"]
  /\ req \in [Jobs -> Requests]
  /\ want = [j \in Jobs |-> 0]
  /\ taken = [j \in Jobs |-> "other"]
  /\ ran = [j \in Jobs |-> NoJob]
  /\ uncopied = {}
  /\ touched = {}
  /\ crossed = {}

Goto(j, where) == pc' = [pc EXCEPT ![j] = where]

Others(j) == Jobs \ {j}
Known(j) == pc[j] # "none"

(* Jobs that hold something of theirs in a path that j writes now. *)
SourceUsers(j, paths) ==
  {k \in Others(j) : pc[k] \in {"prepare", "compile"} /\ ProcFile(req[k]) \in paths}
ProgramUsers(j) ==
  {k \in Others(j) :
     pc[k] \in {"clean", "create", "born", "exec"} /\ RunFile(req[k]) = RunFile(req[j])}


ByHand(j) == req[j].way = "hand"
Slot(j) == <<req[j].port, req[j].version>>

(* Starts that have stored their program in the slot of j and not run it,  *)
(* and those whose thread has still to take another version from iVersion. *)
SlotUsers(j) ==
  {k \in Others(j) :
     /\ pc[k] \in {"compile", "link", "clean", "create", "born", "exec"}
     /\ ~ByHand(k) /\ Slot(k) = Slot(j)}
Awaiting(j) ==
  {k \in Others(j) :
     /\ pc[k] = "born"
     /\ req[k].port = req[j].port /\ req[k].version # req[j].version}

-----------------------------------------------------------------------------
(* CTestMng::IsTestOn; texec does not ask. *)
IsTestOn(j) == ~ByHand(j) /\ idThread[Slot(j)] # NoJob

(* A START message reaches a handler thread that is free, and its version  *)
(* is not testing; or texec is called.                                     *)
Begin(j) ==
  /\ pc[j] = "none"
  /\ ~ByHand(j) =>
       Cardinality({k \in Jobs : pc[k] \in Preparing /\ req[k].way = req[j].way})
         < IF req[j].way = "file" THEN 1 ELSE SockCnt
  /\ ~IsTestOn(j)
  /\ Goto(j, "copy")
  /\ UNCHANGED <<filevars, mngvars, jobvars, uncopied, touched, crossed>>

(* The script is missing or its extension is wrong: MSG_DONE, or a line on *)
(* the terminal of texec.                                                  *)
Reject(j) ==
  /\ pc[j] = "copy"
  /\ Goto(j, "rejected")
  /\ UNCHANGED <<filevars, mngvars, jobvars, uncopied, touched, crossed>>

(* cp; nobody looks at its result. *)
Copy(j) ==
  /\ pc[j] = "copy"
  /\ want' = [want EXCEPT ![j] = share[req[j].name]]
  /\ \/ /\ source' = [p \in Paths |-> IF p \in Copied(req[j]) THEN share[p[2]] ELSE source[p]]
        /\ touched' = touched \cup SourceUsers(j, Copied(req[j]))
        /\ UNCHANGED uncopied
     \/ /\ uncopied' = uncopied \cup {j}
        /\ UNCHANGED <<source, touched>>
  /\ Goto(j, "prepare")
  /\ UNCHANGED <<share, program, mngvars, req, taken, ran, crossed>>

(* StartTest looks at idThread again. *)
StartRefused(j) ==
  /\ pc[j] = "prepare"
  /\ IsTestOn(j)
  /\ Goto(j, "failed")
  /\ UNCHANGED <<filevars, mngvars, jobvars, uncopied, touched, crossed>>

(* strRunProg, and unlink of the program. *)
Prepare(j) ==
  /\ pc[j] = "prepare"
  /\ ~IsTestOn(j)
  /\ IF ByHand(j)
     THEN UNCHANGED <<strRunProg, crossed>>
     ELSE /\ strRunProg' = [strRunProg EXCEPT ![Slot(j)] = RunFile(req[j])]
          /\ crossed' = crossed \cup SlotUsers(j)
  /\ program' = [program EXCEPT ![RunFile(req[j])] = NoJob]
  /\ touched' = touched \cup ProgramUsers(j)
  /\ Goto(j, "compile")
  /\ UNCHANGED <<share, source, iVersion, idThread, jobvars, uncopied>>

(* The compiler has read the source. *)
Compile(j) ==
  /\ pc[j] = "compile"
  /\ source[ProcFile(req[j])] # 0
  /\ Goto(j, "link")
  /\ want' = [want EXCEPT ![j] = 0]
  /\ uncopied' = uncopied \ {j}
  /\ UNCHANGED <<filevars, mngvars, req, taken, ran, touched, crossed>>

(* It has written the program. *)
Link(j) ==
  /\ pc[j] = "link"
  /\ program' = [program EXCEPT ![RunFile(req[j])] = j]
  /\ touched' = touched \cup ProgramUsers(j)
  /\ Goto(j, "clean")
  /\ UNCHANGED <<share, source, mngvars, jobvars, uncopied, crossed>>

(* The result of the compiler is not looked at. *)
CompileError_Bug(j) ==
  /\ pc[j] \in {"compile", "link"}
  /\ Goto(j, "clean")
  /\ UNCHANGED <<filevars, mngvars, jobvars, uncopied, touched, crossed>>

(* No source, or one that does not compile.  The source stays, and the     *)
(* host is not told.                                                       *)
CompileError(j) ==
  /\ pc[j] \in {"compile", "link"}
  /\ Goto(j, "failed")
  /\ want' = [want EXCEPT ![j] = 0]
  /\ uncopied' = uncopied \ {j}
  /\ UNCHANGED <<filevars, mngvars, req, taken, ran, touched, crossed>>

(* The source is left where it is. *)
Clean_Bug(j) ==
  /\ pc[j] = "clean"
  /\ Goto(j, IF ByHand(j) THEN "exec" ELSE "create")
  /\ UNCHANGED <<filevars, mngvars, jobvars, uncopied, touched, crossed>>

(* unlink of the source. *)
Clean(j) ==
  /\ pc[j] = "clean"
  /\ source' = [source EXCEPT ![ProcFile(req[j])] = 0]
  /\ touched' = touched \cup SourceUsers(j, {ProcFile(req[j])})
  /\ Goto(j, IF ByHand(j) THEN "exec" ELSE "create")
  /\ UNCHANGED <<share, program, mngvars, jobvars, uncopied, crossed>>

(* iVersion, and a thread for the test; the wait for it releases the mutex. *)
Create(j) ==
  /\ pc[j] = "create"
  /\ iVersion' = [iVersion EXCEPT ![req[j].port] = req[j].version]
  /\ idThread' = [idThread EXCEPT ![Slot(j)] = j]
  /\ crossed' = crossed \cup Awaiting(j)
  /\ Goto(j, "born")
  /\ UNCHANGED <<filevars, strRunProg, jobvars, uncopied, touched>>

(* The thread takes its version; then StartTest returns, the host is sent  *)
(* MSG_TEST, and the handler takes its next message.                       *)
Handoff(j) ==
  /\ pc[j] = "born"
  /\ taken' = [taken EXCEPT ![j] = iVersion[req[j].port]]
  /\ Goto(j, "exec")
  /\ UNCHANGED <<filevars, mngvars, req, want, ran, uncopied, touched, crossed>>

(* The slot the thread of j works in. *)
TakenSlot(j) == <<req[j].port, taken[j]>>

(* idThread of it is 0 again. *)
Clear(j) ==
  idThread' = IF ByHand(j) THEN idThread ELSE [idThread EXCEPT ![TakenSlot(j)] = NoJob]

(* What execvp in the child finds, or system in texec. *)
Found(j) ==
  LET path == IF ByHand(j) THEN RunFile(req[j]) ELSE strRunProg[TakenSlot(j)]
  IN IF path \in Paths THEN program[path] ELSE NoJob

ExecFails(j) ==
  /\ pc[j] = "exec" /\ Found(j) = NoJob
  /\ Clear(j)
  /\ Goto(j, "noexec")
  /\ UNCHANGED <<filevars, strRunProg, iVersion, jobvars, uncopied, touched, crossed>>

Exec(j) ==
  /\ pc[j] = "exec" /\ Found(j) # NoJob
  /\ ran' = [ran EXCEPT ![j] = Found(j)]
  /\ Goto(j, "running")
  /\ UNCHANGED <<filevars, mngvars, req, want, taken, uncopied, touched, crossed>>

ScriptEnd(j) ==
  /\ pc[j] = "running"
  /\ Clear(j)
  /\ Goto(j, "over")
  /\ ran' = [ran EXCEPT ![j] = NoJob]
  /\ taken' = [taken EXCEPT ![j] = "other"]
  /\ touched' = touched \ {j} /\ crossed' = crossed \ {j}
  /\ UNCHANGED <<filevars, strRunProg, iVersion, req, want, uncopied>>

(* A new revision of a script is put on the share. *)
Update(n) ==
  /\ share[n] < RevBound
  /\ share' = [share EXCEPT ![n] = @ + 1]
  /\ UNCHANGED <<source, program, mngvars, pc, jobvars, uncopied, touched, crossed>>

Next ==
  \/ \E j \in Jobs :
       \/ Begin(j) \/ Reject(j) \/ Copy(j) \/ StartRefused(j) \/ Prepare(j)
       \/ Compile(j) \/ Link(j) \/ CompileError(j) \/ Clean(j) \/ Create(j)
       \/ Handoff(j) \/ ExecFails(j) \/ Exec(j) \/ ScriptEnd(j)
  \/ \E n \in Names : Update(n)

Spec == Init /\ [][Next]_vars

-----------------------------------------------------------------------------
(* Every variable has a value of its kind; a script that runs, and no      *)
(* other, has a program.                                                   *)
TypeOK ==
  /\ share \in [Names -> 1..RevBound]
  /\ source \in [Paths -> 0..RevBound]
  /\ program \in [Paths -> Jobs \cup {NoJob}]
  /\ strRunProg \in [Slots -> Paths \cup {<<>>}]
  /\ iVersion \in [Ports -> TestVersions]
  /\ idThread \in [Slots -> Jobs \cup {NoJob}]
  /\ pc \in [Jobs -> {"none"} \cup Preparing \cup Testing \cup Ended]
  /\ req \in [Jobs -> Requests]
  /\ want \in [Jobs -> 0..RevBound]
  /\ taken \in [Jobs -> TestVersions]
  /\ ran \in [Jobs -> Jobs \cup {NoJob}]
  /\ uncopied \subseteq Jobs
  /\ touched \subseteq Jobs /\ crossed \subseteq Jobs
  /\ \A j \in Jobs : pc[j] = "running" <=> ran[j] # NoJob

(* callback.cpp:345, scriptexec.cpp:368: what a start runs is the program  *)
(* it has compiled itself, with its own port and version in it, and not    *)
(* one left from an earlier start or made by another; unless another start *)
(* got in between: at the program file (touched), at strRunProg of its     *)
(* version or at iVersion before its thread has read it (crossed).         *)
ExecFindsOwnBuild ==
  \A j \in Jobs \ (touched \cup crossed) :
    /\ pc[j] # "noexec"
    /\ pc[j] = "running" => ran[j] = j

(* callback.cpp:339, scriptexec.cpp:326: an old revision is compiled only  *)
(* after the job's copy failed, which nobody looks at, and when an older   *)
(* source is there: of a start that is still on its way or whose           *)
(* compilation failed, or, in the folder of a port, of any earlier one.    *)
StaleTakesFailures ==
  [][\A j \in Jobs :
       pc[j] = "compile" /\ pc'[j] = "link" /\ source[ProcFile(req[j])] < want[j] =>
         /\ j \in uncopied
         /\ \/ WorkPath(req[j]) # "exec"
            \/ \E k \in Others(j) :
                 /\ ProcFile(req[k]) = ProcFile(req[j])
                 /\ pc[k] \in {"prepare", "compile", "link", "clean", "failed"}]_vars

=============================================================================
