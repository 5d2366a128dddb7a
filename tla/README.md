# Formal models of the test daemon (tdm)

`tdm` is a daemon on a test computer (TPC).  A host program asks it to compile
and run test scripts on the two ports of the computer, and is told what becomes
of them.  Requests and answers travel through a pair of files on a share, or
through TCP.  Inside, the daemon is about ten threads around one System V
message queue, plus one process per running script.

This directory holds TLA+ models of its components, TLC configurations that
check them on small instances, and proofs checked by TLAPS.  Line numbers are
those of `src/`.  Every definition that models code is listed with its lines in
`PROJECT.json` under `map`.

## 1. The system

| Component | State | Operations | Hard because |
|---|---|---|---|
| Test manager `tdm/testmng.cpp` | `iVersion`, `idThread[]`, `pidTestProcess[]`, the mutex `mutexSync` with `condSync` | `StartTest`, `StopTest`, `IsTestOn`, `InitTest`, `TestThread` | three handler threads, a thread and a process per test, one lock around one hand-over |
| Message handlers `tdm/callback.cpp` | none of their own; work folders on disk | `ProcMsg`, `ProcSock`: START, STOP, INIT | run by the bridge, server and client threads at once, in shared folders |
| Log list `tdm/log.cpp` | `listLogFile`, under `mutexLog` | add, delete, copy | used by main, handlers and test threads, in any order; copies may fail |
| Message bridge `tnet/msgqthread.cpp`, `msgsend.cpp` | kernel queue, run flags, three threads | check, proc, start, stop | a bounded queue shared by both directions |
| Message box files `tnet/msgbox.cpp` | `qWriteMsg`, `qReadMsg`, two files | write, read, re-create | the other side is another program on the same files |
| Socket server `tnet/socketserver.cpp` | server and client descriptors, `strBuf`, `qRecv` | poll loop, accept, close, `StripMark`, `DataSplit` | one client only, packets in pieces, stale `errno` |
| Socket client `tnet/socketclient.cpp` | descriptor, `bConnect`, `strBuf`, `qRecv` | connect, dummy packet, reconnect | reconnects in the middle of a packet |
| Daemon main `tdm/testdm.cpp` | `g_condTestDm`, the global objects | running check, init, main loop, delete, signals | order of creation and deletion against running threads |
| Status monitor `tdm/status.cpp` | status records | `CheckOs`, `CheckTest`, `CheckDps` | reads shared memory under a semaphore with `SEM_UNDO` |
| IPC primitives `tbase/base.cpp` | kernel objects | queue, semaphore, shared memory, files | creation races, objects that outlive the process |
| Script library `tbase/sctbasic.h` | the script's log | report, send | runs in the test process |
| Script runner `texec/scriptexec.cpp` | work folders on disk | copy, compile, run, clean | writes where the daemon writes |
| Power supply monitor `etc/mondps.c` | shared memory | write under a semaphore | the other side of `CheckDps`, killed at any moment |
| Debug menu `tdebug/function.cpp` | none | `test_shmem`, `test_json` and others | a second writer of the shared memory |
| JSON library `tdebug/jsoncpp.cpp` | values, a reader with two stacks | build, convert, write, read | integer widths, UTF-8 by hand, error recovery |

How they interact:

```
 host program                                      TCP peers
   |  files on the share                              |
 CMsgBox file thread                     CSocketServer, CSocketClient
   |  qReadMsg / qWriteMsg                            |  qRecv
 MsgqCheckThread                                      |
   |  kernel queue (RECV / SEND)                      |
 MsgqProcThread --> ProcRecvMsg          ProcRecvSock <--      texec
                        \                  /                     |
                         CTestMng (one per port) -- work folders -
                            | pthread_create, fork, kill
                         TestThread --> test process
                            |              | SendMsg -> kernel queue (SEND)
                         CLog <--- main loop (every 3 s) ---> CStatus
                                                                | shared memory, semaphore
                                                             mondps, test_shmem
```

Calls go down this picture without locks, except for the hand-over of the
version from `StartTest` to `TestThread` (`mutexSync`), the operations of the log
list (`mutexLog`) and the shared memory.  Scripts
answer through the kernel queue, where their messages join those of the handlers.

What makes each part correct:

* test manager: a start runs the script that was asked for, and once; a stop
  reaches that script and nothing else; its answer is true; slots come free;
* log list: a running script listed, no line lost unless a copy fails;
* building: what runs is what was asked for, freshly copied and compiled;
* bridge: both directions are FIFO and lossless while it runs; every message
  gets through; stopping it ends;
* message box files: what one side has written, the other reads once and in
  order, whatever the interleaving; a bad file does not block for ever;
* sockets: the packets handed on are those sent, on the same connection; a
  closed peer is noticed, a new one is served;
* daemon: one at a time; nothing is used before it is created or after it is
  deleted; a stop signal stops it;
* status: a reader never sees a half-written record;
* JSON: what is written is read back; no more and no less than JSON is read;
  conversions agree about the same value.

The complete list of hazards, each at its line with the properties that cover
it, is in `PROJECT.json` under `hazards`.

## 2. What is modelled

| Module | Models | Composes |
|---|---|---|
| `TestMng`, `TestSlot` | handlers, test manager, log list, test processes of one port, and what the slots promise | `TestSlot` |
| `ScriptBuild` | copying, compiling and running scripts in shared folders, `texec` | |
| `MsgqThread`, `Channel` | message bridge, and what it promises | `Channel`, twice |
| `MsgFile` | one message file under two processes | |
| `Packet` | framing of the sockets, operators only | |
| `SocketServer`, `SocketClient` | the two socket classes with their threads and peers | `Packet` |
| `Daemon` | launches, main, signals, shared memory | handlers as users of `CTestMng` |
| `JsonText`, `JsonContainer`, `JsonValue`, `JsonOrder`, `JsonReader`, `JsonWriter` | JsonCpp | |
| `JsonDoc` | `test_json`: build, write, read | the JSON modules |

`MC*` modules instantiate them for TLC, `*_proofs` modules hold the proofs.

### TestMng: test manager, handlers, log list, test processes

One port.  `hpc[h]` is the point a handler thread has reached in
`ProcMsg`/`ProcSock` and, inside, in `StartTest`/`StopTest`; `tpc[t]` is the same
for a `TestThread`, `child[t]` is its process.  `iVersion`, `idThread`,
`pidTestProcess` and `listLogFile` are the members of that name.  Each read or
write of shared state is an action of its own, since only the hand-over and the
operations of the log list are locked.  Each of the latter (`mutexLog`) is one step of
the action that calls it; the two critical sections of `mutexSync` (set `iVersion`, create,
wait; read `iVersion`, signal) are one action each, because no other code takes
the mutex.

| Code | Actions |
|---|---|
| START branch, `StartTest` 103-198 | `RecvStart`, `RejectScript`, `PrepareLog`, `StartRefused`, `CompileOk`, `CompileError`, `CreateThread`, `CreateFails`, `SpuriousWakeup`, `Detach`, `ReportTest` |
| STOP branch, `StopTest` 200-223 | `RecvStop`, `StopCheck`, `Kill`, `PollDone`, `PollTimeout`, `AbortReply` |
| `TestThread` 32-93 | `Handoff`, `Fork`, `ForkFails`, `StorePid`, `Waitpid`, `CopyLog`, `DelLog`, `Clear` |
| the script | `WriteLog`, `ChildExit` |
| main loop | `CopyAll` |

* `pidTestProcess` is never initialised by the code.  It starts as `ZeroPid` or
  `Garbage`; killing `Garbage` hits nobody in the model.
* `kill(0, SIGKILL)` hits the process group: the daemon and its scripts.
* A reaped pid is not used again by the kernel while the model runs.
* `pthread_detach` with a cleared slot kills the daemon (the C library reads the
  descriptor at address 0).  A script outlives the daemon.
* The ten looks of `StopTest`'s loop are one action: it leaves early whenever the
  slot is empty, or at the last look when it is not.
* `CopyLogFile` ignores the result of `cp` (`log.cpp:71`, `:87`): a log is then as
  it was on the share, and `LogNotLost` says so.
* `Faults` says which rare results of system calls may happen: a spurious
  return of `pthread_cond_wait`, a failing `fork`, `pthread_create` or `cp` of a log.

`TestSlot` is what the manager promises of a version: a slot that one test at a
time takes while it is free, in which its script begins and ends, and which only
then is free again.  The slot is `idThread`; a thread's script is what
`child[t]` and `tpc[t]` tell of it (`Script`): it is over when the child is, killed
or not, seen by `waitpid` or not yet, and when there was no child because `fork`
failed.  With one starter the manager implements it (`SlotsHold`); with two, a
start can take a slot that is held.

Two of three handlers (`msgq`, `sock`) stand for the three threads: server and
client run the same `ProcSock`.

### ScriptBuild: from the source of a script to its process

`TestMng` takes compiling as a step that succeeds or not; this module opens it.
A job is one start, from the message (or the call of `texec`) to the end of its
script; `share`, `source` and `program` are the files, by folder and name, and a
program is named by the job that compiled it, because port and version are
compiled into it.  A start does not carry its program with it: `StartTest` stores
the path in `strRunProg` of the version and the version in `iVersion` of the
port, and the new thread takes the version from there (`Handoff`, `taken`) and
executes what that version's `strRunProg` names (`Found`).

| Code | Actions |
|---|---|
| START branches 76-143 and 229-360 of `callback.cpp`, `DoModeRun` of `texec` | `Begin`, `Reject`, `Copy` |
| `StartTest` 115-198 | `StartRefused`, `Prepare`, `Compile`, `Link`, `CompileError`, `Clean`, `Create` |
| `TestThread` 38-45, 56-65, 89, with `execvp`; `system` in `texec` | `Handoff`, `Exec`, `ExecFails`, `ScriptEnd` |
| someone puts a new revision on the share | `Update` |

* `ProcMsg` builds in the folder of the port for every version, `ProcSock` for
  `PORT_TEST` only; everything else, and `texec`'s programs, go to `work/exec`
  under the bare name of the script, for both ports (`WorkPath`, `ProcFile`,
  `RunFile`).
* `Copy` may fail unnoticed.  Into the folder of a port come all scripts, and
  only the one that ran is deleted again.
* `Compile` reads the source, `Link` writes the program: another job can come in
  between.
* Two threads run `ProcSock` (`SockCnt`), one runs `ProcMsg`: two starts of one
  version can be on their way at once, since `StartTest` looks at `idThread` before
  it compiles and sets it after.
* `want`, `uncopied`, `touched` and `crossed` are history: the revision a job
  should have, whose copy failed, whose files another job has written meanwhile,
  and whose `strRunProg` or `iVersion`; `ran` is the job whose program runs.

### MsgqThread and Channel: the message bridge

The kernel queue is two sequences, because `msgrcv` with a type takes the oldest
message of that type, under one bound (`QCap`) on their sum.  A sender, and the
bridge itself, can only push when there is room: `PushMsgq` passes no
`IPC_NOWAIT`.  `checkPc`, `procPc`, `filePc` and `mainPc` are the points reached
by the three threads and by the caller of `StopThread`.  A handled message
may be answered by up to `ReplyBound` messages from inside `ProcFunc`.  File
operations are whole steps here, and never fail.

`Channel` is what a direction promises: a FIFO channel that loses nothing while
it is open and, when it is closed, keeps one contiguous piece of what was under
way.  `MsgqThread` implements it twice, by `SendChannel` and `RecvChannel`; the
state under way is the concatenation of the queues in between.

`Jammed` is the one state from which the bridge does not recover: the queue is
full and the thread that would make room is itself in a push.

### MsgFile: one message file

`MsgqThread` takes reading and writing a file as whole steps; this module opens
them.  One file, the process that writes it and the one that reads it: the
daemon is the writer of one such file and the reader of the other, and the host,
which is not in the repository, is taken to follow the same protocol.  A file is
a sequence of slots of `MSG_PACKET_SIZE` bytes, `Hdr(n)` or `Msg(m)`.  There is
no lock, so the grain is what stdio flushes: the bodies, then the header; the
truncation, then the header.

| Code | Actions |
|---|---|
| `SendMsg` 67-71 | `SendMsg` |
| `InitMsgFile` of a missing file 97-116, 246-258 | `Create`, `CreateHeader` |
| `WriteMsgFile` 118-174 | `WriteSize`, `WriteBodies`, `WriteHeader` |
| `ReadMsgFile` 176-236 | `ReadSize`, `ReadBodies`, `ReadReset`, `ReadHeader`, `PushRead` |
| death of a process, a file that cannot be opened | `WriterCrash`, `TornWrite`, `ReaderCrash`, `ResetFails` |

* `msg_no` is a `uint16_t`: `Hdr` keeps the count modulo `HeaderRange` (65536 in
  the code), and the reader compares it with the plain count.
* A message that was written into the place of the header (an empty file) is read
  as one, with any count; a hole in the file reads as zeros, `Blank`.
* `stored`, `during`, `excused` and `again` are history: what got into the file,
  which messages are being written while a read is in progress, which the
  protocol does not promise to deliver, and what was read without being removed.
* A process that died comes back with empty queues.  A torn end stays, since
  both sides refuse a file whose size is no multiple of a slot, unless a read
  that had begun before empties the file.
* A write is torn into whole messages and a piece of one; the order in which a
  write of many messages reaches the other side is taken to be the file order.

### Packet, SocketServer, SocketClient: the sockets

`Packet` holds what both classes share: a message on the stream is a start mark,
the header with its six commas, pieces of its string, an end mark, each one unit
of the stream; `StripMark`/`StripData` and `Overflow` are the code's, including
what they do when the marks come in the wrong order and when the buffer exceeds
its bound (`BufMax` units for `SOCKET_MAX_BUF_SIZE` bytes).  `Splits` says
whether `DataSplit` fills the packet.

In both classes `checkPc` and `procPc` are the two threads, `mainPc` the caller
of `StopThread`.  The peers and the kernel are the environment: they connect,
send, close in the middle of a message, reset, refuse or vanish, and a `recv`
returns any part of what has arrived.

| Code | Actions |
|---|---|
| `SocketCheckThread` of the server 217-338 | `Listen`, `ListenFails`, `Accept`, `AcceptFails`, `AcceptAgain`, `Recv`, `RecvAgain`, `RecvEnd`, `Frame`, `FrameEnd`, `CheckExit` |
| `SocketProcThread` | `ProcStart`, `ProcMsg`, `ProcGarbage`, `ProcExit` |
| `StartThread`, `StopThread` | `StartThread`, `ClearFlags`, `JoinProc`, `JoinCheck`, `JoinDies` |
| `SocketCheckThread` of the client 226-314, `ConnectServer` 128-178, `SendCheckDummy` 210-224 | `CheckStart`, `Create`, `CreateFails`, `Connect`, `ConnectFails`, `Select`, `SelectFails`, `PollIdle`, `SendDummy`, `DummyFails`, `Recv`, `RecvAgain`, `RecvEnd`, `Frame`, `FrameEnd`, `CheckExit` |

* `eagain` is all that is kept of `errno`: after a `recv` that returned 0 the
  thread looks at the `errno` of an earlier call, and a stale `EAGAIN` keeps a
  closed connection (`RecvEnd`).
* While a client is connected the server leaves a second one in the backlog and
  polls again at once (`AcceptAgain`): it erases its buffer and reads nothing.
* A packet that did not split is queued with a pointer nobody set; `ProcGarbage`
  is the end of the process, `ProcMsg` of the same packet the luckier outcome.
* In the client, `link` is the kernel's view of the connection.  Reading
  `SO_ERROR` clears it, so that a refused connection looks open at the next
  `select` (`"dead"`).  A peer that has vanished is found out only by way of the
  dummy packet (`unacked`, `KernelGivesUp`).  Between a `poll` that times out and
  the send of that packet something may arrive; if the send then fails, the next
  round of the loop makes a new socket and what has arrived is lost (`Heard` names
  it).
* `idCheckThread` and `idProcThread` are never initialised by the constructors, and
  a thread is made only if its id is 0: either thread may not exist (`"absent"`).
  Joining such an id ends the process or hangs (`JoinDies`).
* A new connection of the client does not empty `strBuf`: the first message of a
  later connection may be lost, and one packet that nobody sent may be handled.

### Daemon: launches, main, signals, shared memory

Any number of launches of the program, each with the point `pc[p]` its `main` has
reached, its handler threads, its `CTestMng` objects (`null`, `live`, `freed`)
and its test threads; and any number of processes that write the DPS status.
Semaphore and shared memory belong to the machine and outlive them all.

| Code | Actions |
|---|---|
| `main` up to the loop | `Launch`, `CheckProgRunning`, `SetSignal`, `CreateTestFolders`, `StartThreads`, `NewTestMng`, `NewStatus`, `NotifyProgReady`, `Arm` |
| the loop | `LoopTest`, `CheckDps`, `Monitor` |
| `DeleteResource` | `DeleteStatus`, `StopThreads`, `StopHangs`, `DeleteTestMng`, `Exit` |
| callbacks and test threads | `HandleBegin`, `HandleEnd`, `HandleInit`, `StopKillsGroup`, `DetachesNone`, `TestEnd` |
| signals | `ProcSignalStop`, `DefaultSignal`, `Killed` |
| `mondps`, `test_shmem` | `StartWriter`, `OpenSem`, `WriteDps`, `KillWriter` |

* `CreateSem` makes the semaphore with value 0 and sets it in a second call; a
  process that finds it in between waits.  `SETVAL` clears all undo counts: a lock
  taken before it would be forgotten.  `ExitSem` is the kernel's `SEM_UNDO`.
* A record is two halves, written and read one after the other.
* The results of the semaphore calls are not looked at.  A `semop` can be ended by
  a signal, and `CreateSem` can fail (`base.cpp:105`, `:120`; `SemDenied` names the
  processes it fails for, before or after the semaphore is made): the process goes
  on without the lock, and `unlocked` remembers it.
* A START can detach an id that was cleared (`DetachesNone`) and a STOP can kill
  the daemon's group (`StopKillsGroup`), as `TestMng` shows in detail.
* `StopThread` joins.  A thread can be one that never comes back: in a push into a
  full queue, as run `bridge_full` shows, in the wait of a start whose
  `pthread_create` failed, or in a loop whose flag it set after it was cleared.
  `main` is then `"hung"` (`StopHangs`).
* `MSG_INIT` ends the daemon (`HandleInit`): `callback.cpp` declares as a `char *`
  what `testdm.cpp` defines as an array.
* A second use of a freed object may go well or end the process (`Touch`).

### JsonText to JsonDoc: the JSON library

The library is vendored and only the debug menu uses it; its own algorithms are
modelled because they are pure and full of boundaries.  `JsonText` holds strings
(UTF-8, escapes) and numerals; the class `Value` is in `JsonContainer` (arrays
and objects), `JsonValue` (ranges, conversions) and `JsonOrder` (order and
equality, which are recursive); `JsonReader` the machine of `Reader` with its stack of nodes and
its error recovery, one token a step; `JsonWriter` the three writers as functions
to token sequences.  `JsonDoc` builds a value operation by operation, writes and
reads it, or reads a document whose tokens come from elsewhere.

* `Int` and `LargestInt` have 4 and 8 bits in the run, 32 and 64 in the code; the
  relation that matters (the largest integer is no double of the wide type) is
  kept by counting doubles in halves with the same rounding.
* `ReadsJson` compares the reader with a reference grammar (`Denotes`).  Its named
  exceptions are what the code accepts or refuses differently: `{"":1,}` is
  accepted; after a member and a comment any token is taken for the comma; a
  comment before a colon or in an empty array is refused.
* `RoundTrip` names what does not survive: strings with U+E000 to U+FFFF or from
  U+40000 up (`jsoncpp.cpp:4346`, `:4356`), infinities (printed as `1e+9999`,
  which is not read), the sign type of a small integer, and what follows a NUL in
  a name that `StyledWriter` writes.
* An index of an array is below `maxUInt`; what `size()` wraps to beyond it is left
  out.
* `asDouble` rounds the two largest integers up, as the code's does with every
  integer above 2^53 that is no double.
* `ConversionsAgree` names one exception: the double 2^63 (2^64) passes the range check of
  `asInt64` (`asUInt64`).
* `ArrayIsAList` names two: `resize` throws when it would end in a hole, and
  removing the last element drops the holes before it.

## 3. What TLC checks

| Run | Instance | Shows |
|---|---|---|
| `testmng_handlers` | 2 starters of one version, 2 runs, fork failures, spurious wake-ups | `NoLostWakeup`, `StartReturns` (a start does not hang), `SlotFreed` |
| `testmng_one_starter` | starts through one handler, stops through both, 2 versions, 3 runs, failing fork, create and `cp` | `TypeOK`, `HandoffExact`, `SlotsHold`, `KillTargetsOwnVersion`, `LogListedWhileRunning`, `AbortOkMeansDead`, `LogNotLost` |
| `scripts` | 3 starts of 2 scripts by 3 handler threads and `texec`, 2 revisions | `ExecFindsOwnBuild` (unless another start got at the program file, at `strRunProg` or at `iVersion`), `StaleTakesFailures` (an old revision needs a failed copy and a source left behind) |
| `bridge` | 2 senders of 2, 2 host messages, 1 answer each, queue of 2 | both channels; `SendsArriveUnlessJammed`, `HostMsgsHandled`, `StopReturns`: everything gets through unless the bridge is jammed |
| `file` | 4 messages, a count modulo 4, 2 faults | `NotLost` (three ways to lose a message: a read that overlaps its write, the first write into an empty file, a reader that dies with it in hand), `InOrderOnce`, `WriteRepairs`, `Arrives` |
| `socket_server` | a client of 2 short messages, one of a message longer than the buffer | `InOrder`, `GarbageOnlyFromLong`, `NothingLost` (while no second client waits), `Heard`, `ClosedIsNoticed`, `StopReturns` |
| `socket_client` | a connection of one message and one of two | `InOrder`, `OneBadPerReconnect`, `LossIsNoticed`, `Heard`, `StopReturns` |
| `daemon` | 2 launches, one of them refused the semaphore, 1 writer, 1 port | `OneDaemon`, `DpsReadWhole`, `MngMissingOnlyAtEnds`, `StopHeeded` (the loop ends; `main` may then be `"hung"`) |
| `json` | 3 operations over 31 leaves; documents of up to 6 tokens, or of 4 fixed and 6 free ones | `ReadsJson`, `RoundTrip`, `ConversionsAgree`, `ArrayIsAList` |

Three runs show that the code does not do what its comments say (`findings`):

| Run | Property | What happens |
|---|---|---|
| `testmng_stop` | `StopKeepsDaemon` | a stop between `pthread_create` and the store of the pid uses the uninitialised pid; 0 kills the daemon |
| `testmng_two_starters` | `StartRunsRequested` | two starts overwrite `iVersion`: one version runs twice, the other never |
| `bridge_full` | `SendsArrive` | the check thread blocks pushing into the queue it alone drains; no message moves any more |

The properties of `testmng_one_starter` fail when two handlers start tests, as
`testmng_two_starters` shows (`SlotFreed` of `testmng_handlers` with them, once
there are two versions); they say what an installation gets that sends its starts
by one way only (the message files, or one socket).

**Bounds.**  *Test manager*: two runs of one version and one of another are
enough for a slot to be used again while the handler of the earlier run still
waits, and for a stale pid to meet a new run; a third run lets two of them overlap
with a third start.  `SpareThread` keeps a start from coming in when no thread is
left to run it.  *Scripts*: three jobs let two interfere with a third, two names
let a copied folder leave a source behind, two revisions let a source be stale,
two socket threads let a start meet another of its version;
the jobs are symmetric.  *Bridge*: a queue of two fills in each direction with up
to eight messages under way, and jams.  *File*: four messages with a count modulo
four let the count wrap and two batches meet one read; two faults let either side
die once, or one of them twice.  `Arrives` promises nothing after a fault (a torn
end stops the file for ever) nor once the file holds more than the count can say.
*Sockets*: a message that just fits (2 units before its end mark, `BufMax` 2) and
one that does not; two messages are joined in one `recv` or torn over two; the
second client meets the server busy and free; two connections of the client are
enough for a rest in the buffer to meet a new stream, and the first needs no
more than one whole message and the start of another for that (`FirstBound`), the
second two, to have one behind the first; two of ten `select` tries
let an error be reported at the first and read as success at the second.  Peers
are quiet once `StopThread` was called, and the server is started once.
*Daemon*: two launches overlap in every step of main, one of them being killed
while it holds the lock that the other and the writer want; with one port a
manager is still missing, live or freed.  *JSON*: all bounds of all widths, the
ends of each UTF-8 length, arrays with a hole at each end; after the first error
a document goes on for at most four tokens (`ErrorBound`), enough for the
recovery to skip a nested bracket and meet its own.

**Fairness.**  `WF` on each thread's own steps: the scheduler runs every thread
that can run, and threads share no lock that could starve one.  No fairness for
what comes from outside (messages, signals to stop, the end of a script, main's
copying, what a peer does) nor for faults.  A sender in `msgsnd` gets through when
there is room, in the order the kernel keeps, hence `WF` on `SendMsg`.  The file
threads come back every 100 ms for ever: `WF` on `WriterStep` and on `ReaderStep`.
In the socket client `WF` on `KernelGivesUp`, because a kernel gives up on a peer
that does not acknowledge, and `SF` on `PollIdle`, because `poll` does not
report data for ever that is not there.  In `Daemon` `SF` on `MainStep`: a process
that sleeps in `semop` is served first in, first out, so it gets the lock if that
comes free again and again; and `WF` on the return of a callback whose thread main joins.  The
last is a split into two cases, not a claim: a callback that does not return is
`StopHangs`, which may happen at the same place, and `StopHeeded` allows it.

**Deadlock** is not checked: a daemon that died does nothing more, the handlers
of `TestMng` stop when the threads are used up, a stopped bridge or socket has
nothing left to do, a file rests when all `MsgBound` messages are sent, scripts
and documents come to their end.

Each property is tried against a wrong variant of a definition (the operators
ending in `_Bug`, listed under `mutants`), which makes it fail.

## 4. What is proved

Of every instance, with any finite sets of handlers, threads, launches and any
versions, senders, loads, queue sizes, starts, scripts, clients and buffers:

| Theorem | Statement | Argument |
|---|---|---|
| `TestMng_proofs!TypeCorrect` | `Spec => []TypeOK` | inductive; it carries that a thread past the hand-over knows its version |
| `KillIsSelective` | `Spec => []KillTargetsOwnVersion` | inductive with `TypeOK` and: a thread that stores its pid has a child |
| `WakeupsSuffice` | no `"create"` fault: `Spec => []NoLostWakeup` | inductive; each action moves at most one element of either set, by lemmas on the cardinalities |
| `OneStarterHandsOff` | `OneStarter`: `Spec => []HandoffExact` | needs the invariant below |
| `OneStarterRunsOnce` | `OneStarter`: `Spec => []OneRunPerVersion` | ditto |
| `OneStarterHoldsSlots` | `OneStarter`: `Spec => SlotsHold` | step simulation: each action is a `Take`, `Begin`, `End` or `Leave` of `TestSlot` or leaves it alone |
| `OneStarterAborts` | `OneStarter`: `Spec => AbortOkMeansDead` | the slot is empty when ABORT OK is sent, and a live script holds its slot |
| `OneStarterListsLogs` | `OneStarter`: `Spec => []LogListedWhileRunning` | `StartIsListed`, below |
| `OneStarterKeepsLogs` | `OneStarter`: `Spec => LogNotLost` | `FreshIsOwned`, below |
| `ScriptBuild_proofs!TypeCorrect` | `Spec => []TypeOK` | inductive |
| `RunsOwnBuild` | `Spec => []ExecFindsOwnBuild` | `OwnInv`, below |
| `StaleSource` | `Spec => StaleTakesFailures` | needs `StaleInv`, below |
| `MsgqThread_proofs!TypeCorrect` | `Spec => []TypeOK` | inductive, the queue bound included |
| `SendImplementsChannel` | `Spec => SendIsChannel` | step simulation: each action is a `Put`, `Take` or `Close` of the channel or leaves it alone |
| `RecvImplementsChannel` | `Spec => RecvIsChannel` | ditto, with the message in the hand of the check thread as part of the channel |
| `MsgFile_proofs!TypeCorrect` | `Spec => []TypeOK` | needs that the file never shrinks under a reader |
| `WritesRepair` | `Spec => WriteRepairs` | needs the invariant below |
| `NoOtherLoss` | `Spec => []NotLost` | `HeaderFirst` and `ReadInv`, below |
| `OrderKept` | `Spec => []InOrderOnce` | `QueueInv`, `SeenIsOlder` and `OrderInv`, below |
| `SocketServer_proofs!TypeCorrect` | `Spec => []TypeOK` | inductive with: a stopped server has no check thread; uses `Operators_proofs` on what framing returns |
| `PacketsInOrder` | `Spec => []InOrder` | `OriginInv`, `BacklogInv` and `StreamInv`, below |
| `GarbageIsLong` | `Spec => []GarbageOnlyFromLong` | ditto |
| `NothingIsLost` | `Spec => []NothingLost` | from `StreamInv` and `InOrder`, below |
| `SocketClient_proofs!TypeCorrect` | `Spec => []TypeOK` | inductive with: before a connection is made nothing can be read |
| `PacketsInOrder` | `BufMax >= 2`: `Spec => []InOrder` | `Clean` or `Dirty`, below |
| `OneStrayEach` | `BufMax >= 2`: `Spec => []OneBadPerReconnect` | ditto |
| `Daemon_proofs!TypeCorrect` | `Spec => []TypeOK` | `ThreadsLive`: the threads of a launch are those its main has started |
| `AtMostOneDaemon` | `Spec => []OneDaemon` | a launch that counted one process was the only one alive, so no other is past its check |
| `MngThereInBetween` | `Spec => MngMissingOnlyAtEnds` | `MngInv`: from the status object to the first delete, all managers are live |
| `DpsNeverTorn` | `Spec => []DpsReadWhole` | `LockInv` and `DpsInv`, below |
| `DpsLockExcludes` | `Spec => []DpsExclusive` | `LockInv` |
| `Operators_proofs!ConversionsAlwaysAgree` | `Agrees(v)` for any widths and every value `v` | by the type of `v`, linear arithmetic |
| `AppendAppends`, `ResizeResizes`, `RemoveRemoves` | `Appended`, `ResizedTo`, `RemovedAt` of any array and what the operation makes of it | the last index is the greatest of a bounded set (`BoundedMax`), then item by item |

`HandoffExact` is not inductive.  What makes it so: while a thread is born and
has not taken its version, the one starter is waiting, `iVersion` is the version
in its hand, and that slot records the thread; every thread between its birth
and `Clear` is the one its slot records.

For `SlotsHold` the same invariant tells which slot a script begins in and is left
by: a thread between its birth and `Clear` is the one its slot records, and it
clears the slot of the version it runs.  A `kill` of the daemon's own group ends
several scripts in one step, which is one `End` of their set.  No run needs
`OneRunPerVersion` beside it, though it is proved: two scripts of a version would be
two holders of its slot, given `HandoffExact`.

For `LogListedWhileRunning` (`StartIsListed`): the log of a version is listed from
the moment its start has compiled it, through the hand-over, until its thread
unlists it.  `LogNotLost` needs in addition that a log with lines not copied yet
belongs to a thread that has still to try and copy it (`FreshIsOwned`); the log of
a copy that failed is not among those.

For `WriteRepairs`, while a write lasts: a read that can still empty the file
knows its messages (`during`), a read that has emptied it has excused one of
them, and if none is excused the file has the size the writer believes it has.

For `NotLost`: a message in the slot of the header is one a fault has excused, and
so is the one a write is about to put there (`HeaderFirst`); what a read has not
seen of the file was written while the read lasted, and what it has taken stays in
the file until the read empties it (`ReadInv`).

For `InOrderOnce`: the queue and the messages in the writer's hand go up
(`QueueInv`); whatever was ever written is older than all of those (`SeenIsOlder`);
and what was read comes before what the reader has in hand and that before what is
in the file, except for messages read from a file that was not emptied after
(`OrderInv`).

For the server (`SocketServer_proofs`): what it holds of a connection comes from
the client of that connection (`OriginInv`); a connection is made once and is
in one place, new, waiting or accepted (`BacklogInv`); and the buffer and then the
stream of the connected client, if its messages fit, hold its messages one after
the other from the start of one, which is the one after its last packet
(`StreamInv`).  The lemmas about such a stream (`Shape`) say that sending keeps it,
that its first packet is its first message, and that what remains is again one.
`NothingLost` follows: a message from the first one of the stream on has its end
mark in it (`EndsAreThere`), and those before it are packets (`EarlierArePassed`).

The client does not empty its buffer when the connection changes, so the same
invariant does not hold.  What the check thread has in its buffer and its stream
is `Clean` or `Dirty`.  Clean: it begins with the message that is the next to be
passed on, and nothing is missing.  Dirty: it begins with the rest of an earlier
connection, or with a message cut by the bound of the buffer (`Debris`).  Then
nothing of this connection was passed on, and one stray packet less than allowed
was.  The next packet makes it clean again: it is that connection's first message
or the stray one.  Two more facts are needed: the loop over the buffer is long
enough for what the buffer got (`iCnt`), or a message would be left behind; and
no end mark is numbered above what the peer may send (`Numbered`).

`BufMax >= 2` is an assumption of the two theorems only: the peer's messages are
three units long, and a buffer that holds two of them holds all of a message but
its end mark.  The code's bound is `SOCKET_MAX_BUF_SIZE`, 1024 bytes, and a
packet is 32 bytes (`MSG_PACKET_SIZE`), printed in less than 100.  The assumption is
needed: with `BufMax` 1 TLC finds both properties violated, because a message cut by
a read is then thrown away.

For `ExecFindsOwnBuild` (`OwnInv`), of a job that no other has touched or crossed:
between its link and its `exec` its program is in its path (`Built`); and, unless it
is `texec`'s (`Told`), from `Prepare` on `strRunProg` of its slot names that path
(`Stored`), `iVersion` is its version while its thread is born, and the thread has
taken that version after (`HandedOver`).

For `StaleTakesFailures` (`StaleInv`): a source in `work/exec` or in `texec`'s
folder was left by a job that has not come to its clean-up or never will
(`HasOwner`); what a job wants is not newer than the share (`Wanted`); and a job
about to compile an older source has failed to copy and there is such an owner
beside it (`StaleExcused`).  A job whose copy succeeded cannot become stale,
because every later copy of that name is as new.

For `DpsReadWhole` (`LockInv`): while no process went on without the lock, a process in its
section, or about to `SETVAL`, is the only one, the value of the semaphore is then
0, and the undo counts say exactly who is inside.
(`DpsInv`): while nobody writes the two halves agree unless a writer died between
them, and a reader's first half is that of the memory.

Of the JSON library the four theorems are about operators, for `Int` and
`LargestInt` of any width and arrays of any size.  `ConversionsAgree` is `Agrees` of
the value built, and `ArrayIsAList` says `Appended`, `ResizedTo` and `RemovedAt` of
every step that builds one; `OperationsBuildValues` closes the circle: whatever an
operation makes is again a value the theorems are about.  An array has holes, so
its size is one more than its greatest index; that there is one is what
`IsBoundedArray` asks for.  They are stated in a module of operators, where the two
sockets find the facts about framing too, because `JsonDoc` itself reaches the
recursive order of values.

Assumptions: the named `ASSUME`s of the modules (sets of the right kind, the
special values outside the sets, finite sets of handlers, threads and launches),
and the three hypotheses the table names: `OneStarter`, no `"create"` fault, and
`BufMax >= 2`.  Each is a choice of constants that a passing run makes too.

Left to TLC: the liveness properties (fairness and `ENABLED` are out of the
prover's reach), and of JSON `ReadsJson` and `RoundTrip`: the reader is compared
with a grammar and the writers with the reader by recursion over the values, and
what a recursive definition computes for every value takes an induction over
data.  `ConversionsAgree` and `ArrayIsAList` are run as they stand and proved of
the operators they are made of.  Every other property of a passing run is the
statement of a theorem.  `TypeOK` of the bridge, the file, the scripts, the daemon,
the server and the client is proved and not run, and so is `OneRunPerVersion`.

## 5. What the plan has left

The planned modules are there: `TestMng` on `TestSlot`, `MsgqThread` on `Channel`,
`MsgFile`, `Packet`, `SocketServer`, `SocketClient`, `Daemon` (with the shared
status, the creation and deletion of the objects and the signals), `ScriptBuild`
and the JSON modules.  The start and stop of the thread pairs are in the module of
each pair.  The planned proofs are there too.

The semaphore of the shared status has no abstract specification of its own: a lock
promises that at most one process is inside, which is `DpsExclusive`, and
`LockInv` says on which conditions.

What would come next follows the code, not the models: if the daemon came to use
the JSON library for its messages, `OurReader` and the scanning of tokens would be
worth modelling.

## 6. Not modelled

* Test manager: `InitTest`, which empties a folder.  Its only caller, the
  `MSG_INIT` branch, does not get that far.
* Handlers: the filter on port numbers, and the texts they send.
* Bridge: a second `StartThread` after `StopThread`, which nothing calls.
* Sockets: `Send` of the server, which has no caller (answers go through the message
  files), and `qSend`, which is never filled; a second `StartThread` of the client.
* Status: `CheckOs`, shell pipelines whose text goes to a record; the run bits of
  `CheckTest`, which nobody reads.
* `base.cpp`: file, timer and directory helpers; `def.h`: constants and layouts.
* Script library: the macros that build one message each.
* `texec`: its listing and update modes, which print and copy files, and its
  `ProcExec`, which nothing calls.
* `mondps`: the serial line.
* Debug menu: the entries that call one library function each.
* JsonCpp: `OurReader` and its builder (the same machine with switches),
  `StyledStreamWriter`, `Path`, comments kept with values, source offsets,
  iterators, the printing of the 17 digits of a double.
* Formatting of messages and paths, the logs of the daemon itself, timers.
* `std::queue` operations of two threads that overlap inside the library
  (`qReadMsg`, `qWriteMsg`, `qRecv`): each is one step here.
