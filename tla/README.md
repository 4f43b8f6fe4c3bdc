# TLA+ models of x64dbg

This directory models the parts of x64dbg that several threads share: ElfBug, the
ptrace engine of the cross-platform debugger (`src/cross/ElfBug`), and, of the Windows
debugger core (`src/dbg`), the locks, the task threads, scripts and the breakpoints that
interrupt them, the life of a debug session, and the annotations that plugins are told
of. Paths below are relative to the repository. Every definition that models code is listed with its
lines in `PROJECT.json`, under `map`.

## 1. The system

| Component | State | Operations | Works with |
|---|---|---|---|
| ElfBug `Process` (`ElfBug/process/Process.Breakpoint.cpp`, `Process.Memory.cpp`) | the map of breakpoints (armed, saved byte, single-shot), the debuggee's memory | set, delete, lift, re-arm, disarm all, re-seat after exec, MemRead, MemWrite | tracer; API |
| ElfBug tracer (`ElfBug/core/Debugger.cpp`, `Debugger.Loop*.cpp`) | per thread: running, suspend count, owed SIGSTOP, pending hit, kept signal; requests of the user | `debugLoop`, `handleSignal`, `stopAllThreads`, `pauseAndResume`, `resumeAllThreads`, step off a breakpoint; Pause, Continue, StepInto, Suspend, Resume | kernel (ptrace, waitpid); `Process`; API |
| ElfBug launch, attach, detach; step over, exec; API and snapshots; registers, hardware breakpoints, procfs | session state, planted step-over byte, published snapshots, command queue | `core/Debugger.Attach.cpp`, `Debugger.StepOver.cpp`, `Debugger.Loop.Events.cpp`, `api/elfbug_api.cpp` | tracer |
| Section locks (`dbg/threading.h`) | an SRW lock, an owner and a count per lock; scopes on thread stacks | SectionLocker, Lock, Unlock, with or without ProcessGuiEvents | everything in `dbg` |
| BridgeResult (`gui/Src/Bridge`) | one critical section, one event and result per type | construct, Wait, setResult | core threads, the GUI's main thread, the locks they hold |
| Task threads (`dbg/taskthread.h`) | arguments, a semaphore, a worker | WakeUp, Loop, destructor | debug thread, log, views |
| Job and message queues (`dbg/jobqueue.h`, `msgqueue.cpp`) | queue, worker, destroy flag | async, await, stop; send, wait, free | GUI, scripts, command loop |
| Scripts (`dbg/simplescript.cpp`) | the lines, a position and a stack, a state, a requested interrupt, the outcome of a breakpoint command | run, step, abort, execute one command; interrupt, await the yield, resume | debug thread, command thread, job queue |
| Debug loop and breakpoint callbacks (`dbg/debugger.cpp`, `threading.cpp`) | WAITID_RUN, whether something is debugged, the debug loop thread | callbacks of events, pause, start, end | TitanEngine, scripts, plugins, GUI |
| Commands of a session, exit (`dbg/commands/cmd-debug-control.cpp`, `x64dbg.cpp`, `command.cpp`) | LockDebugStartStop, the command thread and its queue | init, attach, detach, stop, run; command loop; exit | debug loop, scripts |
| Breakpoint list (`dbg/breakpoint.cpp`) | a map under a lock | set, delete, enumerate | debug loop, GUI |
| Plugin loader (`dbg/plugin_loader.cpp`) | plugins, callbacks, menus, each under a lock | load, unload, register, call back | GUI, plugins |
| Annotations (`dbg/function.cpp`, `loop.cpp`, `addresscolor.cpp`, ... over `serializablemap.h`, `database_cb_batcher.cpp`) | a map of ranges under a lock each; a batch per thread | add, delete, split, clear, load; report to plugins | commands, analyses, GUI, plugins |
| Memory map, modules, threads, patches, variables, watches, trace record, history | maps under a lock each | set, get, delete, enumerate, save, load | debug loop, GUI |
| Expressions, formatting, types, symbols, analysis, assembling | little or none | mostly pure | all |
| Cross-platform front end (`cross/debugger`) | the adapter between the GUI's bridge and ElfBug's API | commands, updates of views | ElfBug API |
| Bridge, GUI, executables, viewers, disassembler wrapper, TitanEngine | views; external engine | | |

What is hard in it: threads of the debuggee that stop and run while the tracer
decides; SIGSTOPs owed to the kernel; a breakpoint byte that is out of memory while
one thread passes; locks that are recursive on top of locks that are not; a GUI
thread that must go on handling events while it waits; wakeups that coalesce; a script
and a breakpoint callback that wait for each other; an exit that stops what other
threads are starting; a change that is reported after its lock is given back. What must
hold, by component:

- `Process`: breakpoints never show in what MemRead returns, writes take effect
  exactly where they were transferred, and teardown leaves no traps.
- Tracer: at a pause everything is stopped and every byte is back; nobody passes a
  breakpoint unnoticed or runs from inside an instruction, a thread that was just created
  included; no hit, signal, step or pause request is lost; suspended threads stay frozen; the tracer never waits for
  nothing.
- Locks: exclusion, exact bookkeeping, no circular wait, or at least not of the locks alone.
- Task threads: no lost wakeup, nothing lost, doubled or reordered, an orderly end.
- Scripts: the script and the callback of a breakpoint take turns; no line is lost,
  doubled or run on a foreign position; a breakpoint does not make a script fail; neither
  thread waits for the other for ever.
- Sessions: never two debug loops; a script goes on after the first pause; stopping and
  leaving come to an end.
- Annotations: every plugin knows what the maps hold; splitting ranges loses nothing.
- API (planned): no command of a closed session reaches the next one. Breakpoint list
  (planned): iteration over a changed map. Job queue (planned): calls that never return.

`PROJECT.json` lists all components with their status, and the hazards of the code
line by line with the properties that watch over them.

## 2. Modules

| Module | Models |
|---|---|
| `ElfMemoryView` | abstract: the debuggee's memory as the user should see it |
| `ElfBreakpoints` | `Process`: records, bytes in memory, writes, dispatch, exec; implements `ElfMemoryView` |
| `ElfBreakpoints_proofs` | its theorems |
| `ElfTracer` | the tracer thread against the kernel and the user |
| `ElfTracer_proofs` | its theorems: types, what waits for a stop, owed SIGSTOPs |
| `ElfTracerAllStop_proofs` | mThread across the calls of the tracer's functions, the all-stop, and breakpoints without steps |
| `SectionLocker` | `dbg/threading.h` |
| `SectionLocker_proofs` | its theorems |
| `GuiLocking` | `SectionLocker` composed with BridgeResult and the GUI's event loop |
| `GuiLocking_proofs` | what is proved of the locks, carried over; every circle goes through the GUI thread |
| `Mailbox` | abstract: what a task thread promises |
| `TaskThread` | `dbg/taskthread.h`, both classes; implements `Mailbox` |
| `TaskThread_proofs` | its theorems, the implementation of `Mailbox` among them |
| `ScriptEngine` | scripts, the callback of a breakpoint, the user who aborts and runs |
| `ScriptEngine_proofs` | its theorems |
| `DebugSession` | the command thread, a script and the exit that start and stop sessions |
| `DebugSession_proofs` | its theorems |
| `Annotations` | maps of ranges, the batcher of database callbacks, the plugins |
| `MC...` | instances for TLC; each `.cfg` is one run |

Mutants. Definitions marked "(variant: ...)", and those placed right before the
definition they resemble, are faulty versions of it. The `mutants` of `PROJECT.json` say which
property notices which of them.

### ElfBreakpoints

Variables are the debuggee's mapped addresses and bytes (`mapped`, `mem`), the
fields of the records (`recs`, `armed`, `saved`, `singleshot`), the dispatch under
way, whether an execve waits to be taken in, and `dirty`, the addresses the debuggee
changed under a record, about which `Process` promises nothing. One action per
method; reads are the operator `View`. A transfer stops at the first unmapped byte,
as the code's partial reads and writes do. Steps of the debuggee and the kernel
(`Debuggee...`) are external.

### ElfTracer

The kernel's side is `k` (per thread: not yet created, running, stepping, stopped or dead;
the status waitpid would return; queued SIGSTOP and signal; where it is; whether it is
exiting; the thread its clone created) and `procStop`, a SIGSTOP for the process. The
threads of `Births` are created by a traced clone and start with a SIGSTOP queued; those of
`Exits` may stop for PTRACE_EVENT_EXIT and end. The tracer's side is `th` (the fields of `Thread`), the
breakpoints, and `stack`: the activations of the tracer's functions, since
`handleSignal`, `pauseAndResume` and `resumeAllThreads` call each other. An action
runs from one point where another actor can interfere (a system call that waits, a
lock given back, a request flag read) to the next. The user's thread is the actions
under `User`: its calls raise the request flags and send SIGSTOPs. `Calls` says which
of them a configuration lets race with the tracer.

`hits` and `owed` are history: hits that happened and were not reported, signals
taken from a thread and not given back.

Clone and exit events are handled where they are met: in the loop (HandleClone,
HandleExit, Reap), in the sweep (SweepClone, SweepExit, SweepReap, SweepGone), in the drain
of an owed SIGSTOP (SwallowTake, SwallowLost) and in the step over a byte (StepTaken).
RegisterClone is `createThreadEvent`, ExitThreadEvent `exitThreadEvent`.

Not modelled: the exit of the leader, exec, clones into another process
(`mUnregisteredRunning`), SIGKILL, step over of calls and of pushf, detach and stop;
the bound of 32 attempts in `swallow`; several signals per thread (the code drops the
second, `Debugger.Loop.Signal.cpp:296`, so `MaxSignals` is 1).

### SectionLocker and GuiLocking

`srw` is the Windows lock, `owner` is `m_exclusiveOwner`, `scope` and `depth` are the
SectionLocker objects on each thread's stack. `AcquireLock` is a step for the check
of the owner, one for the grant, one for booking; `ReleaseLock` clears the owner in
one step and hands the SRW lock back in another, so that others run in between.
`m_LockCount` is 0 or 1 in all uses and is the stage of the scope (`held` or not). A
scope may be released in any order but no inner scope may hold the same lock then, as
in the code. `Nests` says how the code nests two locks; exclusion is proved for any of
it, and for one that follows an order that every deadlock goes through the GUI thread.

GuiLocking adds `csBridge` and `call`. The GUI thread answers a call when it is idle,
between two tries for a lock taken with ProcessGuiEvents, or in `BridgeResult::Wait`. Any
thread may call, the GUI thread included: its own call finds the event handled by the
`processEvents` of `Wait`, for which `BridgeResult.cpp:31` has a branch. The constants are
those of the plugin menus: LockPluginMenuList, taken without ProcessGuiEvents and held over
calls, around LockPluginCallbackList, taken with it.
Calls made from inside a call of the same thread, and locks taken inside one, are not
modelled. An SRW lock with a writer waiting lets no reader in; `WaitsFor` counts the
waiting writer as one the reader waits for.

### TaskThread

Posts are numbered in the order in which WakeUp exchanges the arguments. `args`,
`argLatch` and `calls` are sequences of such numbers: all the posts a string collects,
the last one only in a plain task. `concat` says which of the two classes the task is;
it is chosen at the start. The exchange in WakeUp and the latch in Loop are one step
each, since both are under the critical section; the semaphore, the reads of `active`
and the call are steps of their own. The destructor starts when nobody is in WakeUp,
as C++ asks of its caller.

### ScriptEngine

A script is a sequence of lines of three kinds: one that runs the debuggee, one that does
not, and `ret`. `worker` is where the worker of the job queue is in `scriptRun`,
`scriptInternalCmdExec` and `scriptHandleInterrupt`; `jobs` is what waits behind it.
`debug` is where the debug thread is in the callback of a breakpoint: it looks whether a
script runs and requests a yield (`ScriptInterruptAwait`), waits for it, takes WAITID_RUN,
executes the breakpoint's command, and lets the script go (`ScriptResume`). That command
is executed on the debug thread if the script has yielded, and queued for the worker
otherwise. It calls a routine of the script, fails, or is an ordinary one (`"cmd"`), which
goes the way of a line's command on either thread: it waits for the debuggee to pause, takes
the outcome that is pending, and looks for an interrupt, for which the debug thread may
execute `scriptHandleInterrupt` itself (the places `own...`). `result` and `taken` are the
outcomes that the worker and the debug thread took. Loads and stores of
shared variables that race are steps of their own; the waits with timeouts look at the
variables again, so the events that shorten them are left out. The user may run the
debuggee and abort the script; the abort waits for the queue, as `scriptAbort` does.

`trace`, `yielded`, `complaint` and `userRan` are history: the lines executed, whether the
debug thread saw the script yield, whether something failed, whether the user ran the
debuggee under the script. Left out: the text of lines, breakpoints of the script itself,
the GUI, stepping of the debuggee.

### DebugSession

Three clients execute commands: the command thread (`cmdloop`), which takes messages from
gMsgQueue, the worker of the scripts, which waits for a pause after each command, and the
thread that closes the debugger (`_dbg_dbgexitsignal`). `pc`, `todo` and `job` say what
each does; `owner` is LockDebugStartStop; `thread` is where the debug loop thread is
between `debugLoopFunction`'s begin and end; `running` is WAITID_RUN. Starting
(`cbDebugInit`, `cbDebugAttach`), stopping (`cbDebugStop`, with its 10 seconds and the
TerminateThread after them), detaching and running are actions per step between which
another thread can come. MsgSend, MsgWait and MsgFreeQueue are modelled with their
counters; MsgFreeQueue sends one wake message per waiter. A sender looks at Destroy in one
step (SendCheck) and puts its message in another, since MsgFreeQueue may come between them.
The wait of cbDebugStop cannot fail: the handle is the session's own, taken out of
hDebugLoopThread under LockDebugStartStop, so the branch for WAIT_FAILED
(`cmd-debug-control.cpp:239`) is left out. `paused` and `killed` are history.

Messages are sequences of commands; a command that is not known fails, and the rest of
its message is dropped. Left out: what a session does between its pauses, the yield of
scripts (ScriptEngine), elevation and restart, and saving the database.

### Annotations

A behaviour follows one kind of annotation: functions, colours of addresses, or loops.
`store` is the map: entries with the range they were stored under and their value, since
a range that overlaps a key is that key for the map (`addrinfo.h:14`), and storing over it
changes the value only. `stack[t]` holds the calls a thread is in: between the check of
FunctionAdd or LoopAdd and the insertion, reporting, or in a plugin's callback, which may
call again. `batch[t]` is the batcher of the thread. Each call changes the map in one
step, under its lock, and hands the operations on one by one afterwards. `mirror[p]` is
what a plugin knows that applies the operations it is told of, in order, to a bag.

`outOfStep` is history: the addresses at which the code lets a mirror go wrong, in three
ways. (1) A change is made while another thread, an interrupted report, or a callback that
has not reached the last plugin has an earlier change to tell of: reports are made after
the lock is given back (`serializablemap.h:124`), plugins are called one by one
(`plugin_loader.cpp:834`), and a batch is cut in the middle of a report when it is full
(`database_cb_batcher.cpp:80`). (2) FunctionAdd stores over a function that came after its
check (`function.cpp:60`). (3) LoopAdd reports a loop that emplace refused
(`loop.cpp:120`), see below. MirrorExact says that nothing else goes wrong; each of the
three exceptions is needed, TLC finds a violation without it.

Left out: modules (there is one), text, parents and instruction counts, whether a plugin
is registered when a batch begins, saving. Comments, labels, bookmarks and arguments go
through the same maps and the same batcher.

## 3. Runs

| Run | Instance | Shows |
|---|---|---|
| `elf_breakpoints` | 2 adjacent addresses, 3 byte values | `Process` keeps its promises under every interleaving of user, tracer, debuggee and exec |
| `elf_tracer` | the leader and a thread that is created and exits, a breakpoint on a rep, fair | AllStop, SigstopOwed, and every Pause() ends in a pause unless a thread exits |
| `elf_tracer_step` | 3 threads, one of them created on the way, 1 breakpoint, fair | stepping past a lifted byte: LiftedAlone, NeverRunsPast, StepStaysAStep, StepAnswered |
| `elf_tracer_suspend` | 2 threads, 2 breakpoints, one of them on a rep, suspends while running, 1 signal | SignalsConserved, NoSilentHang, PendingHitInPlace, LiftedIsNoted |
| `elf_tracer_timeout` | the leader and a thread that is created and exits, expiring waits, suspends nested to 2, resumes while running | late stops lose nothing: HitsAccounted, FrozenStays |
| `gui_locking` | GUI thread, a worker, 2 locks, 3 scopes, calls into the GUI from both | exclusion, exact books, every circle goes through the GUI thread |
| `task_thread` | 2 producers, 5 posts, fair | order, `Mailbox` (no lost wakeup), the destructor returns |
| `script_engine` | 6 lines, 2 events, breakpoints that break, call, fail, or execute a command, abort and run by the user, fair | turns, order, no failure without a reason, nobody stuck |
| `debug_session` | a message, a script of 3 commands, 2 sessions of 2 pauses, the exit, fair | one debug loop, no empty command, the script's wait, stop and exit return |
| `annotations` | 2 threads, 2 plugins, 4 addresses, 3 calls and 1 from a callback, batches of 2 | MirrorExact, ColoursAsPainted |

Runs that end in a counterexample, each with a finding in `PROJECT.json`:

| Run | What happens |
|---|---|
| `elf_tracer_lost_step` | a thread suspended during its step is parked with its step flag set and the byte lifted; resumed, it is continued, and its next int3 is taken for the end of the step |
| `debug_session_exit` | a script starts a session after the exit has stopped the last one ("after this, debugging stopped", `x64dbg.cpp:987`) |

Bounds. Two addresses suffice for a write that covers one record, both, or stops
between them. A pair of threads meets in each step of the tracer; stepping needs a
third (the one stepped, one with a pending hit, one being swept). Suspends nest to 1
where they are made while threads run and to 2 where they are made at a pause: deeper
counts take the branches of these. Suspending and resuming while threads run are in
runs of their own; with both in one instance without clone and exit (3.1 million states)
AllStop and FrozenStays hold as well. One thread that is created and exits meets each
place that handles its events; that a thread exits while the tracer drains its owed SIGSTOP
takes a pause, a switch and a step together, an instance of 1.8 million states in which
AllStop and SigstopOwed hold, too large to be a run. Three scopes
are a lock, the same lock again, and another lock inside; `MaxScopes` and the number
of threads are arbitrary in the proofs. Five posts are one in the call, one latched,
one collected, one whose release is redundant and one late. The script runs the debuggee,
does something else, runs it again, and has a routine that runs it once more; two events
are a breakpoint while the script waits and one after the user ran, or in the routine. Two
sessions are one and the one that replaces it; one message next to the script and the exit
already fills the three clients. Two addresses are enough for a race about a key and its
value, four for a loop around loops inside a loop; a batch of two is full in the middle of
a report of three removals; of two plugins the first is told before the second.

Fairness. `ElfTracer` assumes that the tracer thread is scheduled, that running
threads execute and take queued signals, that a thread in exit ends, and that Pause()
sends its SIGSTOP after raising the flag; nothing about the user, and nobody has to create
a thread or exit. `TaskThread` assumes that the worker runs
and its function returns, that WakeUp goes on to the semaphore and that a started
destructor goes on; nobody has to call WakeUp or destroy the task. `ScriptEngine` assumes
that the worker and the debug thread are scheduled, that a running debuggee reports an
event or exits in the end, and that a user's call that began goes on. `DebugSession`
assumes the same of its threads, that TitanEngine's loop returns after StopDebug or
DetachDebuggerEx, and that a process that is attached to reports an event; a debuggee that
runs freely need not stop. The runs without liveness use the specification without
fairness.

Six configurations turn the deadlock check off: a destroyed task, a finished script, a
debugger that has exited and threads that made all their calls stop for good. The blocked
states that would be wrong violate DestructorReturns, NobodyStuck, StopReturns or
ExitReturns; in `Annotations` nobody waits for anybody. In `gui_locking` the code does
deadlock, see NoCircularWait below; CirclesBlockTheGui says where it may. In `elf_tracer_timeout` the tracer
does stop for good, in a way the code really has: see "a Resume that asks an exiting
thread" below. The other runs of `ElfTracer` check for deadlock.

What holds only in part:

- With expiring waits, AllStop and LiftedAlone fail by design: after
  `kStopWaitTimeout` the tracer goes on without the thread. The run checks what
  remains true.
- AllStop fails when threads are created and `"suspendRunning"` is among the calls: a Continue steps
  the current thread off its byte, the step is a clone that lets a child go, and the user
  suspends every thread it knows of before the tracer looks for one to run. It finds none and pauses
  at once, without stopping the child (`Debugger.Loop.cpp:563`). `elf_tracer` and
  `elf_tracer_suspend` keep the two apart.
- HitsAccounted and FrozenStays are checked without steps: with expiring waits and a
  step, a hit can be taken for the end of the step, and a thread that was suspended after
  its stop timed out is stepped on when it comes (`Debugger.Loop.Signal.cpp:711`).
- A step into the end of its thread hangs: the exit event lets the thread go, the all-stop
  keeps every other thread stopped, and the tracer stays in waitpid. Pause() finds no thread
  to interrupt and queues a SIGSTOP that nobody takes. NoSilentHang fails as soon as `"step"`
  and `Exits` are combined; StepAnswered asks only for a pause or the thread's end
  (`Debugger.Loop.Signal.cpp:1082`).
- A Resume, or a Pause(), that asks an exiting thread: one running thread is sent a SIGSTOP
  and may exit before it takes it (`Debugger.cpp:253`, `Debugger.cpp:337`). The request then
  waits for the next stop of any thread, if there is one. PauseAnswered promises nothing
  once a thread exits.
- With a clone, a step and a pause together, StepStaysAStep and ArmedAtPause fail: a sweep
  that meets the clone of a stepping thread continues it, and the step flag and the lifted
  byte stay (`Debugger.Loop.Signal.cpp:404`).
- NeverRunsPast, ArmedAtPause and StepStaysAStep fail in more combinations of a step with
  something that interrupts it: all three with a pause, or with a resume while the debuggee
  runs, the first and the last with a signal and a birth or an exit. `elf_tracer_step` checks
  them with steps where they hold; without steps they are proved (section 4).
- LiftedAlone also fails when a pause or a signal comes while resumeAllThreads steps a thread
  off its byte and the user then steps: when that step's byte is lifted, resumeAllThreads goes
  on and continues the other threads.
- A clone event that is handled after its child has ended registers a thread that does not
  exist; it counts as running until a sweep finds it gone
  (`Debugger.Loop.Events.cpp:61`).
- ArmedAtPause fails with two threads and a rep. A thread whose own stop is reported has put
  its byte back, at a hit too (`Debugger.Loop.Signal.cpp:1210`); one that is swept for the
  stop of another thread, or reported from its pending hit (`Debugger.Loop.cpp:302`), has
  not. LiftedIsNoted, which `elf_tracer_suspend` checks, is what remains: the byte is noted
  for a thread. With two breakpoints on reps that fails as well: the next lift overwrites the
  note (`Debugger.Loop.cpp:396`), and the first byte does not come back.
- SignalsConserved fails with two signals of one thread (`MaxSignals` 2), see section 2.
- ResumeAnswered (in `ElfTracer`, in no run) fails: a Resume between the tracer's list of
  threads to resume and its first PTRACE_CONT is not noticed (`Debugger.cpp:253`).
- The current thread can outlive its `Thread`. resumeAllThreads keeps mThread across its
  step-offs and puts it back unconditionally (`Debugger.Loop.cpp:139`; resumeStoppedThread
  likewise, `Debugger.Loop.Signal.cpp:520`), also when a pause inside the step-off has seen
  that thread exit: the user switches to a thread that is about to exit and steps it. The
  pointer dangles then. TLC found this with an exiting thread and the calls switch, step and
  pause, as a violation of "the current thread is known"; `ElfTracer` goes on with an empty
  record in its place, and the theorems say "known, or dead".
- NoSilentHang fails when `"pause"` joins `"suspendRunning"`: the SIGSTOP of a Pause
  that reaches a thread suspended during its step-off leaves it stopped without a look
  at whether anything still runs (`Debugger.Loop.Signal.cpp:729`).
- LiftedAlone also fails with resumes while running and with a rep on several threads;
  PendingHitInPlace fails with resumes while running and when StepInto is followed at
  once by Continue.
- NoCircularWait (in `GuiLocking`, in no run) fails: the code deadlocks. CirclesBlockTheGui,
  which the run checks, says that each deadlock is of one of these kinds:
  - `pluginmenuadd` holds LockPluginMenuList over GuiMenuAdd on a worker
    (`plugin_loader.cpp:940`), and `pluginmenucall` waits for that lock on the GUI thread
    (`plugin_loader.cpp:1076`) without ProcessGuiEvents, which it asks for with the inner lock
    only (`plugin_loader.cpp:1086`);
  - the GUI thread calls the GUI itself and blocks in BridgeResult's critical section while
    its owner waits for the GUI thread (`BridgeResult.cpp:9`);
  - a handler that the GUI thread runs while it tries for the inner lock takes
    LockPluginMenuList once more, behind a writer that waits for the first time to end.
- ProcessGuiEvents on a lock is not enough for calls under that lock. With calls under
  callbackList, a worker and the GUI thread alone do not wait in a circle, but three threads
  do: one calls the GUI holding callbackList, the second waits for it holding menuList, and
  the GUI thread blocks for menuList.
- StringsInOrder allows the destructor to drop the last posts; it does drop them.
- NobodyStuck leaves out scripts that the user aborts or under which he runs the
  debuggee. After an abort a yield that was requested just before is acknowledged by
  nobody, and the debug thread waits for ever (YieldAcknowledged in `ScriptEngine`, in no
  run; `simplescript.cpp:887`).
- NobodyStuck also exempts SelfWait, a deadlock of the code that needs neither the user nor an
  abort. A worker leaves the wait of an old yield (`simplescript.cpp:129`) as the next
  breakpoint asks for a new one; until it gets to line 131 the script counts as yielded, so
  an ordinary command of that breakpoint is executed on the debug thread. After the command
  the script is not yielded any more (`simplescript.cpp:575`), so the debug thread calls
  scriptHandleInterrupt and yields to its own request. The worker yields to it too, and both
  wait for a reason that only the debug thread clears, after the command. TLC finds this
  without the exemption, in 43 steps with two such breakpoints.
- FailsForAReason remembers only that something has failed (`complaint`): a failure that
  is attributed to the wrong line it does not notice.
- `scriptRun` resets the requested interrupt when it begins
  (`simplescript.cpp:652`) and can overwrite a yield or an abort; when the user runs the
  debuggee under a script, it is then neither paused nor yielded while a callback runs,
  which the comment at `debugger.cpp:1037` excludes.
- ExitReturns names four ways in which the exit hangs. ScriptAwaited: it joins the command
  thread, which waits for a script that polls a running debuggee, before it aborts the
  scripts (`x64dbg.cpp:985`). DetachLost: an attach unlocks WAITID_RUN once and then waits
  without a timeout (`cmd-debug-control.cpp:264`). LateSession: a script started a session
  after the last stop (`x64dbg.cpp:987`). LeftLocked: a debug loop that was terminated left
  WAITID_RUN locked (`cmd-debug-control.cpp:228`).
- Loops. A loop around others that itself lies in a loop is given depth 0, where emplace
  refuses it because of the outer loop; the same happens when it meets two loops and only
  the first of them is looked at (`loop.cpp:190`). The loops inside have moved down and
  have no parent any more, the caller and the plugins are told that the loop was added.
  Three calls of LoopAdd in one thread suffice. Later loops may then partly overlap those,
  which the comment at `loop.cpp:50` excludes.
- Functions. Two threads that add overlapping functions leave two values that overlap, and
  plugins are told of both.

## 4. Proofs

All for arbitrary constants, under the named assumptions of the modules only.

`ElfBreakpoints_proofs`: TypeOK, with the fact that a record is armed only where its trap was
written, then ArmedTraps and LiftedBytesKnown from it, are
inductive. WriteTakesEffect and TeardownRestores follow from a step in a typed state.
RecordsMatchMemory, that an armed record has its int3 in memory and a lifted byte is the
one the record saved, follows from the same invariants.
BreakpointsInvisible says that `Spec` implements `ElfMemoryView` with `View` for the
memory: every action is a user write, a change of the debuggee, a replacement, or a
stutter.

`ElfTracer_proofs`: the tracer's functions call each other, so the invariant is about the
whole stack of activations. `IInv` is
- Threads: the kernel's and the tracer's records; a stop that is not taken is one of a
  stopped thread; a thread that is said to run is known or dead; and Owed: a living thread
  that owes a SIGSTOP, or is not known yet, has one queued or is stopped for one. The
  second half of Owed is needed for clones, whose SIGSTOP is owed when they are registered,
  before or after it is taken;
- Current, Frames: the current thread, the resumes that are pending and every thread an
  activation refers to are known or dead, and below the top there are only activations
  that called another one (Shape);
- Handled: the handlers of a SIGSTOP and of an exit have their thread in ptrace-stop, where
  the restart they end with works, and what a sweep waits for has a stop coming;
- Bytes, Flags, Marks: the types of the rest.

The lemmas about the stack (Pushed, Popped, Replaced, CalledFrom) and the ones about where
the tracer goes on (GoesOnAt, StopsAll, Pauses, Returns) reduce an action to what it does to
one thread (ThreadStep); there is one lemma per action. TypeOK and SigstopOwed follow, for
every combination of calls, births, exits and timeouts. `owed`, a history variable, is an
integer in TypeOK: that it is no less than 0 is part of what SignalsConserved says.

`ElfTracerAllStop_proofs`: CurrentThreadKept says which function of the tracer can have called
which (Grammar), that whoever exchanges mThread keeps and restores what the caller below takes
it for, and that a function that acts on mThread for its own thread finds it there (Own). It
holds for all constants; without it nothing can be said about a continue or a step, which go
to one thread and are booked on mThread.

AllStopKept rests on it. `IInv /\ CurInv /\ Accounted /\ Ready` is inductive:
- Stand: a known, living thread that is not booked as running is in ptrace-stop, but for
  the one (Excused) that the tracer lets run into the SIGSTOP it owes or over a byte;
- Unmet and Parent: a thread the tracer has not met runs no further than its first SIGSTOP,
  and somebody has its birth still to tell, in a clone event that is not taken or that is
  being handled, and stays where it is until then. It is why no thread is at large at a
  pause: its parent would have a stop that was not taken, and by Stand it has none;
- Reported, Awaited, Leaving: the thread that is handled is booked as stopped, the one the
  sweep waits for as running;
- Quiet and NewOnly: from the pause on nothing is booked as running, and until the tracer has
  set the first thread going only what was created meanwhile, by the thread that stepped off its byte.
  They matter for the ways back to a pause without a sweep (a step of a suspended
  thread, a continue with all threads suspended);
- Unsuspended: what a step is for is not suspended, unless that can be done meanwhile.

An action does one of four things to a thread (Still, Moves, Arrives, Bears), and AccountedBy
says that these keep Accounted. The theorem assumes `Restricted`, no timeouts, and not both births
and `"suspendRunning"`. TLC shows that neither half can be dropped: with an expired wait the
tracer pauses although a thread it gave up waiting for runs, by design; with births, a step and a
suspend while running it pauses beside a newborn thread, a fault of the code
(`Debugger.Loop.cpp:563`, see above).

The same module follows the breakpoints for a user who does not step (SteadyKept).
`Steady`, on top of the invariants above, says
- Placed, of each thread: it is behind an int3 exactly from the hit to its rewind (Behind);
  it is noted to be at a breakpoint only while it stands there (AtByte); its step flag is up
  only in the step over a byte (Unstepped); a hit that is not reported is held by the
  kernel, a handler, the sweep, or as mPendingBreakpoint (Noted); with a pending hit it
  stays where it is (Waits);
- ReportedFirst: from the continue to the next sweep only suspended threads have a pending
  hit, so nobody else who is set going leaves one behind;
- Position: what a step over a byte needs at each of its points. The thread is off the byte
  that is lifted for it, also while it runs into a SIGSTOP it owes (Drained), which it takes
  before it executes anything; after the step it has run the instruction or stopped for
  another reason, never for the int3 (Stepped);
- Whole: without rep instructions, every byte but that one is in memory.

NeverRunsPast, StepStaysAStep, HitsAccounted, ArmedAtPause and PendingHitInPlace follow, for
any threads, births, exits, signals, suspends and pauses, and with timeouts. They assume
`StepFree`: `"step"` is not among the calls, and if breakpoints are deleted, then
`Restricted`, since a deletion asks for the all-stop: it takes the record away from under a
thread that has hit it. HitsAccounted adds that none is deleted, ArmedAtPause that none is on
a rep (its byte is lifted for as long as the rep runs), PendingHitInPlace that no thread is
resumed while the debuggee runs (it would be set going before its hit is reported). With
steps the counterexamples are those of "What holds only in part".

`SectionLocker_proofs`: the invariant `IInv` strengthens what the run checks by
- OneBusyScope: only the innermost scope can be inside Lock(), and one scope at most
  is between the SRW lock and the books;
- HoldersHold: a scope that holds exclusively, booked or not, is backed by the SRW
  lock, and an unbooked one finds no owner;
- OwnerHolds: a booked owner is the exclusive holder;
- SharedInside: a shared scope of an owner lies inside one of its exclusive scopes.

The last one is what makes the code right: a shared Unlock() decides by the owner of
the moment, and since the exclusive scope around it is still there, the decision is
the one its Lock() took. OwnerExact and SharedExact count scopes; their proofs add and
remove one element of a finite set. BooksExact joins them to one statement, which the run
checks. ExclusiveAlone and NoOwnerWhenGranted follow from
the invariant. `Nests` is not used: nesting decides about deadlock, not about
exclusion.

`GuiLocking_proofs`: a step of a call is a stutter of the locks, so `GuiSpec => Spec`,
and exclusion carries over. OnlyTheGuiMakesACircle proves CirclesBlockTheGui for any number
of threads, locks, scopes, handlers and calls, whoever calls the GUI and under whatever
locks, from one assumption about the code that takes the locks, `Disciplined(rank)`: there is
a ranking of the locks so that a lock is taken only under lower ones (or again, while it is
held exclusively), and those that the GUI thread takes with ProcessGuiEvents are ranked above
whatever any of them is taken under. `MCGuiLocking` asserts it of its instance, the locks of
the plugin menus, so TLC evaluates it. The invariant it needs (`WaitInv`, `CallInv`) says

- ScopesOrdered: a scope that waits for its lock is ranked above all locks held in the scopes
  outside of it, unless it is a handler's and blocks outright: that handler was not checked
  against the locks around it. The check happens when the scope is declared, or takes its
  lock again, and must survive whatever handlers the GUI thread runs between two tries;
- ReleasesSettled: inside a scope that hands its lock back, all others are at rest;
- GuiSpins: the GUI thread blocks only for locks it takes without ProcessGuiEvents, and
  nobody else spins;
- HoldsBacked: an exclusive hold of the SRW lock has a booked owner or a scope about to book
  or just unbooked, so that a lock is never left locked by a thread without a scope for it;
- CallInv: the bridge's owner is past the critical section.

With it, whoever is waited for, and waits, has a higher place than the one who waits for him,
a writer above the readers it keeps out, unless one of the two is a caller or the GUI thread
blocked outright; callers wait for the bridge's owner, and he for the GUI thread. Places are
bounded, so the highest of any set waits for nobody in it. That a
bounded set of numbers has a highest element follows from the well-foundedness of finite
sets under inclusion, since induction over numbers is not at hand.

`TaskThread_proofs`: `IInv` joins TypeOK to three facts. OpenUntilStopped: the worker ends
only after the destructor asked for it. Collected: what the calls, the call under way, the
latch and the arguments hold is, in this order, what was posted, without gaps for a task
that collects strings. NewestLast: for a plain one the latch is never older than the last call, nor the arguments
than the latch.
StringsInOrder follows. NoLostWakeup says that whenever a post waits for a call, the
semaphore is raised, a producer is about to raise it, or the worker is on its way to
look. With it, each action is an action of `Mailbox` or a stutter (MailboxImplemented);
that calls come in the end, the other half of IsMailbox, is liveness and stays with TLC.

`DebugSession_proofs`: `IInv` is TypeOK and
- CommandsLeft: a client that executes a command has it before it, and a script never
  waits for a script;
- ToldToEnd: whoever can wake the command thread without a message has told it to end
  before;
- LockHeld: a client is between the first look at the session and the end of its command
  if and only if it owns LockDebugStartStop;
- LoopAccounted: a debug loop that lives is in hDebugLoopThread, or somebody waits for its
  end, and nobody creates one beside it;
- LockedByPause: WAITID_RUN is locked by a paused session only, unless one was terminated.

NeverEmptyCommand comes from ToldToEnd, OneDebugLoop from LockHeld and LoopAccounted, with
OneStarter on the way, and ScriptAfterPause from LockedByPause. The steps of the three
clients are reduced to a few shapes first (ClientStep and the lemmas about it).

`ScriptEngine_proofs`: `IInv` is TypeOK and
- StateOfWorker: the script counts as paused exactly while the worker is in no run and no
  step, and as yielded only while one of the two threads is in the wait of the yield;
- QueuedOnce: a command that a breakpoint queued is there once, or is being executed, and the
  debug thread waits for it;
- ReasonOf: a yield is asked for by the debug thread in a callback that saw the script
  unpaused, an abort by the user;
- Handshake: in a callback the request stands and the worker is in the yield or about to
  enter it, if the debug thread saw the yield; otherwise nothing is asked for and nothing
  yields. An abort ends all this, so the part is about scripts that are not aborted;
- Complaints: a script that ends without reaching its end has a complaint, an abort or a
  pause behind it.

The debug thread that is in a yield of its own makes active true and false again (SelfWait);
the invariant holds there too. YieldHolds, FailsForAReason and ScriptStateAlone (the command
of a breakpoint is the only one to touch the script) follow from it in one step. FailsForAReason is an action property:
what `scriptRun` returns is judged at the moment it returns, since later jobs may run.

Model-checked only:
- liveness: PauseAnswered, StepAnswered, DestructorReturns, NobodyStuck, StopReturns,
  ExitReturns and the liveness half of IsMailbox. Temporal properties under fairness are
  out of the prover's reach;
- `ElfTracer`: LiftedAlone, SignalsConserved, NoSilentHang and FrozenStays, and with steps
  the invariants that are proved without them. They hold for the combinations of calls that
  the runs name and fail for others (see above); LiftedAlone and NoSilentHang need to know of
  every activation on the stack which threads it has still to set going, which `Steady`,
  about the innermost ones, does not say;
- MainInOrder: it holds for scripts that are started once; a script that is run twice
  begins again;
- `Annotations` folds sequences with operators of the community modules; about those,
  induction over the sequence would be needed, which is out of reach.

## 5. Plan

Done so far: `Process`, the tracer's core with clone and thread exit, locks, task threads, scripts, sessions and
annotations over ranges. Next, in this order:

1. Proofs: LiftedAlone and NoSilentHang without steps, on top of SteadyKept; MirrorExact
   of `Annotations` for the calls that do not fold.
2. `ElfTracer`: exec while threads run, the exit of the leader, then step over of calls
   (`Debugger.StepOver.cpp`).
3. `ElfApi`: the command queue, the snapshots and the session's end, with the front
   end's adapter as its caller; detach with owed SIGSTOPs, against "the debuggee runs on
   and nothing is owed".
4. `BpList` (enumeration that gives its lock back), the end of a job queue against await,
   TraceRecord pages, history, loading and unloading of plugins.

Not planned: symbol loading, types, expression text, disassembly, GUI views and the
vendored code: sequential or external, and better tested than modelled.
