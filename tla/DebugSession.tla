---------------------------- MODULE DebugSession ----------------------------
(***************************************************************************)
(* Starting, stopping and leaving a debug session (x64dbg.cpp, command.cpp,*)
(* msgqueue.cpp, commands/cmd-debug-control.cpp, debugger.cpp).            *)
(*                                                                         *)
(* Three threads execute the commands that change the session: the command *)
(* thread takes them from a queue, the worker of the scripts executes them *)
(* one by one and waits after each until the debuggee pauses, and the      *)
(* thread that closes the debugger stops whatever is left. A session is a  *)
(* thread of its own, the debug loop. It pauses in a callback: it resets   *)
(* the event WAITID_RUN and waits for it.                                  *)
(*                                                                         *)
(* TitanEngine is external: its loop calls back for events, and returns    *)
(* when the debuggee exits, was terminated or detached from. The yield of a*)
(* script at breakpoints is in ScriptEngine; here a script only waits.     *)
(***************************************************************************)
EXTENDS Naturals, Sequences

CONSTANTS
    Messages,    \* the messages users send: sequences of commands
    MaxMessages, \* bound on the messages that are sent
    Script,      \* the script: a sequence of commands
    MaxScripts,  \* bound on the runs of the script the GUI starts
    MaxEvents,   \* bound on the debug events of a session that pause
    MaxSessions, \* bound on the sessions
    DetachOnAttach

Command == {"init", "missing", "attach", "stop", "run", "script"}

ASSUME MessagesAssumption == \A m \in Messages : m \in Seq(Command) /\ m # <<>>
ASSUME ScriptAssumption == Script \in Seq(Command \ {"script"})
ASSUME BoundsAssumption ==
    /\ MaxMessages \in Nat /\ MaxScripts \in Nat /\ MaxEvents \in Nat /\ MaxSessions \in Nat
    /\ DetachOnAttach \in BOOLEAN

Client == {"cmd", "script", "gui"}
NoClient == "none"
Wake == <<>>        \* the empty message of MsgFreeQueue
NoMessage == <<"none">>

VARIABLES
    queue, destroy, waiting,      \* gMsgQueue
    stopLoop,                     \* bStopCommandLoopThread
    msg,                          \* the message the command thread waits for or got
    todo,                         \* what is left of it, and of the script
    pc,                           \* where each client is
    job,                          \* the command it executes
    owner,                        \* of LockDebugStartStop
    handle,                       \* hDebugLoopThread # nullptr
    thread,                       \* where the debug loop thread is
    debugging,                    \* bIsDebugging
    started,                      \* init->event was signalled
    pauseAtAttach,                \* bPauseAtAttach
    running,                      \* the event WAITID_RUN is signalled
    ending,                       \* StopDebug or DetachDebuggerEx was called
    abort,                        \* the script is to abort
    notify,                       \* wake messages MsgFreeQueue has sent
    messages, scripts, events, sessions,  \* counters of the bounds
    sending,                      \* messages whose MsgSend has looked at Destroy only
    paused,                       \* history: this session has paused once
    killed                        \* history: a debug loop was terminated

queueVars == <<queue, destroy, waiting, stopLoop, msg, notify>>
clientVars == <<todo, pc, job, owner, abort>>
sessionVars == <<handle, thread, debugging, started, pauseAtAttach, running, ending>>
countVars == <<messages, scripts, events, sessions, sending>>
historyVars == <<paused, killed>>
vars == <<queueVars, clientVars, sessionVars, countVars, historyVars>>

Executing == {"run", "unlock", "lock", "stop", "stopWait", "detachWait", "create", "startWait"}

TypeOK ==
    /\ queue \in Seq(Messages \union {Wake})
    /\ destroy \in BOOLEAN /\ stopLoop \in BOOLEAN
    /\ waiting \in 0 .. 1 /\ notify \in 0 .. 2
    /\ msg \in Messages \union {Wake, NoMessage}
    /\ todo \in [{"cmd", "script"} -> Seq(Command)]
    /\ pc["cmd"] \in Executing \union {"check", "count", "dequeue", "provide", "next",
                                       "scriptQueue", "scriptWait", "ended"}
    /\ pc["script"] \in Executing \union {"idle", "next", "poll"}
    /\ pc["gui"] \in Executing \union {"user", "destroy", "notify", "join", "abort",
                                       "aborting", "deinit", "gone"}
    /\ job \in [Client -> Command]
    /\ owner \in Client \union {NoClient}
    /\ handle \in BOOLEAN /\ debugging \in BOOLEAN /\ started \in BOOLEAN
    /\ thread \in {"none", "begin", "setup", "loop", "callback", "locked", "waiting",
                   "leave", "signal", "ended"}
    /\ pauseAtAttach \in BOOLEAN /\ running \in BOOLEAN /\ ending \in BOOLEAN
    /\ abort \in BOOLEAN /\ paused \in BOOLEAN /\ killed \in BOOLEAN
    /\ messages \in 0 .. MaxMessages /\ scripts \in 0 .. MaxScripts
    /\ events \in 0 .. MaxEvents /\ sessions \in 0 .. MaxSessions
    /\ sending \in 0 .. messages

Init ==
    /\ queue = <<>> /\ destroy = FALSE /\ waiting = 0 /\ stopLoop = FALSE
    /\ msg = NoMessage /\ notify = 0
    /\ todo = [c \in {"cmd", "script"} |-> <<>>]
    /\ pc = [c \in Client |-> CASE c = "cmd" -> "check" [] c = "script" -> "idle" [] c = "gui" -> "user"]
    /\ job = [c \in Client |-> "stop"]
    /\ owner = NoClient /\ abort = FALSE
    /\ handle = FALSE /\ thread = "none" /\ debugging = FALSE /\ started = FALSE
    /\ pauseAtAttach = FALSE /\ running = TRUE /\ ending = FALSE
    /\ messages = 0 /\ scripts = 0 /\ events = 0 /\ sessions = 0 /\ sending = 0
    /\ paused = FALSE /\ killed = FALSE

Alive == thread \notin {"none", "ended"}

Go(c, where) == pc' = [pc EXCEPT ![c] = where]

-----------------------------------------------------------------------------
(* The commands, as each client executes them                              *)

\* What follows a command: the command thread drops the rest of the message
\* when it failed; the worker of the scripts waits for a pause first.
Finish(c, ok) ==
    IF c = "gui" THEN Go(c, "abort") /\ UNCHANGED todo
    ELSE /\ todo' = [todo EXCEPT ![c] = IF ok THEN Tail(@) ELSE <<>>]
         /\ Go(c, IF c = "cmd" THEN "next" ELSE "poll")

\* cmdloop and cmddirectexec: find the command and call it. `run` and `stop`
\* are debug-only. `script` is scriptexec, which waits for the worker.
Begin(c, command) ==
    /\ job' = [job EXCEPT ![c] = command]
    /\ CASE command \in {"run", "stop"} /\ ~debugging -> Finish(c, FALSE)
         [] command = "run" /\ debugging  -> Go(c, "run") /\ UNCHANGED todo
         [] command = "script"            -> Go(c, "scriptQueue") /\ UNCHANGED todo
         [] OTHER                         -> Go(c, "lock") /\ UNCHANGED todo
    /\ UNCHANGED <<queueVars, owner, abort, sessionVars, countVars, historyVars>>

\* cbDebugRunInternal: not twice.
RunTest(c) ==
    /\ pc[c] = "run"
    /\ IF running THEN Finish(c, FALSE) ELSE Go(c, "unlock") /\ UNCHANGED todo
    /\ UNCHANGED <<queueVars, job, owner, abort, sessionVars, countVars, historyVars>>

RunUnlock(c) ==
    /\ pc[c] = "unlock"
    /\ running' = TRUE
    /\ Finish(c, TRUE)
    /\ UNCHANGED <<queueVars, job, owner, abort, handle, thread, debugging, started,
                   pauseAtAttach, ending, countVars, historyVars>>

AcquireUnlocked(c) ==
    /\ pc[c] = "lock"
    /\ owner' = c
    /\ IF job[c] = "attach" /\ debugging /\ DetachOnAttach
       THEN /\ ending' = TRUE
            /\ running' = TRUE
            /\ Go(c, IF handle THEN "detachWait" ELSE "create")
       ELSE Go(c, "stop") /\ UNCHANGED <<ending, running>>
    /\ UNCHANGED <<queueVars, todo, job, abort, handle, thread, debugging, started,
                   pauseAtAttach, countVars, historyVars>>

\* EXCLUSIVE_ACQUIRE(LockDebugStartStop), at the head of stop, init and attach.
\* Attaching detaches from the old debuggee if the setting says so: the old
\* debug loop is let go once and waited for.
Acquire(c) ==
    /\ pc[c] = "lock" /\ owner = NoClient
    /\ owner' = c
    /\ IF job[c] = "attach" /\ debugging /\ DetachOnAttach
       THEN /\ ending' = TRUE
            /\ running' = TRUE
            /\ Go(c, IF handle THEN "detachWait" ELSE "create")
       ELSE Go(c, "stop") /\ UNCHANGED <<ending, running>>
    /\ UNCHANGED <<queueVars, todo, job, abort, handle, thread, debugging, started,
                   pauseAtAttach, countVars, historyVars>>

Detached(c) ==
    /\ pc[c] = "detachWait" /\ ~Alive
    /\ handle' = FALSE
    /\ Go(c, "create")
    /\ UNCHANGED <<queueVars, todo, job, owner, abort, thread, debugging, started,
                   pauseAtAttach, running, ending, countVars, historyVars>>

\* Where cbDebugStop returns to.
Stopped(c, ok) ==
    CASE job[c] = "stop"    -> owner' = NoClient /\ Finish(c, ok)
      [] job[c] = "missing" -> owner' = NoClient /\ Finish(c, FALSE)
      [] OTHER              -> Go(c, "create") /\ UNCHANGED <<owner, todo>>

StopTest(c) ==
    /\ pc[c] = "stop"
    /\ IF handle
       THEN /\ handle' = FALSE /\ ending' = TRUE
            /\ Go(c, "stopWait")
            /\ UNCHANGED <<owner, todo>>
       ELSE Stopped(c, FALSE) /\ UNCHANGED <<handle, ending>>
    /\ UNCHANGED <<queueVars, job, abort, thread, debugging, started, pauseAtAttach, running,
                   countVars, historyVars>>

\* The wait cannot fail: the handle is one of this session's, and it was taken out
\* of hDebugLoopThread under the lock, so nobody else closes it.
StopWaited(c) ==
    /\ pc[c] = "stopWait" /\ ~Alive
    /\ Stopped(c, TRUE)
    /\ UNCHANGED <<queueVars, job, abort, sessionVars, countVars, historyVars>>

StopUnlockOfHandle(c) ==
    /\ pc[c] = "stopWait" /\ Alive /\ handle
    /\ running' = TRUE
    /\ UNCHANGED <<queueVars, clientVars, handle, thread, debugging, started, pauseAtAttach,
                   ending, countVars, historyVars>>

\* The debug loop has not ended after 100 ms: let it go again.
StopUnlock(c) ==
    /\ pc[c] = "stopWait" /\ Alive
    /\ running' = TRUE
    /\ UNCHANGED <<queueVars, clientVars, handle, thread, debugging, started, pauseAtAttach,
                   ending, countVars, historyVars>>

\* Nor after 10 or 100 seconds: it is terminated where it is.
StopKill(c) ==
    /\ pc[c] = "stopWait" /\ Alive
    /\ thread' = "ended" /\ debugging' = FALSE /\ killed' = TRUE
    /\ Stopped(c, FALSE)
    /\ UNCHANGED <<queueVars, job, abort, handle, started, pauseAtAttach, running, ending,
                   countVars, paused>>

\* dbgcreatedebugthread; the user may refuse when drivers against cheats run.
Create(c) ==
    /\ pc[c] = "create"
    /\ sessions < MaxSessions
    /\ sessions' = sessions + 1 /\ events' = 0
    /\ handle' = TRUE /\ thread' = "begin" /\ started' = FALSE /\ ending' = FALSE
    /\ pauseAtAttach' = (job[c] = "attach" /\ c = "script")
    /\ paused' = FALSE
    /\ Go(c, "startWait")
    /\ UNCHANGED <<queueVars, todo, job, owner, abort, debugging, running, messages, scripts, sending, killed>>

Refused(c) ==
    /\ pc[c] = "create"
    /\ owner' = NoClient
    /\ Finish(c, TRUE)
    /\ UNCHANGED <<queueVars, job, abort, sessionVars, countVars, historyVars>>

Created(c) ==
    /\ pc[c] = "startWait" /\ started
    /\ owner' = NoClient
    /\ Finish(c, TRUE)
    /\ UNCHANGED <<queueVars, job, abort, sessionVars, countVars, historyVars>>

Execute(c) ==
    \/ RunTest(c) \/ RunUnlock(c) \/ Acquire(c) \/ Detached(c)
    \/ StopTest(c) \/ StopWaited(c) \/ StopUnlock(c)
    \/ Create(c) \/ Refused(c) \/ Created(c)

-----------------------------------------------------------------------------
(* The command thread: cmdloop, cbCommandProvider and MsgWait              *)

\* Destroy is looked at before the waiter is counted. Without a message the
\* caller goes on with an empty one.
WaitCheck ==
    /\ pc["cmd"] = "check"
    /\ msg' = NoMessage
    /\ Go("cmd", IF destroy THEN "provide" ELSE "count")
    /\ UNCHANGED <<queue, destroy, waiting, stopLoop, notify, todo, job, owner, abort,
                   sessionVars, countVars, historyVars>>

WaitCount ==
    /\ pc["cmd"] = "count"
    /\ waiting' = waiting + 1
    /\ Go("cmd", "dequeue")
    /\ UNCHANGED <<queue, destroy, stopLoop, msg, notify, todo, job, owner, abort,
                   sessionVars, countVars, historyVars>>

WaitDequeueUncounted ==
    /\ pc["cmd"] = "dequeue" /\ queue # <<>>
    /\ msg' = Head(queue) /\ queue' = Tail(queue)
    /\ Go("cmd", "provide")
    /\ UNCHANGED <<destroy, waiting, stopLoop, notify, todo, job, owner, abort,
                   sessionVars, countVars, historyVars>>

WaitDequeue ==
    /\ pc["cmd"] = "dequeue" /\ queue # <<>>
    /\ msg' = Head(queue) /\ queue' = Tail(queue)
    /\ waiting' = waiting - 1
    /\ Go("cmd", "provide")
    /\ UNCHANGED <<destroy, stopLoop, notify, todo, job, owner, abort,
                   sessionVars, countVars, historyVars>>

Provide ==
    /\ pc["cmd"] = "provide"
    /\ IF stopLoop
       THEN Go("cmd", "ended") /\ UNCHANGED todo
       ELSE Go("cmd", "next") /\ todo' = [todo EXCEPT !["cmd"] = msg]
    /\ UNCHANGED <<queueVars, job, owner, abort, sessionVars, countVars, historyVars>>

NextCommand ==
    /\ pc["cmd"] = "next" /\ todo["cmd"] # <<>>
    /\ Begin("cmd", Head(todo["cmd"]))

MessageDone ==
    /\ pc["cmd"] = "next" /\ todo["cmd"] = <<>>
    /\ Go("cmd", "check")
    /\ UNCHANGED <<queueVars, todo, job, owner, abort, sessionVars, countVars, historyVars>>

\* ScriptExecAwait, once the worker is free. scriptRun refuses to start while
\* the debuggee runs.
RunsScript ==
    /\ pc["cmd"] = "scriptQueue" /\ pc["script"] = "idle"
    /\ IF debugging /\ running
       THEN Finish("cmd", FALSE) /\ UNCHANGED abort
       ELSE /\ pc' = [pc EXCEPT !["cmd"] = "scriptWait", !["script"] = "next"]
            /\ todo' = [todo EXCEPT !["script"] = Script]
            /\ abort' = FALSE
    /\ UNCHANGED <<queueVars, job, owner, sessionVars, countVars, historyVars>>

CommandThread ==
    \/ WaitCheck \/ WaitCount \/ WaitDequeue \/ Provide
    \/ NextCommand \/ MessageDone \/ RunsScript
    \/ Execute("cmd")

-----------------------------------------------------------------------------
(* The worker of the scripts: scriptRun, scriptInternalCmd                 *)

\* The script ends; a command that awaits it returns.
EndScript ==
    /\ pc' = [pc EXCEPT !["script"] = "idle",
                        !["cmd"] = IF @ = "scriptWait" THEN "next" ELSE @]
    /\ todo' = [c \in {"cmd", "script"} |->
                  CASE c = "script" -> <<>>
                    [] c = "cmd" /\ pc["cmd"] = "scriptWait" ->
                         IF abort \/ todo["script"] # <<>> THEN <<>> ELSE Tail(todo["cmd"])
                    [] OTHER -> todo[c]]

NextLine ==
    /\ pc["script"] = "next" /\ ~abort /\ todo["script"] # <<>>
    /\ Begin("script", Head(todo["script"]))

ScriptOver ==
    /\ pc["script"] = "next"
    /\ abort \/ todo["script"] = <<>>
    /\ EndScript
    /\ UNCHANGED <<queueVars, job, owner, abort, sessionVars, countVars, historyVars>>

\* The loop after every command, until the debuggee pauses.
PollPaused ==
    /\ pc["script"] = "poll"
    /\ ~(debugging /\ running)
    /\ Go("script", "next")
    /\ UNCHANGED <<queueVars, todo, job, owner, abort, sessionVars, countVars, historyVars>>

PollAborted ==
    /\ pc["script"] = "poll"
    /\ debugging /\ running /\ abort
    /\ EndScript
    /\ UNCHANGED <<queueVars, job, owner, abort, sessionVars, countVars, historyVars>>

ScriptThread == NextLine \/ ScriptOver \/ PollPaused \/ PollAborted \/ Execute("script")

-----------------------------------------------------------------------------
(* The debug loop thread                                                   *)

LoopBegins ==
    /\ thread = "begin"
    /\ debugging' = TRUE
    /\ thread' = "setup"
    /\ UNCHANGED <<queueVars, clientVars, handle, started, pauseAtAttach, running, ending,
                   countVars, historyVars>>

\* debugLoopFunction: the process cannot be created and the function returns,
\* or the command that waits for the start may go on. A script that attaches
\* has to wait for the first pause.
SetupFails ==
    /\ thread = "setup"
    /\ thread' = "leave"
    /\ UNCHANGED <<queueVars, clientVars, handle, debugging, started, pauseAtAttach, running, ending,
                   countVars, historyVars>>

SetupDone ==
    /\ thread = "setup"
    /\ started' = ~pauseAtAttach
    /\ thread' = "loop"
    /\ UNCHANGED <<queueVars, clientVars, handle, debugging, pauseAtAttach, running, ending,
                   countVars, historyVars>>

\* TitanEngine calls back for an event that pauses the debuggee.
DebugEvent ==
    /\ thread = "loop" /\ events < MaxEvents
    /\ events' = events + 1
    /\ thread' = "callback"
    /\ UNCHANGED <<queueVars, clientVars, handle, debugging, started, pauseAtAttach, running, ending,
                   messages, scripts, sessions, sending, historyVars>>

LockRun ==
    /\ thread = "callback"
    /\ running' = FALSE
    /\ paused' = TRUE
    /\ thread' = "locked"
    /\ UNCHANGED <<queueVars, clientVars, handle, debugging, started, pauseAtAttach, ending,
                   countVars, killed>>

\* waitAtAttach signals the start of the session after that.
PauseNotified ==
    /\ thread = "locked"
    /\ started' = TRUE
    /\ thread' = "waiting"
    /\ UNCHANGED <<queueVars, clientVars, handle, debugging, pauseAtAttach, running, ending,
                   countVars, historyVars>>

ContinueAfterTimeout ==
    /\ thread = "waiting"
    /\ thread' = "loop"
    /\ UNCHANGED <<queueVars, clientVars, handle, debugging, started, pauseAtAttach, running, ending,
                   countVars, historyVars>>

Continue ==
    /\ thread = "waiting" /\ running
    /\ thread' = "loop"
    /\ UNCHANGED <<queueVars, clientVars, handle, debugging, started, pauseAtAttach, running, ending,
                   countVars, historyVars>>

\* The debuggee is gone and TitanEngine's loop returns.
LoopReturns ==
    /\ thread = "loop"
    /\ thread' = "leave"
    /\ UNCHANGED <<queueVars, clientVars, handle, debugging, started, pauseAtAttach, running, ending,
                   countVars, historyVars>>

LoopLeaves ==
    /\ thread = "leave"
    /\ debugging' = FALSE /\ pauseAtAttach' = FALSE
    /\ thread' = "signal"
    /\ UNCHANGED <<queueVars, clientVars, handle, started, running, ending, countVars, historyVars>>

\* Whoever still waits for the start is told, and the thread ends.
LoopEnds ==
    /\ thread = "signal"
    /\ started' = TRUE
    /\ thread' = "ended"
    /\ UNCHANGED <<queueVars, clientVars, handle, debugging, pauseAtAttach, running, ending,
                   countVars, historyVars>>

DebugLoop ==
    \/ LoopBegins \/ SetupFails \/ SetupDone \/ LockRun \/ PauseNotified \/ Continue
    \/ LoopLeaves \/ LoopEnds

-----------------------------------------------------------------------------
(* Users, and the end of the debugger: _dbg_dbgexitsignal                  *)

\* MsgSend, from any thread. A sender that has seen Destroy unset may come with its
\* message after the wake messages, and after the command thread has ended.
SendCheck ==
    /\ messages < MaxMessages /\ ~destroy
    /\ messages' = messages + 1 /\ sending' = sending + 1
    /\ UNCHANGED <<queueVars, clientVars, sessionVars, scripts, events, sessions, historyVars>>

SendMessage ==
    /\ sending > 0
    /\ \E m \in Messages : queue' = Append(queue, m)
    /\ sending' = sending - 1
    /\ UNCHANGED <<destroy, waiting, stopLoop, msg, notify, clientVars, sessionVars,
                   messages, scripts, events, sessions, historyVars>>

\* The GUI starts the script (ScriptRunAsync).
StartScript ==
    /\ scripts < MaxScripts
    /\ pc["gui"] = "user" /\ pc["script"] = "idle"
    /\ ~(debugging /\ running)
    /\ scripts' = scripts + 1
    /\ todo' = [todo EXCEPT !["script"] = Script]
    /\ Go("script", "next")
    /\ abort' = FALSE
    /\ UNCHANGED <<queueVars, job, owner, sessionVars, messages, events, sessions, sending,
                   historyVars>>

ExitStopLoopLater ==
    /\ pc["gui"] = "user"
    /\ destroy' = TRUE
    /\ Go("gui", "destroy")
    /\ UNCHANGED <<queue, waiting, stopLoop, msg, notify, todo, job, owner, abort,
                   sessionVars, countVars, historyVars>>

ExitStopLoop ==
    /\ pc["gui"] = "user"
    /\ stopLoop' = TRUE
    /\ Go("gui", "destroy")
    /\ UNCHANGED <<queue, destroy, waiting, msg, notify, todo, job, owner, abort,
                   sessionVars, countVars, historyVars>>

\* MsgFreeQueue: one message for every waiter and one more.
ExitDestroy ==
    /\ pc["gui"] = "destroy"
    /\ destroy' = TRUE
    /\ Go("gui", "notify")
    /\ UNCHANGED <<queue, waiting, stopLoop, msg, notify, todo, job, owner, abort,
                   sessionVars, countVars, historyVars>>

ExitNotifyWaiters ==
    /\ pc["gui"] = "notify"
    /\ IF notify < waiting
       THEN /\ queue' = Append(queue, Wake)
            /\ notify' = notify + 1
            /\ UNCHANGED pc
       ELSE Go("gui", "join") /\ UNCHANGED <<queue, notify>>
    /\ UNCHANGED <<destroy, waiting, stopLoop, msg, todo, job, owner, abort,
                   sessionVars, countVars, historyVars>>

ExitNotify ==
    /\ pc["gui"] = "notify"
    /\ IF notify < waiting + 1
       THEN /\ queue' = Append(queue, Wake)
            /\ notify' = notify + 1
            /\ UNCHANGED pc
       ELSE Go("gui", "join") /\ UNCHANGED <<queue, notify>>
    /\ UNCHANGED <<destroy, waiting, stopLoop, msg, todo, job, owner, abort,
                   sessionVars, countVars, historyVars>>

\* The command thread has ended: cbDebugStop is next.
ExitJoined ==
    /\ pc["gui"] = "join" /\ pc["cmd"] = "ended"
    /\ Go("gui", "lock")
    /\ UNCHANGED <<queueVars, todo, job, owner, abort, sessionVars, countVars, historyVars>>

\* ScriptInterruptAwait(AbortShutdown): nothing to wait for without a script.
ExitAbort ==
    /\ pc["gui"] = "abort"
    /\ IF pc["script"] = "idle"
       THEN Go("gui", "deinit") /\ UNCHANGED abort
       ELSE Go("gui", "aborting") /\ abort' = TRUE
    /\ UNCHANGED <<queueVars, todo, job, owner, sessionVars, countVars, historyVars>>

ExitAborted ==
    /\ pc["gui"] = "aborting" /\ pc["script"] = "idle"
    /\ Go("gui", "deinit")
    /\ UNCHANGED <<queueVars, todo, job, owner, abort, sessionVars, countVars, historyVars>>

\* waitdeinitialize waits until WAITID_RUN is signalled.
ExitDeinit ==
    /\ pc["gui"] = "deinit" /\ running
    /\ Go("gui", "gone")
    /\ UNCHANGED <<queueVars, todo, job, owner, abort, sessionVars, countVars, historyVars>>

ExitStep ==
    \/ ExitDestroy \/ ExitNotify \/ ExitJoined \/ ExitAbort \/ ExitAborted \/ ExitDeinit
    \/ Execute("gui")

Kill == \E c \in Client : StopKill(c)

Next ==
    \/ CommandThread \/ ScriptThread \/ DebugLoop \/ ExitStep
    \/ DebugEvent \/ LoopReturns \/ Kill
    \/ SendCheck \/ SendMessage \/ StartScript \/ ExitStopLoop

Spec == Init /\ [][Next]_vars

\* The threads are scheduled and TitanEngine's loop returns for a debuggee
\* that was terminated or detached from. Nothing makes a debuggee report an
\* event or exit, a user do anything, or cbDebugStop give up.
Fairness ==
    /\ WF_vars(CommandThread) /\ WF_vars(ScriptThread) /\ WF_vars(DebugLoop) /\ WF_vars(ExitStep)
    /\ WF_vars(ending /\ LoopReturns)
    /\ WF_vars(pauseAtAttach /\ ~started /\ (DebugEvent \/ LoopReturns))

FairSpec == Spec /\ Fairness

-----------------------------------------------------------------------------
(* Properties                                                              *)

\* A message without a command is never executed: when the command thread
\* goes on without one, or with the one MsgFreeQueue sent, it has been told to
\* end. Otherwise cbCommandProvider reads the string at address zero.
NeverEmptyCommand ==
    (pc["cmd"] = "provide" /\ msg \in {NoMessage, Wake}) => stopLoop

\* A debug loop only begins after the one before it has ended, whoever
\* started and stopped them: the two would share every global of a session.
OneDebugLoop == [][sessions' # sessions => ~Alive]_vars

\* A script that started a session goes on with its next line only when the
\* session has paused for the first time or is over, unless it was aborted.
\* (After a debug loop was terminated WAITID_RUN may be left locked.)
ScriptAfterPause ==
    [][pc["script"] = "poll" /\ pc'["script"] = "next" /\ debugging /\ ~abort
         => paused \/ killed]_vars

\* cbDebugStop returns, also when the debug loop pauses again meanwhile.
StopReturns == \A c \in Client : (pc[c] = "stopWait") ~> (pc[c] # "stopWait")

\* The hangs of the exit the code has. The command thread waits for a script
\* that waits for a debuggee which runs on: scripts are only aborted after
\* the command thread ended. An attach waits for a debug loop that paused
\* after it was let go. A script started a session after the last stop. A
\* terminated debug loop left WAITID_RUN locked.
ScriptAwaited == pc["cmd"] \in {"scriptQueue", "scriptWait"} /\ pc["script"] = "poll" /\ debugging /\ running
DetachLost == (\E c \in Client : pc[c] = "detachWait") /\ thread = "waiting" /\ ~running
LateSession == pc["gui"] \in {"abort", "aborting", "deinit"} /\ Alive
LeftLocked == pc["gui"] = "deinit" /\ killed /\ ~running
KnownHang == ScriptAwaited \/ DetachLost \/ LateSession \/ LeftLocked

\* Closing the debugger comes to an end, whatever the other threads are doing
\* when it begins, but for the hangs above.
Exiting == pc["gui"] \notin {"user", "gone"}
ExitReturns == [](Exiting => <>(pc["gui"] = "gone" \/ []KnownHang))

\* "after this, debugging stopped" (x64dbg.cpp:987): of the time after the
\* debugger that exits has stopped the session.
StoppedForGood == pc["gui"] \in {"abort", "aborting", "deinit", "gone"} => ~debugging
=============================================================================
