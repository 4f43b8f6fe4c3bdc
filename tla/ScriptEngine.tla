---------------------------- MODULE ScriptEngine ----------------------------
(***************************************************************************)
(* Scripts of x64dbg and the breakpoints that interrupt them               *)
(* (src/src/dbg/simplescript.cpp, jobqueue.h, debugger.cpp, threading.cpp).*)
(*                                                                         *)
(* A script runs as a job of one worker thread. A line that runs the       *)
(* debuggee unlocks WAITID_RUN and then polls until the debuggee pauses.   *)
(* Meanwhile the debug thread handles breakpoints: it asks the script to   *)
(* yield, waits until it has, takes WAITID_RUN, may run a script command of*)
(* its own (`scriptcmd call`) on the script's state, and resumes the       *)
(* script. A user may run the debuggee and abort the script at any moment. *)
(*                                                                         *)
(* Loads and stores of shared variables that race are steps of their own.  *)
(* The waits for the two events have timeouts (100 ms, 10 ms) and look at  *)
(* the shared variables again, so the events only shorten them and are     *)
(* left out. A script is a sequence of lines; empty lines, labels and      *)
(* comments are skipped by scriptNextIp and are left out too.              *)
(***************************************************************************)
EXTENDS Naturals, Sequences

CONSTANTS
    Program,    \* the lines of the script: each "cmd", "run" or "ret"
    Label,      \* the first line of the routine that breakpoints call
    Hits,       \* the breakpoints: records [breaks, command]
    Starts,     \* what the user asks for at first: sequences of jobs
    MaxHits,    \* bound on the debug events before the debuggee exits
    Calls       \* the calls of the user that race with the script

ASSUME ProgramAssumption ==
    /\ Program \in Seq({"cmd", "run", "ret"})
    /\ Label \in DOMAIN Program
    /\ Program[Len(Program)] = "ret"
ASSUME HitsAssumption ==
    Hits \subseteq [breaks : BOOLEAN, command : {"none", "call", "fail", "cmd"}]
ASSUME StartsAssumption ==
    \A s \in Starts : s \in Seq({"run", "step"})
ASSUME MaxHitsAssumption == MaxHits \in Nat
ASSUME CallsAssumption == Calls \subseteq {"abort", "run"}

State == {"paused", "stepping", "running"}
Reason == {"none", "yield", "abort"}
Outcome == {"continue", "pause", "abort"}
Job == {"run", "step", "scriptcmd", "sync"}
Line == DOMAIN Program
Breakpoint == [breaks : BOOLEAN, command : {"none", "call", "fail", "cmd"}]

VARIABLES
    \* the worker thread and its queue
    jobs,       \* scriptQueue, without the job being executed
    worker,     \* where the worker is
    back,       \* where scriptHandleInterrupt was called
    result,     \* how its last command ended, and the outcome it took after it
    lastError,  \* scriptLastError
    finished,   \* what scriptRun returned: "none", "ok" or "failed"
    \* the script
    scriptState, reason, active, outcome,
    ip, ipOld, stack,
    \* the debug thread
    debug,      \* where the debug thread is
    hit,        \* the breakpoint it handles
    taken,      \* the outcome its ordinary command took: yieldOutcome
    seen,       \* the state ScriptInterruptAwait returned to it
    hits,       \* debug events so far
    running,    \* the event WAITID_RUN is signalled
    debugging,  \* bIsDebugging
    \* the user's thread
    user,
    \* history
    trace,      \* the lines the script executed, in order
    yielded,    \* the debug thread saw the script yield for this hit
    complaint,  \* a line or a breakpoint command failed
    userRan     \* the user ran the debuggee

workerVars == <<jobs, worker, back, result, lastError, finished>>
scriptVars == <<scriptState, reason, active, outcome, ip, ipOld, stack>>
debugVars  == <<debug, hit, taken, seen, hits, running, debugging>>
historyVars == <<trace, yielded, complaint, userRan>>
vars == <<workerVars, scriptVars, debugVars, user, historyVars>>

NoHit == [breaks |-> FALSE, command |-> "none"]

TypeOK ==
    /\ jobs \in Seq(Job)
    /\ worker \in {"idle", "check", "claim", "reset", "top", "line", "unlock", "poll", "after",
                   "handle", "yield", "unyield", "end", "reset2", "scriptcmd", "cmdpoll", "cmdafter", "taken"}
    /\ back \in {"top", "poll", "after", "cmdpoll", "cmdafter"}
    /\ result \in Outcome
    /\ lastError \in {"error", "continue", "exit", "pause"}
    /\ finished \in {"none", "ok", "failed"}
    /\ scriptState \in State
    /\ reason \in Reason
    /\ active \in BOOLEAN
    /\ outcome \in Outcome
    /\ ip \in Line
    /\ ipOld \in Line
    /\ stack \in Seq([ip : Line, state : State])
    /\ debug \in {"wait", "run", "await", "request", "yielding", "lock", "command", "settle",
                  "direct", "queued", "decide", "resume", "clear", "over",
                  "ownPoll", "ownTake", "ownActive", "ownHandle", "ownYield", "ownUnyield"}
    /\ hit \in Breakpoint
    /\ taken \in Outcome \cup {"none"}
    /\ seen \in State
    /\ hits \in 0 .. MaxHits
    /\ running \in BOOLEAN
    /\ debugging \in BOOLEAN
    /\ user \in {"idle", "unlock", "store", "enqueue", "await", "done"}
    /\ trace \in Seq(Line)
    /\ yielded \in BOOLEAN
    /\ complaint \in BOOLEAN
    /\ userRan \in BOOLEAN

\* A process is being debugged and is paused, the script is loaded and the
\* user has asked for it to run or to be stepped.
Init ==
    /\ jobs \in Starts
    /\ worker = "idle" /\ back = "top" /\ result = "continue"
    /\ lastError = "error" /\ finished = "none"
    /\ scriptState = "paused" /\ reason = "none" /\ active = FALSE /\ outcome = "continue"
    /\ ip = 1 /\ ipOld = 1 /\ stack = <<>>
    /\ debug = "wait" /\ hit = NoHit /\ taken = "none" /\ seen = "paused" /\ hits = 0
    /\ running = FALSE /\ debugging = TRUE
    /\ user = "idle"
    /\ trace = <<>> /\ yielded = FALSE /\ complaint = FALSE /\ userRan = FALSE

-----------------------------------------------------------------------------
(* Shared helpers                                                          *)

ResetInterruptState ==
    /\ reason' = "none"
    /\ active' = FALSE
    /\ outcome' = "continue"

Severity(o) == CASE o = "continue" -> 0 [] o = "pause" -> 1 [] o = "abort" -> 2

Merge(o) == IF Severity(outcome) < Severity(o) THEN o ELSE outcome

CallLabelAtOld(state) ==
    /\ stack' = Append(stack, [ip |-> ipOld, state |-> state])
    /\ ip' = Label

CallLabelAtNext(state) ==
    /\ stack' = Append(stack, [ip |-> ip + 1, state |-> state])
    /\ ip' = Label

\* `scriptcmd call`: the line to return to is pushed, with the state the
\* script is in, and the script goes on at the label.
CallLabel(state) ==
    /\ stack' = Append(stack, [ip |-> ip, state |-> state])
    /\ ip' = Label

NextIp == IF ip < Len(Program) THEN ip + 1 ELSE ip

-----------------------------------------------------------------------------
(* The worker thread                                                       *)

\* wait_dequeue, and the start of the job it got.
TakeJob ==
    /\ worker = "idle" /\ jobs # <<>>
    /\ jobs' = Tail(jobs)
    /\ CASE Head(jobs) = "run" ->
              worker' = "check" /\ UNCHANGED <<scriptState, reason, active, outcome, debug, user>>
         [] Head(jobs) = "step" ->
              IF scriptState = "paused"
              THEN /\ ResetInterruptState
                   /\ scriptState' = "stepping"
                   /\ worker' = "line"
                   /\ UNCHANGED <<debug, user>>
              ELSE UNCHANGED <<worker, scriptState, reason, active, outcome, debug, user>>
         [] Head(jobs) = "scriptcmd" ->
              worker' = "scriptcmd" /\ UNCHANGED <<scriptState, reason, active, outcome, debug, user>>
         [] Head(jobs) = "sync" ->
              user' = "done" /\ UNCHANGED <<worker, scriptState, reason, active, outcome, debug>>
    /\ UNCHANGED <<back, result, lastError, finished, ip, ipOld, stack,
                   hit, taken, seen, hits, running, debugging, historyVars>>

\* A script command the debug thread queued (`call`, or `invalid`, the internal
\* command that fails); its event is set at the end.
\* A call while the script is paused makes it run.
QueuedCommand ==
    /\ worker = "scriptcmd" /\ hit.command # "cmd"
    /\ ipOld' = ip
    /\ IF hit.command = "call"
       THEN /\ CallLabel(seen)
            /\ lastError' = IF seen = "stepping" THEN "pause" ELSE "continue"
            /\ jobs' = IF seen = "paused" THEN Append(jobs, "run") ELSE jobs
            /\ UNCHANGED <<hit, complaint>>
       ELSE /\ lastError' = "error"
            /\ complaint' = TRUE
            /\ hit' = [hit EXCEPT !.breaks = TRUE]
            /\ UNCHANGED <<ip, stack, jobs>>
    /\ debug' = "decide"
    /\ worker' = "idle"
    /\ UNCHANGED <<back, result, finished, scriptState, reason, active, outcome,
                   taken, seen, hits, running, debugging, user, trace, yielded, userRan>>

\* An ordinary command goes on as a line does that has no line: it waits for the
\* debuggee to pause and takes what was left for the script.
QueuedOrdinary ==
    /\ worker = "scriptcmd" /\ hit.command = "cmd"
    /\ ipOld' = ip
    /\ result' = "continue"
    /\ worker' = "cmdpoll"
    /\ UNCHANGED <<jobs, back, lastError, finished, scriptState, reason, active, outcome, ip, stack,
                   debugVars, user, historyVars>>

\* scriptRun refuses to start while the debuggee runs, then claims the state.
RunCheck ==
    /\ worker = "check"
    /\ IF debugging /\ running
       THEN worker' = "idle" /\ finished' = "failed" /\ complaint' = TRUE
       ELSE worker' = "claim" /\ UNCHANGED <<finished, complaint>>
    /\ UNCHANGED <<jobs, back, result, lastError, scriptVars, debugVars, user, trace, yielded, userRan>>

RunClaim ==
    /\ worker = "claim"
    /\ IF scriptState = "paused"
       THEN scriptState' = "running" /\ worker' = "reset" /\ finished' = "none"
       ELSE worker' = "idle" /\ finished' = "failed" /\ UNCHANGED scriptState
    /\ UNCHANGED <<jobs, back, result, lastError, reason, active, outcome, ip, ipOld, stack,
                   debugVars, user, historyVars>>

RunReset ==
    /\ worker = "reset"
    /\ ResetInterruptState
    /\ worker' = "top"
    /\ UNCHANGED <<jobs, back, result, lastError, finished, scriptState, ip, ipOld, stack,
                   debugVars, user, historyVars>>

\* The head of the run loop looks for an interrupt first.
RunTop ==
    /\ worker = "top"
    /\ worker' = "handle" /\ back' = "top"
    /\ UNCHANGED <<jobs, result, lastError, finished, scriptVars, debugVars, user, historyVars>>

\* scriptInternalCmd up to the end of the command. `run` first looks whether
\* the debuggee runs already and unlocks WAITID_RUN after that.
ExecuteLine ==
    /\ worker = "line"
    /\ Program[ip] # "ret"
    /\ ipOld' = ip /\ ip' = NextIp
    /\ trace' = Append(trace, ip)
    /\ LET canRun == debugging /\ ~running
           works  == Program[ip] = "cmd" \/ canRun
       IN  /\ result' = IF works THEN "continue" ELSE "abort"
           /\ complaint' = (complaint \/ ~works)
           /\ worker' = IF Program[ip] = "run" /\ canRun THEN "unlock" ELSE "poll"
    /\ UNCHANGED <<jobs, back, lastError, finished, scriptState, reason, active, outcome, stack,
                   debugVars, user, yielded, userRan>>

Unlock ==
    /\ worker = "unlock"
    /\ running' = TRUE
    /\ worker' = "poll"
    /\ UNCHANGED <<jobs, back, result, lastError, finished, scriptVars,
                   debug, hit, taken, seen, hits, debugging, user, historyVars>>

\* What scriptInternalCmd and the loops that call it do after a line.
AfterLine(error) ==
    /\ lastError' = error
    /\ ip' = CASE error = "error" -> ipOld [] error = "exit" -> 1 [] OTHER -> ip
    /\ worker' = IF error = "continue" /\ scriptState = "running" THEN "top" ELSE "end"

\* `ret`: the end of the script, or back to the line a call came from. It
\* pauses if the script is stepped or was not running when the call was made.
Return ==
    /\ worker = "line"
    /\ Program[ip] = "ret"
    /\ ipOld' = ip
    /\ trace' = Append(trace, ip)
    /\ IF stack = <<>>
       THEN /\ lastError' = "exit" /\ ip' = 1 /\ worker' = "end"
            /\ UNCHANGED stack
       ELSE LET frame  == stack[Len(stack)]
                pauses == scriptState = "stepping" \/ frame.state # "running"
            IN  /\ stack' = SubSeq(stack, 1, Len(stack) - 1)
                /\ ip' = frame.ip
                /\ lastError' = IF pauses THEN "pause" ELSE "continue"
                /\ worker' = IF pauses THEN "end" ELSE "top"
    /\ UNCHANGED <<jobs, back, result, finished, scriptState, reason, active, outcome,
                   debugVars, user, yielded, complaint, userRan>>

\* The end of an ordinary command of a breakpoint, for which the debug thread waits.
CommandEnds(error) ==
    /\ lastError' = error
    /\ hit' = [hit EXCEPT !.breaks = @ \/ error = "error"]
    /\ debug' = "decide"
    /\ worker' = "idle"

\* After the command the worker waits for the debuggee to pause, and looks
\* for an interrupt whenever it still runs.
Poll ==
    /\ worker \in {"poll", "cmdpoll"}
    /\ IF debugging /\ running
       THEN worker' = "handle" /\ back' = worker
       ELSE worker' = (IF worker = "poll" THEN "after" ELSE "cmdafter") /\ UNCHANGED back
    /\ UNCHANGED <<jobs, result, lastError, finished, scriptVars, debugVars, user, historyVars>>

\* Then it takes what the commands of breakpoints left for it, and looks for
\* an interrupt once more, unless somebody has yielded.
TakeOutcome ==
    /\ worker \in {"after", "cmdafter"}
    /\ outcome' = "continue"
    /\ result' = Merge(result)
    /\ worker' = "taken" /\ back' = worker
    /\ UNCHANGED <<jobs, lastError, finished, scriptState, reason, active, ip, ipOld, stack,
                   debugVars, user, historyVars>>

\* What scriptInternalCmdExec returns after a command, in the state of its caller.
Returned(end, state) ==
    IF end = "continue" /\ state = "running" THEN "continue"
    ELSE IF end = "abort" THEN "error" ELSE "pause"

\* scriptHandleInterrupt returned FALSE: go on where it was called.
NoInterrupt ==
    CASE back = "top" -> worker' = "line" /\ UNCHANGED <<ip, lastError, debug, hit>>
      [] back \in {"poll", "cmdpoll"} -> worker' = back /\ UNCHANGED <<ip, lastError, debug, hit>>
      [] back = "after" ->
           AfterLine(Returned(result, scriptState)) /\ UNCHANGED <<debug, hit>>
      [] back = "cmdafter" ->
           CommandEnds(Returned(result, seen)) /\ UNCHANGED ip

\* It returned TRUE: at the head of the loop the script just ends, in a line
\* or a command of a breakpoint that one fails.
Interrupted ==
    CASE back = "top" -> worker' = "end" /\ UNCHANGED <<ip, lastError, debug, hit>>
      [] back \in {"poll", "after"} -> AfterLine("error") /\ UNCHANGED <<debug, hit>>
      [] back \in {"cmdpoll", "cmdafter"} -> CommandEnds("error") /\ UNCHANGED ip

LookForInterrupt ==
    /\ worker = "taken"
    /\ IF active THEN NoInterrupt ELSE worker' = "handle" /\ UNCHANGED <<ip, lastError, debug, hit>>
    /\ UNCHANGED <<jobs, back, result, finished, scriptState, reason, active, outcome, ipOld, stack,
                   taken, seen, hits, running, debugging, user, historyVars>>

HandleInterruptFailing ==
    /\ worker = "handle"
    /\ IF reason = "none" THEN NoInterrupt ELSE Interrupted
    /\ UNCHANGED <<jobs, back, result, finished, scriptState, reason, active, outcome, ipOld, stack,
                   taken, seen, hits, running, debugging, user, historyVars>>

HandleInterruptSilent ==
    /\ worker = "handle"
    /\ CASE reason = "none"  -> NoInterrupt
         [] reason = "abort" -> Interrupted
         [] reason = "yield" -> worker' = "yield" /\ UNCHANGED <<ip, lastError, debug, hit>>
    /\ UNCHANGED <<jobs, back, result, finished, scriptState, reason, active, outcome, ipOld, stack,
                   taken, seen, hits, running, debugging, user, historyVars>>

HandleInterrupt ==
    /\ worker = "handle"
    /\ CASE reason = "none"  -> NoInterrupt /\ UNCHANGED active
         [] reason = "abort" -> Interrupted /\ UNCHANGED active
         [] reason = "yield" -> /\ active' = TRUE
                                /\ worker' = "yield"
                                /\ UNCHANGED <<ip, lastError, debug, hit>>
    /\ UNCHANGED <<jobs, back, result, finished, scriptState, reason, outcome, ipOld, stack,
                   taken, seen, hits, running, debugging, user, historyVars>>

\* The wait loop of a yielded script sees that the reason has changed.
YieldOver ==
    /\ worker = "yield"
    /\ reason # "yield"
    /\ worker' = "unyield"
    /\ UNCHANGED <<jobs, back, result, lastError, finished, scriptVars, debugVars, user, historyVars>>

UnyieldOnce ==
    /\ worker = "unyield"
    /\ active' = FALSE
    /\ NoInterrupt
    /\ UNCHANGED <<jobs, back, result, finished, scriptState, reason, outcome,
                   ipOld, stack, taken, seen, hits, running, debugging, user, historyVars>>

Unyield ==
    /\ worker = "unyield"
    /\ active' = FALSE
    /\ worker' = "handle"
    /\ UNCHANGED <<jobs, back, result, lastError, finished, scriptState, reason, outcome,
                   ip, ipOld, stack, debugVars, user, historyVars>>

\* The end of scriptRun or of a step: the state is given back first, the
\* interrupt state is reset after that.
EndScript ==
    /\ worker = "end"
    /\ scriptState' = "paused"
    /\ finished' = IF scriptState = "stepping" THEN finished
                   ELSE IF reason # "abort" /\ ip = 1 /\ lastError \in {"exit", "continue"}
                   THEN "ok" ELSE "failed"
    /\ worker' = "reset2"
    /\ UNCHANGED <<jobs, back, result, lastError, reason, active, outcome, ip, ipOld, stack,
                   debugVars, user, historyVars>>

EndReset ==
    /\ worker = "reset2"
    /\ ResetInterruptState
    /\ worker' = "idle"
    /\ UNCHANGED <<jobs, back, result, lastError, finished, scriptState, ip, ipOld, stack,
                   debugVars, user, historyVars>>

Worker ==
    \/ TakeJob \/ QueuedCommand \/ QueuedOrdinary
    \/ RunCheck \/ RunClaim \/ RunReset \/ RunTop
    \/ ExecuteLine \/ Unlock \/ Return \/ Poll \/ TakeOutcome \/ LookForInterrupt
    \/ HandleInterrupt \/ YieldOver \/ Unyield
    \/ EndScript \/ EndReset

-----------------------------------------------------------------------------
(* The debug thread                                                        *)

\* wait(WAITID_RUN) returns and the debuggee is continued.
DebuggeeContinues ==
    /\ debug = "wait" /\ running
    /\ debug' = "run"
    /\ UNCHANGED <<workerVars, scriptVars, hit, taken, seen, hits, running, debugging, user, historyVars>>

\* A breakpoint of the user: cbGenericBreakpoint begins.
BreakpointHit ==
    /\ debug = "run" /\ hits < MaxHits
    /\ hits' = hits + 1
    /\ hit' \in Hits
    /\ debug' = "await"
    /\ yielded' = FALSE
    /\ UNCHANGED <<workerVars, scriptVars, taken, seen, running, debugging, user,
                   trace, complaint, userRan>>

\* The breakpoint of the pause command or the end of a step: these callbacks
\* lock WAITID_RUN without asking the script.
PlainPause ==
    /\ debug = "run" /\ hits < MaxHits
    /\ hits' = hits + 1
    /\ running' = FALSE
    /\ debug' = "wait"
    /\ UNCHANGED <<workerVars, scriptVars, hit, taken, seen, debugging, user, historyVars>>

\* The debuggee exits: the debug loop ends.
DebuggeeExits ==
    /\ debug = "run"
    /\ debug' = "over"
    /\ debugging' = FALSE
    /\ UNCHANGED <<workerVars, scriptVars, hit, taken, seen, hits, running, user, historyVars>>

\* ScriptInterruptAwait(YieldDebugEvent): nothing to do for a paused script.
AwaitScript ==
    /\ debug = "await"
    /\ seen' = scriptState
    /\ debug' = IF scriptState = "paused" THEN "lock" ELSE "request"
    /\ UNCHANGED <<workerVars, scriptVars, hit, taken, hits, running, debugging, user, historyVars>>

RequestYield ==
    /\ debug = "request"
    /\ reason' = "yield"
    /\ debug' = "yielding"
    /\ UNCHANGED <<workerVars, scriptState, active, outcome, ip, ipOld, stack,
                   hit, taken, seen, hits, running, debugging, user, historyVars>>

\* It waits until the script has yielded or somebody changed the reason.
YieldSeen ==
    /\ debug = "yielding"
    /\ active \/ reason # "yield"
    /\ yielded' = active
    /\ debug' = "lock"
    /\ UNCHANGED <<workerVars, scriptVars, hit, taken, seen, hits, running, debugging, user,
                   trace, complaint, userRan>>

LockRun ==
    /\ debug = "lock"
    /\ running' = FALSE
    /\ debug' = IF hit.command = "none" THEN "decide" ELSE "command"
    /\ UNCHANGED <<workerVars, scriptVars, hit, taken, seen, hits, debugging, user, historyVars>>

\* ScriptCmdExecAwait: on this thread if the script has yielded, as a job of
\* the worker otherwise.
CommandWhere ==
    /\ debug = "command"
    /\ IF active \/ reason = "yield"
       THEN debug' = "settle" /\ UNCHANGED jobs
       ELSE debug' = "queued" /\ jobs' = Append(jobs, "scriptcmd")
    /\ UNCHANGED <<worker, back, result, lastError, finished, scriptVars,
                   hit, taken, seen, hits, running, debugging, user, historyVars>>

CommandSettles ==
    /\ debug = "settle"
    /\ active \/ reason # "yield"
    /\ IF active
       THEN debug' = "direct" /\ UNCHANGED jobs
       ELSE debug' = "queued" /\ jobs' = Append(jobs, "scriptcmd")
    /\ UNCHANGED <<worker, back, result, lastError, finished, scriptVars,
                   hit, taken, seen, hits, running, debugging, user, historyVars>>

\* scriptExecCommand on the debug thread. A command that fails makes the
\* breakpoint break and the script fail.
DirectCommand ==
    /\ debug = "direct" /\ hit.command # "cmd"
    /\ ipOld' = ip
    /\ IF hit.command = "call"
       THEN /\ CallLabel(seen)
            /\ lastError' = IF seen = "stepping" THEN "pause" ELSE "continue"
            /\ outcome' = Merge(IF seen = "stepping" THEN "pause" ELSE "continue")
            /\ UNCHANGED <<hit, complaint>>
       ELSE /\ lastError' = "error"
            /\ outcome' = Merge("abort")
            /\ hit' = [hit EXCEPT !.breaks = TRUE]
            /\ complaint' = TRUE
            /\ UNCHANGED <<ip, stack>>
    /\ debug' = "decide"
    /\ UNCHANGED <<jobs, worker, back, result, finished, scriptState, reason, active,
                   taken, seen, hits, running, debugging, user, trace, yielded, userRan>>

\* An ordinary command goes the way of a line's command on the debug thread too:
\* while the debuggee runs it looks for an interrupt, then it takes the outcome
\* that earlier commands left, and it looks for an interrupt once more if it does
\* not find the script yielded.
DirectOrdinary ==
    /\ debug = "direct" /\ hit.command = "cmd"
    /\ ipOld' = ip
    /\ debug' = "ownPoll"
    /\ UNCHANGED <<workerVars, scriptState, reason, active, outcome, ip, stack,
                   hit, taken, seen, hits, running, debugging, user, historyVars>>

DirectPoll ==
    /\ debug = "ownPoll"
    /\ debug' = IF debugging /\ running THEN "ownHandle" ELSE "ownTake"
    /\ UNCHANGED <<workerVars, scriptVars, hit, taken, seen, hits, running, debugging, user, historyVars>>

DirectTake ==
    /\ debug = "ownTake"
    /\ taken' = outcome /\ outcome' = "continue"
    /\ debug' = "ownActive"
    /\ UNCHANGED <<workerVars, scriptState, reason, active, ip, ipOld, stack,
                   hit, seen, hits, running, debugging, user, historyVars>>

\* Its error code becomes the outcome for the line that is interrupted.
DirectEnds(error) ==
    /\ lastError' = error
    /\ outcome' = Merge(IF error = "error" THEN "abort" ELSE error)
    /\ hit' = [hit EXCEPT !.breaks = @ \/ error = "error"]
    /\ taken' = "none"
    /\ debug' = "decide"

DirectNoInterrupt ==
    IF taken = "none"
    THEN debug' = "ownPoll" /\ UNCHANGED <<lastError, outcome, hit, taken>>
    ELSE DirectEnds(Returned(taken, seen))

DirectActive ==
    /\ debug = "ownActive"
    /\ IF active
       THEN DirectNoInterrupt
       ELSE debug' = "ownHandle" /\ UNCHANGED <<lastError, outcome, hit, taken>>
    /\ UNCHANGED <<jobs, worker, back, result, finished, scriptState, reason, active, ip, ipOld, stack,
                   seen, hits, running, debugging, user, historyVars>>

\* scriptHandleInterrupt on the debug thread yields to the debug thread itself.
DirectHandle ==
    /\ debug = "ownHandle"
    /\ CASE reason = "none"  -> DirectNoInterrupt /\ UNCHANGED active
         [] reason = "abort" -> DirectEnds("error") /\ UNCHANGED active
         [] reason = "yield" -> /\ active' = TRUE
                                /\ debug' = "ownYield"
                                /\ UNCHANGED <<lastError, outcome, hit, taken>>
    /\ UNCHANGED <<jobs, worker, back, result, finished, scriptState, reason, ip, ipOld, stack,
                   seen, hits, running, debugging, user, historyVars>>

DirectYieldOver ==
    /\ debug = "ownYield"
    /\ reason # "yield"
    /\ debug' = "ownUnyield"
    /\ UNCHANGED <<workerVars, scriptVars, hit, taken, seen, hits, running, debugging, user, historyVars>>

DirectUnyield ==
    /\ debug = "ownUnyield"
    /\ active' = FALSE
    /\ debug' = "ownHandle"
    /\ UNCHANGED <<workerVars, scriptState, reason, outcome, ip, ipOld, stack,
                   hit, taken, seen, hits, running, debugging, user, historyVars>>

DirectlyOrdinary ==
    \/ DirectOrdinary \/ DirectPoll \/ DirectTake \/ DirectActive
    \/ DirectHandle \/ DirectYieldOver \/ DirectUnyield

\* Break: the debuggee stays paused. Otherwise WAITID_RUN is unlocked.
Decide ==
    /\ debug = "decide"
    /\ running' = (running \/ ~hit.breaks)
    /\ debug' = IF seen = "paused" THEN "wait" ELSE "resume"
    /\ UNCHANGED <<workerVars, scriptVars, hit, taken, seen, hits, debugging, user, historyVars>>

ResumeScriptUnlessPaused ==
    /\ debug = "resume"
    /\ debug' = IF reason = "yield" /\ running THEN "clear" ELSE "wait"
    /\ UNCHANGED <<workerVars, scriptVars, hit, taken, seen, hits, running, debugging, user, historyVars>>

\* ScriptResume looks at the reason and then clears it.
ResumeScript ==
    /\ debug = "resume"
    /\ debug' = IF reason = "yield" THEN "clear" ELSE "wait"
    /\ UNCHANGED <<workerVars, scriptVars, hit, taken, seen, hits, running, debugging, user, historyVars>>

ClearReason ==
    /\ debug = "clear"
    /\ reason' = "none"
    /\ debug' = "wait"
    /\ UNCHANGED <<workerVars, scriptState, active, outcome, ip, ipOld, stack,
                   hit, taken, seen, hits, running, debugging, user, historyVars>>

DebugThread ==
    \/ DebuggeeContinues
    \/ AwaitScript \/ RequestYield \/ YieldSeen \/ LockRun
    \/ CommandWhere \/ CommandSettles \/ DirectCommand \/ DirectlyOrdinary
    \/ Decide \/ ResumeScript \/ ClearReason

Debuggee == BreakpointHit \/ PlainPause \/ DebuggeeExits

-----------------------------------------------------------------------------
(* The user                                                                *)

\* The run command: does nothing if the debuggee runs, and otherwise unlocks
\* WAITID_RUN a moment later.
UserRuns ==
    /\ "run" \in Calls
    /\ user = "idle" /\ debugging /\ ~running
    /\ user' = "unlock"
    /\ UNCHANGED <<workerVars, scriptVars, debugVars, historyVars>>

UserUnlocks ==
    /\ user = "unlock"
    /\ running' = TRUE
    /\ user' = "idle"
    /\ userRan' = TRUE
    /\ UNCHANGED <<workerVars, scriptVars, debug, hit, taken, seen, hits, debugging,
                   trace, yielded, complaint>>

\* The abort command: ScriptInterruptAwait(AbortUser).
UserAborts ==
    /\ "abort" \in Calls
    /\ user = "idle"
    /\ user' = IF scriptState = "paused" THEN "done" ELSE "store"
    /\ UNCHANGED <<workerVars, scriptVars, debugVars, historyVars>>

StoreAbort ==
    /\ user = "store"
    /\ reason' = "abort"
    /\ user' = "enqueue"
    /\ UNCHANGED <<workerVars, scriptState, active, outcome, ip, ipOld, stack,
                   debugVars, historyVars>>

AwaitQueue ==
    /\ user = "enqueue"
    /\ jobs' = Append(jobs, "sync")
    /\ user' = "await"
    /\ UNCHANGED <<worker, back, result, lastError, finished, scriptVars, debugVars, historyVars>>

User == UserRuns \/ UserUnlocks \/ UserAborts \/ StoreAbort \/ AwaitQueue

Next == Worker \/ DebugThread \/ Debuggee \/ User

Spec == Init /\ [][Next]_vars

\* The threads of the debugger are scheduled; a debuggee that runs reports
\* an event or exits in the end. Nothing is assumed of what a user begins.
Fairness ==
    /\ WF_vars(Worker)
    /\ WF_vars(DebugThread)
    /\ WF_vars(Debuggee)
    /\ WF_vars(UserUnlocks \/ StoreAbort \/ AwaitQueue)

FairSpec == Spec /\ Fairness

-----------------------------------------------------------------------------
(* Properties                                                              *)

\* The debug thread executes a command of a breakpoint itself.
Own == {"ownPoll", "ownTake", "ownActive", "ownHandle", "ownYield", "ownUnyield"}
Direct == {"direct"} \cup Own

InCallback ==
    debug \in {"lock", "command", "settle", "queued", "decide", "resume", "clear"} \cup Direct

Aborted == user \in {"store", "enqueue", "await", "done"}

\* While the debug thread handles a breakpoint for which it saw the script
\* yield, the script executes no line: the callback of the breakpoint and the
\* script never use the debuggee or the script's position at the same time,
\* although the worker may be on its way out of an earlier yield. An abort
\* ends the yield, and a job queued behind the script may then begin.
YieldHolds ==
    [][trace' # trace => ~(InCallback /\ yielded) \/ Aborted]_vars

\* The lines of the main program the script has executed are its first
\* lines in their order, none skipped and none twice, whatever routines
\* breakpoints made it call in between.
MainLines == SelectSeq(trace, LAMBDA l : l < Label)

MainInOrder ==
    (~Aborted /\ ~complaint) => \A k \in DOMAIN MainLines : MainLines[k] = k

\* A breakpoint that interrupts a script does not make it fail: scriptRun
\* reports a failure only if a command failed, the user aborted it, or a
\* breakpoint called a routine of a script that is being stepped.
FailsForAReason ==
    [][finished' = "failed" /\ finished # "failed" => complaint' \/ Aborted \/ lastError = "pause"]_vars

\* The user has not aborted the script or run the debuggee under it.
Undisturbed == ~Aborted /\ ~userRan

\* The debug thread has yielded to itself, in an ordinary command of a breakpoint:
\* it waits for a reason only it could clear. The script, which yields to it too,
\* never goes on. This happens when the worker leaves an old yield as the command
\* begins: it is found yielded at first, and not yielded any more after the command.
SelfWait == debug \in {"ownYield", "ownUnyield"}

\* The debug thread gets its yield, executes the command of the breakpoint and
\* waits for the next run.
HitHandled == (debug = "request" /\ Undisturbed) ~> (debug = "wait" \/ ~Undisturbed \/ SelfWait)

ScriptEnds == (worker # "idle") ~> (worker = "idle" \/ ~Undisturbed \/ SelfWait)

\* A script that was started ends, and every breakpoint that interrupts it is
\* handled: the two threads that wait for each other never both wait, but for the
\* debug thread that waits for itself.
NobodyStuck == HitHandled /\ ScriptEnds

\* The handshake the script engine was planned with (script-plan.md): the
\* debug thread that requested a yield waits until it is acknowledged and
\* goes on. Nobody acknowledges once the script has ended.
YieldAcknowledged == (debug = "yielding") ~> (debug # "yielding")
=============================================================================
