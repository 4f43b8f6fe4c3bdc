------------------------- MODULE ScriptEngine_proofs -------------------------
(* Scripts and the breakpoints that interrupt them, for any program, any      *)
(* breakpoints and any number of hits: while a callback has the yield of the *)
(* script no line is executed and nobody else touches the state of the       *)
(* script, and a script fails for a reason only.                             *)
EXTENDS ScriptEngine, SequenceTheorems, TLAPS

\* The worker executes a command that a breakpoint queued.
Cmd == {"cmdpoll", "cmdafter"}
Inside == {"taken", "handle", "yield", "unyield"}
Executing == worker \in {"scriptcmd"} \cup Cmd \/ (worker \in Inside /\ back \in Cmd)

\* A script is in its run loop or in a step exactly while it is not paused, and
\* only a thread in the wait loop of the yield makes it yielded.
Off == {"idle", "check", "claim", "reset2"}
StateOfWorker ==
  /\ scriptState = "paused" <=> worker \in Off \/ Executing
  /\ active => worker \in {"yield", "unyield"} \/ debug \in {"ownYield", "ownUnyield"}

\* A queued command of a breakpoint is there once, and the debug thread waits.
QueuedOnce ==
  /\ \A i \in 1..Len(jobs) : jobs[i] = "scriptcmd" => debug = "queued" /\ ~Executing
  /\ \A i, j \in 1..Len(jobs) : jobs[i] = "scriptcmd" /\ jobs[j] = "scriptcmd" => i = j
  /\ Executing => debug = "queued"

\* Who asked for the interrupt.
ReasonOf ==
  /\ reason = "yield" => debug = "yielding" \/ InCallback
  /\ reason = "yield" \/ debug = "request" => seen # "paused"
  /\ reason = "abort" => Aborted

\* The handshake: an interrupted script has yielded or is about to, and only
\* such a script is touched by the debug thread.
Handshake ==
  ~Aborted =>
    /\ debug \in {"await", "request", "yielding"} => ~yielded
    /\ debug = "yielding" /\ active => reason = "yield"
    /\ InCallback /\ yielded => reason = "yield" /\ worker \in {"yield", "unyield", "handle"}
    /\ InCallback /\ ~yielded => reason # "yield" /\ ~active
    /\ debug \in Direct => yielded

\* Where a script fails a command has failed.
Complaints ==
  /\ outcome = "abort" \/ result = "abort" \/ taken = "abort" => complaint \/ Aborted
  /\ worker = "end" /\ scriptState = "running" =>
       Aborted \/ complaint \/ lastError = "pause" \/ (lastError = "exit" /\ ip = 1)

IInv ==
  TypeOK /\ StateOfWorker /\ QueuedOnce /\ ReasonOf /\ Handshake /\ Complaints

-----------------------------------------------------------------------------
(* Types                                                                   *)

Frames == [ip : Line, state : State]

\* Frames go on the stack and come off it, jobs into the queue and out of it.
LEMMA Sequence ==
  ASSUME NEW S, NEW s \in Seq(S)
  PROVE  /\ \A e \in S : Append(s, e) \in Seq(S)
         /\ s # <<>> => /\ Head(s) \in S /\ Tail(s) \in Seq(S)
                        /\ s[Len(s)] \in S
                        /\ SubSeq(s, 1, Len(s) - 1) \in Seq(S)
<1>1. \A e \in S : Append(s, e) \in Seq(S)
  BY AppendProperties
<1>2. ASSUME s # <<>>
      PROVE  /\ Head(s) \in S /\ Tail(s) \in Seq(S)
             /\ s[Len(s)] \in S
             /\ SubSeq(s, 1, Len(s) - 1) \in Seq(S)
  <2>1. Len(s) \in Nat \ {0}
    BY <1>2, EmptySeq
  <2>2. \A i \in 1..Len(s) : s[i] \in S
    BY ElementOfSeq
  <2>3. SubSeq(s, 1, Len(s) - 1) \in Seq(S)
    BY <2>1, <2>2, SubSeqProperties
  <2> QED
    BY <1>2, <2>1, <2>2, <2>3, HeadTailProperties
<1> QED
  BY <1>1, <1>2

\* The lines of a program: its first one, and the next one of each.
LEMMA Lines ==
  /\ 1 \in Line /\ Label \in Line
  /\ \A i \in Line : i \in Nat /\ (i < Len(Program) => i + 1 \in Line)
<1>1. Program \in Seq({"cmd", "run", "ret"}) /\ Label \in DOMAIN Program
  BY ProgramAssumption
<1>2. Len(Program) \in Nat /\ DOMAIN Program = 1..Len(Program)
  BY <1>1, LenProperties
<1> QED
  BY <1>1, <1>2 DEF Line

-----------------------------------------------------------------------------
(* What the actions with cases do                                          *)

\* The four jobs, and a step that does nothing because the script is not paused.
LEMMA TakeJobCases ==
  ASSUME TakeJob, jobs \in Seq(Job)
  PROVE  /\ jobs # <<>> /\ jobs' = Tail(jobs)
         /\ \/ /\ Head(jobs) \in {"run", "scriptcmd"}
               /\ worker' = (IF Head(jobs) = "run" THEN "check" ELSE "scriptcmd")
               /\ UNCHANGED <<scriptState, reason, active, outcome, debug, user>>
            \/ /\ Head(jobs) = "step" /\ scriptState = "paused"
               /\ ResetInterruptState
               /\ scriptState' = "stepping" /\ worker' = "line" /\ UNCHANGED <<debug, user>>
            \/ /\ Head(jobs) = "step" /\ scriptState # "paused"
               /\ UNCHANGED <<worker, scriptState, reason, active, outcome, debug, user>>
            \/ /\ Head(jobs) = "sync" /\ user' = "done"
               /\ UNCHANGED <<worker, scriptState, reason, active, outcome, debug>>
<1>1. jobs # <<>> /\ jobs' = Tail(jobs)
  BY DEF TakeJob
<1>2. Head(jobs) \in {"run", "step", "scriptcmd", "sync"}
  BY <1>1, Sequence DEF Job
<1>3. CASE Head(jobs) = "run"
  <2>1. worker' = "check" /\ UNCHANGED <<scriptState, reason, active, outcome, debug, user>>
    BY <1>3 DEF TakeJob
  <2> QED
    BY <1>1, <1>3, <2>1
<1>4. CASE Head(jobs) = "step"
  <2>1. IF scriptState = "paused"
        THEN /\ ResetInterruptState
             /\ scriptState' = "stepping"
             /\ worker' = "line"
             /\ UNCHANGED <<debug, user>>
        ELSE UNCHANGED <<worker, scriptState, reason, active, outcome, debug, user>>
    BY <1>4 DEF TakeJob
  <2> QED
    BY <1>1, <1>4, <2>1
<1>5. CASE Head(jobs) = "scriptcmd"
  <2>1. worker' = "scriptcmd" /\ UNCHANGED <<scriptState, reason, active, outcome, debug, user>>
    BY <1>5 DEF TakeJob
  <2> QED
    BY <1>1, <1>5, <2>1
<1>6. CASE Head(jobs) = "sync"
  <2>1. user' = "done" /\ UNCHANGED <<worker, scriptState, reason, active, outcome, debug>>
    BY <1>6 DEF TakeJob
  <2> QED
    BY <1>1, <1>6, <2>1
<1> QED
  BY <1>2, <1>3, <1>4, <1>5, <1>6

Errors == {"error", "continue", "pause"}

\* The end of a line: it fails for an abort or for the outcome of its command.
EndsLine ==
  /\ lastError' \in Errors /\ ip' \in {ip, ipOld}
  /\ worker' = (IF lastError' = "continue" /\ scriptState = "running" THEN "top" ELSE "end")
  /\ lastError' = "error" => reason = "abort" \/ result = "abort"
  /\ UNCHANGED <<debug, hit>>

\* The end of a queued command of a breakpoint.
EndsCommand ==
  /\ lastError' \in Errors /\ UNCHANGED ip
  /\ worker' = "idle" /\ debug' = "decide"
  /\ hit \in Breakpoint => hit' \in Breakpoint

GoesOn ==
  \/ /\ back \in {"top", "poll", "cmdpoll"}
     /\ worker' = (IF back = "top" THEN "line" ELSE back)
     /\ UNCHANGED <<ip, lastError, debug, hit>>
  \/ back = "after" /\ EndsLine
  \/ back = "cmdafter" /\ EndsCommand

GivesUp ==
  \/ back = "top" /\ worker' = "end" /\ UNCHANGED <<ip, lastError, debug, hit>>
  \/ back \in {"poll", "after"} /\ EndsLine
  \/ back \in Cmd /\ EndsCommand

LEMMA LineEnds ==
  ASSUME NEW error \in Errors, AfterLine(error), UNCHANGED <<debug, hit>>,
         error = "error" => reason = "abort" \/ result = "abort"
  PROVE  EndsLine
<1>1. ip' \in {ip, ipOld}
  <2>1. CASE error = "error"
    BY <2>1 DEF AfterLine
  <2>2. CASE error # "error" /\ error # "exit"
    BY <2>2 DEF AfterLine
  <2> QED
    BY <2>1, <2>2 DEF Errors
<1> QED
  BY <1>1 DEF AfterLine, EndsLine

LEMMA BreaksOrNot ==
  ASSUME hit \in Breakpoint, NEW b \in BOOLEAN
  PROVE  [hit EXCEPT !.breaks = @ \/ b] \in Breakpoint
<1>1. \A c \in BOOLEAN : [hit EXCEPT !.breaks = c] \in Breakpoint
  BY DEF Breakpoint
<1>2. (hit.breaks \/ b) \in BOOLEAN
  OBVIOUS
<1> QED
  BY <1>1, <1>2

LEMMA CommandIsOver ==
  ASSUME NEW error \in Errors, CommandEnds(error), UNCHANGED ip
  PROVE  EndsCommand
<1>1. (error = "error") \in BOOLEAN
  OBVIOUS
<1>2. hit \in Breakpoint => hit' \in Breakpoint
  BY <1>1, BreaksOrNot DEF CommandEnds
<1> QED
  BY <1>2 DEF CommandEnds, EndsCommand

\* What a command returns.
LEMMA ReturnedIs ==
  ASSUME NEW end \in Outcome, NEW state \in State
  PROVE  Returned(end, state) \in Errors /\ (Returned(end, state) = "error" => end = "abort")
BY DEF Returned, Errors

\* scriptHandleInterrupt, by the place it was called from.
Backs == {"top", "poll", "after"} \cup Cmd
LEMMA NoInterruptCases ==
  ASSUME NoInterrupt, back \in Backs, result \in Outcome, scriptState \in State, seen \in State
  PROVE  GoesOn
<1>1. CASE back = "top"
  <2>1. worker' = "line" /\ UNCHANGED <<ip, lastError, debug, hit>>
    BY <1>1 DEF NoInterrupt
  <2> QED
    BY <1>1, <2>1 DEF GoesOn
<1>2. CASE back \in {"poll", "cmdpoll"}
  <2>1. worker' = back /\ UNCHANGED <<ip, lastError, debug, hit>>
    BY <1>2 DEF NoInterrupt
  <2> QED
    BY <1>2, <2>1 DEF GoesOn
<1>3. CASE back = "after"
  <2> DEFINE error == Returned(result, scriptState)
  <2>1. AfterLine(error) /\ UNCHANGED <<debug, hit>>
    BY <1>3 DEF NoInterrupt
  <2>2. error \in Errors /\ (error = "error" => result = "abort")
    BY ReturnedIs
  <2> HIDE DEF error
  <2> QED
    BY <1>3, <2>1, <2>2, LineEnds DEF GoesOn
<1>4. CASE back = "cmdafter"
  <2> DEFINE error == Returned(result, seen)
  <2>1. CommandEnds(error) /\ UNCHANGED ip
    BY <1>4 DEF NoInterrupt
  <2>2. error \in Errors
    BY ReturnedIs
  <2> HIDE DEF error
  <2> QED
    BY <1>4, <2>1, <2>2, CommandIsOver DEF GoesOn
<1> QED
  BY <1>1, <1>2, <1>3, <1>4 DEF Backs, Cmd

LEMMA InterruptedCases ==
  ASSUME Interrupted, back \in Backs, reason = "abort"
  PROVE  GivesUp
<1>1. CASE back = "top"
  <2>1. worker' = "end" /\ UNCHANGED <<ip, lastError, debug, hit>>
    BY <1>1 DEF Interrupted
  <2> QED
    BY <1>1, <2>1 DEF GivesUp
<1>2. CASE back \in {"poll", "after"}
  <2>1. AfterLine("error") /\ UNCHANGED <<debug, hit>>
    BY <1>2 DEF Interrupted
  <2> QED
    BY <1>2, <2>1, LineEnds DEF GivesUp, Errors
<1>3. CASE back \in Cmd
  <2>1. CommandEnds("error") /\ UNCHANGED ip
    BY <1>3 DEF Interrupted, Cmd
  <2> QED
    BY <1>3, <2>1, CommandIsOver DEF GivesUp, Errors
<1> QED
  BY <1>1, <1>2, <1>3 DEF Backs

LEMMA HandleCases ==
  ASSUME HandleInterrupt, TypeOK
  PROVE  \/ /\ reason = "yield" /\ active' = TRUE /\ worker' = "yield"
            /\ UNCHANGED <<ip, lastError, debug, hit>>
         \/ reason = "none" /\ UNCHANGED active /\ GoesOn
         \/ reason = "abort" /\ UNCHANGED active /\ GivesUp
<1>0. /\ reason \in {"yield", "none", "abort"} /\ back \in Backs /\ result \in Outcome
      /\ scriptState \in State /\ seen \in State
  BY DEF TypeOK, Reason, Backs, Cmd
<1>1. CASE reason = "yield"
  <2>1. active' = TRUE /\ worker' = "yield" /\ UNCHANGED <<ip, lastError, debug, hit>>
    BY <1>1 DEF HandleInterrupt
  <2> QED
    BY <1>1, <2>1
<1>2. CASE reason = "abort"
  <2>1. Interrupted /\ UNCHANGED active
    BY <1>2 DEF HandleInterrupt
  <2> QED
    BY <1>0, <1>2, <2>1, InterruptedCases
<1>3. CASE reason = "none"
  <2>1. NoInterrupt /\ UNCHANGED active
    BY <1>3 DEF HandleInterrupt
  <2> QED
    BY <1>0, <1>3, <2>1, NoInterruptCases
<1> QED
  BY <1>0, <1>1, <1>2, <1>3

LEMMA LookCases ==
  ASSUME LookForInterrupt, TypeOK
  PROVE  \/ worker' = "handle" /\ UNCHANGED <<ip, lastError, debug, hit>>
         \/ active /\ GoesOn
<1>0. /\ back \in Backs /\ result \in Outcome /\ scriptState \in State /\ seen \in State
  BY DEF TypeOK, Backs, Cmd
<1>1. CASE active
  <2>1. NoInterrupt
    BY <1>1 DEF LookForInterrupt
  <2> QED
    BY <1>0, <1>1, <2>1, NoInterruptCases
<1>2. CASE ~active
  BY <1>2 DEF LookForInterrupt
<1> QED
  BY <1>1, <1>2

\* The end of an ordinary command on the debug thread, and what else its steps do.
EndsDirect ==
  /\ lastError' \in Errors
  /\ outcome' \in {outcome, "continue", "pause", "abort"}
  /\ outcome' = "abort" => outcome = "abort" \/ taken = "abort" \/ reason = "abort"
  /\ hit \in Breakpoint => hit' \in Breakpoint
  /\ taken' = "none" /\ debug' = "decide"

LEMMA DirectIsOver ==
  ASSUME NEW error \in Errors, DirectEnds(error),
         error = "error" => taken = "abort" \/ reason = "abort"
  PROVE  EndsDirect
<1>1. (error = "error") \in BOOLEAN
  OBVIOUS
<1>2. hit \in Breakpoint => hit' \in Breakpoint
  BY <1>1, BreaksOrNot DEF DirectEnds
<1>3. outcome' \in {outcome, IF error = "error" THEN "abort" ELSE error}
  BY DEF DirectEnds, Merge
<1> QED
  BY <1>2, <1>3 DEF DirectEnds, EndsDirect, Errors

LEMMA DirectGoesOn ==
  ASSUME DirectNoInterrupt, TypeOK
  PROVE  \/ debug' = "ownPoll" /\ UNCHANGED <<lastError, outcome, hit, taken>>
         \/ EndsDirect
<1>1. CASE taken = "none"
  BY <1>1 DEF DirectNoInterrupt
<1>2. CASE taken # "none"
  <2> DEFINE error == Returned(taken, seen)
  <2>1. taken \in Outcome /\ seen \in State
    BY <1>2 DEF TypeOK
  <2>2. error \in Errors /\ (error = "error" => taken = "abort")
    BY <2>1, ReturnedIs
  <2>3. DirectEnds(error)
    BY <1>2 DEF DirectNoInterrupt
  <2> HIDE DEF error
  <2> QED
    BY <2>2, <2>3, DirectIsOver
<1> QED
  BY <1>1, <1>2

LEMMA DirectHandleCases ==
  ASSUME DirectHandle, TypeOK
  PROVE  \/ /\ reason = "yield" /\ active' = TRUE /\ debug' = "ownYield"
            /\ UNCHANGED <<lastError, outcome, hit, taken>>
         \/ /\ debug' = "ownPoll" /\ UNCHANGED <<active, lastError, outcome, hit, taken>>
         \/ EndsDirect /\ UNCHANGED active
<1>0. reason \in {"yield", "none", "abort"}
  BY DEF TypeOK, Reason
<1>1. CASE reason = "yield"
  <2>1. active' = TRUE /\ debug' = "ownYield" /\ UNCHANGED <<lastError, outcome, hit, taken>>
    BY <1>1 DEF DirectHandle
  <2> QED
    BY <1>1, <2>1
<1>2. CASE reason = "abort"
  <2>1. DirectEnds("error") /\ UNCHANGED active
    BY <1>2 DEF DirectHandle
  <2> QED
    BY <1>2, <2>1, DirectIsOver DEF Errors
<1>3. CASE reason = "none"
  <2>1. DirectNoInterrupt /\ UNCHANGED active
    BY <1>3 DEF DirectHandle
  <2> QED
    BY <2>1, DirectGoesOn
<1> QED
  BY <1>0, <1>1, <1>2, <1>3, Zenon

LEMMA DirectActiveCases ==
  ASSUME DirectActive, TypeOK
  PROVE  \/ /\ debug' \in {"ownPoll", "ownHandle"}
            /\ UNCHANGED <<lastError, outcome, hit, taken>>
         \/ EndsDirect
<1>1. CASE active
  BY <1>1, DirectGoesOn DEF DirectActive
<1>2. CASE ~active
  BY <1>2 DEF DirectActive
<1> QED
  BY <1>1, <1>2

\* The steps of an ordinary command on the debug thread, in one.
LEMMA DirectlyCases ==
  ASSUME DirectlyOrdinary, TypeOK
  PROVE  /\ debug \in Direct
         /\ debug' \in Own \cup {"decide"}
         /\ UNCHANGED <<jobs, worker, back, result, finished, scriptState, reason, ip, stack>>
         /\ UNCHANGED <<seen, hits, running, debugging, user, historyVars>>
         /\ ipOld' \in {ip, ipOld}
         /\ lastError' \in Errors \cup {lastError}
         /\ outcome' \in {outcome, "continue", "pause", "abort"}
         /\ taken' \in {taken, outcome, "none"}
         /\ hit \in Breakpoint => hit' \in Breakpoint
         /\ outcome' = "abort" => outcome = "abort" \/ taken = "abort" \/ reason = "abort"
         /\ \/ active' = active /\ (active => debug \notin {"ownYield", "ownUnyield"} \/ debug' \in {"ownYield", "ownUnyield"})
            \/ active' = FALSE
            \/ active' = TRUE /\ reason = "yield" /\ debug' = "ownYield"
<1> USE DEF Direct, Own, workerVars, scriptVars, debugVars, historyVars
<1>1. CASE DirectOrdinary \/ DirectPoll \/ DirectTake
  BY <1>1 DEF DirectOrdinary, DirectPoll, DirectTake
<1>2. CASE DirectYieldOver \/ DirectUnyield
  BY <1>2 DEF DirectYieldOver, DirectUnyield
<1>3. CASE DirectActive
  BY <1>3, DirectActiveCases DEF DirectActive, EndsDirect
<1>4. CASE DirectHandle
  <2>1. debug = "ownHandle" /\ UNCHANGED <<jobs, worker, back, result, finished, scriptState,
          reason, ip, ipOld, stack, seen, hits, running, debugging, user, historyVars>>
    BY <1>4 DEF DirectHandle
  <2> QED
    BY <1>4, <2>1, DirectHandleCases DEF EndsDirect
<1> QED
  BY <1>1, <1>2, <1>3, <1>4 DEF DirectlyOrdinary

\* The steps of the worker that look for an interrupt, in one.
Looks == HandleInterrupt \/ LookForInterrupt
LEMMA LooksCases ==
  ASSUME Looks, TypeOK
  PROVE  /\ worker \in {"taken", "handle"}
         /\ UNCHANGED <<jobs, back, result, finished, scriptState, reason, outcome, ipOld, stack>>
         /\ UNCHANGED <<taken, seen, hits, running, debugging, user, historyVars>>
         /\ ip' \in {ip, ipOld} /\ lastError' \in Errors \cup {lastError}
         /\ hit' \in Breakpoint
         /\ \/ worker' \in {"yield", "handle"} /\ debug' = debug
            \/ worker' \in {"line", "poll", "top", "end"} /\ back \notin Cmd /\ debug' = debug
            \/ worker' = "cmdpoll" /\ back \in Cmd /\ debug' = debug
            \/ worker' = "idle" /\ back \in Cmd /\ debug' = "decide"
         /\ active' = active \/ (active' = TRUE /\ reason = "yield" /\ worker' = "yield")
         /\ worker = "handle" /\ reason = "yield" => worker' = "yield" /\ UNCHANGED <<ip, lastError>>
         /\ worker' = "end" /\ scriptState = "running" =>
              reason = "abort" \/ result = "abort" \/ lastError' = "pause"
<1>0. hit \in Breakpoint
  BY DEF TypeOK
<1>1. GoesOn \/ (GivesUp /\ reason = "abort") =>
         /\ ip' \in {ip, ipOld} /\ lastError' \in Errors \cup {lastError}
         /\ hit' \in Breakpoint
         /\ \/ worker' \in {"line", "poll", "top", "end"} /\ back \notin Cmd /\ debug' = debug
            \/ worker' = "cmdpoll" /\ back \in Cmd /\ debug' = debug
            \/ worker' = "idle" /\ back \in Cmd /\ debug' = "decide"
         /\ worker' = "end" /\ scriptState = "running" =>
              reason = "abort" \/ result = "abort" \/ lastError' = "pause"
  BY <1>0 DEF GoesOn, GivesUp, EndsLine, EndsCommand, Errors, Cmd
<1>2. CASE HandleInterrupt
  <2>1. /\ worker = "handle"
        /\ UNCHANGED <<jobs, back, result, finished, scriptState, reason, outcome, ipOld, stack,
                       taken, seen, hits, running, debugging, user, historyVars>>
    BY <1>2 DEF HandleInterrupt
  <2>2. CASE /\ reason = "yield" /\ active' = TRUE /\ worker' = "yield"
             /\ UNCHANGED <<ip, lastError, debug, hit>>
    BY <1>0, <2>1, <2>2
  <2>3. CASE reason \in {"none", "abort"} /\ UNCHANGED active /\ (GoesOn \/ (GivesUp /\ reason = "abort"))
    BY <1>1, <2>1, <2>3
  <2> QED
    BY <1>2, <2>2, <2>3, HandleCases
<1>3. CASE LookForInterrupt
  <2>1. /\ worker = "taken" /\ active' = active
        /\ UNCHANGED <<jobs, back, result, finished, scriptState, reason, outcome, ipOld, stack,
                       taken, seen, hits, running, debugging, user, historyVars>>
    BY <1>3 DEF LookForInterrupt
  <2> QED
    BY <1>0, <1>1, <1>3, <2>1, LookCases
<1> QED
  BY <1>2, <1>3 DEF Looks

-----------------------------------------------------------------------------
(* Every step keeps the types                                              *)

\* The actions that leave the queue, the program counters, the frames and the
\* trace of the script alone, those of the debug thread and the debuggee
\* included.
Aside ==
  \/ RunCheck \/ RunClaim \/ RunReset \/ RunTop \/ Unlock \/ Poll \/ TakeOutcome
  \/ YieldOver \/ Unyield \/ EndScript \/ EndReset
  \/ DebuggeeContinues \/ AwaitScript \/ RequestYield \/ YieldSeen \/ LockRun
  \/ Decide \/ ResumeScript \/ ClearReason
  \/ BreakpointHit \/ PlainPause \/ DebuggeeExits
  \/ UserRuns \/ UserUnlocks \/ UserAborts \/ StoreAbort

LEMMA AsideLeaves ==
  ASSUME Aside
  PROVE  UNCHANGED <<jobs, ip, ipOld, stack, trace>>
<1> USE DEF workerVars, scriptVars, debugVars, historyVars, ResetInterruptState
<1>1. CASE RunCheck \/ RunClaim \/ RunReset \/ RunTop \/ Unlock \/ Poll \/ TakeOutcome
  BY <1>1 DEF RunCheck, RunClaim, RunReset, RunTop, Unlock, Poll, TakeOutcome
<1>2. CASE YieldOver \/ Unyield \/ EndScript \/ EndReset
  BY <1>2 DEF YieldOver, Unyield, EndScript, EndReset
<1>3. CASE \/ DebuggeeContinues \/ AwaitScript \/ RequestYield \/ YieldSeen \/ LockRun
           \/ Decide \/ ResumeScript \/ ClearReason
  BY <1>3 DEF DebuggeeContinues, AwaitScript, RequestYield, YieldSeen, LockRun, Decide,
              ResumeScript, ClearReason
<1>4. CASE BreakpointHit \/ PlainPause \/ DebuggeeExits
  BY <1>4 DEF BreakpointHit, PlainPause, DebuggeeExits
<1>5. CASE UserRuns \/ UserUnlocks \/ UserAborts \/ StoreAbort
  BY <1>5 DEF UserRuns, UserUnlocks, UserAborts, StoreAbort
<1> QED
  BY <1>1, <1>2, <1>3, <1>4, <1>5 DEF Aside

\* The queue, the frames and the lines.
SeqOK ==
  /\ jobs \in Seq(Job)
  /\ stack \in Seq(Frames)
  /\ trace \in Seq(Line)
  /\ ip \in Line /\ ipOld \in Line

\* A routine is called at a line of the program.
LEMMA CallLabelKeeps ==
  ASSUME TypeOK, CallLabel(seen)
  PROVE  stack' \in Seq(Frames) /\ ip' \in Line
<1>1. [ip |-> ip, state |-> seen] \in Frames /\ stack \in Seq(Frames)
  BY DEF TypeOK, Frames
<1> QED
  BY <1>1, Sequence, Lines DEF CallLabel

LEMMA StepSeqOK ==
  ASSUME TypeOK, Next
  PROVE  SeqOK'
<1>0. SeqOK /\ seen \in State /\ reason \in Reason /\ back \in Backs
  BY DEF TypeOK, SeqOK, Frames, Backs, Cmd
<1>1. CASE TakeJob
  <2>1. jobs' \in Seq(Job)
    BY <1>0, <1>1, TakeJobCases, Sequence DEF SeqOK
  <2> QED
    BY <1>0, <1>1, <2>1 DEF SeqOK, TakeJob, historyVars
<1>2. CASE QueuedCommand
  <2>1. Append(jobs, "run") \in Seq(Job)
    BY <1>0, Sequence DEF SeqOK, Job
  <2>2. jobs' \in Seq(Job)
    BY <1>0, <1>2, <2>1 DEF SeqOK, QueuedCommand
  <2>3. stack' \in Seq(Frames) /\ ip' \in Line
    BY <1>0, <1>2, CallLabelKeeps DEF SeqOK, QueuedCommand
  <2> QED
    BY <1>0, <1>2, <2>2, <2>3 DEF SeqOK, QueuedCommand
<1>3. CASE ExecuteLine
  <2>1. trace' \in Seq(Line)
    BY <1>0, <1>3, Sequence DEF SeqOK, ExecuteLine
  <2>2. ip' \in Line
    BY <1>0, <1>3, Lines DEF SeqOK, ExecuteLine, NextIp
  <2> QED
    BY <1>0, <1>3, <2>1, <2>2 DEF SeqOK, ExecuteLine
<1>4. CASE Return
  <2>1. trace' \in Seq(Line)
    BY <1>0, <1>4, Sequence DEF SeqOK, Return
  <2>2. stack' \in Seq(Frames) /\ ip' \in Line
    <3>1. CASE stack = <<>>
      BY <1>0, <1>4, <3>1, Lines DEF SeqOK, Return
    <3>2. CASE stack # <<>>
      <4>1. stack[Len(stack)] \in Frames /\ SubSeq(stack, 1, Len(stack) - 1) \in Seq(Frames)
        BY <1>0, <3>2, Sequence DEF SeqOK
      <4>2. stack' = SubSeq(stack, 1, Len(stack) - 1) /\ ip' = stack[Len(stack)].ip
        BY <1>4, <3>2 DEF Return
      <4> QED
        BY <4>1, <4>2 DEF Frames
    <3> QED
      BY <3>1, <3>2
  <2> QED
    BY <1>0, <1>4, <2>1, <2>2 DEF SeqOK, Return
<1>5. CASE Looks
  BY <1>0, <1>5, LooksCases DEF SeqOK, historyVars
<1>6. CASE CommandWhere \/ CommandSettles
  <2>1. jobs' \in Seq(Job)
    BY <1>0, <1>6, Sequence DEF SeqOK, CommandWhere, CommandSettles, Job
  <2> QED
    BY <1>0, <1>6, <2>1 DEF SeqOK, CommandWhere, CommandSettles, scriptVars, historyVars
<1>7. CASE DirectCommand
  <2>1. stack' \in Seq(Frames) /\ ip' \in Line
    BY <1>0, <1>7, CallLabelKeeps DEF SeqOK, DirectCommand
  <2> QED
    BY <1>0, <1>7, <2>1 DEF SeqOK, DirectCommand
<1>8. CASE AwaitQueue
  <2>1. jobs' \in Seq(Job)
    BY <1>0, <1>8, Sequence DEF SeqOK, AwaitQueue, Job
  <2> QED
    BY <1>0, <1>8, <2>1 DEF SeqOK, AwaitQueue, scriptVars, historyVars
<1>9. CASE Aside
  BY <1>0, <1>9, AsideLeaves DEF SeqOK
<1>10. CASE QueuedOrdinary
  BY <1>0, <1>10 DEF SeqOK, QueuedOrdinary, debugVars, historyVars
<1>11. CASE DirectlyOrdinary
  BY <1>0, <1>11, DirectlyCases DEF SeqOK, historyVars
<1> QED
  BY <1>1, <1>2, <1>3, <1>4, <1>5, <1>6, <1>7, <1>8, <1>9, <1>10, <1>11
  DEF Next, Worker, DebugThread, Debuggee, User, Aside, Looks

\* Where the worker is, where the debug thread and the user are.
PlaceOK ==
  /\ worker \in {"idle", "check", "claim", "reset", "top", "line", "unlock", "poll", "after",
                 "handle", "yield", "unyield", "end", "reset2", "scriptcmd", "cmdpoll",
                 "cmdafter", "taken"}
  /\ back \in Backs
  /\ debug \in {"wait", "run", "await", "request", "yielding", "lock", "command", "settle",
                "queued", "decide", "resume", "clear", "over"} \cup Direct
  /\ user \in {"idle", "unlock", "store", "enqueue", "await", "done"}

\* What the script, its last command and the breakpoint are like.
ValueOK ==
  /\ lastError \in {"error", "continue", "exit", "pause"}
  /\ finished \in {"none", "ok", "failed"}
  /\ scriptState \in State
  /\ reason \in Reason
  /\ outcome \in Outcome
  /\ hit \in Breakpoint
  /\ seen \in State
  /\ hits \in 0 .. MaxHits
  /\ result \in Outcome
  /\ taken \in Outcome \cup {"none"}

FlagOK ==
  /\ active \in BOOLEAN
  /\ running \in BOOLEAN /\ debugging \in BOOLEAN
  /\ yielded \in BOOLEAN /\ complaint \in BOOLEAN /\ userRan \in BOOLEAN

LEMMA TypeGroups == TypeOK <=> SeqOK /\ PlaceOK /\ ValueOK /\ FlagOK
BY DEF TypeOK, SeqOK, PlaceOK, ValueOK, FlagOK, Frames, Backs, Cmd, Direct, Own

LEMMA StepPlaceOK ==
  ASSUME TypeOK, Next
  PROVE  PlaceOK'
<1>0. PlaceOK /\ jobs \in Seq(Job) /\ reason \in Reason
  BY TypeGroups DEF TypeOK
<1> USE DEF PlaceOK, Backs, Cmd, Direct, Own, workerVars, scriptVars, debugVars, historyVars, ResetInterruptState
<1>1. CASE TakeJob
  <2>1. /\ worker' \in {worker, "check", "scriptcmd", "line"}
        /\ user' \in {user, "done"} /\ debug' = debug
    BY <1>0, <1>1, TakeJobCases
  <2> QED
    BY <1>0, <1>1, <2>1 DEF TakeJob
<1>2. CASE QueuedCommand \/ QueuedOrdinary \/ RunCheck \/ RunClaim \/ RunReset \/ RunTop
  BY <1>0, <1>2 DEF QueuedCommand, QueuedOrdinary, RunCheck, RunClaim, RunReset, RunTop
<1>3. CASE ExecuteLine \/ Unlock \/ Return \/ Poll \/ TakeOutcome
  BY <1>0, <1>3 DEF ExecuteLine, Unlock, Return, Poll, TakeOutcome
<1>4. CASE Looks
  BY <1>0, <1>4, LooksCases
<1>5. CASE YieldOver \/ Unyield \/ EndScript \/ EndReset
  BY <1>0, <1>5 DEF YieldOver, Unyield, EndScript, EndReset
<1>6. CASE \/ DebuggeeContinues \/ AwaitScript \/ RequestYield \/ YieldSeen \/ LockRun
           \/ Decide \/ ResumeScript \/ ClearReason
  BY <1>0, <1>6 DEF DebuggeeContinues, AwaitScript, RequestYield, YieldSeen, LockRun, Decide,
                    ResumeScript, ClearReason
<1>7. CASE CommandWhere \/ CommandSettles \/ DirectCommand
  BY <1>0, <1>7 DEF CommandWhere, CommandSettles, DirectCommand
<1>8. CASE BreakpointHit \/ PlainPause \/ DebuggeeExits
  BY <1>0, <1>8 DEF BreakpointHit, PlainPause, DebuggeeExits
<1>9. CASE UserRuns \/ UserUnlocks \/ UserAborts \/ StoreAbort \/ AwaitQueue
  BY <1>0, <1>9 DEF UserRuns, UserUnlocks, UserAborts, StoreAbort, AwaitQueue
<1>10. CASE DirectlyOrdinary
  BY <1>0, <1>10, DirectlyCases
<1> QED
  BY <1>1, <1>2, <1>3, <1>4, <1>5, <1>6, <1>7, <1>8, <1>9, <1>10
  DEF Next, Worker, DebugThread, Debuggee, User, Looks

LEMMA StepValueOK ==
  ASSUME TypeOK, Next
  PROVE  ValueOK'
<1>0. ValueOK /\ PlaceOK /\ jobs \in Seq(Job)
  BY TypeGroups DEF SeqOK
<1>a. [hit EXCEPT !.breaks = TRUE] \in Breakpoint
  BY <1>0 DEF ValueOK, Breakpoint
<1>b. \A o \in Outcome : Merge(o) \in Outcome
  BY <1>0 DEF ValueOK, Merge
<1>c. {"none", "yield", "abort"} = Reason /\ {"continue", "pause", "abort"} = Outcome
      /\ {"paused", "stepping", "running"} = State
  BY DEF Reason, Outcome, State
<1> USE DEF ValueOK, workerVars, scriptVars, debugVars, historyVars, ResetInterruptState
<1>1. CASE TakeJob
  <2>1. /\ scriptState' \in {scriptState, "stepping"}
        /\ reason' \in {reason, "none"}
        /\ outcome' \in {outcome, "continue"}
    BY <1>0, <1>1, TakeJobCases
  <2> QED
    BY <1>0, <1>1, <1>c, <2>1 DEF TakeJob
<1>2. CASE QueuedOrdinary
  BY <1>0, <1>2, <1>c DEF QueuedOrdinary
<1>2a. CASE QueuedCommand
  <2>1. hit' \in Breakpoint
    BY <1>0, <1>2a, <1>a DEF QueuedCommand
  <2> QED
    BY <1>0, <1>2a, <2>1 DEF QueuedCommand
<1>3. CASE RunCheck \/ RunClaim \/ RunReset \/ RunTop
  BY <1>0, <1>3, <1>c DEF RunCheck, RunClaim, RunReset, RunTop
<1>4. CASE Unlock \/ Return \/ Poll
  BY <1>0, <1>4, <1>c DEF Unlock, Return, Poll
<1>4a. CASE ExecuteLine
  <2>1. result' \in Outcome
    BY <1>4a, <1>c DEF ExecuteLine
  <2> QED
    BY <1>0, <1>4a, <2>1 DEF ExecuteLine
<1>4b. CASE TakeOutcome
  <2>1. result' \in Outcome
    BY <1>0, <1>4b, <1>b DEF TakeOutcome
  <2> QED
    BY <1>0, <1>4b, <1>c, <2>1 DEF TakeOutcome
<1>5. CASE Looks
  BY <1>0, <1>5, LooksCases DEF Errors
<1>6. CASE YieldOver \/ Unyield \/ EndScript \/ EndReset
  BY <1>0, <1>6, <1>c DEF YieldOver, Unyield, EndScript, EndReset
<1>7. CASE \/ DebuggeeContinues \/ AwaitScript \/ RequestYield \/ YieldSeen \/ LockRun
           \/ CommandWhere \/ CommandSettles \/ Decide \/ ResumeScript \/ ClearReason
  BY <1>0, <1>7, <1>c DEF DebuggeeContinues, AwaitScript, RequestYield, YieldSeen, LockRun,
     CommandWhere, CommandSettles, Decide, ResumeScript, ClearReason
<1>8. CASE DirectCommand
  <2>1. hit' \in Breakpoint
    BY <1>0, <1>8, <1>a DEF DirectCommand
  <2>2. outcome' \in Outcome
    BY <1>b, <1>c, <1>8 DEF DirectCommand
  <2> QED
    BY <1>0, <1>8, <2>1, <2>2 DEF DirectCommand
<1>9. CASE BreakpointHit \/ PlainPause \/ DebuggeeExits
  <2>1. hit' \in Breakpoint
    BY <1>0, <1>9, HitsAssumption DEF BreakpointHit, PlainPause, DebuggeeExits, Breakpoint
  <2>2. hits' \in 0 .. MaxHits
    BY <1>0, <1>9, MaxHitsAssumption DEF BreakpointHit, PlainPause, DebuggeeExits
  <2> QED
    BY <1>0, <1>9, <2>1, <2>2 DEF BreakpointHit, PlainPause, DebuggeeExits
<1>10. CASE UserRuns \/ UserUnlocks \/ UserAborts \/ StoreAbort \/ AwaitQueue
  BY <1>0, <1>10, <1>c DEF UserRuns, UserUnlocks, UserAborts, StoreAbort, AwaitQueue
<1>11. CASE DirectlyOrdinary
  BY <1>0, <1>11, <1>c, DirectlyCases DEF Errors
<1> QED
  BY <1>1, <1>2, <1>2a, <1>3, <1>4, <1>4a, <1>4b, <1>5, <1>6, <1>7, <1>8, <1>9, <1>10, <1>11
  DEF Next, Worker, DebugThread, Debuggee, User, Looks

LEMMA StepFlagOK ==
  ASSUME TypeOK, Next
  PROVE  FlagOK'
<1>0. FlagOK /\ ValueOK /\ PlaceOK /\ jobs \in Seq(Job)
  BY TypeGroups DEF SeqOK
<1> USE DEF FlagOK, workerVars, scriptVars, debugVars, historyVars, ResetInterruptState
<1>1. CASE TakeJob
  <2>1. active' \in {active, FALSE}
    BY <1>0, <1>1, TakeJobCases
  <2> QED
    BY <1>0, <1>1, <2>1 DEF TakeJob
<1>2. CASE QueuedCommand \/ QueuedOrdinary \/ RunCheck \/ RunClaim \/ RunReset \/ RunTop
  BY <1>0, <1>2 DEF QueuedCommand, QueuedOrdinary, RunCheck, RunClaim, RunReset, RunTop
<1>3. CASE ExecuteLine
  <2>2. complaint' \in BOOLEAN
    BY <1>0, <1>3, Zenon DEF ExecuteLine
  <2> QED
    BY <1>0, <1>3, <2>2 DEF ExecuteLine
<1>4. CASE Unlock \/ Return \/ Poll \/ TakeOutcome
  BY <1>0, <1>4 DEF Unlock, Return, Poll, TakeOutcome
<1>5. CASE Looks
  BY <1>0, <1>5, LooksCases
<1>6. CASE DirectlyOrdinary
  BY <1>0, <1>6, DirectlyCases
<1>7. CASE YieldOver \/ Unyield \/ EndScript \/ EndReset
  BY <1>0, <1>7 DEF YieldOver, Unyield, EndScript, EndReset
<1>8. CASE \/ DebuggeeContinues \/ AwaitScript \/ RequestYield \/ YieldSeen \/ LockRun
           \/ CommandWhere \/ CommandSettles \/ DirectCommand \/ ResumeScript \/ ClearReason
  BY <1>0, <1>8 DEF DebuggeeContinues, AwaitScript, RequestYield, YieldSeen, LockRun,
     CommandWhere, CommandSettles, DirectCommand, ResumeScript, ClearReason
<1>9. CASE Decide
  <2>1. running' \in BOOLEAN
    BY <1>0, <1>9, Zenon DEF Decide
  <2> QED
    BY <1>0, <1>9, <2>1 DEF Decide
<1>10. CASE BreakpointHit \/ PlainPause \/ DebuggeeExits
  BY <1>0, <1>10 DEF BreakpointHit, PlainPause, DebuggeeExits
<1>11. CASE UserRuns \/ UserUnlocks \/ UserAborts \/ StoreAbort \/ AwaitQueue
  BY <1>0, <1>11 DEF UserRuns, UserUnlocks, UserAborts, StoreAbort, AwaitQueue
<1> QED
  BY <1>1, <1>2, <1>3, <1>4, <1>5, <1>6, <1>7, <1>8, <1>9, <1>10, <1>11
  DEF Next, Worker, DebugThread, Debuggee, User, Looks

LEMMA StepTypeOK ==
  ASSUME TypeOK, Next
  PROVE  TypeOK'
<1>1. SeqOK' /\ PlaceOK' /\ ValueOK' /\ FlagOK'
  BY StepSeqOK, StepPlaceOK, StepValueOK, StepFlagOK
<1> QED
  BY <1>1 DEF TypeOK, SeqOK, PlaceOK, ValueOK, FlagOK, Frames, Backs, Cmd, Direct, Own

-----------------------------------------------------------------------------
(* Every step keeps the invariant                                          *)

\* A user who has aborted the script stays with that.
LEMMA AbortedStays ==
  ASSUME TypeOK, Next, Aborted
  PROVE  Aborted'
<1> USE DEF Aborted, workerVars, scriptVars, debugVars, historyVars
<1>1. CASE TakeJob
  <2>1. user' \in {user, "done"}
    BY <1>1, TakeJobCases DEF TypeOK
  <2> QED
    BY <2>1
<1>2. CASE Worker /\ ~TakeJob
  BY <1>2 DEF Worker, QueuedCommand, QueuedOrdinary, RunCheck, RunClaim, RunReset, RunTop,
     ExecuteLine, Unlock, Return, Poll, TakeOutcome, LookForInterrupt, HandleInterrupt, YieldOver, Unyield, EndScript, EndReset
<1>3. CASE (DebugThread \/ Debuggee) /\ ~DirectlyOrdinary
  BY <1>3 DEF DebugThread, Debuggee, DebuggeeContinues, AwaitScript, RequestYield, YieldSeen,
     LockRun, CommandWhere, CommandSettles, DirectCommand, Decide, ResumeScript, ClearReason,
     BreakpointHit, PlainPause, DebuggeeExits
<1>4. CASE User
  BY <1>4 DEF User, UserRuns, UserUnlocks, UserAborts, StoreAbort, AwaitQueue
<1>5. CASE DirectlyOrdinary
  BY <1>5, DirectlyCases
<1> QED
  BY <1>1, <1>2, <1>3, <1>4, <1>5 DEF Next

LEMMA StepStateOfWorker ==
  ASSUME TypeOK, StateOfWorker, QueuedOnce, Next
  PROVE  StateOfWorker'
<1>0. PlaceOK /\ ValueOK /\ FlagOK /\ jobs \in Seq(Job)
  BY TypeGroups DEF SeqOK
<1>q. Executing => debug = "queued"
  BY DEF QueuedOnce
<1> USE DEF StateOfWorker, Off, Executing, Inside, Cmd, workerVars, scriptVars, debugVars,
            historyVars, ResetInterruptState
<1>1. CASE TakeJob
  <2>1. \/ worker' \in {"idle", "check", "scriptcmd"} /\ UNCHANGED <<scriptState, active, debug>>
        \/ worker' = "line" /\ scriptState' = "stepping" /\ active' = FALSE
    BY <1>0, <1>1, TakeJobCases DEF TakeJob
  <2> QED
    BY <1>0, <1>1, <2>1 DEF TakeJob
<1>2. CASE QueuedCommand \/ QueuedOrdinary \/ RunCheck \/ RunClaim \/ RunReset \/ RunTop
  BY <1>0, <1>2, <1>q DEF QueuedCommand, QueuedOrdinary, RunCheck, RunClaim, RunReset, RunTop
<1>3. CASE ExecuteLine \/ Unlock \/ Return \/ Poll \/ TakeOutcome
  BY <1>0, <1>3 DEF ExecuteLine, Unlock, Return, Poll, TakeOutcome
<1>4. CASE Looks
  <2>1. /\ worker \in {"taken", "handle"} /\ back' = back /\ scriptState' = scriptState
        /\ \/ worker' \in {"yield", "handle"} /\ debug' = debug
           \/ worker' \in {"line", "poll", "top", "end"} /\ back \notin Cmd /\ debug' = debug
           \/ worker' = "cmdpoll" /\ back \in Cmd /\ debug' = debug
           \/ worker' = "idle" /\ back \in Cmd /\ debug' = "decide"
    BY <1>4, LooksCases DEF Cmd
  <2>2. active' = active \/ worker' = "yield"
    BY <1>4, LooksCases
  <2>3. scriptState = "paused" <=> back \in Cmd
    BY <2>1
  <2>4. scriptState' = "paused" <=> worker' \in Off \/ Executing'
    BY <2>1, <2>3
  <2>5. active => debug \in {"ownYield", "ownUnyield"} /\ back \notin Cmd
    BY <2>1, <1>q
  <2>6. active' => worker' \in {"yield", "unyield"} \/ debug' \in {"ownYield", "ownUnyield"}
    BY <2>1, <2>2, <2>5
  <2> QED
    BY <2>4, <2>6
<1>5. CASE YieldOver \/ Unyield \/ EndScript \/ EndReset
  BY <1>0, <1>5 DEF YieldOver, Unyield, EndScript, EndReset
<1>6. CASE (DebugThread \/ Debuggee) /\ ~DirectlyOrdinary
  <2>1. UNCHANGED <<worker, back, scriptState, active>> /\ debug \notin {"ownYield", "ownUnyield"}
    BY <1>6 DEF DebugThread, Debuggee, DebuggeeContinues, AwaitScript, RequestYield, YieldSeen,
       LockRun, CommandWhere, CommandSettles, DirectCommand, Decide, ResumeScript, ClearReason,
       BreakpointHit, PlainPause, DebuggeeExits
  <2> QED
    BY <2>1
<1>7. CASE DirectlyOrdinary
  <2>1. UNCHANGED <<worker, back, scriptState>>
    BY <1>7, DirectlyCases
  <2>2. \/ active' = active /\ (active => debug \notin {"ownYield", "ownUnyield"} \/ debug' \in {"ownYield", "ownUnyield"})
        \/ active' = FALSE
        \/ active' = TRUE /\ debug' = "ownYield"
    BY <1>7, DirectlyCases
  <2>3. active' => worker' \in {"yield", "unyield"} \/ debug' \in {"ownYield", "ownUnyield"}
    BY <2>1, <2>2
  <2>4. scriptState' = "paused" <=> worker' \in Off \/ Executing'
    BY <2>1
  <2> QED
    BY <2>3, <2>4
<1>8. CASE User
  BY <1>8 DEF User, UserRuns, UserUnlocks, UserAborts, StoreAbort, AwaitQueue
<1> QED
  BY <1>1, <1>2, <1>3, <1>4, <1>5, <1>6, <1>7, <1>8 DEF Next, Worker, Looks

\* What is in a queue from which the first job was taken, or to which one came.
LEMMA QueueMoves ==
  ASSUME jobs \in Seq(Job), jobs' \in Seq(Job)
  PROVE  /\ jobs # <<>> /\ jobs' = Tail(jobs) =>
              /\ Len(jobs') + 1 = Len(jobs) /\ 1 \in 1..Len(jobs) /\ Head(jobs) = jobs[1]
              /\ \A i \in 1..Len(jobs') : i + 1 \in 1..Len(jobs) /\ jobs'[i] = jobs[i + 1]
         /\ \A e \in Job : jobs' = Append(jobs, e) =>
              /\ Len(jobs') = Len(jobs) + 1 /\ jobs'[Len(jobs')] = e
              /\ \A i \in 1..Len(jobs') : i # Len(jobs') =>
                   i \in 1..Len(jobs) /\ jobs'[i] = jobs[i]
<1>0. Len(jobs) \in Nat /\ Len(jobs') \in Nat
  BY LenProperties
<1>1. ASSUME jobs # <<>>, jobs' = Tail(jobs)
      PROVE  /\ Len(jobs') + 1 = Len(jobs) /\ 1 \in 1..Len(jobs) /\ Head(jobs) = jobs[1]
             /\ \A i \in 1..Len(jobs') : i + 1 \in 1..Len(jobs) /\ jobs'[i] = jobs[i + 1]
  BY <1>0, <1>1, HeadTailProperties, EmptySeq
<1>2. ASSUME NEW e \in Job, jobs' = Append(jobs, e)
      PROVE  /\ Len(jobs') = Len(jobs) + 1 /\ jobs'[Len(jobs')] = e
             /\ \A i \in 1..Len(jobs') : i # Len(jobs') =>
                  i \in 1..Len(jobs) /\ jobs'[i] = jobs[i]
  BY <1>0, <1>2, AppendProperties
<1> QED
  BY <1>1, <1>2

LEMMA StepQueuedOnce ==
  ASSUME TypeOK, TypeOK', StateOfWorker, QueuedOnce, Next
  PROVE  QueuedOnce'
<1>0. jobs \in Seq(Job) /\ jobs' \in Seq(Job) /\ Len(jobs) \in Nat /\ Len(jobs') \in Nat
  BY LenProperties DEF TypeOK
<1> USE DEF QueuedOnce, Executing, Inside, Cmd, workerVars, scriptVars, debugVars, historyVars, ResetInterruptState
<1>1. CASE TakeJob
  <2>1. /\ jobs # <<>> /\ jobs' = Tail(jobs) /\ debug' = debug /\ worker = "idle"
        /\ worker' \in {"idle", "check", "line", "scriptcmd"}
        /\ worker' = "scriptcmd" <=> Head(jobs) = "scriptcmd"
        /\ back' = back
    BY <1>0, <1>1, TakeJobCases DEF TakeJob
  <2>2. /\ Len(jobs') + 1 = Len(jobs) /\ 1 \in 1..Len(jobs) /\ Head(jobs) = jobs[1]
        /\ \A i \in 1..Len(jobs') : i + 1 \in 1..Len(jobs) /\ jobs'[i] = jobs[i + 1]
    BY <1>0, <2>1, QueueMoves
  <2>3. ~Executing /\ (Executing' => Head(jobs) = "scriptcmd")
    BY <2>1
  <2>4. CASE Head(jobs) = "scriptcmd"
    <3>1. debug' = "queued" /\ \A i \in 1..Len(jobs') : jobs'[i] # "scriptcmd"
      BY <1>0, <2>1, <2>2, <2>4
    <3> QED
      BY <3>1
  <2>5. CASE Head(jobs) # "scriptcmd"
    <3>1. ~Executing' /\ \A i \in 1..Len(jobs') : jobs'[i] = "scriptcmd" => debug' = "queued"
      BY <2>1, <2>2, <2>3, <2>5
    <3>2. \A i, j \in 1..Len(jobs') : jobs'[i] = "scriptcmd" /\ jobs'[j] = "scriptcmd" => i = j
      <4>1. \A i, j \in 1..Len(jobs') : jobs'[i] = "scriptcmd" /\ jobs'[j] = "scriptcmd" => i + 1 = j + 1
        BY <2>2
      <4> QED
        BY <1>0, <4>1
    <3> QED
      BY <3>1, <3>2
  <2> QED
    BY <2>4, <2>5
<1>2. CASE QueuedCommand
  <2>1. \A i \in 1..Len(jobs) : jobs[i] # "scriptcmd"
    BY <1>2 DEF QueuedCommand
  <2>2. CASE UNCHANGED jobs
    BY <1>2, <2>1, <2>2 DEF QueuedCommand
  <2>3. CASE jobs' = Append(jobs, "run")
    <3>1. \A i \in 1..Len(jobs') : jobs'[i] # "scriptcmd"
      BY <1>0, <2>1, <2>3, QueueMoves DEF Job
    <3> QED
      BY <1>2, <3>1 DEF QueuedCommand
  <2> QED
    BY <1>2, <2>2, <2>3 DEF QueuedCommand
<1>3. CASE (CommandWhere \/ CommandSettles) /\ jobs' = Append(jobs, "scriptcmd")
  <2>1. /\ \A i \in 1..Len(jobs) : jobs[i] # "scriptcmd"
        /\ ~Executing /\ UNCHANGED <<worker, back>> /\ debug' = "queued"
    BY <1>3 DEF CommandWhere, CommandSettles
  <2>2. \A i \in 1..Len(jobs') : i # Len(jobs') => jobs'[i] # "scriptcmd"
    BY <1>0, <1>3, <2>1, QueueMoves DEF Job
  <2> QED
    BY <1>0, <2>1, <2>2
<1>4. CASE AwaitQueue
  <2>1. UNCHANGED <<debug, worker, back>> /\ jobs' = Append(jobs, "sync")
    BY <1>4 DEF AwaitQueue
  <2>2. \A i \in 1..Len(jobs') : jobs'[i] = "scriptcmd" =>
           i \in 1..Len(jobs) /\ jobs[i] = "scriptcmd"
    BY <1>0, <2>1, QueueMoves DEF Job
  <2> QED
    BY <1>0, <2>1, <2>2
<1>5. ASSUME /\ UNCHANGED jobs
             /\ debug' = debug \/ debug # "queued"
             /\ Executing' => Executing /\ debug' = debug
      PROVE  QueuedOnce'
  BY <1>5
<1>6. CASE QueuedOrdinary
  BY <1>5, <1>6 DEF QueuedOrdinary
<1>6a. CASE Looks
  <2>1. /\ UNCHANGED <<jobs, back>>
        /\ \/ worker' \in {"yield", "handle"} /\ debug' = debug
           \/ worker' \in {"line", "poll", "top", "end"} /\ debug' = debug
           \/ worker' = "cmdpoll" /\ back \in Cmd /\ debug' = debug
           \/ worker' = "idle" /\ back \in Cmd /\ debug' = "decide"
        /\ worker \in {"taken", "handle"}
    BY <1>6a, LooksCases
  <2>2. Executing' => Executing /\ debug' = debug
    BY <2>1
  <2>3. CASE debug' = debug
    BY <1>5, <2>1, <2>2, <2>3
  <2>4. CASE worker' = "idle" /\ back \in Cmd /\ debug' = "decide"
    <3>1. Executing /\ \A i \in 1..Len(jobs) : jobs[i] # "scriptcmd"
      BY <2>1, <2>4
    <3> QED
      BY <2>1, <2>2, <2>4, <3>1
  <2> QED
    BY <2>1, <2>3, <2>4
<1>6b. CASE Worker /\ ~TakeJob /\ ~QueuedCommand /\ ~QueuedOrdinary /\ ~Looks
  BY <1>5, <1>6b DEF Worker, Looks, RunCheck, RunClaim, RunReset, RunTop, ExecuteLine, Unlock,
     Return, Poll, TakeOutcome, YieldOver, Unyield, EndScript, EndReset
<1>7. CASE (DebugThread \/ Debuggee) /\ UNCHANGED jobs /\ ~DirectlyOrdinary
  BY <1>5, <1>7 DEF DebugThread, Debuggee, DebuggeeContinues, AwaitScript, RequestYield, YieldSeen,
     LockRun, CommandWhere, CommandSettles, DirectCommand, Decide, ResumeScript, ClearReason,
     BreakpointHit, PlainPause, DebuggeeExits
<1>8. CASE User /\ ~AwaitQueue
  BY <1>5, <1>8 DEF User, UserRuns, UserUnlocks, UserAborts, StoreAbort
<1>7a. CASE DirectlyOrdinary
  BY <1>5, <1>7a, DirectlyCases DEF Direct, Own
<1>9. (DebugThread \/ Debuggee) /\ ~DirectlyOrdinary =>
        \/ UNCHANGED jobs
        \/ (CommandWhere \/ CommandSettles) /\ jobs' = Append(jobs, "scriptcmd")
  BY DEF DebugThread, Debuggee, DebuggeeContinues, AwaitScript, RequestYield, YieldSeen,
     LockRun, CommandWhere, CommandSettles, DirectCommand, Decide, ResumeScript, ClearReason,
     BreakpointHit, PlainPause, DebuggeeExits
<1> QED
  BY <1>1, <1>2, <1>3, <1>4, <1>6, <1>6a, <1>6b, <1>7, <1>7a, <1>8, <1>9 DEF Next

\* The worker only ever resets the reason, and the user only ever aborts; the
\* debug thread alone knows the state it saw, and the worker moves it past a
\* command it queued.
LEMMA WorkerAside ==
  ASSUME TypeOK, Worker
  PROVE  reason' \in {reason, "none"} /\ seen' = seen /\ debug' \in {debug, "decide"}
<1> USE DEF scriptVars, debugVars, historyVars, ResetInterruptState
<1>1. CASE TakeJob
  <2>1. reason' \in {reason, "none"} /\ debug' = debug
    BY <1>1, TakeJobCases DEF TypeOK
  <2> QED
    BY <1>1, <2>1 DEF TakeJob
<1>2. CASE Looks
  BY <1>2, LooksCases
<1>3. CASE Worker /\ ~TakeJob /\ ~Looks
  BY <1>3 DEF Worker, Looks, QueuedCommand, QueuedOrdinary, RunCheck, RunClaim, RunReset, RunTop,
     ExecuteLine, Unlock, Return, Poll, TakeOutcome, YieldOver, Unyield, EndScript, EndReset
<1> QED
  BY <1>1, <1>2, <1>3

LEMMA StepReasonOf ==
  ASSUME TypeOK, StateOfWorker, ReasonOf, Next
  PROVE  ReasonOf'
<1> USE DEF ReasonOf, InCallback, Direct, Own, workerVars, scriptVars, debugVars, historyVars
<1>1. CASE Worker
  BY <1>1, WorkerAside, AbortedStays DEF ReasonOf
<1>2. CASE (DebugThread \/ Debuggee) /\ ~DirectlyOrdinary
  <2>1. reason' # "abort" \/ Aborted'
    BY <1>2, AbortedStays DEF DebugThread, Debuggee, DebuggeeContinues, AwaitScript, RequestYield,
       YieldSeen, LockRun, CommandWhere, CommandSettles, DirectCommand, Decide, ResumeScript,
       ClearReason, BreakpointHit, PlainPause, DebuggeeExits
  <2>2. CASE AwaitScript \/ RequestYield \/ YieldSeen \/ Decide \/ ResumeScript \/ ClearReason
    BY <1>2, <2>1, <2>2 DEF AwaitScript, RequestYield, YieldSeen, Decide, ResumeScript, ClearReason
  <2>3. CASE DebuggeeContinues \/ LockRun \/ CommandWhere \/ CommandSettles \/ DirectCommand
    BY <2>1, <2>3 DEF DebuggeeContinues, LockRun, CommandWhere, CommandSettles, DirectCommand
  <2>4. CASE Debuggee
    BY <2>1, <2>4 DEF Debuggee, BreakpointHit, PlainPause, DebuggeeExits
  <2> QED
    BY <1>2, <2>2, <2>3, <2>4 DEF DebugThread
<1>3. CASE StoreAbort
  BY <1>3 DEF StoreAbort, Aborted
<1>4. CASE User /\ ~StoreAbort
  <2>1. UNCHANGED <<reason, seen, debug>>
    BY <1>4 DEF User, UserRuns, UserUnlocks, UserAborts, AwaitQueue
  <2> QED
    BY <2>1, AbortedStays
<1>5. CASE DirectlyOrdinary
  BY <1>5, DirectlyCases, AbortedStays
<1> QED
  BY <1>1, <1>2, <1>3, <1>4, <1>5 DEF Next

\* An outcome is replaced by what was merged into it, or stays.
LEMMA MergeOne ==
  \A o \in Outcome : Merge(o) \in {o, outcome}
BY DEF Merge

LEMMA StepHandshake ==
  ASSUME TypeOK, StateOfWorker, QueuedOnce, ReasonOf, Handshake, Next
  PROVE  Handshake'
<1> SUFFICES ASSUME ~Aborted' PROVE Handshake'
  BY DEF Handshake
<1>0. /\ ~Aborted /\ PlaceOK /\ ValueOK /\ FlagOK /\ jobs \in Seq(Job)
      /\ reason \in {"none", "yield"}
  BY AbortedStays, TypeGroups DEF SeqOK, ReasonOf, ValueOK, Reason
<1>h. /\ debug \in {"await", "request", "yielding"} => ~yielded
      /\ debug = "yielding" /\ active => reason = "yield"
      /\ InCallback /\ yielded => reason = "yield" /\ worker \in {"yield", "unyield", "handle"}
      /\ InCallback /\ ~yielded => reason # "yield" /\ ~active
      /\ debug \in Direct => yielded
  BY <1>0 DEF Handshake
<1> USE DEF Handshake, InCallback, Direct, Own, workerVars, scriptVars, debugVars, historyVars,
            ResetInterruptState
<1>1. CASE TakeJob
  <2>1. \/ UNCHANGED <<reason, active>>
        \/ reason' = "none" /\ active' = FALSE
    BY <1>0, <1>1, TakeJobCases
  <2>2. worker = "idle" /\ UNCHANGED <<debug, yielded>>
    BY <1>0, <1>1, TakeJobCases DEF TakeJob
  <2> QED
    BY <1>h, <2>1, <2>2
<1>2. CASE QueuedCommand \/ QueuedOrdinary
  BY <1>h, <1>2 DEF QueuedCommand, QueuedOrdinary, QueuedOnce, Executing
<1>3. CASE RunCheck \/ RunClaim \/ RunReset \/ RunTop
  BY <1>h, <1>3 DEF RunCheck, RunClaim, RunReset, RunTop
<1>4. CASE ExecuteLine \/ Unlock \/ Return \/ Poll \/ TakeOutcome
  BY <1>h, <1>4 DEF ExecuteLine, Unlock, Return, Poll, TakeOutcome
<1>5. CASE Looks
  <2>1. UNCHANGED <<reason, yielded>> /\ worker \in {"taken", "handle"}
    BY <1>5, LooksCases DEF historyVars
  <2>2. \/ debug' = debug
        \/ debug' = "decide" /\ debug = "queued" /\ worker' = "idle"
    BY <1>5, LooksCases DEF QueuedOnce, Executing, Inside
  <2>3. /\ active' = active \/ (active' = TRUE /\ reason = "yield" /\ worker' = "yield")
        /\ worker = "handle" /\ reason = "yield" => worker' = "yield"
    BY <1>5, LooksCases
  <2> QED
    BY <1>h, <2>1, <2>2, <2>3
<1>6. CASE YieldOver \/ Unyield \/ EndScript \/ EndReset
  BY <1>h, <1>6 DEF YieldOver, Unyield, EndScript, EndReset
<1>7. CASE AwaitScript
  BY <1>0, <1>h, <1>7 DEF AwaitScript, StateOfWorker, Off, ReasonOf, QueuedOnce, Executing
<1>8. CASE YieldSeen
  BY <1>0, <1>h, <1>8 DEF YieldSeen, StateOfWorker
<1>9. CASE RequestYield \/ DebuggeeContinues \/ LockRun
  BY <1>h, <1>9 DEF RequestYield, DebuggeeContinues, LockRun
<1>10. CASE CommandWhere \/ CommandSettles \/ DirectCommand
  BY <1>h, <1>10 DEF CommandWhere, CommandSettles, DirectCommand
<1>11. CASE Decide \/ ResumeScript \/ ClearReason
  BY <1>h, <1>11 DEF Decide, ResumeScript, ClearReason
<1>12. CASE BreakpointHit \/ PlainPause \/ DebuggeeExits
  BY <1>h, <1>12 DEF BreakpointHit, PlainPause, DebuggeeExits
<1>13. CASE StoreAbort
  BY <1>13 DEF StoreAbort, Aborted
<1>14. CASE UserRuns \/ UserUnlocks \/ UserAborts \/ AwaitQueue
  BY <1>h, <1>14 DEF UserRuns, UserUnlocks, UserAborts, AwaitQueue
<1>15. CASE DirectlyOrdinary
  <2>1. /\ debug \in Direct /\ debug' \in Own \cup {"decide"}
        /\ UNCHANGED <<worker, reason, yielded>>
    BY <1>15, DirectlyCases DEF historyVars
  <2> QED
    BY <1>h, <2>1
<1> QED
  BY <1>1, <1>2, <1>3, <1>4, <1>5, <1>6, <1>7, <1>8, <1>9, <1>10, <1>11, <1>12, <1>13, <1>14,
     <1>15
  DEF Next, Worker, DebugThread, Debuggee, User, Looks

LEMMA StepComplaints ==
  ASSUME TypeOK, StateOfWorker, ReasonOf, Handshake, Complaints, Next
  PROVE  Complaints'
<1>0. PlaceOK /\ ValueOK /\ FlagOK /\ jobs \in Seq(Job)
  BY TypeGroups DEF SeqOK
<1>a. Aborted => Aborted'
  BY AbortedStays
<1>b. \A o \in Outcome : Merge(o) \in {o, outcome}
  BY MergeOne
<1> USE DEF Complaints, workerVars, scriptVars, debugVars, historyVars, ResetInterruptState
<1>1. CASE TakeJob
  <2>1. /\ worker' # "end"
        /\ outcome' \in {outcome, "continue"}
        /\ UNCHANGED <<complaint, result, taken>>
    BY <1>0, <1>1, TakeJobCases DEF TakeJob
  <2> QED
    BY <1>a, <2>1
<1>2. CASE QueuedCommand \/ QueuedOrdinary \/ RunCheck \/ RunClaim \/ RunReset \/ RunTop
  BY <1>a, <1>2 DEF QueuedCommand, QueuedOrdinary, RunCheck, RunClaim, RunReset, RunTop
<1>3. CASE ExecuteLine
  <2> DEFINE works == Program[ip] = "cmd" \/ (debugging /\ ~running)
  <2>1. /\ complaint' = (complaint \/ ~works) /\ result' = (IF works THEN "continue" ELSE "abort")
        /\ UNCHANGED <<outcome, taken>> /\ worker' # "end"
    BY <1>3, Zenon DEF ExecuteLine
  <2> HIDE DEF works
  <2> QED
    BY <1>a, <2>1
<1>4. CASE Unlock \/ Poll
  BY <1>a, <1>4 DEF Unlock, Poll
<1>4a. CASE TakeOutcome
  <2>1. result' \in {result, outcome}
    BY <1>0, <1>b, <1>4a DEF TakeOutcome, ValueOK
  <2> QED
    BY <1>a, <1>4a, <2>1 DEF TakeOutcome
<1>5. CASE Return
  BY <1>a, <1>5 DEF Return
<1>6. CASE Looks
  <2>1. /\ worker' = "end" /\ scriptState = "running" =>
             reason = "abort" \/ result = "abort" \/ lastError' = "pause"
        /\ UNCHANGED <<result, scriptState, outcome, taken, complaint>>
    BY <1>6, LooksCases
  <2>2. reason = "abort" => Aborted'
    BY <1>a DEF ReasonOf
  <2> QED
    BY <1>a, <2>1, <2>2
<1>7. CASE YieldOver \/ Unyield \/ EndScript \/ EndReset
  BY <1>a, <1>7 DEF YieldOver, Unyield, EndScript, EndReset
<1>8. CASE DirectCommand
  <2>1. Aborted \/ worker # "end"
    BY <1>8 DEF DirectCommand, Handshake, InCallback, Direct
  <2>2. outcome' = "abort" => outcome = "abort" \/ complaint'
    BY <1>8, MergeOne DEF DirectCommand, Outcome
  <2>3. (complaint => complaint') /\ UNCHANGED <<result, worker, user, taken>>
    BY <1>0, <1>8 DEF DirectCommand, FlagOK
  <2> QED
    BY <2>1, <2>2, <2>3 DEF Aborted
<1>8a. CASE DirectlyOrdinary
  <2>1. Aborted \/ worker # "end"
    BY <1>8a, DirectlyCases DEF Handshake, InCallback
  <2>2. /\ outcome' = "abort" => outcome = "abort" \/ taken = "abort" \/ reason = "abort"
        /\ taken' \in {taken, outcome, "none"}
        /\ UNCHANGED <<result, worker, user, complaint>>
    BY <1>8a, DirectlyCases
  <2>3. reason = "abort" => Aborted
    BY DEF ReasonOf
  <2> QED
    BY <2>1, <2>2, <2>3 DEF Aborted
<1>9. CASE (DebugThread \/ Debuggee) /\ ~DirectCommand /\ ~DirectlyOrdinary
  BY <1>9 DEF Aborted, DebugThread, Debuggee, DebuggeeContinues, AwaitScript, RequestYield,
     YieldSeen, LockRun, CommandWhere, CommandSettles, Decide, ResumeScript, ClearReason,
     BreakpointHit, PlainPause, DebuggeeExits
<1>10. CASE User
  <2>1. Aborted => Aborted'
    BY AbortedStays
  <2> QED
    BY <1>10, <2>1 DEF User, UserRuns, UserUnlocks, UserAborts, StoreAbort, AwaitQueue
<1> QED
  BY <1>1, <1>2, <1>3, <1>4, <1>4a, <1>5, <1>6, <1>7, <1>8, <1>8a, <1>9, <1>10
  DEF Next, Worker, Looks

LEMMA InitIInv == Init => IInv
<1> SUFFICES ASSUME Init PROVE IInv
  OBVIOUS
<1>1. TypeOK
  <2>1. jobs \in Seq({"run", "step"})
    BY StartsAssumption DEF Init
  <2>2. jobs \in Seq(Job)
    <3>1. Len(jobs) \in Nat /\ \A i \in 1..Len(jobs) : jobs[i] \in Job
      BY <2>1, LenProperties, ElementOfSeq DEF Job
    <3> QED
      BY <2>1, <3>1, SeqDef, LenProperties
  <2>3. NoHit \in Breakpoint /\ 0 \in 0 .. MaxHits
    BY MaxHitsAssumption DEF NoHit, Breakpoint
  <2>4. stack \in Seq(Frames) /\ trace \in Seq(Line) /\ ip \in Line /\ ipOld \in Line
    BY EmptySeq, Lines DEF Init
  <2>5. PlaceOK /\ FlagOK
    BY DEF Init, PlaceOK, FlagOK, Backs
  <2>6. ValueOK
    BY <2>3 DEF Init, ValueOK, State, Reason, Outcome
  <2> QED
    BY <2>2, <2>4, <2>5, <2>6, TypeGroups DEF SeqOK
<1>2. StateOfWorker
  BY DEF Init, StateOfWorker, Off, Executing, Cmd, Inside
<1>3. QueuedOnce
  <2>1. \A i \in 1..Len(jobs) : jobs[i] # "scriptcmd"
    BY StartsAssumption, ElementOfSeq DEF Init
  <2> QED
    BY <2>1 DEF Init, QueuedOnce, Executing, Cmd, Inside
<1>4. ReasonOf /\ Handshake
  BY DEF Init, ReasonOf, Handshake, InCallback, Direct, Own
<1>5. Complaints
  BY DEF Init, Complaints
<1> QED
  BY <1>1, <1>2, <1>3, <1>4, <1>5 DEF IInv

LEMMA StepIInv == IInv /\ [Next]_vars => IInv'
<1>1. ASSUME IInv, Next PROVE IInv'
  <2>1. TypeOK /\ StateOfWorker /\ QueuedOnce /\ ReasonOf /\ Handshake /\ Complaints
    BY <1>1 DEF IInv
  <2>2. TypeOK'
    BY <1>1, <2>1, StepTypeOK
  <2>3. StateOfWorker' /\ QueuedOnce' /\ ReasonOf' /\ Handshake' /\ Complaints'
    BY <1>1, <2>1, <2>2, StepStateOfWorker, StepQueuedOnce, StepReasonOf, StepHandshake,
       StepComplaints
  <2> QED
    BY <2>2, <2>3 DEF IInv
<1>2. ASSUME IInv, UNCHANGED vars PROVE IInv'
  <2> USE <1>2 DEF IInv, vars, workerVars, scriptVars, debugVars, historyVars
  <2>1. TypeOK'
    BY DEF TypeOK
  <2>2. StateOfWorker' /\ QueuedOnce' /\ ReasonOf'
    BY DEF StateOfWorker, QueuedOnce, ReasonOf, InCallback, Aborted, Executing
  <2>3. Handshake' /\ Complaints'
    BY DEF Handshake, Complaints, InCallback, Aborted
  <2> QED
    BY <2>1, <2>2, <2>3
<1> QED
  BY <1>1, <1>2

\* The inductive invariant of the script engine.
THEOREM IInvInvariant == Spec => []IInv
<1>1. Init => IInv
  BY InitIInv
<1>2. IInv /\ [Next]_vars => IInv'
  BY StepIInv
<1> QED
  BY <1>1, <1>2, PTL DEF Spec

\* The worker, the debug thread and the user are always at a place of their
\* code, and the script at a line of its program.
THEOREM TypeOKInvariant == Spec => []TypeOK
<1>1. IInv => TypeOK
  BY DEF IInv
<1> QED
  BY <1>1, IInvInvariant, PTL

-----------------------------------------------------------------------------
(* What the handshake is for                                               *)

\* Only the execution of a line adds to the trace.
LEMMA TraceGrows ==
  ASSUME TypeOK, Next, trace' # trace
  PROVE  worker = "line"
<1> USE DEF scriptVars, workerVars, debugVars, historyVars
<1>1. CASE Worker
  BY <1>1 DEF Worker, TakeJob, QueuedCommand, QueuedOrdinary, RunCheck, RunClaim, RunReset, RunTop,
     ExecuteLine, Unlock, Return, Poll, TakeOutcome, LookForInterrupt, HandleInterrupt, YieldOver,
     Unyield, EndScript, EndReset
<1>3. CASE DirectlyOrdinary
  BY <1>3, DirectlyCases
<1>2. CASE ~Worker /\ ~DirectlyOrdinary
  BY <1>2 DEF Next, DebugThread, Debuggee, User, DebuggeeContinues, AwaitScript, RequestYield,
     YieldSeen, LockRun, CommandWhere, CommandSettles, DirectCommand, Decide, ResumeScript,
     ClearReason, BreakpointHit, PlainPause, DebuggeeExits, UserRuns, UserUnlocks, UserAborts,
     StoreAbort, AwaitQueue
<1> QED
  BY <1>1, <1>2, <1>3

\* From the moment the debug thread has seen the script yield to the moment it
\* clears its request no line of the script is executed, whatever breakpoint
\* it is and wherever the script was.
THEOREM YieldHoldsAlways == Spec => YieldHolds
<1>1. ASSUME IInv, Next
      PROVE  trace' # trace => ~(InCallback /\ yielded) \/ Aborted
  BY <1>1, TraceGrows DEF IInv, Handshake
<1>2. IInv /\ [Next]_vars => [trace' # trace => ~(InCallback /\ yielded) \/ Aborted]_vars
  BY <1>1
<1> QED
  BY <1>2, IInvInvariant, PTL DEF Spec, YieldHolds

\* scriptRun reports a failure only after a command has failed, the user has
\* aborted, or a call into a script that was stepped has paused it.
THEOREM FailsForAReasonAlways == Spec => FailsForAReason
<1>1. ASSUME IInv, Next, finished' = "failed", finished # "failed"
      PROVE  complaint' \/ Aborted \/ lastError = "pause"
  <2> USE DEF scriptVars, workerVars, debugVars, historyVars
  <2>1. CASE RunCheck
    BY <1>1, <2>1 DEF RunCheck
  <2>2. CASE RunClaim
    BY <1>1, <2>2 DEF RunClaim, IInv, StateOfWorker, Off
  <2>3. CASE EndScript
    <3>1. /\ worker = "end" /\ UNCHANGED <<complaint, user>>
          /\ scriptState # "stepping"
          /\ ~(reason # "abort" /\ ip = 1 /\ lastError \in {"exit", "continue"})
      BY <1>1, <2>3 DEF EndScript
    <3>2. scriptState \in State /\ ~Executing /\ worker \notin Off
      BY <1>1, <3>1 DEF IInv, TypeOK, Executing, Off, Cmd, Inside
    <3>3. scriptState = "running"
      BY <1>1, <3>1, <3>2 DEF IInv, StateOfWorker, State
    <3> QED
      BY <3>1, <3>3, <1>1 DEF IInv, Complaints, ReasonOf
  <2>4. CASE Worker /\ ~RunCheck /\ ~RunClaim /\ ~EndScript
    BY <1>1, <2>4 DEF Worker, TakeJob, QueuedCommand, QueuedOrdinary, RunReset, RunTop, ExecuteLine,
       Unlock, Return, Poll, TakeOutcome, LookForInterrupt, HandleInterrupt, YieldOver, Unyield,
       EndReset
  <2>6. CASE DirectlyOrdinary
    BY <1>1, <2>6, DirectlyCases DEF IInv
  <2>5. CASE ~Worker /\ ~DirectlyOrdinary
    BY <1>1, <2>5 DEF Next, DebugThread, Debuggee, User, DebuggeeContinues, AwaitScript,
       RequestYield, YieldSeen, LockRun, CommandWhere, CommandSettles, DirectCommand, Decide,
       ResumeScript, ClearReason, BreakpointHit, PlainPause, DebuggeeExits, UserRuns,
       UserUnlocks, UserAborts, StoreAbort, AwaitQueue
  <2> QED
    BY <2>1, <2>2, <2>3, <2>4, <2>5, <2>6
<1>2. IInv /\ [Next]_vars =>
        [finished' = "failed" /\ finished # "failed" =>
           complaint' \/ Aborted \/ lastError = "pause"]_vars
  BY <1>1
<1> QED
  BY <1>2, IInvInvariant, PTL DEF Spec, FailsForAReason

\* While the debug thread executes the command of a breakpoint itself, it is
\* the only one who writes the position, the stack, the state and the result
\* of the script.
ScriptStateAlone ==
  [][~Aborted /\ debug \in Direct =>
       \/ DirectCommand \/ DirectlyOrdinary
       \/ UNCHANGED <<ip, ipOld, stack, lastError, outcome, scriptState>>]_vars

THEOREM ScriptStateAloneAlways == Spec => ScriptStateAlone
<1>1. ASSUME IInv, Next, debug \in Direct, ~Aborted, ~DirectCommand, ~DirectlyOrdinary
      PROVE  UNCHANGED <<ip, ipOld, stack, lastError, outcome, scriptState>>
  <2>0. reason = "yield" /\ worker \in {"yield", "unyield", "handle"}
    BY <1>1 DEF IInv, Handshake, InCallback
  <2> USE DEF scriptVars, workerVars, debugVars, historyVars
  <2>1. CASE HandleInterrupt
    <3>1. UNCHANGED <<ip, lastError>>
      BY <1>1, <2>0, <2>1, LooksCases DEF Looks, HandleInterrupt, IInv
    <3> QED
      BY <2>1, <3>1 DEF HandleInterrupt
  <2>2. CASE Worker /\ ~HandleInterrupt
    BY <2>0, <2>2 DEF Worker, TakeJob, QueuedCommand, QueuedOrdinary, RunCheck, RunClaim, RunReset,
       RunTop, ExecuteLine, Unlock, Return, Poll, TakeOutcome, LookForInterrupt, YieldOver, Unyield, EndScript, EndReset
  <2>3. CASE DebugThread \/ Debuggee
    BY <1>1, <2>3 DEF DebugThread, Debuggee, DebuggeeContinues, AwaitScript, RequestYield,
       YieldSeen, LockRun, CommandWhere, CommandSettles, Decide, ResumeScript, ClearReason,
       BreakpointHit, PlainPause, DebuggeeExits
  <2>4. CASE User
    BY <2>4 DEF User, UserRuns, UserUnlocks, UserAborts, StoreAbort, AwaitQueue
  <2> QED
    BY <1>1, <2>1, <2>2, <2>3, <2>4 DEF Next
<1>2. IInv /\ [Next]_vars =>
        [~Aborted /\ debug \in Direct =>
           \/ DirectCommand \/ DirectlyOrdinary
           \/ UNCHANGED <<ip, ipOld, stack, lastError, outcome, scriptState>>]_vars
  BY <1>1
<1> QED
  BY <1>2, IInvInvariant, PTL DEF Spec, ScriptStateAlone

=============================================================================
