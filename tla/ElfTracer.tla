----------------------------- MODULE ElfTracer -----------------------------
(***************************************************************************)
(* ElfBug's ptrace engine: one tracer thread that waits for the debuggee's *)
(* threads, stops all of them for every pause and sets them going again,   *)
(* while the user's thread pauses, continues, steps and suspends.          *)
(* Debugger.Loop.cpp, Debugger.Loop.Signal.cpp, Debugger.cpp.              *)
(*                                                                         *)
(* The debuggee's threads pass software breakpoints again and again, take  *)
(* asynchronous signals, create threads and exit; its leader stays, there  *)
(* is no exec and no other process is created.  The tracer is a stack of   *)
(* activations, the functions of the source recurse; an action runs from   *)
(* one point where another actor can interfere to the next.                *)
(***************************************************************************)
EXTENDS Integers, Sequences, FiniteSets

CONSTANTS
  Tid,         \* the debuggee's threads
  Leader,      \* the one the attach reports
  Births,      \* those created while it is debugged, the others are attached to
  Exits,       \* those that may exit
  NoTid,       \* no thread
  Addr,        \* where breakpoints can be set
  Rep,         \* the addresses of Addr that hold a rep instruction
  NoAddr,      \* an address outside Addr
  MaxSuspend,  \* bound: how deep suspends nest
  MaxSignals,  \* bound: asynchronous signals sent to the debuggee
  Calls,       \* the calls of the user a run explores
  Timeouts     \* whether kStopWaitTimeout can expire before a thread stops

ASSUME LeaderAssumption == Leader \in Tid /\ NoTid \notin Tid /\ IsFiniteSet(Tid)
ASSUME LifeAssumption == Births \cup Exits \subseteq Tid \ {Leader}
ASSUME AddrAssumption == Rep \subseteq Addr /\ NoAddr \notin Addr
ASSUME BoundAssumption == MaxSuspend \in Nat /\ MaxSignals \in Nat
ASSUME CallsAssumption ==
  Calls \subseteq {"continueEarly", "step", "switch", "pause", "delete",
                   "suspendPaused", "suspendRunning", "resumePaused", "resumeRunning"}
ASSUME TimeoutsAssumption == Timeouts \in BOOLEAN

VARIABLES
  k,           \* the kernel's side of each thread
  procStop,    \* a SIGSTOP is queued on the process
  signalsLeft, \* asynchronous signals still to come
  recs,        \* the breakpoints with a record
  armed,       \* those whose byte is in memory
  th,          \* the Thread records, known for those mProcess->threads holds
  cur,         \* mThread
  curSig,      \* mPendingSignal # 0
  rearms,      \* mSourceRearms
  allStopped,  \* mAllStopped
  stack,       \* the activations of the tracer thread, innermost first
  ret,         \* what the innermost call returned
  paused,      \* mPaused
  stepReq,     \* mStepPending
  pauseReq,    \* mPauseRequested
  pendSuspend, \* mPendingSuspend
  pendResume,  \* mPendingResume
  kick,        \* Pause() has raised mPauseRequested and not sent its SIGSTOP
  hits,        \* history: threads whose hit is neither reported nor void
  owed         \* history: signals taken from a thread and not given back

kernelVars == <<k, procStop, signalsLeft>>
bpVars == <<recs, armed>>
tracerVars == <<th, cur, curSig, rearms, allStopped, stack, ret>>
userVars == <<paused, stepReq, pauseReq, pendSuspend, pendResume, kick>>
historyVars == <<hits, owed>>
vars == <<kernelVars, bpVars, tracerVars, userVars, historyVars>>

-----------------------------------------------------------------------------
Suspended(t) == th[t].susp > 0
CurSuspended == cur # NoTid /\ Suspended(cur)
AnyRunning == \E t \in Tid : th[t].running

\* A thread in exit goes on to its end, whatever is asked of it.
Runs(t) == k[t].run \in {"run", "step"}
Gone(t) == k[t].run = "dead" /\ k[t].status = "none"
Living(t) == k[t].run \in {"run", "step", "stopped"} /\ ~k[t].dying

\* An activation: where it is, the thread it is about, and the locals that are set.
Frame(point, t) ==
  [at |-> point, tid |-> t, sig |-> FALSE, park |-> FALSE, why |-> "none",
   ran |-> FALSE, susp |-> FALSE, resumed |-> FALSE, who |-> NoTid, prev |-> NoTid,
   todo |-> {}, rest |-> {}, parked |-> {}, addr |-> NoAddr]
StopAll(t, why) == [Frame("sweep", t) EXCEPT !.why = why]
ResumeFrom(t, park) == [Frame("cont", t) EXCEPT !.park = park]
ContinueOrPark(t, sig, park) ==
  [Frame("continueOrPark", t) EXCEPT !.sig = sig, !.park = park]
Top == Head(stack)
At(point) == Top.at = point
Become(f) == stack' = <<f>> \o Tail(stack)
Call(f, next) == stack' = <<f, next>> \o Tail(stack)
Return == stack' = Tail(stack)

\* beginPause, and the entry to pauseAndResume(t).
BeginPause(t) ==
  /\ paused' = TRUE
  /\ allStopped' = TRUE
  /\ Become(Frame("wait", t))

\* Where a thread parks or is told to stop: nobody else runs, so say so.
PauseIfAloneSilent(t) == Return /\ UNCHANGED <<paused, allStopped>>
PauseIfAlone(t) ==
  IF AnyRunning THEN Return /\ UNCHANGED <<paused, allStopped>> ELSE BeginPause(t)

\* mResumeExcept and mSteppingOff live as long as the activations that set them.
ResumeAllPoints == {"stepOff", "steppedOff", "continueRest", "continueParked"}
ResumeExcept == {stack[i].tid : i \in {j \in DOMAIN stack :
                                         stack[j].at \in ResumeAllPoints}}
StepOffPoints == {"lifted", "stepWait", "stepTaken"}
SteppingOff(t) ==
  \E i \in DOMAIN stack :
    /\ stack[i].at \in StepOffPoints /\ stack[i].tid = t
    /\ \A j \in 1 .. (i - 1) : stack[j].at \notin StepOffPoints

\* PTRACE_CONT and PTRACE_SINGLESTEP fail unless the thread is in ptrace-stop.
InPtraceStop(t) == k[t].run = "stopped" /\ k[t].status = "none"
Queued(t) == k[t].stopq \/ k[t].sigq > 0 \/ procStop
Restart(t, how) == [k EXCEPT ![t].run = how, ![t].due = Queued(t)]

\* SetRunning(true), and SetRunning(false) with SetPendingSigstop.
Running(ths, t) == [ths EXCEPT ![t].running = TRUE, ![t].atBp = FALSE]
StoppedOwing(ths, t, owes) == [ths EXCEPT ![t].running = FALSE, ![t].pss = TRUE]
Stopped(ths, t, owes) == [ths EXCEPT ![t].running = FALSE, ![t].pss = owes]
ClearSingleStepNot(ths, t) == ths
ClearSingleStep(ths, t) == [ths EXCEPT ![t].stepping = FALSE]

\* A stopped thread that a resume sets going.
ContinuableSuspended(t) == th[t].known /\ ~th[t].running
Continuable(t) == th[t].known /\ ~th[t].running /\ ~Suspended(t)

\* A signal is kept on a thread, unless there is none.
KeepUnreported(ths, t, sig, how) ==
  IF sig /\ how = "unreported" THEN [ths EXCEPT ![t].psig = how] ELSE ths
Keep(ths, t, sig, how) == IF sig THEN [ths EXCEPT ![t].psig = how] ELSE ths
GiveBack(t, sig) == IF sig THEN [owed EXCEPT ![t] = @ - 1] ELSE owed

\* restoreSourceByte and RearmBreakpointByte.
RearmedNever(a) == armed
Rearmed(a) == IF a \in recs THEN armed \cup {a} ELSE armed
ForgetSourceByte(t) ==
  /\ armed' = armed
  /\ rearms' = [rearms EXCEPT ![t] = NoAddr]
RestoreSourceByte(t) ==
  /\ armed' = Rearmed(rearms[t])
  /\ rearms' = [rearms EXCEPT ![t] = NoAddr]

\* createThreadEvent from a clone event: the child is said to run into the SIGSTOP
\* it starts with, unless that stop has registered it already.
NoThread == [known |-> FALSE, running |-> FALSE, susp |-> 0, pss |-> FALSE, pbp |-> NoAddr,
             psig |-> "none", atBp |-> FALSE, stepping |-> FALSE]
NewThread == [NoThread EXCEPT !.known = TRUE]
RegisterClone(ths, parent) ==
  LET c == k[parent].child
  IN IF th[c].known THEN ths
     ELSE [ths EXCEPT ![c] = [NewThread EXCEPT !.running = TRUE, !.pss = TRUE]]
Announced(ths, t) == IF k[t].status = "clone" THEN RegisterClone(ths, t) ELSE ths

\* exitThreadEvent: a byte lifted for the thread comes back, nothing else of it stays.
ExitThreadEvent(t) ==
  /\ k' = [k EXCEPT ![t].status = "none"]
  /\ RestoreSourceByte(t)
  /\ th' = [th EXCEPT ![t] = NoThread]
  /\ cur' = IF cur = t THEN NoTid ELSE cur
  /\ pendSuspend' = pendSuspend \ {t}
  /\ pendResume' = pendResume \ {t}
  /\ hits' = hits \ {t}
  /\ owed' = [owed EXCEPT ![t] = 0]

-----------------------------------------------------------------------------
\* The kernel and the debuggee.  An int3 leaves the thread past the byte.  What
\* was queued on a thread when it was restarted it takes before it executes.
Stops(t, why) == [k EXCEPT ![t].run = "stopped", ![t].status = why, ![t].due = FALSE]

Executes(t) == Runs(t) /\ ~k[t].dying /\ (k[t].due => ~Queued(t))
Execute(t) ==
  /\ Executes(t)
  /\ \/ /\ k[t].at \in armed /\ ~k[t].past
        /\ k' = [Stops(t, "int3") EXCEPT ![t].past = TRUE]
        /\ hits' = hits \cup {t}
     \/ /\ k[t].at \notin armed \/ k[t].past
        /\ \E a \in IF k[t].at = NoAddr THEN Addr
                    ELSE {NoAddr} \cup ({k[t].at} \cap Rep) :
             k' = [IF k[t].run = "step" THEN Stops(t, "step") ELSE k
                     EXCEPT ![t].at = a, ![t].past = FALSE, ![t].due = FALSE]
        /\ UNCHANGED hits
  /\ UNCHANGED <<procStop, signalsLeft, bpVars, tracerVars, userVars, owed>>

TakeSigstop(t) ==
  /\ Runs(t) /\ ~k[t].dying
  /\ \/ /\ k[t].stopq
        /\ k' = [Stops(t, "stop") EXCEPT ![t].stopq = FALSE]
        /\ UNCHANGED procStop
     \/ /\ procStop
        /\ k' = Stops(t, "stop")
        /\ procStop' = FALSE
  /\ UNCHANGED <<signalsLeft, bpVars, tracerVars, userVars, historyVars>>

TakeSignal(t) ==
  /\ Runs(t) /\ ~k[t].dying
  /\ k[t].sigq > 0
  /\ k' = [Stops(t, "sig") EXCEPT ![t].sigq = @ - 1]
  /\ UNCHANGED <<procStop, signalsLeft, bpVars, tracerVars, userVars, historyVars>>

SendSignal(t) ==
  /\ signalsLeft > 0
  /\ th[t].known
  /\ signalsLeft' = signalsLeft - 1
  /\ k' = [k EXCEPT ![t].sigq = @ + 1]
  /\ UNCHANGED <<procStop, bpVars, tracerVars, userVars, historyVars>>

\* A traced clone stops its caller, a new thread starts with a SIGSTOP queued, and
\* an exit stops once more before the end.
Newborn == [run |-> "run", status |-> "none", stopq |-> TRUE, sigq |-> 0, at |-> NoAddr,
            past |-> FALSE, due |-> TRUE, dying |-> FALSE, child |-> NoTid]
OffTheByte(t) == k[t].at \notin armed \/ k[t].past
Clone(t) ==
  /\ Executes(t) /\ OffTheByte(t)
  /\ \E c \in Births :
       /\ k[c].run = "unborn"
       /\ k' = [Stops(t, "clone") EXCEPT ![t].child = c, ![t].at = NoAddr,
                                         ![t].past = FALSE, ![c] = Newborn]
  /\ UNCHANGED <<procStop, signalsLeft, bpVars, tracerVars, userVars, historyVars>>

Exit(t) ==
  /\ t \in Exits
  /\ Executes(t) /\ OffTheByte(t)
  /\ k' = [Stops(t, "exit") EXCEPT ![t].dying = TRUE, ![t].at = NoAddr, ![t].past = FALSE]
  /\ UNCHANGED <<procStop, signalsLeft, bpVars, tracerVars, userVars, historyVars>>

Die(t) ==
  /\ Runs(t) /\ k[t].dying
  /\ k' = [k EXCEPT ![t].run = "dead", ![t].status = "exited"]
  /\ UNCHANGED <<procStop, signalsLeft, bpVars, tracerVars, userVars, historyVars>>

-----------------------------------------------------------------------------
\* The user's thread.  Every call is one critical section of mPauseMutex, but
\* Pause sends its SIGSTOP after leaving it.
Continue ==
  /\ paused \/ "continueEarly" \in Calls
  /\ stepReq' = FALSE
  /\ paused' = FALSE
  /\ UNCHANGED <<pauseReq, pendSuspend, pendResume, kick>>
  /\ UNCHANGED <<kernelVars, bpVars, tracerVars, historyVars>>

StepInto ==
  /\ "step" \in Calls
  /\ paused
  /\ ~CurSuspended
  /\ stepReq' = TRUE
  /\ paused' = FALSE
  /\ UNCHANGED <<pauseReq, pendSuspend, pendResume, kick>>
  /\ UNCHANGED <<kernelVars, bpVars, tracerVars, historyVars>>

SwitchThread(t) ==
  /\ "switch" \in Calls
  /\ paused
  /\ th[t].known /\ ~th[t].running
  /\ cur' = t
  /\ UNCHANGED <<th, curSig, rearms, allStopped, stack, ret>>
  /\ UNCHANGED <<kernelVars, bpVars, userVars, historyVars>>

\* interruptRunningThreadLocked: one running thread that does not owe a SIGSTOP
\* gets one, tgkill skips those that are gone; when one that runs owes one already,
\* there is nothing to do.
Interruptible(except) == {t \in Tid \ {except} : th[t].running /\ ~th[t].pss /\ ~Gone(t)}
InterruptForgotten(t) ==
  /\ k' = k
  /\ th' = [th EXCEPT ![t].pss = TRUE]
Interrupt(t) ==
  /\ k' = [k EXCEPT ![t].stopq = TRUE]
  /\ th' = [th EXCEPT ![t].pss = TRUE]

Pause ==
  /\ "pause" \in Calls
  /\ ~paused /\ ~kick
  /\ pauseReq' = TRUE
  /\ kick' = TRUE
  /\ UNCHANGED <<paused, stepReq, pendSuspend, pendResume>>
  /\ UNCHANGED <<kernelVars, bpVars, tracerVars, historyVars>>

InterruptRunningThread ==
  /\ kick
  /\ kick' = FALSE
  /\ \/ /\ \E t \in Interruptible(NoTid) : Interrupt(t)
        /\ UNCHANGED procStop
     \/ /\ Interruptible(NoTid) = {}
        /\ procStop' = (procStop \/ \A t \in Tid : ~(th[t].running /\ th[t].pss))
        /\ UNCHANGED <<k, th>>
  /\ UNCHANGED <<signalsLeft, cur, curSig, rearms, allStopped, stack, ret>>
  /\ UNCHANGED <<paused, stepReq, pauseReq, pendSuspend, pendResume>>
  /\ UNCHANGED <<bpVars, historyVars>>

\* SetThreadSuspended(t, true) and (t, false). The SIGSTOP cannot be sent to a
\* thread that is gone: the call takes back what it did, and fails.
Suspend(t) ==
  /\ (IF paused THEN "suspendPaused" ELSE "suspendRunning") \in Calls
  /\ th[t].known /\ th[t].susp < MaxSuspend
  /\ ~(th[t].running /\ Gone(t))
  /\ IF th[t].running
     THEN /\ th' = [th EXCEPT ![t].susp = @ + 1, ![t].pss = TRUE]
          /\ k' = [k EXCEPT ![t].stopq = TRUE]
          /\ pendSuspend' = pendSuspend \cup {t}
     ELSE /\ th' = [th EXCEPT ![t].susp = @ + 1]
          /\ UNCHANGED <<k, pendSuspend>>
  /\ UNCHANGED <<cur, curSig, rearms, allStopped, stack, ret>>
  /\ UNCHANGED <<paused, stepReq, pauseReq, pendResume, kick>>
  /\ UNCHANGED <<procStop, signalsLeft, bpVars, historyVars>>

Resume(t) ==
  /\ (IF paused THEN "resumePaused" ELSE "resumeRunning") \in Calls
  /\ th[t].known /\ th[t].susp > 0
  /\ LET ths == [th EXCEPT ![t].susp = @ - 1]
         wake == ths[t].susp = 0 /\ ~paused
     IN /\ pendResume' = IF wake THEN pendResume \cup {t} ELSE pendResume
        /\ IF wake /\ Interruptible(t) # {}
           THEN \E u \in Interruptible(t) :
                  /\ k' = [k EXCEPT ![u].stopq = TRUE]
                  /\ th' = [ths EXCEPT ![u].pss = TRUE]
           ELSE th' = ths /\ UNCHANGED k
  /\ UNCHANGED <<cur, curSig, rearms, allStopped, stack, ret>>
  /\ UNCHANGED <<paused, stepReq, pauseReq, pendSuspend, kick>>
  /\ UNCHANGED <<procStop, signalsLeft, bpVars, historyVars>>

\* Breakpoint requests are queued and served by the tracer while it is paused.
SetBreakpoint(a) ==
  /\ At("wait") /\ a \notin recs
  /\ recs' = recs \cup {a}
  /\ armed' = armed \cup {a}
  /\ UNCHANGED <<kernelVars, tracerVars, userVars, historyVars>>

DeleteLeavesByte(a) ==
  /\ At("wait") /\ a \in recs
  /\ recs' = recs \ {a}
  /\ hits' = {t \in hits : k[t].at # a}
  /\ UNCHANGED <<armed, kernelVars, tracerVars, userVars, owed>>
DeleteBreakpoint(a) ==
  /\ "delete" \in Calls
  /\ At("wait") /\ a \in recs
  /\ recs' = recs \ {a}
  /\ armed' = armed \ {a}
  /\ hits' = {t \in hits : k[t].at # a}
  /\ UNCHANGED <<kernelVars, tracerVars, userVars, owed>>

-----------------------------------------------------------------------------
\* debugLoop and handleSignal.  HandleSignal is entered from the loop and from a
\* step over the breakpoint's byte; below is what becomes of the caller.  A thread
\* that is not known yet has stopped for the SIGSTOP it starts with.
HandleSignal(t, ths, below) ==
  LET why == k[t].status
  IN /\ k' = [k EXCEPT ![t].status = "none"]
     /\ th' = [ths EXCEPT ![t].known = TRUE, ![t].running = FALSE,
                          ![t].pss = IF why = "stop" THEN FALSE ELSE @]
     /\ cur' = t
     /\ curSig' = (why = "sig")
     /\ owed' = IF why = "sig" THEN [owed EXCEPT ![t] = @ + 1] ELSE owed
     /\ stack' = <<[Frame(IF why \in {"stop", "sig", "clone", "exit"} THEN why ELSE "trap", t)
                     EXCEPT !.why = why, !.ran = th[t].running,
                            !.susp = Suspended(t)]>> \o below

WaitAny(t) ==
  /\ At("loop")
  /\ k[t].status \notin {"none", "exited"}
  /\ HandleSignal(t, th, stack)
  /\ UNCHANGED <<procStop, signalsLeft, bpVars, rearms, allStopped, ret, userVars, hits>>

Reap(t) ==
  /\ At("loop")
  /\ k[t].status = "exited"
  /\ ExitThreadEvent(t)
  /\ UNCHANGED <<procStop, signalsLeft, recs, curSig, allStopped, stack, ret>>
  /\ UNCHANGED <<paused, stepReq, pauseReq, kick>>

\* case SIGSTOP: first the suspends that asked for it ...
StopForSuspend ==
  /\ At("stop")
  /\ LET t == Top.tid
         asked == t \in pendSuspend
         resumed == asked /\ ~Suspended(t)
     IN /\ pendSuspend' = pendSuspend \ {t}
        /\ pendResume' = IF resumed THEN pendResume \ {t} ELSE pendResume
        /\ \/ /\ asked /\ ~resumed /\ ~pauseReq
              /\ PauseIfAlone(t)
           \/ /\ ~asked \/ resumed \/ pauseReq
              /\ Become([Top EXCEPT !.at = "stopForResumes", !.resumed = resumed])
              /\ UNCHANGED <<paused, allStopped>>
  /\ UNCHANGED <<th, cur, curSig, rearms, ret, stepReq, pauseReq, kick>>
  /\ UNCHANGED <<kernelVars, bpVars, historyVars>>

\* ... then the resumes that only needed the tracer to wake up ...
OnBreakpoint(t) == th[t].atBp /\ k[t].at \in recs /\ ~k[t].past

StopForResumes ==
  /\ At("stopForResumes")
  /\ IF (pendResume # {} \/ Top.resumed) /\ ~pauseReq
     THEN IF \E t \in pendResume : Continuable(t) /\ OnBreakpoint(t)
          THEN /\ pendResume' = {}
               /\ Become(StopAll(Top.tid, "resume"))
          ELSE /\ Become(Frame("takeResumes", Top.tid))
               /\ UNCHANGED pendResume
     ELSE /\ Become([Top EXCEPT !.at = "stopForPause"])
          /\ UNCHANGED pendResume
  /\ UNCHANGED <<th, cur, curSig, rearms, allStopped, ret>>
  /\ UNCHANGED <<paused, stepReq, pauseReq, pendSuspend, kick>>
  /\ UNCHANGED <<kernelVars, bpVars, historyVars>>

\* ... then Pause(), a step the SIGSTOP came before, and a stray SIGSTOP.
StopForPause ==
  /\ At("stopForPause")
  /\ LET t == Top.tid
     IN \/ /\ pauseReq
           /\ pauseReq' = FALSE
           /\ th' = ClearSingleStep(th, t)
           /\ RestoreSourceByte(t)
           /\ Become(StopAll(t, "paused"))
           /\ UNCHANGED k
        \/ /\ ~pauseReq /\ th[t].stepping
           /\ k' = Restart(t, "step")
           /\ th' = Running(th, t)
           /\ Return
           /\ UNCHANGED <<armed, rearms, pauseReq>>
        \/ /\ ~pauseReq /\ ~th[t].stepping
           /\ IF ~Top.susp /\ (~allStopped \/ Top.ran \/ SteppingOff(t))
              THEN Become(ContinueOrPark(t, FALSE, FALSE))
              ELSE Return
           /\ UNCHANGED <<k, th, armed, rearms, pauseReq>>
  /\ UNCHANGED <<procStop, signalsLeft, recs, cur, curSig, allStopped, ret>>
  /\ UNCHANGED <<paused, stepReq, pendSuspend, pendResume, kick, historyVars>>

\* case SIGTRAP: the end of a step, a hit, a trap that is not ours, or a stop
\* that means nothing any more.
HandleSigtrap ==
  /\ At("trap")
  /\ LET t == Top.tid
         hit == k[t].at \in recs /\ k[t].past
         foreign == Top.why = "int3"
     IN /\ RestoreSourceByte(t)
        /\ \/ /\ th[t].stepping
              /\ th' = ClearSingleStep(th, t)
              /\ Become(StopAll(t, "step"))
              /\ UNCHANGED <<k, curSig, owed>>
           \/ /\ ~th[t].stepping /\ hit
              /\ k' = [k EXCEPT ![t].past = FALSE]
              /\ th' = [th EXCEPT ![t].atBp = TRUE]
              /\ Become(StopAll(t, "breakpoint"))
              /\ UNCHANGED <<curSig, owed>>
           \/ /\ ~th[t].stepping /\ ~hit
              /\ IF foreign
                 THEN /\ curSig' = TRUE
                      /\ owed' = [owed EXCEPT ![t] = @ + 1]
                      /\ Become(StopAll(t, "exception"))
                 ELSE /\ Become(ContinueOrPark(t, FALSE, FALSE))
                      /\ UNCHANGED <<curSig, owed>>
              /\ UNCHANGED <<k, th>>
  /\ UNCHANGED <<procStop, signalsLeft, recs, cur, allStopped, ret, userVars, hits>>

\* reportSignal: the step it interrupts is abandoned.
ReportSignal ==
  /\ At("sig")
  /\ th' = ClearSingleStep(th, Top.tid)
  /\ RestoreSourceByte(Top.tid)
  /\ Become(StopAll(Top.tid, "exception"))
  /\ UNCHANGED <<recs, cur, curSig, allStopped, ret, kernelVars, userVars, historyVars>>

\* case PTRACE_EVENT_CLONE: the step it interrupts is over, a running thread goes on.
HandleClone ==
  /\ At("clone")
  /\ th' = RegisterClone(ClearSingleStep(th, Top.tid), Top.tid)
  /\ RestoreSourceByte(Top.tid)
  /\ Become(IF th[Top.tid].stepping THEN StopAll(Top.tid, "step")
            ELSE ContinueOrPark(Top.tid, FALSE, FALSE))
  /\ UNCHANGED <<recs, cur, curSig, allStopped, ret, kernelVars, userVars, historyVars>>

\* case PTRACE_EVENT_EXIT: the thread goes on to its end, and is not said to run.
HandleExit ==
  /\ At("exit")
  /\ th' = ClearSingleStep(th, Top.tid)
  /\ RestoreSourceByte(Top.tid)
  /\ k' = Restart(Top.tid, "run")
  /\ Return
  /\ UNCHANGED <<procStop, signalsLeft, recs, cur, curSig, allStopped, ret>>
  /\ UNCHANGED <<userVars, historyVars>>

-----------------------------------------------------------------------------
\* stopAllThreads: every running thread but one is told to stop and waited for.
\* What it stopped for instead of our SIGSTOP is kept for a later resume.
SweepAsk(t) ==
  /\ At("sweep")
  /\ t # Top.tid /\ th[t].running
  /\ k' = IF th[t].pss THEN k ELSE [k EXCEPT ![t].stopq = TRUE]
  /\ Become([Top EXCEPT !.at = "sweepWait", !.who = t])
  /\ UNCHANGED <<th, cur, curSig, rearms, allStopped, ret>>
  /\ UNCHANGED <<procStop, signalsLeft, bpVars, userVars, historyVars>>

\* claimBreakpointTrap and what repairStoppedThread and swallowPendingSigstop do
OwnReason(t) == k[t].status \in {"int3", "step", "sig"}
Claimed(t) == k[t].status = "int3" /\ ~th[t].stepping /\ k[t].at \in recs
Foreign(t) == k[t].status = "int3" /\ ~Claimed(t)
Signalled(t) == k[t].status = "sig" \/ (Foreign(t) /\ ~th[t].stepping)
SignalDrained(t) == k[t].status = "sig" \/ Foreign(t)
RewoundNot(t) == [k EXCEPT ![t].status = "none"]
Rewound(t) ==
  [k EXCEPT ![t].status = "none", ![t].past = IF Claimed(t) THEN FALSE ELSE @]
ClaimForgets(t) == IF Claimed(t) THEN [th EXCEPT ![t].atBp = TRUE] ELSE th
Claim(t) ==
  IF Claimed(t) THEN [th EXCEPT ![t].atBp = TRUE, ![t].pbp = k[t].at] ELSE th
Taken(t, sig) == IF sig THEN [owed EXCEPT ![t] = @ + 1] ELSE owed

SweepTake ==
  /\ At("sweepWait")
  /\ LET t == Top.who
     IN \/ /\ k[t].status = "stop"
           /\ k' = [k EXCEPT ![t].status = "none"]
           /\ th' = Stopped(th, t, FALSE)
           /\ UNCHANGED owed
        \/ /\ OwnReason(t)
           /\ k' = Rewound(t)
           /\ th' = Keep(Stopped(Claim(t), t, TRUE), t, Signalled(t), "unreported")
           /\ owed' = Taken(t, Signalled(t))
  /\ Become([Top EXCEPT !.at = "sweep"])
  /\ UNCHANGED <<cur, curSig, rearms, allStopped, ret>>
  /\ UNCHANGED <<procStop, signalsLeft, bpVars, userVars, hits>>

\* A thread that creates one goes on into its SIGSTOP, one that exits to its end.
SweepClone ==
  /\ At("sweepWait") /\ k[Top.who].status = "clone"
  /\ k' = [Restart(Top.who, "run") EXCEPT ![Top.who].status = "none"]
  /\ th' = [RegisterClone(th, Top.who) EXCEPT ![Top.who].pss = TRUE]
  /\ Become([Top EXCEPT !.at = "sweep"])
  /\ UNCHANGED <<cur, curSig, rearms, allStopped, ret>>
  /\ UNCHANGED <<procStop, signalsLeft, bpVars, userVars, historyVars>>

SweepExit ==
  /\ At("sweepWait") /\ k[Top.who].status = "exit"
  /\ k' = [Restart(Top.who, "run") EXCEPT ![Top.who].status = "none"]
  /\ th' = [th EXCEPT ![Top.who].running = FALSE]
  /\ Become([Top EXCEPT !.at = "sweep"])
  /\ UNCHANGED <<cur, curSig, rearms, allStopped, ret>>
  /\ UNCHANGED <<procStop, signalsLeft, bpVars, userVars, historyVars>>

SweepReap ==
  /\ At("sweepWait") /\ k[Top.who].status = "exited"
  /\ ExitThreadEvent(Top.who)
  /\ Become([Top EXCEPT !.at = "sweep"])
  /\ UNCHANGED <<procStop, signalsLeft, recs, curSig, allStopped, ret>>
  /\ UNCHANGED <<paused, stepReq, pauseReq, kick>>

SweepGone ==
  /\ At("sweepWait") /\ Gone(Top.who)
  /\ th' = [th EXCEPT ![Top.who].running = FALSE]
  /\ Become([Top EXCEPT !.at = "sweep"])
  /\ UNCHANGED <<cur, curSig, rearms, allStopped, ret>>
  /\ UNCHANGED <<kernelVars, bpVars, userVars, historyVars>>

SweepTimeout ==
  /\ At("sweepWait") /\ Timeouts
  /\ k[Top.who].status = "none" /\ ~Gone(Top.who)
  /\ th' = Stopped(th, Top.who, TRUE)
  /\ Become([Top EXCEPT !.at = "sweep"])
  /\ UNCHANGED <<cur, curSig, rearms, allStopped, ret>>
  /\ UNCHANGED <<kernelVars, bpVars, userVars, historyVars>>

\* Everything is stopped: report, and pause.  A resume that needs a step over
\* the byte enters pauseAndResume without pausing.
SweptOnce == \E t \in Tid : ~th[t].running
Swept == \A t \in Tid \ {Top.tid} : ~th[t].running
SilentStep(why) == why \in {"resume", "step"}
Silent(why) == why = "resume"
SweepDone ==
  /\ At("sweep") /\ Swept
  /\ IF Silent(Top.why)
     THEN Become(Frame("wait", Top.tid)) /\ UNCHANGED <<paused, allStopped>>
     ELSE BeginPause(Top.tid)
  /\ hits' = IF Top.why = "breakpoint" THEN hits \ {Top.tid} ELSE hits
  /\ UNCHANGED <<th, cur, curSig, rearms, ret>>
  /\ UNCHANGED <<stepReq, pauseReq, pendSuspend, pendResume, kick>>
  /\ UNCHANGED <<kernelVars, bpVars, owed>>

-----------------------------------------------------------------------------
\* PTRACE_CONT with the signal kept on the thread, which is gone either way.
ContinueThread(t) ==
  IF ~Continuable(t)
  THEN UNCHANGED <<k, th, owed>>
  ELSE LET ths == [th EXCEPT ![t].psig = "none"]
       IN IF InPtraceStop(t)
          THEN /\ k' = Restart(t, "run")
               /\ th' = Running(ths, t)
               /\ owed' = GiveBack(t, th[t].psig # "none")
          ELSE th' = ths /\ UNCHANGED <<k, owed>>

\* The prologue resumeAllThreads and resumeStoppedThread share: the step over
\* the byte runs with t as mThread and the signal kept on t as mPendingSignal.
StepOffAs(t, next) ==
  /\ cur' = t
  /\ curSig' = (th[t].psig # "none")
  /\ th' = [th EXCEPT ![t].psig = "none"]
  /\ Call(Frame("stepPast", t), [next EXCEPT !.prev = cur])

SteppedOff ==
  /\ curSig' = FALSE
  /\ cur' = Top.prev

\* drainPendingResumes, then the thread whose SIGSTOP woke the tracer goes on.
TakePendingResumes ==
  /\ At("takeResumes")
  /\ pendResume' = {}
  /\ Become([Frame("drain", Top.tid) EXCEPT !.todo = pendResume])
  /\ UNCHANGED <<th, cur, curSig, rearms, allStopped, ret>>
  /\ UNCHANGED <<paused, stepReq, pauseReq, pendSuspend, kick>>
  /\ UNCHANGED <<kernelVars, bpVars, historyVars>>

DrainPendingResumes ==
  /\ At("drain")
  /\ IF Top.todo = {}
     THEN Become(ContinueOrPark(Top.tid, FALSE, FALSE))
     ELSE \E t \in Top.todo :
            Call(Frame("resume", t), [Top EXCEPT !.todo = @ \ {t}])
  /\ UNCHANGED <<th, cur, curSig, rearms, allStopped, ret>>
  /\ UNCHANGED <<kernelVars, bpVars, userVars, historyVars>>

\* resumeStoppedThread.
ResumeStoppedThread ==
  /\ At("resume")
  /\ LET t == Top.tid
     IN \/ /\ ~Continuable(t)
           /\ Return
           /\ UNCHANGED <<th, cur, curSig>>
        \/ /\ Continuable(t) /\ OnBreakpoint(t)
           /\ StepOffAs(t, Frame("resumed", t))
        \/ /\ Continuable(t) /\ ~OnBreakpoint(t)
           /\ Become(Frame("resumeNow", t))
           /\ UNCHANGED <<th, cur, curSig>>
  /\ UNCHANGED <<rearms, allStopped, ret>>
  /\ UNCHANGED <<kernelVars, bpVars, userVars, historyVars>>

ResumeSteppedOff ==
  /\ At("resumed")
  /\ SteppedOff
  /\ IF ret = "parked" THEN Return ELSE Become(Frame("resumeNow", Top.tid))
  /\ UNCHANGED <<th, rearms, allStopped, ret>>
  /\ UNCHANGED <<kernelVars, bpVars, userVars, historyVars>>

ResumeNow ==
  /\ At("resumeNow")
  /\ ContinueThread(Top.tid)
  /\ Return
  /\ UNCHANGED <<procStop, signalsLeft, cur, curSig, rearms, allStopped, ret>>
  /\ UNCHANGED <<bpVars, userVars, hits>>

-----------------------------------------------------------------------------
\* swallowPendingSigstop: the thread is let run into the SIGSTOP it owes.  What
\* it stops for first is kept, unless a signal is kept already.
Swallow ==
  /\ At("swallow")
  /\ LET t == Top.tid
     IN IF ~th[t].pss
        THEN ret' = "drained" /\ Return /\ UNCHANGED k
        ELSE /\ k' = IF ~th[t].running /\ InPtraceStop(t) THEN Restart(t, "run") ELSE k
             /\ Become(Frame("swallowWait", t))
             /\ UNCHANGED ret
  /\ UNCHANGED <<th, cur, curSig, rearms, allStopped>>
  /\ UNCHANGED <<procStop, signalsLeft, bpVars, userVars, historyVars>>

SwallowTake ==
  /\ At("swallowWait")
  /\ LET t == Top.tid
         free == th[t].psig = "none"
     IN \/ /\ k[t].status = "stop"
           /\ k' = [k EXCEPT ![t].status = "none"]
           /\ th' = Stopped(th, t, FALSE)
           /\ ret' = "drained"
           /\ Return
           /\ UNCHANGED owed
        \/ /\ k[t].status \notin {"none", "stop", "exited"}
           /\ k' = [Rewound(t) EXCEPT ![t].run = "run", ![t].due = Queued(t)]
           /\ th' = Keep(Announced(Claim(t), t), t, SignalDrained(t) /\ free, "reported")
           /\ owed' = Taken(t, SignalDrained(t))
           /\ UNCHANGED <<stack, ret>>
  /\ UNCHANGED <<cur, curSig, rearms, allStopped>>
  /\ UNCHANGED <<procStop, signalsLeft, bpVars, userVars, hits>>

\* It has ended, or does not stop in time: the caller gives up.
SwallowLost ==
  /\ At("swallowWait")
  /\ IF k[Top.tid].status = "exited"
     THEN ExitThreadEvent(Top.tid)
     ELSE /\ Timeouts /\ k[Top.tid].status = "none"
          /\ th' = Running(th, Top.tid)
          /\ UNCHANGED <<k, armed, rearms, cur, pendSuspend, pendResume, historyVars>>
  /\ ret' = "lost"
  /\ Return
  /\ UNCHANGED <<procStop, signalsLeft, recs, curSig, allStopped>>
  /\ UNCHANGED <<paused, stepReq, pauseReq, kick>>

\* stepPastBreakpointByte: lift the byte, drain the owed SIGSTOP, step, put it
\* back.  A thread suspended meanwhile is parked on the byte.
StepPast ==
  /\ At("stepPast")
  /\ LET a == k[Top.tid].at
     IN /\ armed' = armed \ {a}
        /\ Call(Frame("swallow", Top.tid),
                [Frame("lifted", Top.tid) EXCEPT !.sig = curSig,
                                                !.addr = IF a \in armed THEN a ELSE NoAddr])
  /\ curSig' = FALSE
  /\ UNCHANGED <<recs, th, cur, rearms, allStopped, ret>>
  /\ UNCHANGED <<kernelVars, userVars, historyVars>>

StepOffTheByte ==
  /\ At("lifted")
  /\ LET t == Top.tid
     IN \/ /\ ret = "lost"
           /\ ret' = "consumed"
           /\ armed' = Rearmed(Top.addr)
           /\ Return
           /\ UNCHANGED <<k, th, owed>>
        \/ /\ ret # "lost" /\ CurSuspended
           /\ ret' = "parked"
           /\ armed' = Rearmed(Top.addr)
           /\ th' = Keep(th, cur, Top.sig, "reported")
           /\ Return
           /\ UNCHANGED <<k, owed>>
        \/ /\ ret # "lost" /\ ~CurSuspended /\ InPtraceStop(t)
           /\ k' = Restart(t, "step")
           /\ th' = [th EXCEPT ![t].stepping = TRUE, ![t].atBp = FALSE]
           /\ owed' = GiveBack(t, Top.sig)
           /\ Become([Top EXCEPT !.at = "stepWait", !.sig = FALSE])
           /\ UNCHANGED <<armed, ret>>
        \/ /\ ret # "lost" /\ ~CurSuspended /\ ~InPtraceStop(t)
           /\ ret' = "consumed"
           /\ armed' = Rearmed(Top.addr)
           /\ Return
           /\ UNCHANGED <<k, th, owed>>
  /\ UNCHANGED <<procStop, signalsLeft, recs, cur, curSig, rearms, allStopped>>
  /\ UNCHANGED <<userVars, hits>>

StepTaken ==
  /\ At("stepWait")
  /\ k[Top.tid].status # "none"
  /\ armed' = Rearmed(Top.addr)
  /\ LET t == Top.tid
         ths == ClearSingleStep(th, t)
     IN IF k[t].status \in {"step", "int3", "clone", "exit"}
        THEN /\ k' = [k EXCEPT ![t].status = "none"]
             /\ th' = Announced(ths, t)
             /\ ret' = "stepped"
             /\ Return
             /\ UNCHANGED <<cur, curSig, owed>>
        ELSE /\ HandleSignal(t, ths, <<Frame("stepTaken", t)>> \o Tail(stack))
             /\ UNCHANGED ret
  /\ UNCHANGED <<procStop, signalsLeft, recs, rearms, allStopped, userVars, hits>>

StepConsumed ==
  /\ At("stepTaken")
  /\ ret' = "consumed"
  /\ Return
  /\ UNCHANGED <<th, cur, curSig, rearms, allStopped>>
  /\ UNCHANGED <<kernelVars, bpVars, userVars, historyVars>>

-----------------------------------------------------------------------------
\* resumeAllThreads(except): first every thread steps off its own breakpoint,
\* then all of them go, then those that were suspended meanwhile are retried.
ResumeAll(except, below) ==
  LET stopped == {t \in Tid \ ({except} \cup ResumeExcept) : Continuable(t)}
  IN /\ allStopped' = FALSE
     /\ stack' = <<[Frame("stepOff", except)
                     EXCEPT !.todo = stopped, !.rest = stopped]>> \o below

AbandonAllStop(t) ==
  IF allStopped /\ ~AnyRunning THEN ResumeAll(t, Tail(stack))
  ELSE Return /\ UNCHANGED allStopped

StepOff ==
  /\ At("stepOff")
  /\ \/ /\ Top.todo = {}
        /\ Become([Top EXCEPT !.at = "continueRest", !.todo = Top.rest])
        /\ UNCHANGED <<th, cur, curSig>>
     \/ \E t \in Top.todo :
          LET after == [Top EXCEPT !.todo = @ \ {t}]
          IN IF Continuable(t) /\ OnBreakpoint(t)
             THEN StepOffAs(t, [after EXCEPT !.at = "steppedOff", !.who = t])
             ELSE Become(after) /\ UNCHANGED <<th, cur, curSig>>
  /\ UNCHANGED <<rearms, allStopped, ret>>
  /\ UNCHANGED <<kernelVars, bpVars, userVars, historyVars>>

AfterStepOff ==
  /\ At("steppedOff")
  /\ SteppedOff
  /\ LET left == IF ret = "parked" THEN {Top.who} ELSE {}
     IN Become([Frame("stepOff", Top.tid) EXCEPT !.todo = Top.todo, !.rest = Top.rest \ left,
                                                 !.parked = Top.parked \cup left])
  /\ UNCHANGED <<th, rearms, allStopped, ret>>
  /\ UNCHANGED <<kernelVars, bpVars, userVars, historyVars>>

ContinueRest ==
  /\ At("continueRest")
  /\ \/ /\ Top.todo = {}
        /\ Become([Top EXCEPT !.at = "continueParked", !.todo = Top.parked])
        /\ UNCHANGED <<k, th, owed>>
     \/ \E t \in Top.todo :
          /\ ContinueThread(t)
          /\ Become([Top EXCEPT !.todo = @ \ {t}])
  /\ UNCHANGED <<cur, curSig, rearms, allStopped, ret>>
  /\ UNCHANGED <<procStop, signalsLeft, bpVars, userVars, hits>>

ContinueParked ==
  /\ At("continueParked")
  /\ IF Top.todo = {} THEN Return
     ELSE \E t \in Top.todo : Call(Frame("resume", t), [Top EXCEPT !.todo = @ \ {t}])
  /\ UNCHANGED <<th, cur, curSig, rearms, allStopped, ret>>
  /\ UNCHANGED <<kernelVars, bpVars, userVars, historyVars>>

\* continueOrPark, and the pause its callers enter when nothing is left running.
Proceed ==
  /\ At("continueOrPark")
  /\ LET t == Top.tid
         parked == cur # NoTid /\ (Top.park \/ CurSuspended)
     IN \/ /\ parked
           /\ th' = Keep(th, cur, Top.sig, "reported")
           /\ PauseIfAlone(t)
           /\ pauseReq' = (pauseReq /\ AnyRunning)
           /\ UNCHANGED <<k, owed>>
        \/ /\ ~parked
           /\ IF InPtraceStop(t)
              THEN /\ k' = Restart(t, "run")
                   /\ th' = Running(th, cur)
                   /\ owed' = GiveBack(t, Top.sig)
              ELSE UNCHANGED <<k, th, owed>>
           /\ Return
           /\ UNCHANGED <<paused, allStopped, pauseReq>>
  /\ UNCHANGED <<procStop, signalsLeft, bpVars, cur, curSig, rearms, ret>>
  /\ UNCHANGED <<stepReq, pendSuspend, pendResume, kick, hits>>

-----------------------------------------------------------------------------
\* pauseAndResume.  On waking, the signal of the thread that was reported stays
\* with it when the user switched to another one, and that one's is taken up.
Wake ==
  /\ At("wait") /\ ~paused
  /\ LET t == IF cur = NoTid THEN Top.tid ELSE cur
         away == t # Top.tid
         ths == Keep(th, Top.tid, away /\ curSig, "reported")
         carried == ~away /\ curSig
         take == ~carried /\ cur # NoTid /\ ths[t].psig = "reported"
     IN /\ th' = IF take THEN [ths EXCEPT ![t].psig = "none"] ELSE ths
        /\ curSig' = (carried \/ take)
        /\ Become(Frame("pend", t))
  /\ UNCHANGED <<cur, rearms, allStopped, ret>>
  /\ UNCHANGED <<kernelVars, bpVars, userVars, historyVars>>

\* Hits and signals the sweep absorbed are reported before anything runs,
\* unless the user asked for a step.
PendingHitOfCurrent(t) == t = cur /\ th[t].known /\ ~Suspended(t) /\ th[t].pbp # NoAddr
PendingHit(t) == th[t].known /\ ~Suspended(t) /\ th[t].pbp # NoAddr
PendingSignal(t) == th[t].known /\ ~Suspended(t) /\ th[t].psig = "unreported"

ReportPendingHit(t) ==
  /\ At("pend") /\ ~stepReq
  /\ PendingHit(t)
  /\ LET ths == [th EXCEPT ![t].pbp = NoAddr]
     IN IF th[t].pbp \in recs
        THEN /\ th' = Keep(ths, Top.tid, curSig, "reported")
             /\ curSig' = FALSE
             /\ cur' = t
             /\ BeginPause(t)
             /\ hits' = hits \ {t}
        ELSE /\ th' = ths
             /\ UNCHANGED <<curSig, cur, paused, allStopped, stack, hits>>
  /\ UNCHANGED <<rearms, ret, stepReq, pauseReq, pendSuspend, pendResume, kick>>
  /\ UNCHANGED <<kernelVars, bpVars, owed>>

ReportPendingSignal(t) ==
  /\ At("pend") /\ ~stepReq
  /\ PendingSignal(t) /\ \A u \in Tid : ~PendingHit(u)
  /\ th' = Keep([th EXCEPT ![t].psig = "none"], Top.tid, curSig, "reported")
  /\ curSig' = TRUE
  /\ cur' = t
  /\ BeginPause(t)
  /\ UNCHANGED <<rearms, ret, stepReq, pauseReq, pendSuspend, pendResume, kick>>
  /\ UNCHANGED <<kernelVars, bpVars, historyVars>>

NothingPending ==
  /\ At("pend")
  /\ stepReq \/ \A t \in Tid : ~PendingHit(t) /\ ~PendingSignal(t)
  /\ Become(Frame("decide", Top.tid))
  /\ UNCHANGED <<th, cur, curSig, rearms, allStopped, ret>>
  /\ UNCHANGED <<kernelVars, bpVars, userVars, historyVars>>

\* Step or continue, and in both cases get off the byte under the thread.  A
\* step and a rep lift it; a plain continue steps past it first.
Lift(t) ==
  /\ armed' = armed \ {k[t].at}
  /\ rearms' = IF k[t].at \in armed THEN [rearms EXCEPT ![t] = k[t].at] ELSE rearms

DecideStep ==
  /\ At("decide") /\ stepReq /\ cur # NoTid
  /\ stepReq' = FALSE
  /\ \/ /\ CurSuspended
        /\ BeginPause(Top.tid)
        /\ UNCHANGED <<armed, rearms>>
     \/ /\ ~CurSuspended
        /\ IF k[cur].at \in recs /\ ~k[cur].past THEN Lift(cur)
           ELSE UNCHANGED <<armed, rearms>>
        /\ Call(Frame("swallow", Top.tid), Frame("stepNow", Top.tid))
        /\ UNCHANGED <<paused, allStopped>>
  /\ UNCHANGED <<recs, th, cur, curSig, ret, pauseReq, pendSuspend, pendResume, kick>>
  /\ UNCHANGED <<kernelVars, historyVars>>

DecideContinue ==
  /\ At("decide") /\ (~stepReq \/ cur = NoTid)
  /\ LET t == Top.tid
         onArmedByte == cur # NoTid /\ ~Suspended(cur) /\ OnBreakpoint(cur)
     IN \/ /\ onArmedByte /\ k[cur].at \notin Rep
           /\ Call(Frame("stepPast", t), Frame("stepped", t))
           /\ UNCHANGED <<armed, rearms>>
        \/ /\ onArmedByte /\ k[cur].at \in Rep
           /\ Lift(cur)
           /\ Become(ResumeFrom(t, FALSE))
        \/ /\ ~onArmedByte
           /\ Become(ResumeFrom(t, FALSE))
           /\ UNCHANGED <<armed, rearms>>
  /\ UNCHANGED <<recs, th, cur, curSig, allStopped, ret>>
  /\ UNCHANGED <<kernelVars, userVars, historyVars>>

SteppedPast ==
  /\ At("stepped")
  /\ IF ret = "consumed" THEN AbandonAllStop(Top.tid)
     ELSE /\ Become(ResumeFrom(Top.tid, ret = "parked"))
          /\ UNCHANGED allStopped
  /\ UNCHANGED <<th, cur, curSig, rearms, ret>>
  /\ UNCHANGED <<kernelVars, bpVars, userVars, historyVars>>

StepNow ==
  /\ At("stepNow")
  /\ LET t == Top.tid
     IN \/ /\ ret = "lost"
           /\ RestoreSourceByte(t)
           /\ AbandonAllStop(t)
           /\ UNCHANGED <<k, th, curSig, paused, owed, hits>>
        \/ /\ ret # "lost" /\ CurSuspended
           /\ RestoreSourceByte(t)
           /\ BeginPause(t)
           /\ UNCHANGED <<k, th, curSig, owed, hits>>
        \/ /\ ret # "lost" /\ ~CurSuspended /\ InPtraceStop(t)
           /\ k' = Restart(t, "step")
           /\ th' = Running([th EXCEPT ![t].stepping = TRUE, ![t].pbp = NoAddr], t)
           /\ hits' = hits \ {t}
           /\ owed' = GiveBack(t, curSig)
           /\ curSig' = FALSE
           /\ Return
           /\ UNCHANGED <<armed, rearms, allStopped, paused>>
        \/ /\ ret # "lost" /\ ~CurSuspended /\ ~InPtraceStop(t)
           /\ th' = [th EXCEPT ![t].pbp = NoAddr]
           /\ curSig' = FALSE
           /\ RestoreSourceByte(t)
           /\ AbandonAllStop(t)
           /\ UNCHANGED <<k, paused, owed, hits>>
  /\ UNCHANGED <<procStop, signalsLeft, recs, cur, ret>>
  /\ UNCHANGED <<stepReq, pauseReq, pendSuspend, pendResume, kick>>

ContinueAll ==
  /\ At("cont")
  /\ LET t == Top.tid
     IN \/ /\ \A u \in Tid : th[u].known => Suspended(u)
           /\ BeginPause(t)
           /\ UNCHANGED curSig
        \/ /\ \E u \in Tid : th[u].known /\ ~Suspended(u)
           /\ ResumeAll(t, <<ContinueOrPark(t, curSig, Top.park)>> \o Tail(stack))
           /\ curSig' = FALSE
           /\ UNCHANGED paused
  /\ UNCHANGED <<th, cur, rearms, ret>>
  /\ UNCHANGED <<stepReq, pauseReq, pendSuspend, pendResume, kick>>
  /\ UNCHANGED <<kernelVars, bpVars, historyVars>>

-----------------------------------------------------------------------------
\* After an attach every thread is stopped: by our SIGSTOP, or by a signal of
\* its own with our SIGSTOP still queued.
Attached(own) == [run |-> "stopped", status |-> "none", stopq |-> own, sigq |-> 0,
                  at |-> NoAddr, past |-> FALSE, due |-> FALSE,
                  dying |-> FALSE, child |-> NoTid]
Unborn == [Attached(FALSE) EXCEPT !.run = "unborn"]
ThreadRecord(own) ==
  [NewThread EXCEPT !.pss = own, !.psig = IF own THEN "unreported" ELSE "none"]
Init ==
  \E own \in SUBSET (Tid \ Births) :
    /\ Cardinality(own) <= MaxSignals
    /\ k = [t \in Tid |-> IF t \in Births THEN Unborn ELSE Attached(t \in own)]
    /\ th = [t \in Tid |-> IF t \in Births THEN NoThread ELSE ThreadRecord(t \in own)]
    /\ owed = [t \in Tid |-> IF t \in own THEN 1 ELSE 0]
    /\ signalsLeft = MaxSignals - Cardinality(own)
    /\ procStop = FALSE
    /\ recs = {} /\ armed = {} /\ rearms = [t \in Tid |-> NoAddr]
    /\ cur = Leader /\ curSig = FALSE /\ allStopped = TRUE
    /\ stack = <<Frame("wait", Leader), Frame("loop", Leader)>>
    /\ ret = "drained"
    /\ paused = TRUE /\ stepReq = FALSE /\ pauseReq = FALSE
    /\ pendSuspend = {} /\ pendResume = {} /\ kick = FALSE
    /\ hits = {}

Kernel(t) == \/ Execute(t) \/ TakeSigstop(t) \/ TakeSignal(t)
             \/ Clone(t) \/ Exit(t) \/ Die(t)
User ==
  \/ Continue \/ StepInto \/ Pause \/ InterruptRunningThread
  \/ \E t \in Tid : SwitchThread(t) \/ Suspend(t) \/ Resume(t)
  \/ \E a \in Addr : SetBreakpoint(a) \/ DeleteBreakpoint(a)
Loop ==
  \/ \E t \in Tid : WaitAny(t) \/ Reap(t)
  \/ StopForSuspend \/ StopForResumes \/ StopForPause
  \/ HandleSigtrap \/ ReportSignal \/ HandleClone \/ HandleExit
Sweep == \/ \E t \in Tid : SweepAsk(t)
         \/ SweepTake \/ SweepClone \/ SweepExit \/ SweepReap \/ SweepGone
         \/ SweepTimeout \/ SweepDone
StepOver == Swallow \/ SwallowTake \/ SwallowLost
              \/ StepPast \/ StepOffTheByte \/ StepTaken \/ StepConsumed
ResumeThreads ==
  \/ StepOff \/ AfterStepOff \/ ContinueRest \/ ContinueParked \/ Proceed
  \/ TakePendingResumes \/ DrainPendingResumes
  \/ ResumeStoppedThread \/ ResumeSteppedOff \/ ResumeNow
PauseAndResume ==
  \/ Wake \/ NothingPending \/ DecideStep \/ DecideContinue \/ SteppedPast
  \/ StepNow \/ ContinueAll
  \/ \E t \in Tid : ReportPendingHit(t) \/ ReportPendingSignal(t)
Tracer == Loop \/ Sweep \/ StepOver \/ ResumeThreads \/ PauseAndResume

Next == Tracer \/ User \/ \E t \in Tid : Kernel(t) \/ SendSignal(t)

\* The tracer thread is scheduled, a queued SIGSTOP or signal is delivered, a
\* running thread executes, and Pause() goes on to send its SIGSTOP.  Nothing is
\* assumed of the user.
Fairness ==
  /\ WF_vars(Tracer)
  /\ WF_vars(InterruptRunningThread)
  /\ \A t \in Tid : /\ WF_vars(Execute(t)) /\ WF_vars(TakeSigstop(t))
                     /\ WF_vars(TakeSignal(t)) /\ WF_vars(Die(t))
Spec == Init /\ [][Next]_vars
FairSpec == Spec /\ Fairness

-----------------------------------------------------------------------------
Points ==
  {"loop", "clone", "exit", "stop", "stopForResumes", "stopForPause", "trap", "sig", "sweep",
   "sweepWait", "takeResumes", "drain", "resume", "resumed", "resumeNow",
   "swallow", "swallowWait", "stepPast", "lifted", "stepWait", "stepTaken",
   "stepOff", "steppedOff", "continueRest", "continueParked", "continueOrPark",
   "wait", "pend", "decide", "stepped", "stepNow", "cont"}

\* The records are well formed, a stop that is not taken is one of a stopped thread, a
\* byte is in memory only for a record, and the stack is one loop below activations.
KernelThread ==
  [run : {"unborn", "run", "step", "stopped", "dead"},
   status : {"none", "int3", "step", "stop", "sig", "clone", "exit", "exited"},
   stopq : BOOLEAN, sigq : 0 .. MaxSignals, at : Addr \cup {NoAddr}, past : BOOLEAN,
   due : BOOLEAN, dying : BOOLEAN, child : Births \cup {NoTid}]
ThreadRecords ==
  [known : BOOLEAN, running : BOOLEAN, susp : 0 .. MaxSuspend, pss : BOOLEAN,
   pbp : Addr \cup {NoAddr}, psig : {"none", "reported", "unreported"},
   atBp : BOOLEAN, stepping : BOOLEAN]
Reasons == {"none", "int3", "step", "stop", "sig", "clone", "exit", "exited",
            "breakpoint", "exception", "paused", "resume"}
Activations ==
  [at : Points, tid : Tid, sig : BOOLEAN, park : BOOLEAN, why : Reasons,
   ran : BOOLEAN, susp : BOOLEAN, resumed : BOOLEAN, who : Tid \cup {NoTid},
   prev : Tid \cup {NoTid}, todo : SUBSET Tid, rest : SUBSET Tid, parked : SUBSET Tid,
   addr : Addr \cup {NoAddr}]
TypeOK ==
  /\ k \in [Tid -> KernelThread]
  /\ \A t \in Tid : k[t].status # "none" => ~Runs(t)
  /\ procStop \in BOOLEAN /\ signalsLeft \in 0 .. MaxSignals
  /\ armed \subseteq recs /\ recs \subseteq Addr
  /\ th \in [Tid -> ThreadRecords]
  /\ cur \in Tid \cup {NoTid}
  /\ curSig \in BOOLEAN /\ allStopped \in BOOLEAN
  /\ rearms \in [Tid -> Addr \cup {NoAddr}]
  /\ stack \in Seq(Activations) /\ stack # <<>>
  /\ \A i \in DOMAIN stack : stack[i].at = "loop" <=> i = Len(stack)
  /\ ret \in {"drained", "lost", "stepped", "parked", "consumed"}
  /\ paused \in BOOLEAN /\ stepReq \in BOOLEAN /\ pauseReq \in BOOLEAN
  /\ pendSuspend \subseteq Tid /\ pendResume \subseteq Tid
  /\ kick \in BOOLEAN /\ hits \subseteq Tid /\ owed \in [Tid -> Int]

Pausing == At("wait") /\ paused

\* While the user looks at a pause, no thread of the debuggee runs and none has a
\* stop the tracer has not taken (stopAllThreads, "all-stop").
AllStop ==
  Pausing => \A t \in Tid : Living(t) => th[t].known /\ InPtraceStop(t)

\* A thread is booked as owing a SIGSTOP only while one is on its way to it, queued or
\* stopped for and not yet taken: draining one that is not there would let the thread run.
SigstopOwed ==
  \A t \in Tid : Living(t) /\ th[t].pss => k[t].stopq \/ k[t].status = "stop"

\* A breakpoint's byte is out of memory only while the one thread executes that it
\* was lifted for, so nobody else can run past the breakpoint: no thread that was
\* left running, and none that the lifting thread creates.
Lifter(t, a) ==
  rearms[t] = a \/ \E i \in DOMAIN stack :
                     stack[i].at \in {"lifted", "stepWait"} /\ stack[i].tid = t
LiftedAlone ==
  \A a \in recs \ armed : \A t \in Tid :
    Executes(t) => Lifter(t, a)

\* A thread whose stop is reported has put back the byte that was lifted for it, in
\* whichever branch handled the stop; a byte that is out of memory at a pause is noted
\* for a thread still to stop for itself, so that it can come back.
LiftedIsNoted ==
  /\ Pausing => \A a \in recs \ armed : \E t \in Tid : rearms[t] = a
  /\ At("sweep") /\ ~Silent(Top.why) => rearms[Top.tid] = NoAddr

\* At a pause every breakpoint is in memory. (It holds without rep instructions: a
\* thread on a rep that is swept for another one's pause keeps its byte lifted.)
ArmedAtPause == Pausing => armed = recs

\* No thread is set going from behind the int3 it hit, inside the instruction.
NeverRunsPast == \A t \in Tid : Runs(t) => ~k[t].past

\* A hit that was not reported is still known: as the stop the kernel holds, as
\* the stop being handled, or on the thread.
HitsAccounted ==
  \A t \in hits : \/ k[t].status = "int3" \/ th[t].pbp # NoAddr
                  \/ Top.tid = t /\ At("trap")
                  \/ /\ Top.tid = t /\ Top.at \in {"sweep", "sweepWait"}
                     /\ Top.why = "breakpoint"

\* A hit the sweep found is reported before the thread leaves the breakpoint.
PendingHitInPlace ==
  \A t \in Tid : th[t].pbp # NoAddr => k[t].at = th[t].pbp /\ ~k[t].past

\* A signal taken from a thread is kept for it exactly once until it is given
\* back: on the thread, as the reported signal, or by a resume under way.
HeldBack(t) == {i \in DOMAIN stack : stack[i].sig /\ stack[i].tid = t}
SignalsConserved ==
  Pausing => \A t \in Tid :
    owed[t] = (IF th[t].psig # "none" THEN 1 ELSE 0)
              + (IF curSig /\ Top.tid = t THEN 1 ELSE 0)
              + Cardinality(HeldBack(t))

\* The step the user asked for stays owed: a thread that is single-stepping is
\* not continued instead.
StepStaysAStep == \A t \in Tid : th[t].stepping => k[t].run # "run"

\* The tracer never waits for a debuggee in which nothing can happen.
NoSilentHang ==
  At("loop") => \E t \in Tid : Runs(t) \/ k[t].status # "none"

\* A suspended thread in ptrace-stop is not restarted, except into a stop that
\* is already queued on it.
FrozenStays ==
  [][\A t \in Tid : (Suspended(t) /\ InPtraceStop(t))
       => k'[t].run = "stopped" \/ k'[t].due]_vars

\* Pause() ends in a pause, unless a thread exits meanwhile: the one SIGSTOP that
\* is sent may be for that thread.  A step ends in a pause, or its thread exits.
Exiting == \E t \in Tid : k[t].dying
PauseAnswered == (pauseReq /\ kick /\ ~Exiting) ~> (paused \/ Exiting)
StepAnswered ==
  \A t \in Tid : th[t].stepping ~> (paused \/ ~Living(t))

\* Resuming a thread while the debuggee runs sets it going, unless it is
\* suspended again or everything is paused. (It does not hold: a resume that
\* comes before the first thread runs again finds nothing to interrupt.)
ResumeAnswered ==
  \A t \in Tid : (t \in pendResume /\ ~Suspended(t))
     ~> (k[t].run # "stopped" \/ Suspended(t) \/ paused)
=============================================================================
