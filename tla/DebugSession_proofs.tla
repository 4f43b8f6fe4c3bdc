------------------------- MODULE DebugSession_proofs -------------------------
(* The session of the debugger for any script, any messages and any number of *)
(* events and sessions: there is one debug loop at a time, an empty command   *)
(* is never executed, and a script waits for the pause of its session.        *)
EXTENDS DebugSession, SequenceTheorems, TLAPS

\* The places of all clients.
Place == Executing \union {"check", "count", "dequeue", "provide", "next", "scriptQueue",
                           "scriptWait", "ended", "idle", "poll", "user", "destroy", "notify",
                           "join", "abort", "aborting", "deinit", "gone"}
Runner == {"cmd", "script"}

\* A client that executes a command has it before it, and a script never waits
\* for a script.
CommandsLeft ==
  /\ pc \in [Client -> Place]
  /\ \A c \in Runner : pc[c] \in Executing => todo[c] # <<>>
  /\ pc["cmd"] \in {"scriptQueue", "scriptWait"} => todo["cmd"] # <<>>
  /\ todo["script"] \in Seq(Command \ {"script"})

\* The command thread is counted as a waiter while it waits; the messages of
\* MsgFreeQueue, and the way past the queue, come after the order to end.
ToldToEnd ==
  /\ waiting = (IF pc["cmd"] = "dequeue" THEN 1 ELSE 0)
  /\ pc["gui"] = "destroy" \/ destroy => stopLoop
  /\ pc["gui"] = "notify" => destroy
  /\ (\E i \in 1..Len(queue) : queue[i] = Wake) => destroy
  /\ pc["cmd"] = "provide" /\ msg \in {NoMessage, Wake} => destroy

\* LockDebugStartStop is held from the first look at the session to the end of
\* the command.
UnderLock == {"stop", "stopWait", "detachWait", "create", "startWait"}
LockHeld == \A c \in Client : pc[c] \in UnderLock <=> owner = c

\* A debug loop is in hDebugLoopThread or waited for by the one who stops it,
\* and nobody creates one beside it.
LoopAccounted ==
  /\ Alive /\ ~handle => \E c \in Client : pc[c] = "stopWait"
  /\ \A c \in Client : pc[c] = "create" => ~Alive

\* WAITID_RUN is locked by a paused session only, unless one was terminated.
LockedByPause == ~running => killed \/ (paused /\ thread \in {"locked", "waiting"})

IInv == TypeOK /\ CommandsLeft /\ ToldToEnd /\ LockHeld /\ LoopAccounted /\ LockedByPause

-----------------------------------------------------------------------------
(* What a step does to the place and the commands of its client            *)

\* The place of a client after its command.
After(c) == IF c = "cmd" THEN "next" ELSE IF c = "script" THEN "poll" ELSE "abort"

\* A step of client c that executes a command: its place changes alone, and its
\* commands only when the command is over.
ClientStep(c) ==
  /\ pc' = [pc EXCEPT ![c] = pc'[c]]
  /\ \/ pc'[c] \in Executing /\ UNCHANGED todo
     \/ /\ pc'[c] = After(c)
        /\ IF c = "gui" THEN UNCHANGED todo
           ELSE todo' \in {[todo EXCEPT ![c] = Tail(todo[c])], [todo EXCEPT ![c] = <<>>]}

\* A place changes where Go says.
LEMMA GoMoves ==
  ASSUME CommandsLeft, NEW c \in Client, NEW p \in Place, Go(c, p)
  PROVE  /\ pc'[c] = p
         /\ pc' = [pc EXCEPT ![c] = pc'[c]]
BY DEF CommandsLeft, Go

\* Where Finish sends a client.
LEMMA FinishMoves ==
  ASSUME CommandsLeft, NEW c \in Client, NEW ok, Finish(c, ok)
  PROVE  ClientStep(c) /\ pc'[c] = After(c)
<1>1. After(c) \in Place
  BY DEF Place, After
<1>2. Go(c, After(c))
  BY DEF Finish, After, Client
<1>3. pc'[c] = After(c) /\ pc' = [pc EXCEPT ![c] = pc'[c]]
  BY <1>1, <1>2, GoMoves
<1> QED
  BY <1>3 DEF Finish, ClientStep

\* A client in the middle of a command goes to another place in it.
LEMMA GoExecutes ==
  ASSUME CommandsLeft, NEW c \in Client, NEW p \in Executing, Go(c, p), UNCHANGED todo
  PROVE  ClientStep(c) /\ pc'[c] = p
<1>1. p \in Place
  BY DEF Place
<1> QED
  BY <1>1, GoMoves DEF ClientStep

\* Where a client goes on when cbDebugStop returns: with its command, or past it.
LEMMA StoppedMoves ==
  ASSUME CommandsLeft, NEW c \in Client, NEW ok, Stopped(c, ok)
  PROVE  /\ ClientStep(c)
         /\ \/ owner' = NoClient /\ pc'[c] = After(c)
            \/ owner' = owner /\ pc'[c] = "create"
<1>1. CASE job[c] = "stop"
  BY <1>1, FinishMoves DEF Stopped
<1>2. CASE job[c] = "missing"
  BY <1>2, FinishMoves DEF Stopped
<1>3. CASE job[c] \notin {"stop", "missing"}
  <2>1. Go(c, "create") /\ UNCHANGED <<owner, todo>>
    BY <1>3 DEF Stopped
  <2> QED
    BY <2>1, GoExecutes DEF Executing
<1> QED
  BY <1>1, <1>2, <1>3

\* Every action of Execute, and the termination of the debug loop, is a step of
\* one client in the middle of a command.
LEMMA ExecuteMoves ==
  ASSUME CommandsLeft, NEW c \in Client, Execute(c) \/ StopKill(c)
  PROVE  /\ pc[c] \in Executing
         /\ ClientStep(c) \/ UNCHANGED <<pc, todo>>
         /\ UNCHANGED <<queueVars, job, abort, messages, scripts, sending>>
<1> USE DEF Executing
<1>1. CASE RunTest(c)
  BY <1>1, FinishMoves, GoExecutes DEF RunTest, sessionVars, countVars
<1>2. CASE RunUnlock(c)
  BY <1>2, FinishMoves DEF RunUnlock, countVars
<1>3. CASE Acquire(c)
  <2>1. \E p \in {"detachWait", "create", "stop"} : Go(c, p) /\ UNCHANGED todo
    BY <1>3 DEF Acquire
  <2> QED
    BY <1>3, <2>1, GoExecutes DEF Acquire, countVars
<1>4. CASE Detached(c)
  BY <1>4, GoExecutes DEF Detached, countVars
<1>5. CASE StopTest(c)
  BY <1>5, GoExecutes, StoppedMoves DEF StopTest, countVars
<1>6. CASE StopWaited(c)
  BY <1>6, StoppedMoves DEF StopWaited, countVars
<1>7. CASE StopUnlock(c)
  BY <1>7 DEF StopUnlock, countVars, clientVars
<1>8. CASE Create(c)
  BY <1>8, GoExecutes DEF Create
<1>9. CASE Refused(c)
  BY <1>9, FinishMoves DEF Refused, countVars
<1>10. CASE Created(c)
  BY <1>10, FinishMoves DEF Created, countVars
<1>11. CASE StopKill(c)
  BY <1>11, StoppedMoves DEF StopKill, countVars
<1> QED
  BY <1>1, <1>2, <1>3, <1>4, <1>5, <1>6, <1>7, <1>8, <1>9, <1>10, <1>11 DEF Execute

\* A client that begins a command reaches it, or drops it.
LEMMA BeginMoves ==
  ASSUME CommandsLeft, NEW c \in Runner, NEW command \in Command, Begin(c, command)
  PROVE  /\ \/ ClientStep(c)
            \/ /\ command = "script"
               /\ pc' = [pc EXCEPT ![c] = "scriptQueue"] /\ UNCHANGED todo
         /\ pc'[c] \notin UnderLock
         /\ job' = [job EXCEPT ![c] = command]
         /\ UNCHANGED <<queueVars, owner, abort, sessionVars, countVars, historyVars>>
<1>1. c \in Client
  BY DEF Runner, Client
<1>2. CASE command \in {"run", "stop"} /\ ~debugging
  <2>1. Finish(c, FALSE)
    BY <1>2 DEF Begin
  <2> QED
    BY <1>1, <2>1, FinishMoves DEF Begin, After, UnderLock
<1>3. CASE command = "run" /\ debugging
  <2>1. Go(c, "run") /\ UNCHANGED todo
    BY <1>3 DEF Begin
  <2> QED
    BY <1>1, <2>1, GoExecutes DEF Begin, Executing, UnderLock
<1>4. CASE command = "script"
  <2>1. Go(c, "scriptQueue") /\ UNCHANGED todo
    BY <1>4 DEF Begin
  <2> QED
    BY <1>1, <1>4, <2>1 DEF Begin, Go, UnderLock, CommandsLeft
<1>5. CASE ~(command \in {"run", "stop"} /\ ~debugging) /\ command \notin {"run", "script"}
  <2>1. Go(c, "lock") /\ UNCHANGED todo
    BY <1>5 DEF Begin
  <2> QED
    BY <1>1, <2>1, GoExecutes DEF Begin, Executing, UnderLock
<1> QED
  BY <1>2, <1>3, <1>4, <1>5

\* Commands are taken from the front: what is left of a script is a script.
LEMMA CommandsTail ==
  ASSUME NEW S, NEW s \in Seq(S), s # <<>>
  PROVE  Tail(s) \in Seq(S) /\ Head(s) \in S /\ <<>> \in Seq(S)
BY HeadTailProperties, EmptySeq

\* A step of a client that has a command before it keeps the commands in shape.
LEMMA ClientStepKeeps ==
  ASSUME TypeOK, CommandsLeft, NEW c \in Client, ClientStep(c),
         c \in Runner => todo[c] # <<>>
  PROVE  /\ CommandsLeft'
         /\ todo' \in [Runner -> Seq(Command)]
         /\ \A d \in Client \ {c} : pc'[d] = pc[d]
         /\ pc'[c] \in Executing \union {After(c)}
<1>1. pc'[c] \in Executing \union {After(c)} /\ After(c) \in Place /\ After(c) \notin Executing
  BY DEF ClientStep, After, Place, Executing
<1>2. pc' \in [Client -> Place] /\ \A d \in Client \ {c} : pc'[d] = pc[d]
  BY <1>1 DEF ClientStep, CommandsLeft, Place
<1>3. todo \in [Runner -> Seq(Command)] /\ todo["script"] \in Seq(Command \ {"script"})
  BY DEF TypeOK, CommandsLeft, Runner
<1>4. CASE UNCHANGED todo
  BY <1>1, <1>2, <1>3, <1>4 DEF CommandsLeft, ClientStep, After, Runner, Client, Executing
<1>5. CASE /\ pc'[c] = After(c) /\ c \in Runner
           /\ todo' \in {[todo EXCEPT ![c] = Tail(todo[c])], [todo EXCEPT ![c] = <<>>]}
  <2>1. todo[c] \in Seq(Command) /\ todo[c] # <<>>
    BY <1>3, <1>5
  <2>2. /\ Tail(todo[c]) \in Seq(Command) /\ <<>> \in Seq(Command)
        /\ <<>> \in Seq(Command \ {"script"})
        /\ c = "script" => Tail(todo[c]) \in Seq(Command \ {"script"})
    BY <1>3, <2>1, CommandsTail, EmptySeq
  <2>3. /\ todo' \in [Runner -> Seq(Command)]
        /\ todo'["script"] \in Seq(Command \ {"script"})
        /\ \A d \in Runner \ {c} : todo'[d] = todo[d]
    BY <1>3, <1>5, <2>2 DEF Runner
  <2> QED
    BY <1>1, <1>2, <1>5, <2>3 DEF CommandsLeft, After, Runner, Client, Executing
<1> QED
  BY <1>4, <1>5 DEF ClientStep, Runner, Client

\* The steps of the scripts' worker and of the command thread on a script.
LEMMA EndScriptKeeps ==
  ASSUME TypeOK, CommandsLeft, EndScript
  PROVE  /\ CommandsLeft'
         /\ todo' \in [Runner -> Seq(Command)]
         /\ pc'["script"] = "idle" /\ pc'["gui"] = pc["gui"]
         /\ pc'["cmd"] = (IF pc["cmd"] = "scriptWait" THEN "next" ELSE pc["cmd"])
<1>1. /\ pc' \in [Client -> Place]
      /\ pc'["script"] = "idle" /\ pc'["gui"] = pc["gui"]
      /\ pc'["cmd"] = (IF pc["cmd"] = "scriptWait" THEN "next" ELSE pc["cmd"])
  BY DEF EndScript, CommandsLeft, Place, Client
<1>2. todo \in [Runner -> Seq(Command)]
  BY DEF TypeOK, Runner
<1>3. /\ <<>> \in Seq(Command) /\ <<>> \in Seq(Command \ {"script"})
      /\ pc["cmd"] = "scriptWait" => Tail(todo["cmd"]) \in Seq(Command)
  BY <1>2, CommandsTail, EmptySeq DEF CommandsLeft, Runner
<1>4. /\ todo'["script"] = <<>>
      /\ todo' \in [Runner -> Seq(Command)]
      /\ pc["cmd"] # "scriptWait" => todo'["cmd"] = todo["cmd"]
  BY <1>2, <1>3 DEF EndScript, Runner
<1>5. \A c \in Runner : pc'[c] \in Executing => todo'[c] # <<>>
  <2>1. pc'["cmd"] \in Executing => todo'["cmd"] # <<>>
    <3>1. pc'["cmd"] \in Executing => pc'["cmd"] = pc["cmd"] /\ pc["cmd"] # "scriptWait"
      BY <1>1 DEF Executing
    <3> QED
      BY <1>4, <3>1 DEF CommandsLeft, Runner
  <2>2. pc'["script"] \notin Executing
    BY <1>1 DEF Executing
  <2> QED
    BY <2>1, <2>2 DEF Runner
<1>6. pc'["cmd"] \in {"scriptQueue", "scriptWait"} => todo'["cmd"] # <<>>
  <2>1. pc'["cmd"] \in {"scriptQueue", "scriptWait"} => pc["cmd"] = "scriptQueue" /\ pc["cmd"] # "scriptWait"
    BY <1>1
  <2> QED
    BY <1>4, <2>1 DEF CommandsLeft
<1> QED
  BY <1>1, <1>3, <1>4, <1>5, <1>6 DEF CommandsLeft


\* A step that only moves a client, not into the middle of a command.
LEMMA GoKeeps ==
  ASSUME CommandsLeft, NEW c \in Client, NEW p \in Place, Go(c, p), UNCHANGED todo,
         c = "gui" \/ p \notin Executing \union {"scriptQueue", "scriptWait"}
  PROVE  CommandsLeft' /\ pc'[c] = p /\ \A d \in Client \ {c} : pc'[d] = pc[d]
<1>1. pc'[c] = p /\ pc' \in [Client -> Place] /\ \A d \in Client \ {c} : pc'[d] = pc[d]
  BY GoMoves DEF CommandsLeft
<1> QED
  BY <1>1 DEF CommandsLeft, Client, Runner

CmdPlace == Executing \union {"check", "count", "dequeue", "provide", "next",
                              "scriptQueue", "scriptWait", "ended"}
ScriptPlace == Executing \union {"idle", "next", "poll"}
GuiPlace == Executing \union {"user", "destroy", "notify", "join", "abort",
                              "aborting", "deinit", "gone"}
PlacesOK == pc["cmd"] \in CmdPlace /\ pc["script"] \in ScriptPlace /\ pc["gui"] \in GuiPlace
CommandsOK == CommandsLeft /\ PlacesOK /\ todo \in [Runner -> Seq(Command)]

\* A message that is provided before the order to end has commands.
LEMMA ProvidedMessage ==
  ASSUME IInv, pc["cmd"] = "provide", ~stopLoop
  PROVE  msg \in Seq(Command) /\ msg # <<>>
BY MessagesAssumption DEF IInv, TypeOK, ToldToEnd, Wake

\* The command thread keeps the commands in shape.
LEMMA CommandThreadPlaces ==
  ASSUME IInv, CommandsOK, CommandThread
  PROVE  CommandsOK'
<1> USE DEF Client, Place, CmdPlace, ScriptPlace, GuiPlace
<1>0. TypeOK /\ CommandsLeft /\ PlacesOK /\ todo \in [Runner -> Seq(Command)]
  BY DEF IInv, CommandsOK
<1>1. CASE WaitCheck \/ WaitCount \/ WaitDequeue \/ MessageDone
  <2>1. /\ UNCHANGED todo
        /\ \E p \in {"provide", "count", "dequeue", "check"} : Go("cmd", p)
    BY <1>1 DEF WaitCheck, WaitCount, WaitDequeue, MessageDone
  <2>2. PICK p \in {"provide", "count", "dequeue", "check"} : Go("cmd", p)
    BY <2>1
  <2>3. CommandsLeft' /\ pc'["cmd"] = p /\ \A d \in Client \ {"cmd"} : pc'[d] = pc[d]
    BY <1>0, <2>1, <2>2, GoKeeps DEF Executing
  <2> QED
    BY <1>0, <2>1, <2>3 DEF CommandsOK, PlacesOK
<1>2. CASE Provide
  <2>1. CASE stopLoop
    <3>1. CommandsLeft' /\ pc'["cmd"] = "ended" /\ \A d \in Client \ {"cmd"} : pc'[d] = pc[d]
      BY <1>0, <1>2, <2>1, GoKeeps DEF Provide, Executing
    <3> QED
      BY <1>0, <1>2, <2>1, <3>1 DEF CommandsOK, PlacesOK, Provide
  <2>2. CASE ~stopLoop
    <3>1. msg \in Seq(Command)
      BY <1>2, <2>2, ProvidedMessage DEF Provide
    <3>2. Go("cmd", "next") /\ todo' = [todo EXCEPT !["cmd"] = msg]
      BY <1>2, <2>2 DEF Provide
    <3>3. /\ pc'["cmd"] = "next" /\ pc' \in [Client -> Place]
          /\ \A d \in Client \ {"cmd"} : pc'[d] = pc[d]
      BY <1>0, <3>2, GoMoves DEF CommandsLeft
    <3>4. todo' \in [Runner -> Seq(Command)] /\ todo'["script"] = todo["script"]
      BY <1>0, <3>1, <3>2 DEF Runner
    <3>5. CommandsLeft'
      BY <1>0, <3>3, <3>4 DEF CommandsLeft, Runner, Executing
    <3> QED
      BY <1>0, <3>3, <3>4, <3>5 DEF CommandsOK, PlacesOK
  <2> QED
    BY <2>1, <2>2
<1>3. CASE NextCommand
  <2>1. Head(todo["cmd"]) \in Command /\ todo["cmd"] # <<>>
    BY <1>0, <1>3, CommandsTail DEF NextCommand, Runner
  <2>2. Begin("cmd", Head(todo["cmd"]))
    BY <1>3 DEF NextCommand
  <2>3. CASE ClientStep("cmd")
    BY <1>0, <2>1, <2>3, ClientStepKeeps DEF CommandsOK, PlacesOK, After
  <2>4. CASE pc' = [pc EXCEPT !["cmd"] = "scriptQueue"] /\ UNCHANGED todo
    BY <1>0, <2>1, <2>4 DEF CommandsOK, PlacesOK, CommandsLeft, Runner, Executing
  <2> QED
    BY <1>0, <2>1, <2>2, <2>3, <2>4, BeginMoves DEF Runner
<1>4. CASE RunsScript
  <2>1. CASE Finish("cmd", FALSE)
    <3>1. ClientStep("cmd")
      BY <1>0, <2>1, FinishMoves
    <3>2. todo["cmd"] # <<>>
      BY <1>0, <1>4 DEF RunsScript, CommandsLeft
    <3> QED
      BY <1>0, <3>1, <3>2, ClientStepKeeps DEF CommandsOK, PlacesOK, After
  <2>2. CASE /\ pc' = [pc EXCEPT !["cmd"] = "scriptWait", !["script"] = "next"]
             /\ todo' = [todo EXCEPT !["script"] = Script]
    <3>1. Script \in Seq(Command) /\ Script \in Seq(Command \ {"script"})
      BY ScriptAssumption, SeqMonotonic, Command \ {"script"} \subseteq Command
    <3>2. /\ pc' \in [Client -> Place] /\ pc'["cmd"] = "scriptWait" /\ pc'["script"] = "next"
          /\ pc'["gui"] = pc["gui"]
      BY <1>0, <2>2 DEF CommandsLeft
    <3>3. /\ todo' \in [Runner -> Seq(Command)]
          /\ todo'["script"] = Script /\ todo'["cmd"] = todo["cmd"]
      BY <1>0, <2>2, <3>1 DEF Runner
    <3>4. todo["cmd"] # <<>>
      BY <1>0, <1>4 DEF RunsScript, CommandsLeft
    <3>5. CommandsLeft'
      BY <3>1, <3>2, <3>3, <3>4 DEF CommandsLeft, Runner, Executing
    <3> QED
      BY <1>0, <3>2, <3>3, <3>5 DEF CommandsOK, PlacesOK
  <2> QED
    BY <1>4, <2>1, <2>2 DEF RunsScript
<1>5. CASE Execute("cmd")
  <2>1. pc["cmd"] \in Executing /\ (ClientStep("cmd") \/ UNCHANGED <<pc, todo>>)
    BY <1>0, <1>5, ExecuteMoves
  <2>2. todo["cmd"] # <<>>
    BY <1>0, <2>1 DEF CommandsLeft, Runner
  <2>3. CASE ClientStep("cmd")
    BY <1>0, <2>2, <2>3, ClientStepKeeps DEF CommandsOK, PlacesOK, After
  <2>4. CASE UNCHANGED <<pc, todo>>
    BY <1>0, <2>4 DEF CommandsOK, PlacesOK, CommandsLeft
  <2> QED
    BY <2>1, <2>3, <2>4
<1> QED
  BY <1>1, <1>2, <1>3, <1>4, <1>5 DEF CommandThread


\* The worker of the scripts keeps the commands in shape.
LEMMA ScriptThreadPlaces ==
  ASSUME IInv, CommandsOK, ScriptThread
  PROVE  CommandsOK'
<1> USE DEF Client, Place, CmdPlace, ScriptPlace, GuiPlace
<1>0. TypeOK /\ CommandsLeft /\ PlacesOK /\ todo \in [Runner -> Seq(Command)]
  BY DEF IInv, CommandsOK
<1>1. CASE NextLine
  <2>1. todo["script"] \in Seq(Command \ {"script"}) /\ todo["script"] # <<>>
    BY <1>0, <1>1 DEF NextLine, CommandsLeft
  <2>2. Head(todo["script"]) \in Command \ {"script"}
    BY <2>1, CommandsTail
  <2>3. ClientStep("script")
    BY <1>0, <1>1, <2>2, BeginMoves DEF NextLine, Runner
  <2> QED
    BY <1>0, <2>1, <2>3, ClientStepKeeps DEF CommandsOK, PlacesOK, After
<1>2. CASE ScriptOver \/ PollAborted
  <2>1. EndScript
    BY <1>2 DEF ScriptOver, PollAborted
  <2> QED
    BY <1>0, <2>1, EndScriptKeeps DEF CommandsOK, PlacesOK
<1>3. CASE PollPaused
  <2>1. CommandsLeft' /\ pc'["script"] = "next" /\ \A d \in Client \ {"script"} : pc'[d] = pc[d]
    BY <1>0, <1>3, GoKeeps DEF PollPaused, Executing
  <2> QED
    BY <1>0, <1>3, <2>1 DEF CommandsOK, PlacesOK, PollPaused
<1>4. CASE Execute("script")
  <2>1. pc["script"] \in Executing /\ (ClientStep("script") \/ UNCHANGED <<pc, todo>>)
    BY <1>0, <1>4, ExecuteMoves
  <2>2. todo["script"] # <<>>
    BY <1>0, <2>1 DEF CommandsLeft, Runner
  <2>3. CASE ClientStep("script")
    BY <1>0, <2>2, <2>3, ClientStepKeeps DEF CommandsOK, PlacesOK, After
  <2>4. CASE UNCHANGED <<pc, todo>>
    BY <1>0, <2>4 DEF CommandsOK, PlacesOK, CommandsLeft
  <2> QED
    BY <2>1, <2>3, <2>4
<1> QED
  BY <1>1, <1>2, <1>3, <1>4 DEF ScriptThread

\* So do the thread that closes the debugger, the termination of a debug loop
\* and the users.
LEMMA ExitPlaces ==
  ASSUME IInv, CommandsOK, ExitStep \/ ExitStopLoop \/ StartScript \/ Kill
  PROVE  CommandsOK'
<1> USE DEF Client, Place, CmdPlace, ScriptPlace, GuiPlace
<1>0. TypeOK /\ CommandsLeft /\ PlacesOK /\ todo \in [Runner -> Seq(Command)]
  BY DEF IInv, CommandsOK
<1>1. ASSUME UNCHANGED <<pc, todo>>
      PROVE  CommandsOK'
  BY <1>0, <1>1 DEF CommandsOK, PlacesOK, CommandsLeft
<1>2. ASSUME UNCHANGED todo, NEW p \in GuiPlace, Go("gui", p)
      PROVE  CommandsOK'
  <2>1. CommandsLeft' /\ pc'["gui"] = p /\ \A d \in Client \ {"gui"} : pc'[d] = pc[d]
    BY <1>0, <1>2, GoKeeps DEF Executing
  <2> QED
    BY <1>0, <1>2, <2>1 DEF CommandsOK, PlacesOK
<1>3. CASE ExitStopLoop \/ ExitDestroy \/ ExitJoined \/ ExitAborted \/ ExitDeinit
  <2>1. UNCHANGED todo /\ \E p \in {"destroy", "notify", "lock", "deinit", "gone"} : Go("gui", p)
    BY <1>3 DEF ExitStopLoop, ExitDestroy, ExitJoined, ExitAborted, ExitDeinit
  <2> QED
    BY <1>2, <2>1 DEF Executing
<1>4. CASE ExitNotify
  BY <1>1, <1>2, <1>4 DEF ExitNotify
<1>5. CASE ExitAbort
  BY <1>2, <1>5 DEF ExitAbort
<1>6. ASSUME NEW c \in Client, Execute(c) \/ StopKill(c)
      PROVE  CommandsOK'
  <2>1. pc[c] \in Executing /\ (ClientStep(c) \/ UNCHANGED <<pc, todo>>)
    BY <1>0, <1>6, ExecuteMoves
  <2>2. c \in Runner => todo[c] # <<>>
    BY <1>0, <2>1 DEF CommandsLeft
  <2>3. CASE ClientStep(c)
    BY <1>0, <2>2, <2>3, ClientStepKeeps DEF CommandsOK, PlacesOK, After
  <2> QED
    BY <1>1, <2>1, <2>3
<1>7. CASE StartScript
  <2>1. Script \in Seq(Command) /\ Script \in Seq(Command \ {"script"})
    BY ScriptAssumption, SeqMonotonic, Command \ {"script"} \subseteq Command
  <2>2. Go("script", "next") /\ todo' = [todo EXCEPT !["script"] = Script]
    BY <1>7 DEF StartScript
  <2>3. /\ pc'["script"] = "next" /\ pc' \in [Client -> Place]
        /\ \A d \in Client \ {"script"} : pc'[d] = pc[d]
    BY <1>0, <2>2, GoMoves DEF CommandsLeft
  <2>4. todo' \in [Runner -> Seq(Command)] /\ todo'["script"] = Script /\ todo'["cmd"] = todo["cmd"]
    BY <1>0, <2>1, <2>2 DEF Runner
  <2>5. CommandsLeft'
    BY <1>0, <2>1, <2>3, <2>4 DEF CommandsLeft, Runner, Executing
  <2> QED
    BY <1>0, <2>3, <2>4, <2>5 DEF CommandsOK, PlacesOK
<1> QED
  BY <1>3, <1>4, <1>5, <1>6, <1>7 DEF ExitStep, Kill

\* The debug loop and those who send messages leave the clients alone.
LEMMA OthersPlaces ==
  ASSUME DebugLoop \/ DebugEvent \/ LoopReturns \/ SendCheck \/ SendMessage \/ UNCHANGED vars
  PROVE  UNCHANGED clientVars
<1>1. CASE DebugLoop
  BY <1>1 DEF DebugLoop, LoopBegins, SetupFails, SetupDone, LockRun, PauseNotified, Continue,
              LoopLeaves, LoopEnds
<1> QED
  BY <1>1 DEF DebugEvent, LoopReturns, SendCheck, SendMessage, vars

\* Places and commands keep their shape.
LEMMA CommandsStep ==
  ASSUME IInv, [Next]_vars
  PROVE  CommandsOK'
<1>1. CommandsOK
  BY DEF IInv, TypeOK, CommandsOK, PlacesOK, CmdPlace, ScriptPlace, GuiPlace, Runner
<1>2. ASSUME UNCHANGED clientVars
      PROVE  CommandsOK'
  BY <1>1, <1>2 DEF clientVars, CommandsOK, PlacesOK, CommandsLeft
<1> QED
  BY <1>1, <1>2, CommandThreadPlaces, ScriptThreadPlaces, ExitPlaces, OthersPlaces DEF Next


-----------------------------------------------------------------------------
(* The message queue and the end of the command thread                     *)

QueueOK ==
  /\ queue \in Seq(Messages \union {Wake})
  /\ msg \in Messages \union {Wake, NoMessage}
  /\ destroy \in BOOLEAN /\ stopLoop \in BOOLEAN
  /\ waiting \in 0..1 /\ notify \in 0..2
  /\ ToldToEnd

\* A step that leaves the queue alone brings nobody to it.
LEMMA QueueKept ==
  ASSUME QueueOK, UNCHANGED queueVars,
         pc'["cmd"] = "dequeue" <=> pc["cmd"] = "dequeue",
         pc'["cmd"] = "provide" => pc["cmd"] = "provide",
         pc'["gui"] \in {"destroy", "notify"} => pc'["gui"] = pc["gui"]
  PROVE  QueueOK'
BY DEF QueueOK, ToldToEnd, queueVars

\* The commands, the scripts and the debug loop leave the queue alone.
LEMMA QueueOthers ==
  ASSUME IInv, QueueOK,
         \/ Provide \/ NextCommand \/ MessageDone \/ RunsScript \/ Execute("cmd")
         \/ ScriptThread \/ Kill \/ StartScript \/ UNCHANGED <<queueVars, pc>>
         \/ ExitJoined \/ ExitAbort \/ ExitAborted \/ ExitDeinit \/ Execute("gui")
  PROVE  QueueOK'
<1>0. CommandsLeft /\ TypeOK
  BY DEF IInv
<1>1. ASSUME NEW c \in Client, ClientStep(c), UNCHANGED queueVars,
             pc[c] \notin {"dequeue", "provide"}
      PROVE  QueueOK'
  <2>1. pc'[c] \in Executing \union {After(c)} /\ \A d \in Client \ {c} : pc'[d] = pc[d]
    BY <1>0, <1>1 DEF ClientStep, CommandsLeft
  <2>2. c # "cmd" => pc'["cmd"] = pc["cmd"]
    BY <2>1 DEF Client
  <2>3. c # "gui" => pc'["gui"] = pc["gui"]
    BY <2>1 DEF Client
  <2> QED
    BY <1>1, <2>1, <2>2, <2>3, QueueKept DEF After, Executing
<1>2. ASSUME NEW c \in Client, Execute(c) \/ StopKill(c)
      PROVE  QueueOK'
  <2>1. /\ pc[c] \in Executing /\ UNCHANGED queueVars
        /\ ClientStep(c) \/ UNCHANGED <<pc, todo>>
    BY <1>0, <1>2, ExecuteMoves
  <2>2. CASE ClientStep(c)
    BY <1>1, <2>1, <2>2 DEF Executing
  <2>3. CASE UNCHANGED pc
    BY <2>1, <2>3, QueueKept
  <2> QED
    BY <2>1, <2>2, <2>3
<1>3. ASSUME NEW c \in Runner, pc[c] = "next", NEW command \in Command, Begin(c, command)
      PROVE  QueueOK'
  <2>1. c \in Client
    BY DEF Runner, Client
  <2>2. UNCHANGED queueVars
    BY <1>0, <1>3, BeginMoves
  <2>3. CASE ClientStep(c)
    BY <1>1, <1>3, <2>1, <2>2, <2>3
  <2>4. CASE pc' = [pc EXCEPT ![c] = "scriptQueue"]
    BY <1>0, <1>3, <2>1, <2>2, <2>4, QueueKept DEF CommandsLeft, Client
  <2> QED
    BY <1>0, <1>3, <2>3, <2>4, BeginMoves
<1>4. CASE NextCommand
  <2>1. Head(todo["cmd"]) \in Command
    BY <1>0, <1>4, CommandsTail DEF NextCommand, TypeOK
  <2> QED
    BY <1>3, <1>4, <2>1 DEF NextCommand, Runner
<1>5. CASE NextLine
  <2>1. Head(todo["script"]) \in Command
    BY <1>0, <1>5, CommandsTail DEF NextLine, TypeOK
  <2> QED
    BY <1>3, <1>5, <2>1 DEF NextLine, Runner
<1>6. CASE Provide \/ MessageDone
  <2>1. UNCHANGED queueVars /\ \E p \in {"ended", "next", "check"} : Go("cmd", p)
    BY <1>6 DEF Provide, MessageDone
  <2>2. PICK p \in {"ended", "next", "check"} : Go("cmd", p)
    BY <2>1
  <2>3. pc["cmd"] # "dequeue" /\ pc'["cmd"] = p /\ pc'["gui"] = pc["gui"]
    BY <1>0, <1>6, <2>2 DEF Provide, MessageDone, Go, CommandsLeft, Client
  <2> QED
    BY <2>1, <2>3, QueueKept
<1>7. CASE RunsScript
  <2>1. pc["cmd"] = "scriptQueue" /\ UNCHANGED queueVars
    BY <1>7 DEF RunsScript
  <2>2. CASE Finish("cmd", FALSE)
    BY <1>0, <1>1, <2>1, <2>2, FinishMoves DEF Client
  <2>3. CASE pc' = [pc EXCEPT !["cmd"] = "scriptWait", !["script"] = "next"]
    <3>1. pc'["cmd"] = "scriptWait" /\ pc'["gui"] = pc["gui"]
      BY <1>0, <2>3 DEF CommandsLeft, Client
    <3> QED
      BY <2>1, <3>1, QueueKept
  <2> QED
    BY <1>7, <2>2, <2>3 DEF RunsScript
<1>8. CASE ScriptOver \/ PollAborted
  <2>1. EndScript /\ UNCHANGED queueVars
    BY <1>8 DEF ScriptOver, PollAborted
  <2>2. /\ pc'["gui"] = pc["gui"]
        /\ pc'["cmd"] = (IF pc["cmd"] = "scriptWait" THEN "next" ELSE pc["cmd"])
    BY <1>0, <2>1, EndScriptKeeps
  <2> QED
    BY <2>1, <2>2, QueueKept
<1>9. CASE PollPaused \/ StartScript
  <2>1. Go("script", "next") /\ UNCHANGED queueVars
    BY <1>9 DEF PollPaused, StartScript
  <2>2. pc'["cmd"] = pc["cmd"] /\ pc'["gui"] = pc["gui"]
    BY <1>0, <2>1 DEF Go, CommandsLeft, Client
  <2> QED
    BY <2>1, <2>2, QueueKept
<1>10. CASE ExitJoined \/ ExitAbort \/ ExitAborted \/ ExitDeinit
  <2>1. UNCHANGED queueVars /\ \E p \in {"lock", "deinit", "aborting", "gone"} : Go("gui", p)
    BY <1>10 DEF ExitJoined, ExitAbort, ExitAborted, ExitDeinit
  <2>2. PICK p \in {"lock", "deinit", "aborting", "gone"} : Go("gui", p)
    BY <2>1
  <2>3. pc'["gui"] = p /\ pc'["cmd"] = pc["cmd"]
    BY <1>0, <2>2 DEF Go, CommandsLeft, Client
  <2> QED
    BY <2>1, <2>3, QueueKept
<1>11. CASE UNCHANGED <<queueVars, pc>>
  BY <1>11, QueueKept
<1> QED
  BY <1>2, <1>4, <1>5, <1>6, <1>7, <1>8, <1>9, <1>10, <1>11
     DEF ScriptThread, Kill, Client


\* MsgWait, MsgSend and MsgFreeQueue keep the queue in order.
LEMMA QueueOwn ==
  ASSUME IInv, QueueOK,
         \/ WaitCheck \/ WaitCount \/ WaitDequeue
         \/ SendMessage \/ ExitStopLoop \/ ExitDestroy \/ ExitNotify
  PROVE  QueueOK'
<1>0. /\ CommandsLeft
      /\ queue \in Seq(Messages \union {Wake})
      /\ msg \in Messages \union {Wake, NoMessage}
      /\ destroy \in BOOLEAN /\ stopLoop \in BOOLEAN
      /\ waiting \in 0..1 /\ notify \in 0..2
      /\ waiting = (IF pc["cmd"] = "dequeue" THEN 1 ELSE 0)
      /\ pc["gui"] = "destroy" \/ destroy => stopLoop
      /\ pc["gui"] = "notify" => destroy
      /\ (\E i \in 1..Len(queue) : queue[i] = Wake) => destroy
      /\ pc["cmd"] = "provide" /\ msg \in {NoMessage, Wake} => destroy
  BY DEF IInv, QueueOK, ToldToEnd
<1>a. ASSUME NEW p \in CmdPlace, Go("cmd", p)
      PROVE  pc'["cmd"] = p /\ pc'["gui"] = pc["gui"]
  BY <1>0, <1>a DEF Go, CommandsLeft, Client
<1>b. ASSUME NEW p \in GuiPlace, Go("gui", p)
      PROVE  pc'["gui"] = p /\ pc'["cmd"] = pc["cmd"]
  BY <1>0, <1>b DEF Go, CommandsLeft, Client
<1>c. Len(queue) \in Nat
  BY <1>0, LenProperties
<1>1. CASE WaitCheck
  <2>1. pc'["cmd"] = (IF destroy THEN "provide" ELSE "count") /\ pc'["gui"] = pc["gui"]
    BY <1>1, <1>a DEF WaitCheck, CmdPlace
  <2> QED
    BY <1>0, <1>1, <2>1 DEF WaitCheck, QueueOK, ToldToEnd
<1>2. CASE WaitCount
  <2>1. pc'["cmd"] = "dequeue" /\ pc'["gui"] = pc["gui"]
    BY <1>2, <1>a DEF WaitCount, CmdPlace
  <2> QED
    BY <1>0, <1>2, <2>1 DEF WaitCount, QueueOK, ToldToEnd
<1>3. CASE WaitDequeue
  <2>1. pc'["cmd"] = "provide" /\ pc'["gui"] = pc["gui"]
    BY <1>3, <1>a DEF WaitDequeue, CmdPlace
  <2>2. queue # <<>> /\ msg' = Head(queue) /\ queue' = Tail(queue)
    BY <1>3 DEF WaitDequeue
  <2>3. /\ queue' \in Seq(Messages \union {Wake}) /\ msg' \in Messages \union {Wake}
        /\ msg' = queue[1] /\ Len(queue) \in Nat \ {0} /\ Len(queue') = Len(queue) - 1
        /\ \A i \in 1..Len(queue') : queue'[i] = queue[i + 1]
    BY <1>0, <2>2, HeadTailProperties, EmptySeq
  <2>4. (\E i \in 1..Len(queue') : queue'[i] = Wake) => destroy
    BY <1>0, <2>3
  <2>5. msg' = Wake => destroy
    <3>1. 1 \in 1..Len(queue)
      BY <2>3
    <3> QED
      BY <1>0, <2>3, <3>1
  <2>6. msg' # NoMessage
    <3>1. "none" \notin Command
      BY DEF Command
    <3>2. NoMessage \notin Seq(Command)
      BY <3>1, ElementOfSeq DEF NoMessage
    <3>3. NoMessage # Wake
      BY DEF NoMessage, Wake
    <3> QED
      BY <2>3, <3>2, <3>3, MessagesAssumption
  <2> QED
    BY <1>0, <1>3, <2>1, <2>3, <2>4, <2>5, <2>6 DEF WaitDequeue, QueueOK, ToldToEnd
<1>4. ASSUME NEW m \in Messages \union {Wake}, queue' = Append(queue, m), m = Wake => destroy
      PROVE  /\ queue' \in Seq(Messages \union {Wake})
             /\ (\E i \in 1..Len(queue') : queue'[i] = Wake) => destroy
  <2>1. /\ queue' \in Seq(Messages \union {Wake}) /\ Len(queue') = Len(queue) + 1
        /\ \A i \in 1..Len(queue) : queue'[i] = queue[i]
        /\ queue'[Len(queue) + 1] = m
    BY <1>0, <1>4, AppendProperties
  <2>2. \A i \in 1..Len(queue') : i \in 1..Len(queue) \/ i = Len(queue) + 1
    BY <1>c, <2>1
  <2> QED
    BY <1>0, <1>4, <2>1, <2>2
<1>5. CASE SendMessage
  <2>1. PICK m \in Messages : queue' = Append(queue, m)
    BY <1>5 DEF SendMessage
  <2>2. m # Wake
    BY MessagesAssumption DEF Wake
  <2>3. /\ queue' \in Seq(Messages \union {Wake})
        /\ (\E i \in 1..Len(queue') : queue'[i] = Wake) => destroy
    BY <1>4, <2>1, <2>2
  <2> QED
    BY <1>0, <1>5, <2>3 DEF SendMessage, clientVars, QueueOK, ToldToEnd
<1>6. CASE ExitStopLoop
  <2>1. pc'["gui"] = "destroy" /\ pc'["cmd"] = pc["cmd"]
    BY <1>6, <1>b DEF ExitStopLoop, GuiPlace
  <2> QED
    BY <1>0, <1>6, <2>1 DEF ExitStopLoop, QueueOK, ToldToEnd
<1>7. CASE ExitDestroy
  <2>1. pc'["gui"] = "notify" /\ pc'["cmd"] = pc["cmd"]
    BY <1>7, <1>b DEF ExitDestroy, GuiPlace
  <2> QED
    BY <1>0, <1>7, <2>1 DEF ExitDestroy, QueueOK, ToldToEnd
<1>8. CASE ExitNotify
  <2>1. CASE notify < waiting + 1
    <3>1. /\ queue' \in Seq(Messages \union {Wake})
          /\ (\E i \in 1..Len(queue') : queue'[i] = Wake) => destroy
      BY <1>0, <1>4, <1>8, <2>1 DEF ExitNotify
    <3> QED
      BY <1>0, <1>8, <2>1, <3>1 DEF ExitNotify, QueueOK, ToldToEnd
  <2>2. CASE ~(notify < waiting + 1)
    <3>1. pc'["gui"] = "join" /\ pc'["cmd"] = pc["cmd"]
      BY <1>8, <1>b, <2>2 DEF ExitNotify, GuiPlace
    <3> QED
      BY <1>0, <1>8, <2>2, <3>1 DEF ExitNotify, QueueOK, ToldToEnd
  <2> QED
    BY <2>1, <2>2
<1> QED
  BY <1>1, <1>2, <1>3, <1>5, <1>6, <1>7, <1>8

\* Every step keeps the queue in order.
LEMMA QueueStep ==
  ASSUME IInv, [Next]_vars
  PROVE  QueueOK'
<1>1. QueueOK
  BY DEF IInv, TypeOK, QueueOK
<1>2. CASE DebugLoop \/ DebugEvent \/ LoopReturns \/ SendCheck \/ UNCHANGED vars
  <2>1. UNCHANGED clientVars
    BY <1>2, OthersPlaces
  <2>2. UNCHANGED queueVars
    <3>1. CASE DebugLoop
      BY <3>1 DEF DebugLoop, LoopBegins, SetupFails, SetupDone, LockRun, PauseNotified, Continue,
                  LoopLeaves, LoopEnds
    <3> QED
      BY <1>2, <3>1 DEF DebugEvent, LoopReturns, SendCheck, vars
  <2> QED
    BY <1>1, <2>1, <2>2, QueueOthers DEF clientVars
<1> QED
  BY <1>1, <1>2, QueueOthers, QueueOwn DEF Next, CommandThread, ExitStep


-----------------------------------------------------------------------------
(* The lock and the debug loop                                             *)

\* A client leaves the lock as it is, takes it, or gives it back.
LEMMA LockKept ==
  ASSUME CommandsLeft, LockHeld, NEW c \in Client, owner \in Client \union {NoClient},
         \A d \in Client \ {c} : pc'[d] = pc[d],
         \/ owner' = owner /\ (pc'[c] \in UnderLock <=> pc[c] \in UnderLock)
         \/ owner = NoClient /\ owner' = c /\ pc'[c] \in UnderLock
         \/ pc[c] \in UnderLock /\ owner' = NoClient /\ pc'[c] \notin UnderLock
  PROVE  LockHeld'
<1>1. NoClient \notin Client
  BY DEF NoClient, Client
<1> QED
  BY <1>1 DEF LockHeld

\* The commands hold LockDebugStartStop for exactly as long as they need it.
LEMMA ExecuteLocks ==
  ASSUME IInv, NEW c \in Client, Execute(c) \/ StopKill(c)
  PROVE  LockHeld'
<1> USE DEF UnderLock
<1>0. CommandsLeft /\ LockHeld /\ owner \in Client \union {NoClient} /\ pc \in [Client -> Place]
  BY DEF IInv, TypeOK, CommandsLeft
<1>1. After(c) \notin UnderLock
  BY DEF After
<1>2. ClientStep(c) => \A d \in Client \ {c} : pc'[d] = pc[d]
  BY <1>0 DEF ClientStep
<1>a. ASSUME NEW p \in Executing, Go(c, p), UNCHANGED todo
      PROVE  ClientStep(c) /\ pc'[c] = p
  BY <1>0, <1>a, GoExecutes
<1>b. ASSUME NEW ok, Finish(c, ok)
      PROVE  ClientStep(c) /\ pc'[c] = After(c)
  BY <1>0, <1>b, FinishMoves
<1>c. ASSUME NEW ok, Stopped(c, ok)
      PROVE  /\ ClientStep(c)
             /\ \/ owner' = NoClient /\ pc'[c] = After(c)
                \/ owner' = owner /\ pc'[c] = "create"
  BY <1>0, <1>c, StoppedMoves
<1>3. CASE RunTest(c)
  BY <1>0, <1>1, <1>2, <1>3, <1>a, <1>b, LockKept DEF RunTest, Executing
<1>4. CASE RunUnlock(c)
  BY <1>0, <1>1, <1>2, <1>4, <1>b, LockKept DEF RunUnlock
<1>5. CASE Acquire(c)
  <2>1. \E p \in {"detachWait", "create", "stop"} : Go(c, p) /\ UNCHANGED todo
    BY <1>5 DEF Acquire
  <2>2. ClientStep(c) /\ pc'[c] \in {"detachWait", "create", "stop"}
    BY <1>a, <2>1 DEF Executing
  <2> QED
    BY <1>0, <1>2, <1>5, <2>2, LockKept DEF Acquire
<1>6. CASE Detached(c)
  BY <1>0, <1>2, <1>6, <1>a, LockKept DEF Detached, Executing
<1>7. CASE StopTest(c)
  <2>1. CASE handle
    BY <1>0, <1>2, <1>7, <1>a, <2>1, LockKept DEF StopTest, Executing
  <2>2. CASE ~handle
    BY <1>0, <1>1, <1>2, <1>7, <1>c, <2>2, LockKept DEF StopTest
  <2> QED
    BY <2>1, <2>2
<1>8. CASE StopWaited(c)
  BY <1>0, <1>1, <1>2, <1>8, <1>c, LockKept DEF StopWaited
<1>9. CASE StopUnlock(c)
  BY <1>0, <1>9 DEF StopUnlock, clientVars, LockHeld
<1>10. CASE StopKill(c)
  BY <1>0, <1>1, <1>2, <1>10, <1>c, LockKept DEF StopKill
<1>11. CASE Create(c)
  BY <1>0, <1>2, <1>11, <1>a, LockKept DEF Create, Executing
<1>12. CASE Refused(c)
  BY <1>0, <1>1, <1>2, <1>12, <1>b, LockKept DEF Refused
<1>13. CASE Created(c)
  BY <1>0, <1>1, <1>2, <1>13, <1>b, LockKept DEF Created
<1> QED
  BY <1>3, <1>4, <1>5, <1>6, <1>7, <1>8, <1>9, <1>10, <1>11, <1>12, <1>13 DEF Execute


\* All the other steps of the clients leave the lock and the session alone.
OffLock == \A d \in Client : pc[d] \in UnderLock \/ pc'[d] \in UnderLock => pc'[d] = pc[d]

LEMMA ClientsOffLock ==
  ASSUME IInv,
         \/ WaitCheck \/ WaitCount \/ WaitDequeue \/ Provide \/ NextCommand \/ MessageDone
         \/ RunsScript \/ NextLine \/ ScriptOver \/ PollPaused \/ PollAborted
         \/ SendCheck \/ SendMessage \/ StartScript \/ ExitStopLoop \/ ExitDestroy \/ ExitNotify
         \/ ExitJoined \/ ExitAbort \/ ExitAborted \/ ExitDeinit
  PROVE  UNCHANGED <<owner, sessionVars, events, sessions, historyVars>> /\ OffLock
<1> USE DEF UnderLock
<1>0. CommandsLeft /\ TypeOK
  BY DEF IInv
<1>1. ASSUME NEW c \in Client, NEW p \in Place \ UnderLock, Go(c, p), pc[c] \notin UnderLock
      PROVE  OffLock
  BY <1>0, <1>1 DEF Go, CommandsLeft, OffLock
<1>2. ASSUME NEW c \in Runner, pc[c] = "next", NEW command \in Command, Begin(c, command)
      PROVE  UNCHANGED <<owner, sessionVars, events, sessions, historyVars>> /\ OffLock
  <2>1. c \in Client /\ pc'[c] \notin UnderLock /\ \A d \in Client \ {c} : pc'[d] = pc[d]
    BY <1>0, <1>2, BeginMoves DEF Runner, Client, CommandsLeft, ClientStep
  <2>2. UNCHANGED <<owner, sessionVars, countVars, historyVars>>
    BY <1>0, <1>2, BeginMoves
  <2> QED
    BY <1>2, <2>1, <2>2 DEF OffLock, countVars
<1>3. CASE WaitCheck \/ WaitCount \/ WaitDequeue \/ Provide \/ MessageDone
  <2>1. /\ UNCHANGED <<owner, sessionVars, events, sessions, historyVars>>
        /\ pc["cmd"] \notin UnderLock
        /\ \E p \in {"provide", "count", "dequeue", "ended", "next", "check"} : Go("cmd", p)
    BY <1>3 DEF WaitCheck, WaitCount, WaitDequeue, Provide, MessageDone, countVars
  <2> QED
    BY <1>1, <2>1 DEF Client, Place
<1>4. CASE NextCommand
  <2>1. Head(todo["cmd"]) \in Command
    BY <1>0, <1>4, CommandsTail DEF NextCommand, TypeOK
  <2> QED
    BY <1>2, <1>4, <2>1 DEF NextCommand, Runner
<1>5. CASE NextLine
  <2>1. Head(todo["script"]) \in Command
    BY <1>0, <1>5, CommandsTail DEF NextLine, TypeOK
  <2> QED
    BY <1>2, <1>5, <2>1 DEF NextLine, Runner
<1>6. CASE RunsScript
  <2>1. /\ UNCHANGED <<owner, sessionVars, events, sessions, historyVars>>
        /\ pc["cmd"] \notin UnderLock /\ pc["script"] \notin UnderLock
    BY <1>6 DEF RunsScript, countVars
  <2>2. CASE Finish("cmd", FALSE)
    <3>1. Go("cmd", "next")
      BY <2>2 DEF Finish
    <3> QED
      BY <1>1, <2>1, <3>1 DEF Client, Place
  <2>3. CASE pc' = [pc EXCEPT !["cmd"] = "scriptWait", !["script"] = "next"]
    BY <1>0, <2>1, <2>3 DEF OffLock, CommandsLeft, Client
  <2> QED
    BY <1>6, <2>1, <2>2, <2>3 DEF RunsScript
<1>7. CASE ScriptOver \/ PollAborted
  <2>1. /\ UNCHANGED <<owner, sessionVars, events, sessions, historyVars>>
        /\ EndScript /\ pc["script"] \notin UnderLock
    BY <1>7 DEF ScriptOver, PollAborted, countVars
  <2>2. /\ pc'["script"] = "idle" /\ pc'["gui"] = pc["gui"]
        /\ pc'["cmd"] = (IF pc["cmd"] = "scriptWait" THEN "next" ELSE pc["cmd"])
    BY <1>0, <2>1, EndScriptKeeps
  <2> QED
    BY <2>1, <2>2 DEF OffLock, Client
<1>8. CASE PollPaused \/ StartScript
  <2>1. /\ UNCHANGED <<owner, sessionVars, events, sessions, historyVars>>
        /\ Go("script", "next") /\ pc["script"] \notin UnderLock
    BY <1>8 DEF PollPaused, StartScript, countVars
  <2> QED
    BY <1>1, <2>1 DEF Client, Place
<1>9. CASE SendCheck \/ SendMessage
  BY <1>9 DEF SendCheck, SendMessage, clientVars, OffLock
<1>10. CASE ExitNotify
  <2>1. /\ UNCHANGED <<owner, sessionVars, events, sessions, historyVars>>
        /\ pc["gui"] \notin UnderLock
        /\ Go("gui", "join") \/ UNCHANGED pc
    BY <1>10 DEF ExitNotify, countVars
  <2>2. CASE UNCHANGED pc
    BY <2>1, <2>2 DEF OffLock
  <2> QED
    BY <1>1, <2>1, <2>2 DEF Client, Place
<1>11. CASE ExitStopLoop \/ ExitDestroy \/ ExitJoined \/ ExitAbort \/ ExitAborted \/ ExitDeinit
  <2>1. /\ UNCHANGED <<owner, sessionVars, events, sessions, historyVars>>
        /\ pc["gui"] \notin UnderLock
        /\ \E p \in {"destroy", "notify", "lock", "deinit", "aborting", "gone"} : Go("gui", p)
    BY <1>11 DEF ExitStopLoop, ExitDestroy, ExitJoined, ExitAbort, ExitAborted, ExitDeinit, countVars
  <2> QED
    BY <1>1, <2>1 DEF Client, Place, Executing
<1> QED
  BY <1>3, <1>4, <1>5, <1>6, <1>7, <1>8, <1>9, <1>10, <1>11

\* The debug loop goes on, or ends, by itself.
LEMMA LoopOffLock ==
  ASSUME TypeOK, DebugLoop \/ DebugEvent \/ LoopReturns
  PROVE  /\ UNCHANGED <<clientVars, handle, killed>>
         /\ Alive
         /\ ~running' => (running => paused' /\ thread' = "locked")
         /\ ~running /\ thread \in {"locked", "waiting"} /\ ~running' =>
              thread' \in {"locked", "waiting"} /\ paused' = paused
<1>1. CASE LoopBegins \/ SetupFails \/ SetupDone \/ DebugEvent \/ LoopReturns \/ LoopLeaves \/ LoopEnds
  BY <1>1 DEF LoopBegins, SetupFails, SetupDone, DebugEvent, LoopReturns, LoopLeaves, LoopEnds,
              historyVars, Alive
<1>2. CASE LockRun
  BY <1>2 DEF LockRun, Alive
<1>3. CASE PauseNotified
  BY <1>3 DEF PauseNotified, historyVars, Alive
<1>4. CASE Continue
  BY <1>4 DEF Continue, historyVars, Alive
<1> QED
  BY <1>1, <1>2, <1>3, <1>4 DEF DebugLoop


\* Under the lock one client at a time stops a debug loop, waits for its end,
\* and creates the next.
LEMMA ExecuteAccounted ==
  ASSUME IInv, NEW c \in Client, Execute(c) \/ StopKill(c)
  PROVE  LoopAccounted' /\ LockedByPause'
<1>0. /\ CommandsLeft /\ LockHeld /\ LoopAccounted /\ LockedByPause
      /\ handle \in BOOLEAN /\ running \in BOOLEAN
  BY DEF IInv, TypeOK
<1>1. \A d \in Client \ {c} : pc'[d] = pc[d]
  BY <1>0, ExecuteMoves DEF ClientStep, CommandsLeft
<1>2. ASSUME pc[c] \in UnderLock
      PROVE  \A d \in Client \ {c} : pc[d] \notin UnderLock
  BY <1>0, <1>2 DEF LockHeld
<1>a. ASSUME NEW p \in Executing, Go(c, p)
      PROVE  pc'[c] = p
  BY <1>0, <1>a, GoMoves DEF Place
<1>b. ASSUME NEW ok, Finish(c, ok)
      PROVE  pc'[c] = After(c)
  BY <1>0, <1>b, FinishMoves
<1>c. ASSUME NEW ok, Stopped(c, ok)
      PROVE  pc'[c] \in {After(c), "create"}
  BY <1>0, <1>c, StoppedMoves
<1>3. After(c) \notin UnderLock
  BY DEF After, UnderLock
<1>4. ASSUME UNCHANGED <<handle, thread>>, pc[c] # "stopWait" \/ ~Alive \/ pc'[c] = pc[c],
             pc'[c] = "create" => ~Alive
      PROVE  LoopAccounted'
  <2>1. Alive' <=> Alive
    BY <1>4 DEF Alive
  <2> QED
    BY <1>0, <1>1, <1>4, <2>1 DEF LoopAccounted
<1>5. ASSUME UNCHANGED thread, UNCHANGED historyVars, running' = TRUE \/ running' = running
      PROVE  LockedByPause'
  BY <1>0, <1>5 DEF LockedByPause, historyVars
<1>6. CASE RunTest(c)
  <2>1. pc'[c] \in {"unlock", After(c)} /\ UNCHANGED <<sessionVars, historyVars>>
    BY <1>6, <1>a, <1>b DEF RunTest, Executing
  <2> QED
    BY <1>3, <1>4, <1>5, <1>6, <2>1 DEF RunTest, sessionVars, UnderLock
<1>7. CASE RunUnlock(c)
  BY <1>3, <1>4, <1>5, <1>7, <1>b DEF RunUnlock, UnderLock
<1>8. CASE Acquire(c)
  <2>1. pc[c] = "lock" /\ owner = NoClient /\ UNCHANGED <<handle, thread, historyVars>>
        /\ (running' = TRUE \/ running' = running)
    BY <1>8 DEF Acquire
  <2>2. \A d \in Client : pc[d] \notin UnderLock
    BY <1>0, <2>1 DEF LockHeld, NoClient, Client
  <2>3. ~handle => ~Alive
    BY <1>0, <2>2 DEF LoopAccounted, UnderLock
  <2>4. pc'[c] = "create" => ~handle
    <3>1. CASE job[c] = "attach" /\ debugging /\ DetachOnAttach
      BY <1>8, <1>a, <3>1 DEF Acquire, Executing
    <3>2. CASE ~(job[c] = "attach" /\ debugging /\ DetachOnAttach)
      BY <1>8, <1>a, <3>2 DEF Acquire, Executing
    <3> QED
      BY <3>1, <3>2
  <2> QED
    BY <1>4, <1>5, <2>1, <2>3, <2>4
<1>9. CASE Detached(c)
  <2>1. pc[c] = "detachWait" /\ ~Alive /\ UNCHANGED <<thread, running, historyVars>>
    BY <1>9 DEF Detached
  <2>2. ~Alive'
    BY <2>1 DEF Alive
  <2> QED
    BY <1>5, <2>1, <2>2 DEF LoopAccounted
<1>10. CASE StopTest(c)
  <2>1. pc[c] = "stop" /\ UNCHANGED <<thread, running, historyVars>>
    BY <1>10 DEF StopTest
  <2>2. \A d \in Client \ {c} : pc'[d] \notin UnderLock
    BY <1>1, <1>2, <2>1 DEF UnderLock
  <2>3. CASE handle
    <3>1. pc'[c] = "stopWait"
      BY <1>10, <1>a, <2>3 DEF StopTest, Executing
    <3>2. \A d \in Client : pc'[d] # "create"
      BY <2>2, <3>1 DEF UnderLock
    <3> QED
      BY <1>5, <2>1, <3>1, <3>2 DEF LoopAccounted
  <2>4. CASE ~handle
    <3>1. ~Alive
      BY <1>0, <1>2, <2>1, <2>4 DEF LoopAccounted, UnderLock
    <3>2. UNCHANGED handle
      BY <1>10, <2>4 DEF StopTest
    <3> QED
      BY <1>4, <1>5, <2>1, <3>1, <3>2
  <2> QED
    BY <1>0, <2>3, <2>4
<1>11. CASE StopWaited(c)
  BY <1>4, <1>5, <1>11 DEF StopWaited, sessionVars
<1>12. CASE StopUnlock(c)
  BY <1>4, <1>5, <1>12, <1>0 DEF StopUnlock, clientVars, LoopAccounted
<1>13. CASE StopKill(c)
  <2>1. killed' /\ ~Alive'
    BY <1>13 DEF StopKill, Alive
  <2> QED
    BY <2>1 DEF LoopAccounted, LockedByPause
<1>14. CASE Create(c)
  <2>1. pc[c] = "create" /\ ~Alive
    BY <1>0, <1>14 DEF Create, LoopAccounted
  <2>2. pc'[c] = "startWait"
    BY <1>14, <1>a DEF Create, Executing
  <2>3. \A d \in Client : pc'[d] # "create"
    BY <1>1, <1>2, <2>1, <2>2 DEF UnderLock
  <2>4. handle' = TRUE /\ UNCHANGED <<running, killed>>
    BY <1>14 DEF Create
  <2>5. running \/ killed
    BY <1>0, <2>1 DEF LockedByPause, Alive
  <2> QED
    BY <2>3, <2>4, <2>5 DEF LoopAccounted, LockedByPause
<1>15. CASE Refused(c)
  BY <1>3, <1>4, <1>5, <1>15, <1>b DEF Refused, sessionVars, UnderLock
<1>16. CASE Created(c)
  BY <1>3, <1>4, <1>5, <1>16, <1>b DEF Created, sessionVars, UnderLock
<1> QED
  BY <1>6, <1>7, <1>8, <1>9, <1>10, <1>11, <1>12, <1>13, <1>14, <1>15, <1>16 DEF Execute

\* The lock, the debug loop and WAITID_RUN are kept in order by every step.
LEMMA SessionStep ==
  ASSUME IInv, [Next]_vars
  PROVE  LockHeld' /\ LoopAccounted' /\ LockedByPause'
<1>0. TypeOK /\ LockHeld /\ LoopAccounted /\ LockedByPause
  BY DEF IInv
<1>1. ASSUME UNCHANGED <<owner, sessionVars, events, sessions, historyVars>>, OffLock
      PROVE  LockHeld' /\ LoopAccounted' /\ LockedByPause'
  <2>1. Alive' <=> Alive
    BY <1>1 DEF sessionVars, Alive
  <2> QED
    BY <1>0, <1>1, <2>1
       DEF LockHeld, LoopAccounted, LockedByPause, OffLock, sessionVars, historyVars, UnderLock
<1>2. ASSUME NEW c \in Client, Execute(c) \/ StopKill(c)
      PROVE  LockHeld' /\ LoopAccounted' /\ LockedByPause'
  BY <1>2, ExecuteLocks, ExecuteAccounted
<1>3. CASE DebugLoop \/ DebugEvent \/ LoopReturns
  <2>1. /\ UNCHANGED <<owner, pc, handle, killed>> /\ Alive
        /\ ~running' => (running => paused' /\ thread' = "locked")
        /\ ~running /\ thread \in {"locked", "waiting"} /\ ~running' =>
             thread' \in {"locked", "waiting"} /\ paused' = paused
    BY <1>0, <1>3, LoopOffLock DEF clientVars
  <2>2. LockHeld'
    BY <1>0, <2>1 DEF LockHeld
  <2>3. LoopAccounted'
    BY <1>0, <2>1 DEF LoopAccounted
  <2>4. LockedByPause'
    BY <1>0, <2>1 DEF LockedByPause
  <2> QED
    BY <2>2, <2>3, <2>4
<1>4. CASE UNCHANGED vars
  BY <1>1, <1>4 DEF vars, clientVars, countVars, OffLock
<1> QED
  BY <1>1, <1>2, <1>3, <1>4, ClientsOffLock
     DEF Next, CommandThread, ScriptThread, ExitStep, Kill, Client


-----------------------------------------------------------------------------
(* The types of what is left                                               *)

Threads == {"none", "begin", "setup", "loop", "callback", "locked", "waiting",
            "leave", "signal", "ended"}
SessionOK ==
  /\ owner \in Client \union {NoClient}
  /\ handle \in BOOLEAN /\ debugging \in BOOLEAN /\ started \in BOOLEAN
  /\ thread \in Threads
  /\ pauseAtAttach \in BOOLEAN /\ running \in BOOLEAN /\ ending \in BOOLEAN
  /\ paused \in BOOLEAN /\ killed \in BOOLEAN
  /\ events \in 0..MaxEvents /\ sessions \in 0..MaxSessions
ScriptsOK ==
  /\ job \in [Client -> Command] /\ abort \in BOOLEAN
  /\ messages \in 0..MaxMessages /\ scripts \in 0..MaxScripts
  /\ sending \in 0..messages

\* The lock, the session and its bounds keep their types.
LEMMA SessionTypes ==
  ASSUME IInv, [Next]_vars
  PROVE  SessionOK'
<1>0. SessionOK /\ TypeOK /\ CommandsLeft
  BY DEF IInv, TypeOK, SessionOK, Threads
<1>1. ASSUME UNCHANGED <<owner, sessionVars, events, sessions, historyVars>>
      PROVE  SessionOK'
  BY <1>0, <1>1 DEF SessionOK, sessionVars, historyVars
<1>2. ASSUME NEW c \in Client, Execute(c) \/ StopKill(c)
      PROVE  SessionOK'
  <2>a. ASSUME NEW ok, Stopped(c, ok)
        PROVE  owner' \in {NoClient, owner}
    BY <1>0, <2>a, StoppedMoves
  <2>1. CASE RunTest(c) \/ StopWaited(c) \/ Refused(c) \/ Created(c)
    BY <1>0, <1>1, <2>1, <2>a
       DEF RunTest, StopWaited, Refused, Created, countVars, SessionOK, sessionVars, historyVars
  <2>2. CASE RunUnlock(c) \/ StopUnlock(c) \/ Detached(c)
    BY <1>0, <2>2 DEF RunUnlock, StopUnlock, Detached, clientVars, countVars, historyVars, SessionOK
  <2>3. CASE Acquire(c)
    BY <1>0, <2>3 DEF Acquire, countVars, historyVars, SessionOK
  <2>4. CASE StopTest(c)
    BY <1>0, <2>4, <2>a DEF StopTest, countVars, historyVars, SessionOK
  <2>5. CASE StopKill(c)
    BY <1>0, <2>5, <2>a DEF StopKill, countVars, SessionOK, Threads
  <2>6. CASE Create(c)
    <3>1. sessions' \in 0..MaxSessions /\ events' \in 0..MaxEvents
      BY <1>0, <2>6, BoundsAssumption DEF Create, SessionOK
    <3>2. pauseAtAttach' \in BOOLEAN
      BY <2>6 DEF Create
    <3> QED
      BY <1>0, <2>6, <3>1, <3>2 DEF Create, SessionOK, Threads
  <2> QED
    BY <1>2, <2>1, <2>2, <2>3, <2>4, <2>5, <2>6 DEF Execute
<1>3. CASE DebugLoop \/ DebugEvent \/ LoopReturns
  <2>1. CASE DebugEvent
    BY <1>0, <2>1, BoundsAssumption DEF DebugEvent, clientVars, historyVars, SessionOK, Threads
  <2>2. CASE LoopBegins \/ SetupFails \/ SetupDone
    BY <1>0, <2>2 DEF LoopBegins, SetupFails, SetupDone, clientVars, countVars, historyVars,
                      SessionOK, Threads
  <2>3. CASE LockRun \/ PauseNotified \/ Continue
    BY <1>0, <2>3 DEF LockRun, PauseNotified, Continue, clientVars, countVars, historyVars,
                      SessionOK, Threads
  <2>4. CASE LoopReturns \/ LoopLeaves \/ LoopEnds
    BY <1>0, <2>4 DEF LoopReturns, LoopLeaves, LoopEnds, clientVars, countVars, historyVars,
                      SessionOK, Threads
  <2> QED
    BY <1>3, <2>1, <2>2, <2>3, <2>4 DEF DebugLoop
<1>4. CASE UNCHANGED vars
  BY <1>1, <1>4 DEF vars, clientVars, countVars
<1> QED
  BY <1>1, <1>2, <1>3, <1>4, ClientsOffLock
     DEF Next, CommandThread, ScriptThread, ExitStep, Kill, Client

\* The job of a client, the abortion of the script and the bounds.
LEMMA ScriptTypes ==
  ASSUME IInv, [Next]_vars
  PROVE  ScriptsOK'
<1>0. ScriptsOK /\ TypeOK /\ CommandsLeft
  BY DEF IInv, TypeOK, ScriptsOK
<1>1. ASSUME UNCHANGED <<job, messages, scripts, sending>>, abort' \in BOOLEAN
      PROVE  ScriptsOK'
  BY <1>0, <1>1 DEF ScriptsOK
<1>2. ASSUME NEW c \in Client, Execute(c) \/ StopKill(c)
      PROVE  ScriptsOK'
  BY <1>0, <1>1, <1>2, ExecuteMoves DEF ScriptsOK
<1>3. ASSUME NEW c \in Runner, NEW command \in Command, Begin(c, command)
      PROVE  ScriptsOK'
  <2>1. job' = [job EXCEPT ![c] = command] /\ UNCHANGED <<abort, countVars>>
    BY <1>0, <1>3, BeginMoves
  <2> QED
    BY <1>0, <1>3, <2>1 DEF ScriptsOK, countVars, Runner, Client
<1>4. CASE NextCommand
  <2>1. Head(todo["cmd"]) \in Command
    BY <1>0, <1>4, CommandsTail DEF NextCommand, TypeOK
  <2> QED
    BY <1>3, <1>4, <2>1 DEF NextCommand, Runner
<1>5. CASE NextLine
  <2>1. Head(todo["script"]) \in Command
    BY <1>0, <1>5, CommandsTail DEF NextLine, TypeOK
  <2> QED
    BY <1>3, <1>5, <2>1 DEF NextLine, Runner
<1>6. CASE WaitCheck \/ WaitCount \/ WaitDequeue \/ Provide \/ MessageDone \/ RunsScript
  BY <1>0, <1>1, <1>6
     DEF WaitCheck, WaitCount, WaitDequeue, Provide, MessageDone, RunsScript, countVars, ScriptsOK
<1>7. CASE ScriptOver \/ PollAborted \/ PollPaused
  BY <1>0, <1>1, <1>7 DEF ScriptOver, PollAborted, PollPaused, countVars, ScriptsOK
<1>8. CASE SendCheck \/ SendMessage
  BY <1>0, <1>8, BoundsAssumption DEF SendCheck, SendMessage, clientVars, ScriptsOK
<1>9. CASE StartScript
  <2>1. UNCHANGED <<job, messages, sending>> /\ abort' \in BOOLEAN /\ scripts < MaxScripts
        /\ scripts' = scripts + 1
    BY <1>9 DEF StartScript
  <2> QED
    BY <1>0, <2>1, BoundsAssumption DEF ScriptsOK
<1>10. CASE ExitStopLoop \/ ExitDestroy \/ ExitNotify \/ ExitJoined
  BY <1>0, <1>1, <1>10 DEF ExitStopLoop, ExitDestroy, ExitNotify, ExitJoined, countVars, ScriptsOK
<1>11. CASE ExitAbort \/ ExitAborted \/ ExitDeinit
  BY <1>0, <1>1, <1>11 DEF ExitAbort, ExitAborted, ExitDeinit, countVars, ScriptsOK
<1>12. CASE DebugLoop \/ DebugEvent \/ LoopReturns
  <2>1. UNCHANGED clientVars
    BY <1>12, OthersPlaces
  <2>2. UNCHANGED <<messages, scripts, sending>>
    BY <1>12 DEF DebugLoop, LoopBegins, SetupFails, SetupDone, LockRun, PauseNotified, Continue,
                 LoopLeaves, LoopEnds, DebugEvent, LoopReturns, countVars
  <2> QED
    BY <1>0, <1>1, <2>1, <2>2 DEF clientVars, ScriptsOK
<1>13. CASE UNCHANGED vars
  BY <1>0, <1>1, <1>13 DEF vars, clientVars, countVars, ScriptsOK
<1> QED
  BY <1>2, <1>4, <1>5, <1>6, <1>7, <1>8, <1>9, <1>10, <1>11, <1>12, <1>13
     DEF Next, CommandThread, ScriptThread, ExitStep, Kill, Client

-----------------------------------------------------------------------------
\* Before the first message nothing is started.
LEMMA InitIInv ==
  ASSUME Init
  PROVE  IInv
<1>1. /\ <<>> \in Seq(Messages \union {Wake}) /\ <<>> \in Seq(Command)
      /\ <<>> \in Seq(Command \ {"script"}) /\ Len(<<>>) = 0
  BY EmptySeq
<1>2. /\ pc \in [Client -> Place]
      /\ pc["cmd"] = "check" /\ pc["script"] = "idle" /\ pc["gui"] = "user"
  BY DEF Init, Client, Place
<1>3. /\ queue = <<>> /\ destroy = FALSE /\ waiting = 0 /\ stopLoop = FALSE
      /\ msg = NoMessage /\ notify = 0 /\ todo = [c \in {"cmd", "script"} |-> <<>>]
      /\ job = [c \in Client |-> "stop"] /\ owner = NoClient /\ abort = FALSE
      /\ handle = FALSE /\ thread = "none" /\ debugging = FALSE /\ started = FALSE
      /\ pauseAtAttach = FALSE /\ running = TRUE /\ ending = FALSE
      /\ messages = 0 /\ scripts = 0 /\ events = 0 /\ sessions = 0 /\ sending = 0
      /\ paused = FALSE /\ killed = FALSE
  BY DEF Init
<1>4. CommandsLeft
  BY <1>1, <1>2, <1>3 DEF CommandsLeft, Runner, Executing
<1>5. TypeOK
  <2>1. /\ job \in [Client -> Command] /\ todo \in [{"cmd", "script"} -> Seq(Command)]
        /\ owner \in Client \union {NoClient}
    BY <1>1, <1>3 DEF Command
  <2>a. /\ messages \in 0..MaxMessages /\ scripts \in 0..MaxScripts
        /\ events \in 0..MaxEvents /\ sessions \in 0..MaxSessions
        /\ waiting \in 0..1 /\ notify \in 0..2 /\ sending \in 0..messages
    <3>1. messages = 0 /\ scripts = 0 /\ events = 0 /\ sessions = 0 /\ waiting = 0 /\ notify = 0
          /\ sending = 0
      BY <1>3
    <3> QED
      BY <3>1, BoundsAssumption
  <2>b. /\ destroy \in BOOLEAN /\ stopLoop \in BOOLEAN
        /\ handle \in BOOLEAN /\ debugging \in BOOLEAN /\ started \in BOOLEAN
        /\ pauseAtAttach \in BOOLEAN /\ running \in BOOLEAN /\ ending \in BOOLEAN
        /\ abort \in BOOLEAN /\ paused \in BOOLEAN /\ killed \in BOOLEAN
    BY <1>3
  <2>2. SessionOK /\ ScriptsOK
    BY <1>3, <2>1, <2>a, <2>b DEF SessionOK, ScriptsOK, Threads
  <2>3. pc["cmd"] \in CmdPlace /\ pc["script"] \in ScriptPlace /\ pc["gui"] \in GuiPlace
    BY <1>2 DEF CmdPlace, ScriptPlace, GuiPlace
  <2>4. /\ queue \in Seq(Messages \union {Wake}) /\ msg \in Messages \union {Wake, NoMessage}
    BY <1>1, <1>3
  <2> QED
    BY <2>1, <2>2, <2>3, <2>4, <2>a, <2>b
       DEF TypeOK, SessionOK, ScriptsOK, CmdPlace, ScriptPlace, GuiPlace, Threads
<1>6. \A c \in Client : pc[c] \notin UnderLock
  BY <1>2 DEF Client, UnderLock
<1>7. LockHeld
  BY <1>3, <1>6 DEF LockHeld, NoClient, Client
<1>8. LoopAccounted /\ LockedByPause
  BY <1>3, <1>6 DEF LoopAccounted, LockedByPause, Alive, UnderLock
<1>9. ToldToEnd
  BY <1>1, <1>2, <1>3 DEF ToldToEnd
<1> QED
  BY <1>4, <1>5, <1>7, <1>8, <1>9 DEF IInv

\* The invariant is inductive.
LEMMA IInvStep ==
  ASSUME IInv, [Next]_vars
  PROVE  IInv'
<1>1. CommandsLeft' /\ PlacesOK' /\ todo' \in [Runner -> Seq(Command)]
  BY CommandsStep DEF CommandsOK
<1>2. QueueOK' /\ ToldToEnd'
  BY QueueStep DEF QueueOK
<1>3. TypeOK'
  BY <1>1, <1>2, SessionTypes, ScriptTypes
     DEF TypeOK, QueueOK, SessionOK, ScriptsOK, PlacesOK, CmdPlace, ScriptPlace, GuiPlace,
         Runner, Threads
<1> QED
  BY <1>1, <1>2, <1>3, SessionStep DEF IInv

\* The inductive invariant of the sessions.
THEOREM IInvInvariant == Spec => []IInv
<1>1. Init => IInv
  BY InitIInv
<1>2. IInv /\ [Next]_vars => IInv'
  BY IInvStep
<1> QED
  BY <1>1, <1>2, PTL DEF Spec

\* Queue, clients, lock and session keep their types.
THEOREM TypeOKInvariant == Spec => []TypeOK
<1>1. IInv => TypeOK
  BY DEF IInv
<1> QED
  BY <1>1, IInvInvariant, PTL

\* cbCommandProvider never goes on with the empty message: whatever is sent and
\* however many messages MsgFreeQueue adds, an empty one is provided only to a
\* command thread that was told to end.
THEOREM NeverEmptyCommandHolds == Spec => []NeverEmptyCommand
<1>1. IInv => NeverEmptyCommand
  BY DEF IInv, ToldToEnd, NeverEmptyCommand
<1> QED
  BY <1>1, IInvInvariant, PTL

\* LockDebugStartStop is held by one client at a time: who stops, waits for or
\* creates a debug loop is alone in it (cbDebugStop, cbDebugInit, cbDebugAttach).
OneStarter ==
  \A c, d \in Client : pc[c] \in UnderLock /\ pc[d] \in UnderLock => c = d

THEOREM OneStarterHolds == Spec => []OneStarter
<1>1. IInv => OneStarter
  BY DEF IInv, LockHeld, OneStarter
<1> QED
  BY <1>1, IInvInvariant, PTL

\* A session begins only after the debug loop before it has ended, for any
\* number of sessions and whoever starts and stops them.
THEOREM OneDebugLoopHolds == Spec => OneDebugLoop
<1>1. IInv /\ [Next]_vars => [sessions' # sessions => ~Alive]_vars
  <2> SUFFICES ASSUME IInv, Next, sessions' # sessions
               PROVE  ~Alive
    OBVIOUS
  <2>1. ASSUME NEW c \in Client, Execute(c) \/ StopKill(c)
        PROVE  ~Alive
    <3>1. CASE Create(c)
      BY <3>1 DEF IInv, LoopAccounted, Create
    <3>2. CASE ~Create(c)
      <4>1. UNCHANGED countVars
        BY <2>1, <3>2 DEF Execute, RunTest, RunUnlock, Acquire, Detached, StopTest, StopWaited,
                          StopUnlock, Refused, Created, StopKill
      <4> QED
        BY <4>1 DEF countVars
    <3> QED
      BY <3>1, <3>2
  <2>2. CASE DebugLoop \/ DebugEvent \/ LoopReturns
    BY <2>2 DEF DebugLoop, LoopBegins, SetupFails, SetupDone, LockRun, PauseNotified, Continue,
                LoopLeaves, LoopEnds, DebugEvent, LoopReturns, countVars
  <2> QED
    BY <2>1, <2>2, ClientsOffLock DEF Next, CommandThread, ScriptThread, ExitStep, Kill, Client
<1> QED
  BY <1>1, IInvInvariant, PTL DEF Spec, OneDebugLoop

\* Only a look at the debuggee lets a script that waits go on.
LEMMA PollLeft ==
  ASSUME CommandsLeft, TypeOK, Next, pc["script"] = "poll", pc'["script"] = "next"
  PROVE  PollPaused
<1> SUFFICES ASSUME ~PollPaused, pc'["script"] # pc["script"]
             PROVE  pc'["script"] # "next"
  OBVIOUS
<1>1. ASSUME NEW c \in {"cmd", "gui"}, NEW p, Go(c, p)
      PROVE  FALSE
  BY <1>1 DEF Go, CommandsLeft, Client
<1>2. ASSUME NEW c \in Client, Execute(c) \/ StopKill(c)
      PROVE  FALSE
  <2>1. /\ pc[c] \in Executing
        /\ ClientStep(c) \/ UNCHANGED <<pc, todo>>
    BY <1>2, ExecuteMoves
  <2>2. c # "script"
    BY <2>1 DEF Executing
  <2> QED
    BY <2>1, <2>2 DEF ClientStep, CommandsLeft, Client
<1>3. CASE CommandThread
  <2>1. CASE NextCommand
    <3>1. Head(todo["cmd"]) \in Command /\ Begin("cmd", Head(todo["cmd"]))
      BY <2>1, CommandsTail DEF NextCommand, TypeOK
    <3>2. ClientStep("cmd") \/ pc' = [pc EXCEPT !["cmd"] = "scriptQueue"]
      BY <3>1, BeginMoves DEF Runner
    <3> QED
      BY <3>2 DEF ClientStep, CommandsLeft, Client
  <2>2. CASE RunsScript
    BY <2>2 DEF RunsScript
  <2>3. CASE WaitCheck \/ WaitCount \/ WaitDequeue \/ Provide \/ MessageDone
    BY <1>1, <2>3 DEF WaitCheck, WaitCount, WaitDequeue, Provide, MessageDone
  <2> QED
    BY <1>2, <1>3, <2>1, <2>2, <2>3 DEF CommandThread, Client
<1>4. CASE ScriptThread
  <2>1. CASE ScriptOver \/ PollAborted
    <3>1. EndScript
      BY <2>1 DEF ScriptOver, PollAborted
    <3> QED
      BY <3>1, EndScriptKeeps
  <2>2. CASE NextLine
    BY <2>2 DEF NextLine
  <2> QED
    BY <1>2, <1>4, <2>1, <2>2 DEF ScriptThread, Client
<1>5. CASE ExitStep \/ ExitStopLoop
  <2>1. CASE ExitNotify
    BY <1>1, <2>1 DEF ExitNotify
  <2>2. CASE ExitStopLoop \/ ExitDestroy \/ ExitJoined \/ ExitAbort \/ ExitAborted \/ ExitDeinit
    BY <1>1, <2>2 DEF ExitStopLoop, ExitDestroy, ExitJoined, ExitAbort, ExitAborted, ExitDeinit
  <2> QED
    BY <1>2, <1>5, <2>1, <2>2 DEF ExitStep, Client
<1>6. CASE StartScript
  BY <1>6 DEF StartScript
<1>7. CASE DebugLoop \/ DebugEvent \/ LoopReturns \/ SendCheck \/ SendMessage
  BY <1>7, OthersPlaces DEF clientVars
<1> QED
  BY <1>2, <1>3, <1>4, <1>5, <1>6, <1>7 DEF Next, Kill

\* A script goes on after the first pause of the session it started, or when a
\* debug loop was terminated: WAITID_RUN is locked in no other way.
THEOREM ScriptAfterPauseHolds == Spec => ScriptAfterPause
<1>1. IInv /\ [Next]_vars =>
        [pc["script"] = "poll" /\ pc'["script"] = "next" /\ debugging /\ ~abort
           => paused \/ killed]_vars
  <2> SUFFICES ASSUME IInv, Next, pc["script"] = "poll", pc'["script"] = "next", debugging
               PROVE  paused \/ killed
    OBVIOUS
  <2>1. CommandsLeft /\ TypeOK /\ LockedByPause
    BY DEF IInv
  <2>2. PollPaused
    BY <2>1, PollLeft
  <2> QED
    BY <2>1, <2>2 DEF PollPaused, LockedByPause
<1> QED
  BY <1>1, IInvInvariant, PTL DEF Spec, ScriptAfterPause


=============================================================================
