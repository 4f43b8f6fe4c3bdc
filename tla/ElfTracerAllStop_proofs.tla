---------------------- MODULE ElfTracerAllStop_proofs ----------------------
(* What the recursion of the tracer's functions keeps: which of them runs on *)
(* top of which, and that each finds mThread where it left it.  With it, the *)
(* all-stop: at a pause every living thread is known and in ptrace-stop.     *)
(* And, for a user who does not step, where the threads stand with respect   *)
(* to the breakpoints: hits, rewinds, bytes lifted and put back.             *)
EXTENDS ElfTracer_proofs

USE LeaderAssumption, LifeAssumption, AddrAssumption, BoundAssumption, CallsAssumption,
    TimeoutsAssumption

\* The functions an activation can be in: a handler up to its pause and the resume after
\* it, the step over a byte, the drain of a SIGSTOP, the resume of one thread.
HandlerPoints ==
  {"stop", "stopForResumes", "stopForPause", "trap", "sig", "clone", "exit", "sweep",
   "sweepWait", "takeResumes", "drain", "wait", "pend", "decide", "stepped", "stepNow",
   "cont", "continueOrPark"}
StepPastPoints == {"stepPast"} \cup StepOffPoints
SwallowPoints == {"swallow", "swallowWait"}
ResumePoints == {"resume", "resumed", "resumeNow"}

\* Who calls whom.
CalledBy(f, g) ==
  /\ f.at \in HandlerPoints => g.at \in {"loop", "stepTaken"}
  /\ f.at \in StepPastPoints => /\ g.at \in {"resumed", "stepped", "steppedOff"}
                                /\ g.at = "stepped" => f.tid = g.tid
  /\ f.at \in SwallowPoints => g.at \in {"lifted", "stepNow"} /\ f.tid = g.tid
  /\ f.at \in ResumePoints => g.at \in {"drain", "continueParked"}
  /\ f.at \in ResumeAllPoints => g.at \in {"continueOrPark", "loop", "stepTaken"}

\* What mThread must be when f runs on g and h, for them to find it as they left it.
Right(x, f, g, h) ==
  /\ f.at \in ResumeAllPoints /\ g.at = "continueOrPark" => x = g.tid
  /\ f.at \in ResumePoints /\ g.at = "drain" => x = g.tid
  /\ f.at \in ResumePoints /\ g.at = "continueParked" /\ h.at = "continueOrPark"
       => x = h.tid

\* The activations that put mThread back to what they have kept of it.
Restores == {"resumed", "steppedOff"}

Grammar(s) ==
  /\ \A i \in 1 .. Len(s) - 1 : CalledBy(s[i], s[i + 1])
  /\ \A i \in 1 .. Len(s) - 2 :
       s[i].at \in Restores => Right(s[i].prev, s[i], s[i + 1], s[i + 2])

\* Those that take mThread for the thread they are about.
OwnPoints ==
  {"stop", "stopForResumes", "stopForPause", "trap", "sig", "clone", "exit", "sweep",
   "sweepWait", "takeResumes", "drain", "pend", "decide", "cont", "continueOrPark",
   "stepPast", "stepWait", "swallow", "swallowWait"}
Own(f, c, r) ==
  /\ f.at \in OwnPoints => c = f.tid
  /\ f.at \in {"lifted", "stepNow"} => r = "lost" \/ c = f.tid
  /\ f.at = "stepped" => r = "consumed" \/ c = f.tid
  /\ f.at = "wait" => c # NoTid
  /\ f.at = "sweepWait" => f.who # f.tid
TopRight(f, g, h, c) == f.at \notin Restores => Right(c, f, g, h)

Below == Head(Tail(stack))
BelowThat == Head(Tail(Tail(stack)))
PausedAtWait == paused => At("wait")
CurInv ==
  /\ Grammar(stack)
  /\ Own(Top, cur, ret)
  /\ TopRight(Top, Below, BelowThat, cur)
  /\ PausedAtWait

-----------------------------------------------------------------------------
(* The stack                                                               *)

\* What lies below the top.
LEMMA TailsOf ==
  ASSUME NEW s, Shape(s), Head(s).at # "loop"
  PROVE  /\ Len(s) \in Nat /\ Len(s) > 1 /\ Head(s) = s[1] /\ Head(Tail(s)) = s[2]
         /\ Shape(Tail(s))
         /\ Len(Tail(s)) = Len(s) - 1 /\ \A i \in 1 .. Len(s) - 1 : Tail(s)[i] = s[i + 1]
<1>1. Shape(Tail(s))
  BY Popped
<1>2. s \in Seq(Activations) /\ s # <<>> /\ Tail(s) \in Seq(Activations) /\ Tail(s) # <<>>
  BY <1>1 DEF Shape
<1>3. Len(s) \in Nat \ {0} /\ Head(s) = s[1]
  BY <1>2, EmptySeq, HeadTailProperties
<1>4. Len(s) > 1
  BY <1>3 DEF Shape
<1>5. Len(Tail(s)) = Len(s) - 1 /\ \A i \in 1 .. Len(Tail(s)) : Tail(s)[i] = s[i + 1]
  BY <1>2, HeadTailProperties
<1>6. Head(Tail(s)) = Tail(s)[1]
  BY <1>2, HeadTailProperties
<1>7. Tail(s)[1] = s[2]
  BY <1>3, <1>4, <1>5
<1> QED
  BY <1>1, <1>3, <1>4, <1>5, <1>6, <1>7

\* An activation on top of others.
LEMMA GrammarPushed ==
  ASSUME NEW s, Shape(s), Grammar(s), NEW f \in Activations, CalledBy(f, Head(s)),
         Head(s).at # "loop" /\ f.at \in Restores
           => Right(f.prev, f, Head(s), Head(Tail(s)))
  PROVE  Grammar(<<f>> \o s)
<1> DEFINE s2 == <<f>> \o s
<1>1. s \in Seq(Activations) /\ s # <<>>
  BY DEF Shape
<1>2. Len(s) \in Nat \ {0} /\ Head(s) = s[1]
  BY <1>1, EmptySeq, HeadTailProperties
<1>3. Len(s2) = Len(s) + 1 /\ s2[1] = f /\ \A i \in 1 .. Len(s) : s2[i + 1] = s[i]
  BY <1>1, Front
<1> HIDE DEF s2
<1>4. \A i \in 2 .. Len(s2) : i - 1 \in 1 .. Len(s) /\ s2[i] = s[i - 1]
  <2>1. \A i \in 2 .. Len(s2) : i - 1 \in 1 .. Len(s) /\ (i - 1) + 1 = i
    BY <1>2, <1>3
  <2> QED
    BY <2>1, <1>3
<1>5. ASSUME NEW i \in 1 .. Len(s2) - 1
      PROVE  CalledBy(s2[i], s2[i + 1])
  <2>1. CASE i = 1
    <3>1. s2[2] = s[1]
      BY <1>2, <1>3, <1>4
    <3> QED
      BY <1>2, <1>3, <2>1, <3>1
  <2>2. CASE i # 1
    <3>1. i \in 2 .. Len(s2) /\ i + 1 \in 2 .. Len(s2) /\ (i + 1) - 1 = (i - 1) + 1
          /\ i - 1 \in 1 .. Len(s) - 1
      BY <1>2, <1>3, <2>2
    <3>2. s2[i] = s[i - 1] /\ s2[i + 1] = s[(i - 1) + 1]
      BY <1>4, <3>1
    <3> QED
      BY <3>1, <3>2 DEF Grammar
  <2> QED
    BY <2>1, <2>2
<1>6. ASSUME NEW i \in 1 .. Len(s2) - 2, s2[i].at \in Restores
      PROVE  Right(s2[i].prev, s2[i], s2[i + 1], s2[i + 2])
  <2>1. CASE i = 1
    <3>1. s2[2] = s[1] /\ s2[3] = s[2] /\ Len(s) > 1
      BY <1>2, <1>3, <1>4, <2>1
    <3>2. Head(s).at # "loop"
      BY <1>2, <3>1 DEF Shape
    <3>3. Head(Tail(s)) = s[2]
      BY <3>2, TailsOf
    <3> QED
      BY <1>2, <1>3, <1>6, <2>1, <3>1, <3>2, <3>3
  <2>2. CASE i # 1
    <3>1. /\ i \in 2 .. Len(s2) /\ i + 1 \in 2 .. Len(s2) /\ i + 2 \in 2 .. Len(s2)
          /\ (i + 1) - 1 = (i - 1) + 1 /\ (i + 2) - 1 = (i - 1) + 2
          /\ i - 1 \in 1 .. Len(s) - 2
      BY <1>2, <1>3, <2>2, SMTT(20)
    <3>2. s2[i] = s[i - 1] /\ s2[i + 1] = s[(i - 1) + 1] /\ s2[i + 2] = s[(i - 1) + 2]
      BY <1>4, <3>1
    <3> QED
      BY <1>6, <3>1, <3>2 DEF Grammar
  <2> QED
    BY <2>1, <2>2
<1> QED
  BY <1>5, <1>6 DEF Grammar, s2

\* The top activation and what it leaves.
LEMMA GrammarPopped ==
  ASSUME NEW s, Shape(s), Grammar(s), Head(s).at # "loop"
  PROVE  /\ Grammar(Tail(s)) /\ CalledBy(Head(s), Head(Tail(s)))
         /\ Head(Tail(s)).at # "loop" /\ Head(s).at \in Restores
              => Right(Head(s).prev, Head(s), Head(Tail(s)), Head(Tail(Tail(s))))
<1> DEFINE r == Tail(s)
<1>1. /\ Len(s) \in Nat /\ Len(s) > 1 /\ Head(s) = s[1] /\ Head(r) = s[2] /\ Shape(r)
      /\ Len(r) = Len(s) - 1 /\ \A i \in 1 .. Len(s) - 1 : r[i] = s[i + 1]
  BY TailsOf
<1> HIDE DEF r
<1>2. CalledBy(s[1], s[2])
  BY <1>1 DEF Grammar
<1>3. ASSUME NEW i \in 1 .. Len(r) - 1
      PROVE  CalledBy(r[i], r[i + 1])
  <2>1. i \in 1 .. Len(s) - 1 /\ i + 1 \in 1 .. Len(s) - 1
    BY <1>1
  <2>2. r[i] = s[i + 1] /\ r[i + 1] = s[(i + 1) + 1]
    BY <1>1, <2>1
  <2> QED
    BY <2>1, <2>2 DEF Grammar
<1>4. ASSUME NEW i \in 1 .. Len(r) - 2, r[i].at \in Restores
      PROVE  Right(r[i].prev, r[i], r[i + 1], r[i + 2])
  <2>1. /\ i \in 1 .. Len(s) - 1 /\ i + 1 \in 1 .. Len(s) - 2 /\ i + 1 \in 1 .. Len(s) - 1
        /\ i + 2 \in 1 .. Len(s) - 1 /\ (i + 2) + 1 = (i + 1) + 2
    BY <1>1
  <2>2. r[i] = s[i + 1] /\ r[i + 1] = s[(i + 1) + 1] /\ r[i + 2] = s[(i + 1) + 2]
    BY <1>1, <2>1
  <2> QED
    BY <1>4, <2>1, <2>2 DEF Grammar
<1>5. ASSUME Head(r).at # "loop", Head(s).at \in Restores
      PROVE  Right(Head(s).prev, Head(s), Head(r), Head(Tail(r)))
  <2>1. Len(r) > 1 /\ Head(Tail(r)) = r[2]
    BY <1>1, <1>5, TailsOf
  <2>2. r[2] = s[3] /\ 1 \in 1 .. Len(s) - 2 /\ 1 + 1 = 2 /\ 1 + 2 = 3
    BY <1>1, <2>1
  <2> QED
    BY <1>1, <1>5, <2>1, <2>2 DEF Grammar
<1> QED
  BY <1>1, <1>2, <1>3, <1>4, <1>5 DEF Grammar, r

\* What is on top afterwards.
LEMMA TailOfFront ==
  ASSUME NEW s \in Seq(Activations), NEW f \in Activations
  PROVE  Tail(<<f>> \o s) = s
<1> DEFINE s2 == <<f>> \o s
<1>1. /\ s2 \in Seq(Activations) /\ s2 # <<>> /\ Len(s2) = Len(s) + 1
      /\ \A i \in 1 .. Len(s) : s2[i + 1] = s[i]
  BY Front
<1> HIDE DEF s2
<1>2. /\ Tail(s2) \in Seq(Activations) /\ Len(Tail(s2)) = Len(s2) - 1
      /\ \A i \in 1 .. Len(Tail(s2)) : Tail(s2)[i] = s2[i + 1]
  BY <1>1, HeadTailProperties
<1>3. Len(s) \in Nat
  OBVIOUS
<1>4. Len(Tail(s2)) = Len(s) /\ \A i \in 1 .. Len(s) : Tail(s2)[i] = s[i]
  BY <1>1, <1>2, <1>3
<1>5. Tail(s2) = s
  BY <1>2, <1>4, SeqEqual
<1> QED
  BY <1>5 DEF s2

\* The activations below the top called the ones above.
LEMMA BelowIs ==
  ASSUME IInv, CurInv, Top.at # "loop"
  PROVE  /\ Shape(Tail(stack)) /\ Grammar(Tail(stack)) /\ Tail(stack) \in Seq(Activations)
         /\ Below \in Activations /\ Below.at \in Callers
         /\ CalledBy(Top, Below)
         /\ Below.at # "loop" /\ Top.at \in Restores => Right(Top.prev, Top, Below, BelowThat)
<1>1. Shape(stack) /\ Grammar(stack) /\ Head(stack) = Top
  BY DEF IInv, Frames, CurInv, Top
<1>2. Shape(Tail(stack)) /\ Head(Tail(stack)).at \in Callers
  BY <1>1, Popped
<1>3. Tail(stack) \in Seq(Activations) /\ Tail(stack) # <<>>
  BY <1>2 DEF Shape
<1>4. Head(Tail(stack)) \in Activations
  BY <1>3, HeadTailProperties, EmptySeq
<1> QED
  BY <1>1, <1>2, <1>3, <1>4, GrammarPopped DEF Below, BelowThat

LEMMA Entered ==
  ASSUME IInv, CurInv, Top.at # "loop", NEW f, Above(f), stack' = <<f>> \o Tail(stack),
         CalledBy(f, Below),
         Below.at # "loop" /\ f.at \in Restores => Right(f.prev, f, Below, BelowThat),
         Own(f, cur', ret'), TopRight(f, Below, BelowThat, cur'), paused' => f.at = "wait"
  PROVE  CurInv' /\ Top' = f /\ Below' = Below /\ BelowThat' = BelowThat
<1>1. /\ Shape(Tail(stack)) /\ Grammar(Tail(stack)) /\ Tail(stack) \in Seq(Activations)
      /\ f \in Activations
  BY BelowIs DEF Above
<1>2. Grammar(stack')
  BY <1>1, GrammarPushed DEF Below, BelowThat
<1>3. Tail(stack') = Tail(stack) /\ Head(stack') = f
  BY <1>1, TailOfFront, Front
<1>4. Top' = f /\ Below' = Below /\ BelowThat' = BelowThat
  BY <1>3 DEF Top, Below, BelowThat
<1> QED
  BY <1>2, <1>4 DEF CurInv, PausedAtWait, At

LEMMA Pushed2 ==
  ASSUME IInv, CurInv, Top.at # "loop", NEW f, Above(f), NEW g, Above(g), g.at \in Callers,
         stack' = <<f, g>> \o Tail(stack),
         CalledBy(g, Below), CalledBy(f, g), f.at \notin Restores,
         Below.at # "loop" /\ g.at \in Restores => Right(g.prev, g, Below, BelowThat),
         Own(f, cur', ret'), Right(cur', f, g, Below), ~paused'
  PROVE  CurInv' /\ Top' = f /\ Below' = g /\ BelowThat' = Below
<1> DEFINE s == <<g>> \o Tail(stack)
<1>1. /\ Shape(Tail(stack)) /\ Grammar(Tail(stack)) /\ Tail(stack) \in Seq(Activations)
      /\ f \in Activations /\ g \in Activations /\ Top = Head(stack) /\ Shape(stack)
  BY BelowIs, TopIs DEF Above
<1>2. Grammar(s)
  BY <1>1, GrammarPushed DEF Below, BelowThat
<1>3. Shape(s) /\ Head(s) = g
  BY <1>1, Replaced
<1>4. s \in Seq(Activations) /\ Tail(s) = Tail(stack)
  BY <1>1, <1>3, TailOfFront DEF Shape
<1>5. stack' = <<f>> \o s
  BY <1>1, CalledFrom
<1> HIDE DEF s
<1>6. Grammar(stack')
  BY <1>1, <1>2, <1>3, <1>4, <1>5, GrammarPushed
<1>7. Tail(stack') = s /\ Head(stack') = f
  BY <1>1, <1>4, <1>5, TailOfFront, Front
<1>8. Top' = f /\ Below' = g /\ BelowThat' = Below
  BY <1>3, <1>4, <1>7 DEF Top, Below, BelowThat
<1> QED
  BY <1>6, <1>8 DEF CurInv, PausedAtWait, At, TopRight

LEMMA Left ==
  ASSUME IInv, CurInv, Top.at # "loop", stack' = Tail(stack), ~paused',
         Below.at \in {"drain", "continueOrPark"} => cur' = Below.tid,
         Below.at \in {"lifted", "stepNow"} => ret' = "lost" \/ cur' = Below.tid,
         Below.at = "stepped" => ret' = "consumed" \/ cur' = Below.tid,
         Below.at = "continueParked" /\ BelowThat.at = "continueOrPark"
           => cur' = BelowThat.tid
  PROVE  CurInv' /\ Top' = Below /\ Below' = BelowThat
<1>1. /\ Shape(Tail(stack)) /\ Grammar(Tail(stack)) /\ Below.at \in Callers
  BY BelowIs
<1>2. Top' = Below /\ Below' = BelowThat
  BY DEF Top, Below, BelowThat
<1>3. Own(Below, cur', ret')
  BY <1>1 DEF Own, OwnPoints, Callers
<1>4. TopRight(Below, BelowThat, BelowThat', cur')
  BY <1>1 DEF TopRight, Right, Callers, Restores, ResumePoints, ResumeAllPoints
<1>5. Grammar(stack')
  BY <1>1
<1> QED
  BY <1>2, <1>3, <1>4, <1>5 DEF CurInv, PausedAtWait

-----------------------------------------------------------------------------
(* Handlers                                                                *)

\* The stack and mThread are left alone.
LEMMA CurSame ==
  ASSUME CurInv, stack' = stack, cur' = cur, ret' = ret, paused' => paused
  PROVE  CurInv'
BY DEF CurInv, PausedAtWait, At, Top, Below, BelowThat

\* A handler goes on, to a point that takes mThread for its thread.
LEMMA HandlerOn ==
  ASSUME IInv, CurInv, Top.at \in HandlerPoints, NEW f, Above(f), f.at \in HandlerPoints,
         Become(f), Own(f, cur', ret'), paused' => f.at = "wait"
  PROVE  CurInv' /\ Top' = f /\ Below' = Below /\ BelowThat' = BelowThat
<1>1. Top.at # "loop" /\ f.at \notin Restores
  BY DEF HandlerPoints, Restores
<1>2. CalledBy(f, Below)
  BY <1>1, BelowIs
     DEF CalledBy, HandlerPoints, StepPastPoints, StepOffPoints, SwallowPoints,
         ResumePoints, ResumeAllPoints
<1>3. TopRight(f, Below, BelowThat, cur')
  BY DEF TopRight, Right, HandlerPoints, ResumePoints, ResumeAllPoints
<1> QED
  BY <1>1, <1>2, <1>3, Entered DEF Become

LEMMA HandlerOwn ==
  ASSUME IInv, CurInv, Top.at \in HandlerPoints, NEW f \in Activations, Become(f),
         f.at \in (HandlerPoints \cap OwnPoints) \ {"sweepWait"}, cur' = f.tid, ~paused'
  PROVE  CurInv' /\ Top' = f /\ Below' = Below /\ BelowThat' = BelowThat
<1>1. Own(f, cur', ret') /\ f.at \in HandlerPoints
  BY DEF Own, OwnPoints
<1>2. Above(f)
  BY DEF Above, HandlerPoints
<1> QED
  BY <1>1, <1>2, HandlerOn

LEMMA HandlerPauses ==
  ASSUME IInv, CurInv, Top.at \in HandlerPoints, NEW t \in Tid, cur' # NoTid,
         Become(Frame("wait", t))
  PROVE  CurInv' /\ Top'.at = "wait" /\ Top'.tid = t
<1> DEFINE f == Frame("wait", t)
<1>1. f \in Activations /\ f.at = "wait" /\ f.tid = t
  BY FrameIs DEF Points
<1>2. Become(f)
  OBVIOUS
<1> HIDE DEF f
<1>3. Above(f) /\ f.at \in HandlerPoints /\ Own(f, cur', ret')
  BY <1>1 DEF Above, HandlerPoints, Own, OwnPoints
<1>4. CurInv' /\ Top' = f
  BY <1>1, <1>2, <1>3, HandlerOn
<1> QED
  BY <1>1, <1>4

\* A handler ends: debugLoop and the step over a byte go on without mThread.
LEMMA HandlerReturns ==
  ASSUME IInv, CurInv, Top.at \in HandlerPoints, Return, ~paused'
  PROVE  CurInv' /\ Top' = Below
<1>1. Top.at # "loop"
  BY DEF HandlerPoints
<1>2. Below.at \in {"loop", "stepTaken"}
  BY <1>1, BelowIs DEF CalledBy
<1> QED
  BY <1>1, <1>2, Left DEF Return

\* Nobody pauses but where the tracer waits.
LEMMA NotPaused ==
  ASSUME CurInv, Top.at # "wait"
  PROVE  ~paused
BY DEF CurInv, PausedAtWait, At

LEMMA ParksOrPauses ==
  ASSUME IInv, CurInv, Top.at \in HandlerPoints \ {"wait"}, NEW t \in Tid, cur' # NoTid,
         PauseIfAlone(t)
  PROVE  CurInv'
<1>1. CASE AnyRunning
  BY <1>1, NotPaused, HandlerReturns DEF PauseIfAlone
<1>2. CASE ~AnyRunning
  BY <1>2, HandlerPauses DEF PauseIfAlone, BeginPause
<1> QED
  BY <1>1, <1>2

LEMMA TopOwn ==
  ASSUME IInv, CurInv, Top.at \in OwnPoints
  PROVE  cur = Top.tid /\ cur \in Tid /\ cur # NoTid
BY TopIs DEF CurInv, Own

LEMMA StopForSuspendCur ==
  ASSUME IInv, CurInv, StopForSuspend
  PROVE  CurInv'
<1> DEFINE t == Top.tid
           resumed == t \in pendSuspend /\ ~Suspended(t)
           f == [Top EXCEPT !.at = "stopForResumes", !.resumed = resumed]
<1>1. /\ Top.at = "stop" /\ cur' = cur /\ ret' = ret
      /\ PauseIfAlone(t) \/ (Become(f) /\ UNCHANGED <<paused, allStopped>>)
  BY DEF StopForSuspend, At
<1>2. Top.at \in HandlerPoints \ {"wait"} /\ Top.at \in OwnPoints
  BY <1>1 DEF HandlerPoints, OwnPoints
<1>3. cur' = t /\ t \in Tid /\ cur' # NoTid /\ ~paused
  BY <1>1, <1>2, TopOwn, NotPaused
<1>4. CASE Become(f) /\ UNCHANGED <<paused, allStopped>>
  <2>1. resumed \in BOOLEAN /\ Top \in Activations
    BY TopIs
  <2>2. f \in Activations /\ f.at = "stopForResumes" /\ f.tid = t
    <3> HIDE DEF resumed
    <3> QED
      BY <2>1, ZenonT(60) DEF Activations, Points
  <2> HIDE DEF f, t
  <2> QED
    BY <1>2, <1>3, <1>4, <2>2, HandlerOwn DEF HandlerPoints, OwnPoints
<1> QED
  BY <1>1, <1>2, <1>3, <1>4, ParksOrPauses

\* The frames a handler goes on to.
LEMMA HandlerStopsAll ==
  ASSUME IInv, CurInv, Top.at \in HandlerPoints, ~paused', NEW t \in Tid, cur' = t,
         NEW why \in Reasons, Become(StopAll(t, why))
  PROVE  CurInv' /\ Top' = StopAll(t, why)
BY KindsOfFrame, HandlerOwn DEF HandlerPoints, OwnPoints

LEMMA HandlerContinues ==
  ASSUME IInv, CurInv, Top.at \in HandlerPoints, ~paused', NEW t \in Tid, cur' = t,
         NEW sig \in BOOLEAN, NEW park \in BOOLEAN, Become(ContinueOrPark(t, sig, park))
  PROVE  CurInv' /\ Top'.at = "continueOrPark" /\ Top'.tid = t
<1>1. CurInv' /\ Top' = ContinueOrPark(t, sig, park)
  BY KindsOfFrame, HandlerOwn DEF HandlerPoints, OwnPoints
<1> QED
  BY <1>1, KindsOfFrame

LEMMA HandlerResumes ==
  ASSUME IInv, CurInv, Top.at \in HandlerPoints, ~paused', NEW t \in Tid, cur' = t,
         NEW park \in BOOLEAN, Become(ResumeFrom(t, park))
  PROVE  CurInv' /\ Top'.at = "cont" /\ Top'.tid = t
<1>1. CurInv' /\ Top' = ResumeFrom(t, park)
  BY KindsOfFrame, HandlerOwn DEF HandlerPoints, OwnPoints
<1> QED
  BY <1>1, KindsOfFrame

LEMMA HandlerAt ==
  ASSUME IInv, CurInv, Top.at \in HandlerPoints, ~paused', NEW t \in Tid, cur' = t,
         NEW p \in (HandlerPoints \cap OwnPoints) \ {"sweepWait"}, Become(Frame(p, t))
  PROVE  CurInv' /\ Top' = Frame(p, t)
<1>1. p \in Points
  BY DEF HandlerPoints, Points
<1> QED
  BY <1>1, FrameIs, HandlerOwn

\* handleSignal puts an activation for the thread that stopped on top, and makes it mThread.
HandlerOf(why) == IF why \in {"stop", "sig", "clone", "exit"} THEN why ELSE "trap"
LEMMA HandleSignalCur ==
  ASSUME IInv, NEW t \in Tid, NEW ths, NEW below, HandleSignal(t, ths, below), ~paused',
         Shape(below), Grammar(below), Head(below).at \in {"loop", "stepTaken"}
  PROVE  CurInv' /\ Top'.at = HandlerOf(k[t].status) /\ Top'.tid = t
           /\ Top'.ran = th[t].running /\ Top'.susp = Suspended(t)
<1> DEFINE why == k[t].status
           ran == th[t].running
           susp == Suspended(t)
           g == Frame(HandlerOf(why), t)
           f == [g EXCEPT !.why = why, !.ran = ran, !.susp = susp]
<1>1. stack' = <<f>> \o below /\ cur' = t
  BY DEF HandleSignal, HandlerOf
<1>2. why \in Reasons /\ ran \in BOOLEAN /\ susp \in BOOLEAN
  BY DEF IInv, Threads, KernelThread, Reasons, ThreadRecords, Suspended
<1>3. HandlerOf(why) \in Points \cap HandlerPoints \cap OwnPoints
        /\ HandlerOf(why) \notin {"sweepWait", "loop", "steppedOff"}
  BY DEF HandlerOf, Points, HandlerPoints, OwnPoints
<1>4. g \in Activations /\ g.at = HandlerOf(why) /\ g.tid = t
  <2> HIDE DEF why
  <2> QED
    BY <1>3, FrameIs
<1>5. f \in Activations /\ f.at = HandlerOf(why) /\ f.tid = t /\ f.ran = ran /\ f.susp = susp
  <2> HIDE DEF g, why, ran, susp
  <2> QED
    BY <1>2, <1>4 DEF Activations
<1> HIDE DEF f
<1>6. CalledBy(f, Head(below)) /\ f.at \notin Restores
  BY <1>3, <1>5 DEF CalledBy, HandlerPoints, StepPastPoints, StepOffPoints, SwallowPoints,
                    ResumePoints, ResumeAllPoints, Restores
<1>7. below \in Seq(Activations)
  BY DEF Shape
<1>8. Grammar(stack') /\ Head(stack') = f
  BY <1>1, <1>5, <1>6, <1>7, GrammarPushed, Front
<1>9. Own(f, cur', ret')
  BY <1>1, <1>3, <1>5 DEF Own
<1>10. Right(cur', f, Below', BelowThat')
  BY <1>3, <1>5 DEF Right, HandlerPoints, ResumePoints, ResumeAllPoints
<1> QED
  BY <1>5, <1>8, <1>9, <1>10 DEF CurInv, TopRight, PausedAtWait, Top

LEMMA WaitAnyCur ==
  ASSUME IInv, CurInv, NEW t \in Tid, WaitAny(t)
  PROVE  CurInv' /\ Top'.at = HandlerOf(k[t].status) /\ Top'.tid = t
           /\ Top'.ran = th[t].running /\ Top'.susp = Suspended(t)
<1>1. Top.at = "loop" /\ HandleSignal(t, th, stack) /\ paused' = paused
  BY DEF WaitAny, At, userVars
<1>2. Shape(stack) /\ Grammar(stack) /\ Head(stack).at = "loop" /\ ~paused
  BY <1>1, TopIs, NotPaused DEF CurInv
<1> QED
  BY <1>1, <1>2, HandleSignalCur

LEMMA ReapCur ==
  ASSUME IInv, CurInv, NEW t \in Tid, Reap(t)
  PROVE  CurInv'
<1>1. Top.at = "loop" /\ stack' = stack /\ ret' = ret /\ paused' = paused
  BY DEF Reap, At
<1>2. Own(Top, cur', ret') /\ TopRight(Top, Below, BelowThat, cur')
  BY <1>1 DEF Own, OwnPoints, TopRight, Right, ResumePoints, ResumeAllPoints
<1> QED
  BY <1>1, <1>2 DEF CurInv, PausedAtWait, At, Top, Below, BelowThat

LEMMA StopForResumesCur ==
  ASSUME IInv, CurInv, StopForResumes
  PROVE  CurInv'
<1>1. /\ Top.at = "stopForResumes" /\ cur' = cur /\ ret' = ret /\ paused' = paused
      /\ \/ Become(StopAll(Top.tid, "resume")) \/ Become(Frame("takeResumes", Top.tid))
         \/ Become(Moved(Top, "stopForPause"))
  BY DEF StopForResumes, At, Moved
<1>2. /\ Top.at \in HandlerPoints /\ cur' = Top.tid /\ Top.tid \in Tid /\ ~paused'
      /\ Top \in Activations
  BY <1>1, TopOwn, NotPaused, TopIs DEF HandlerPoints, OwnPoints
<1>3. CASE Become(Moved(Top, "stopForPause"))
  <2>1. /\ Moved(Top, "stopForPause") \in Activations
        /\ Moved(Top, "stopForPause").at = "stopForPause"
        /\ Moved(Top, "stopForPause").tid = Top.tid
    BY <1>2, MovedIs DEF Points, SameThreads
  <2> QED
    BY <1>2, <1>3, <2>1, HandlerOwn DEF HandlerPoints, OwnPoints
<1>4. CASE Become(StopAll(Top.tid, "resume"))
  BY <1>2, <1>4, HandlerStopsAll DEF Reasons
<1>5. CASE Become(Frame("takeResumes", Top.tid))
  BY <1>2, <1>5, HandlerAt DEF HandlerPoints, OwnPoints
<1> QED
  BY <1>1, <1>3, <1>4, <1>5

LEMMA StopForPauseCur ==
  ASSUME IInv, CurInv, StopForPause
  PROVE  CurInv'
<1>1. /\ Top.at = "stopForPause" /\ cur' = cur /\ ret' = ret /\ paused' = paused
      /\ \/ Become(StopAll(Top.tid, "paused")) \/ Return
         \/ Become(ContinueOrPark(Top.tid, FALSE, FALSE))
  BY DEF StopForPause, At
<1>2. /\ Top.at \in HandlerPoints /\ cur' = Top.tid /\ Top.tid \in Tid /\ ~paused'
  BY <1>1, TopOwn, NotPaused DEF HandlerPoints, OwnPoints
<1> QED
  BY <1>1, <1>2, HandlerStopsAll, HandlerReturns, HandlerContinues DEF Reasons

LEMMA HandleSigtrapCur ==
  ASSUME IInv, CurInv, HandleSigtrap
  PROVE  CurInv'
<1>1. /\ Top.at = "trap" /\ cur' = cur /\ ret' = ret /\ paused' = paused
      /\ \/ Become(StopAll(Top.tid, "step")) \/ Become(StopAll(Top.tid, "breakpoint"))
         \/ Become(StopAll(Top.tid, "exception"))
         \/ Become(ContinueOrPark(Top.tid, FALSE, FALSE))
  BY DEF HandleSigtrap, At, userVars
<1>2. /\ Top.at \in HandlerPoints /\ cur' = Top.tid /\ Top.tid \in Tid /\ ~paused'
  BY <1>1, TopOwn, NotPaused DEF HandlerPoints, OwnPoints
<1> QED
  BY <1>1, <1>2, HandlerStopsAll, HandlerContinues DEF Reasons

LEMMA ReportSignalCur ==
  ASSUME IInv, CurInv, ReportSignal
  PROVE  CurInv'
<1>1. /\ Top.at = "sig" /\ cur' = cur /\ ret' = ret /\ paused' = paused
      /\ Become(StopAll(Top.tid, "exception"))
  BY DEF ReportSignal, At, userVars
<1>2. /\ Top.at \in HandlerPoints /\ cur' = Top.tid /\ Top.tid \in Tid /\ ~paused'
  BY <1>1, TopOwn, NotPaused DEF HandlerPoints, OwnPoints
<1> QED
  BY <1>1, <1>2, HandlerStopsAll DEF Reasons

LEMMA HandleCloneCur ==
  ASSUME IInv, CurInv, HandleClone
  PROVE  CurInv'
<1>1. /\ Top.at = "clone" /\ cur' = cur /\ ret' = ret /\ paused' = paused
      /\ \/ Become(StopAll(Top.tid, "step"))
         \/ Become(ContinueOrPark(Top.tid, FALSE, FALSE))
  BY DEF HandleClone, At, userVars
<1>2. /\ Top.at \in HandlerPoints /\ cur' = Top.tid /\ Top.tid \in Tid /\ ~paused'
  BY <1>1, TopOwn, NotPaused DEF HandlerPoints, OwnPoints
<1> QED
  BY <1>1, <1>2, HandlerStopsAll, HandlerContinues DEF Reasons

LEMMA HandleExitCur ==
  ASSUME IInv, CurInv, HandleExit
  PROVE  CurInv'
<1>1. Top.at = "exit" /\ paused' = paused /\ Return
  BY DEF HandleExit, At, userVars
<1> QED
  BY <1>1, NotPaused, HandlerReturns DEF HandlerPoints

\* The sweep: the thread that is waited for is never the one that is reported.
LEMMA SweepAskCur ==
  ASSUME IInv, CurInv, NEW t \in Tid, SweepAsk(t)
  PROVE  CurInv'
<1> DEFINE f == [Top EXCEPT !.at = "sweepWait", !.who = t]
<1>1. /\ Top.at = "sweep" /\ cur' = cur /\ ret' = ret /\ paused' = paused
      /\ t # Top.tid /\ Become(f)
  BY DEF SweepAsk, At, userVars
<1>2. /\ Top.at \in HandlerPoints /\ cur' = Top.tid /\ Top.tid \in Tid /\ ~paused'
      /\ Top \in Activations
  BY <1>1, TopOwn, NotPaused, TopIs DEF HandlerPoints, OwnPoints
<1>3. f \in Activations /\ f.at = "sweepWait" /\ f.tid = Top.tid /\ f.who = t
  BY <1>2 DEF Activations, Points
<1> HIDE DEF f
<1>4. Above(f) /\ f.at \in HandlerPoints /\ Own(f, cur', ret')
  BY <1>1, <1>2, <1>3 DEF Above, HandlerPoints, Own
<1> QED
  BY <1>1, <1>2, <1>4, HandlerOn

LEMMA SweepOnCur ==
  ASSUME IInv, CurInv, Top.at = "sweepWait", Become([Top EXCEPT !.at = "sweep"]),
         cur' = cur, ret' = ret, paused' = paused
  PROVE  CurInv' /\ Top' = [Top EXCEPT !.at = "sweep"]
<1>1. /\ Top.at \in HandlerPoints /\ cur' = Top.tid /\ Top.tid \in Tid /\ ~paused'
      /\ Top \in Activations
  BY TopOwn, NotPaused, TopIs DEF HandlerPoints, OwnPoints
<1>2. /\ Moved(Top, "sweep") \in Activations /\ Moved(Top, "sweep").at = "sweep"
      /\ Moved(Top, "sweep").tid = Top.tid
  BY <1>1, MovedIs DEF Points, SameThreads
<1>3. Become(Moved(Top, "sweep"))
  BY DEF Moved
<1>4. CurInv' /\ Top' = Moved(Top, "sweep")
  BY <1>1, <1>2, <1>3, HandlerOwn DEF HandlerPoints, OwnPoints
<1> QED
  BY <1>4 DEF Moved

LEMMA SweepStepsCur ==
  ASSUME IInv, CurInv,
         SweepTake \/ SweepClone \/ SweepExit \/ SweepReap \/ SweepGone \/ SweepTimeout
  PROVE  CurInv' /\ Top.at = "sweepWait" /\ Top' = [Top EXCEPT !.at = "sweep"]
<1>1. /\ Top.at = "sweepWait" /\ Become([Top EXCEPT !.at = "sweep"]) /\ ret' = ret
      /\ paused' = paused
      /\ cur' = cur \/ cur = Top.who
  BY DEF SweepTake, SweepClone, SweepExit, SweepReap, SweepGone, SweepTimeout, At, userVars,
         ExitThreadEvent
<1>2. cur = Top.tid /\ Top.who # Top.tid
  BY <1>1 DEF CurInv, Own, OwnPoints
<1> QED
  BY <1>1, <1>2, SweepOnCur

LEMMA SweepDoneCur ==
  ASSUME IInv, CurInv, SweepDone
  PROVE  CurInv' /\ Top'.at = "wait"
<1>1. /\ Top.at = "sweep" /\ cur' = cur /\ Become(Frame("wait", Top.tid))
  BY DEF SweepDone, At, BeginPause
<1>2. /\ Top.at \in HandlerPoints /\ cur' # NoTid /\ Top.tid \in Tid
  BY <1>1, TopOwn DEF HandlerPoints, OwnPoints
<1> QED
  BY <1>1, <1>2, HandlerPauses

\* The kernel and the user leave the tracer's stack alone.
LEMMA SwitchThreadCur ==
  ASSUME IInv, CurInv, NEW t \in Tid, SwitchThread(t)
  PROVE  CurInv'
<1>1. paused /\ cur' = t /\ stack' = stack /\ ret' = ret /\ paused' = paused
  BY DEF SwitchThread, userVars
<1>2. Top.at = "wait" /\ t # NoTid
  BY <1>1 DEF CurInv, PausedAtWait, At
<1>3. Own(Top, cur', ret') /\ TopRight(Top, Below, BelowThat, cur')
  BY <1>1, <1>2 DEF Own, OwnPoints, TopRight, Right, ResumePoints, ResumeAllPoints
<1> QED
  BY <1>1, <1>3 DEF CurInv, PausedAtWait, At, Top, Below, BelowThat

\* The calls an activation makes do not change with its locals.
LEMMA CalledByAlike ==
  ASSUME NEW f, NEW f2, NEW g, NEW h, f2.at = f.at, f2.tid = f.tid
  PROVE  /\ CalledBy(f, g) => CalledBy(f2, g)
         /\ CalledBy(h, f) => CalledBy(h, f2)
BY DEF CalledBy

LEMMA TakePendingResumesCur ==
  ASSUME IInv, CurInv, TakePendingResumes
  PROVE  CurInv' /\ Top'.at = "drain"
<1> DEFINE d == Frame("drain", Top.tid)
           f == WithTodo(d, pendResume)
<1>1. Top.at = "takeResumes" /\ Become(f) /\ cur' = cur /\ paused' = paused
  BY DEF TakePendingResumes, At, WithTodo, Become
<1>2. /\ Top.at \in HandlerPoints /\ cur' = Top.tid /\ Top.tid \in Tid /\ ~paused'
  BY <1>1, TopOwn, NotPaused DEF HandlerPoints, OwnPoints
<1>3. pendResume \subseteq Tid
  BY DEF IInv, Current
<1>4. d \in Activations /\ d.at = "drain" /\ d.tid = Top.tid
  BY <1>2, FrameIs DEF Points
<1> HIDE DEF d
<1>5. f \in Activations /\ f.at = "drain" /\ f.tid = Top.tid
  BY <1>3, <1>4 DEF Activations, WithTodo
<1> HIDE DEF f
<1> QED
  BY <1>1, <1>2, <1>5, HandlerOwn DEF HandlerPoints, OwnPoints

\* One thread after the other is resumed.
LEMMA CallsResumeCur ==
  ASSUME IInv, CurInv, Top.at \in {"drain", "continueParked"}, NEW t \in Top.todo,
         Call(Frame("resume", t), [Top EXCEPT !.todo = @ \ {t}]), cur' = cur, paused' = paused
  PROVE  CurInv' /\ Top'.at = "resume"
<1> DEFINE f == Frame("resume", t)
           g == Without(Top, t)
<1>1. t \in Tid /\ Top \in Activations /\ ~paused' /\ Top.at # "loop"
  BY TopIs, NotPaused DEF Activations
<1>2. f \in Activations /\ f.at = "resume" /\ f.tid = t
  BY <1>1, FrameIs DEF Points
<1>3. g \in Activations /\ g.at = Top.at /\ g.tid = Top.tid
  BY <1>1, WithoutIs DEF SameThreads
<1>4. stack' = <<f, g>> \o Tail(stack)
  BY DEF Call, Without
<1> HIDE DEF f, g
<1>5. CalledBy(g, Below)
  BY <1>1, <1>3, BelowIs, CalledByAlike
<1>6. CalledBy(f, g) /\ f.at \notin Restores /\ g.at \notin Restores
  BY <1>2, <1>3 DEF CalledBy, HandlerPoints, StepPastPoints, StepOffPoints, SwallowPoints,
                    ResumePoints, ResumeAllPoints, Restores
<1>7. Own(f, cur', ret')
  BY <1>2 DEF Own, OwnPoints
<1>8. Right(cur', f, g, Below)
  <2>1. Top.at = "drain" => cur = Top.tid
    BY TopOwn DEF OwnPoints
  <2>2. Top.at = "continueParked" /\ Below.at = "continueOrPark" => cur = Below.tid
    BY DEF CurInv, TopRight, Right, Restores, ResumeAllPoints
  <2> QED
    BY <1>2, <1>3, <2>1, <2>2 DEF Right, ResumePoints, ResumeAllPoints
<1>9. Above(f) /\ Above(g) /\ g.at \in Callers
  BY <1>2, <1>3 DEF Above, Callers
<1> QED
  BY <1>1, <1>2, <1>4, <1>5, <1>6, <1>7, <1>8, <1>9, Pushed2

LEMMA DrainPendingResumesCur ==
  ASSUME IInv, CurInv, DrainPendingResumes
  PROVE  CurInv' /\ Top'.at \in {"continueOrPark", "resume"}
<1>1. /\ Top.at = "drain" /\ cur' = cur /\ paused' = paused
      /\ \/ Become(ContinueOrPark(Top.tid, FALSE, FALSE))
         \/ \E t \in Top.todo : Call(Frame("resume", t), [Top EXCEPT !.todo = @ \ {t}])
  BY DEF DrainPendingResumes, At, userVars
<1>2. /\ Top.at \in HandlerPoints /\ cur' = Top.tid /\ Top.tid \in Tid /\ ~paused'
  BY <1>1, TopOwn, NotPaused DEF HandlerPoints, OwnPoints
<1> QED
  BY <1>1, <1>2, HandlerContinues, CallsResumeCur

\* The resume of one thread ends with mThread as it began.
LEMMA ResumeReturns ==
  ASSUME IInv, CurInv, Top.at \in ResumePoints, Return, ~paused',
         Right(cur', Top, Below, BelowThat)
  PROVE  CurInv' /\ Top'.at \in {"drain", "continueParked"}
<1>1. Top.at # "loop"
  BY DEF ResumePoints
<1>2. Below.at \in {"drain", "continueParked"}
  BY <1>1, BelowIs DEF CalledBy
<1>3. /\ Below.at = "drain" => cur' = Below.tid
      /\ Below.at = "continueParked" /\ BelowThat.at = "continueOrPark"
           => cur' = BelowThat.tid
  BY DEF Right
<1> QED
  BY <1>1, <1>2, <1>3, Left DEF Return

LEMMA ResumeGoesOn ==
  ASSUME IInv, CurInv, Top.at \in ResumePoints, Become(Frame("resumeNow", Top.tid)), ~paused',
         Right(cur', Top, Below, BelowThat)
  PROVE  CurInv' /\ Top'.at = "resumeNow"
<1> DEFINE f == Frame("resumeNow", Top.tid)
<1>1. f \in Activations /\ f.at = "resumeNow" /\ f.tid = Top.tid
  BY TopIs, FrameIs DEF Points
<1>2. Top.at # "loop" /\ stack' = <<f>> \o Tail(stack)
  BY DEF ResumePoints, Become
<1> HIDE DEF f
<1>3. CalledBy(f, Below)
  BY <1>1, <1>2, BelowIs
     DEF CalledBy, HandlerPoints, StepPastPoints, StepOffPoints, SwallowPoints, ResumePoints,
         ResumeAllPoints
<1>4. f.at \notin Restores /\ Own(f, cur', ret') /\ Above(f)
  BY <1>1 DEF Restores, Own, OwnPoints, Above
<1>5. TopRight(f, Below, BelowThat, cur')
  BY <1>1 DEF TopRight, Right, ResumePoints, ResumeAllPoints
<1> QED
  BY <1>1, <1>2, <1>3, <1>4, <1>5, Entered

\* A step over the byte is called as the thread it is for, and mThread is put away.
LEMMA StepOffAsCur ==
  ASSUME IInv, CurInv, NEW t \in Tid, Top.at \in {"resume", "stepOff"}, paused' = paused,
         NEW next \in Activations, next.at \in Restores,
         next.at = "steppedOff" => next.who \in Tid,
         next.at = "resumed" <=> Top.at = "resume",
         StepOffAs(t, next)
  PROVE  CurInv' /\ Top'.at = "stepPast" /\ Below'.at = next.at
<1> DEFINE f == Frame("stepPast", t)
           g == WithPrev(next, cur)
<1>1. cur' = t /\ stack' = <<f, g>> \o Tail(stack)
  BY DEF StepOffAs, Call, WithPrev
<1>2. cur \in Tid \cup {NoTid} /\ ~paused' /\ Top.at # "loop"
  BY NotPaused DEF IInv, Current
<1>3. /\ g \in Activations /\ g.at = next.at /\ g.who = next.who /\ g.prev = cur
  BY <1>2 DEF Activations, WithPrev
<1>4. f \in Activations /\ f.at = "stepPast" /\ f.tid = t
  BY FrameIs DEF Points
<1> HIDE DEF f, g
<1>5. CalledBy(f, g) /\ f.at \notin Restores
  BY <1>3, <1>4 DEF CalledBy, HandlerPoints, StepPastPoints, StepOffPoints, SwallowPoints,
                    ResumePoints, ResumeAllPoints, Restores
<1>6. CalledBy(g, Below)
  BY <1>2, <1>3, BelowIs
     DEF CalledBy, HandlerPoints, StepPastPoints, StepOffPoints, SwallowPoints,
         ResumePoints, ResumeAllPoints, Restores
<1>7. Right(g.prev, g, Below, BelowThat)
  BY <1>3 DEF CurInv, TopRight, Right, Restores, ResumePoints, ResumeAllPoints
<1>8. Own(f, cur', ret') /\ Right(cur', f, g, Below)
  BY <1>1, <1>4 DEF Own, OwnPoints, Right, ResumePoints, ResumeAllPoints
<1>9. Above(f) /\ Above(g) /\ g.at \in Callers
  BY <1>3, <1>4 DEF Above, Callers, Restores
<1>10. CurInv' /\ Top' = f /\ Below' = g
  BY <1>1, <1>2, <1>5, <1>6, <1>7, <1>8, <1>9, Pushed2
<1> QED
  BY <1>3, <1>4, <1>10

LEMMA ResumeStoppedThreadCur ==
  ASSUME IInv, CurInv, ResumeStoppedThread
  PROVE  /\ CurInv'
         /\ \/ Top'.at \in {"drain", "continueParked", "resumeNow"}
            \/ Top'.at = "stepPast" /\ Below'.at = "resumed"
<1> DEFINE t == Top.tid
           next == Frame("resumed", t)
<1>1. /\ Top.at = "resume" /\ paused' = paused
      /\ \/ Return /\ cur' = cur
         \/ StepOffAs(t, next)
         \/ Become(Frame("resumeNow", t)) /\ cur' = cur
  BY DEF ResumeStoppedThread, At, userVars
<1>2. t \in Tid /\ ~paused' /\ Top.at \in ResumePoints /\ Right(cur, Top, Below, BelowThat)
  BY <1>1, TopIs, NotPaused DEF CurInv, TopRight, ResumePoints, Restores
<1>3. next \in Activations /\ next.at = "resumed"
  BY <1>2, FrameIs DEF Points
<1> HIDE DEF next
<1>4. CASE StepOffAs(t, next)
  BY <1>1, <1>2, <1>3, <1>4, StepOffAsCur DEF Restores
<1>5. CASE Return /\ cur' = cur
  BY <1>1, <1>2, <1>5, ResumeReturns
<1>6. CASE Become(Frame("resumeNow", t)) /\ cur' = cur
  BY <1>1, <1>2, <1>6, ResumeGoesOn
<1> QED
  BY <1>1, <1>4, <1>5, <1>6

LEMMA ResumeSteppedOffCur ==
  ASSUME IInv, CurInv, ResumeSteppedOff
  PROVE  CurInv' /\ Top'.at \in {"drain", "continueParked", "resumeNow"}
<1>1. /\ Top.at = "resumed" /\ paused' = paused /\ cur' = Top.prev
      /\ Return \/ Become(Frame("resumeNow", Top.tid))
  BY DEF ResumeSteppedOff, At, userVars, SteppedOff
<1>2. Below.at \in {"drain", "continueParked"} /\ Top.at # "loop" /\ Top.at \in ResumePoints
  BY <1>1, BelowIs DEF CalledBy, ResumePoints
<1>3. Right(cur', Top, Below, BelowThat) /\ ~paused'
  BY <1>1, <1>2, BelowIs, NotPaused DEF Restores
<1> QED
  BY <1>1, <1>2, <1>3, ResumeReturns, ResumeGoesOn

LEMMA ResumeNowCur ==
  ASSUME IInv, CurInv, ResumeNow
  PROVE  CurInv' /\ Top'.at \in {"drain", "continueParked"}
<1>1. Top.at = "resumeNow" /\ paused' = paused /\ cur' = cur /\ Return
  BY DEF ResumeNow, At, userVars
<1>2. Top.at \in ResumePoints /\ Right(cur', Top, Below, BelowThat) /\ ~paused'
  BY <1>1, NotPaused DEF CurInv, TopRight, ResumePoints, Restores
<1> QED
  BY <1>1, <1>2, ResumeReturns

\* resumeAllThreads goes on with mThread as it was.
LEMMA ResumesAllOn ==
  ASSUME IInv, CurInv, Top.at \in ResumeAllPoints, NEW f, Above(f), Become(f), ~paused',
         f.at \in ResumeAllPoints \ Restores, Right(cur', Top, Below, BelowThat)
  PROVE  CurInv' /\ Top' = f
<1>1. Top.at # "loop" /\ f.at \notin Restores
  BY DEF ResumeAllPoints
<1>2. CalledBy(f, Below)
  BY <1>1, BelowIs
     DEF CalledBy, HandlerPoints, StepPastPoints, StepOffPoints, SwallowPoints, ResumePoints,
         ResumeAllPoints
<1>3. TopRight(f, Below, BelowThat, cur') /\ Own(f, cur', ret')
  BY DEF TopRight, Right, Own, OwnPoints, ResumePoints, ResumeAllPoints
<1> QED
  BY <1>1, <1>2, <1>3, Entered DEF Become

LEMMA StepOffCur ==
  ASSUME IInv, CurInv, StepOff
  PROVE  /\ CurInv'
         /\ \/ Top'.at \in {"stepOff", "continueRest"}
            \/ Top'.at = "stepPast" /\ Below'.at = "steppedOff"
<1> DEFINE f == [Top EXCEPT !.at = "continueRest", !.todo = Top.rest]
           Goes(t) == [Without(Top, t) EXCEPT !.at = "steppedOff", !.who = t]
<1>1. /\ Top.at = "stepOff" /\ paused' = paused
      /\ \/ Become(f) /\ cur' = cur
         \/ \E t \in Top.todo : \/ Become(Without(Top, t)) /\ cur' = cur
                                \/ StepOffAs(t, Goes(t))
  BY DEF StepOff, At, userVars, Without
<1>2. /\ Top \in Activations /\ ~paused' /\ Top.todo \subseteq Tid /\ Top.at \in ResumeAllPoints
      /\ Right(cur, Top, Below, BelowThat)
  BY <1>1, TopIs, NotPaused DEF Activations, CurInv, TopRight, ResumeAllPoints, Restores
<1>3. CASE Become(f) /\ cur' = cur
  <2>1. f \in Activations /\ f.at = "continueRest"
    BY <1>2 DEF Activations, Points
  <2> HIDE DEF f
  <2>2. Above(f) /\ f.at \in ResumeAllPoints \ Restores
    BY <2>1 DEF Above, ResumeAllPoints, Restores
  <2> QED
    BY <1>2, <1>3, <2>1, <2>2, ResumesAllOn
<1>4. ASSUME NEW t \in Top.todo, Become(Without(Top, t)), cur' = cur
      PROVE  CurInv' /\ Top'.at = "stepOff"
  <2>1. Without(Top, t) \in Activations /\ Without(Top, t).at = "stepOff"
    BY <1>1, <1>2, WithoutIs
  <2>2. Above(Without(Top, t)) /\ Without(Top, t).at \in ResumeAllPoints \ Restores
    BY <2>1 DEF Above, ResumeAllPoints, Restores
  <2> QED
    BY <1>2, <1>4, <2>1, <2>2, ResumesAllOn
<1>5. ASSUME NEW t \in Top.todo, StepOffAs(t, Goes(t))
      PROVE  CurInv' /\ Top'.at = "stepPast" /\ Below'.at = "steppedOff"
  <2> DEFINE g == Goes(t)
  <2>1. t \in Tid /\ Without(Top, t) \in Activations
    BY <1>2, WithoutIs
  <2>2. g \in Activations /\ g.at = "steppedOff" /\ g.who = t
    BY <2>1 DEF Activations, Points
  <2>3. StepOffAs(t, g)
    BY <1>5
  <2> HIDE DEF g
  <2> QED
    BY <1>1, <2>1, <2>2, <2>3, StepOffAsCur DEF Restores
<1> QED
  BY <1>1, <1>3, <1>4, <1>5

LEMMA AfterStepOffCur ==
  ASSUME IInv, CurInv, AfterStepOff
  PROVE  CurInv' /\ Top'.at = "stepOff"
<1> DEFINE left == IF ret = "parked" THEN {Top.who} ELSE {}
           d == Frame("stepOff", Top.tid)
           f == [d EXCEPT !.todo = Top.todo, !.rest = Top.rest \ left,
                          !.parked = Top.parked \cup left]
<1>1. Top.at = "steppedOff" /\ paused' = paused /\ cur' = Top.prev /\ Become(f)
  BY DEF AfterStepOff, At, userVars, SteppedOff
<1>2. /\ Top \in Activations /\ ~paused' /\ Top.tid \in Tid /\ Top.at # "loop"
      /\ left \subseteq Tid
  <2>1. Shape(stack) /\ Top = Head(stack) /\ Top.at = "steppedOff"
    BY <1>1, TopIs
  <2>2. Top = stack[1] /\ 1 \in 1 .. Len(stack)
    BY <2>1, TailsOf
  <2>3. Top.who \in Tid
    BY <2>1, <2>2 DEF Shape
  <2> QED
    BY <1>1, <2>3, TopIs, NotPaused
<1> HIDE DEF left
<1>3. d \in Activations /\ d.at = "stepOff"
  BY <1>2, FrameIs DEF Points
<1> HIDE DEF d
<1>4. f \in Activations /\ f.at = "stepOff"
  BY <1>2, <1>3 DEF Activations
<1> HIDE DEF f
<1>5. Right(cur', Top, Below, BelowThat)
  <2>1. CASE Below.at = "loop"
    BY <1>1, <2>1 DEF Right, ResumePoints
  <2>2. CASE Below.at # "loop"
    BY <1>1, <2>2, BelowIs DEF Restores
  <2> QED
    BY <2>1, <2>2
<1>6. Above(f) /\ Top.at \in ResumeAllPoints /\ f.at \in ResumeAllPoints \ Restores
  BY <1>1, <1>4 DEF Above, ResumeAllPoints, Restores
<1> QED
  BY <1>1, <1>2, <1>4, <1>5, <1>6, ResumesAllOn

LEMMA ContinueRestCur ==
  ASSUME IInv, CurInv, ContinueRest
  PROVE  CurInv' /\ Top'.at \in {"continueRest", "continueParked"}
<1> DEFINE f == [Top EXCEPT !.at = "continueParked", !.todo = Top.parked]
<1>1. /\ Top.at = "continueRest" /\ paused' = paused /\ cur' = cur
      /\ \/ Become(f)
         \/ \E t \in Top.todo : Become(Without(Top, t))
  BY DEF ContinueRest, At, userVars, Without
<1>2. /\ Top \in Activations /\ ~paused' /\ Top.at \in ResumeAllPoints
      /\ Right(cur', Top, Below, BelowThat)
  BY <1>1, TopIs, NotPaused DEF CurInv, TopRight, ResumeAllPoints, Restores
<1>3. CASE Become(f)
  <2>1. f \in Activations /\ f.at = "continueParked"
    BY <1>2 DEF Activations, Points
  <2> HIDE DEF f
  <2>2. Above(f) /\ f.at \in ResumeAllPoints \ Restores
    BY <2>1 DEF Above, ResumeAllPoints, Restores
  <2> QED
    BY <1>2, <1>3, <2>1, <2>2, ResumesAllOn
<1>4. ASSUME NEW t \in Top.todo, Become(Without(Top, t))
      PROVE  CurInv' /\ Top'.at = "continueRest"
  <2>1. Without(Top, t) \in Activations /\ Without(Top, t).at = "continueRest"
    BY <1>1, <1>2, WithoutIs
  <2>2. Above(Without(Top, t)) /\ Without(Top, t).at \in ResumeAllPoints \ Restores
    BY <2>1 DEF Above, ResumeAllPoints, Restores
  <2> QED
    BY <1>2, <1>4, <2>1, <2>2, ResumesAllOn
<1> QED
  BY <1>1, <1>3, <1>4

LEMMA ContinueParkedCur ==
  ASSUME IInv, CurInv, ContinueParked
  PROVE  CurInv' /\ Top'.at \in {"continueOrPark", "loop", "stepTaken", "resume"}
<1>1. /\ Top.at = "continueParked" /\ paused' = paused /\ cur' = cur
      /\ \/ Return
         \/ \E t \in Top.todo : Call(Frame("resume", t), [Top EXCEPT !.todo = @ \ {t}])
  BY DEF ContinueParked, At, userVars
<1>2. CASE Return
  <2>1. Below.at \in {"continueOrPark", "loop", "stepTaken"} /\ Top.at # "loop" /\ ~paused'
    BY <1>1, BelowIs, NotPaused DEF CalledBy, ResumeAllPoints
  <2>2. Below.at = "continueOrPark" => cur' = Below.tid
    BY <1>1 DEF CurInv, TopRight, Right, Restores, ResumeAllPoints
  <2> QED
    BY <1>2, <2>1, <2>2, Left DEF Return
<1> QED
  BY <1>1, <1>2, CallsResumeCur

LEMMA ProceedCur ==
  ASSUME IInv, CurInv, Proceed
  PROVE  CurInv' /\ cur = Top.tid
<1>1. /\ Top.at = "continueOrPark" /\ cur' = cur
      /\ PauseIfAlone(Top.tid) \/ (Return /\ paused' = paused)
  BY DEF Proceed, At
<1>2. /\ Top.at \in HandlerPoints \ {"wait"} /\ cur = Top.tid /\ Top.tid \in Tid
      /\ cur' # NoTid /\ ~paused
  BY <1>1, TopOwn, NotPaused DEF HandlerPoints, OwnPoints
<1> QED
  BY <1>1, <1>2, ParksOrPauses, HandlerReturns

\* Draining a SIGSTOP ends where it was called, for the same thread.
LEMMA SwallowReturns ==
  ASSUME IInv, CurInv, Top.at \in SwallowPoints, Return, ~paused',
         ret' = "lost" \/ cur' = cur
  PROVE  CurInv' /\ Top' = Below /\ Below' = BelowThat
           /\ Below.at \in {"lifted", "stepNow"} /\ Below.tid = Top.tid
<1>1. Below.at \in {"lifted", "stepNow"} /\ Below.tid = Top.tid /\ Top.at # "loop"
  BY BelowIs DEF CalledBy, SwallowPoints
<1>2. cur = Top.tid
  BY TopOwn DEF OwnPoints, SwallowPoints
<1> QED
  BY <1>1, <1>2, Left DEF Return

LEMMA SwallowCur ==
  ASSUME IInv, CurInv, Swallow
  PROVE  /\ CurInv' /\ Below.at \in {"lifted", "stepNow"} /\ Below.tid = Top.tid
         /\ cur = Top.tid
         /\ Return => Top' = Below /\ Below' = BelowThat
         /\ ~Return => /\ Top'.at = "swallowWait" /\ Top'.tid = Top.tid
                       /\ Below' = Below /\ BelowThat' = BelowThat
<1> DEFINE f == Frame("swallowWait", Top.tid)
<1>1. /\ Top.at = "swallow" /\ paused' = paused /\ cur' = cur
      /\ Return \/ Become(f)
  BY DEF Swallow, At, userVars
<1>2. /\ ~paused' /\ Top.at \in SwallowPoints /\ cur = Top.tid /\ Top.tid \in Tid
      /\ Top.at # "loop"
  BY <1>1, TopOwn, NotPaused DEF SwallowPoints, OwnPoints
<1>3. CASE Return
  BY <1>1, <1>2, <1>3, SwallowReturns
<1>4. CASE Become(f) /\ ~Return
  <2>1. f \in Activations /\ f.at = "swallowWait" /\ f.tid = Top.tid
    BY <1>2, FrameIs DEF Points
  <2> HIDE DEF f
  <2>2. CalledBy(f, Below) /\ Below.at \in {"lifted", "stepNow"} /\ Below.tid = Top.tid
    BY <1>2, <2>1, BelowIs
       DEF CalledBy, HandlerPoints, StepPastPoints, StepOffPoints, SwallowPoints, ResumePoints,
           ResumeAllPoints
  <2>3. /\ f.at \notin Restores /\ Own(f, cur', ret') /\ Above(f)
        /\ TopRight(f, Below, BelowThat, cur')
    BY <1>1, <1>2, <2>1 DEF Restores, Own, Above, TopRight, Right, ResumePoints, ResumeAllPoints
  <2> QED
    BY <1>2, <1>4, <2>1, <2>2, <2>3, Entered DEF Become
<1> QED
  BY <1>1, <1>3, <1>4

LEMMA SwallowTakeCur ==
  ASSUME IInv, CurInv, SwallowTake
  PROVE  /\ CurInv' /\ Below.at \in {"lifted", "stepNow"} /\ Below.tid = Top.tid
         /\ cur = Top.tid
         /\ \/ Return /\ Top' = Below /\ Below' = BelowThat
            \/ Top' = Top /\ Below' = Below /\ BelowThat' = BelowThat
<1>1. /\ Top.at = "swallowWait" /\ paused' = paused /\ cur' = cur
      /\ Return \/ (stack' = stack /\ ret' = ret)
  BY DEF SwallowTake, At, userVars
<1>2. /\ ~paused' /\ Top.at \in SwallowPoints /\ cur = Top.tid /\ Top.at # "loop"
  BY <1>1, TopOwn, NotPaused DEF SwallowPoints, OwnPoints
<1>3. Below.at \in {"lifted", "stepNow"} /\ Below.tid = Top.tid
  BY <1>2, BelowIs DEF CalledBy
<1>4. CASE Return
  BY <1>1, <1>2, <1>4, SwallowReturns
<1>5. CASE stack' = stack /\ ret' = ret
  BY <1>1, <1>2, <1>3, <1>5, CurSame DEF Top, Below, BelowThat
<1> QED
  BY <1>1, <1>2, <1>3, <1>4, <1>5

LEMMA SwallowLostCur ==
  ASSUME IInv, CurInv, SwallowLost
  PROVE  /\ CurInv' /\ Top' = Below /\ Below' = BelowThat
         /\ Below.at \in {"lifted", "stepNow"} /\ Below.tid = Top.tid
<1>1. Top.at = "swallowWait" /\ paused' = paused /\ ret' = "lost" /\ Return
  BY DEF SwallowLost, At
<1>2. ~paused' /\ Top.at \in SwallowPoints
  BY <1>1, NotPaused DEF SwallowPoints
<1> QED
  BY <1>1, <1>2, SwallowReturns

LEMMA StepPastCur ==
  ASSUME IInv, CurInv, StepPast
  PROVE  /\ CurInv' /\ Top'.at = "swallow" /\ Top'.tid = Top.tid /\ Below'.at = "lifted"
         /\ BelowThat' = Below
<1> DEFINE t == Top.tid
           addr == IF k[t].at \in armed THEN k[t].at ELSE NoAddr
           d == Frame("lifted", t)
           f == Frame("swallow", t)
           g == [d EXCEPT !.sig = curSig, !.addr = addr]
<1>1. /\ Top.at = "stepPast" /\ paused' = paused /\ cur' = cur
      /\ stack' = <<f, g>> \o Tail(stack)
  BY DEF StepPast, At, Call, userVars
<1>2. /\ cur = t /\ t \in Tid /\ ~paused' /\ Top.at # "loop"
  BY <1>1, TopOwn, NotPaused DEF OwnPoints
<1>3. addr \in Addr \cup {NoAddr} /\ curSig \in BOOLEAN
  BY DEF IInv, Bytes, Flags
<1> HIDE DEF addr
<1>4. d \in Activations /\ d.at = "lifted" /\ d.tid = t
  BY <1>2, FrameIs DEF Points
<1>5. f \in Activations /\ f.at = "swallow" /\ f.tid = t
  BY <1>2, FrameIs DEF Points
<1> HIDE DEF d, f
<1>6. g \in Activations /\ g.at = "lifted" /\ g.tid = t
  BY <1>3, <1>4 DEF Activations
<1> HIDE DEF g
<1>7. CalledBy(g, Below)
  BY <1>1, <1>2, <1>6, BelowIs
     DEF CalledBy, HandlerPoints, StepPastPoints, StepOffPoints, SwallowPoints, ResumePoints,
         ResumeAllPoints
<1>8. CalledBy(f, g) /\ f.at \notin Restores /\ g.at \notin Restores
  BY <1>5, <1>6 DEF CalledBy, HandlerPoints, StepPastPoints, StepOffPoints, SwallowPoints,
                    ResumePoints, ResumeAllPoints, Restores
<1>9. Own(f, cur', ret') /\ Right(cur', f, g, Below)
  BY <1>1, <1>2, <1>5 DEF Own, Right, ResumePoints, ResumeAllPoints
<1>10. Above(f) /\ Above(g) /\ g.at \in Callers
  BY <1>5, <1>6 DEF Above, Callers
<1>11. CurInv' /\ Top' = f /\ Below' = g /\ BelowThat' = Below
  BY <1>1, <1>2, <1>7, <1>8, <1>9, <1>10, Pushed2
<1> QED
  BY <1>5, <1>6, <1>11

\* The step over the byte tells its caller how it ended.
LEMMA StepPastReturns ==
  ASSUME IInv, CurInv, Top.at \in StepPastPoints, Return, ~paused',
         ret' = "consumed" \/ cur' = Top.tid
  PROVE  /\ CurInv' /\ Top' = Below
         /\ Below.at \in {"resumed", "stepped", "steppedOff"}
         /\ Below.at = "stepped" => Below.tid = Top.tid
<1>1. /\ Below.at \in {"resumed", "stepped", "steppedOff"} /\ Top.at # "loop"
      /\ Below.at = "stepped" => Below.tid = Top.tid
  BY BelowIs DEF CalledBy, StepPastPoints, StepOffPoints
<1> QED
  BY <1>1, Left DEF Return

LEMMA StepOffTheByteCur ==
  ASSUME IInv, CurInv, StepOffTheByte
  PROVE  /\ CurInv' /\ (ret # "lost" => cur = Top.tid)
         /\ \/ /\ Return /\ Top' = Below
               /\ Below.at \in {"resumed", "stepped", "steppedOff"}
            \/ /\ ~Return /\ Top'.at = "stepWait" /\ Top'.tid = Top.tid
               /\ Below' = Below /\ ret' = ret
<1> DEFINE f == [Top EXCEPT !.at = "stepWait", !.sig = FALSE]
<1>1. /\ Top.at = "lifted" /\ paused' = paused /\ cur' = cur
      /\ \/ Return /\ (ret # "lost" \/ ret' = "consumed")
         \/ Become(f) /\ ret # "lost" /\ ret' = ret
  BY DEF StepOffTheByte, At, userVars
<1>2. /\ ~paused' /\ Top.at \in StepPastPoints /\ (ret # "lost" => cur = Top.tid)
      /\ Top.at # "loop" /\ Top \in Activations
  BY <1>1, NotPaused, TopIs DEF StepPastPoints, StepOffPoints, CurInv, Own
<1>3. CASE Return /\ (ret # "lost" \/ ret' = "consumed")
  BY <1>1, <1>2, <1>3, StepPastReturns
<1>4. CASE Become(f) /\ ret # "lost" /\ ret' = ret /\ ~Return
  <2>1. f \in Activations /\ f.at = "stepWait" /\ f.tid = Top.tid
    BY <1>2, ZenonT(60) DEF Activations, Points
  <2> HIDE DEF f
  <2>2. CalledBy(f, Below)
    BY <1>2, <2>1, BelowIs
       DEF CalledBy, HandlerPoints, StepPastPoints, StepOffPoints, SwallowPoints, ResumePoints,
           ResumeAllPoints
  <2>3. /\ f.at \notin Restores /\ Own(f, cur', ret') /\ Above(f)
        /\ TopRight(f, Below, BelowThat, cur')
    BY <1>1, <1>2, <1>4, <2>1
       DEF Restores, Own, Above, TopRight, Right, ResumePoints, ResumeAllPoints
  <2> QED
    BY <1>2, <1>4, <2>1, <2>2, <2>3, Entered DEF Become
<1> QED
  BY <1>1, <1>2, <1>3, <1>4

LEMMA StepTakenCur ==
  ASSUME IInv, CurInv, StepTaken
  PROVE  /\ CurInv'
         /\ \/ /\ Return /\ Top' = Below
               /\ k[Top.tid].status \in {"step", "int3", "clone", "exit"}
               /\ Below.at \in {"resumed", "stepped", "steppedOff"}
            \/ /\ ~(k[Top.tid].status \in {"step", "int3", "clone", "exit"})
               /\ Top'.at = HandlerOf(k[Top.tid].status) /\ Top'.tid = Top.tid
<1> DEFINE t == Top.tid
           d == Frame("stepTaken", t)
           ths == ClearSingleStep(th, t)
           below == <<d>> \o Tail(stack)
<1>1. /\ Top.at = "stepWait" /\ paused' = paused
      /\ \/ k[t].status \in {"step", "int3", "clone", "exit"} /\ Return /\ cur' = cur
         \/ ~(k[t].status \in {"step", "int3", "clone", "exit"}) /\ HandleSignal(t, ths, below)
  BY DEF StepTaken, At, userVars
<1>2. /\ ~paused' /\ Top.at \in StepPastPoints /\ cur = t /\ t \in Tid /\ Top.at # "loop"
  BY <1>1, NotPaused, TopOwn DEF StepPastPoints, StepOffPoints, OwnPoints
<1>3. CASE k[t].status \in {"step", "int3", "clone", "exit"} /\ Return /\ cur' = cur
  BY <1>1, <1>2, <1>3, StepPastReturns
<1>4. CASE /\ ~(k[t].status \in {"step", "int3", "clone", "exit"})
           /\ HandleSignal(t, ths, below)
  <2>1. d \in Activations /\ d.at = "stepTaken" /\ d.tid = t
    BY <1>2, FrameIs DEF Points
  <2> HIDE DEF d, ths
  <2>2. /\ Shape(Tail(stack)) /\ Grammar(Tail(stack)) /\ CalledBy(Top, Below)
        /\ Tail(stack) \in Seq(Activations)
    BY <1>2, BelowIs
  <2>3. CalledBy(d, Below) /\ d.at \notin Restores
    BY <1>1, <1>2, <2>1, <2>2 DEF CalledBy, HandlerPoints, StepPastPoints, StepOffPoints,
       SwallowPoints, ResumePoints, ResumeAllPoints, Restores
  <2>4. Grammar(below)
    BY <2>1, <2>2, <2>3, GrammarPushed DEF Below
  <2>5. Shape(below) /\ Head(below) = d
    BY <1>2, <2>1, TopIs, Replaced DEF Above
  <2> HIDE DEF below
  <2> QED
    BY <1>2, <1>4, <2>1, <2>4, <2>5, HandleSignalCur
<1> QED
  BY <1>1, <1>3, <1>4

LEMMA StepConsumedCur ==
  ASSUME IInv, CurInv, StepConsumed
  PROVE  /\ CurInv' /\ Top' = Below /\ Below.at \in {"resumed", "stepped", "steppedOff"}
         /\ ret' = "consumed"
<1>1. Top.at = "stepTaken" /\ paused' = paused /\ ret' = "consumed" /\ Return
  BY DEF StepConsumed, At, userVars
<1>2. ~paused' /\ Top.at \in StepPastPoints
  BY <1>1, NotPaused DEF StepPastPoints, StepOffPoints
<1> QED
  BY <1>1, <1>2, StepPastReturns

\* pauseAndResume.
LEMMA WakeCur ==
  ASSUME IInv, CurInv, Wake
  PROVE  CurInv' /\ Top'.at = "pend" /\ cur \in Tid
<1> DEFINE t == IF cur = NoTid THEN Top.tid ELSE cur
<1>1. Top.at = "wait" /\ ~paused' /\ cur' = cur /\ Become(Frame("pend", t))
  BY DEF Wake, At, userVars
<1>2. cur # NoTid /\ cur \in Tid
  BY <1>1 DEF CurInv, Own, IInv, Current
<1>3. t = cur
  BY <1>2
<1> HIDE DEF t
<1>4. Become(Frame("pend", cur)) /\ cur' = cur
  BY <1>1, <1>3
<1>5. CurInv' /\ Top' = Frame("pend", cur)
  BY <1>1, <1>2, <1>4, HandlerAt DEF HandlerPoints, OwnPoints
<1>6. Frame("pend", cur).at = "pend"
  BY <1>2, FrameIs DEF Points
<1> QED
  BY <1>2, <1>5, <1>6

LEMMA ReportPendingHitCur ==
  ASSUME IInv, CurInv, NEW t \in Tid, ReportPendingHit(t)
  PROVE  CurInv' /\ (Top'.at = "wait" \/ Top' = Top)
<1>1. /\ Top.at = "pend" /\ ret' = ret
      /\ \/ cur' = t /\ BeginPause(t)
         \/ UNCHANGED <<cur, paused, stack>>
  BY DEF ReportPendingHit, At
<1>2. Top.at \in HandlerPoints /\ t # NoTid
  BY <1>1 DEF HandlerPoints
<1> QED
  BY <1>1, <1>2, HandlerPauses, CurSame DEF BeginPause, Top

LEMMA ReportPendingSignalCur ==
  ASSUME IInv, CurInv, NEW t \in Tid, ReportPendingSignal(t)
  PROVE  CurInv' /\ Top'.at = "wait"
<1>1. Top.at = "pend" /\ cur' = t /\ BeginPause(t)
  BY DEF ReportPendingSignal, At
<1>2. Top.at \in HandlerPoints /\ t # NoTid
  BY <1>1 DEF HandlerPoints
<1> QED
  BY <1>1, <1>2, HandlerPauses DEF BeginPause

LEMMA NothingPendingCur ==
  ASSUME IInv, CurInv, NothingPending
  PROVE  CurInv' /\ Top'.at = "decide"
<1>1. Top.at = "pend" /\ cur' = cur /\ paused' = paused /\ Become(Frame("decide", Top.tid))
  BY DEF NothingPending, At, userVars
<1>2. /\ Top.at \in HandlerPoints /\ cur' = Top.tid /\ Top.tid \in Tid /\ ~paused'
  BY <1>1, TopOwn, NotPaused DEF HandlerPoints, OwnPoints
<1>3. CurInv' /\ Top' = Frame("decide", Top.tid)
  BY <1>1, <1>2, HandlerAt DEF HandlerPoints, OwnPoints
<1>4. Frame("decide", Top.tid).at = "decide"
  BY <1>2, FrameIs DEF Points
<1> QED
  BY <1>3, <1>4

\* A handler calls a function for its thread.
LEMMA HandlerCalls ==
  ASSUME IInv, CurInv, Top.at \in HandlerPoints, ~paused', NEW t \in Tid, cur' = t,
         NEW p, NEW q, <<p, q>> \in {<<"swallow", "stepNow">>, <<"stepPast", "stepped">>},
         Call(Frame(p, t), Frame(q, t))
  PROVE  CurInv' /\ Top'.at = p /\ Top'.tid = t /\ Below'.at = q
<1> DEFINE f == Frame(p, t)
           g == Frame(q, t)
<1>1. p \in {"swallow", "stepPast"} /\ q \in {"stepNow", "stepped"}
  OBVIOUS
<1>2. p \in Points /\ q \in Points
  BY <1>1 DEF Points
<1>3. f \in Activations /\ f.at = p /\ f.tid = t /\ g \in Activations /\ g.at = q /\ g.tid = t
  BY <1>2, FrameIs
<1>4. stack' = <<f, g>> \o Tail(stack) /\ Top.at # "loop"
  BY DEF Call, HandlerPoints
<1> HIDE DEF f, g
<1>5. CalledBy(g, Below)
  BY <1>1, <1>3, <1>4, BelowIs
     DEF CalledBy, HandlerPoints, StepPastPoints, StepOffPoints, SwallowPoints, ResumePoints,
         ResumeAllPoints
<1>6. CalledBy(f, g) /\ f.at \notin Restores /\ g.at \notin Restores
  BY <1>3 DEF CalledBy, HandlerPoints, StepPastPoints, StepOffPoints, SwallowPoints,
              ResumePoints, ResumeAllPoints, Restores
<1>7. Own(f, cur', ret') /\ Right(cur', f, g, Below)
  BY <1>1, <1>3 DEF Own, OwnPoints, Right, ResumePoints, ResumeAllPoints
<1>8. Above(f) /\ Above(g) /\ g.at \in Callers
  BY <1>1, <1>3 DEF Above, Callers
<1> QED
  BY <1>3, <1>4, <1>5, <1>6, <1>7, <1>8, Pushed2

LEMMA DecideStepCur ==
  ASSUME IInv, CurInv, DecideStep
  PROVE  /\ CurInv' /\ cur = Top.tid
         /\ \/ Top'.at = "wait"
            \/ Top'.at = "swallow" /\ Top'.tid = Top.tid /\ Below'.at = "stepNow"
<1>1. /\ Top.at = "decide" /\ cur' = cur
      /\ \/ BeginPause(Top.tid)
         \/ Call(Frame("swallow", Top.tid), Frame("stepNow", Top.tid)) /\ paused' = paused
  BY DEF DecideStep, At
<1>2. /\ Top.at \in HandlerPoints /\ cur' = Top.tid /\ Top.tid \in Tid /\ ~paused
      /\ cur' # NoTid /\ cur = Top.tid
  BY <1>1, TopOwn, NotPaused DEF HandlerPoints, OwnPoints
<1> QED
  BY <1>1, <1>2, HandlerPauses, HandlerCalls DEF BeginPause

LEMMA DecideContinueCur ==
  ASSUME IInv, CurInv, DecideContinue
  PROVE  CurInv' /\ (Top'.at = "cont" \/ (Top'.at = "stepPast" /\ Below'.at = "stepped"))
<1>1. /\ Top.at = "decide" /\ cur' = cur /\ paused' = paused
      /\ \/ Become(ResumeFrom(Top.tid, FALSE))
         \/ Call(Frame("stepPast", Top.tid), Frame("stepped", Top.tid))
  BY DEF DecideContinue, At, userVars
<1>2. /\ Top.at \in HandlerPoints /\ cur' = Top.tid /\ Top.tid \in Tid /\ ~paused'
  BY <1>1, TopOwn, NotPaused DEF HandlerPoints, OwnPoints
<1>3. CASE Become(ResumeFrom(Top.tid, FALSE))
  BY <1>2, <1>3, HandlerResumes
<1>4. CASE Call(Frame("stepPast", Top.tid), Frame("stepped", Top.tid))
  BY <1>2, <1>4, HandlerCalls
<1> QED
  BY <1>1, <1>3, <1>4

\* resumeAllThreads, with nothing after it or with what continues the thread.
LEMMA ResumesAllAt ==
  ASSUME NEW t \in Tid, NEW T \in SUBSET Tid
  PROVE  /\ ResumesAll(t, T) \in Activations /\ ResumesAll(t, T).at = "stepOff"
         /\ Above(ResumesAll(t, T))
<1> DEFINE d == Frame("stepOff", t)
           f == ResumesAll(t, T)
<1>1. d \in Activations /\ d.at = "stepOff"
  BY FrameIs DEF Points
<1>2. f = [d EXCEPT !.todo = T, !.rest = T]
  BY DEF ResumesAll
<1> HIDE DEF d, f
<1>3. f \in Activations /\ f.at = "stepOff"
  BY <1>1, <1>2 DEF Activations
<1> QED
  BY <1>3 DEF Above, f

LEMMA HandlerAbandons ==
  ASSUME IInv, CurInv, Top.at \in HandlerPoints, ~paused', NEW t \in Tid, AbandonAllStop(t)
  PROVE  CurInv' /\ Top'.at \in {"stepOff", "loop", "stepTaken"}
<1> DEFINE T == {u \in Tid \ ({t} \cup ResumeExcept) : Continuable(u)}
           f == ResumesAll(t, T)
<1>1. Top.at # "loop" /\ Below.at \in {"loop", "stepTaken"}
  BY BelowIs DEF CalledBy, HandlerPoints
<1>2. CASE Return
  BY <1>1, <1>2, HandlerReturns
<1>3. CASE stack' = <<f>> \o Tail(stack)
  <2>1. f \in Activations /\ f.at = "stepOff" /\ Above(f)
    BY ResumesAllAt
  <2> HIDE DEF f
  <2>2. CalledBy(f, Below) /\ f.at \notin Restores /\ Own(f, cur', ret')
    BY <1>1, <2>1 DEF CalledBy, HandlerPoints, StepPastPoints, StepOffPoints, SwallowPoints,
       ResumePoints, ResumeAllPoints, Restores, Own, OwnPoints
  <2>3. TopRight(f, Below, BelowThat, cur')
    BY <1>1, <2>1 DEF TopRight, Right, ResumePoints
  <2> QED
    BY <1>1, <1>3, <2>1, <2>2, <2>3, Entered
<1> QED
  BY <1>2, <1>3 DEF AbandonAllStop, ResumeAll, ResumesAll

LEMMA SteppedPastCur ==
  ASSUME IInv, CurInv, SteppedPast
  PROVE  /\ CurInv'
         /\ \/ Top'.at \in {"stepOff", "loop", "stepTaken"}
            \/ Top'.at = "cont" /\ ret # "consumed"
<1>1. /\ Top.at = "stepped" /\ paused' = paused /\ cur' = cur
      /\ \/ AbandonAllStop(Top.tid)
         \/ ret # "consumed" /\ Become(ResumeFrom(Top.tid, ret = "parked"))
  BY DEF SteppedPast, At, userVars
<1>2. /\ Top.at \in HandlerPoints /\ Top.tid \in Tid /\ ~paused'
      /\ ret # "consumed" => cur' = Top.tid
  BY <1>1, TopIs, NotPaused DEF HandlerPoints, CurInv, Own
<1>3. (ret = "parked") \in BOOLEAN
  OBVIOUS
<1>4. CASE AbandonAllStop(Top.tid)
  BY <1>2, <1>4, HandlerAbandons
<1>5. CASE ret # "consumed" /\ Become(ResumeFrom(Top.tid, ret = "parked"))
  BY <1>2, <1>3, <1>5, HandlerResumes
<1> QED
  BY <1>1, <1>4, <1>5

LEMMA StepNowCur ==
  ASSUME IInv, CurInv, StepNow
  PROVE  /\ CurInv' /\ (ret # "lost" => cur = Top.tid)
         /\ Top'.at \in {"wait", "stepOff", "loop", "stepTaken"}
<1>1. /\ Top.at = "stepNow" /\ cur' = cur
      /\ \/ AbandonAllStop(Top.tid) /\ paused' = paused
         \/ BeginPause(Top.tid) /\ CurSuspended
         \/ Return /\ paused' = paused
  BY DEF StepNow, At
<1>2. /\ Top.at \in HandlerPoints /\ Top.tid \in Tid /\ ~paused
      /\ ret # "lost" => cur = Top.tid
  BY <1>1, TopIs, NotPaused DEF HandlerPoints, CurInv, Own
<1>3. CASE AbandonAllStop(Top.tid) /\ paused' = paused
  BY <1>2, <1>3, HandlerAbandons
<1>4. CASE BeginPause(Top.tid) /\ CurSuspended
  BY <1>1, <1>2, <1>4, HandlerPauses DEF BeginPause, CurSuspended
<1>5. CASE Return /\ paused' = paused
  <2>1. Top.at # "loop"
    BY <1>1
  <2>2. Below.at \in {"loop", "stepTaken"}
    BY <1>2, <2>1, BelowIs DEF CalledBy
  <2> QED
    BY <1>2, <1>5, <2>2, HandlerReturns
<1> QED
  BY <1>1, <1>2, <1>3, <1>4, <1>5

LEMMA ContinueAllCur ==
  ASSUME IInv, CurInv, ContinueAll
  PROVE  /\ CurInv'
         /\ \/ Top'.at = "wait" /\ \A u \in Tid : th[u].known => Suspended(u)
            \/ Top'.at = "stepOff"
<1> DEFINE t == Top.tid
           T == {u \in Tid \ ({t} \cup ResumeExcept) : Continuable(u)}
           f == ResumesAll(t, T)
           g == ContinueOrPark(t, curSig, Top.park)
<1>1. /\ Top.at = "cont" /\ cur' = cur
      /\ \/ BeginPause(t) /\ \A u \in Tid : th[u].known => Suspended(u)
         \/ stack' = <<f>> \o (<<g>> \o Tail(stack)) /\ paused' = paused
  BY DEF ContinueAll, At, ResumeAll, ResumesAll
<1>2. /\ Top.at \in HandlerPoints /\ cur' = t /\ t \in Tid /\ ~paused /\ cur' # NoTid
      /\ Top.at # "loop"
  BY <1>1, TopOwn, NotPaused DEF HandlerPoints, OwnPoints
<1>3. CASE BeginPause(t) /\ \A u \in Tid : th[u].known => Suspended(u)
  BY <1>2, <1>3, HandlerPauses DEF BeginPause
<1>4. CASE stack' = <<f>> \o (<<g>> \o Tail(stack)) /\ paused' = paused
  <2>1. f \in Activations /\ f.at = "stepOff" /\ Above(f)
    BY <1>2, ResumesAllAt
  <2>2. curSig \in BOOLEAN /\ Top.park \in BOOLEAN
    BY TopIs DEF IInv, Flags, Activations
  <2>3. g \in Activations /\ g.at = "continueOrPark" /\ g.tid = t
    BY <1>2, <2>2, KindsOfFrame
  <2> HIDE DEF f, g
  <2>4. Above(g) /\ g.at \in Callers
    BY <2>3 DEF Above, Callers
  <2>5. stack' = <<f, g>> \o Tail(stack)
    BY <1>2, <1>4, <2>1, <2>4, TopIs, CalledFrom
  <2>6. CalledBy(g, Below)
    BY <1>2, <2>3, BelowIs
       DEF CalledBy, HandlerPoints, StepPastPoints, StepOffPoints, SwallowPoints, ResumePoints,
           ResumeAllPoints
  <2>7. CalledBy(f, g) /\ f.at \notin Restores /\ g.at \notin Restores
    BY <2>1, <2>3 DEF CalledBy, HandlerPoints, StepPastPoints, StepOffPoints, SwallowPoints,
                ResumePoints, ResumeAllPoints, Restores
  <2>8. Own(f, cur', ret') /\ Right(cur', f, g, Below)
    BY <1>2, <2>1, <2>3 DEF Own, OwnPoints, Right, ResumePoints, ResumeAllPoints
  <2> QED
    BY <1>2, <1>4, <2>1, <2>3, <2>4, <2>5, <2>6, <2>7, <2>8, Pushed2
<1> QED
  BY <1>1, <1>3, <1>4

-----------------------------------------------------------------------------
(* mThread is kept                                                         *)

LEMMA InitCurInv == Init => CurInv
<1> SUFFICES ASSUME Init
             PROVE  CurInv
  OBVIOUS
<1> DEFINE f == Frame("wait", Leader)
           g == Frame("loop", Leader)
<1>1. stack = <<f, g>> /\ cur = Leader
  BY DEF Init
<1>2. f \in Activations /\ f.at = "wait" /\ g \in Activations /\ g.at = "loop"
  BY FrameIs DEF Points
<1> HIDE DEF f, g
<1>3. Len(stack) = 2 /\ stack[1] = f /\ stack[2] = g /\ Top = f
  BY <1>1, <1>2 DEF Top
<1>4. CalledBy(f, g)
  BY <1>2 DEF CalledBy, HandlerPoints, StepPastPoints, StepOffPoints, SwallowPoints,
              ResumePoints, ResumeAllPoints
<1>5. Grammar(stack)
  <2>1. \A i \in 1 .. Len(stack) - 1 : i = 1
    BY <1>3
  <2>2. \A i \in 1 .. Len(stack) - 2 : FALSE
    BY <1>3
  <2> QED
    BY <1>3, <1>4, <2>1, <2>2 DEF Grammar
<1>6. Own(Top, cur, ret) /\ TopRight(Top, Below, BelowThat, cur) /\ PausedAtWait
  BY <1>1, <1>2, <1>3
     DEF Own, OwnPoints, TopRight, Right, ResumePoints, ResumeAllPoints, PausedAtWait, At
<1> QED
  BY <1>5, <1>6 DEF CurInv

\* What leaves the tracer's stack and mThread alone.
LEMMA KernelCur ==
  ASSUME CurInv, NEW t \in Tid, Kernel(t) \/ SendSignal(t)
  PROVE  CurInv' /\ Top' = Top
<1>1. stack' = stack /\ cur' = cur /\ ret' = ret /\ paused' = paused
  BY DEF Kernel, Execute, TakeSigstop, TakeSignal, Clone, Exit, Die, SendSignal,
         tracerVars, userVars
<1> QED
  BY <1>1, CurSame DEF Top

LEMMA UserCur ==
  ASSUME IInv, CurInv, User
  PROVE  CurInv' /\ stack' = stack /\ Top' = Top
<1>1. CASE Continue \/ StepInto \/ Pause \/ InterruptRunningThread
  <2>1. CASE Continue \/ StepInto
    <3>1. stack' = stack /\ cur' = cur /\ ret' = ret /\ paused' = FALSE
      BY <2>1 DEF Continue, StepInto, tracerVars
    <3> QED
      BY <3>1, CurSame DEF Top
  <2>2. CASE Pause \/ InterruptRunningThread
    <3>1. stack' = stack /\ cur' = cur /\ ret' = ret /\ paused' = paused
      BY <2>2 DEF Pause, InterruptRunningThread, tracerVars
    <3> QED
      BY <3>1, CurSame DEF Top
  <2> QED
    BY <1>1, <2>1, <2>2
<1>2. ASSUME NEW t \in Tid, SwitchThread(t)
      PROVE  CurInv' /\ stack' = stack /\ Top' = Top
  BY <1>2, SwitchThreadCur DEF SwitchThread, Top
<1>3. ASSUME NEW t \in Tid, Suspend(t) \/ Resume(t)
      PROVE  CurInv' /\ stack' = stack /\ Top' = Top
  <2>1. stack' = stack /\ cur' = cur /\ ret' = ret /\ paused' = paused
    BY <1>3 DEF Suspend, Resume
  <2> QED
    BY <2>1, CurSame DEF Top
<1>4. ASSUME NEW a \in Addr, SetBreakpoint(a) \/ DeleteBreakpoint(a)
      PROVE  CurInv' /\ stack' = stack /\ Top' = Top
  <2>1. stack' = stack /\ cur' = cur /\ ret' = ret /\ paused' = paused
    BY <1>4 DEF SetBreakpoint, DeleteBreakpoint, tracerVars, userVars
  <2> QED
    BY <2>1, CurSame DEF Top
<1> QED
  BY <1>1, <1>2, <1>3, <1>4 DEF User

LEMMA NextCurInv == IInv /\ CurInv /\ [Next]_vars => CurInv'
<1> SUFFICES ASSUME IInv, CurInv, [Next]_vars
             PROVE  CurInv'
  OBVIOUS
<1>1. ASSUME NEW t \in Tid, Kernel(t) \/ SendSignal(t)
      PROVE  CurInv'
  BY <1>1, KernelCur
<1>2. CASE User
  BY <1>2, UserCur
<1>3. CASE Loop
  <2>1. ASSUME NEW t \in Tid, WaitAny(t) \/ Reap(t)
        PROVE  CurInv'
    BY <2>1, WaitAnyCur, ReapCur
  <2> QED
    BY <1>3, <2>1, StopForSuspendCur, StopForResumesCur, StopForPauseCur, HandleSigtrapCur,
       ReportSignalCur, HandleCloneCur, HandleExitCur DEF Loop
<1>4. CASE Sweep
  <2>1. ASSUME NEW t \in Tid, SweepAsk(t)
        PROVE  CurInv'
    BY <2>1, SweepAskCur
  <2> QED
    BY <1>4, <2>1, SweepStepsCur, SweepDoneCur DEF Sweep
<1>5. CASE StepOver
  BY <1>5, SwallowCur, SwallowTakeCur, SwallowLostCur, StepPastCur, StepOffTheByteCur,
     StepTakenCur, StepConsumedCur DEF StepOver
<1>6. CASE ResumeThreads
  BY <1>6, StepOffCur, AfterStepOffCur, ContinueRestCur, ContinueParkedCur, ProceedCur,
     TakePendingResumesCur, DrainPendingResumesCur, ResumeStoppedThreadCur,
     ResumeSteppedOffCur, ResumeNowCur DEF ResumeThreads
<1>7. CASE PauseAndResume
  <2>1. ASSUME NEW t \in Tid, ReportPendingHit(t) \/ ReportPendingSignal(t)
        PROVE  CurInv'
    BY <2>1, ReportPendingHitCur, ReportPendingSignalCur
  <2> QED
    BY <1>7, <2>1, WakeCur, NothingPendingCur, DecideStepCur, DecideContinueCur,
       SteppedPastCur, StepNowCur, ContinueAllCur DEF PauseAndResume
<1>8. CASE UNCHANGED vars
  <2>1. stack' = stack /\ cur' = cur /\ ret' = ret /\ paused' = paused
    BY <1>8 DEF vars, tracerVars, userVars
  <2> QED
    BY <2>1, CurSame
<1> QED
  BY <1>1, <1>2, <1>3, <1>4, <1>5, <1>6, <1>7, <1>8 DEF Next, Tracer

\* The tracer's functions call each other in a fixed way, resumeAllThreads and
\* resumeStoppedThread put mThread back to what their caller takes it for, and a
\* function that acts on mThread for its own thread does find that thread there, for all
\* calls and with timeouts.  The tracer is paused only where it waits for the user.
THEOREM CurrentThreadKept == Spec => []CurInv
<1>1. Init => IInv /\ CurInv
  BY InitIInv, InitCurInv
<1>2. (IInv /\ CurInv) /\ [Next]_vars => (IInv /\ CurInv)'
  BY NextIInv, NextCurInv
<1> QED
  BY <1>1, <1>2, PTL DEF Spec

-----------------------------------------------------------------------------
(* The all-stop                                                            *)

\* The tracer lets one thread run that it has booked as stopped: into the SIGSTOP it
\* owes, or one step over a byte.
Excused(t) == Top.tid = t /\ Top.at \in {"swallowWait", "stepWait"}

\* A thread that has created another one stays where it is until that one is known.
AtClone(t) == Top.tid = t /\ Top.at = "clone"
Announcing(t) == k[t].status = "clone" \/ AtClone(t)
Parent(t) ==
  Announcing(t) => /\ th[t].known /\ ~k[t].dying /\ k[t].run = "stopped"
                   /\ k[t].child \in Births /\ k[k[t].child].run # "unborn"

\* A thread that is not booked as running is in ptrace-stop.  One the tracer has not met
\* goes no further than the SIGSTOP it starts with, and somebody has its birth to tell.
Stand(t) ==
  th[t].known /\ Living(t) /\ ~th[t].running /\ ~Excused(t) => InPtraceStop(t)
Unmet(t) ==
  ~th[t].known /\ k[t].run \notin {"unborn", "dead"}
    => /\ ~k[t].dying /\ k[t].sigq = 0
       /\ \/ k[t].status = "stop"
          \/ k[t].status = "none" /\ k[t].stopq /\ k[t].due /\ Runs(t)
       /\ \E p \in Tid : Announcing(p) /\ k[p].child = t
Lawful(t) ==
  /\ k[t].run = "unborn" => ~th[t].known
  /\ k[t].status = "exit" => k[t].dying
  /\ th[t].running => th[t].known
Accounted == \A t \in Tid : Stand(t) /\ Parent(t) /\ Unmet(t) /\ Lawful(t)

\* Whoever is handled is known and booked as stopped, whoever is waited for as running.
ReportPoints == {"stop", "stopForResumes", "stopForPause", "trap", "sig", "clone", "exit",
                 "sweep", "sweepWait"}
Reported == Top.at \in ReportPoints => th[Top.tid].known /\ ~th[Top.tid].running
Awaited == Top.at = "sweepWait" => th[Top.who].running
Leaving == Top.at = "exit" => k[Top.tid].dying

\* Nothing runs while the tracer waits for the user and until it starts something, and
\* up to the continue after that only threads run that were created meanwhile.
Quiet == Top.at \in {"wait", "pend", "decide"} => ~AnyRunning
StartPoint ==
  \/ Top.at \in {"cont", "stepNow"}
  \/ Top.at = "stepped" /\ ret # "consumed"
  \/ Top.at \in {"stepPast", "lifted", "stepWait"} /\ Below.at = "stepped"
  \/ Top.at \in SwallowPoints /\ Below.at = "stepNow"
  \/ Top.at \in SwallowPoints /\ Below.at = "lifted" /\ BelowThat.at = "stepped"
NewOnly ==
  StartPoint => \A t \in Tid : th[t].running => Births # {} /\ ~Suspended(t)

\* The thread a step is for is not suspended, unless that was done meanwhile.
ToStep == Top.at = "stepNow" \/ (Top.at \in SwallowPoints /\ Below.at = "stepNow")
Unsuspended == ToStep /\ "suspendRunning" \notin Calls => ~Suspended(Top.tid)
Ready == Reported /\ Awaited /\ Leaving /\ Quiet /\ NewOnly /\ Unsuspended

\* What a step can do to a thread: nothing that matters here, ...
Still(t) ==
  /\ k'[t].run = k[t].run /\ k'[t].status = k[t].status /\ k'[t].dying = k[t].dying
  /\ k'[t].child = k[t].child /\ k'[t].due = k[t].due
  /\ k[t].stopq => k'[t].stopq
  /\ k'[t].sigq = k[t].sigq \/ th[t].known
  /\ th'[t].known = th[t].known /\ th'[t].running = th[t].running

\* ... something that leaves it known, and whom it announces announced or known, ...
Booked(t) ==
  /\ k'[t].run # "unborn"
  /\ k'[t].status = "exit" => k'[t].dying
  /\ th'[t].known \/ k'[t].run = "dead"
  /\ th'[t].running => th'[t].known
  /\ Living(t)' /\ ~th'[t].running /\ ~Excused(t)' => InPtraceStop(t)'
Moves(t) ==
  /\ Booked(t)
  /\ k'[t].status = "clone"
       => /\ th'[t].known /\ ~k'[t].dying /\ k'[t].run = "stopped"
          /\ k'[t].child \in Births /\ k'[k'[t].child].run # "unborn"
  /\ Announcing(t) => (AtClone(t)' /\ k'[t].child = k[t].child) \/ th'[k[t].child].known

\* ... the stop it starts with, or its birth.
Arrives(t) ==
  /\ ~th[t].known /\ ~th'[t].known /\ ~th'[t].running /\ Runs(t)
  /\ k'[t].run = "stopped" /\ k'[t].status = "stop"
  /\ k'[t].dying = k[t].dying /\ k'[t].sigq = k[t].sigq
Bears(t) ==
  /\ k[t].run = "unborn" /\ ~th'[t].known /\ ~th'[t].running
  /\ k'[t] = Newborn
  /\ \E p \in Tid : k'[p].status = "clone" /\ k'[p].child = t

LEMMA AccountedBy ==
  ASSUME Accounted,
         \A t \in Tid : Still(t) \/ Moves(t) \/ Arrives(t) \/ Bears(t),
         \A t \in Tid : Still(t) /\ Excused(t) => Excused(t)',
         \A t \in Tid : Still(t) /\ AtClone(t) => AtClone(t)' \/ th'[k[t].child].known,
         \A t \in Tid : AtClone(t)' => /\ Announcing(t) /\ th'[t].known
                                       /\ k'[t].run = k[t].run /\ k'[t].dying = k[t].dying
                                       /\ k'[t].child = k[t].child
  PROVE  Accounted'
<1>1. Births \subseteq Tid
  OBVIOUS
<1>2. \A t \in Tid : Arrives(t) \/ Bears(t) => ~Announcing(t)
  BY DEF Accounted, Parent, Lawful, Arrives, Bears
<1>3. \A c \in Tid : k[c].run # "unborn" => k'[c].run # "unborn"
  BY DEF Still, Moves, Booked, Arrives, Bears
<1>4. ASSUME NEW t \in Tid
      PROVE  Stand(t)'
  BY DEF Accounted, Stand, Still, Moves, Booked, Arrives, Bears, Living, InPtraceStop
<1>5. ASSUME NEW t \in Tid
      PROVE  Parent(t)'
  <2>1. CASE AtClone(t)'
    BY <1>1, <1>3, <2>1 DEF Accounted, Parent
  <2>2. CASE k'[t].status = "clone" /\ Still(t)
    <3>1. Announcing(t)
      BY <2>2 DEF Announcing, Still
    <3> QED
      BY <1>1, <1>3, <2>2, <3>1 DEF Accounted, Parent, Still
  <2>3. CASE k'[t].status = "clone" /\ ~Still(t)
    BY <2>3 DEF Parent, Moves, Arrives, Bears, Newborn
  <2> QED
    BY <2>1, <2>2, <2>3 DEF Parent, Announcing
<1>6. ASSUME NEW t \in Tid, NEW p \in Tid, Announcing(p), k[p].child = t, ~th'[t].known
      PROVE  Announcing(p)' /\ k'[p].child = t
  <2>1. Still(p) \/ Moves(p)
    BY <1>2, <1>6
  <2>2. CASE Still(p)
    BY <1>6, <2>2 DEF Still, Announcing
  <2>3. CASE Moves(p)
    BY <1>6, <2>3 DEF Moves, Announcing
  <2> QED
    BY <2>1, <2>2, <2>3
<1>7. ASSUME NEW t \in Tid
      PROVE  Unmet(t)'
  <2> SUFFICES ASSUME ~th'[t].known, k'[t].run \notin {"unborn", "dead"}
               PROVE  /\ ~k'[t].dying /\ k'[t].sigq = 0
                      /\ \/ k'[t].status = "stop"
                         \/ k'[t].status = "none" /\ k'[t].stopq /\ k'[t].due /\ Runs(t)'
                      /\ \E p \in Tid : Announcing(p)' /\ k'[p].child = t
    BY DEF Unmet
  <2>1. CASE Still(t) \/ Arrives(t)
    <3>1. ~th[t].known /\ k[t].run \notin {"unborn", "dead"}
      BY <2>1 DEF Still, Arrives, Runs
    <3>2. /\ ~k[t].dying /\ k[t].sigq = 0
          /\ \/ k[t].status = "stop"
             \/ k[t].status = "none" /\ k[t].stopq /\ k[t].due /\ Runs(t)
      BY <3>1 DEF Accounted, Unmet
    <3>3. \E p \in Tid : Announcing(p) /\ k[p].child = t
      BY <3>1 DEF Accounted, Unmet
    <3> QED
      BY <1>6, <2>1, <3>1, <3>2, <3>3 DEF Still, Arrives, Runs
  <2>2. CASE Bears(t)
    BY <2>2 DEF Bears, Newborn, Runs, Announcing
  <2>3. CASE Moves(t)
    BY <2>3 DEF Moves, Booked
  <2> QED
    BY <2>1, <2>2, <2>3
<1>8. ASSUME NEW t \in Tid
      PROVE  Lawful(t)'
  BY DEF Accounted, Lawful, Still, Moves, Booked, Arrives, Bears, Newborn
<1> QED
  BY <1>4, <1>5, <1>7, <1>8 DEF Accounted

\* The steps that are about another function of the tracer, or about none.
LEMMA AccountedAway ==
  ASSUME Accounted, \A t \in Tid : Still(t) \/ Moves(t) \/ Arrives(t) \/ Bears(t),
         Top.at \notin {"swallowWait", "stepWait", "clone"}, Top'.at # "clone"
  PROVE  Accounted'
<1>1. \A t \in Tid : ~Excused(t) /\ ~AtClone(t) /\ ~AtClone(t)'
  BY DEF Excused, AtClone
<1> QED
  BY <1>1, AccountedBy

LEMMA AccountedInPlace ==
  ASSUME Accounted, \A t \in Tid : Still(t) \/ Moves(t) \/ Arrives(t) \/ Bears(t),
         Top' = Top, \A t \in Tid : Announcing(t) => Still(t)
  PROVE  Accounted'
<1>1. \A t \in Tid : (Excused(t) => Excused(t)') /\ (AtClone(t) <=> AtClone(t)')
  BY DEF Excused, AtClone
<1>2. \A t \in Tid : AtClone(t) => Announcing(t) /\ th[t].known
  BY DEF Accounted, Parent, Announcing
<1>3. \A t \in Tid : AtClone(t)' => /\ Announcing(t) /\ th'[t].known
                                     /\ k'[t].run = k[t].run /\ k'[t].dying = k[t].dying
                                     /\ k'[t].child = k[t].child
  BY <1>1, <1>2 DEF Still
<1> QED
  BY <1>1, <1>3, AccountedBy

\* Nothing that matters happens to any thread.
LEMMA AllStill ==
  ASSUME k' = k, Alike(th', th)
  PROVE  \A t \in Tid : Still(t)
BY DEF Still, Alike

LEMMA MovesBy ==
  ASSUME NEW t, Booked(t), k'[t].status # "clone", ~Announcing(t)
  PROVE  Moves(t)
BY DEF Moves

\* The tracer goes where nothing is asked of the threads.
IdlePoints == {"loop", "takeResumes", "drain", "resume", "resumed", "resumeNow", "stepOff",
               "steppedOff", "continueRest", "continueParked", "continueOrPark", "stepTaken"}
LEMMA IdleReady ==
  ASSUME \/ Top'.at \in IdlePoints
         \/ Top'.at = "stepped" /\ ret' = "consumed"
         \/ Top'.at = "stepPast" /\ Below'.at # "stepped"
  PROVE  Ready'
BY DEF Ready, IdlePoints, Reported, ReportPoints, Awaited, Leaving, Quiet, NewOnly,
       StartPoint, Unsuspended, ToStep, SwallowPoints

\* It stays where it is.
Restricted == ~Timeouts /\ (Births = {} \/ "suspendRunning" \notin Calls)
LEMMA ReadyInPlace ==
  ASSUME Restricted, IInv, Accounted, Ready, stack' = stack, ret' = ret,
         \A t \in Tid : th'[t].known = th[t].known /\ th'[t].running = th[t].running,
         \A t \in Tid : Suspended(t)' =>
           Suspended(t) \/ Top.at = "wait" \/ "suspendRunning" \in Calls,
         \A t \in Tid : k[t].dying /\ th[t].known => k'[t].dying
  PROVE  Ready'
<1>1. Top' = Top /\ Below' = Below /\ BelowThat' = BelowThat /\ Top.tid \in Tid
  BY TopIs DEF Top, Below, BelowThat
<1>2. Top.at = "sweepWait" => Top.who \in Tid
  BY DEF IInv, Handled
<1>3. Reported' /\ Awaited' /\ Quiet'
  BY <1>1, <1>2 DEF Ready, Reported, Awaited, Quiet, AnyRunning
<1>4. Leaving'
  BY <1>1 DEF Ready, Reported, ReportPoints, Leaving
<1>5. StartPoint' = StartPoint /\ ToStep' = ToStep
  BY <1>1 DEF StartPoint, ToStep
<1>6. StartPoint \/ ToStep => Top.at # "wait"
  BY DEF StartPoint, ToStep, SwallowPoints
<1>7. NewOnly'
  BY <1>5, <1>6 DEF Ready, NewOnly, Restricted
<1>8. Unsuspended'
  BY <1>1, <1>5, <1>6 DEF Ready, Unsuspended
<1> QED
  BY <1>3, <1>4, <1>7, <1>8 DEF Ready

-----------------------------------------------------------------------------
(* Nothing the debuggee or the user does disturbs it                       *)

\* A thread that executes is known, and announces nobody.
LEMMA RunnerKnown ==
  ASSUME IInv, Accounted, NEW t \in Tid, Runs(t),
         Executes(t) \/ k[t].dying \/ k[t].sigq > 0
  PROVE  th[t].known
<1>1. k[t].status = "none" /\ k[t].run \notin {"unborn", "dead"}
  BY RunsFree DEF Runs
<1>2. k[t].sigq \in Nat
  BY DEF IInv, Threads, KernelThread
<1> QED
  BY <1>1, <1>2 DEF Accounted, Unmet, Executes, Queued

LEMMA RunnerFree ==
  ASSUME Accounted, NEW t \in Tid, Runs(t)
  PROVE  ~Announcing(t)
BY DEF Accounted, Parent, Runs

LEMMA RunnerBooked ==
  ASSUME Accounted, NEW t \in Tid, Runs(t), th[t].known, th' = th, Top' = Top,
         k'[t].run # "unborn", k'[t].status = "exit" => k'[t].dying,
         k[t].dying => k'[t].dying
  PROVE  Booked(t)
<1>1. Excused(t)' = Excused(t)
  BY DEF Excused
<1>2. ~InPtraceStop(t)
  BY DEF Runs, InPtraceStop
<1>3. Living(t)' => Living(t)
  BY DEF Living, Runs
<1> QED
  BY <1>1, <1>2, <1>3 DEF Booked, Accounted, Stand

\* A known thread that runs stops, ends or runs on.
LEMMA RunnerKept ==
  ASSUME Restricted, IInv, Accounted, Ready, NEW t \in Tid, Runs(t), th[t].known,
         Others(k', k, t), th' = th, stack' = stack, ret' = ret,
         k'[t].run # "unborn", k'[t].status # "clone",
         k'[t].status = "exit" => k'[t].dying, k[t].dying => k'[t].dying
  PROVE  Accounted' /\ Ready'
<1>1. Top' = Top
  BY DEF Top
<1>2. Moves(t)
  BY <1>1, RunnerBooked, RunnerFree, MovesBy
<1>3. \A u \in Tid \ {t} : Still(u)
  BY DEF Others, Still
<1>4. Accounted'
  BY <1>1, <1>2, <1>3, RunnerFree, AccountedInPlace
<1>5. Ready'
  BY ReadyInPlace DEF Others, Suspended
<1> QED
  BY <1>4, <1>5

LEMMA ExecuteAll ==
  ASSUME Restricted, IInv, Accounted, Ready, NEW t \in Tid, Execute(t)
  PROVE  Accounted' /\ Ready'
<1>1. k \in Kernels /\ Runs(t) /\ k[t] \in KernelThread /\ th[t].known
  BY RunnerKnown DEF IInv, Threads, Kernels, Execute, Executes
<1>2. th' = th /\ stack' = stack /\ ret' = ret
  BY DEF Execute, tracerVars
<1>3. k[t].status = "none" /\ k[t].run \in {"run", "step"}
  BY <1>1, RunsFree DEF Runs
<1>4. /\ Others(k', k, t) /\ k'[t].dying = k[t].dying
      /\ \/ k'[t].status = k[t].status /\ k'[t].run = k[t].run
         \/ k'[t].run = "stopped" /\ k'[t].status \in {"int3", "step"}
  BY ExecuteIs
<1> QED
  BY <1>1, <1>2, <1>3, <1>4, RunnerKept

LEMMA TakeSigstopAll ==
  ASSUME Restricted, IInv, Accounted, Ready, NEW t \in Tid, TakeSigstop(t)
  PROVE  Accounted' /\ Ready'
<1> DEFINE r == Stops(t, "stop")
<1>1. k \in Kernels /\ Runs(t)
  BY DEF IInv, Threads, Kernels, TakeSigstop
<1>2. /\ r \in Kernels /\ Others(r, k, t) /\ r[t].run = "stopped" /\ r[t].status = "stop"
      /\ r[t].sigq = k[t].sigq /\ r[t].dying = k[t].dying
  BY <1>1, StopsIs
<1>3. k' = WithSigstop(r, t, FALSE) \/ k' = r
  BY DEF TakeSigstop, WithSigstop
<1>4. th' = th /\ stack' = stack /\ ret' = ret /\ Top' = Top
  BY DEF TakeSigstop, tracerVars, Top
<1> HIDE DEF r
<1>5. /\ Others(k', k, t) /\ k'[t].run = "stopped"
      /\ k'[t].status = "stop" /\ k'[t].sigq = k[t].sigq /\ k'[t].dying = k[t].dying
  <2>1. CASE k' = WithSigstop(r, t, FALSE)
    <3>1. /\ Others(k', r, t) /\ k'[t].run = r[t].run /\ k'[t].status = r[t].status
          /\ k'[t].sigq = r[t].sigq /\ k'[t].dying = r[t].dying
      BY <1>2, <2>1, SigstopIs
    <3> QED
      BY <1>2, <3>1, OthersTrans
  <2>2. CASE k' = r
    BY <1>2, <2>2
  <2> QED
    BY <1>3, <2>1, <2>2
<1>6. CASE th[t].known
  BY <1>1, <1>4, <1>5, <1>6, RunnerKept
<1>7. CASE ~th[t].known
  <2>1. Arrives(t)
    BY <1>1, <1>4, <1>5, <1>7 DEF Arrives, Accounted, Lawful
  <2>2. \A u \in Tid \ {t} : Still(u)
    BY <1>4, <1>5 DEF Others, Still
  <2>3. Accounted'
    BY <1>1, <1>4, <2>1, <2>2, RunnerFree, AccountedInPlace
  <2>4. Ready'
    BY <1>4, <1>5, ReadyInPlace DEF Others, Suspended
  <2> QED
    BY <2>3, <2>4
<1> QED
  BY <1>6, <1>7

LEMMA TakeSignalAll ==
  ASSUME Restricted, IInv, Accounted, Ready, NEW t \in Tid, TakeSignal(t)
  PROVE  Accounted' /\ Ready'
<1> DEFINE r == Stops(t, "sig")
           n == k[t].sigq - 1
<1>1. k \in Kernels /\ Runs(t) /\ k[t].sigq > 0 /\ k[t].sigq \in 0 .. MaxSignals
  BY DEF IInv, Threads, Kernels, KernelThread, TakeSignal
<1>2. /\ r \in Kernels /\ Others(r, k, t) /\ r[t].run = "stopped" /\ r[t].status = "sig"
      /\ r[t].sigq = k[t].sigq /\ r[t].dying = k[t].dying
  BY <1>1, StopsIs
<1>3. k' = [r EXCEPT ![t].sigq = @ - 1]
  BY DEF TakeSignal
<1>4. th' = th /\ stack' = stack /\ ret' = ret
  BY DEF TakeSignal, tracerVars
<1> HIDE DEF r
<1>5. k' = [r EXCEPT ![t].sigq = n]
  BY <1>2, <1>3
<1>6. n \in 0 .. MaxSignals
  BY <1>1
<1> HIDE DEF n
<1>7. k' = WithSignals(r, t, n)
  BY <1>5 DEF WithSignals
<1>8. /\ Others(k', r, t) /\ k'[t].run = r[t].run /\ k'[t].status = r[t].status
      /\ k'[t].dying = r[t].dying
  BY <1>2, <1>6, <1>7, SignalsAre
<1>9. Others(k', k, t)
  BY <1>2, <1>8, OthersTrans
<1>10. th[t].known
  BY <1>1, RunnerKnown
<1> QED
  BY <1>1, <1>2, <1>4, <1>8, <1>9, <1>10, RunnerKept

LEMMA ExitAll ==
  ASSUME Restricted, IInv, Accounted, Ready, NEW t \in Tid, Exit(t)
  PROVE  Accounted' /\ Ready'
<1> DEFINE r == Stops(t, "exit")
           x == [r[t] EXCEPT !.dying = TRUE, !.at = NoAddr, !.past = FALSE]
<1>1. k \in Kernels /\ Runs(t) /\ th[t].known
  BY RunnerKnown DEF IInv, Threads, Kernels, Exit, Executes
<1>2. /\ r \in Kernels /\ Others(r, k, t) /\ r[t].run = "stopped" /\ r[t].status = "exit"
  BY <1>1, StopsIs
<1>3. k' = [r EXCEPT ![t].dying = TRUE, ![t].at = NoAddr, ![t].past = FALSE]
  BY DEF Exit
<1>4. th' = th /\ stack' = stack /\ ret' = ret
  BY DEF Exit, tracerVars
<1> HIDE DEF r
<1>5. r[t] \in KernelThread
  BY <1>2 DEF Kernels
<1>6. /\ x \in KernelThread /\ x.run = r[t].run /\ x.status = r[t].status /\ x.dying = TRUE
  BY <1>5 DEF KernelThread
<1>7. k' = [r EXCEPT ![t] = x]
  BY <1>2, <1>3 DEF Kernels
<1> HIDE DEF x
<1>8. Others(k', r, t) /\ k'[t] = x
  <2>1. Others([r EXCEPT ![t] = x], r, t) /\ [r EXCEPT ![t] = x][t] = x
    BY <1>2, <1>6, WithRecord
  <2> QED
    BY <1>7, <2>1
<1>9. Others(k', k, t)
  BY <1>2, <1>8, OthersTrans
<1>10. /\ k'[t].run # "unborn" /\ k'[t].status # "clone" /\ k'[t].dying
  BY <1>2, <1>6, <1>8
<1> QED
  BY <1>1, <1>4, <1>9, <1>10, RunnerKept

LEMMA DieAll ==
  ASSUME Restricted, IInv, Accounted, Ready, NEW t \in Tid, Die(t)
  PROVE  Accounted' /\ Ready'
<1> DEFINE x == [k[t] EXCEPT !.run = "dead", !.status = "exited"]
<1>1. k \in Kernels /\ Runs(t) /\ k[t] \in KernelThread /\ th[t].known
  BY RunnerKnown DEF IInv, Threads, Kernels, Die
<1>2. /\ x \in KernelThread /\ x.run = "dead" /\ x.status = "exited"
      /\ x.dying = k[t].dying
  BY <1>1 DEF KernelThread
<1>3. k' = [k EXCEPT ![t] = x]
  BY <1>1 DEF Die, Kernels
<1>4. th' = th /\ stack' = stack /\ ret' = ret
  BY DEF Die, tracerVars
<1> HIDE DEF x
<1>5. Others(k', k, t) /\ k'[t] = x
  <2>1. Others([k EXCEPT ![t] = x], k, t) /\ [k EXCEPT ![t] = x][t] = x
    BY <1>1, <1>2, WithRecord
  <2> QED
    BY <1>3, <2>1
<1>6. /\ k'[t].run # "unborn" /\ k'[t].status \notin {"clone", "exit"}
      /\ k'[t].dying = k[t].dying
  BY <1>2, <1>5
<1> QED
  BY <1>1, <1>4, <1>5, <1>6, RunnerKept

\* A thread that has created another one stays where it is and announces it.
LEMMA CloneIs ==
  ASSUME IInv, NEW t \in Tid, Clone(t)
  PROVE  \E c \in Births :
           /\ c # t /\ k[c].run = "unborn" /\ k'[c] = Newborn
           /\ k'[t].run = "stopped" /\ k'[t].status = "clone" /\ k'[t].child = c
           /\ k'[t].dying = k[t].dying
           /\ \A u \in Tid \ {t, c} : k'[u] = k[u]
<1>1. k \in Kernels /\ Runs(t)
  BY DEF IInv, Threads, Kernels, Clone, Executes
<1>2. PICK c \in Births :
        /\ k[c].run = "unborn"
        /\ k' = [Stops(t, "clone") EXCEPT ![t].child = c, ![t].at = NoAddr,
                                          ![t].past = FALSE, ![c] = Newborn]
  BY DEF Clone
<1>3. c \in Tid /\ c # t
  BY <1>1, <1>2 DEF Runs
<1> DEFINE r == Stops(t, "clone")
           x == [r[t] EXCEPT !.child = c, !.at = NoAddr, !.past = FALSE]
<1>4. /\ r \in Kernels /\ Others(r, k, t) /\ r[t].run = "stopped" /\ r[t].status = "clone"
      /\ r[t].dying = k[t].dying
  BY <1>1, StopsIs
<1>5. k' = [r EXCEPT ![t].child = c, ![t].at = NoAddr, ![t].past = FALSE, ![c] = Newborn]
  BY <1>2
<1> HIDE DEF r
<1>6. r[t] \in KernelThread
  BY <1>4 DEF Kernels
<1>7. /\ x \in KernelThread /\ x.run = r[t].run /\ x.status = r[t].status
      /\ x.dying = r[t].dying /\ x.child = c
  BY <1>3, <1>6 DEF KernelThread
<1>8. k' = [[r EXCEPT ![t] = x] EXCEPT ![c] = Newborn]
  BY <1>3, <1>4, <1>5 DEF Kernels
<1> HIDE DEF x
<1> DEFINE q == [r EXCEPT ![t] = x]
<1>9. q \in Kernels /\ Others(q, r, t) /\ q[t] = x
  BY <1>4, <1>7, WithRecord
<1>10. k' = [q EXCEPT ![c] = Newborn]
  BY <1>8
<1> HIDE DEF q
<1>11. k'[c] = Newborn /\ Others(k', q, c)
  BY <1>3, <1>9, <1>10 DEF Kernels, Others
<1>12. k'[t] = x /\ \A u \in Tid \ {t, c} : k'[u] = k[u]
  BY <1>3, <1>4, <1>9, <1>11 DEF Others
<1> QED
  BY <1>2, <1>3, <1>4, <1>7, <1>11, <1>12

LEMMA CloneAll ==
  ASSUME Restricted, IInv, Accounted, Ready, NEW t \in Tid, Clone(t)
  PROVE  Accounted' /\ Ready'
<1>1. Runs(t) /\ ~k[t].dying /\ th[t].known
  BY RunnerKnown DEF Clone, Executes
<1>2. th' = th /\ stack' = stack /\ ret' = ret /\ Top' = Top
  BY DEF Clone, tracerVars, Top
<1>3. PICK c \in Births :
        /\ c # t /\ k[c].run = "unborn" /\ k'[c] = Newborn
        /\ k'[t].run = "stopped" /\ k'[t].status = "clone" /\ k'[t].child = c
        /\ k'[t].dying = k[t].dying
        /\ \A u \in Tid \ {t, c} : k'[u] = k[u]
  BY CloneIs
<1>4. c \in Tid /\ ~th[c].known /\ ~th[c].running
  BY <1>3 DEF Accounted, Lawful
<1>5. Bears(c)
  BY <1>2, <1>3, <1>4 DEF Bears
<1>6. Moves(t)
  <2>1. Booked(t)
    BY <1>1, <1>2, <1>3, RunnerBooked
  <2>2. k'[k'[t].child].run # "unborn"
    BY <1>3 DEF Newborn
  <2> QED
    BY <1>1, <1>2, <1>3, <2>1, <2>2, RunnerFree DEF Moves
<1>7. \A u \in Tid \ {t, c} : Still(u)
  BY <1>2, <1>3 DEF Still
<1>8. ~Announcing(c)
  BY <1>3, <1>4 DEF Accounted, Parent
<1>9. Accounted'
  BY <1>1, <1>2, <1>5, <1>6, <1>7, <1>8, RunnerFree, AccountedInPlace
<1>10. \A u \in Tid : k[u].dying /\ th[u].known => k'[u].dying
  BY <1>1, <1>3, <1>4
<1>11. Ready'
  BY <1>2, <1>10, ReadyInPlace DEF Suspended
<1> QED
  BY <1>9, <1>11

LEMMA KernelAll ==
  ASSUME Restricted, IInv, Accounted, Ready, NEW t \in Tid, Kernel(t)
  PROVE  Accounted' /\ Ready'
BY ExecuteAll, TakeSigstopAll, TakeSignalAll, CloneAll, ExitAll, DieAll DEF Kernel

\* Signals and SIGSTOPs that are sent to threads the tracer knows.
LEMMA SentAll ==
  ASSUME Restricted, IInv, Accounted, Ready, stack' = stack, ret' = ret,
         \A t \in Tid : Still(t),
         \A t \in Tid : Suspended(t)' =>
           Suspended(t) \/ Top.at = "wait" \/ "suspendRunning" \in Calls
  PROVE  Accounted' /\ Ready'
<1>1. Top' = Top
  BY DEF Top
<1>2. Accounted'
  BY <1>1, AccountedInPlace
<1>3. Ready'
  BY ReadyInPlace DEF Still
<1> QED
  BY <1>2, <1>3

LEMMA StillSigstop ==
  ASSUME IInv, NEW u \in Tid, k' = k \/ k' = WithSigstop(k, u, TRUE),
         \A t \in Tid : th'[t].known = th[t].known /\ th'[t].running = th[t].running
  PROVE  \A t \in Tid : Still(t)
<1>1. k \in Kernels
  BY DEF IInv, Threads, Kernels
<1>2. CASE k' = k
  BY <1>2 DEF Still
<1>3. CASE k' = WithSigstop(k, u, TRUE)
  <2> DEFINE x == [k[u] EXCEPT !.stopq = TRUE]
  <2>1. k' = [k EXCEPT ![u] = x]
    BY <1>1, <1>3 DEF WithSigstop
  <2>2. /\ x.run = k[u].run /\ x.status = k[u].status /\ x.dying = k[u].dying
        /\ x.child = k[u].child /\ x.due = k[u].due /\ x.stopq = TRUE
        /\ x.sigq = k[u].sigq
    BY <1>1 DEF Kernels, KernelThread
  <2> HIDE DEF x
  <2>3. \A t \in Tid : k'[t] = IF t = u THEN x ELSE k[t]
    BY <1>1, <2>1 DEF Kernels
  <2>4. Still(u)
    BY <2>2, <2>3 DEF Still
  <2>5. \A t \in Tid \ {u} : Still(t)
    BY <2>3 DEF Still
  <2> QED
    BY <2>4, <2>5
<1> QED
  BY <1>2, <1>3

LEMMA SendSignalAll ==
  ASSUME Restricted, IInv, Accounted, Ready, NEW t \in Tid, SendSignal(t)
  PROVE  Accounted' /\ Ready'
<1> DEFINE x == [k[t] EXCEPT !.sigq = @ + 1]
<1>1. /\ k' = [k EXCEPT ![t].sigq = @ + 1] /\ th' = th /\ stack' = stack /\ ret' = ret
      /\ th[t].known
  BY DEF SendSignal, tracerVars
<1>2. k \in Kernels
  BY DEF IInv, Threads, Kernels
<1>3. k' = [k EXCEPT ![t] = x]
  BY <1>1, <1>2
<1>4. /\ x.run = k[t].run /\ x.status = k[t].status /\ x.dying = k[t].dying
      /\ x.child = k[t].child /\ x.due = k[t].due /\ x.stopq = k[t].stopq
  BY <1>2 DEF Kernels, KernelThread
<1> HIDE DEF x
<1>5. \A u \in Tid : k'[u] = IF u = t THEN x ELSE k[u]
  BY <1>2, <1>3 DEF Kernels
<1>6. Still(t)
  BY <1>1, <1>4, <1>5 DEF Still
<1>7. \A u \in Tid \ {t} : Still(u)
  BY <1>1, <1>5 DEF Still
<1> QED
  BY <1>1, <1>6, <1>7, SentAll DEF Suspended

LEMMA InterruptRunningThreadAll ==
  ASSUME Restricted, IInv, Accounted, Ready, InterruptRunningThread
  PROVE  Accounted' /\ Ready'
<1>1. stack' = stack /\ ret' = ret
  BY DEF InterruptRunningThread
<1>2. \/ \E t \in Tid : k' = WithSigstop(k, t, TRUE) /\ th' = WithOwed(th, t)
      \/ k' = k /\ th' = th
  BY DEF InterruptRunningThread, Interrupt, Interruptible, WithSigstop, WithOwed
<1>3. CASE k' = k /\ th' = th
  BY <1>1, <1>3, AllStill, SentAll DEF Alike, Suspended
<1>4. ASSUME NEW t \in Tid, k' = WithSigstop(k, t, TRUE), th' = WithOwed(th, t)
      PROVE  Accounted' /\ Ready'
  <2>1. \A u \in Tid : /\ th'[u].known = th[u].known /\ th'[u].running = th[u].running
                       /\ th'[u].susp = th[u].susp
    BY <1>4 DEF WithOwed, IInv, Threads, ThreadRecords
  <2>2. \A u \in Tid : Still(u)
    BY <1>4, <2>1, StillSigstop
  <2> QED
    BY <1>1, <2>1, <2>2, SentAll DEF Suspended
<1> QED
  BY <1>2, <1>3, <1>4

\* A thread is suspended while the tracer waits for the user, or by a call that may come
\* at any time.
LEMMA SuspendAll ==
  ASSUME Restricted, IInv, CurInv, Accounted, Ready, NEW t \in Tid, Suspend(t)
  PROVE  Accounted' /\ Ready'
<1>1. /\ stack' = stack /\ ret' = ret
      /\ Top.at = "wait" \/ "suspendRunning" \in Calls
  BY DEF Suspend, CurInv, PausedAtWait, At
<1> DEFINE n == th[t].susp + 1
<1>2. \/ /\ th' = [th EXCEPT ![t].susp = n, ![t].pss = TRUE]
         /\ k' = WithSigstop(k, t, TRUE)
      \/ th' = [th EXCEPT ![t].susp = n] /\ k' = k
  BY DEF Suspend, WithSigstop
<1> HIDE DEF n
<1>3. \A u \in Tid : th'[u].known = th[u].known /\ th'[u].running = th[u].running
  <2>1. th \in Records
    BY DEF IInv, Threads, Records
  <2>2. CASE th' = [th EXCEPT ![t].susp = n, ![t].pss = TRUE]
    BY <2>1, <2>2 DEF Records, ThreadRecords
  <2>3. CASE th' = [th EXCEPT ![t].susp = n]
    BY <2>1, <2>3 DEF Records, ThreadRecords
  <2> QED
    BY <1>2, <2>2, <2>3
<1>4. \A u \in Tid : Still(u)
  BY <1>2, <1>3, StillSigstop
<1> QED
  BY <1>1, <1>4, SentAll

LEMMA ResumeAllKept ==
  ASSUME Restricted, IInv, Accounted, Ready, NEW t \in Tid, Resume(t)
  PROVE  Accounted' /\ Ready'
<1>1. stack' = stack /\ ret' = ret /\ th[t].susp > 0
  BY DEF Resume
<1> DEFINE n == th[t].susp - 1
           ths == [th EXCEPT ![t].susp = n]
<1>2. th \in Records /\ th[t].susp \in Nat
  BY DEF IInv, Threads, Records, ThreadRecords
<1>3. n > 0 => th[t].susp > 0
  BY <1>1
<1>4. \/ \E u \in Tid : k' = WithSigstop(k, u, TRUE) /\ th' = [ths EXCEPT ![u].pss = TRUE]
      \/ k' = k /\ th' = ths
  BY DEF Resume, WithSigstop, Interruptible
<1> HIDE DEF n
<1>5. \A u \in Tid : /\ ths[u].known = th[u].known /\ ths[u].running = th[u].running
                     /\ ths[u].susp = IF u = t THEN n ELSE th[u].susp
  BY <1>2 DEF Records, ThreadRecords
<1>6. \A u \in Tid : ths[u] = IF u = t THEN [th[u] EXCEPT !.susp = n] ELSE th[u]
  BY <1>2 DEF Records
<1>7. \A u \in Tid : /\ th'[u].known = th[u].known /\ th'[u].running = th[u].running
                     /\ th'[u].susp = IF u = t THEN n ELSE th[u].susp
  <2>1. CASE th' = ths
    BY <1>5, <2>1
  <2>2. ASSUME NEW v \in Tid, th' = [ths EXCEPT ![v].pss = TRUE]
        PROVE  \A u \in Tid : /\ th'[u].known = ths[u].known
                              /\ th'[u].running = ths[u].running
                              /\ th'[u].susp = ths[u].susp
    BY <1>2, <1>6, <2>2 DEF Records, ThreadRecords
  <2> QED
    <3> HIDE DEF ths
    <3> QED
      BY <1>4, <1>5, <2>1, <2>2
<1>8. \A u \in Tid : Suspended(u)' => Suspended(u)
  BY <1>3, <1>7 DEF Suspended
<1>9. \A u \in Tid : Still(u)
  <2> HIDE DEF ths
  <2> QED
    BY <1>4, <1>7, StillSigstop
<1> QED
  BY <1>1, <1>8, <1>9, SentAll

LEMMA UserAll ==
  ASSUME Restricted, IInv, CurInv, Accounted, Ready, User
  PROVE  Accounted' /\ Ready'
<1>1. CASE k' = k /\ th' = th /\ stack' = stack /\ ret' = ret
  BY <1>1, AllStill, SentAll DEF Alike, Suspended
<1>2. CASE \/ Continue \/ StepInto \/ Pause \/ \E t \in Tid : SwitchThread(t)
           \/ \E a \in Addr : SetBreakpoint(a) \/ DeleteBreakpoint(a)
  <2>1. k' = k /\ th' = th /\ stack' = stack /\ ret' = ret
    BY <1>2 DEF Continue, StepInto, Pause, SwitchThread, SetBreakpoint, DeleteBreakpoint,
                kernelVars, tracerVars
  <2> QED
    BY <1>1, <2>1
<1> QED
  BY <1>2, InterruptRunningThreadAll, SuspendAll, ResumeAllKept DEF User

-----------------------------------------------------------------------------
(* What the tracer's steps have in common                                  *)

LEMMA AccountedAlike ==
  ASSUME Accounted, k' = k, Alike(th', th),
         Top.at \notin {"swallowWait", "stepWait", "clone"}, Top'.at # "clone"
  PROVE  Accounted'
BY AllStill, AccountedAway

\* One thread goes on or has its stop taken, with the child it may announce.
LEMMA AccountedOne ==
  ASSUME Accounted, NEW t \in Tid, Moves(t), ~Still(t),
         \A u \in Tid \ {t} : Still(u) \/ Moves(u),
         Top.at # "clone", Top'.at # "clone",
         Top.at \in {"swallowWait", "stepWait"} => Top.tid = t
  PROVE  Accounted'
<1>1. \A u \in Tid : ~AtClone(u) /\ ~AtClone(u)'
  BY DEF AtClone
<1>2. \A u \in Tid : ~(Still(u) /\ Excused(u))
  BY DEF Excused
<1> QED
  BY <1>1, <1>2, AccountedBy

\* Who is handled is known and does not run.
LEMMA ReportReady ==
  ASSUME Top'.at \in ReportPoints \ {"sweepWait"},
         th'[Top'.tid].known, ~th'[Top'.tid].running,
         Top'.at = "exit" => k'[Top'.tid].dying
  PROVE  Ready'
BY DEF Ready, Reported, ReportPoints, Awaited, Leaving, Quiet, NewOnly, StartPoint,
       Unsuspended, ToStep, SwallowPoints

\* The tracer waits for the user, and nobody runs.
LEMMA WaitReady ==
  ASSUME Top'.at \in {"wait", "pend", "decide"}, \A t \in Tid : ~th'[t].running
  PROVE  Ready'
BY DEF Ready, Reported, ReportPoints, Awaited, Leaving, Quiet, NewOnly, StartPoint,
       Unsuspended, ToStep, SwallowPoints, AnyRunning

\* Something is about to be started.
LEMMA StartReady ==
  ASSUME Ready, StartPoint' => StartPoint \/ ~AnyRunning,
         Top'.at \in {"stepPast", "lifted", "stepWait", "swallow", "swallowWait", "stepNow",
                      "stepped", "cont"},
         \A t \in Tid : th'[t].running =>
           \/ th[t].running /\ th'[t].susp = th[t].susp
           \/ Births # {} /\ th'[t].susp = 0,
         ToStep' => /\ Top'.tid = Top.tid
                    /\ th'[Top.tid].susp \in {0, th[Top.tid].susp}
                    /\ ToStep \/ ~Suspended(Top.tid)
  PROVE  Ready'
<1>1. NewOnly'
  BY DEF Ready, NewOnly, Suspended, AnyRunning
<1>2. Unsuspended'
  BY DEF Ready, Unsuspended, Suspended
<1>3. Reported' /\ Awaited' /\ Leaving' /\ Quiet'
  BY DEF Reported, ReportPoints, Awaited, Leaving, Quiet
<1> QED
  BY <1>1, <1>2, <1>3 DEF Ready

\* A thread in ptrace-stop is set going, and is said to run unless it is excused or dies.
LEMMA StartedKnown ==
  ASSUME Accounted, NEW t \in Tid, InPtraceStop(t)
  PROVE  th[t].known
BY DEF Accounted, Unmet, InPtraceStop, Runs

LEMMA StartsAll ==
  ASSUME IInv, Accounted, NEW t \in Tid, InPtraceStop(t), NEW how \in {"run", "step"},
         k' = Restart(t, how), \A u \in Tid : th'[u].known = th[u].known,
         \A u \in Tid \ {t} : th'[u].running = th[u].running,
         th'[t].running \/ Excused(t)' \/ k[t].dying,
         Top.at \notin {"swallowWait", "stepWait", "clone"}, Top'.at # "clone"
  PROVE  Accounted'
<1>1. k \in Kernels /\ th[t].known /\ k[t].run = "stopped" /\ k[t].status = "none"
  BY StartedKnown DEF IInv, Threads, Kernels, InPtraceStop
<1>2. /\ Others(k', k, t) /\ k'[t].run = how /\ k'[t].status = k[t].status
      /\ k'[t].dying = k[t].dying
  BY <1>1, RestartIs
<1>3. ~Announcing(t)
  BY <1>1 DEF Announcing, AtClone
<1>4. Booked(t)
  BY <1>1, <1>2 DEF Booked, Living
<1>5. Moves(t) /\ ~Still(t)
  BY <1>1, <1>2, <1>3, <1>4, MovesBy DEF Still
<1>6. \A u \in Tid \ {t} : Still(u)
  BY <1>2 DEF Others, Still
<1> QED
  BY <1>5, <1>6, AccountedOne

\* A stop is taken, from a thread that is known from now on.
LEMMA TakenStays ==
  ASSUME k \in Kernels, NEW t \in Tid, k' = [k EXCEPT ![t].status = "none"]
  PROVE  /\ Others(k', k, t) /\ k'[t].status = "none" /\ k'[t].run = k[t].run
         /\ k'[t].dying = k[t].dying /\ k'[t].child = k[t].child
<1> DEFINE x == [k[t] EXCEPT !.status = "none"]
<1>1. k' = [k EXCEPT ![t] = x]
  BY DEF Kernels
<1>2. /\ x.status = "none" /\ x.run = k[t].run
      /\ x.dying = k[t].dying /\ x.child = k[t].child
  BY DEF Kernels, KernelThread
<1> HIDE DEF x
<1> QED
  BY <1>1, <1>2 DEF Others, Kernels

LEMMA TakenBooked ==
  ASSUME IInv, NEW t \in Tid, k[t].status # "none", k'[t].status = "none",
         k'[t].run = k[t].run, th'[t].known
  PROVE  Booked(t)
<1>1. k[t].run \in {"stopped", "dead"}
  BY DEF IInv, Threads, StatusOf
<1> QED
  BY <1>1 DEF Booked, Living, InPtraceStop

\* A thread ends: what the tracer knew of it is gone.
LEMMA EndsAll ==
  ASSUME IInv, Accounted, NEW t \in Tid, k[t].status = "exited", ExitThreadEvent(t),
         Top.at # "clone", Top'.at # "clone",
         Top.at \in {"swallowWait", "stepWait"} => Top.tid = t
  PROVE  /\ Accounted' /\ th'[t] = NoThread /\ \A u \in Tid \ {t} : th'[u] = th[u]
         /\ k'[t].dying = k[t].dying
<1>1. k \in Kernels /\ th \in Records /\ k[t].run = "dead"
  BY DEF IInv, Threads, Kernels, Records, StatusOf
<1>2. k' = [k EXCEPT ![t].status = "none"] /\ th' = [th EXCEPT ![t] = NoThread]
  BY DEF ExitThreadEvent
<1>3. /\ Others(k', k, t) /\ k'[t].status = "none" /\ k'[t].run = "dead"
      /\ k'[t].dying = k[t].dying
  BY <1>1, <1>2, TakenStays
<1>4. th'[t] = NoThread /\ \A u \in Tid \ {t} : th'[u] = th[u]
  BY <1>1, <1>2 DEF Records
<1>5. ~th'[t].running
  BY <1>4 DEF NoThread
<1>6. Booked(t) /\ ~Announcing(t)
  BY <1>3, <1>5 DEF Booked, Living, Announcing, AtClone
<1>7. Moves(t) /\ ~Still(t)
  BY <1>3, <1>6, MovesBy DEF Still
<1>8. \A u \in Tid \ {t} : Still(u)
  BY <1>3, <1>4 DEF Others, Still
<1> QED
  BY <1>3, <1>4, <1>7, <1>8, AccountedOne

\* A child that is registered runs, and nobody has suspended it.
LEMMA RegisterRuns ==
  ASSUME NEW ths \in Records, \A u \in Tid : th[u].known => ths[u].known, NEW p \in Tid
  PROVE  /\ \A u \in Tid : \/ RegisterClone(ths, p)[u] = ths[u]
                           \/ /\ u = k[p].child /\ ~th[u].known
                              /\ RegisterClone(ths, p)[u].known
                              /\ RegisterClone(ths, p)[u].running
                              /\ RegisterClone(ths, p)[u].susp = 0
         /\ k[p].child \in Tid => RegisterClone(ths, p)[k[p].child].known
<1> DEFINE c == k[p].child
           x == [NewThread EXCEPT !.running = TRUE, !.pss = TRUE]
<1>1. x.known /\ x.running /\ x.susp = 0
  BY DEF NewThread, NoThread
<1>2. RegisterClone(ths, p) = IF th[c].known THEN ths ELSE [ths EXCEPT ![c] = x]
  BY DEF RegisterClone
<1> HIDE DEF x
<1>3. CASE th[c].known
  <2>1. RegisterClone(ths, p) = ths
    BY <1>2, <1>3
  <2> QED
    BY <1>3, <2>1
<1>4. CASE ~th[c].known
  <2>1. RegisterClone(ths, p) = [ths EXCEPT ![c] = x]
    BY <1>2, <1>4
  <2>2. \A u \in Tid : RegisterClone(ths, p)[u] = IF u = c THEN x ELSE ths[u]
    BY <2>1 DEF Records
  <2> HIDE DEF c
  <2>3. \A u \in Tid : RegisterClone(ths, p)[u] = ths[u]
                       \/ (u = c /\ RegisterClone(ths, p)[u] = x)
    BY <2>2
  <2>4. c \in Tid => RegisterClone(ths, p)[c] = x
    BY <2>2
  <2>5. \A u \in Tid : \/ RegisterClone(ths, p)[u] = ths[u]
                       \/ /\ u = c /\ ~th[u].known
                          /\ RegisterClone(ths, p)[u].known
                          /\ RegisterClone(ths, p)[u].running
                          /\ RegisterClone(ths, p)[u].susp = 0
    BY <1>1, <1>4, <2>3
  <2>6. c \in Tid => RegisterClone(ths, p)[c].known
    BY <1>1, <2>4
  <2> QED
    BY <2>5, <2>6 DEF c
<1> QED
  BY <1>3, <1>4

LEMMA RegisteredMoves ==
  ASSUME IInv, Accounted, NEW p \in Tid, Announcing(p), NEW c \in Tid, c = k[p].child,
         ~th[c].known, th'[c].known, th'[c].running,
         k'[c] = k[c], k'[c].run # "unborn"
  PROVE  Moves(c)
<1>1. k[c].run # "unborn" /\ ~Announcing(c)
  BY DEF Accounted, Parent
<1>2. k[c].status # "clone"
  BY <1>1 DEF Announcing
<1>3. Booked(c)
  BY <1>1 DEF Booked, Accounted, Lawful
<1> QED
  BY <1>1, <1>2, <1>3, MovesBy

-----------------------------------------------------------------------------
(* The loop and the handlers                                               *)

\* handleSignal, from the loop or from a step over the byte.
LEMMA HandleSignalAll ==
  ASSUME IInv, Accounted, NEW t \in Tid, k[t].status # "none",
         NEW ths \in Records, Alike(ths, th), NEW below, HandleSignal(t, ths, below),
         Top'.at = HandlerOf(k[t].status), Top'.tid = t,
         Top.at = "loop" \/ (Top.at = "stepWait" /\ Top.tid = t)
  PROVE  Accounted' /\ Ready'
<1>1. k \in Kernels /\ k' = [k EXCEPT ![t].status = "none"]
  BY DEF IInv, Threads, Kernels, HandleSignal
<1>2. /\ Others(k', k, t) /\ k'[t].status = "none" /\ k'[t].run = k[t].run
      /\ k'[t].dying = k[t].dying /\ k'[t].child = k[t].child
  BY <1>1, TakenStays
<1> DEFINE owes == IF k[t].status = "stop" THEN FALSE ELSE ths[t].pss
           x == [ths[t] EXCEPT !.known = TRUE, !.running = FALSE, !.pss = owes]
<1>3. th' = [ths EXCEPT ![t] = x]
  BY DEF HandleSignal, Records
<1>4. x.known /\ ~x.running
  BY DEF Records, ThreadRecords
<1> HIDE DEF x
<1>5. th'[t].known /\ ~th'[t].running /\ \A u \in Tid \ {t} : th'[u] = ths[u]
  BY <1>3, <1>4 DEF Records
<1>6. \A u \in Tid \ {t} : Still(u)
  BY <1>2, <1>5 DEF Others, Still, Alike
<1>7. Top'.at = "clone" => k[t].status = "clone"
  BY DEF HandlerOf
<1>8. k[t].status = "clone" => AtClone(t)'
  BY DEF HandlerOf, AtClone
<1>9. Moves(t) /\ ~Still(t)
  <2>1. Booked(t)
    BY <1>2, <1>5, TakenBooked
  <2> QED
    BY <1>2, <1>8, <2>1 DEF Moves, Announcing, AtClone, Still
<1>10. \A u \in Tid : ~(Still(u) /\ Excused(u)) /\ ~AtClone(u)
  BY <1>9 DEF Excused, AtClone
<1>11. \A u \in Tid : AtClone(u)' => /\ Announcing(u) /\ th'[u].known
                                      /\ k'[u].run = k[u].run /\ k'[u].dying = k[u].dying
                                      /\ k'[u].child = k[u].child
  BY <1>2, <1>5, <1>7 DEF AtClone, Announcing
<1>12. Accounted'
  BY <1>6, <1>9, <1>10, <1>11, AccountedBy
<1>13. Ready'
  <2>1. Top'.at \in ReportPoints \ {"sweepWait"}
    BY DEF HandlerOf, ReportPoints
  <2>2. Top'.at = "exit" => k'[t].dying
    BY <1>2 DEF HandlerOf, Accounted, Lawful
  <2> QED
    BY <1>5, <2>1, <2>2, ReportReady
<1> QED
  BY <1>12, <1>13

LEMMA WaitAnyAll ==
  ASSUME IInv, CurInv, Accounted, NEW t \in Tid, WaitAny(t)
  PROVE  Accounted' /\ Ready'
<1>1. /\ Top.at = "loop" /\ HandleSignal(t, th, stack) /\ k[t].status # "none"
      /\ th \in Records /\ Alike(th, th)
  BY DEF WaitAny, At, IInv, Threads, Records, Alike
<1> QED
  BY <1>1, WaitAnyCur, HandleSignalAll

LEMMA ReapAll ==
  ASSUME IInv, Accounted, NEW t \in Tid, Reap(t)
  PROVE  Accounted' /\ Ready'
<1>1. Top.at = "loop" /\ Top' = Top /\ k[t].status = "exited" /\ ExitThreadEvent(t)
  BY DEF Reap, At, Top
<1> QED
  BY <1>1, EndsAll, IdleReady DEF IdlePoints

\* A handler ends, or the tracer pauses because nobody runs.
LEMMA ReturnsReady ==
  ASSUME IInv, CurInv, Top.at \in HandlerPoints \ {"wait"}, Return, paused' = paused
  PROVE  Ready' /\ Top'.at \in {"loop", "stepTaken"}
<1>1. Below.at \in {"loop", "stepTaken"}
  BY BelowIs DEF CalledBy, HandlerPoints
<1>2. Top' = Below
  BY NotPaused, HandlerReturns
<1> QED
  BY <1>1, <1>2, IdleReady DEF IdlePoints

LEMMA ParksReady ==
  ASSUME IInv, CurInv, Top.at \in HandlerPoints \ {"wait"}, NEW t \in Tid, cur' # NoTid,
         PauseIfAlone(t), Alike(th', th)
  PROVE  Ready' /\ Top'.at \in {"loop", "stepTaken", "wait"}
<1>1. CASE AnyRunning
  BY <1>1, ReturnsReady DEF PauseIfAlone
<1>2. CASE ~AnyRunning
  <2>1. Top'.at = "wait"
    BY <1>2, HandlerPauses DEF PauseIfAlone, BeginPause
  <2> QED
    BY <1>2, <2>1, WaitReady DEF AnyRunning, Alike
<1> QED
  BY <1>1, <1>2

\* A handler goes on for its thread, which stays stopped.
LEMMA HandlerReady ==
  ASSUME IInv, Ready, Top.at \in ReportPoints, Top'.tid = Top.tid,
         Top'.at \in ReportPoints \ {"sweepWait", "exit"} \/ Top'.at \in IdlePoints,
         th'[Top.tid].known = th[Top.tid].known,
         th'[Top.tid].running = th[Top.tid].running
  PROVE  Ready'
BY ReportReady, IdleReady DEF Ready, Reported

\* The frames the handlers go on to.
LEMMA GoesOnTo ==
  ASSUME IInv, CurInv, Top.at \in ReportPoints \ {"sweepWait"}, cur' = cur, paused' = paused,
         \/ \E why \in Reasons : Become(StopAll(Top.tid, why))
         \/ \E sig, park \in BOOLEAN : Become(ContinueOrPark(Top.tid, sig, park))
  PROVE  Top'.tid = Top.tid /\ Top'.at \in {"sweep", "continueOrPark"}
<1>1. /\ Top.at \in HandlerPoints \ {"wait"} /\ cur' = Top.tid /\ Top.tid \in Tid
      /\ ~paused'
  BY TopOwn, NotPaused DEF HandlerPoints, OwnPoints, ReportPoints
<1>2. ASSUME NEW why \in Reasons, Become(StopAll(Top.tid, why))
      PROVE  Top'.tid = Top.tid /\ Top'.at = "sweep"
  BY <1>1, <1>2, HandlerStopsAll, KindsOfFrame
<1>3. ASSUME NEW sig \in BOOLEAN, NEW park \in BOOLEAN,
             Become(ContinueOrPark(Top.tid, sig, park))
      PROVE  Top'.tid = Top.tid /\ Top'.at = "continueOrPark"
  BY <1>1, <1>3, HandlerContinues
<1> QED
  BY <1>2, <1>3

LEMMA StopForSuspendAll ==
  ASSUME IInv, CurInv, Accounted, Ready, StopForSuspend
  PROVE  Accounted' /\ Ready'
<1> DEFINE t == Top.tid
           resumed == t \in pendSuspend /\ ~Suspended(t)
           f == [Top EXCEPT !.at = "stopForResumes", !.resumed = resumed]
<1>1. /\ Top.at = "stop" /\ cur' = cur /\ th' = th /\ k' = k
      /\ PauseIfAlone(t) \/ (Become(f) /\ UNCHANGED <<paused, allStopped>>)
  BY DEF StopForSuspend, At, kernelVars
<1>2. Top.at \in HandlerPoints \ {"wait"} /\ Top.at \in OwnPoints /\ Top.at \in ReportPoints
  BY <1>1 DEF HandlerPoints, OwnPoints, ReportPoints
<1>3. cur' = t /\ t \in Tid /\ cur' # NoTid /\ ~paused /\ Alike(th', th)
  BY <1>1, <1>2, TopOwn, NotPaused DEF Alike
<1>4. CASE Become(f) /\ UNCHANGED <<paused, allStopped>>
  <2>1. resumed \in BOOLEAN /\ Top \in Activations
    BY TopIs
  <2>2. f \in Activations /\ f.at = "stopForResumes" /\ f.tid = t
    <3> HIDE DEF resumed
    <3> QED
      BY <2>1 DEF Activations, Points
  <2> HIDE DEF f
  <2>3. Top' = f
    BY <1>2, <1>3, <1>4, <2>2, HandlerOwn DEF HandlerPoints, OwnPoints
  <2>4. Ready'
    BY <1>1, <1>2, <2>2, <2>3, HandlerReady DEF ReportPoints
  <2>5. Accounted'
    BY <1>1, <1>3, <2>2, <2>3, AccountedAlike
  <2> QED
    BY <2>4, <2>5
<1>5. CASE PauseIfAlone(t)
  BY <1>1, <1>2, <1>3, <1>5, ParksReady, AccountedAlike
<1> QED
  BY <1>1, <1>4, <1>5

LEMMA StopForResumesAll ==
  ASSUME IInv, CurInv, Accounted, Ready, StopForResumes
  PROVE  Accounted' /\ Ready'
<1>1. /\ Top.at = "stopForResumes" /\ cur' = cur /\ paused' = paused /\ th' = th /\ k' = k
      /\ \/ Become(StopAll(Top.tid, "resume")) \/ Become(Frame("takeResumes", Top.tid))
         \/ Become(Moved(Top, "stopForPause"))
  BY DEF StopForResumes, At, Moved, kernelVars
<1>2. /\ Top.at \in HandlerPoints /\ cur' = Top.tid /\ Top.tid \in Tid /\ ~paused'
      /\ Top \in Activations /\ Top.at \in ReportPoints \ {"sweepWait"} /\ Alike(th', th)
  BY <1>1, TopOwn, NotPaused, TopIs DEF HandlerPoints, OwnPoints, ReportPoints, Alike
<1>3. CASE Become(Moved(Top, "stopForPause"))
  <2>1. /\ Moved(Top, "stopForPause") \in Activations
        /\ Moved(Top, "stopForPause").at = "stopForPause"
        /\ Moved(Top, "stopForPause").tid = Top.tid
    BY <1>2, MovedIs DEF Points, SameThreads
  <2>2. Top' = Moved(Top, "stopForPause")
    BY <1>2, <1>3, <2>1, HandlerOwn DEF HandlerPoints, OwnPoints
  <2>3. Top'.at = "stopForPause" /\ Top'.tid = Top.tid
    BY <2>1, <2>2
  <2> QED
    BY <1>1, <1>2, <2>3, HandlerReady, AccountedAlike DEF ReportPoints
<1>4. CASE Become(StopAll(Top.tid, "resume"))
  <2>1. Top'.at \in {"sweep", "continueOrPark"} /\ Top'.tid = Top.tid
    BY <1>1, <1>2, <1>4, GoesOnTo DEF Reasons
  <2> QED
    BY <1>1, <1>2, <2>1, HandlerReady, AccountedAlike DEF ReportPoints, IdlePoints
<1>5. CASE Become(Frame("takeResumes", Top.tid))
  <2>1. Top'.at = "takeResumes"
    BY <1>2, <1>5, HandlerAt, FrameIs DEF HandlerPoints, OwnPoints, Points
  <2> QED
    BY <1>1, <1>2, <2>1, IdleReady, AccountedAlike DEF IdlePoints
<1> QED
  BY <1>1, <1>3, <1>4, <1>5

LEMMA RunningRuns ==
  ASSUME NEW ths \in Records, NEW t \in Tid
  PROVE  Running(ths, t)[t].running /\ Running(ths, t)[t].susp = ths[t].susp
BY DEF Running, Records, ThreadRecords

\* A handler that restarts its thread, or ends without.
LEMMA StopForPauseAll ==
  ASSUME IInv, CurInv, Accounted, Ready, StopForPause
  PROVE  Accounted' /\ Ready'
<1> DEFINE t == Top.tid
<1>1. /\ Top.at = "stopForPause" /\ cur' = cur /\ paused' = paused
      /\ \/ th' = ClearSingleStep(th, t) /\ k' = k /\ Become(StopAll(t, "paused"))
         \/ k' = Restart(t, "step") /\ th' = Running(th, t) /\ Return
         \/ k' = k /\ th' = th /\ Return
         \/ k' = k /\ th' = th /\ Become(ContinueOrPark(t, FALSE, FALSE))
  BY DEF StopForPause, At
<1>2. /\ Top.at \in HandlerPoints \ {"wait"} /\ Top.at \in ReportPoints \ {"sweepWait"}
      /\ t \in Tid /\ th \in Records /\ InPtraceStop(t)
  BY <1>1, TopIs DEF HandlerPoints, ReportPoints, IInv, Threads, Records, Handled, StopPoints
<1>3. CASE th' = ClearSingleStep(th, t) /\ k' = k /\ Become(StopAll(t, "paused"))
  <2>1. Alike(th', th)
    BY <1>2, <1>3, ClearIs
  <2>2. Top'.tid = t /\ Top'.at \in {"sweep", "continueOrPark"}
    BY <1>1, <1>2, <1>3, GoesOnTo DEF Reasons
  <2>3. Ready'
    BY <1>2, <2>1, <2>2, HandlerReady DEF ReportPoints, IdlePoints, Alike
  <2> QED
    BY <1>1, <1>3, <2>1, <2>2, <2>3, AccountedAlike
<1>4. CASE k' = Restart(t, "step") /\ th' = Running(th, t) /\ Return
  <2>1. Ready' /\ Top'.at \in {"loop", "stepTaken"}
    BY <1>1, <1>2, <1>4, ReturnsReady
  <2>2. /\ Others(th', th, t) /\ th'[t].known = th[t].known /\ th'[t].running
    BY <1>2, <1>4, RunningIs, RunningRuns
  <2>3. Accounted'
    BY <1>1, <1>2, <1>4, <2>1, <2>2, StartsAll DEF Others
  <2> QED
    BY <2>1, <2>3
<1>5. CASE k' = k /\ th' = th /\ Return
  <2>1. Ready' /\ Top'.at \in {"loop", "stepTaken"}
    BY <1>1, <1>2, <1>5, ReturnsReady
  <2> QED
    BY <1>1, <1>5, <2>1, AccountedAlike DEF Alike
<1>6. CASE k' = k /\ th' = th /\ Become(ContinueOrPark(t, FALSE, FALSE))
  <2>1. Top'.tid = t /\ Top'.at \in {"sweep", "continueOrPark"}
    BY <1>1, <1>2, <1>6, GoesOnTo
  <2>2. Ready'
    BY <1>2, <1>6, <2>1, HandlerReady DEF ReportPoints, IdlePoints
  <2> QED
    BY <1>1, <1>6, <2>1, <2>2, AccountedAlike DEF Alike
<1> QED
  BY <1>1, <1>3, <1>4, <1>5, <1>6

\* What a trap changes of a thread's record does not matter here.
LEMMA StillAlike ==
  ASSUME IInv, NEW t \in Tid, k' = k \/ k' = [k EXCEPT ![t].past = FALSE], Alike(th', th)
  PROVE  \A u \in Tid : Still(u)
<1> DEFINE x == [k[t] EXCEPT !.past = FALSE]
<1>1. k \in Kernels
  BY DEF IInv, Threads, Kernels
<1>2. CASE k' = k
  BY <1>2, AllStill
<1>3. CASE k' = [k EXCEPT ![t].past = FALSE]
  <2>1. k' = [k EXCEPT ![t] = x]
    BY <1>1, <1>3 DEF Kernels
  <2>2. /\ x.run = k[t].run /\ x.status = k[t].status /\ x.dying = k[t].dying
        /\ x.child = k[t].child /\ x.due = k[t].due /\ x.stopq = k[t].stopq
        /\ x.sigq = k[t].sigq
    BY <1>1 DEF Kernels, KernelThread
  <2> HIDE DEF x
  <2>3. \A u \in Tid : k'[u] = IF u = t THEN x ELSE k[u]
    BY <1>1, <2>1 DEF Kernels
  <2>4. Still(t)
    BY <2>2, <2>3 DEF Still, Alike
  <2>5. \A u \in Tid \ {t} : Still(u)
    BY <2>3 DEF Still, Alike
  <2> QED
    BY <2>4, <2>5
<1> QED
  BY <1>2, <1>3

LEMMA HandleSigtrapAll ==
  ASSUME IInv, CurInv, Accounted, Ready, HandleSigtrap
  PROVE  Accounted' /\ Ready'
<1> DEFINE t == Top.tid
<1>1. /\ Top.at = "trap" /\ cur' = cur /\ paused' = paused
      /\ \/ Become(StopAll(t, "step")) \/ Become(StopAll(t, "breakpoint"))
         \/ Become(StopAll(t, "exception"))
         \/ Become(ContinueOrPark(t, FALSE, FALSE))
  BY DEF HandleSigtrap, At, userVars
<1>2. k' = k \/ k' = [k EXCEPT ![t].past = FALSE]
  BY DEF HandleSigtrap
<1>3. th' = ClearSingleStep(th, t) \/ th' = [th EXCEPT ![t].atBp = TRUE] \/ th' = th
  BY DEF HandleSigtrap
<1>4. /\ Top.at \in ReportPoints \ {"sweepWait"} /\ t \in Tid /\ th \in Records
  BY <1>1, TopIs DEF ReportPoints, IInv, Threads, Records
<1>5. Alike(th', th)
  <2>1. CASE th' = ClearSingleStep(th, t)
    BY <1>4, <2>1, ClearIs
  <2>2. CASE th' = [th EXCEPT ![t].atBp = TRUE]
    BY <1>4, <2>2, FieldsAre
  <2> QED
    BY <1>3, <2>1, <2>2 DEF Alike
<1>6. Top'.tid = t /\ Top'.at \in {"sweep", "continueOrPark"}
  BY <1>1, <1>4, GoesOnTo DEF Reasons
<1>7. Ready'
  BY <1>4, <1>5, <1>6, HandlerReady DEF ReportPoints, IdlePoints, Alike
<1>8. Accounted'
  BY <1>1, <1>4, <1>5, <1>6, <1>2, StillAlike, AccountedAway
<1> QED
  BY <1>7, <1>8

LEMMA ReportSignalAll ==
  ASSUME IInv, CurInv, Accounted, Ready, ReportSignal
  PROVE  Accounted' /\ Ready'
<1> DEFINE t == Top.tid
<1>1. /\ Top.at = "sig" /\ cur' = cur /\ paused' = paused /\ k' = k
      /\ Become(StopAll(t, "exception")) /\ th' = ClearSingleStep(th, t)
  BY DEF ReportSignal, At, userVars, kernelVars
<1>2. /\ Top.at \in ReportPoints \ {"sweepWait"} /\ t \in Tid /\ th \in Records
  BY <1>1, TopIs DEF ReportPoints, IInv, Threads, Records
<1>3. Alike(th', th)
  BY <1>1, <1>2, ClearIs
<1>4. Top'.tid = t /\ Top'.at \in {"sweep", "continueOrPark"}
  BY <1>1, <1>2, GoesOnTo DEF Reasons
<1>5. Ready'
  BY <1>2, <1>3, <1>4, HandlerReady DEF ReportPoints, IdlePoints, Alike
<1> QED
  BY <1>1, <1>3, <1>4, <1>5, AccountedAlike

\* The child becomes known before the thread that has created it goes on.
LEMMA HandleCloneAll ==
  ASSUME IInv, CurInv, Accounted, Ready, HandleClone
  PROVE  Accounted' /\ Ready'
<1> DEFINE t == Top.tid
           c == k[t].child
           ths == ClearSingleStep(th, t)
<1>1. /\ Top.at = "clone" /\ cur' = cur /\ paused' = paused /\ k' = k
      /\ th' = RegisterClone(ths, t)
      /\ Become(StopAll(t, "step")) \/ Become(ContinueOrPark(t, FALSE, FALSE))
  BY DEF HandleClone, At, userVars, kernelVars
<1>2. /\ Top.at \in ReportPoints \ {"sweepWait"} /\ t \in Tid /\ th \in Records
      /\ th[t].known /\ ~th[t].running
  BY <1>1, TopIs DEF ReportPoints, IInv, Threads, Records, Ready, Reported
<1>3. ths \in Records /\ Alike(ths, th)
  BY <1>2, ClearIs
<1>4. Announcing(t) /\ c \in Tid /\ k[c].run # "unborn" /\ \A u \in Tid : AtClone(u) => u = t
  BY <1>1, <1>2 DEF Announcing, AtClone, Accounted, Parent
<1> HIDE DEF ths
<1>5. /\ \A u \in Tid : \/ th'[u] = ths[u]
                        \/ u = c /\ ~th[u].known /\ th'[u].known /\ th'[u].running
      /\ th'[c].known
  BY <1>1, <1>2, <1>3, <1>4, RegisterRuns DEF Alike
<1>6. \A u \in Tid : Still(u) \/ Moves(u)
  <2> TAKE u \in Tid
  <2>1. CASE th'[u] = ths[u]
    BY <1>1, <1>3, <2>1 DEF Still, Alike
  <2>2. CASE u = c /\ ~th[u].known /\ th'[u].known /\ th'[u].running
    BY <1>1, <1>2, <1>4, <2>2, RegisteredMoves
  <2> QED
    BY <1>5, <2>1, <2>2
<1>7. Top'.tid = t /\ Top'.at \in {"sweep", "continueOrPark"}
  BY <1>1, <1>2, GoesOnTo DEF Reasons
<1>8. Accounted'
  <2>1. \A u \in Tid : ~Excused(u) /\ ~AtClone(u)'
    BY <1>1, <1>7 DEF Excused, AtClone
  <2>2. \A u \in Tid : AtClone(u) => th'[k[u].child].known
    BY <1>4, <1>5
  <2> QED
    BY <1>6, <2>1, <2>2, AccountedBy
<1>9. Ready'
  <2>1. th'[t] = ths[t]
    BY <1>2, <1>5
  <2> QED
    BY <1>2, <1>3, <1>7, <2>1, HandlerReady DEF ReportPoints, IdlePoints, Alike
<1> QED
  BY <1>8, <1>9

LEMMA HandleExitAll ==
  ASSUME IInv, CurInv, Accounted, Ready, HandleExit
  PROVE  Accounted' /\ Ready'
<1> DEFINE t == Top.tid
<1>1. /\ Top.at = "exit" /\ paused' = paused /\ Return
      /\ k' = Restart(t, "run") /\ th' = ClearSingleStep(th, t)
  BY DEF HandleExit, At, userVars
<1>2. /\ Top.at \in HandlerPoints \ {"wait"} /\ t \in Tid /\ th \in Records /\ InPtraceStop(t)
      /\ k[t].dying
  BY <1>1, TopIs DEF HandlerPoints, IInv, Threads, Records, Handled, StopPoints, Ready, Leaving
<1>3. Alike(th', th)
  BY <1>1, <1>2, ClearIs
<1>4. Ready' /\ Top'.at \in {"loop", "stepTaken"}
  BY <1>1, <1>2, ReturnsReady
<1>5. Accounted'
  BY <1>1, <1>2, <1>3, <1>4, StartsAll DEF Alike
<1> QED
  BY <1>4, <1>5

LEMMA LoopAll ==
  ASSUME Restricted, IInv, CurInv, Accounted, Ready, Loop
  PROVE  Accounted' /\ Ready'
<1>1. ASSUME NEW t \in Tid, WaitAny(t) \/ Reap(t)
      PROVE  Accounted' /\ Ready'
  BY <1>1, WaitAnyAll, ReapAll
<1> QED
  BY <1>1, StopForSuspendAll, StopForResumesAll, StopForPauseAll, HandleSigtrapAll,
     ReportSignalAll, HandleCloneAll, HandleExitAll DEF Loop

-----------------------------------------------------------------------------
(* The sweep                                                               *)

\* The stop of a thread is taken that announces nobody.
LEMMA TakenOne ==
  ASSUME IInv, Accounted, NEW t \in Tid, k[t].status \notin {"none", "clone"},
         Others(k', k, t), k'[t].status = "none", k'[t].run = k[t].run, th'[t].known,
         \A u \in Tid \ {t} : th'[u].known = th[u].known /\ th'[u].running = th[u].running,
         Top.at # "clone", Top'.at # "clone",
         Top.at \in {"swallowWait", "stepWait"} => Top.tid = t
  PROVE  Accounted'
<1>1. Booked(t) /\ ~Announcing(t)
  BY TakenBooked DEF Announcing, AtClone
<1>2. Moves(t) /\ ~Still(t)
  BY <1>1, MovesBy DEF Still
<1>3. \A u \in Tid \ {t} : Still(u)
  BY DEF Others, Still
<1> QED
  BY <1>2, <1>3, AccountedOne

\* The thread that is waited for is a known one that was running.
LEMMA WhoRuns ==
  ASSUME IInv, CurInv, Accounted, Ready, Top.at = "sweepWait"
  PROVE  /\ Top.who \in Tid /\ Top.who # Top.tid /\ Top.tid \in Tid
         /\ th[Top.who].running /\ th[Top.who].known
         /\ th[Top.tid].known /\ ~th[Top.tid].running
         /\ k \in Kernels /\ th \in Records
<1>1. Top.who \in Tid /\ Top.who # Top.tid
  BY WhoIs DEF CurInv, Own
<1> QED
  BY <1>1, TopIs DEF Ready, Reported, Awaited, ReportPoints, Accounted, Lawful,
     IInv, Threads, Kernels, Records

\* The sweep goes on; the thread that is reported is left alone.
LEMMA SweepReady ==
  ASSUME IInv, CurInv, Accounted, Ready, Top.at = "sweepWait",
         Top' = [Top EXCEPT !.at = "sweep"],
         th'[Top.tid].known = th[Top.tid].known, th'[Top.tid].running = th[Top.tid].running
  PROVE  Ready' /\ Top'.at = "sweep" /\ Top'.tid = Top.tid
<1>1. Top'.at = "sweep" /\ Top'.tid = Top.tid
  BY TopIs DEF Activations
<1> QED
  BY <1>1, WhoRuns, ReportReady DEF ReportPoints

LEMMA SweepAskAll ==
  ASSUME IInv, CurInv, Accounted, Ready, NEW t \in Tid, SweepAsk(t)
  PROVE  Accounted' /\ Ready'
<1> DEFINE f == [Top EXCEPT !.at = "sweepWait", !.who = t]
<1>1. /\ Top.at = "sweep" /\ cur' = cur /\ ret' = ret /\ paused' = paused
      /\ t # Top.tid /\ Become(f) /\ th' = th /\ th[t].running
      /\ k' = k \/ k' = WithSigstop(k, t, TRUE)
  BY DEF SweepAsk, At, userVars, WithSigstop
<1>2. /\ Top.at \in HandlerPoints /\ cur' = Top.tid /\ Top.tid \in Tid /\ ~paused'
      /\ Top \in Activations
  BY <1>1, TopOwn, NotPaused, TopIs DEF HandlerPoints, OwnPoints
<1>3. f \in Activations /\ f.at = "sweepWait" /\ f.tid = Top.tid /\ f.who = t
  BY <1>2 DEF Activations, Points
<1> HIDE DEF f
<1>4. Above(f) /\ f.at \in HandlerPoints /\ Own(f, cur', ret')
  BY <1>1, <1>2, <1>3 DEF Above, HandlerPoints, Own
<1>5. Top' = f
  BY <1>1, <1>2, <1>4, HandlerOn
<1>6. \A u \in Tid : Still(u)
  BY <1>1, StillSigstop
<1>7. Accounted'
  BY <1>1, <1>3, <1>5, <1>6, AccountedAway
<1>8. Ready'
  <2>1. th[Top.tid].known /\ ~th[Top.tid].running
    BY <1>1 DEF Ready, Reported, ReportPoints
  <2>2. Reported' /\ Awaited'
    BY <1>1, <1>3, <1>5, <2>1 DEF Reported, Awaited
  <2>3. Leaving' /\ Quiet' /\ NewOnly' /\ Unsuspended'
    BY <1>3, <1>5 DEF Leaving, Quiet, NewOnly, StartPoint, Unsuspended, ToStep, SwallowPoints
  <2> QED
    BY <2>2, <2>3 DEF Ready
<1> QED
  BY <1>7, <1>8

LEMMA SweepTakeAll ==
  ASSUME IInv, CurInv, Accounted, Ready, SweepTake
  PROVE  Accounted' /\ Ready'
<1> DEFINE t == Top.who
<1>1. Top.at = "sweepWait"
  BY DEF SweepTake, At
<1>2. Top' = [Top EXCEPT !.at = "sweep"]
  BY SweepStepsCur
<1>3. t \in Tid /\ t # Top.tid /\ Top.tid \in Tid /\ k \in Kernels /\ th \in Records
      /\ th[t].known
  BY <1>1, WhoRuns
<1>4. /\ k[t].status \notin {"none", "clone"}
      /\ \/ k' = [k EXCEPT ![t].status = "none"] /\ th' = Stopped(th, t, FALSE)
         \/ /\ k' = Rewound(t)
            /\ th' = Keep(Stopped(Claim(t), t, TRUE), t, Signalled(t), "unreported")
  BY DEF SweepTake, OwnReason
<1> HIDE DEF t
<1>5. Others(k', k, t) /\ k'[t].status = "none" /\ k'[t].run = k[t].run
  <2>1. CASE k' = [k EXCEPT ![t].status = "none"]
    BY <1>3, <2>1, TakenStays
  <2>2. CASE k' = Rewound(t)
    BY <1>3, <2>2, RewoundIs
  <2> QED
    BY <1>4, <2>1, <2>2
<1>6. /\ th'[t].known
      /\ \A u \in Tid \ {t} : th'[u].known = th[u].known /\ th'[u].running = th[u].running
  <2>1. CASE th' = Stopped(th, t, FALSE)
    <3>1. /\ Others(Stopped(th, t, FALSE), th, t)
          /\ Stopped(th, t, FALSE)[t].known = th[t].known
      BY <1>3, StoppedIs
    <3> QED
      BY <1>3, <2>1, <3>1 DEF Others
  <2>2. CASE th' = Keep(Stopped(Claim(t), t, TRUE), t, Signalled(t), "unreported")
    <3>1. Claim(t) \in Records /\ Alike(Claim(t), th)
      BY <1>3, ClaimIs
    <3> DEFINE ths == Stopped(Claim(t), t, TRUE)
    <3>2. ths \in Records /\ Others(ths, Claim(t), t) /\ ths[t].known = Claim(t)[t].known
      BY <1>3, <3>1, StoppedIs
    <3> HIDE DEF ths
    <3>3. Alike(Keep(ths, t, Signalled(t), "unreported"), ths)
      BY <3>2, KeepIs
    <3>4. Alike(th', ths)
      BY <2>2, <3>3 DEF ths
    <3> QED
      BY <1>3, <3>1, <3>2, <3>4 DEF Alike, Others
  <2> QED
    BY <1>4, <2>1, <2>2
<1>7. Ready' /\ Top'.at = "sweep"
  BY <1>1, <1>2, <1>3, <1>6, SweepReady
<1>8. Accounted'
  BY <1>1, <1>3, <1>4, <1>5, <1>6, <1>7, TakenOne
<1> QED
  BY <1>7, <1>8

\* A thread that creates one goes on, with the child registered.
LEMMA ClonesOn ==
  ASSUME IInv, Accounted, NEW t \in Tid, k[t].status = "clone", th[t].running \/ Excused(t)',
         Others(k', k, t), k'[t].status = "none", k'[t].run = "run",
         k'[t].dying = k[t].dying, NEW ths \in Records, Alike(ths, th),
         \A u \in Tid : /\ th'[u].known = RegisterClone(ths, t)[u].known
                        /\ th'[u].running = RegisterClone(ths, t)[u].running,
         Top.at # "clone", Top'.at # "clone",
         Top.at \in {"swallowWait", "stepWait"} => Top.tid = t
  PROVE  /\ Accounted'
         /\ \A u \in Tid : th[u].known => /\ th'[u].known
                                          /\ th'[u].running = th[u].running
<1> DEFINE c == k[t].child
<1>1. Announcing(t) /\ c \in Tid /\ k[c].run # "unborn" /\ th[t].known
  BY DEF Announcing, Accounted, Parent
<1>2. /\ \A u \in Tid : \/ RegisterClone(ths, t)[u] = ths[u]
                        \/ /\ u = c /\ ~th[u].known
                           /\ RegisterClone(ths, t)[u].known
                           /\ RegisterClone(ths, t)[u].running
      /\ RegisterClone(ths, t)[c].known
  BY <1>1, RegisterRuns DEF Alike
<1>3. /\ \A u \in Tid : \/ th'[u].known = th[u].known /\ th'[u].running = th[u].running
                        \/ u = c /\ ~th[u].known /\ th'[u].known /\ th'[u].running
      /\ th'[c].known
  BY <1>1, <1>2 DEF Alike
<1>4. c # t => \A u \in Tid \ {t} : Still(u) \/ Moves(u)
  <2>1. SUFFICES ASSUME NEW u \in Tid \ {t}
                 PROVE  Still(u) \/ Moves(u)
    OBVIOUS
  <2>2. CASE th'[u].known = th[u].known /\ th'[u].running = th[u].running
    BY <2>1, <2>2 DEF Others, Still
  <2>3. CASE u = c /\ ~th[u].known /\ th'[u].known /\ th'[u].running
    BY <1>1, <2>1, <2>3, RegisteredMoves DEF Others
  <2> QED
    BY <1>3, <2>2, <2>3
<1>5. c = t => \A u \in Tid \ {t} : Still(u)
  BY <1>3 DEF Others, Still
<1>6. Booked(t)
  BY <1>1, <1>3 DEF Booked
<1>7. Moves(t) /\ ~Still(t)
  BY <1>3, <1>6 DEF Moves, Still
<1>8. Accounted'
  BY <1>4, <1>5, <1>7, AccountedOne
<1> QED
  BY <1>3, <1>8

LEMMA SweepCloneAll ==
  ASSUME IInv, CurInv, Accounted, Ready, SweepClone
  PROVE  Accounted' /\ Ready'
<1> DEFINE t == Top.who
           r == RegisterClone(th, t)
<1>1. /\ Top.at = "sweepWait" /\ k[t].status = "clone"
      /\ k' = [Restart(t, "run") EXCEPT ![t].status = "none"]
      /\ th' = WithOwed(r, t)
  BY DEF SweepClone, At, WithOwed
<1>2. Top' = [Top EXCEPT !.at = "sweep"]
  BY SweepStepsCur
<1>3. t \in Tid /\ t # Top.tid /\ Top.tid \in Tid /\ k \in Kernels /\ th \in Records
      /\ th[t].running /\ th[Top.tid].known /\ Top'.at = "sweep"
  BY <1>1, <1>2, WhoRuns, TopIs DEF Activations
<1>4. /\ Others(k', k, t) /\ k'[t].status = "none" /\ k'[t].run = "run"
      /\ k'[t].dying = k[t].dying
  BY <1>1, <1>3, TakenOnIs
<1>5. r \in Records
  BY <1>3, RegisterIs
<1>6. \A u \in Tid : th'[u].known = r[u].known /\ th'[u].running = r[u].running
  <2>1. th' = WithOwed(r, t) /\ r \in Records /\ t \in Tid
    BY <1>1, <1>3, <1>5
  <2> HIDE DEF r, t
  <2>2. \A u \in Tid : /\ WithOwed(r, t)[u].known = r[u].known
                       /\ WithOwed(r, t)[u].running = r[u].running
    BY <2>1, OwedIs
  <2> QED
    BY <2>1, <2>2
<1> HIDE DEF t
<1>7. Alike(th, th)
  BY DEF Alike
<1>8. /\ Accounted'
      /\ \A u \in Tid : th[u].known => th'[u].known /\ th'[u].running = th[u].running
  BY <1>1, <1>3, <1>4, <1>6, <1>7, ClonesOn
<1>9. Ready'
  BY <1>1, <1>2, <1>3, <1>8, SweepReady
<1> QED
  BY <1>8, <1>9

LEMMA SweepExitAll ==
  ASSUME IInv, CurInv, Accounted, Ready, SweepExit
  PROVE  Accounted' /\ Ready'
<1> SUFFICES ASSUME NEW t, t = Top.who
             PROVE  Accounted' /\ Ready'
  OBVIOUS
<1>1. /\ Top.at = "sweepWait" /\ k[t].status = "exit"
      /\ k' = [Restart(t, "run") EXCEPT ![t].status = "none"]
      /\ th' = NotRunning(th, t)
  BY DEF SweepExit, At, NotRunning
<1>2. Top' = [Top EXCEPT !.at = "sweep"]
  BY SweepStepsCur
<1>3. t \in Tid /\ t # Top.tid /\ Top.tid \in Tid /\ k \in Kernels /\ th \in Records
      /\ th[t].known /\ Top'.at = "sweep"
  BY <1>1, <1>2, WhoRuns, TopIs DEF Activations
<1>4. /\ Others(k', k, t) /\ k'[t].status = "none" /\ k'[t].run = "run"
      /\ k'[t].dying = k[t].dying
  BY <1>1, <1>3, TakenOnIs
<1>5. Others(th', th, t) /\ th'[t].known = th[t].known
  BY <1>1, <1>3, NotRunningIs
<1>6. k[t].dying
  BY <1>1, <1>3 DEF Accounted, Lawful
<1>7. Booked(t) /\ ~Announcing(t)
  <2>1. ~Living(t)'
    BY <1>4, <1>6 DEF Living
  <2>2. Booked(t)
    BY <1>3, <1>4, <1>5, <2>1 DEF Booked
  <2> QED
    BY <1>1, <2>2 DEF Announcing, AtClone
<1>8. Moves(t) /\ ~Still(t)
  BY <1>1, <1>4, <1>7, MovesBy DEF Still
<1>9. \A u \in Tid \ {t} : Still(u)
  BY <1>4, <1>5 DEF Others, Still
<1>10. Accounted'
  BY <1>1, <1>3, <1>8, <1>9, AccountedOne
<1>11. Ready'
  BY <1>1, <1>2, <1>3, <1>5, SweepReady DEF Others
<1> QED
  BY <1>10, <1>11

LEMMA SweepReapAll ==
  ASSUME IInv, CurInv, Accounted, Ready, SweepReap
  PROVE  Accounted' /\ Ready'
<1> DEFINE t == Top.who
<1>1. Top.at = "sweepWait" /\ k[t].status = "exited" /\ ExitThreadEvent(t)
  BY DEF SweepReap, At
<1>2. Top' = [Top EXCEPT !.at = "sweep"]
  BY SweepStepsCur
<1>3. t \in Tid /\ t # Top.tid /\ Top.tid \in Tid /\ Top'.at = "sweep"
  BY <1>1, <1>2, WhoRuns, TopIs DEF Activations
<1> HIDE DEF t
<1>4. Accounted' /\ \A u \in Tid \ {t} : th'[u] = th[u]
  BY <1>1, <1>3, EndsAll
<1>5. Ready'
  BY <1>1, <1>2, <1>3, <1>4, SweepReady
<1> QED
  BY <1>4, <1>5

LEMMA SweepGoneAll ==
  ASSUME IInv, CurInv, Accounted, Ready, SweepGone
  PROVE  Accounted' /\ Ready'
<1> SUFFICES ASSUME NEW t, t = Top.who
             PROVE  Accounted' /\ Ready'
  OBVIOUS
<1>1. /\ Top.at = "sweepWait" /\ k[t].run = "dead" /\ k[t].status = "none"
      /\ k' = k /\ th' = NotRunning(th, t)
  BY DEF SweepGone, At, NotRunning, Gone, kernelVars
<1>2. Top' = [Top EXCEPT !.at = "sweep"]
  BY SweepStepsCur
<1>3. t \in Tid /\ t # Top.tid /\ Top.tid \in Tid /\ th \in Records
      /\ th[t].known /\ th[t].running /\ Top'.at = "sweep"
  BY <1>1, <1>2, WhoRuns, TopIs DEF Activations
<1>4. Others(th', th, t) /\ th'[t].known = th[t].known /\ th'[t].running = FALSE
  BY <1>1, <1>3, NotRunningIs
<1>5. Booked(t) /\ ~Announcing(t)
  <2>1. ~Living(t)'
    BY <1>1 DEF Living
  <2>2. Booked(t)
    BY <1>1, <1>3, <1>4, <2>1 DEF Booked
  <2> QED
    BY <1>1, <2>2 DEF Announcing, AtClone
<1>6. Moves(t) /\ ~Still(t)
  BY <1>1, <1>3, <1>4, <1>5, MovesBy DEF Still
<1>7. \A u \in Tid \ {t} : Still(u)
  BY <1>1, <1>4 DEF Others, Still
<1>8. Accounted'
  BY <1>1, <1>3, <1>6, <1>7, AccountedOne
<1>9. Ready'
  BY <1>1, <1>2, <1>3, <1>4, SweepReady DEF Others
<1> QED
  BY <1>8, <1>9

LEMMA SweepDoneAll ==
  ASSUME IInv, CurInv, Accounted, Ready, SweepDone
  PROVE  Accounted' /\ Ready'
<1>1. Top.at = "sweep" /\ th' = th /\ k' = k
  BY DEF SweepDone, At, kernelVars
<1>2. \A t \in Tid : ~th'[t].running
  BY <1>1 DEF SweepDone, Swept, Ready, Reported, ReportPoints
<1>3. Top'.at = "wait"
  BY SweepDoneCur
<1> QED
  BY <1>1, <1>2, <1>3, WaitReady, AccountedAlike DEF Alike

LEMMA SweepAll ==
  ASSUME Restricted, IInv, CurInv, Accounted, Ready, Sweep
  PROVE  Accounted' /\ Ready'
<1>1. ~SweepTimeout
  BY DEF Restricted, SweepTimeout
<1>2. ASSUME NEW t \in Tid, SweepAsk(t)
      PROVE  Accounted' /\ Ready'
  BY <1>2, SweepAskAll
<1> QED
  BY <1>1, <1>2, SweepTakeAll, SweepCloneAll, SweepExitAll, SweepReapAll, SweepGoneAll,
     SweepDoneAll DEF Sweep

-----------------------------------------------------------------------------
(* The step over the breakpoint's byte                                     *)

\* Draining goes on, or ends where it was called.
DrainPlaces ==
  /\ Below.at \in {"lifted", "stepNow"} /\ Below.tid = Top.tid
  /\ \/ Top' = Below /\ Below' = BelowThat
     \/ /\ Top'.at \in SwallowPoints /\ Top'.tid = Top.tid
        /\ Below' = Below /\ BelowThat' = BelowThat
LEMMA DrainReady ==
  ASSUME IInv, Ready, Top.at \in SwallowPoints, DrainPlaces,
         \A t \in Tid : th'[t].running =>
           \/ th[t].running /\ th'[t].susp = th[t].susp
           \/ Births # {} /\ th'[t].susp = 0,
         th'[Top.tid].susp \in {0, th[Top.tid].susp}
  PROVE  Ready'
<1>1. Top'.at \in {"stepPast", "lifted", "stepWait", "swallow", "swallowWait", "stepNow",
                   "stepped", "cont"}
  BY DEF DrainPlaces, SwallowPoints
<1>2. StartPoint' => StartPoint
  BY DEF StartPoint, DrainPlaces, SwallowPoints
<1>3. ToStep' => ToStep /\ Top'.tid = Top.tid
  BY DEF ToStep, DrainPlaces, SwallowPoints
<1> QED
  BY <1>1, <1>2, <1>3, StartReady

LEMMA SwallowAll ==
  ASSUME Restricted, IInv, CurInv, Accounted, Ready, Swallow
  PROVE  Accounted' /\ Ready'
<1> SUFFICES ASSUME NEW t, t = Top.tid
             PROVE  Accounted' /\ Ready'
  OBVIOUS
<1>1. /\ Top.at = "swallow" /\ th' = th
      /\ \/ k' = k
         \/ k' = Restart(t, "run") /\ InPtraceStop(t) /\ Become(Frame("swallowWait", t))
  BY DEF Swallow, At
<1>2. /\ Below.at \in {"lifted", "stepNow"} /\ Below.tid = t /\ t \in Tid
      /\ Return => Top' = Below /\ Below' = BelowThat
      /\ ~Return => /\ Top'.at = "swallowWait" /\ Top'.tid = t
                    /\ Below' = Below /\ BelowThat' = BelowThat
  BY SwallowCur, TopIs
<1>3. Ready'
  BY <1>1, <1>2, DrainReady DEF DrainPlaces, SwallowPoints
<1>4. Top'.at # "clone"
  BY <1>2
<1>5. CASE k' = k
  <2>1. Alike(th', th)
    BY <1>1 DEF Alike
  <2> QED
    BY <1>1, <1>3, <1>4, <1>5, <2>1, AccountedAlike
<1>6. CASE k' = Restart(t, "run") /\ InPtraceStop(t) /\ Become(Frame("swallowWait", t))
  <2>1. Top' = Frame("swallowWait", t)
    BY <1>6, <1>2, BelowIs, Front, FrameIs, <1>1 DEF Become, Top, Points
  <2>2. Top'.at = "swallowWait" /\ Top'.tid = t
    BY <1>2, <2>1, FrameIs DEF Points
  <2>3. Excused(t)'
    BY <2>2 DEF Excused
  <2> QED
    BY <1>1, <1>2, <1>3, <1>4, <1>6, <2>3, StartsAll
<1> QED
  BY <1>1, <1>3, <1>5, <1>6

\* No thread is suspended or woken by what a stop leaves in its record.
AsSuspended(ths, ths2) == \A t \in Tid : ths[t].susp = ths2[t].susp
LEMMA SuspKept ==
  ASSUME NEW ths \in Records, NEW t, NEW sig, NEW how \in {"reported", "unreported"},
         NEW owes \in BOOLEAN
  PROVE  /\ AsSuspended(Keep(ths, t, sig, how), ths)
         /\ AsSuspended(ClearSingleStep(ths, t), ths)
         /\ AsSuspended(Stopped(ths, t, owes), ths)
<1>1. AsSuspended([ths EXCEPT ![t].psig = how], ths)
  BY DEF AsSuspended, Records, ThreadRecords
<1>2. AsSuspended(Keep(ths, t, sig, how), ths)
  BY <1>1 DEF AsSuspended, Keep
<1>3. AsSuspended(ClearSingleStep(ths, t), ths)
  BY DEF AsSuspended, Records, ThreadRecords, ClearSingleStep
<1>4. AsSuspended(Stopped(ths, t, owes), ths)
  BY DEF AsSuspended, Records, ThreadRecords, Stopped
<1> QED
  BY <1>2, <1>3, <1>4

LEMMA ClaimSusp ==
  ASSUME th \in Records, NEW t \in Tid
  PROVE  AsSuspended(Claim(t), th)
<1> DEFINE a == k[t].at
<1>1. Claim(t) \in {th, [th EXCEPT ![t].atBp = TRUE, ![t].pbp = a]}
  BY DEF Claim
<1> HIDE DEF a
<1>2. AsSuspended([th EXCEPT ![t].atBp = TRUE, ![t].pbp = a], th)
  BY DEF AsSuspended, Records, ThreadRecords
<1> QED
  BY <1>1, <1>2 DEF AsSuspended

\* What announcing a thread does to the records, given that the caller is known.
LEMMA AnnouncedRuns ==
  ASSUME Accounted, NEW t \in Tid, th[t].known, NEW ths \in Records, Alike(ths, th),
         AsSuspended(ths, th)
  PROVE  \A u \in Tid :
           \/ /\ Announced(ths, t)[u] = ths[u]
           \/ /\ u # t /\ Births # {} /\ Announced(ths, t)[u].known
              /\ Announced(ths, t)[u].susp = 0
<1>1. CASE k[t].status = "clone"
  <2>1. k[t].child \in Births
    BY <1>1 DEF Accounted, Parent, Announcing
  <2>2. \A u \in Tid : \/ RegisterClone(ths, t)[u] = ths[u]
                       \/ /\ u = k[t].child /\ ~th[u].known
                          /\ RegisterClone(ths, t)[u].known
                          /\ RegisterClone(ths, t)[u].running
                          /\ RegisterClone(ths, t)[u].susp = 0
    BY RegisterRuns DEF Alike
  <2> QED
    BY <1>1, <2>1, <2>2 DEF Announced
<1>2. CASE k[t].status # "clone"
  BY <1>2 DEF Announced
<1> QED
  BY <1>1, <1>2

LEMMA SwallowTakeAll ==
  ASSUME IInv, CurInv, Accounted, Ready, SwallowTake
  PROVE  Accounted' /\ Ready'
<1> SUFFICES ASSUME NEW t, t = Top.tid
             PROVE  Accounted' /\ Ready'
  OBVIOUS
<1> DEFINE a == Announced(Claim(t), t)
           sig == SignalDrained(t) /\ th[t].psig = "none"
<1>1. /\ Top.at = "swallowWait"
      /\ \/ /\ k[t].status = "stop" /\ k' = [k EXCEPT ![t].status = "none"]
            /\ th' = Stopped(th, t, FALSE)
         \/ /\ k[t].status \notin {"none", "stop", "exited"}
            /\ k' = [Rewound(t) EXCEPT ![t].run = "run", ![t].due = Queued(t)]
            /\ th' = Keep(a, t, sig, "reported") /\ stack' = stack
  BY DEF SwallowTake, At
<1>2. /\ t \in Tid /\ th \in Records /\ k \in Kernels
      /\ Below.at \in {"lifted", "stepNow"} /\ Below.tid = t
      /\ \/ Top' = Below /\ Below' = BelowThat
         \/ Top' = Top /\ Below' = Below /\ BelowThat' = BelowThat
  BY SwallowTakeCur, TopIs DEF IInv, Threads, Records, Kernels
<1>3. k[t].run = "stopped" /\ th[t].known
  BY <1>1, <1>2, TopIs DEF IInv, Threads, StatusOf, Met
<1>4. DrainPlaces /\ Top'.at # "clone"
  BY <1>1, <1>2 DEF DrainPlaces, SwallowPoints
<1> HIDE DEF a, sig
<1>5. CASE /\ k[t].status = "stop" /\ k' = [k EXCEPT ![t].status = "none"]
           /\ th' = Stopped(th, t, FALSE)
  <2>1. /\ Others(th', th, t) /\ th'[t].known /\ th'[t].running = FALSE
    BY <1>2, <1>3, <1>5, StoppedIs
  <2>2. AsSuspended(th', th)
    BY <1>2, <1>5, SuspKept
  <2>3. Others(k', k, t) /\ k'[t].status = "none" /\ k'[t].run = k[t].run
    BY <1>2, <1>5, TakenStays
  <2>4. Accounted'
    BY <1>1, <1>2, <1>4, <1>5, <2>1, <2>3, TakenOne DEF Others
  <2>5. Ready'
    BY <1>1, <1>2, <1>4, <2>1, <2>2, DrainReady DEF Others, AsSuspended, SwallowPoints
  <2> QED
    BY <2>4, <2>5
<1>6. CASE /\ k[t].status \notin {"none", "stop", "exited"}
           /\ k' = [Rewound(t) EXCEPT ![t].run = "run", ![t].due = Queued(t)]
           /\ th' = Keep(a, t, sig, "reported") /\ stack' = stack
  <2> DEFINE c == Claim(t)
  <2>1. c \in Records /\ Alike(c, th) /\ AsSuspended(c, th)
    BY <1>2, ClaimIs, ClaimSusp
  <2>2. a \in Records
    BY <1>2, <2>1, AnnouncedIs DEF a
  <2>3. Alike(th', a) /\ AsSuspended(th', a)
    BY <1>6, <2>2, KeepIs, SuspKept
  <2>4. /\ Others(k', k, t) /\ k'[t].status = "none" /\ k'[t].run = "run"
        /\ k'[t].dying = k[t].dying
    BY <1>2, <1>6, RunsOnIs
  <2>5. Top' = Top
    BY <1>6 DEF Top
  <2>6. Excused(t)'
    BY <1>1, <2>5 DEF Excused
  <2> HIDE DEF c
  <2>7. Accounted'
    <3>1. CASE k[t].status = "clone"
      <4>1. a = RegisterClone(c, t)
        BY <3>1 DEF a, Announced, c
      <4>2. \A u \in Tid : /\ th'[u].known = RegisterClone(c, t)[u].known
                           /\ th'[u].running = RegisterClone(c, t)[u].running
        BY <2>3, <4>1 DEF Alike
      <4> QED
        BY <1>1, <1>2, <1>4, <2>1, <2>4, <2>6, <3>1, <4>2, ClonesOn
    <3>2. CASE k[t].status # "clone"
      <4>1. a = c
        BY <3>2 DEF a, Announced, c
      <4>2. \A u \in Tid : th'[u].known = th[u].known /\ th'[u].running = th[u].running
        BY <2>1, <2>3, <4>1 DEF Alike
      <4>3. ~Announcing(t)
        BY <1>1, <3>2 DEF Announcing, AtClone
      <4>4. Booked(t)
        BY <1>2, <1>3, <2>4, <2>6, <4>2 DEF Booked
      <4>5. Moves(t) /\ ~Still(t)
        BY <1>3, <2>4, <4>3, <4>4, MovesBy DEF Still
      <4>6. \A u \in Tid \ {t} : Still(u)
        BY <2>4, <4>2 DEF Still, Others
      <4> QED
        BY <1>1, <1>2, <1>4, <4>5, <4>6, AccountedOne
    <3> QED
      BY <3>1, <3>2
  <2>8. Ready'
    <3>1. \A u \in Tid : \/ a[u] = c[u]
                         \/ u # t /\ Births # {} /\ a[u].susp = 0
      BY <1>2, <1>3, <2>1, AnnouncedRuns DEF a, c
    <3>2. \A u \in Tid : th'[u].running => \/ th[u].running /\ th'[u].susp = th[u].susp
                                           \/ Births # {} /\ th'[u].susp = 0
      BY <2>1, <2>3, <3>1 DEF Alike, AsSuspended
    <3>3. th'[t].susp = th[t].susp
      BY <1>2, <2>1, <2>3, <3>1 DEF AsSuspended
    <3> QED
      BY <1>1, <1>2, <1>4, <3>2, <3>3, DrainReady DEF SwallowPoints
  <2> QED
    BY <2>7, <2>8
<1> QED
  BY <1>1, <1>5, <1>6

LEMMA SwallowLostAll ==
  ASSUME Restricted, IInv, CurInv, Accounted, Ready, SwallowLost
  PROVE  Accounted' /\ Ready'
<1> DEFINE t == Top.tid
<1>1. Top.at = "swallowWait" /\ k[t].status = "exited" /\ ExitThreadEvent(t)
  BY DEF SwallowLost, At, Restricted
<1>2. /\ t \in Tid /\ Top' = Below /\ Below' = BelowThat
      /\ Below.at \in {"lifted", "stepNow"} /\ Below.tid = t
  BY SwallowLostCur, TopIs
<1>3. DrainPlaces /\ Top'.at # "clone"
  BY <1>2 DEF DrainPlaces
<1>4. /\ Accounted' /\ th'[t] = NoThread /\ \A u \in Tid \ {t} : th'[u] = th[u]
  BY <1>1, <1>2, <1>3, EndsAll
<1>5. th'[t].susp = 0 /\ ~th'[t].running
  BY <1>4 DEF NoThread
<1>6. \A u \in Tid : th'[u].running => th[u].running /\ th'[u].susp = th[u].susp
  BY <1>4, <1>5
<1>7. Ready'
  BY <1>1, <1>3, <1>5, <1>6, DrainReady DEF SwallowPoints
<1> QED
  BY <1>4, <1>7

LEMMA StepPastAll ==
  ASSUME IInv, CurInv, Accounted, Ready, StepPast
  PROVE  Accounted' /\ Ready'
<1>1. Top.at = "stepPast" /\ th' = th /\ k' = k
  BY DEF StepPast, At, kernelVars
<1>2. Top'.at = "swallow" /\ Top'.tid = Top.tid /\ Below'.at = "lifted" /\ BelowThat' = Below
  BY StepPastCur
<1>3. (StartPoint' => StartPoint) /\ ~ToStep'
  BY <1>1, <1>2 DEF StartPoint, ToStep, SwallowPoints
<1>4. Ready'
  BY <1>1, <1>2, <1>3, StartReady
<1> QED
  BY <1>1, <1>2, <1>4, AccountedAlike DEF Alike

\* The step over the byte ends, for who asked for it.
LEMMA StepPastEnds ==
  ASSUME Ready, Top.at \in {"lifted", "stepWait"}, Top' = Below,
         Below.at \in {"resumed", "stepped", "steppedOff"},
         \A t \in Tid : th'[t].running =>
           \/ th[t].running /\ th'[t].susp = th[t].susp
           \/ Births # {} /\ th'[t].susp = 0
  PROVE  Ready' /\ Top'.at # "clone"
<1>1. CASE Below.at = "stepped"
  <2>1. (StartPoint' => StartPoint) /\ ~ToStep'
    BY <1>1 DEF StartPoint, ToStep, SwallowPoints
  <2> QED
    BY <1>1, <2>1, StartReady
<1>2. CASE Below.at # "stepped"
  BY <1>2, IdleReady DEF IdlePoints
<1> QED
  BY <1>1, <1>2

LEMMA StepOffTheByteAll ==
  ASSUME IInv, CurInv, Accounted, Ready, StepOffTheByte
  PROVE  Accounted' /\ Ready'
<1> SUFFICES ASSUME NEW t, t = Top.tid
             PROVE  Accounted' /\ Ready'
  OBVIOUS
<1> DEFINE f == [Top EXCEPT !.at = "stepWait", !.sig = FALSE]
<1>1. /\ Top.at = "lifted"
      /\ \/ Return /\ k' = k /\ (th' = th \/ th' = Keep(th, cur, Top.sig, "reported"))
         \/ /\ InPtraceStop(t) /\ k' = Restart(t, "step") /\ Become(f)
            /\ th' = [th EXCEPT ![t].stepping = TRUE, ![t].atBp = FALSE]
  BY DEF StepOffTheByte, At
<1>2. t \in Tid /\ th \in Records /\ Top \in Activations /\ Tail(stack) \in Seq(Activations)
  BY <1>1, TopIs, BelowIs DEF IInv, Threads, Records
<1>3. CASE Return /\ k' = k /\ (th' = th \/ th' = Keep(th, cur, Top.sig, "reported"))
  <2>1. Alike(th', th) /\ AsSuspended(th', th)
    BY <1>2, <1>3, KeepIs, SuspKept DEF Alike, AsSuspended
  <2>2. Top' = Below /\ Below.at \in {"resumed", "stepped", "steppedOff"}
    BY <1>3, StepOffTheByteCur
  <2>3. Ready' /\ Top'.at # "clone"
    BY <1>1, <2>1, <2>2, StepPastEnds DEF Alike, AsSuspended
  <2> QED
    BY <1>1, <1>3, <2>1, <2>3, AccountedAlike
<1>4. CASE /\ InPtraceStop(t) /\ k' = Restart(t, "step") /\ Become(f)
           /\ th' = [th EXCEPT ![t].stepping = TRUE, ![t].atBp = FALSE]
  <2>1. f \in Activations /\ f.at = "stepWait"
    BY <1>2, ZenonT(60) DEF Activations, Points
  <2> HIDE DEF f
  <2>2. Top' = f
    BY <1>2, <1>4, <2>1, Front DEF Become, Top
  <2>3. Top'.at = "stepWait" /\ Top'.tid = t /\ Below' = Below
    BY <2>1, <2>2, StepOffTheByteCur
  <2>4. \A u \in Tid : /\ th'[u].known = th[u].known /\ th'[u].running = th[u].running
                       /\ th'[u].susp = th[u].susp
    BY <1>2, <1>4 DEF Records, ThreadRecords
  <2>5. Excused(t)'
    BY <2>3 DEF Excused
  <2>6. Accounted'
    BY <1>1, <1>2, <1>4, <2>3, <2>4, <2>5, StartsAll
  <2>7. (StartPoint' => StartPoint) /\ ~ToStep'
    BY <1>1, <2>3 DEF StartPoint, ToStep, SwallowPoints
  <2>8. Ready'
    BY <2>3, <2>4, <2>7, StartReady
  <2> QED
    BY <2>6, <2>8
<1> QED
  BY <1>1, <1>3, <1>4

LEMMA StepTakenAll ==
  ASSUME IInv, CurInv, Accounted, Ready, StepTaken
  PROVE  Accounted' /\ Ready'
<1> SUFFICES ASSUME NEW t, t = Top.tid
             PROVE  Accounted' /\ Ready'
  OBVIOUS
<1> DEFINE ths == ClearSingleStep(th, t)
           b == <<Frame("stepTaken", t)>> \o Tail(stack)
<1>1. /\ Top.at = "stepWait" /\ k[t].status # "none"
      /\ \/ /\ k[t].status \in {"step", "int3", "clone", "exit"}
            /\ k' = [k EXCEPT ![t].status = "none"] /\ th' = Announced(ths, t)
         \/ /\ k[t].status \notin {"step", "int3", "clone", "exit"}
            /\ HandleSignal(t, ths, b)
  BY DEF StepTaken, At
<1>2. t \in Tid /\ th \in Records /\ k \in Kernels
  BY TopIs DEF IInv, Threads, Records, Kernels
<1>3. ths \in Records /\ Alike(ths, th) /\ AsSuspended(ths, th)
  BY <1>2, ClearIs, SuspKept
<1> HIDE DEF ths, b
<1>4. CASE /\ k[t].status \notin {"step", "int3", "clone", "exit"}
           /\ HandleSignal(t, ths, b)
  <2>1. Top'.at = HandlerOf(k[t].status) /\ Top'.tid = t
    BY <1>4, StepTakenCur
  <2> QED
    BY <1>1, <1>2, <1>3, <1>4, <2>1, HandleSignalAll
<1>5. CASE /\ k[t].status \in {"step", "int3", "clone", "exit"}
           /\ k' = [k EXCEPT ![t].status = "none"] /\ th' = Announced(ths, t)
  <2>1. Top' = Below /\ Below.at \in {"resumed", "stepped", "steppedOff"}
    BY <1>5, StepTakenCur
  <2>2. th[t].known
    BY <1>2, <1>5, TopIs DEF IInv, Threads, StatusOf, Met
  <2>3. \A u \in Tid : \/ th'[u] = ths[u]
                       \/ u # t /\ Births # {} /\ th'[u].known /\ th'[u].susp = 0
    BY <1>2, <1>3, <1>5, <2>2, AnnouncedRuns
  <2>4. Ready' /\ Top'.at # "clone"
    BY <1>1, <1>3, <2>1, <2>3, StepPastEnds DEF Alike, AsSuspended
  <2>5. /\ Others(k', k, t) /\ k'[t].status = "none" /\ k'[t].run = k[t].run
        /\ k'[t].dying = k[t].dying /\ th'[t].known
    BY <1>2, <1>3, <1>5, <2>2, <2>3, TakenStays DEF Alike
  <2>6. CASE k[t].status # "clone"
    <3>1. \A u \in Tid \ {t} : th'[u].known = th[u].known /\ th'[u].running = th[u].running
      BY <1>3, <1>5, <2>6 DEF Announced, Alike
    <3>2. Accounted'
      BY <1>1, <1>2, <2>4, <2>5, <2>6, <3>1, TakenOne
    <3> QED
      BY <2>4, <3>2
  <2>7. CASE k[t].status = "clone"
    <3> DEFINE c == k[t].child
    <3>1. Announcing(t) /\ c \in Tid /\ k[c].run # "unborn"
      BY <1>2, <2>7 DEF Announcing, Accounted, Parent
    <3>2. /\ \A u \in Tid : \/ th'[u] = ths[u]
                            \/ u = c /\ ~th[u].known /\ th'[u].known /\ th'[u].running
          /\ th'[c].known
      BY <1>2, <1>3, <1>5, <2>7, <3>1, RegisterRuns DEF Alike, Announced
    <3>3. Booked(t)
      BY <1>1, <1>2, <2>5, TakenBooked
    <3>4. Moves(t) /\ ~Still(t)
      BY <2>5, <2>7, <3>2, <3>3 DEF Moves, Still
    <3>5. ASSUME NEW u \in Tid \ {t}
          PROVE  Still(u) \/ Moves(u)
      <4>1. k'[u] = k[u]
        BY <2>5 DEF Others
      <4>2. CASE th'[u] = ths[u]
        BY <1>3, <4>1, <4>2 DEF Still, Alike
      <4>3. CASE u = c /\ ~th[u].known /\ th'[u].known /\ th'[u].running
        BY <1>2, <3>1, <4>1, <4>3, RegisteredMoves
      <4> QED
        BY <3>2, <4>2, <4>3
    <3>6. Accounted'
      BY <1>1, <1>2, <2>4, <3>4, <3>5, AccountedOne
    <3> QED
      BY <2>4, <3>6
  <2> QED
    BY <2>6, <2>7
<1> QED
  BY <1>1, <1>4, <1>5

LEMMA StepConsumedAll ==
  ASSUME IInv, CurInv, Accounted, Ready, StepConsumed
  PROVE  Accounted' /\ Ready'
<1>1. Top.at = "stepTaken" /\ th' = th /\ k' = k
  BY DEF StepConsumed, At, kernelVars
<1>2. Top' = Below /\ Below.at \in {"resumed", "stepped", "steppedOff"} /\ ret' = "consumed"
  BY StepConsumedCur
<1>3. Ready'
  BY <1>2, IdleReady DEF IdlePoints
<1> QED
  BY <1>1, <1>2, <1>3, AccountedAlike DEF Alike

LEMMA StepOverAll ==
  ASSUME Restricted, IInv, CurInv, Accounted, Ready, StepOver
  PROVE  Accounted' /\ Ready'
BY SwallowAll, SwallowTakeAll, SwallowLostAll, StepPastAll, StepOffTheByteAll, StepTakenAll,
   StepConsumedAll DEF StepOver

-----------------------------------------------------------------------------
(* The resumes                                                             *)

\* A step after which nothing is asked of the threads, and that does nothing to them.
LEMMA IdleAll ==
  ASSUME Accounted, k' = k, Alike(th', th), Top.at \notin {"swallowWait", "stepWait", "clone"},
         \/ Top'.at \in IdlePoints
         \/ Top'.at = "stepPast" /\ Below'.at # "stepped"
  PROVE  Accounted' /\ Ready'
BY IdleReady, AccountedAlike DEF IdlePoints

LEMMA TakePendingResumesAll ==
  ASSUME IInv, CurInv, Accounted, TakePendingResumes
  PROVE  Accounted' /\ Ready'
<1>1. Top.at = "takeResumes" /\ th' = th /\ k' = k
  BY DEF TakePendingResumes, At, kernelVars
<1> QED
  BY <1>1, TakePendingResumesCur, IdleAll DEF IdlePoints, Alike

LEMMA DrainPendingResumesAll ==
  ASSUME IInv, CurInv, Accounted, DrainPendingResumes
  PROVE  Accounted' /\ Ready'
<1>1. Top.at = "drain" /\ th' = th /\ k' = k
  BY DEF DrainPendingResumes, At, kernelVars
<1> QED
  BY <1>1, DrainPendingResumesCur, IdleAll DEF IdlePoints, Alike

\* The signal kept on a thread is taken along.
LEMMA StepOffAsAlike ==
  ASSUME IInv, NEW t, NEW next, StepOffAs(t, next)
  PROVE  Alike(th', th)
<1>1. th \in Records /\ th' = [th EXCEPT ![t].psig = "none"]
  BY DEF IInv, Threads, Records, StepOffAs
<1> QED
  BY <1>1, FieldsAre

LEMMA ResumeStoppedThreadAll ==
  ASSUME IInv, CurInv, Accounted, ResumeStoppedThread
  PROVE  Accounted' /\ Ready'
<1>1. /\ Top.at = "resume" /\ k' = k
      /\ th' = th \/ StepOffAs(Top.tid, Frame("resumed", Top.tid))
  BY DEF ResumeStoppedThread, At, kernelVars
<1>2. Alike(th', th)
  BY <1>1, StepOffAsAlike DEF Alike
<1> QED
  BY <1>1, <1>2, ResumeStoppedThreadCur, IdleAll DEF IdlePoints

LEMMA ResumeSteppedOffAll ==
  ASSUME IInv, CurInv, Accounted, ResumeSteppedOff
  PROVE  Accounted' /\ Ready'
<1>1. Top.at = "resumed" /\ th' = th /\ k' = k
  BY DEF ResumeSteppedOff, At, kernelVars
<1> QED
  BY <1>1, ResumeSteppedOffCur, IdleAll DEF IdlePoints, Alike

\* A stopped thread is set going.
LEMMA ContinueThreadAll ==
  ASSUME IInv, Accounted, NEW t \in Tid, ContinueThread(t),
         Top.at \notin {"swallowWait", "stepWait", "clone"}, Top'.at # "clone"
  PROVE  Accounted'
<1> DEFINE ths == [th EXCEPT ![t].psig = "none"]
<1>1. th \in Records
  BY DEF IInv, Threads, Records
<1>2. \/ k' = k /\ th' \in {th, ths}
      \/ InPtraceStop(t) /\ k' = Restart(t, "run") /\ th' = Running(ths, t)
  BY DEF ContinueThread
<1>3. ths \in Records /\ Alike(ths, th)
  BY <1>1, FieldsAre
<1> HIDE DEF ths
<1>4. CASE k' = k /\ th' \in {th, ths}
  BY <1>3, <1>4, AccountedAlike DEF Alike
<1>5. CASE InPtraceStop(t) /\ k' = Restart(t, "run") /\ th' = Running(ths, t)
  <2>1. Others(th', ths, t) /\ th'[t].known = ths[t].known /\ th'[t].running
    BY <1>3, <1>5, RunningIs, RunningRuns
  <2>2. /\ \A u \in Tid : th'[u].known = th[u].known
        /\ \A u \in Tid \ {t} : th'[u].running = th[u].running
    BY <1>3, <2>1 DEF Others, Alike
  <2> QED
    BY <1>5, <2>1, <2>2, StartsAll
<1> QED
  BY <1>2, <1>4, <1>5

LEMMA ResumeNowAll ==
  ASSUME IInv, CurInv, Accounted, ResumeNow
  PROVE  Accounted' /\ Ready'
<1>1. Top.at = "resumeNow" /\ ContinueThread(Top.tid) /\ Top.tid \in Tid
  BY TopIs DEF ResumeNow, At
<1>2. Top'.at \in {"drain", "continueParked"}
  BY ResumeNowCur
<1>3. Ready'
  BY <1>2, IdleReady DEF IdlePoints
<1> QED
  BY <1>1, <1>2, <1>3, ContinueThreadAll

LEMMA StepOffAll ==
  ASSUME IInv, CurInv, Accounted, StepOff
  PROVE  Accounted' /\ Ready'
<1> DEFINE Goes(t) == [[Top EXCEPT !.todo = @ \ {t}] EXCEPT !.at = "steppedOff", !.who = t]
<1>1. /\ Top.at = "stepOff" /\ k' = k
      /\ th' = th \/ \E t \in Top.todo : StepOffAs(t, Goes(t))
  BY DEF StepOff, At, kernelVars
<1>2. Alike(th', th)
  <2> HIDE DEF Goes
  <2> QED
    BY <1>1, StepOffAsAlike DEF Alike
<1> QED
  BY <1>1, <1>2, StepOffCur, IdleAll DEF IdlePoints

LEMMA AfterStepOffAll ==
  ASSUME IInv, CurInv, Accounted, AfterStepOff
  PROVE  Accounted' /\ Ready'
<1>1. Top.at = "steppedOff" /\ th' = th /\ k' = k
  BY DEF AfterStepOff, At, kernelVars
<1> QED
  BY <1>1, AfterStepOffCur, IdleAll DEF IdlePoints, Alike

LEMMA ContinueRestAll ==
  ASSUME IInv, CurInv, Accounted, ContinueRest
  PROVE  Accounted' /\ Ready'
<1>1. /\ Top.at = "continueRest" /\ Top.todo \subseteq Tid
      /\ \/ k' = k /\ th' = th
         \/ \E t \in Top.todo : ContinueThread(t)
  BY TopIs DEF ContinueRest, At, Activations
<1>2. Top'.at \in {"continueRest", "continueParked"}
  BY ContinueRestCur
<1>3. Ready'
  BY <1>2, IdleReady DEF IdlePoints
<1>4. CASE k' = k /\ th' = th
  BY <1>1, <1>2, <1>3, <1>4, AccountedAlike DEF Alike
<1>5. ASSUME NEW t \in Top.todo, ContinueThread(t)
      PROVE  Accounted' /\ Ready'
  BY <1>1, <1>2, <1>3, <1>5, ContinueThreadAll
<1> QED
  BY <1>1, <1>4, <1>5

LEMMA ContinueParkedAll ==
  ASSUME IInv, CurInv, Accounted, ContinueParked
  PROVE  Accounted' /\ Ready'
<1>1. Top.at = "continueParked" /\ th' = th /\ k' = k
  BY DEF ContinueParked, At, kernelVars
<1> QED
  BY <1>1, ContinueParkedCur, IdleAll DEF IdlePoints, Alike

LEMMA ProceedAll ==
  ASSUME IInv, CurInv, Accounted, Proceed
  PROVE  Accounted' /\ Ready'
<1> DEFINE t == Top.tid
<1>1. /\ Top.at = "continueOrPark" /\ cur' = cur
      /\ \/ k' = k /\ th' = Keep(th, cur, Top.sig, "reported") /\ PauseIfAlone(t)
         \/ /\ Return /\ paused' = paused
            /\ \/ InPtraceStop(t) /\ k' = Restart(t, "run") /\ th' = Running(th, cur)
               \/ k' = k /\ th' = th
  BY DEF Proceed, At
<1>2. /\ Top.at \in HandlerPoints \ {"wait"} /\ t \in Tid /\ th \in Records
      /\ cur = t /\ cur' # NoTid
  BY <1>1, TopIs, ProceedCur DEF HandlerPoints, IInv, Threads, Records
<1> HIDE DEF t
<1>3. CASE k' = k /\ th' = Keep(th, cur, Top.sig, "reported") /\ PauseIfAlone(t)
  <2>1. Alike(th', th)
    BY <1>2, <1>3, KeepIs
  <2>2. Ready' /\ Top'.at \in {"loop", "stepTaken", "wait"}
    BY <1>2, <1>3, <2>1, ParksReady
  <2> QED
    BY <1>1, <1>3, <2>1, <2>2, AccountedAlike
<1>4. CASE /\ Return /\ paused' = paused
           /\ InPtraceStop(t) /\ k' = Restart(t, "run") /\ th' = Running(th, cur)
  <2>1. Ready' /\ Top'.at \in {"loop", "stepTaken"}
    BY <1>2, <1>4, ReturnsReady
  <2>2. Others(th', th, t) /\ th'[t].known = th[t].known /\ th'[t].running
    BY <1>2, <1>4, RunningIs, RunningRuns
  <2>3. Accounted'
    BY <1>1, <1>2, <1>4, <2>1, <2>2, StartsAll DEF Others
  <2> QED
    BY <2>1, <2>3
<1>5. CASE Return /\ paused' = paused /\ k' = k /\ th' = th
  <2>1. Ready' /\ Top'.at \in {"loop", "stepTaken"}
    BY <1>2, <1>5, ReturnsReady
  <2> QED
    BY <1>1, <1>5, <2>1, AccountedAlike DEF Alike
<1> QED
  BY <1>1, <1>3, <1>4, <1>5

LEMMA ResumeThreadsAll ==
  ASSUME IInv, CurInv, Accounted, ResumeThreads
  PROVE  Accounted' /\ Ready'
BY StepOffAll, AfterStepOffAll, ContinueRestAll, ContinueParkedAll, ProceedAll,
   TakePendingResumesAll, DrainPendingResumesAll, ResumeStoppedThreadAll, ResumeSteppedOffAll,
   ResumeNowAll DEF ResumeThreads

-----------------------------------------------------------------------------
(* pauseAndResume                                                          *)

\* The tracer waits, and nobody runs before or after.
LEMMA QuietAll ==
  ASSUME Accounted, Ready, k' = k, Alike(th', th), Top.at \in {"wait", "pend", "decide"},
         Top'.at \in {"wait", "pend", "decide"}
  PROVE  Accounted' /\ Ready'
<1>1. \A t \in Tid : ~th'[t].running
  BY DEF Ready, Quiet, AnyRunning, Alike
<1> QED
  BY <1>1, WaitReady, AccountedAlike

LEMMA WakeAll ==
  ASSUME IInv, CurInv, Accounted, Ready, Wake
  PROVE  Accounted' /\ Ready'
<1> DEFINE t == IF cur = NoTid THEN Top.tid ELSE cur
           ths == Keep(th, Top.tid, t # Top.tid /\ curSig, "reported")
<1>1. /\ Top.at = "wait" /\ k' = k
      /\ th' \in {ths, [ths EXCEPT ![t].psig = "none"]}
  BY DEF Wake, At, kernelVars
<1>2. ths \in Records /\ Alike(ths, th)
  BY KeepIs DEF IInv, Threads, Records
<1> HIDE DEF ths, t
<1>3. Alike(th', th)
  <2>1. CASE th' = ths
    BY <1>2, <2>1
  <2>2. CASE th' = [ths EXCEPT ![t].psig = "none"]
    <3>1. Alike(th', ths)
      BY <1>2, <2>2, FieldsAre
    <3> QED
      BY <1>2, <3>1 DEF Alike
  <2> QED
    BY <1>1, <2>1, <2>2
<1> QED
  BY <1>1, <1>3, WakeCur, QuietAll

LEMMA ReportPendingHitAll ==
  ASSUME IInv, CurInv, Accounted, Ready, NEW t \in Tid, ReportPendingHit(t)
  PROVE  Accounted' /\ Ready'
<1> DEFINE ths == [th EXCEPT ![t].pbp = NoAddr]
<1>1. /\ Top.at = "pend" /\ k' = k
      /\ th' \in {ths, Keep(ths, Top.tid, curSig, "reported")}
  BY DEF ReportPendingHit, At, kernelVars
<1>2. ths \in Records /\ Alike(ths, th)
  BY FieldsAre DEF IInv, Threads, Records
<1> HIDE DEF ths
<1>3. Alike(th', th)
  BY <1>1, <1>2, KeepIs DEF Alike
<1>4. Top'.at \in {"wait", "pend"}
  BY <1>1, ReportPendingHitCur
<1> QED
  BY <1>1, <1>3, <1>4, QuietAll

LEMMA ReportPendingSignalAll ==
  ASSUME IInv, CurInv, Accounted, Ready, NEW t \in Tid, ReportPendingSignal(t)
  PROVE  Accounted' /\ Ready'
<1> DEFINE ths == [th EXCEPT ![t].psig = "none"]
<1>1. /\ Top.at = "pend" /\ k' = k
      /\ th' = Keep(ths, Top.tid, curSig, "reported")
  BY DEF ReportPendingSignal, At, kernelVars
<1>2. ths \in Records /\ Alike(ths, th)
  BY FieldsAre DEF IInv, Threads, Records
<1> HIDE DEF ths
<1>3. Alike(th', th)
  BY <1>1, <1>2, KeepIs DEF Alike
<1> QED
  BY <1>1, <1>3, ReportPendingSignalCur, QuietAll

LEMMA NothingPendingAll ==
  ASSUME IInv, CurInv, Accounted, Ready, NothingPending
  PROVE  Accounted' /\ Ready'
<1>1. Top.at = "pend" /\ k' = k /\ th' = th
  BY DEF NothingPending, At, kernelVars
<1> QED
  BY <1>1, NothingPendingCur, QuietAll DEF Alike

\* The step is for a thread that nobody has suspended.
LEMMA DecideStepAll ==
  ASSUME IInv, CurInv, Accounted, Ready, DecideStep
  PROVE  Accounted' /\ Ready'
<1>1. /\ Top.at = "decide" /\ k' = k /\ th' = th /\ cur' = cur /\ cur # NoTid
      /\ BeginPause(Top.tid) \/ ~CurSuspended
  BY DEF DecideStep, At, kernelVars
<1>2. cur = Top.tid /\ Top.tid \in Tid
  BY DecideStepCur, TopIs
<1>3. CASE Top'.at = "wait"
  BY <1>1, <1>3, QuietAll DEF Alike
<1>4. CASE Top'.at = "swallow" /\ Top'.tid = Top.tid /\ Below'.at = "stepNow"
  <2>1. ~BeginPause(Top.tid)
    BY <1>1, <1>2, <1>4, HandlerPauses DEF HandlerPoints, BeginPause
  <2>2. ~Suspended(Top.tid)
    BY <1>1, <1>2, <2>1 DEF CurSuspended
  <2>3. ~AnyRunning
    BY <1>1 DEF Ready, Quiet
  <2>4. Ready'
    BY <1>1, <1>4, <2>2, <2>3, StartReady
  <2> QED
    BY <1>1, <1>4, <2>4, AccountedAlike DEF Alike
<1> QED
  BY <1>3, <1>4, DecideStepCur

LEMMA DecideContinueAll ==
  ASSUME IInv, CurInv, Accounted, Ready, DecideContinue
  PROVE  Accounted' /\ Ready'
<1>1. Top.at = "decide" /\ k' = k /\ th' = th
  BY DEF DecideContinue, At, kernelVars
<1>2. Top'.at = "cont" \/ (Top'.at = "stepPast" /\ Below'.at = "stepped")
  BY DecideContinueCur
<1>3. ~AnyRunning
  BY <1>1 DEF Ready, Quiet
<1>4. ~ToStep'
  BY <1>2 DEF ToStep, SwallowPoints
<1>5. Ready'
  BY <1>1, <1>2, <1>3, <1>4, StartReady
<1> QED
  BY <1>1, <1>2, <1>5, AccountedAlike DEF Alike

LEMMA SteppedPastAll ==
  ASSUME IInv, CurInv, Accounted, Ready, SteppedPast
  PROVE  Accounted' /\ Ready'
<1>1. Top.at = "stepped" /\ k' = k /\ th' = th /\ Alike(th', th)
  BY DEF SteppedPast, At, kernelVars, Alike
<1>2. CASE Top'.at \in {"stepOff", "loop", "stepTaken"}
  BY <1>1, <1>2, IdleAll DEF IdlePoints
<1>3. CASE Top'.at = "cont" /\ ret # "consumed"
  <2>1. StartPoint /\ ~ToStep'
    BY <1>1, <1>3 DEF StartPoint, ToStep, SwallowPoints
  <2>2. Ready'
    BY <1>1, <1>3, <2>1, StartReady
  <2> QED
    BY <1>1, <1>3, <2>2, AccountedAlike
<1> QED
  BY <1>2, <1>3, SteppedPastCur

\* A thread that was suspended meanwhile is not stepped, and nobody runs then: the call
\* that suspends it comes only where no thread is created.
LEMMA StepNowAll ==
  ASSUME Restricted, IInv, CurInv, Accounted, Ready, StepNow
  PROVE  Accounted' /\ Ready'
<1> SUFFICES ASSUME NEW t, t = Top.tid
             PROVE  Accounted' /\ Ready'
  OBVIOUS
<1> DEFINE ths == [th EXCEPT ![t].stepping = TRUE, ![t].pbp = NoAddr]
<1>1. /\ Top.at = "stepNow" /\ cur' = cur
      /\ \/ /\ k' = k /\ (th' = th \/ th' = [th EXCEPT ![t].pbp = NoAddr])
            /\ AbandonAllStop(t) /\ paused' = paused
         \/ k' = k /\ th' = th /\ ret # "lost" /\ CurSuspended /\ BeginPause(t)
         \/ /\ InPtraceStop(t) /\ k' = Restart(t, "step") /\ th' = Running(ths, t)
            /\ Return /\ paused' = paused
  BY DEF StepNow, At
<1>2. /\ t \in Tid /\ th \in Records /\ Top.at \in HandlerPoints \ {"wait"} /\ ~paused
      /\ ret # "lost" => cur = t
  BY <1>1, TopIs, NotPaused, StepNowCur DEF HandlerPoints, IInv, Threads, Records
<1>3. CASE /\ k' = k /\ (th' = th \/ th' = [th EXCEPT ![t].pbp = NoAddr])
           /\ AbandonAllStop(t) /\ paused' = paused
  <2>1. Alike(th', th)
    <3>1. CASE th' = th
      BY <3>1 DEF Alike
    <3>2. CASE th' = [th EXCEPT ![t].pbp = NoAddr]
      BY <1>2, <3>2, FieldsAre
    <3> QED
      BY <1>3, <3>1, <3>2
  <2>2. Top'.at \in {"stepOff", "loop", "stepTaken"}
    BY <1>2, <1>3, HandlerAbandons
  <2> QED
    BY <1>1, <1>3, <2>1, <2>2, IdleAll DEF IdlePoints
<1>4. CASE k' = k /\ th' = th /\ ret # "lost" /\ CurSuspended /\ BeginPause(t)
  <2>1. Suspended(t)
    BY <1>2, <1>4 DEF CurSuspended
  <2>2. "suspendRunning" \in Calls
    BY <1>1, <2>1 DEF Ready, Unsuspended, ToStep
  <2>3. Births = {}
    BY <2>2 DEF Restricted
  <2>4. \A u \in Tid : ~th'[u].running
    BY <1>1, <1>4, <2>3 DEF Ready, NewOnly, StartPoint
  <2>5. Top'.at = "wait"
    BY <1>1, <1>2, <1>4, HandlerPauses DEF BeginPause, CurSuspended
  <2> QED
    BY <1>1, <1>4, <2>4, <2>5, WaitReady, AccountedAlike DEF Alike
<1>5. CASE /\ InPtraceStop(t) /\ k' = Restart(t, "step") /\ th' = Running(ths, t)
           /\ Return /\ paused' = paused
  <2>1. ths \in Records /\ \A u \in Tid : /\ ths[u].known = th[u].known
                                           /\ ths[u].running = th[u].running
    <3> DEFINE x == [th[t] EXCEPT !.stepping = TRUE, !.pbp = NoAddr]
    <3>1. ths = [th EXCEPT ![t] = x]
      BY <1>2 DEF Records
    <3>2. th[t] \in ThreadRecords
      BY <1>2 DEF Records
    <3>3. x \in ThreadRecords
      BY <3>2 DEF ThreadRecords
    <3>4. x.known = th[t].known /\ x.running = th[t].running
      BY <3>2 DEF ThreadRecords
    <3> HIDE DEF x, ths
    <3> QED
      BY <1>2, <3>1, <3>3, <3>4 DEF Records
  <2> HIDE DEF ths
  <2>2. Others(th', ths, t) /\ th'[t].known = ths[t].known /\ th'[t].running
    BY <1>2, <1>5, <2>1, RunningIs, RunningRuns
  <2>3. Ready' /\ Top'.at \in {"loop", "stepTaken"}
    BY <1>2, <1>5, ReturnsReady
  <2>4. /\ \A u \in Tid : th'[u].known = th[u].known
        /\ \A u \in Tid \ {t} : th'[u].running = th[u].running
    BY <2>1, <2>2 DEF Others
  <2>5. Accounted'
    BY <1>1, <1>2, <1>5, <2>2, <2>3, <2>4, StartsAll
  <2> QED
    BY <2>3, <2>5
<1> QED
  BY <1>1, <1>3, <1>4, <1>5

\* When all the threads that are known are suspended, the ones that run are not known.
LEMMA ContinueAllAll ==
  ASSUME IInv, CurInv, Accounted, Ready, ContinueAll
  PROVE  Accounted' /\ Ready'
<1>1. Top.at = "cont" /\ k' = k /\ th' = th /\ Alike(th', th)
  BY DEF ContinueAll, At, kernelVars, Alike
<1>2. CASE Top'.at = "stepOff"
  BY <1>1, <1>2, IdleAll DEF IdlePoints
<1>3. CASE Top'.at = "wait" /\ \A u \in Tid : th[u].known => Suspended(u)
  <2>1. \A u \in Tid : ~th'[u].running
    BY <1>1, <1>3 DEF Ready, NewOnly, StartPoint, Accounted, Lawful
  <2> QED
    BY <1>1, <1>3, <2>1, WaitReady, AccountedAlike
<1> QED
  BY <1>2, <1>3, ContinueAllCur

LEMMA PauseAndResumeAll ==
  ASSUME Restricted, IInv, CurInv, Accounted, Ready, PauseAndResume
  PROVE  Accounted' /\ Ready'
<1>1. ASSUME NEW t \in Tid, ReportPendingHit(t) \/ ReportPendingSignal(t)
      PROVE  Accounted' /\ Ready'
  BY <1>1, ReportPendingHitAll, ReportPendingSignalAll
<1> QED
  BY <1>1, WakeAll, NothingPendingAll, DecideStepAll, DecideContinueAll, SteppedPastAll,
     StepNowAll, ContinueAllAll DEF PauseAndResume

-----------------------------------------------------------------------------
(* The all-stop holds                                                      *)

LEMMA InitAll == Init => Accounted /\ Ready
<1> SUFFICES ASSUME Init
             PROVE  Accounted /\ Ready
  OBVIOUS
<1> DEFINE f == Frame("wait", Leader)
           g == Frame("loop", Leader)
<1>1. stack = <<f, g>>
  BY DEF Init
<1>2. f \in Activations /\ f.at = "wait" /\ f.tid = Leader /\ g \in Activations
  BY FrameIs DEF Points
<1> HIDE DEF f, g
<1>3. Top.at = "wait"
  BY <1>1, <1>2 DEF Top
<1>4. \A t \in Tid : /\ k[t].status = "none"
                     /\ t \in Births => k[t].run = "unborn"
                     /\ t \notin Births => k[t].run = "stopped"
  BY DEF Init, Unborn, Attached
<1>5. \A t \in Tid : ~th[t].running /\ (th[t].known <=> t \notin Births)
  <2> PICK own \in SUBSET (Tid \ Births) :
             th = [t \in Tid |-> IF t \in Births THEN NoThread ELSE ThreadRecord(t \in own)]
    BY DEF Init
  <2>1. ~NoThread.known /\ ~NoThread.running
    BY DEF NoThread
  <2>2. \A b : ThreadRecord(b).known /\ ~ThreadRecord(b).running
    BY DEF ThreadRecord, NewThread, NoThread
  <2> QED
    BY <2>1, <2>2
<1>6. Accounted
  BY <1>3, <1>4, <1>5
     DEF Accounted, Stand, Parent, Unmet, Lawful, Announcing, AtClone, InPtraceStop, Living
<1>7. Ready
  BY <1>3, <1>5 DEF Ready, Reported, ReportPoints, Awaited, Leaving, Quiet, NewOnly, StartPoint,
                    Unsuspended, ToStep, SwallowPoints, AnyRunning
<1> QED
  BY <1>6, <1>7

LEMMA NextAll ==
  ASSUME Restricted, IInv, CurInv, Accounted, Ready, [Next]_vars
  PROVE  Accounted' /\ Ready'
<1>1. ASSUME NEW t \in Tid, Kernel(t) \/ SendSignal(t)
      PROVE  Accounted' /\ Ready'
  BY <1>1, KernelAll, SendSignalAll
<1>2. CASE User
  BY <1>2, UserAll
<1>3. CASE Tracer
  BY <1>3, LoopAll, SweepAll, StepOverAll, ResumeThreadsAll, PauseAndResumeAll DEF Tracer
<1>4. CASE UNCHANGED vars
  <2>1. k' = k /\ th' = th /\ stack' = stack /\ ret' = ret
    BY <1>4 DEF vars, kernelVars, tracerVars
  <2> QED
    BY <2>1, AllStill, SentAll DEF Alike, Suspended
<1> QED
  BY <1>1, <1>2, <1>3, <1>4 DEF Next

\* Nobody can be at large: a thread that is not known would have a birth to be told, and
\* the thread that tells it has no stop to be taken while the tracer waits.
LEMMA AllStopBy ==
  ASSUME Accounted, Ready
  PROVE  AllStop
<1> SUFFICES ASSUME At("wait"), NEW t \in Tid, Living(t)
             PROVE  th[t].known /\ InPtraceStop(t)
  BY DEF AllStop, Pausing
<1>1. \A u \in Tid : ~th[u].running /\ ~Excused(u) /\ ~AtClone(u)
  BY DEF At, Ready, Quiet, AnyRunning, Excused, AtClone
<1>2. \A u \in Tid : th[u].known /\ Living(u) => InPtraceStop(u)
  BY <1>1 DEF Accounted, Stand
<1>3. th[t].known
  <2> SUFFICES ASSUME ~th[t].known
               PROVE  FALSE
    OBVIOUS
  <2>1. PICK p \in Tid : Announcing(p)
    BY DEF Accounted, Unmet, Living
  <2>2. th[p].known /\ Living(p) /\ k[p].status = "clone"
    BY <1>1, <2>1 DEF Accounted, Parent, Announcing, Living
  <2> QED
    BY <1>2, <2>2 DEF InPtraceStop
<1> QED
  BY <1>2, <1>3

\* While the user looks at a pause, every thread of the debuggee is known to the tracer,
\* is in ptrace-stop and has no stop that was not taken (stopAllThreads): for any number
\* of threads, breakpoints and signals, provided that every thread stops in time for
\* kStopWaitTimeout, and that threads are not both created and suspended while they run.
THEOREM AllStopKept == ASSUME Restricted PROVE Spec => []AllStop
<1> DEFINE Inv == IInv /\ CurInv /\ Accounted /\ Ready
<1>1. Init => Inv
  BY InitIInv, InitCurInv, InitAll
<1>2. Inv /\ [Next]_vars => Inv'
  BY NextIInv, NextCurInv, NextAll
<1>3. Inv => AllStop
  BY AllStopBy
<1> QED
  BY <1>1, <1>2, <1>3, PTL DEF Spec
-----------------------------------------------------------------------------
(* Without steps of the user                                               *)

\* The handler or the sweep has taken the hit of t; t runs into its SIGSTOP, or steps.
Trapped(t) == Top.tid = t /\ Top.at = "trap" /\ Top.why = "int3"
Reporting(t) ==
  Top.tid = t /\ Top.at \in {"sweep", "sweepWait"} /\ Top.why = "breakpoint"
Drains(t) == Top.tid = t /\ Top.at = "swallowWait"
StepsOver(t) == Top.tid = t /\ Top.at = "stepWait"

\* A thread is behind the int3 from the hit until it is rewound, and a hit is one of a
\* breakpoint.
Hit(t) == k[t].status = "int3" \/ Trapped(t)
Behind(t) == (k[t].past <=> Hit(t)) /\ (Hit(t) => k[t].at \in recs)

\* A thread that is said to be at a breakpoint has stopped there.
AtByte(t) ==
  th[t].atBp => /\ ~th[t].running
                /\ InPtraceStop(t) \/ k[t].dying \/ (Drains(t) /\ k[t].run # "unborn")
Ends(t) ==
  /\ k[t].dying => k[t].at = NoAddr /\ k[t].run # "unborn"
  /\ k[t].run = "dead" \/ k[t].status = "exit" => k[t].dying

\* Only the step over a byte is a step, and of a thread nobody knows nothing is noted.
Unstepped(t) == th[t].stepping => StepsOver(t)
Fresh(t) == ~th[t].known => ~th[t].stepping /\ ~th[t].atBp /\ th[t].pbp = NoAddr

\* A hit is on its way to the user.
Counted(t) ==
  t \in hits => k[t].status = "int3" \/ th[t].pbp # NoAddr \/ Trapped(t) \/ Reporting(t)
Noted(t) ==
  "delete" \notin Calls => (th[t].pbp \in recs \cup {NoAddr}) /\ Counted(t)

\* While nobody resumes a thread in the middle of a run, one the sweep found at a hit stays
\* there until it is reported.
Waits(t) ==
  th[t].pbp # NoAddr /\ "resumeRunning" \notin Calls
    => /\ th[t].known /\ ~th[t].running /\ InPtraceStop(t) /\ ~k[t].dying
       /\ k[t].at = th[t].pbp /\ ~k[t].past
Placed(t) ==
  /\ Behind(t) /\ AtByte(t) /\ Ends(t) /\ Unstepped(t) /\ Fresh(t)
  /\ Noted(t) /\ Waits(t)
PlacedAll == \A t \in Tid : Placed(t)

\* From the pause on, up to the next sweep, only suspended threads have a hit to report.
SweepPoints == {"sweep", "sweepWait", "wait", "pend"}
ReportedFirst ==
  "resumeRunning" \notin Calls
    => /\ Top.at \notin SweepPoints => \A t \in Tid : th[t].pbp # NoAddr => Suspended(t)
       /\ Top.at \in {"stepPast", "swallow"} => th[Top.tid].pbp = NoAddr

\* A step over the byte: the thread stays there while the byte is lifted, also while it
\* runs into the SIGSTOP it owes, and executes what was under the byte.
Stopping(t) == InPtraceStop(t) /\ ~th[t].running
OffTheByteNow(t) == ~k[t].dying /\ k[t].at \notin armed
Caught == Top.at = "trap" => Stopping(Top.tid) /\ th[Top.tid].known
ToLift == Top.at = "stepPast" => Stopping(Top.tid) /\ ~k[Top.tid].dying
ToDrain == Top.at = "swallow" =>
             Stopping(Top.tid) /\ OffTheByteNow(Top.tid) /\ Below.at = "lifted"
Drained ==
  LET t == Top.tid
  IN Top.at = "swallowWait" =>
       /\ OffTheByteNow(t) /\ ~th[t].running /\ th[t].pss /\ Below.at = "lifted"
       /\ \/ Runs(t) /\ k[t].due /\ k[t].stopq
          \/ k[t].run = "stopped" /\ k[t].status \in {"stop", "sig"}
Lifted == Top.at = "lifted" /\ ret # "lost" => Stopping(Top.tid) /\ OffTheByteNow(Top.tid)
Stepped ==
  LET t == Top.tid
  IN Top.at = "stepWait" =>
       \/ k[t].run = "step" /\ OffTheByteNow(t)
       \/ k[t].run = "stopped" /\ k[t].status \notin {"none", "int3"}
Unasked == ~stepReq /\ Top.at # "stepNow"
Position ==
  /\ Leaving /\ Awaited /\ Caught /\ Unasked
  /\ ToLift /\ ToDrain /\ Drained /\ Lifted /\ Stepped

\* Every byte is in memory but the one a step over it has lifted.
LiftedFor(a) ==
  \/ Top.at \in {"lifted", "stepWait"} /\ Top.addr = a
  \/ Top.at \in SwallowPoints /\ Below.addr = a
Whole ==
  Rep = {} => /\ \A t \in Tid : rearms[t] = NoAddr
              /\ \A a \in recs \ armed : LiftedFor(a)
Steady == PlacedAll /\ ReportedFirst /\ Position /\ Whole

\* The activations at which something is noted of the top's thread.
ThreadPoints == {"trap", "sweep", "sweepWait", "swallowWait", "stepWait"}
PlacePoints ==
  {"trap", "exit", "sweepWait", "stepPast", "swallow", "swallowWait", "lifted", "stepWait",
   "stepNow"}
LiftPoints == {"swallow", "swallowWait", "lifted", "stepWait"}

\* A thread of which nothing changes that matters here.
SameKernel(t) ==
  /\ k'[t].run = k[t].run /\ k'[t].status = k[t].status /\ k'[t].at = k[t].at
  /\ k'[t].past <=> k[t].past
  /\ k'[t].dying <=> k[t].dying
SameMarks(t) ==
  /\ th'[t].known <=> th[t].known
  /\ th'[t].running <=> th[t].running
  /\ th'[t].atBp <=> th[t].atBp
  /\ th'[t].stepping <=> th[t].stepping
  /\ th'[t].pbp = th[t].pbp
SameTop(t) ==
  /\ Trapped(t)' <=> Trapped(t)
  /\ Drains(t)' <=> Drains(t)
  /\ StepsOver(t)' <=> StepsOver(t)
  /\ Reporting(t)' <=> Reporting(t)
LEMMA PlacedSame ==
  ASSUME NEW t \in Tid, Placed(t), SameKernel(t), SameMarks(t), SameTop(t),
         recs \subseteq recs', t \in hits' => t \in hits
  PROVE  Placed(t)'
BY DEF Placed, SameKernel, SameMarks, SameTop, Behind, Hit, AtByte, InPtraceStop, Ends,
       Unstepped, Fresh, Noted, Counted, Waits

LEMMA SameTopStays ==
  ASSUME Top' = Top, NEW t
  PROVE  SameTop(t)
BY DEF SameTop, Trapped, Drains, StepsOver, Reporting

LEMMA SameTopAway ==
  ASSUME NEW t, Top.at \notin ThreadPoints \/ Top.tid # t,
         Top'.at \notin ThreadPoints \/ Top'.tid # t
  PROVE  SameTop(t)
BY DEF SameTop, Trapped, Drains, StepsOver, Reporting, ThreadPoints

\* A sweep that starts or ends without a hit of the thread.
LEMMA SameTopSweeps ==
  ASSUME NEW t, Top.at \notin ThreadPoints \/ Top.tid # t,
         Top'.at \notin ThreadPoints \/ Top'.tid # t
           \/ (Top'.at = "sweep" /\ Top'.why # "breakpoint")
  PROVE  SameTop(t)
BY DEF SameTop, Trapped, Drains, StepsOver, Reporting, ThreadPoints

LEMMA PositionFree ==
  ASSUME Top'.at \notin PlacePoints, ~stepReq'
  PROVE  Position'
BY DEF Position, Leaving, Awaited, Caught, Unasked, ToLift, ToDrain, Drained, Lifted,
       Stepped, PlacePoints

LEMMA WholeStays ==
  ASSUME IInv, Whole, recs' = recs, armed \subseteq armed',
         \A t \in Tid : rearms'[t] \in {rearms[t], NoAddr},
         Top.at \notin LiftPoints
  PROVE  Whole'
<1>1. Rep = {} => recs \subseteq armed
  BY DEF Whole, LiftedFor, LiftPoints, SwallowPoints
<1> QED
  BY <1>1 DEF Whole

LEMMA WholeSame ==
  ASSUME Whole, recs' = recs, armed' = armed, rearms' = rearms, Top' = Top, Below' = Below
  PROVE  Whole'
BY DEF Whole, LiftedFor

\* What was found stays to be reported, or is forgotten.
LEMMA ReportedStays ==
  ASSUME ReportedFirst,
         \A t \in Tid : \/ th'[t].pbp = NoAddr
                        \/ th'[t].pbp = th[t].pbp /\ (Suspended(t) => Suspended(t)'),
         Top.at \notin SweepPoints \/ Top'.at \in SweepPoints,
         Top'.at \notin {"stepPast", "swallow"}
  PROVE  ReportedFirst'
BY DEF ReportedFirst

\* A function ends that is not the drain: what is called goes on in none of the places above.
LEMMA ReturnsTo ==
  ASSUME IInv, CurInv, Top.at \notin SwallowPoints \cup {"loop"}
  PROVE  /\ Below.at \notin PlacePoints \cup ThreadPoints \cup SweepPoints
         /\ Below.at # "loop" => Below.at \notin {"stepPast", "swallow"}
<1>1. Below.at \in Callers /\ CalledBy(Top, Below)
  BY BelowIs
<1>2. Top.at \in Points
  BY TopIs DEF Activations
<1>3. Below.at \notin {"lifted", "stepNow"}
  BY <1>1, <1>2
     DEF CalledBy, Points, HandlerPoints, StepPastPoints, StepOffPoints, SwallowPoints,
         ResumePoints, ResumeAllPoints
<1> QED
  BY <1>1, <1>3 DEF Callers, PlacePoints, ThreadPoints, SweepPoints

\* The thread of a step over the byte is where it is said to be.
LEMMA OnByteStands ==
  ASSUME NEW t \in Tid, Placed(t), OnBreakpoint(t), Top.at # "swallowWait", IInv
  PROVE  Stopping(t) /\ ~k[t].dying
<1>1. NoAddr \notin recs
  BY DEF IInv, Bytes
<1> QED
  BY <1>1 DEF Placed, OnBreakpoint, AtByte, Ends, Stopping, Drains

\* A thread in ptrace-stop is behind no int3, but for the one whose hit is handled.
LEMMA StoppedAhead ==
  ASSUME NEW t \in Tid, Placed(t), k[t].status # "int3", ~Trapped(t)
  PROVE  ~k[t].past
BY DEF Placed, Behind, Hit

-----------------------------------------------------------------------------
(* ... a thread that executes                                              *)

\* A thread that runs stops or goes on; one may be created.
LEMMA RunnerSteady ==
  ASSUME IInv, Steady, NEW t \in Tid, Runs(t), th' = th,
         \A u \in Tid \ {t} : k'[u] = k[u] \/ (k[u].run = "unborn" /\ Placed(u)'),
         stack' = stack, ret' = ret, bpVars' = bpVars, rearms' = rearms,
         stepReq' = stepReq, hits' \subseteq hits \cup {t}, k[t].dying => k'[t].dying,
         Placed(t)', Top.tid = t => Drained' /\ Stepped'
  PROVE  Steady'
<1>1. Top' = Top /\ Below' = Below /\ Top.tid \in Tid
  BY TopIs DEF Top, Below
<1>2. recs' = recs /\ armed' = armed
  BY DEF bpVars
<1>3. PlacedAll'
  <2>1. ASSUME NEW u \in Tid, u # t
        PROVE  Placed(u)'
    BY <1>1, <1>2, <2>1, PlacedSame, SameTopStays
       DEF SameKernel, SameMarks, Steady, PlacedAll
  <2> QED
    BY <2>1 DEF PlacedAll
<1>4. ReportedFirst'
  BY <1>1 DEF Steady, ReportedFirst, Suspended
<1>5. Whole'
  BY <1>1, <1>2, WholeSame DEF Steady
<1>6. Top.at = "sweepWait" => Top.who \in Tid
  BY DEF IInv, Handled
<1>7. Awaited' /\ Unasked'
  BY <1>1, <1>6 DEF Steady, Position, Awaited, Unasked
<1>8. Leaving' /\ Drained' /\ Stepped' /\ Caught' /\ ToLift' /\ ToDrain' /\ Lifted'
  <2>1. CASE Top.tid = t
    <3>1. ~Stopping(t)
      BY DEF Stopping, InPtraceStop, Runs
    <3> QED
      BY <1>1, <2>1, <3>1 DEF Steady, Position, Leaving, Caught, ToLift, ToDrain, Lifted
  <2>2. CASE k'[Top.tid] = k[Top.tid]
    BY <1>1, <1>2, <2>2
       DEF Steady, Position, Leaving, Drained, Stepped, Caught, ToLift, ToDrain, Lifted,
           Stopping, InPtraceStop, OffTheByteNow, Runs
  <2>3. CASE k[Top.tid].run = "unborn"
    <3>1. ~Stopping(Top.tid) /\ ~k[Top.tid].dying /\ ~Runs(Top.tid)
      BY <1>1, <2>3
         DEF Steady, PlacedAll, Placed, Ends, Stopping, InPtraceStop, Runs
    <3> QED
      BY <1>1, <2>3, <3>1
         DEF Steady, Position, Leaving, Drained, Stepped, Caught, ToLift, ToDrain, Lifted
  <2> QED
    BY <1>1, <2>1, <2>2, <2>3
<1> QED
  BY <1>3, <1>4, <1>5, <1>7, <1>8 DEF Steady, Position

\* What is known of a thread that runs.
LEMMA RunnerIs ==
  ASSUME IInv, Steady, NEW t \in Tid, Runs(t)
  PROVE  /\ k[t] \in KernelThread /\ k[t].status = "none" /\ ~k[t].past
         /\ th[t].atBp => k[t].dying \/ Drains(t)
         /\ "resumeRunning" \notin Calls => th[t].pbp = NoAddr
         /\ ~Trapped(t) /\ k \in Kernels
<1>1. k \in Kernels /\ k[t] \in KernelThread /\ k[t].status = "none"
  BY RunsFree DEF IInv, Threads, Kernels
<1>2. ~InPtraceStop(t)
  BY DEF InPtraceStop, Runs
<1>3. ~Trapped(t)
  BY <1>2 DEF Steady, Position, Caught, Stopping, Trapped
<1>4. Placed(t)
  BY DEF Steady, PlacedAll
<1> QED
  BY <1>1, <1>2, <1>3, <1>4 DEF Placed, Behind, Hit, AtByte, Waits

\* A thread that stops, for a reason of its own or a SIGSTOP.
LEMMA StopPlaces ==
  ASSUME IInv, Steady, NEW t \in Tid, Runs(t), ~k[t].dying, th' = th, stack' = stack,
         recs' = recs, hits' = hits, k'[t].run = "stopped", k'[t].status # "int3",
         ~k'[t].past,
         (~k'[t].dying /\ k'[t].status # "exit") \/ (k'[t].at = NoAddr /\ k'[t].dying)
  PROVE  Placed(t)'
<1>1. /\ Placed(t) /\ k[t].status = "none" /\ ~k[t].past /\ ~Trapped(t)
      /\ th[t].atBp => Drains(t)
      /\ "resumeRunning" \notin Calls => th[t].pbp = NoAddr
  BY RunnerIs DEF Steady, PlacedAll
<1>2. SameTop(t)
  BY SameTopStays DEF Top
<1> QED
  BY <1>1, <1>2
     DEF SameTop, Placed, Behind, Hit, AtByte, Ends, Unstepped, Fresh, Noted, Counted, Waits

\* A thread that stops ends the step over its byte, or the drain.
LEMMA StopPositions ==
  ASSUME IInv, Steady, NEW t \in Tid, Runs(t), th' = th, stack' = stack, armed' = armed,
         Top.tid = t, k'[t].run = "stopped", k'[t].status \notin {"none", "int3"},
         Top.at = "swallowWait" =>
           /\ k'[t].status \in {"stop", "sig"} /\ k'[t].at = k[t].at
           /\ ~k'[t].dying
  PROVE  Drained' /\ Stepped'
<1>1. Top' = Top /\ Below' = Below
  BY DEF Top, Below
<1> QED
  BY <1>1 DEF Steady, Position, Drained, Stepped, OffTheByteNow

LEMMA ExecuteSteady ==
  ASSUME IInv, Steady, NEW t \in Tid, Execute(t)
  PROVE  Steady'
<1>1. /\ th' = th /\ stack' = stack /\ ret' = ret /\ rearms' = rearms /\ bpVars' = bpVars
      /\ stepReq' = stepReq /\ Runs(t) /\ ~k[t].dying /\ recs' = recs /\ armed' = armed
      /\ hits' \subseteq hits \cup {t}
  BY DEF Execute, Executes, tracerVars, userVars, bpVars
<1>2. /\ k \in Kernels /\ k[t] \in KernelThread /\ k[t].status = "none" /\ ~k[t].past
      /\ th[t].atBp => Drains(t)
      /\ "resumeRunning" \notin Calls => th[t].pbp = NoAddr
      /\ ~Trapped(t)
  BY <1>1, RunnerIs
<1>3. Top' = Top /\ Below' = Below /\ SameTop(t)
  BY <1>1, SameTopStays DEF Top, Below
<1>4. ~Drains(t)
  <2>1. Drains(t) => k[t].due /\ k[t].stopq
    BY <1>1 DEF Drains, Steady, Position, Drained, Runs
  <2> QED
    BY <2>1 DEF Execute, Executes, Queued
<1>5. Placed(t)
  BY DEF Steady, PlacedAll
<1>6. Others(k', k, t) /\ ~k'[t].dying
  BY <1>1, ExecuteIs
<1>7. CASE /\ k[t].at \in armed /\ ~k[t].past
           /\ k' = [Stops(t, "int3") EXCEPT ![t].past = TRUE]
           /\ hits' = hits \cup {t}
  <2>1. /\ k'[t].run = "stopped" /\ k'[t].status = "int3" /\ k'[t].past
        /\ k'[t].at = k[t].at
    BY <1>2, <1>7 DEF Stops, Kernels, KernelThread
  <2>2. k[t].at \in recs
    BY <1>7 DEF IInv, Bytes
  <2>3. Placed(t)'
    BY <1>1, <1>2, <1>3, <1>4, <1>5, <1>6, <2>1, <2>2
       DEF SameTop, Placed, Behind, Hit, AtByte, Ends, Unstepped, Fresh, Noted, Counted, Waits
  <2>4. Top.tid = t => Drained' /\ Stepped'
    BY <1>1, <1>3, <1>4, <1>7
       DEF Steady, Position, Drained, Stepped, OffTheByteNow, Drains, Runs
  <2> QED
    BY <1>1, <1>6, <2>3, <2>4, RunnerSteady DEF Others
<1>8. ASSUME NEW a \in Addr \cup {NoAddr}, hits' = hits,
             k' = [IF k[t].run = "step" THEN Stops(t, "step") ELSE k
                     EXCEPT ![t].at = a, ![t].past = FALSE, ![t].due = FALSE]
      PROVE  Steady'
  <2>1. /\ ~k'[t].past /\ k'[t].at = a
        /\ \/ k[t].run = "step" /\ k'[t].run = "stopped" /\ k'[t].status = "step"
           \/ k[t].run = "run" /\ k'[t].run = "run" /\ k'[t].status = "none"
    BY <1>1, <1>2, <1>8 DEF Stops, Kernels, KernelThread, Runs
  <2>2. Placed(t)'
    <3>1. Behind(t)' /\ AtByte(t)' /\ Ends(t)'
      BY <1>1, <1>2, <1>3, <1>4, <1>5, <1>6, <2>1
         DEF SameTop, Placed, Behind, Hit, AtByte, Ends
    <3>2. Unstepped(t)' /\ Fresh(t)' /\ Noted(t)' /\ Waits(t)'
      BY <1>1, <1>2, <1>3, <1>5, <1>8
         DEF SameTop, Placed, Unstepped, Fresh, Noted, Counted, Waits
    <3> QED
      BY <3>1, <3>2 DEF Placed
  <2>3. Top.tid = t => Drained' /\ Stepped'
    BY <1>1, <1>3, <1>4, <2>1
       DEF Steady, Position, Drained, Stepped, OffTheByteNow, Drains, Runs
  <2> QED
    BY <1>1, <1>6, <2>2, <2>3, RunnerSteady DEF Others
<1>9. CASE \E a \in IF k[t].at = NoAddr THEN Addr
                    ELSE {NoAddr} \cup ({k[t].at} \cap Rep) :
             k' = [IF k[t].run = "step" THEN Stops(t, "step") ELSE k
                     EXCEPT ![t].at = a, ![t].past = FALSE, ![t].due = FALSE]
           /\ hits' = hits
  <2>1. (IF k[t].at = NoAddr THEN Addr ELSE {NoAddr} \cup ({k[t].at} \cap Rep))
          \subseteq Addr \cup {NoAddr}
    OBVIOUS
  <2> QED
    BY <1>8, <1>9, <2>1
<1> QED
  BY <1>7, <1>9 DEF Execute

LEMMA TakeSigstopSteady ==
  ASSUME IInv, Steady, NEW t \in Tid, TakeSigstop(t)
  PROVE  Steady'
<1>1. /\ th' = th /\ stack' = stack /\ ret' = ret /\ rearms' = rearms /\ bpVars' = bpVars
      /\ stepReq' = stepReq /\ Runs(t) /\ ~k[t].dying /\ recs' = recs /\ armed' = armed
      /\ hits' = hits
  BY DEF TakeSigstop, tracerVars, userVars, bpVars, historyVars
<1>2. k \in Kernels /\ k[t] \in KernelThread /\ ~k[t].past
  BY <1>1, RunnerIs
<1>3. k' \in {Stops(t, "stop"), [Stops(t, "stop") EXCEPT ![t].stopq = FALSE]}
  BY DEF TakeSigstop
<1>4. /\ k'[t].run = "stopped" /\ k'[t].status = "stop" /\ ~k'[t].past
      /\ k'[t].at = k[t].at /\ ~k'[t].dying /\ Others(k', k, t)
  <2>1. CASE k' = Stops(t, "stop")
    BY <1>1, <1>2, <2>1 DEF Stops, Kernels, KernelThread, Others
  <2>2. CASE k' = [Stops(t, "stop") EXCEPT ![t].stopq = FALSE]
    BY <1>1, <1>2, <2>2 DEF Stops, Kernels, KernelThread, Others
  <2> QED
    BY <1>3, <2>1, <2>2
<1>5. Placed(t)' /\ (Top.tid = t => Drained' /\ Stepped')
  BY <1>1, <1>4, StopPlaces, StopPositions
<1> QED
  BY <1>1, <1>4, <1>5, RunnerSteady DEF Others

LEMMA TakeSignalSteady ==
  ASSUME IInv, Steady, NEW t \in Tid, TakeSignal(t)
  PROVE  Steady'
<1>1. /\ th' = th /\ stack' = stack /\ ret' = ret /\ rearms' = rearms /\ bpVars' = bpVars
      /\ stepReq' = stepReq /\ Runs(t) /\ ~k[t].dying /\ recs' = recs /\ armed' = armed
      /\ hits' = hits /\ k' = [Stops(t, "sig") EXCEPT ![t].sigq = @ - 1]
  BY DEF TakeSignal, tracerVars, userVars, bpVars, historyVars
<1>2. k \in Kernels /\ k[t] \in KernelThread /\ ~k[t].past
  BY <1>1, RunnerIs
<1>4. /\ k'[t].run = "stopped" /\ k'[t].status = "sig" /\ ~k'[t].past
      /\ k'[t].at = k[t].at /\ ~k'[t].dying /\ Others(k', k, t)
  BY <1>1, <1>2 DEF Stops, Kernels, KernelThread, Others
<1>5. Placed(t)' /\ (Top.tid = t => Drained' /\ Stepped')
  BY <1>1, <1>4, StopPlaces, StopPositions
<1> QED
  BY <1>1, <1>4, <1>5, RunnerSteady DEF Others

\* A thread that creates one, or exits, is not drained: it stops for its SIGSTOP first.
LEMMA ExecutesFree ==
  ASSUME Steady, NEW t \in Tid, Executes(t)
  PROVE  ~Drains(t)
<1>1. Drains(t) => k[t].due /\ k[t].stopq
  BY DEF Drains, Steady, Position, Drained, Executes, Runs
<1> QED
  BY <1>1 DEF Executes, Queued

LEMMA ExitSteady ==
  ASSUME IInv, Steady, NEW t \in Tid, Exit(t)
  PROVE  Steady'
<1>1. /\ th' = th /\ stack' = stack /\ ret' = ret /\ rearms' = rearms /\ bpVars' = bpVars
      /\ stepReq' = stepReq /\ Runs(t) /\ ~k[t].dying /\ recs' = recs /\ armed' = armed
      /\ hits' = hits /\ ~Drains(t)
      /\ k' = [Stops(t, "exit") EXCEPT ![t].dying = TRUE, ![t].at = NoAddr, ![t].past = FALSE]
  BY ExecutesFree DEF Exit, Executes, tracerVars, userVars, bpVars, historyVars
<1>2. k \in Kernels /\ k[t] \in KernelThread /\ ~k[t].past
  BY <1>1, RunnerIs
<1>4. /\ k'[t].run = "stopped" /\ k'[t].status = "exit" /\ ~k'[t].past
      /\ k'[t].at = NoAddr /\ k'[t].dying /\ Others(k', k, t)
  BY <1>1, <1>2 DEF Stops, Kernels, KernelThread, Others
<1>5. Placed(t)' /\ (Top.tid = t => Drained' /\ Stepped')
  BY <1>1, <1>4, StopPlaces, StopPositions DEF Drains
<1> QED
  BY <1>1, <1>4, <1>5, RunnerSteady DEF Others

LEMMA DieSteady ==
  ASSUME IInv, Steady, NEW t \in Tid, Die(t)
  PROVE  Steady'
<1>1. /\ th' = th /\ stack' = stack /\ ret' = ret /\ rearms' = rearms /\ bpVars' = bpVars
      /\ stepReq' = stepReq /\ Runs(t) /\ k[t].dying /\ recs' = recs /\ armed' = armed
      /\ hits' = hits /\ k' = [k EXCEPT ![t].run = "dead", ![t].status = "exited"]
  BY DEF Die, tracerVars, userVars, bpVars, historyVars
<1>2. /\ k \in Kernels /\ k[t] \in KernelThread /\ ~k[t].past /\ ~Trapped(t)
      /\ "resumeRunning" \notin Calls => th[t].pbp = NoAddr
  BY <1>1, RunnerIs
<1>3. Top' = Top /\ Below' = Below /\ SameTop(t)
  BY <1>1, SameTopStays DEF Top, Below
<1>4. /\ k'[t].run = "dead" /\ k'[t].status = "exited" /\ ~k'[t].past
      /\ k'[t].at = k[t].at /\ k'[t].dying /\ Others(k', k, t)
  BY <1>1, <1>2 DEF Kernels, KernelThread, Others
<1>5. Placed(t) /\ k[t].status = "none"
  BY <1>1, RunnerIs DEF Steady, PlacedAll
<1>6. Placed(t)'
  BY <1>1, <1>2, <1>3, <1>4, <1>5
     DEF SameTop, Placed, Behind, Hit, AtByte, Ends, Unstepped, Fresh, Noted, Counted, Waits
<1>7. Top.tid = t => Drained' /\ Stepped'
  BY <1>1, <1>3 DEF Steady, Position, Drained, Stepped, OffTheByteNow, Runs
<1> QED
  BY <1>1, <1>4, <1>6, <1>7, RunnerSteady DEF Others

LEMMA CloneSteady ==
  ASSUME IInv, Steady, NEW t \in Tid, Clone(t)
  PROVE  Steady'
<1>1. /\ th' = th /\ stack' = stack /\ ret' = ret /\ rearms' = rearms /\ bpVars' = bpVars
      /\ stepReq' = stepReq /\ Runs(t) /\ ~k[t].dying /\ recs' = recs /\ armed' = armed
      /\ hits' = hits /\ ~Drains(t)
  BY ExecutesFree DEF Clone, Executes, tracerVars, userVars, bpVars, historyVars
<1>2. k \in Kernels /\ k[t] \in KernelThread /\ ~k[t].past
  BY <1>1, RunnerIs
<1>3. PICK c \in Births :
        /\ k[c].run = "unborn"
        /\ k' = [Stops(t, "clone") EXCEPT ![t].child = c, ![t].at = NoAddr,
                                          ![t].past = FALSE, ![c] = Newborn]
  BY ZenonT(60) DEF Clone
<1>4. c \in Tid /\ c # t
  BY <1>1, <1>3 DEF Runs
<1>5. /\ k'[t].run = "stopped" /\ k'[t].status = "clone" /\ ~k'[t].past
      /\ k'[t].at = NoAddr /\ ~k'[t].dying
  BY <1>1, <1>2, <1>3, <1>4 DEF Stops, Kernels, KernelThread
<1>6. k'[c] = Newborn /\ \A u \in Tid \ {t, c} : k'[u] = k[u]
  BY <1>2, <1>3, <1>4 DEF Stops, Kernels
<1>7. Placed(t)' /\ (Top.tid = t => Drained' /\ Stepped')
  BY <1>1, <1>5, StopPlaces, StopPositions DEF Drains
<1>8. Placed(c)'
  <2>1. Placed(c) /\ k[c].status \notin {"int3", "exit"} /\ SameTop(c)
    BY <1>1, <1>3, <1>4, SameTopStays DEF Steady, PlacedAll, IInv, Threads, StatusOf, Top
  <2>2. ~Trapped(c) /\ ~InPtraceStop(c)
    BY <1>3 DEF Steady, Position, Caught, Stopping, Trapped, InPtraceStop
  <2>3. /\ ~k'[c].past /\ ~k'[c].dying /\ k'[c].status = "none" /\ k'[c].run = "run"
        /\ k'[c].at = NoAddr
    BY <1>6 DEF Newborn
  <2>4. Behind(c)' /\ AtByte(c)' /\ Ends(c)'
    BY <1>1, <1>3, <2>1, <2>2, <2>3 DEF SameTop, Placed, Behind, Hit, AtByte, Ends
  <2>5. Unstepped(c)' /\ Fresh(c)' /\ Noted(c)' /\ Waits(c)'
    BY <1>1, <2>1, <2>2, <2>3 DEF SameTop, Placed, Unstepped, Fresh, Noted, Counted, Waits
  <2> QED
    BY <2>4, <2>5 DEF Placed
<1>9. \A u \in Tid \ {t} : k'[u] = k[u] \/ (k[u].run = "unborn" /\ Placed(u)')
  BY <1>3, <1>6, <1>8
<1> QED
  BY <1>1, <1>7, <1>9, RunnerSteady

LEMMA KernelSteady ==
  ASSUME IInv, Steady, NEW t \in Tid, Kernel(t)
  PROVE  Steady'
BY ExecuteSteady, TakeSigstopSteady, TakeSignalSteady, CloneSteady, ExitSteady, DieSteady
   DEF Kernel

-----------------------------------------------------------------------------
(* ... and the calls                                                       *)

\* A thread is sent something, or a SIGSTOP is booked on it.
LEMMA SentSteady ==
  ASSUME IInv, Steady, stack' = stack, ret' = ret, bpVars' = bpVars, rearms' = rearms,
         stepReq' = FALSE, hits' = hits,
         \A t \in Tid : /\ SameKernel(t) /\ SameMarks(t)
                        /\ k[t].stopq => k'[t].stopq
                        /\ k'[t].due <=> k[t].due
                        /\ th[t].pss => th'[t].pss
                        /\ Suspended(t) => Suspended(t)' \/ Top.at = "wait"
                                             \/ "resumeRunning" \in Calls
  PROVE  Steady'
<1>1. Top' = Top /\ Below' = Below /\ Top.tid \in Tid
  BY TopIs DEF Top, Below
<1>2. recs' = recs /\ armed' = armed
  BY DEF bpVars
<1>3. PlacedAll'
  BY <1>1, <1>2, PlacedSame, SameTopStays DEF Steady, PlacedAll
<1>4. ReportedFirst'
  BY <1>1 DEF Steady, ReportedFirst, SameMarks, SweepPoints
<1>5. Whole'
  BY <1>1, <1>2, WholeSame DEF Steady
<1>6. Top.at = "sweepWait" => Top.who \in Tid
  BY DEF IInv, Handled
<1>7. Awaited' /\ Unasked'
  BY <1>1, <1>6 DEF Steady, Position, Awaited, Unasked, SameMarks
<1>8. /\ SameKernel(Top.tid) /\ SameMarks(Top.tid)
      /\ k[Top.tid].stopq => k'[Top.tid].stopq
      /\ k'[Top.tid].due <=> k[Top.tid].due
      /\ th[Top.tid].pss => th'[Top.tid].pss
  BY <1>1
<1>9. Leaving' /\ Drained' /\ Stepped' /\ Caught' /\ ToLift' /\ ToDrain' /\ Lifted'
  BY <1>1, <1>2, <1>8
     DEF SameKernel, SameMarks, Steady, Position, Leaving, Drained, Stepped, Caught, ToLift,
         ToDrain, Lifted, Stopping, InPtraceStop, OffTheByteNow, Runs
<1> QED
  BY <1>3, <1>4, <1>5, <1>7, <1>9 DEF Steady, Position

LEMMA SigstopSame ==
  ASSUME k \in Kernels, NEW u \in Tid, k' = k \/ k' = WithSigstop(k, u, TRUE), NEW t \in Tid
  PROVE  /\ SameKernel(t) /\ (k[t].stopq => k'[t].stopq) /\ (k'[t].due <=> k[t].due)
<1>1. CASE k' = k
  BY <1>1 DEF SameKernel
<1>2. CASE k' = WithSigstop(k, u, TRUE)
  <2>1. k' = [k EXCEPT ![u].stopq = TRUE] /\ k[t] \in KernelThread
    BY <1>2 DEF WithSigstop, Kernels
  <2> QED
    BY <2>1 DEF SameKernel, Kernels, KernelThread
<1> QED
  BY <1>1, <1>2

\* Only what is suspended, or owes a SIGSTOP, changes.
Books(t) ==
  /\ SameMarks(t) /\ (th[t].pss => th'[t].pss)
LEMMA BooksBy ==
  ASSUME th \in Records, NEW u \in Tid, NEW t \in Tid,
         th' = th \/ th' = [th EXCEPT ![u].pss = TRUE]
  PROVE  Books(t) /\ (Suspended(t) => Suspended(t)')
<1>1. th[t] \in ThreadRecords
  BY DEF Records
<1>2. CASE th' = th
  BY <1>2 DEF Books, SameMarks, Suspended
<1>3. CASE th' = [th EXCEPT ![u].pss = TRUE]
  BY <1>1, <1>3 DEF Books, SameMarks, Suspended, Records, ThreadRecords
<1> QED
  BY <1>2, <1>3

LEMMA SendSignalSteady ==
  ASSUME IInv, Steady, NEW u \in Tid, SendSignal(u)
  PROVE  Steady'
<1>1. /\ th' = th /\ stack' = stack /\ ret' = ret /\ rearms' = rearms /\ bpVars' = bpVars
      /\ stepReq' = stepReq /\ hits' = hits /\ k' = [k EXCEPT ![u].sigq = @ + 1]
      /\ th \in Records /\ k \in Kernels
  BY DEF SendSignal, tracerVars, userVars, bpVars, historyVars, IInv, Threads, Records,
         Kernels
<1>2. stepReq' = FALSE
  BY <1>1 DEF Steady, Position, Unasked, IInv, Flags
<1>3. ASSUME NEW t \in Tid
      PROVE  /\ SameKernel(t) /\ SameMarks(t) /\ (k[t].stopq => k'[t].stopq)
             /\ (k'[t].due <=> k[t].due) /\ (th[t].pss => th'[t].pss)
             /\ (Suspended(t) => Suspended(t)')
  <2>1. k[t] \in KernelThread
    BY <1>1 DEF Kernels
  <2> QED
    BY <1>1, <2>1 DEF SameKernel, SameMarks, Suspended, Kernels, KernelThread
<1> QED
  BY <1>1, <1>2, <1>3, SentSteady

LEMMA InterruptRunningThreadSteady ==
  ASSUME IInv, Steady, InterruptRunningThread
  PROVE  Steady'
<1>1. /\ stack' = stack /\ ret' = ret /\ rearms' = rearms /\ bpVars' = bpVars
      /\ stepReq' = FALSE /\ hits' = hits /\ th \in Records /\ k \in Kernels
  BY DEF InterruptRunningThread, historyVars, IInv, Threads, Records, Kernels, Steady,
         Position, Unasked, Flags
<1>2. \E u \in Tid : /\ k' = k \/ k' = WithSigstop(k, u, TRUE)
                     /\ th' = th \/ th' = [th EXCEPT ![u].pss = TRUE]
  BY LeaderAssumption DEF InterruptRunningThread, Interrupt, Interruptible, WithSigstop
<1>3. ASSUME NEW t \in Tid
      PROVE  /\ SameKernel(t) /\ SameMarks(t) /\ (k[t].stopq => k'[t].stopq)
             /\ (k'[t].due <=> k[t].due) /\ (th[t].pss => th'[t].pss)
             /\ (Suspended(t) => Suspended(t)')
  BY <1>1, <1>2, SigstopSame, BooksBy DEF Books
<1> QED
  BY <1>1, <1>3, SentSteady

LEMMA SuspendSteady ==
  ASSUME IInv, Steady, NEW u \in Tid, Suspend(u)
  PROVE  Steady'
<1>1. /\ stack' = stack /\ ret' = ret /\ rearms' = rearms /\ bpVars' = bpVars
      /\ stepReq' = FALSE /\ hits' = hits /\ th \in Records /\ k \in Kernels
  BY DEF Suspend, historyVars, IInv, Threads, Records, Kernels, Steady, Position, Unasked,
         Flags
<1>2. /\ k' = k \/ k' = WithSigstop(k, u, TRUE)
      /\ \/ th' = [th EXCEPT ![u].susp = @ + 1, ![u].pss = TRUE]
         \/ th' = [th EXCEPT ![u].susp = @ + 1]
  BY DEF Suspend, WithSigstop
<1>3. ASSUME NEW t \in Tid
      PROVE  /\ SameKernel(t) /\ SameMarks(t) /\ (k[t].stopq => k'[t].stopq)
             /\ (k'[t].due <=> k[t].due) /\ (th[t].pss => th'[t].pss)
             /\ (Suspended(t) => Suspended(t)')
  <2>1. /\ SameKernel(t) /\ (k[t].stopq => k'[t].stopq) /\ (k'[t].due <=> k[t].due)
    BY <1>1, <1>2, SigstopSame
  <2>2. th[t] \in ThreadRecords
    BY <1>1 DEF Records
  <2>3. CASE th' = [th EXCEPT ![u].susp = @ + 1, ![u].pss = TRUE]
    BY <1>1, <2>1, <2>2, <2>3 DEF SameMarks, Suspended, Records, ThreadRecords
  <2>4. CASE th' = [th EXCEPT ![u].susp = @ + 1]
    BY <1>1, <2>1, <2>2, <2>4 DEF SameMarks, Suspended, Records, ThreadRecords
  <2> QED
    BY <1>2, <2>3, <2>4
<1> QED
  BY <1>1, <1>3, SentSteady

LEMMA ResumeSteady ==
  ASSUME IInv, CurInv, Steady, NEW u \in Tid, Resume(u)
  PROVE  Steady'
<1>1. /\ stack' = stack /\ ret' = ret /\ rearms' = rearms /\ bpVars' = bpVars
      /\ stepReq' = FALSE /\ hits' = hits /\ th \in Records /\ k \in Kernels
      /\ Top.at = "wait" \/ "resumeRunning" \in Calls
  BY DEF Resume, historyVars, IInv, Threads, Records, Kernels, Steady, Position, Unasked,
         Flags, CurInv, PausedAtWait, At
<1> DEFINE ths == [th EXCEPT ![u].susp = @ - 1]
<1>2. \E w \in Tid : /\ k' = k \/ k' = WithSigstop(k, w, TRUE)
                     /\ th' = ths \/ th' = [ths EXCEPT ![w].pss = TRUE]
  BY DEF Resume, WithSigstop, Interruptible
<1>3. ASSUME NEW t \in Tid
      PROVE  /\ SameKernel(t) /\ SameMarks(t) /\ (k[t].stopq => k'[t].stopq)
             /\ (k'[t].due <=> k[t].due) /\ (th[t].pss => th'[t].pss)
  <2>1. /\ SameKernel(t) /\ (k[t].stopq => k'[t].stopq) /\ (k'[t].due <=> k[t].due)
    BY <1>1, <1>2, SigstopSame
  <2>2. PICK w \in Tid : th' = ths \/ th' = [ths EXCEPT ![w].pss = TRUE]
    BY <1>2
  <2>3. th[t] \in ThreadRecords
    BY <1>1 DEF Records
  <2>4. CASE th' = ths
    BY <1>1, <2>1, <2>3, <2>4 DEF SameMarks, Records, ThreadRecords
  <2>5. CASE th' = [ths EXCEPT ![w].pss = TRUE]
    BY <1>1, <2>1, <2>3, <2>5 DEF SameMarks, Records, ThreadRecords
  <2> QED
    BY <2>2, <2>4, <2>5
<1> QED
  BY <1>1, <1>3, SentSteady

\* Nothing the model of this section looks at changes.
LEMMA UntouchedSteady ==
  ASSUME IInv, Steady, k' = k, th' = th, stack' = stack, ret' = ret, bpVars' = bpVars,
         rearms' = rearms, stepReq' = FALSE, hits' = hits
  PROVE  Steady'
BY SentSteady DEF SameKernel, SameMarks, Suspended

LEMMA SetBreakpointSteady ==
  ASSUME IInv, Steady, NEW a \in Addr, SetBreakpoint(a)
  PROVE  Steady'
<1>1. /\ k' = k /\ th' = th /\ stack' = stack /\ ret' = ret /\ rearms' = rearms
      /\ stepReq' = stepReq /\ hits' = hits /\ Top.at = "wait"
      /\ recs' = recs \cup {a} /\ armed' = armed \cup {a}
  BY DEF SetBreakpoint, kernelVars, tracerVars, userVars, historyVars, At
<1>2. Top' = Top
  BY <1>1 DEF Top
<1>3. PlacedAll'
  BY <1>1, <1>2, PlacedSame, SameTopStays DEF Steady, PlacedAll, SameKernel, SameMarks
<1>4. ReportedFirst' /\ Position'
  BY <1>1, <1>2, PositionFree
     DEF Steady, ReportedFirst, SweepPoints, Position, Unasked, PlacePoints
<1>5. Whole'
  BY <1>1 DEF Steady, Whole, LiftedFor, SwallowPoints
<1> QED
  BY <1>3, <1>4, <1>5 DEF Steady

\* Deleting a breakpoint asks for all threads to have stopped.
LEMMA DeleteBreakpointSteady ==
  ASSUME Restricted, IInv, Accounted, Ready, Steady, NEW a \in Addr, DeleteBreakpoint(a)
  PROVE  Steady'
<1>1. /\ k' = k /\ th' = th /\ stack' = stack /\ ret' = ret /\ rearms' = rearms
      /\ stepReq' = stepReq /\ Top.at = "wait" /\ "delete" \in Calls
      /\ recs' = recs \ {a} /\ armed' = armed \ {a}
  BY DEF DeleteBreakpoint, kernelVars, tracerVars, userVars, historyVars, At
<1>2. Top' = Top
  BY <1>1 DEF Top
<1>3. ASSUME NEW t \in Tid
      PROVE  Placed(t)'
  <2>1. Placed(t) /\ SameTop(t)
    BY <1>2, SameTopStays DEF Steady, PlacedAll
  <2>2. ~Hit(t)
    <3>1. ~Trapped(t)
      BY <1>1 DEF Trapped
    <3>2. CASE k[t].status = "int3"
      <4>1. k[t].run = "stopped" /\ ~k[t].dying
        <5>1. k[t].at # NoAddr
          BY <2>1, <3>2 DEF Placed, Behind, Hit, IInv, Bytes
        <5> QED
          BY <2>1, <3>2, <5>1 DEF Placed, Ends, IInv, Threads, StatusOf
      <4>2. Living(t) /\ ~th[t].running /\ ~Excused(t)
        BY <1>1, <4>1 DEF Living, Excused, Ready, Quiet, AnyRunning
      <4>3. th[t].known
        BY <3>2, <4>1 DEF Accounted, Unmet
      <4> QED
        BY <3>2, <4>2, <4>3 DEF Accounted, Stand, InPtraceStop
    <3> QED
      BY <3>1, <3>2 DEF Hit
  <2> QED
    BY <1>1, <2>1, <2>2
       DEF SameTop, Placed, Behind, Hit, AtByte, InPtraceStop, Ends, Unstepped, Fresh, Noted,
           Waits
<1>4. ReportedFirst' /\ Position'
  BY <1>1, <1>2, PositionFree
     DEF Steady, ReportedFirst, SweepPoints, Position, Unasked, PlacePoints
<1>5. Whole'
  BY <1>1 DEF Steady, Whole, LiftedFor, SwallowPoints
<1> QED
  BY <1>3, <1>4, <1>5 DEF Steady, PlacedAll

\* The user does not step; where breakpoints are deleted a pause is an all-stop.
NoSteps == "step" \notin Calls
Deletes == "delete" \in Calls => Restricted /\ Accounted /\ Ready

LEMMA UserSteady ==
  ASSUME NoSteps, Deletes, IInv, CurInv, Steady, User
  PROVE  Steady'
<1>1. CASE Continue \/ StepInto \/ Pause \/ InterruptRunningThread
  <2>1. CASE Continue
    <3>1. /\ k' = k /\ th' = th /\ stack' = stack /\ ret' = ret /\ bpVars' = bpVars
          /\ rearms' = rearms /\ stepReq' = FALSE /\ hits' = hits
      BY <2>1 DEF Continue, kernelVars, tracerVars, historyVars
    <3> QED
      BY <3>1, UntouchedSteady
  <2>2. CASE Pause
    <3>1. /\ k' = k /\ th' = th /\ stack' = stack /\ ret' = ret /\ bpVars' = bpVars
          /\ rearms' = rearms /\ stepReq' = FALSE /\ hits' = hits
      BY <2>2 DEF Pause, kernelVars, tracerVars, historyVars, Steady, Position, Unasked,
                  IInv, Flags
    <3> QED
      BY <3>1, UntouchedSteady
  <2> QED
    BY <1>1, <2>1, <2>2, InterruptRunningThreadSteady DEF StepInto, NoSteps
<1>2. ASSUME NEW t \in Tid, SwitchThread(t)
      PROVE  Steady'
  <2>1. /\ k' = k /\ th' = th /\ stack' = stack /\ ret' = ret /\ bpVars' = bpVars
        /\ rearms' = rearms /\ stepReq' = FALSE /\ hits' = hits
    BY <1>2 DEF SwitchThread, kernelVars, userVars, historyVars, Steady, Position, Unasked,
                IInv, Flags
  <2> QED
    BY <2>1, UntouchedSteady
<1>3. ASSUME NEW a \in Addr, DeleteBreakpoint(a)
      PROVE  Steady'
  <2>1. "delete" \in Calls
    BY <1>3 DEF DeleteBreakpoint
  <2> QED
    BY <1>3, <2>1, DeleteBreakpointSteady DEF Deletes
<1> QED
  BY <1>1, <1>2, <1>3, SuspendSteady, ResumeSteady, SetBreakpointSteady DEF User

-----------------------------------------------------------------------------
(* ... and the tracer                                                      *)

\* An element put in front of a sequence.
LEMMA HeadIs ==
  ASSUME NEW S, NEW s \in Seq(S), NEW x
  PROVE  Head(<<x>> \o s) = x /\ Tail(<<x>> \o s) = s
<1> DEFINE U == S \cup {x}
           z == <<x>> \o s
<1>1. s \in Seq(U) /\ <<x>> \in Seq(U) /\ Len(<<x>>) = 1 /\ <<x>>[1] = x
  OBVIOUS
<1> HIDE DEF U
<1>2. /\ z \in Seq(U) /\ Len(z) = Len(s) + 1 /\ Len(s) \in Nat
      /\ z[1] = x /\ \A i \in 1 .. Len(s) : z[i + 1] = s[i]
  BY <1>1, ConcatProperties
<1> HIDE DEF z
<1>3. z # <<>>
  BY <1>2, EmptySeq
<1>4. /\ Head(z) = z[1] /\ Tail(z) \in Seq(U) /\ Len(Tail(z)) = Len(z) - 1
      /\ \A i \in 1 .. Len(Tail(z)) : Tail(z)[i] = z[i + 1]
  BY <1>2, <1>3, HeadTailProperties
<1>5. Tail(z) = s
  BY <1>1, <1>2, <1>4, SeqEqual
<1> QED
  BY <1>2, <1>4, <1>5 DEF z

\* What is on top after an activation has gone on, called another one, or ended.
LEMMA NowTop ==
  ASSUME IInv, NEW f
  PROVE  /\ stack' = <<f>> \o Tail(stack) => Top' = f /\ Below' = Below
         /\ \A g : stack' = <<f, g>> \o Tail(stack) => Top' = f /\ Below' = g
         /\ stack' = Tail(stack) => Top' = Below
<1>1. Tail(stack) \in Seq(Activations)
  BY HeadTailProperties DEF IInv, Frames, Shape
<1>2. ASSUME NEW g, stack' = <<f, g>> \o Tail(stack)
      PROVE  Top' = f /\ Below' = g
  <2> DEFINE s == <<g>> \o Tail(stack)
             U == Activations \cup {f, g}
  <2>1. Tail(stack) \in Seq(U) /\ <<f>> \in Seq(U) /\ <<g>> \in Seq(U)
    BY <1>1
  <2>2. s \in Seq(U) /\ <<f, g>> = <<f>> \o <<g>>
    BY <2>1
  <2>3. stack' = <<f>> \o s
    <3> HIDE DEF U
    <3> QED
      BY <1>2, <2>1, <2>2, ConcatAssociative
  <2>4. Head(s) = g
    BY <1>1, HeadIs
  <2> HIDE DEF s, U
  <2> QED
    BY <2>2, <2>3, <2>4, HeadIs DEF Top, Below
<1> QED
  BY <1>1, <1>2, HeadIs DEF Top, Below

\* Records that differ in the signals that are kept only.
AlikeMarks(f, g) ==
  \A t \in Tid : /\ f[t].known <=> g[t].known
                 /\ f[t].running <=> g[t].running
                 /\ f[t].atBp <=> g[t].atBp
                 /\ f[t].stepping <=> g[t].stepping
                 /\ f[t].pss <=> g[t].pss
                 /\ f[t].pbp = g[t].pbp /\ f[t].susp = g[t].susp
LEMMA MarksKept ==
  ASSUME NEW ths \in Records, NEW u, NEW sig, NEW how
  PROVE  /\ AlikeMarks(Keep(ths, u, sig, how), ths)
         /\ AlikeMarks([ths EXCEPT ![u].psig = how], ths)
         /\ ~ths[u].stepping => AlikeMarks(ClearSingleStep(ths, u), ths)
<1>1. \A t \in Tid : ths[t] \in ThreadRecords
  BY DEF Records
<1>2. AlikeMarks([ths EXCEPT ![u].psig = how], ths) /\ AlikeMarks(ths, ths)
  BY <1>1 DEF AlikeMarks, Records, ThreadRecords
<1>3. ~ths[u].stepping => AlikeMarks(ClearSingleStep(ths, u), ths)
  BY <1>1 DEF AlikeMarks, ClearSingleStep, Records, ThreadRecords
<1> QED
  BY <1>2, <1>3 DEF Keep

LEMMA MarksTrans ==
  ASSUME NEW f, NEW g, NEW h, AlikeMarks(f, g), AlikeMarks(g, h)
  PROVE  AlikeMarks(f, h)
BY DEF AlikeMarks

LEMMA MarksSame ==
  ASSUME AlikeMarks(th', th)
  PROVE  \A t \in Tid : SameMarks(t) /\ (Suspended(t)' <=> Suspended(t))
BY DEF AlikeMarks, SameMarks, Suspended

\* A step that ends in none of the places at which something is known of a thread.
Unaffected(t) == SameKernel(t) /\ SameMarks(t) /\ SameTop(t) /\ (t \in hits' => t \in hits)
LEMMA ElseSteady ==
  ASSUME IInv, Steady, \A t \in Tid : Unaffected(t) \/ Placed(t)',
         recs' = recs, armed \subseteq armed', \A t \in Tid : rearms'[t] \in {rearms[t], NoAddr},
         stepReq' = stepReq, Top.at \notin LiftPoints, Top'.at \notin PlacePoints,
         ReportedFirst'
  PROVE  Steady'
<1>1. PlacedAll'
  BY PlacedSame DEF Steady, PlacedAll, Unaffected
<1>2. ~stepReq'
  BY DEF Steady, Position, Unasked
<1> QED
  BY <1>1, <1>2, PositionFree, WholeStays DEF Steady

\* The tracer goes on, and does nothing to the threads but keep a signal.
LEMMA PlainSteady ==
  ASSUME IInv, Steady, k' = k, AlikeMarks(th', th), recs' = recs,
         armed \subseteq armed', \A t \in Tid : rearms'[t] \in {rearms[t], NoAddr},
         stepReq' = stepReq, hits' = hits,
         Top.at \notin LiftPoints \cup ThreadPoints, Top'.at \notin PlacePoints,
         Top'.at = "sweep" => Top'.why # "breakpoint",
         Top.at \in SweepPoints => Top'.at \in SweepPoints
  PROVE  Steady'
<1>1. Top'.at \notin ThreadPoints \/ (Top'.at = "sweep" /\ Top'.why # "breakpoint")
  BY DEF ThreadPoints, PlacePoints
<1>2. \A t \in Tid : Unaffected(t)
  BY <1>1, SameTopSweeps, MarksSame DEF Unaffected, SameKernel
<1>3. ReportedFirst'
  <2>1. Top'.at \notin {"stepPast", "swallow"}
    BY DEF PlacePoints
  <2> QED
    BY <2>1, MarksSame, ReportedStays DEF Steady, SameMarks
<1> QED
  BY <1>2, <1>3, ElseSteady

\* The byte lifted for a thread comes back.
LEMMA RestoreWhole ==
  ASSUME IInv, NEW t \in Tid, RestoreSourceByte(t)
  PROVE  armed \subseteq armed' /\ \A u \in Tid : rearms'[u] \in {rearms[u], NoAddr}
BY DEF RestoreSourceByte, Rearmed, IInv, Bytes

LEMMA StopForSuspendSteady ==
  ASSUME IInv, CurInv, Steady, StopForSuspend
  PROVE  Steady'
<1> DEFINE f == [Top EXCEPT !.at = "stopForResumes",
                            !.resumed = Top.tid \in pendSuspend /\ ~Suspended(Top.tid)]
<1>1. /\ Top.at = "stop" /\ k' = k /\ th' = th /\ recs' = recs /\ armed' = armed
      /\ rearms' = rearms /\ stepReq' = stepReq /\ hits' = hits
      /\ Return \/ Become(Frame("wait", Top.tid)) \/ Become(f)
  BY DEF StopForSuspend, At, kernelVars, bpVars, historyVars, PauseIfAlone, BeginPause
<1>2. Top \in Activations
  BY TopIs
<1>3. Top'.at \in {"wait", "stopForResumes"} \/ Top'.at \notin PlacePoints \cup ThreadPoints
  <2>1. CASE Return
    BY <1>1, <2>1, NowTop, ReturnsTo DEF Return, SwallowPoints
  <2>2. CASE Become(Frame("wait", Top.tid))
    BY <2>2, NowTop DEF Become, Frame
  <2>3. CASE Become(f)
    <3>1. f.at = "stopForResumes"
      BY <1>2 DEF Activations
    <3> HIDE DEF f
    <3> QED
      BY <2>3, <3>1, NowTop DEF Become
  <2> QED
    BY <1>1, <2>1, <2>2, <2>3
<1>4. AlikeMarks(th', th)
  BY <1>1 DEF AlikeMarks
<1> QED
  BY <1>1, <1>3, <1>4, PlainSteady DEF LiftPoints, ThreadPoints, PlacePoints, SweepPoints

LEMMA StopForResumesSteady ==
  ASSUME IInv, CurInv, Steady, StopForResumes
  PROVE  Steady'
<1> DEFINE f == [Top EXCEPT !.at = "stopForPause"]
<1>1. /\ Top.at = "stopForResumes" /\ k' = k /\ th' = th /\ recs' = recs /\ armed' = armed
      /\ rearms' = rearms /\ stepReq' = stepReq /\ hits' = hits
      /\ \/ Become(StopAll(Top.tid, "resume")) \/ Become(Frame("takeResumes", Top.tid))
         \/ Become(f)
  BY DEF StopForResumes, At, kernelVars, bpVars, historyVars
<1>2. Top \in Activations
  BY TopIs
<1>3. \/ Top'.at \in {"takeResumes", "stopForPause"}
      \/ Top'.at = "sweep" /\ Top'.why = "resume"
  <2>1. CASE Become(StopAll(Top.tid, "resume"))
    BY <2>1, NowTop DEF Become, StopAll, Frame
  <2>2. CASE Become(Frame("takeResumes", Top.tid))
    BY <2>2, NowTop DEF Become, Frame
  <2>3. CASE Become(f)
    <3>1. f.at = "stopForPause"
      BY <1>2 DEF Activations
    <3> HIDE DEF f
    <3> QED
      BY <2>3, <3>1, NowTop DEF Become
  <2> QED
    BY <1>1, <2>1, <2>2, <2>3
<1>4. AlikeMarks(th', th)
  BY <1>1 DEF AlikeMarks
<1> QED
  BY <1>1, <1>3, <1>4, PlainSteady DEF LiftPoints, ThreadPoints, PlacePoints, SweepPoints

\* Nobody is stepped but over a byte.
LEMMA TopUnstepped ==
  ASSUME IInv, Steady, Top.at # "stepWait"
  PROVE  ~th[Top.tid].stepping
BY TopIs DEF Steady, PlacedAll, Placed, Unstepped, StepsOver

LEMMA StopForPauseSteady ==
  ASSUME IInv, CurInv, Steady, StopForPause
  PROVE  Steady'
<1>1. /\ Top.at = "stopForPause" /\ recs' = recs /\ stepReq' = stepReq /\ hits' = hits
      /\ ~th[Top.tid].stepping /\ Top.tid \in Tid /\ th \in Records
  BY TopUnstepped, TopIs DEF StopForPause, At, historyVars, IInv, Threads, Records
<1>2. CASE /\ th' = ClearSingleStep(th, Top.tid)
           /\ RestoreSourceByte(Top.tid)
           /\ Become(StopAll(Top.tid, "paused"))
           /\ UNCHANGED k
  <2>1. Top'.at = "sweep" /\ Top'.why = "paused"
    BY <1>2, NowTop DEF Become, StopAll, Frame
  <2>2. AlikeMarks(th', th)
    BY <1>1, <1>2, MarksKept
  <2> QED
    BY <1>1, <1>2, <2>1, <2>2, RestoreWhole, PlainSteady
       DEF LiftPoints, ThreadPoints, PlacePoints, SweepPoints
<1>3. CASE /\ Become(ContinueOrPark(Top.tid, FALSE, FALSE)) \/ Return
           /\ UNCHANGED <<k, th, armed, rearms, pauseReq>>
  <2>1. Top'.at = "continueOrPark" \/ Top'.at \notin PlacePoints \cup ThreadPoints
    <3>1. CASE Return
      BY <1>1, <3>1, NowTop, ReturnsTo DEF Return, SwallowPoints
    <3>2. CASE Become(ContinueOrPark(Top.tid, FALSE, FALSE))
      <4> DEFINE f == ContinueOrPark(Top.tid, FALSE, FALSE)
      <4>1. f.at = "continueOrPark"
        BY <1>1, KindsOfFrame
      <4> HIDE DEF f
      <4> QED
        BY <3>2, <4>1, NowTop DEF Become, f
    <3> QED
      BY <1>3, <3>1, <3>2
  <2>2. AlikeMarks(th', th)
    BY <1>3 DEF AlikeMarks
  <2> QED
    BY <1>1, <1>3, <2>1, <2>2, PlainSteady
       DEF LiftPoints, ThreadPoints, PlacePoints, SweepPoints
<1> QED
  BY <1>1, <1>2, <1>3 DEF StopForPause

LEMMA ReportSignalSteady ==
  ASSUME IInv, CurInv, Steady, ReportSignal
  PROVE  Steady'
<1>1. /\ Top.at = "sig" /\ recs' = recs /\ stepReq' = stepReq /\ hits' = hits /\ k' = k
      /\ ~th[Top.tid].stepping /\ Top.tid \in Tid /\ th \in Records
      /\ th' = ClearSingleStep(th, Top.tid)
      /\ RestoreSourceByte(Top.tid)
      /\ Become(StopAll(Top.tid, "exception"))
  BY TopUnstepped, TopIs
     DEF ReportSignal, At, historyVars, kernelVars, userVars, IInv, Threads, Records
<1>2. Top'.at = "sweep" /\ Top'.why = "exception"
  BY <1>1, NowTop DEF Become, StopAll, Frame
<1>3. AlikeMarks(th', th)
  BY <1>1, MarksKept
<1> QED
  BY <1>1, <1>2, <1>3, RestoreWhole, PlainSteady
     DEF LiftPoints, ThreadPoints, PlacePoints, SweepPoints

-----------------------------------------------------------------------------
(* ... a stop that is taken                                                *)

\* The handler of a stop begins.
LEMMA HandledSteady ==
  ASSUME IInv, Steady, NEW t \in Tid, k[t].status \notin {"none", "exited"},
         NEW ths \in Records, NEW below \in Seq(Activations), HandleSignal(t, ths, below),
         \A u \in Tid \ {t} : ths[u] = th[u],
         ~ths[t].stepping, ths[t].atBp <=> th[t].atBp,
         ths[t].pbp = th[t].pbp, ths[t].susp = th[t].susp,
         Top.at = "loop" \/ (Top.at = "stepWait" /\ Top.tid = t),
         recs' = recs, stepReq' = stepReq, hits' = hits, Whole'
  PROVE  Steady'
<1> DEFINE f == [Frame(HandlerOf(k[t].status), t)
                   EXCEPT !.why = k[t].status, !.ran = th[t].running, !.susp = Suspended(t)]
<1>1. /\ Top' = f /\ f.at = HandlerOf(k[t].status) /\ f.tid = t /\ f.why = k[t].status
  <2>1. f.at = HandlerOf(k[t].status) /\ f.tid = t /\ f.why = k[t].status
    BY DEF Frame
  <2>2. stack' = <<f>> \o below
    BY DEF HandleSignal, HandlerOf
  <2> HIDE DEF f
  <2> QED
    BY <2>1, <2>2, HeadIs DEF Top
<1> HIDE DEF f
<1>2. /\ k[t].run = "stopped" /\ k \in Kernels /\ th \in Records
      /\ k[t] \in KernelThread /\ th[t] \in ThreadRecords
  BY DEF IInv, Threads, StatusOf, Kernels, Records
<1>3. /\ \A u \in Tid \ {t} : k'[u] = k[u]
      /\ k'[t].run = "stopped" /\ k'[t].status = "none" /\ k'[t].at = k[t].at
      /\ k'[t].past <=> k[t].past
      /\ k'[t].dying <=> k[t].dying
  BY <1>2 DEF HandleSignal, Kernels, KernelThread
<1>4. /\ \A u \in Tid \ {t} : th'[u] = th[u]
      /\ th'[t].known /\ ~th'[t].running /\ ~th'[t].stepping
      /\ th'[t].atBp <=> th[t].atBp
      /\ th'[t].pbp = th[t].pbp /\ th'[t].susp = th[t].susp
  BY DEF HandleSignal, Records, ThreadRecords
<1>5. Placed(t) /\ ~Trapped(t) /\ ~Reporting(t)
  BY DEF Steady, PlacedAll, Trapped, Reporting
<1>6. Placed(t)'
  <2>1. Trapped(t)' <=> k[t].status = "int3"
    BY <1>1 DEF Trapped, HandlerOf
  <2>2. InPtraceStop(t)'
    BY <1>3 DEF InPtraceStop
  <2>3. ~InPtraceStop(t)
    BY DEF InPtraceStop
  <2>4. Behind(t)' /\ AtByte(t)' /\ Ends(t)'
    BY <1>3, <1>4, <1>5, <2>1, <2>2 DEF Placed, Behind, Hit, AtByte, Ends
  <2>5. Unstepped(t)' /\ Fresh(t)' /\ Noted(t)' /\ Waits(t)'
    BY <1>3, <1>4, <1>5, <2>1, <2>3 DEF Placed, Unstepped, Fresh, Noted, Counted, Waits
  <2> QED
    BY <2>4, <2>5 DEF Placed
<1>7. PlacedAll'
  <2>1. ASSUME NEW u \in Tid, u # t
        PROVE  Placed(u)'
    <3>1. SameTop(u)
      BY <1>1, <2>1, SameTopAway DEF ThreadPoints
    <3> QED
      BY <1>3, <1>4, <2>1, <3>1, PlacedSame DEF Steady, PlacedAll, SameKernel, SameMarks
  <2> QED
    BY <1>6, <2>1 DEF PlacedAll
<1>8. ReportedFirst'
  <2>1. \A u \in Tid : th'[u].pbp = th[u].pbp /\ th'[u].susp = th[u].susp
    BY <1>4
  <2>2. Top'.at \notin {"stepPast", "swallow"}
    BY <1>1 DEF HandlerOf
  <2> QED
    BY <2>1, <2>2, ReportedStays DEF Steady, Suspended, SweepPoints
<1>9. Position'
  <2>1. Leaving'
    BY <1>1, <1>3, <1>5 DEF Leaving, HandlerOf, Placed, Ends
  <2>2. Caught'
    BY <1>1, <1>3, <1>4 DEF Caught, Stopping, InPtraceStop
  <2>3. Top'.at \in {"stop", "sig", "clone", "exit", "trap"}
    BY <1>1 DEF HandlerOf
  <2>4. ~stepReq'
    BY DEF Steady, Position, Unasked
  <2> QED
    BY <2>1, <2>2, <2>3, <2>4
       DEF Position, Awaited, Unasked, ToLift, ToDrain, Drained, Lifted, Stepped
<1> QED
  BY <1>7, <1>8, <1>9 DEF Steady

LEMMA WaitAnySteady ==
  ASSUME IInv, CurInv, Steady, NEW t \in Tid, WaitAny(t)
  PROVE  Steady'
<1>1. /\ Top.at = "loop" /\ k[t].status \notin {"none", "exited"}
      /\ HandleSignal(t, th, stack) /\ recs' = recs /\ armed' = armed /\ rearms' = rearms
      /\ stepReq' = stepReq /\ hits' = hits /\ th \in Records /\ stack \in Seq(Activations)
  BY DEF WaitAny, At, bpVars, userVars, IInv, Threads, Records, Frames, Shape
<1>2. ~th[t].stepping
  BY <1>1 DEF Steady, PlacedAll, Placed, Unstepped, StepsOver
<1>3. Whole'
  BY <1>1, WholeStays DEF Steady, LiftPoints
<1> QED
  BY <1>1, <1>2, <1>3, HandledSteady

\* A thread ends, and nothing is left of it.
LEMMA ExitedPlaced ==
  ASSUME IInv, Steady, NEW t \in Tid, k[t].status = "exited", ExitThreadEvent(t),
         recs' = recs, Top'.at # "trap"
  PROVE  /\ Placed(t)'
         /\ \A u \in Tid \ {t} : SameKernel(u) /\ SameMarks(u)
                                 /\ (Suspended(u)' <=> Suspended(u))
         /\ th'[t].pbp = NoAddr /\ hits' \subseteq hits
         /\ armed \subseteq armed' /\ \A u \in Tid : rearms'[u] \in {rearms[u], NoAddr}
<1>1. /\ k \in Kernels /\ th \in Records /\ k[t] \in KernelThread /\ th[t] \in ThreadRecords
      /\ k[t].run = "dead"
  BY DEF IInv, Threads, StatusOf, Kernels, Records
<1>2. /\ \A u \in Tid \ {t} : k'[u] = k[u] /\ th'[u] = th[u]
      /\ k'[t].run = "dead" /\ k'[t].status = "none" /\ k'[t].at = k[t].at
      /\ k'[t].past <=> k[t].past
      /\ k'[t].dying <=> k[t].dying
      /\ th'[t] = NoThread /\ hits' = hits \ {t}
  BY <1>1 DEF ExitThreadEvent, Kernels, KernelThread, Records
<1>3. ~th'[t].atBp /\ ~th'[t].stepping /\ th'[t].pbp = NoAddr
  BY <1>2 DEF NoThread
<1>4. armed \subseteq armed' /\ \A u \in Tid : rearms'[u] \in {rearms[u], NoAddr}
  BY RestoreWhole DEF ExitThreadEvent
<1>5. Placed(t) /\ ~Trapped(t)
  BY <1>1 DEF Steady, PlacedAll, Position, Caught, Stopping, InPtraceStop, Trapped
<1>6. ~Trapped(t)'
  BY DEF Trapped
<1>7. Placed(t)'
  <2>1. k[t].dying
    BY <1>1, <1>5 DEF Placed, Ends
  <2>2. Behind(t)' /\ AtByte(t)' /\ Ends(t)'
    BY <1>2, <1>3, <1>5, <1>6, <2>1 DEF Placed, Behind, Hit, AtByte, Ends
  <2>3. t \notin hits'
    BY <1>2
  <2>4. Unstepped(t)' /\ Fresh(t)' /\ Noted(t)' /\ Waits(t)'
    BY <1>3, <2>3 DEF Unstepped, Fresh, Noted, Counted, Waits
  <2> QED
    BY <2>2, <2>4 DEF Placed
<1> QED
  BY <1>2, <1>3, <1>4, <1>7 DEF SameKernel, SameMarks, Suspended

LEMMA ReapSteady ==
  ASSUME IInv, CurInv, Steady, NEW t \in Tid, Reap(t)
  PROVE  Steady'
<1>1. /\ Top.at = "loop" /\ k[t].status = "exited" /\ ExitThreadEvent(t) /\ recs' = recs
      /\ stepReq' = stepReq /\ stack' = stack
  BY DEF Reap, At
<1>2. Top' = Top
  BY <1>1 DEF Top
<1>3. /\ Placed(t)'
      /\ \A u \in Tid \ {t} : SameKernel(u) /\ SameMarks(u) /\ (Suspended(u)' <=> Suspended(u))
      /\ th'[t].pbp = NoAddr /\ hits' \subseteq hits
      /\ armed \subseteq armed' /\ \A u \in Tid : rearms'[u] \in {rearms[u], NoAddr}
  BY <1>1, <1>2, ExitedPlaced
<1>4. \A u \in Tid : Unaffected(u) \/ Placed(u)'
  BY <1>2, <1>3, SameTopStays DEF Unaffected
<1>5. ReportedFirst'
  BY <1>1, <1>2, <1>3, ReportedStays DEF Steady, SameMarks, SweepPoints
<1> QED
  BY <1>1, <1>2, <1>3, <1>4, <1>5, ElseSteady DEF LiftPoints, PlacePoints

-----------------------------------------------------------------------------
(* ... the handlers                                                        *)

LEMMA HandleSigtrapSteady ==
  ASSUME IInv, CurInv, Steady, HandleSigtrap
  PROVE  Steady'
<1> PICK t \in Tid : t = Top.tid
  BY TopIs
<1>1. /\ Top.at = "trap" /\ t \in Tid /\ recs' = recs /\ stepReq' = stepReq /\ hits' = hits
      /\ ~th[t].stepping /\ Placed(t)
  BY TopIs, TopUnstepped DEF HandleSigtrap, At, userVars, Steady, PlacedAll
<1>2. /\ InPtraceStop(t) /\ ~th[t].running /\ th[t].known
      /\ k \in Kernels /\ th \in Records /\ k[t] \in KernelThread /\ th[t] \in ThreadRecords
  BY <1>1 DEF Steady, Position, Caught, Stopping, IInv, Threads, Kernels, Records
<1>3. /\ Top.why = "int3" <=> Trapped(t)
      /\ k[t].past <=> Trapped(t)
      /\ Trapped(t) => k[t].at \in recs
  BY <1>1, <1>2 DEF Trapped, Placed, Behind, Hit, InPtraceStop
<1>4. CASE /\ k' = [k EXCEPT ![t].past = FALSE]
           /\ th' = [th EXCEPT ![t].atBp = TRUE]
           /\ Become(StopAll(t, "breakpoint"))
           /\ RestoreSourceByte(t)
  <2>1. Top'.at = "sweep" /\ Top'.tid = t /\ Top'.why = "breakpoint"
    BY <1>4, NowTop DEF Become, StopAll, Frame
  <2>2. /\ \A u \in Tid \ {t} : k'[u] = k[u] /\ th'[u] = th[u]
        /\ k'[t].run = k[t].run /\ k'[t].status = k[t].status /\ k'[t].at = k[t].at
        /\ ~k'[t].past
        /\ k'[t].dying <=> k[t].dying
        /\ th'[t].known /\ ~th'[t].running /\ ~th'[t].stepping
        /\ th'[t].pbp = th[t].pbp /\ th'[t].susp = th[t].susp
    BY <1>1, <1>2, <1>4 DEF Kernels, KernelThread, Records, ThreadRecords
  <2>3. Placed(t)'
    <3>1. /\ ~Trapped(t)' /\ Reporting(t)' /\ InPtraceStop(t)'
          /\ k'[t].status = "none"
      BY <1>2, <2>1, <2>2 DEF Trapped, Reporting, InPtraceStop
    <3>2. Behind(t)' /\ AtByte(t)' /\ Ends(t)'
      BY <1>1, <1>2, <2>2, <3>1 DEF Placed, Behind, Hit, AtByte, Ends
    <3>3. Unstepped(t)' /\ Fresh(t)' /\ Noted(t)' /\ Waits(t)'
      BY <1>1, <1>2, <2>2, <3>1 DEF Placed, Unstepped, Fresh, Noted, Counted, Waits
    <3> QED
      BY <3>2, <3>3 DEF Placed
  <2>4. ASSUME NEW u \in Tid, u # t
        PROVE  Unaffected(u)
    <3>1. SameTop(u)
      BY <2>1, <2>4, SameTopAway
    <3> QED
      BY <1>1, <2>2, <2>4, <3>1 DEF Unaffected, SameKernel, SameMarks
  <2>5. ReportedFirst'
    <3>1. \A u \in Tid : th'[u].pbp = th[u].pbp /\ th'[u].susp = th[u].susp
      BY <2>2
    <3> QED
      BY <1>1, <2>1, <3>1, ReportedStays DEF Steady, Suspended, SweepPoints
  <2> QED
    BY <1>1, <1>4, <2>1, <2>3, <2>4, <2>5, RestoreWhole, ElseSteady DEF LiftPoints, PlacePoints
<1>5. CASE /\ ~(k[t].at \in recs /\ k[t].past)
           /\ RestoreSourceByte(t)
           /\ Top.why # "int3" => Become(ContinueOrPark(t, FALSE, FALSE))
           /\ UNCHANGED <<k, th>>
  <2>1. ~Trapped(t) /\ Top.why # "int3"
    BY <1>3, <1>5
  <2>2. Top'.at = "continueOrPark"
    <3> DEFINE f == ContinueOrPark(t, FALSE, FALSE)
    <3>1. f.at = "continueOrPark"
      BY <1>1, KindsOfFrame
    <3> HIDE DEF f
    <3> QED
      BY <1>5, <2>1, <3>1, NowTop DEF Become, f
  <2>3. \A u \in Tid : Unaffected(u)
    BY <1>1, <1>5, <2>1, <2>2
       DEF Unaffected, SameKernel, SameMarks, SameTop, Trapped, Drains, StepsOver, Reporting
  <2>4. ReportedFirst'
    BY <1>1, <1>5, <2>2, ReportedStays DEF Steady, Suspended, SweepPoints
  <2> QED
    BY <1>1, <1>5, <2>2, <2>3, <2>4, RestoreWhole, ElseSteady DEF LiftPoints, PlacePoints
<1> QED
  BY <1>1, <1>4, <1>5, ZenonT(60) DEF HandleSigtrap

\* A thread that is announced has a record of its own from then on.
Announcement == [NewThread EXCEPT !.running = TRUE, !.pss = TRUE]
LEMMA AnnouncedNew ==
  ASSUME NEW ths \in Records, NEW p \in Tid, NEW u \in Tid
  PROVE  /\ \/ RegisterClone(ths, p)[u] = ths[u]
            \/ ~th[u].known /\ RegisterClone(ths, p)[u] = Announcement
         /\ RegisterClone(ths, p)[u] # ths[u] => u = k[p].child
<1> DEFINE c == k[p].child
           r == Announcement
<1>1. RegisterClone(ths, p) = IF th[c].known THEN ths ELSE [ths EXCEPT ![c] = r]
  BY DEF RegisterClone, Announcement
<1> HIDE DEF c, r
<1>2. RegisterClone(ths, p)[u] = ths[u] \/ (u = c /\ ~th[u].known /\ RegisterClone(ths, p)[u] = r)
  BY <1>1 DEF Records
<1> QED
  BY <1>2 DEF c, r

LEMMA NewPlaced ==
  ASSUME IInv, Steady, NEW u \in Tid, ~th[u].known, th'[u] = Announcement,
         SameKernel(u), SameTop(u), recs \subseteq recs', u \in hits' => u \in hits
  PROVE  Placed(u)' /\ th'[u].pbp = NoAddr
<1>1. /\ ~th'[u].atBp /\ th'[u].known /\ ~th'[u].stepping /\ th'[u].pbp = NoAddr
  BY DEF Announcement, NewThread, NoThread
<1>2. Placed(u) /\ th[u].pbp = NoAddr
  BY DEF Steady, PlacedAll, Placed, Fresh
<1> QED
  BY <1>1, <1>2
     DEF Placed, SameKernel, SameTop, Behind, Hit, AtByte, Ends, Unstepped, Fresh, Noted,
         Counted, Waits

LEMMA HandleCloneSteady ==
  ASSUME IInv, CurInv, Steady, HandleClone
  PROVE  Steady'
<1> DEFINE t == Top.tid
           ths == ClearSingleStep(th, t)
           f == ContinueOrPark(t, FALSE, FALSE)
<1>1. /\ Top.at = "clone" /\ t \in Tid /\ recs' = recs /\ stepReq' = stepReq /\ hits' = hits
      /\ ~th[t].stepping /\ k' = k /\ RestoreSourceByte(t) /\ Become(f)
      /\ th' = RegisterClone(ths, t) /\ th \in Records
  BY TopIs, TopUnstepped
     DEF HandleClone, At, userVars, kernelVars, historyVars, IInv, Threads, Records
<1>2. Top'.at = "continueOrPark"
  <2>1. f.at = "continueOrPark"
    BY <1>1, KindsOfFrame
  <2> HIDE DEF f
  <2> QED
    BY <1>1, <2>1, NowTop DEF Become
<1>3. AlikeMarks(ths, th) /\ ths \in Records
  BY <1>1, MarksKept, ClearIs
<1>4. \A u \in Tid : SameTop(u)
  BY <1>1, <1>2, SameTopAway DEF ThreadPoints
<1> HIDE DEF ths, f
<1>5. ASSUME NEW u \in Tid
      PROVE  \/ /\ Unaffected(u) /\ th'[u].pbp = th[u].pbp
                /\ Suspended(u)' <=> Suspended(u)
             \/ Placed(u)' /\ th'[u].pbp = NoAddr
  <2>1. SameKernel(u)
    BY <1>1 DEF SameKernel
  <2>2. CASE th'[u] = ths[u]
    BY <1>1, <1>3, <1>4, <2>1, <2>2 DEF Unaffected, AlikeMarks, SameMarks, Suspended
  <2>3. CASE ~th[u].known /\ th'[u] = Announcement
    BY <1>1, <1>4, <2>1, <2>3, NewPlaced
  <2> QED
    BY <1>1, <1>3, <2>2, <2>3, AnnouncedNew
<1>6. ReportedFirst'
  BY <1>1, <1>2, <1>5, ReportedStays DEF Steady, SweepPoints
<1> QED
  BY <1>1, <1>2, <1>5, <1>6, RestoreWhole, ElseSteady DEF LiftPoints, PlacePoints

LEMMA HandleExitSteady ==
  ASSUME IInv, CurInv, Steady, HandleExit
  PROVE  Steady'
<1> PICK t \in Tid : t = Top.tid
  BY TopIs
<1>1. /\ Top.at = "exit" /\ t \in Tid /\ recs' = recs /\ stepReq' = stepReq /\ hits' = hits
      /\ k' = Restart(t, "run") /\ RestoreSourceByte(t) /\ Return
      /\ th' = ClearSingleStep(th, t) /\ th \in Records /\ k \in Kernels
      /\ ~th[t].stepping
  BY TopIs, TopUnstepped
     DEF HandleExit, At, userVars, historyVars, IInv, Threads, Records, Kernels
<1>2. Top'.at \notin PlacePoints \cup ThreadPoints \cup SweepPoints
  BY <1>1, NowTop, ReturnsTo DEF Return, SwallowPoints
<1>3. /\ InPtraceStop(t) /\ k[t].dying /\ Placed(t)
  BY <1>1 DEF IInv, Handled, StopPoints, Steady, PlacedAll, Position, Leaving
<1>4. AlikeMarks(th', th)
  BY <1>1, MarksKept
<1>5. /\ \A u \in Tid \ {t} : k'[u] = k[u]
      /\ k'[t].run = "run" /\ k'[t].status = "none" /\ k'[t].at = k[t].at
      /\ k'[t].past <=> k[t].past
      /\ k'[t].dying
  BY <1>1, <1>3 DEF Restart, Kernels, KernelThread, InPtraceStop
<1>6. \A u \in Tid : SameTop(u)
  BY <1>1, <1>2, SameTopAway DEF ThreadPoints
<1>7. Placed(t)'
  <2>1. ~Trapped(t) /\ k[t].status = "none"
    BY <1>1, <1>3 DEF Trapped, InPtraceStop
  <2>2. SameMarks(t)
    BY <1>1, <1>4, MarksSame
  <2>3. Behind(t)' /\ AtByte(t)' /\ Ends(t)'
    BY <1>1, <1>3, <1>5, <1>6, <2>1, <2>2
       DEF SameTop, SameMarks, Placed, Behind, Hit, AtByte, Ends
  <2>4. Unstepped(t)' /\ Fresh(t)' /\ Noted(t)' /\ Waits(t)'
    BY <1>1, <1>3, <1>5, <1>6, <2>1, <2>2
       DEF SameTop, SameMarks, Placed, Unstepped, Fresh, Noted, Counted, Waits
  <2> QED
    BY <2>3, <2>4 DEF Placed
<1>8. \A u \in Tid : Unaffected(u) \/ Placed(u)'
  BY <1>1, <1>4, <1>5, <1>6, <1>7, MarksSame DEF Unaffected, SameKernel
<1>9. ReportedFirst'
  BY <1>1, <1>2, <1>4, MarksSame, ReportedStays
     DEF Steady, SameMarks, SweepPoints, PlacePoints
<1> QED
  BY <1>1, <1>2, <1>8, <1>9, RestoreWhole, ElseSteady DEF LiftPoints

LEMMA LoopSteady ==
  ASSUME IInv, CurInv, Steady, Loop
  PROVE  Steady'
BY WaitAnySteady, ReapSteady, StopForSuspendSteady, StopForResumesSteady, StopForPauseSteady,
   HandleSigtrapSteady, ReportSignalSteady, HandleCloneSteady, HandleExitSteady
   DEF Loop

-----------------------------------------------------------------------------
(* ... the sweep                                                           *)

LEMMA SweepSame ==
  ASSUME Top.at \in {"sweep", "sweepWait"}, Top'.at \in {"sweep", "sweepWait"},
         Top'.tid = Top.tid, Top'.why = Top.why, NEW u
  PROVE  SameTop(u)
BY DEF SameTop, Trapped, Drains, StepsOver, Reporting

LEMMA SweepAskSteady ==
  ASSUME IInv, CurInv, Steady, NEW t \in Tid, SweepAsk(t)
  PROVE  Steady'
<1> DEFINE f == [Top EXCEPT !.at = "sweepWait", !.who = t]
<1>1. /\ Top.at = "sweep" /\ th' = th /\ th[t].running /\ recs' = recs /\ armed' = armed
      /\ rearms' = rearms /\ stepReq' = stepReq /\ hits' = hits
      /\ k' = IF th[t].pss THEN k ELSE [k EXCEPT ![t].stopq = TRUE]
      /\ Become(f)
  BY DEF SweepAsk, At, bpVars, userVars, historyVars
<1>2. Top' = f /\ Top'.at = "sweepWait" /\ Top'.who = t /\ Top'.tid = Top.tid /\ Top'.why = Top.why
  <2>1. /\ f.at = "sweepWait" /\ f.who = t /\ f.tid = Top.tid /\ f.why = Top.why
    BY TopIs DEF Activations
  <2> HIDE DEF f
  <2> QED
    BY <1>1, <2>1, NowTop DEF Become
<1> HIDE DEF f
<1>3. \A u \in Tid : SameKernel(u)
  BY <1>1 DEF SameKernel, IInv, Threads, KernelThread
<1>4. PlacedAll'
  BY <1>1, <1>2, <1>3, SweepSame, PlacedSame DEF Steady, PlacedAll, SameMarks
<1>5. ReportedFirst'
  BY <1>2 DEF ReportedFirst, SweepPoints
<1>6. Position'
  BY <1>1, <1>2
     DEF Steady, Position, Leaving, Awaited, Caught, Unasked, ToLift, ToDrain, Drained,
         Lifted, Stepped
<1>7. Whole'
  BY <1>1, WholeStays DEF Steady, LiftPoints
<1> QED
  BY <1>4, <1>5, <1>6, <1>7 DEF Steady

\* The thread that is waited for runs, and so is at no breakpoint.
LEMMA SweepWho ==
  ASSUME IInv, CurInv, Steady, Top.at = "sweepWait"
  PROVE  /\ Top.who \in Tid /\ Placed(Top.who) /\ th[Top.who].running
         /\ ~th[Top.who].atBp /\ ~th[Top.who].stepping /\ ~Trapped(Top.who)
         /\ "resumeRunning" \notin Calls => th[Top.who].pbp = NoAddr
         /\ k[Top.who].run = "dead" \/ th[Top.who].known
<1>1. Top.who \in Tid /\ Met(Top.who, k, th)
  BY WhoIs
<1>2. Placed(Top.who) /\ th[Top.who].running
  BY <1>1 DEF Steady, PlacedAll, Position, Awaited
<1> QED
  BY <1>1, <1>2 DEF Placed, AtByte, Unstepped, StepsOver, Trapped, Waits, Met

\* The sweep goes on to the next thread.
LEMMA SweptSteady ==
  ASSUME IInv, CurInv, Steady, recs' = recs, armed \subseteq armed',
         SweepTake \/ SweepClone \/ SweepExit \/ SweepReap \/ SweepGone \/ SweepTimeout,
         \A u \in Tid : rearms'[u] \in {rearms[u], NoAddr}, stepReq' = stepReq,
         hits' \subseteq hits,
         \A u \in Tid : (SameKernel(u) /\ SameMarks(u)) \/ ((\A v \in Tid : SameTop(v)) => Placed(u)')
  PROVE  Steady'
<1>1. Top.at = "sweepWait" /\ Top' = [Top EXCEPT !.at = "sweep"]
  BY SweepStepsCur
<1>2. Top'.at = "sweep" /\ Top'.tid = Top.tid /\ Top'.why = Top.why
  BY <1>1, TopIs DEF Activations
<1>3. \A u \in Tid : SameTop(u)
  BY <1>1, <1>2, SweepSame
<1>4. \A u \in Tid : Unaffected(u) \/ Placed(u)'
  BY <1>3 DEF Unaffected
<1>5. ReportedFirst'
  BY <1>2 DEF ReportedFirst, SweepPoints
<1> QED
  BY <1>1, <1>2, <1>4, <1>5, ElseSteady DEF LiftPoints, PlacePoints

\* What the thread stopped for is taken, and it was no hit.
LEMMA WhoPlaced ==
  ASSUME IInv, CurInv, Steady, Top.at = "sweepWait", NEW w \in Tid, w = Top.who,
         k[w].status # "int3", k'[w].status # "int3",
         k'[w].status = "exit" => k'[w].dying, k'[w].at = k[w].at,
         k'[w].past <=> k[w].past, k'[w].dying <=> k[w].dying,
         k'[w].run \in {k[w].run, "run"},
         th'[w].known <=> th[w].known, ~th'[w].atBp, ~th'[w].stepping,
         th'[w].pbp = th[w].pbp, recs' = recs, w \in hits' => w \in hits, SameTop(w)
  PROVE  Placed(w)'
<1>1. /\ Placed(w) /\ ~Trapped(w) /\ ~Trapped(w)'
      /\ "resumeRunning" \notin Calls => th[w].pbp = NoAddr
  BY SweepWho DEF SameTop
<1>2. Behind(w)' /\ AtByte(w)' /\ Ends(w)'
  BY <1>1 DEF Placed, Behind, Hit, AtByte, Ends
<1>3. Unstepped(w)' /\ Fresh(w)' /\ Noted(w)' /\ Waits(w)'
  BY <1>1 DEF Placed, SameTop, Unstepped, Fresh, Noted, Counted, Waits
<1> QED
  BY <1>2, <1>3 DEF Placed

\* A hit is found at which nothing has been reported yet.
LEMMA SweepTakeSteady ==
  ASSUME IInv, CurInv, Steady, SweepTake
  PROVE  Steady'
<1> PICK w \in Tid : w = Top.who
  BY SweepWho DEF SweepTake, At
<1>1. /\ Top.at = "sweepWait" /\ recs' = recs /\ armed' = armed /\ rearms' = rearms
      /\ stepReq' = stepReq /\ hits' = hits
      /\ k \in Kernels /\ th \in Records /\ k[w] \in KernelThread /\ th[w] \in ThreadRecords
  BY DEF SweepTake, At, bpVars, userVars, IInv, Threads, Kernels, Records
<1>2. /\ Placed(w) /\ th[w].running /\ ~th[w].atBp /\ ~th[w].stepping /\ ~Trapped(w)
      /\ "resumeRunning" \notin Calls => th[w].pbp = NoAddr
      /\ k[w].run = "dead" \/ th[w].known
  BY <1>1, SweepWho
<1>3. CASE /\ k[w].status = "stop"
           /\ k' = [k EXCEPT ![w].status = "none"]
           /\ th' = Stopped(th, w, FALSE)
  <2>1. /\ \A u \in Tid \ {w} : SameKernel(u) /\ SameMarks(u)
        /\ k'[w].status = "none" /\ k'[w].run = k[w].run /\ k'[w].at = k[w].at
        /\ k'[w].past <=> k[w].past
        /\ k'[w].dying <=> k[w].dying
        /\ th'[w].known <=> th[w].known
        /\ ~th'[w].atBp /\ ~th'[w].stepping /\ th'[w].pbp = th[w].pbp
    BY <1>1, <1>2, <1>3
       DEF Stopped, Kernels, KernelThread, Records, ThreadRecords, SameKernel, SameMarks
  <2>2. SameTop(w) => Placed(w)'
    BY <1>1, <1>3, <2>1, WhoPlaced
  <2> QED
    BY <1>1, <2>1, <2>2, SweptSteady
<1>4. CASE /\ OwnReason(w)
           /\ k' = Rewound(w)
           /\ th' = Keep(Stopped(Claim(w), w, TRUE), w, Signalled(w), "unreported")
  <2>1. Claimed(w) <=> k[w].status = "int3"
    BY <1>2 DEF Claimed, Placed, Behind, Hit
  <2>2. /\ \A u \in Tid \ {w} : SameKernel(u)
        /\ k'[w].status = "none" /\ k'[w].run = k[w].run /\ k'[w].at = k[w].at
        /\ ~k'[w].past
        /\ k'[w].dying <=> k[w].dying
    <3>1. k[w].status # "int3" => ~k[w].past
      BY <1>2, StoppedAhead
    <3> QED
      BY <1>1, <1>4, <2>1, <3>1 DEF Rewound, Kernels, KernelThread, SameKernel
  <2>3. k[w].run = "stopped" /\ th[w].known
    BY <1>2, <1>4 DEF OwnReason, IInv, Threads, StatusOf
  <2> DEFINE ths == Stopped(Claim(w), w, TRUE)
  <2>4. /\ ths \in Records
        /\ \A u \in Tid \ {w} : ths[u] = th[u]
        /\ ths[w].known /\ ~ths[w].running /\ ~ths[w].stepping
        /\ ths[w].atBp => k[w].status = "int3"
        /\ ths[w].pbp = IF k[w].status = "int3" THEN k[w].at ELSE th[w].pbp
    <3>1. Claim(w) \in Records
      BY <1>1, ClaimIs
    <3>2. ths \in Records
      BY <3>1, StoppedIs
    <3>3. /\ \A u \in Tid \ {w} : Claim(w)[u] = th[u]
          /\ Claim(w)[w].known /\ ~Claim(w)[w].stepping
          /\ Claim(w)[w].atBp => k[w].status = "int3"
          /\ Claim(w)[w].pbp = IF k[w].status = "int3" THEN k[w].at ELSE th[w].pbp
      BY <1>1, <1>2, <2>1, <2>3 DEF Claim, Records, ThreadRecords
    <3> DEFINE c == Claim(w)
    <3> HIDE DEF c
    <3>4. c \in Records /\ ths = Stopped(c, w, TRUE)
      BY <3>1 DEF c
    <3> HIDE DEF ths
    <3>5. /\ \A u \in Tid \ {w} : ths[u] = c[u]
          /\ ths[w].known <=> c[w].known
          /\ ths[w].atBp <=> c[w].atBp
          /\ ths[w].stepping <=> c[w].stepping
          /\ ~ths[w].running /\ ths[w].pbp = c[w].pbp
      BY <3>4 DEF Stopped, Records, ThreadRecords
    <3> QED
      BY <3>2, <3>3, <3>5 DEF c
  <2> HIDE DEF ths
  <2>5. AlikeMarks(th', ths)
    BY <1>4, <2>4, MarksKept DEF ths
  <2>6. /\ \A u \in Tid \ {w} : SameMarks(u)
        /\ th'[w].known /\ ~th'[w].running /\ ~th'[w].stepping
        /\ th'[w].atBp => k[w].status = "int3"
        /\ th'[w].pbp = IF k[w].status = "int3" THEN k[w].at ELSE th[w].pbp
    BY <2>4, <2>5 DEF AlikeMarks, SameMarks
  <2>7. CASE k[w].status = "int3"
    <3>1. k[w].at \in recs /\ k[w].at # NoAddr
      BY <1>2, <2>7 DEF Placed, Behind, Hit, IInv, Bytes
    <3>2. ~k[w].dying
      BY <1>2, <3>1 DEF Placed, Ends
    <3>3. InPtraceStop(w)' /\ th'[w].pbp = k[w].at
      BY <2>2, <2>3, <2>6, <2>7 DEF InPtraceStop
    <3>4. SameTop(w) => Placed(w)'
      <4>1. SUFFICES ASSUME SameTop(w)
                     PROVE  Placed(w)'
        OBVIOUS
      <4>2. ~Trapped(w)'
        BY <1>2, <4>1 DEF SameTop
      <4>3. Behind(w)' /\ AtByte(w)' /\ Ends(w)'
        BY <1>1, <2>2, <2>3, <2>6, <3>2, <3>3, <4>2 DEF Behind, Hit, AtByte, Ends
      <4>4. Unstepped(w)' /\ Fresh(w)' /\ Noted(w)' /\ Waits(w)'
        BY <1>1, <2>2, <2>6, <3>1, <3>2, <3>3 DEF Unstepped, Fresh, Noted, Counted, Waits
      <4> QED
        BY <4>3, <4>4 DEF Placed
    <3> QED
      BY <1>1, <2>2, <2>6, <3>4, SweptSteady
  <2>8. CASE k[w].status # "int3"
    <3>1. ~k[w].past
      BY <1>2, <2>8, StoppedAhead
    <3>2. SameTop(w) => Placed(w)'
      BY <1>1, <2>2, <2>3, <2>6, <2>8, <3>1, WhoPlaced
    <3> QED
      BY <1>1, <2>2, <2>6, <3>2, SweptSteady
  <2> QED
    BY <2>7, <2>8
<1> QED
  BY <1>1, <1>3, <1>4 DEF SweepTake

LEMMA SweepCloneSteady ==
  ASSUME IInv, CurInv, Steady, SweepClone
  PROVE  Steady'
<1> PICK w \in Tid : w = Top.who
  BY SweepWho DEF SweepClone, At
<1>1. /\ Top.at = "sweepWait" /\ recs' = recs /\ armed' = armed /\ rearms' = rearms
      /\ stepReq' = stepReq /\ hits' = hits /\ k[w].status = "clone"
      /\ k' = [Restart(w, "run") EXCEPT ![w].status = "none"]
      /\ th' = [RegisterClone(th, w) EXCEPT ![w].pss = TRUE]
      /\ k \in Kernels /\ th \in Records /\ k[w] \in KernelThread /\ th[w] \in ThreadRecords
  BY DEF SweepClone, At, bpVars, userVars, historyVars, IInv, Threads, Kernels, Records
<1>2. /\ ~th[w].atBp /\ ~th[w].stepping
      /\ k[w].run = "dead" \/ th[w].known
  BY <1>1, SweepWho
<1>3. th[w].known
  BY <1>1, <1>2 DEF IInv, Threads, StatusOf
<1>4. /\ \A u \in Tid \ {w} : SameKernel(u)
      /\ k'[w].status = "none" /\ k'[w].run = "run" /\ k'[w].at = k[w].at
      /\ k'[w].past <=> k[w].past
      /\ k'[w].dying <=> k[w].dying
  BY <1>1 DEF Restart, Kernels, KernelThread, SameKernel
<1> DEFINE ths == RegisterClone(th, w)
<1>5. /\ ths[w] = th[w] /\ ths \in Records
      /\ \A u \in Tid \ {w} : ths[u] = th[u] \/ (~th[u].known /\ ths[u] = Announcement)
  BY <1>1, <1>3, AnnouncedNew, RegisterIs
<1> HIDE DEF ths
<1>6. th' = [ths EXCEPT ![w].pss = TRUE]
  BY <1>1 DEF ths
<1>7. /\ \A u \in Tid \ {w} : th'[u] = ths[u]
      /\ th'[w].known <=> th[w].known
      /\ ~th'[w].atBp /\ ~th'[w].stepping /\ th'[w].pbp = th[w].pbp
  BY <1>2, <1>5, <1>6 DEF Records, ThreadRecords
<1>8. SameTop(w) => Placed(w)'
  BY <1>1, <1>4, <1>7, WhoPlaced
<1>9. ASSUME NEW u \in Tid \ {w}
      PROVE  (SameKernel(u) /\ SameMarks(u)) \/ (SameTop(u) => Placed(u)')
  <2>1. CASE th'[u] = th[u]
    BY <1>4, <2>1 DEF SameMarks
  <2>2. CASE ~th[u].known /\ th'[u] = Announcement
    BY <1>1, <1>4, <2>2, NewPlaced
  <2> QED
    BY <1>5, <1>7, <2>1, <2>2
<1> QED
  BY <1>1, <1>8, <1>9, SweptSteady

LEMMA SweepExitSteady ==
  ASSUME IInv, CurInv, Steady, SweepExit
  PROVE  Steady'
<1> PICK w \in Tid : w = Top.who
  BY SweepWho DEF SweepExit, At
<1>1. /\ Top.at = "sweepWait" /\ recs' = recs /\ armed' = armed /\ rearms' = rearms
      /\ stepReq' = stepReq /\ hits' = hits /\ k[w].status = "exit"
      /\ k' = [Restart(w, "run") EXCEPT ![w].status = "none"]
      /\ th' = [th EXCEPT ![w].running = FALSE]
      /\ k \in Kernels /\ th \in Records /\ k[w] \in KernelThread /\ th[w] \in ThreadRecords
  BY DEF SweepExit, At, bpVars, userVars, historyVars, IInv, Threads, Kernels, Records
<1>2. ~th[w].atBp /\ ~th[w].stepping
  BY <1>1, SweepWho
<1>3. /\ \A u \in Tid \ {w} : SameKernel(u)
      /\ k'[w].status = "none" /\ k'[w].run = "run" /\ k'[w].at = k[w].at
      /\ k'[w].past <=> k[w].past
      /\ k'[w].dying <=> k[w].dying
  BY <1>1 DEF Restart, Kernels, KernelThread, SameKernel
<1>4. /\ \A u \in Tid \ {w} : SameMarks(u)
      /\ th'[w].known <=> th[w].known
      /\ ~th'[w].atBp /\ ~th'[w].stepping /\ th'[w].pbp = th[w].pbp
  BY <1>1, <1>2 DEF Records, ThreadRecords, SameMarks
<1>5. SameTop(w) => Placed(w)'
  BY <1>1, <1>3, <1>4, WhoPlaced
<1> QED
  BY <1>1, <1>3, <1>4, <1>5, SweptSteady

LEMMA SweepReapSteady ==
  ASSUME IInv, CurInv, Steady, SweepReap
  PROVE  Steady'
<1> PICK w \in Tid : w = Top.who
  BY SweepWho DEF SweepReap, At
<1>1. /\ k[w].status = "exited" /\ ExitThreadEvent(w) /\ recs' = recs /\ stepReq' = stepReq
  BY DEF SweepReap
<1>2. Top'.at = "sweep"
  BY SweepStepsCur, TopIs DEF Activations
<1>3. /\ Placed(w)'
      /\ \A u \in Tid \ {w} : SameKernel(u) /\ SameMarks(u)
      /\ hits' \subseteq hits
      /\ armed \subseteq armed' /\ \A u \in Tid : rearms'[u] \in {rearms[u], NoAddr}
  BY <1>1, <1>2, ExitedPlaced
<1> QED
  BY <1>1, <1>3, SweptSteady

\* It has ended, or is given up.
LEMMA SweepLeftSteady ==
  ASSUME IInv, CurInv, Steady, SweepGone \/ SweepTimeout
  PROVE  Steady'
<1> PICK w \in Tid : w = Top.who
  BY SweepWho DEF SweepGone, SweepTimeout, At
<1>1. /\ Top.at = "sweepWait" /\ recs' = recs /\ armed' = armed /\ rearms' = rearms
      /\ stepReq' = stepReq /\ hits' = hits /\ k' = k /\ k[w].status = "none"
      /\ th' = [th EXCEPT ![w].running = FALSE] \/ th' = Stopped(th, w, TRUE)
      /\ th \in Records /\ th[w] \in ThreadRecords
  BY DEF SweepGone, SweepTimeout, Gone, At, bpVars, kernelVars, userVars, historyVars, IInv,
         Threads, Records
<1>2. ~th[w].atBp /\ ~th[w].stepping
  BY <1>1, SweepWho
<1>3. /\ \A u \in Tid \ {w} : SameMarks(u)
      /\ th'[w].known <=> th[w].known
      /\ ~th'[w].atBp /\ ~th'[w].stepping /\ th'[w].pbp = th[w].pbp
  <2>1. CASE th' = [th EXCEPT ![w].running = FALSE]
    BY <1>1, <1>2, <2>1 DEF Records, ThreadRecords, SameMarks
  <2>2. CASE th' = Stopped(th, w, TRUE)
    BY <1>1, <1>2, <2>2 DEF Stopped, Records, ThreadRecords, SameMarks
  <2> QED
    BY <1>1, <2>1, <2>2
<1>4. \A u \in Tid : SameKernel(u)
  BY <1>1 DEF SameKernel
<1>5. SameTop(w) => Placed(w)'
  BY <1>1, <1>3, WhoPlaced
<1> QED
  BY <1>1, <1>3, <1>4, <1>5, SweptSteady

LEMMA SweepDoneSteady ==
  ASSUME IInv, CurInv, Steady, SweepDone
  PROVE  Steady'
<1>1. /\ Top.at = "sweep" /\ k' = k /\ th' = th /\ recs' = recs /\ armed' = armed
      /\ rearms' = rearms /\ stepReq' = stepReq
      /\ hits' = IF Top.why = "breakpoint" THEN hits \ {Top.tid} ELSE hits
  BY DEF SweepDone, At, kernelVars, bpVars
<1>2. Top'.at = "wait"
  BY SweepDoneCur
<1>3. ASSUME NEW u \in Tid
      PROVE  Unaffected(u) \/ Placed(u)'
  <2>1. SameKernel(u) /\ SameMarks(u) /\ (u \in hits' => u \in hits) /\ Placed(u)
    BY <1>1 DEF SameKernel, SameMarks, Steady, PlacedAll
  <2>2. /\ ~Trapped(u) /\ ~Drains(u) /\ ~StepsOver(u)
        /\ ~Trapped(u)' /\ ~Drains(u)' /\ ~StepsOver(u)' /\ ~Reporting(u)'
    BY <1>1, <1>2 DEF Trapped, Drains, StepsOver, Reporting
  <2>3. CASE ~Reporting(u)
    BY <2>1, <2>2, <2>3 DEF Unaffected, SameTop
  <2>4. CASE Reporting(u)
    <3>1. u \notin hits'
      BY <1>1, <2>4 DEF Reporting
    <3> QED
      BY <1>1, <2>1, <2>2, <3>1
         DEF Placed, Behind, Hit, AtByte, InPtraceStop, Ends, Unstepped, Fresh, Noted,
             Counted, Waits
  <2> QED
    BY <2>3, <2>4
<1>4. ReportedFirst'
  BY <1>2 DEF ReportedFirst, SweepPoints
<1> QED
  BY <1>1, <1>2, <1>3, <1>4, ElseSteady DEF LiftPoints, PlacePoints

LEMMA SweepSteady ==
  ASSUME IInv, CurInv, Steady, Sweep
  PROVE  Steady'
BY SweepAskSteady, SweepTakeSteady, SweepCloneSteady, SweepExitSteady, SweepReapSteady,
   SweepLeftSteady, SweepDoneSteady
   DEF Sweep

-----------------------------------------------------------------------------
(* ... the step over the byte                                              *)

\* What is lifted for the thread on top is back when that is put back.
LEMMA LiftedBack ==
  ASSUME IInv, Whole, Top.at \in {"lifted", "stepWait"}, armed' = Rearmed(Top.addr),
         recs' = recs, rearms' = rearms
  PROVE  Whole'
<1>1. ASSUME NEW a \in recs, a \notin armed, Rep = {}
      PROVE  a = Top.addr
  BY <1>1 DEF Whole, LiftedFor, SwallowPoints
<1> QED
  BY <1>1 DEF Whole, Rearmed

\* Nothing changes of what is lifted, though the drain of a SIGSTOP begins or ends.
LEMMA LiftedStays ==
  ASSUME Whole, armed' = armed, recs' = recs, rearms' = rearms,
         Top.at \in SwallowPoints => \/ Top'.at \in SwallowPoints /\ Below' = Below
                                     \/ Top'.at = "lifted" /\ Top' = Below,
         Top.at \in {"lifted", "stepWait"} =>
           Top'.at \in {"lifted", "stepWait"} /\ Top'.addr = Top.addr
  PROVE  Whole'
BY DEF Whole, LiftedFor

LEMMA SwallowSteady ==
  ASSUME IInv, CurInv, Steady, Swallow
  PROVE  Steady'
<1> PICK t \in Tid : t = Top.tid
  BY TopIs
<1>1. /\ Top.at = "swallow" /\ th' = th /\ recs' = recs /\ armed' = armed
      /\ rearms' = rearms /\ stepReq' = stepReq /\ hits' = hits
      /\ k \in Kernels /\ k[t] \in KernelThread
  BY DEF Swallow, At, bpVars, userVars, historyVars, IInv, Threads, Kernels
<1>2. /\ InPtraceStop(t) /\ ~th[t].running /\ OffTheByteNow(t) /\ Below.at = "lifted"
      /\ Below.tid = t
      /\ Placed(t) /\ ~Trapped(t)
      /\ "resumeRunning" \notin Calls => th[t].pbp = NoAddr
      /\ ~stepReq
  BY <1>1, SwallowCur
     DEF Steady, PlacedAll, Position, ToDrain, Stopping, Trapped, ReportedFirst, Unasked
<1>3. CASE ~th[t].pss /\ Return /\ k' = k
  <2>1. Top' = Below
    BY <1>1, <1>3, SwallowCur
  <2>2. \A u \in Tid : SameTop(u)
    BY <1>1, <1>2, <2>1, SameTopAway DEF ThreadPoints
  <2>3. PlacedAll'
    BY <1>1, <1>3, <2>2, PlacedSame DEF Steady, PlacedAll, SameKernel, SameMarks
  <2>4. ReportedFirst'
    BY <1>1, <1>2, <2>1, ReportedStays DEF Steady, Suspended, SweepPoints
  <2>5. Position'
    BY <1>1, <1>2, <1>3, <2>1
       DEF Position, Leaving, Awaited, Caught, Unasked, ToLift, ToDrain, Drained, Lifted,
           Stepped, Stopping, OffTheByteNow, InPtraceStop
  <2>6. Whole'
    BY <1>1, <1>2, <2>1, LiftedStays DEF Steady, SwallowPoints
  <2> QED
    BY <2>3, <2>4, <2>5, <2>6 DEF Steady
<1>4. CASE th[t].pss /\ k' = Restart(t, "run") /\ Become(Frame("swallowWait", t))
  <2>1. Top'.at = "swallowWait" /\ Top'.tid = t /\ Below' = Below
    BY <1>4, NowTop DEF Become, Frame
  <2>2. k[t].stopq
    BY <1>2, <1>4 DEF IInv, Threads, Owed, Living, StopComing, InPtraceStop, OffTheByteNow
  <2>3. /\ \A u \in Tid \ {t} : k'[u] = k[u]
        /\ k'[t].run = "run" /\ k'[t].status = "none" /\ k'[t].at = k[t].at
        /\ k'[t].past <=> k[t].past
        /\ ~k'[t].dying /\ k'[t].due /\ k'[t].stopq
    BY <1>1, <1>2, <1>4, <2>2
       DEF Restart, Queued, Kernels, KernelThread, InPtraceStop, OffTheByteNow
  <2>4. Placed(t)'
    <3>1. Drains(t)' /\ ~Trapped(t)' /\ ~Reporting(t) /\ ~StepsOver(t)
      BY <1>1, <2>1 DEF Drains, Trapped, Reporting, StepsOver
    <3>2. Behind(t)' /\ AtByte(t)' /\ Ends(t)'
      BY <1>1, <1>2, <2>3, <3>1 DEF Placed, Behind, Hit, AtByte, Ends, InPtraceStop
    <3>3. Unstepped(t)' /\ Fresh(t)' /\ Noted(t)' /\ Waits(t)'
      BY <1>1, <1>2, <2>3, <3>1
         DEF Placed, Unstepped, Fresh, Noted, Counted, Waits, InPtraceStop
    <3> QED
      BY <3>2, <3>3 DEF Placed
  <2>5. PlacedAll'
    <3>1. ASSUME NEW u \in Tid, u # t
          PROVE  Placed(u)'
      <4>1. SameTop(u)
        BY <1>1, <2>1, <3>1, SameTopAway DEF ThreadPoints
      <4> QED
        BY <1>1, <2>3, <3>1, <4>1, PlacedSame DEF Steady, PlacedAll, SameKernel, SameMarks
    <3> QED
      BY <2>4, <3>1 DEF PlacedAll
  <2>6. ReportedFirst'
    BY <1>1, <2>1, ReportedStays DEF Steady, Suspended, SweepPoints
  <2>7. Position'
    BY <1>1, <1>2, <1>4, <2>1, <2>3
       DEF Position, Leaving, Awaited, Caught, Unasked, ToLift, ToDrain, Drained, Lifted,
           Stepped, Runs, OffTheByteNow
  <2>8. Whole'
    BY <1>1, <2>1, LiftedStays DEF Steady, SwallowPoints
  <2> QED
    BY <2>5, <2>6, <2>7, <2>8 DEF Steady
<1> QED
  BY <1>1, <1>2, <1>3, <1>4 DEF Swallow

LEMMA SwallowTakeSteady ==
  ASSUME IInv, CurInv, Steady, SwallowTake
  PROVE  Steady'
<1> PICK t \in Tid : t = Top.tid
  BY TopIs
<1>1. /\ Top.at = "swallowWait" /\ recs' = recs /\ armed' = armed
      /\ rearms' = rearms /\ stepReq' = stepReq /\ hits' = hits /\ k[t].status # "none"
      /\ k \in Kernels /\ k[t] \in KernelThread /\ th \in Records /\ th[t] \in ThreadRecords
  BY DEF SwallowTake, At, bpVars, userVars, IInv, Threads, Kernels, Records
<1>2. /\ k[t].run = "stopped" /\ k[t].status \in {"stop", "sig"} /\ OffTheByteNow(t)
      /\ ~th[t].running /\ th[t].pss /\ Below.at = "lifted"
      /\ ~stepReq
  BY <1>1, RunsFree DEF Steady, Position, Drained, Unasked
<1>3. /\ Placed(t) /\ ~Trapped(t) /\ ~k[t].past /\ ~th[t].stepping
      /\ "resumeRunning" \notin Calls => th[t].pbp = NoAddr
  BY <1>1, <1>2
     DEF Steady, PlacedAll, Placed, Behind, Hit, Unstepped, StepsOver, Waits, InPtraceStop,
         Trapped
<1>4. CASE /\ k[t].status = "stop"
           /\ k' = [k EXCEPT ![t].status = "none"]
           /\ th' = Stopped(th, t, FALSE)
           /\ ret' = "drained"
           /\ Return
  <2>1. Top' = Below /\ Below.tid = t
    <3>1. ~paused' /\ cur' = cur
      BY <1>1, NotPaused DEF SwallowTake, userVars
    <3> QED
      BY <1>1, <1>4, <3>1, SwallowReturns DEF SwallowPoints
  <2>2. /\ \A u \in Tid \ {t} : SameKernel(u) /\ SameMarks(u)
        /\ k'[t].status = "none" /\ k'[t].run = "stopped" /\ k'[t].at = k[t].at
        /\ ~k'[t].past
        /\ k'[t].dying <=> k[t].dying
        /\ th'[t].known <=> th[t].known
        /\ th'[t].atBp <=> th[t].atBp
        /\ ~th'[t].running /\ ~th'[t].stepping /\ th'[t].pbp = th[t].pbp
        /\ \A u \in Tid : th'[u].pbp = th[u].pbp /\ th'[u].susp = th[u].susp
    BY <1>1, <1>2, <1>3, <1>4
       DEF Stopped, Kernels, KernelThread, Records, ThreadRecords, SameKernel, SameMarks
  <2>3. Placed(t)'
    <3>1. InPtraceStop(t)' /\ ~Trapped(t)' /\ ~Reporting(t)
      BY <1>1, <1>2, <2>1, <2>2 DEF InPtraceStop, Trapped, Reporting
    <3>2. Behind(t)' /\ AtByte(t)' /\ Ends(t)'
      BY <1>1, <1>3, <2>2, <3>1 DEF Placed, Behind, Hit, AtByte, Ends
    <3>3. Unstepped(t)' /\ Fresh(t)' /\ Noted(t)' /\ Waits(t)'
      BY <1>1, <1>3, <1>4, <2>2, <3>1 DEF Placed, Unstepped, Fresh, Noted, Counted, Waits
    <3> QED
      BY <3>2, <3>3 DEF Placed
  <2>4. PlacedAll'
    <3>1. ASSUME NEW u \in Tid, u # t
          PROVE  Placed(u)'
      <4>1. SameTop(u)
        BY <1>1, <1>2, <2>1, <3>1, SameTopAway DEF ThreadPoints
      <4> QED
        BY <1>1, <2>2, <3>1, <4>1, PlacedSame DEF Steady, PlacedAll
    <3> QED
      BY <2>3, <3>1 DEF PlacedAll
  <2>5. ReportedFirst'
    BY <1>1, <1>2, <2>1, <2>2, ReportedStays DEF Steady, Suspended, SweepPoints
  <2>6. Position'
    BY <1>1, <1>2, <2>1, <2>2
       DEF Position, Leaving, Awaited, Caught, Unasked, ToLift, ToDrain, Drained, Lifted,
           Stepped, Stopping, OffTheByteNow, InPtraceStop
  <2>7. Whole'
    BY <1>1, <1>2, <2>1, LiftedStays DEF Steady, SwallowPoints
  <2> QED
    BY <2>4, <2>5, <2>6, <2>7 DEF Steady
<1>5. CASE /\ k[t].status = "sig"
           /\ k' = [Rewound(t) EXCEPT ![t].run = "run", ![t].due = Queued(t)]
           /\ th' = Keep(Announced(Claim(t), t), t, SignalDrained(t) /\ th[t].psig = "none",
                         "reported")
           /\ stack' = stack
  <2>1. Top' = Top /\ Below' = Below
    BY <1>5 DEF Top, Below
  <2>2. Announced(Claim(t), t) = th
    BY <1>5 DEF Announced, Claim, Claimed
  <2>3. AlikeMarks(th', th)
    BY <1>1, <1>5, <2>2, MarksKept
  <2>4. k[t].stopq
    BY <1>2, <1>5 DEF IInv, Threads, Owed, Living, StopComing, OffTheByteNow
  <2>5. /\ \A u \in Tid \ {t} : k'[u] = k[u]
        /\ k'[t].run = "run" /\ k'[t].status = "none" /\ k'[t].at = k[t].at
        /\ ~k'[t].past /\ ~k'[t].dying /\ k'[t].due /\ k'[t].stopq
    <3>1. ~Claimed(t)
      BY <1>5 DEF Claimed
    <3> QED
      BY <1>1, <1>2, <1>3, <1>5, <2>4, <3>1
         DEF Rewound, Queued, Kernels, KernelThread, OffTheByteNow
  <2>6. \A u \in Tid : SameMarks(u) /\ (Suspended(u)' <=> Suspended(u))
    BY <2>3, MarksSame
  <2>7. Placed(t)'
    <3>1. Drains(t)' /\ ~Trapped(t)' /\ ~Reporting(t)
      BY <1>1, <2>1 DEF Drains, Trapped, Reporting
    <3>2. Behind(t)' /\ AtByte(t)' /\ Ends(t)'
      BY <1>1, <1>2, <1>3, <2>5, <2>6, <3>1 DEF SameMarks, Placed, Behind, Hit, AtByte, Ends
    <3>3. Unstepped(t)' /\ Fresh(t)' /\ Waits(t)'
      BY <1>3, <2>6 DEF SameMarks, Placed, Unstepped, Fresh, Waits
    <3>4. Noted(t)'
      BY <1>1, <1>3, <1>5, <2>6, <3>1 DEF SameMarks, Placed, Noted, Counted
    <3> QED
      BY <3>2, <3>3, <3>4 DEF Placed
  <2>8. PlacedAll'
    BY <1>1, <2>1, <2>5, <2>6, <2>7, PlacedSame, SameTopStays
       DEF Steady, PlacedAll, SameKernel
  <2>9. ReportedFirst'
    BY <1>1, <2>1, <2>6, ReportedStays DEF Steady, SameMarks, SweepPoints
  <2>10. Position'
    <3>1. th'[t].pss /\ ~th'[t].running
      BY <1>2, <2>3 DEF AlikeMarks
    <3> QED
      BY <1>1, <1>2, <2>1, <2>5, <3>1
         DEF Position, Leaving, Awaited, Caught, Unasked, ToLift, ToDrain, Drained, Lifted,
             Stepped, Runs, OffTheByteNow
  <2>11. Whole'
    BY <1>1, <2>1, WholeSame DEF Steady
  <2> QED
    BY <2>8, <2>9, <2>10, <2>11 DEF Steady
<1> QED
  BY <1>1, <1>2, <1>4, <1>5 DEF SwallowTake

LEMMA SwallowLostSteady ==
  ASSUME IInv, CurInv, Steady, SwallowLost
  PROVE  Steady'
<1> PICK t \in Tid : t = Top.tid
  BY TopIs
<1>1. /\ Top.at = "swallowWait" /\ stepReq' = stepReq /\ recs' = recs /\ ret' = "lost" /\ Return
      /\ th \in Records /\ th[t] \in ThreadRecords /\ paused' = paused
  BY DEF SwallowLost, At, IInv, Threads, Records
<1>2. k[t].status # "exited"
  BY <1>1 DEF Steady, Position, Drained, Runs, IInv, Threads, StatusOf
<1>3. /\ k' = k /\ armed' = armed /\ rearms' = rearms /\ hits' = hits
      /\ k[t].status = "none" /\ th' = Running(th, t)
  BY <1>1, <1>2 DEF SwallowLost, historyVars
<1>4. Runs(t) /\ Placed(t) /\ Below.at = "lifted" /\ ~stepReq
  BY <1>1, <1>3 DEF Steady, PlacedAll, Position, Drained, Unasked
<1>5. Top' = Below
  BY <1>1, NotPaused, SwallowReturns DEF SwallowPoints
<1>6. /\ \A u \in Tid \ {t} : th'[u] = th[u]
      /\ th'[t].known <=> th[t].known
      /\ th'[t].stepping <=> th[t].stepping
      /\ ~th'[t].atBp /\ th'[t].pbp = th[t].pbp /\ th'[t].susp = th[t].susp
  BY <1>1, <1>3 DEF Running, Records, ThreadRecords
<1>7. Placed(t)'
  <2>1. ~Trapped(t) /\ ~Trapped(t)' /\ ~Reporting(t) /\ ~StepsOver(t) /\ ~InPtraceStop(t)
    BY <1>1, <1>4, <1>5 DEF Trapped, Reporting, StepsOver, InPtraceStop, Runs
  <2>2. Behind(t)' /\ AtByte(t)' /\ Ends(t)'
    BY <1>1, <1>3, <1>4, <1>6, <2>1 DEF Placed, Behind, Hit, AtByte, Ends
  <2>3. Unstepped(t)' /\ Fresh(t)' /\ Noted(t)' /\ Waits(t)'
    BY <1>1, <1>3, <1>4, <1>6, <2>1 DEF Placed, Unstepped, Fresh, Noted, Counted, Waits
  <2> QED
    BY <2>2, <2>3 DEF Placed
<1>8. PlacedAll'
  <2>1. ASSUME NEW u \in Tid, u # t
        PROVE  Placed(u)'
    <3>1. SameTop(u)
      BY <1>1, <1>4, <1>5, <2>1, SameTopAway DEF ThreadPoints
    <3> QED
      BY <1>1, <1>3, <1>6, <2>1, <3>1, PlacedSame DEF Steady, PlacedAll, SameKernel, SameMarks
  <2> QED
    BY <1>7, <2>1 DEF PlacedAll
<1>9. ReportedFirst'
  BY <1>1, <1>4, <1>5, <1>6, ReportedStays DEF Steady, Suspended, SweepPoints
<1>10. Position'
  BY <1>1, <1>4, <1>5
     DEF Position, Leaving, Awaited, Caught, Unasked, ToLift, ToDrain, Drained, Lifted, Stepped
<1>11. Whole'
  BY <1>1, <1>3, <1>4, <1>5, LiftedStays DEF Steady, SwallowPoints
<1> QED
  BY <1>8, <1>9, <1>10, <1>11 DEF Steady

LEMMA StepPastSteady ==
  ASSUME IInv, CurInv, Steady, StepPast
  PROVE  Steady'
<1> PICK t \in Tid : t = Top.tid
  BY TopIs
<1> DEFINE a == k[t].at
           f == Frame("swallow", t)
           b == IF a \in armed THEN a ELSE NoAddr
           g == [Frame("lifted", t) EXCEPT !.sig = curSig, !.addr = b]
<1>1. /\ Top.at = "stepPast" /\ k' = k /\ th' = th /\ recs' = recs /\ armed' = armed \ {a}
      /\ rearms' = rearms /\ stepReq' = stepReq /\ hits' = hits
      /\ stack' = <<f, g>> \o Tail(stack)
  BY DEF StepPast, Call, At, kernelVars, userVars, historyVars
<1>2. /\ Top' = f /\ Below' = g /\ f.at = "swallow" /\ f.tid = t
      /\ g.at = "lifted" /\ g.addr = b
  <2>1. f.at = "swallow" /\ f.tid = t /\ g.at = "lifted" /\ g.addr = b
    BY DEF Frame
  <2> HIDE DEF f, g, b
  <2> QED
    BY <1>1, <2>1, NowTop
<1> HIDE DEF f, g
<1>3. /\ Stopping(t) /\ ~k[t].dying /\ ~stepReq
      /\ "resumeRunning" \notin Calls => th[t].pbp = NoAddr
  BY <1>1 DEF Steady, Position, ToLift, Unasked, ReportedFirst
<1>4. PlacedAll'
  <2>1. \A u \in Tid : SameTop(u)
    BY <1>1, <1>2, SameTopAway DEF ThreadPoints
  <2> QED
    BY <1>1, <2>1, PlacedSame DEF Steady, PlacedAll, SameKernel, SameMarks
<1>5. ReportedFirst'
  BY <1>1, <1>2, <1>3 DEF Steady, ReportedFirst, Suspended, SweepPoints
<1>6. Position'
  BY <1>1, <1>2, <1>3
     DEF Position, Leaving, Awaited, Caught, Unasked, ToLift, ToDrain, Drained, Lifted, Stepped,
         Stopping, InPtraceStop, OffTheByteNow
<1>7. Whole'
  <2>1. Rep = {} => recs \subseteq armed
    BY <1>1 DEF Steady, Whole, LiftedFor, SwallowPoints
  <2> QED
    BY <1>1, <1>2, <2>1 DEF Steady, Whole, LiftedFor, SwallowPoints
<1> QED
  BY <1>4, <1>5, <1>6, <1>7 DEF Steady

\* The step over the byte ends: what was lifted is back, and its caller goes on.
LEMMA StepPastEndsSteady ==
  ASSUME IInv, CurInv, Steady, Top.at \in {"lifted", "stepWait"}, Return,
         Top'.at \notin PlacePoints \cup ThreadPoints,
         armed' = Rearmed(Top.addr), recs' = recs, rearms' = rearms, stepReq' = stepReq,
         \A u \in Tid : (SameKernel(u) /\ SameMarks(u) /\ SameTop(u)) \/ Placed(u)',
         \A u \in Tid : \/ th'[u].pbp = NoAddr
                        \/ th'[u].pbp = th[u].pbp /\ (Suspended(u) => Suspended(u)'),
         hits' = hits
  PROVE  Steady'
<1>1. PlacedAll'
  BY PlacedSame DEF Steady, PlacedAll
<1>2. ReportedFirst'
  BY ReportedStays DEF Steady, SweepPoints, PlacePoints
<1>3. Position'
  BY PositionFree DEF Steady, Position, Unasked
<1>4. Whole'
  BY LiftedBack DEF Steady
<1> QED
  BY <1>1, <1>2, <1>3, <1>4 DEF Steady

LEMMA StepOffTheByteSteady ==
  ASSUME IInv, CurInv, Steady, StepOffTheByte
  PROVE  Steady'
<1> PICK t \in Tid : t = Top.tid
  BY TopIs
<1>1. /\ Top.at = "lifted" /\ recs' = recs /\ rearms' = rearms /\ stepReq' = stepReq
      /\ hits' = hits /\ cur' = cur
      /\ k \in Kernels /\ k[t] \in KernelThread /\ th \in Records /\ th[t] \in ThreadRecords
  BY DEF StepOffTheByte, At, userVars, IInv, Threads, Kernels, Records
<1>2. CASE Return /\ k' = k /\ AlikeMarks(th', th) /\ armed' = Rearmed(Top.addr)
  <2>1. Top'.at \notin PlacePoints \cup ThreadPoints
    BY <1>1, <1>2, NowTop, ReturnsTo DEF Return, SwallowPoints
  <2>2. \A u \in Tid : SameTop(u)
    BY <1>1, <2>1, SameTopAway DEF ThreadPoints
  <2>3. \A u \in Tid : SameMarks(u) /\ (Suspended(u)' <=> Suspended(u))
    BY <1>2, MarksSame
  <2> QED
    BY <1>1, <1>2, <2>1, <2>2, <2>3, StepPastEndsSteady DEF SameKernel, SameMarks
<1>3. CASE /\ ret # "lost" /\ ~CurSuspended
           /\ k' = Restart(t, "step")
           /\ th' = [th EXCEPT ![t].stepping = TRUE, ![t].atBp = FALSE]
           /\ Become([Top EXCEPT !.at = "stepWait", !.sig = FALSE])
           /\ armed' = armed
  <2> DEFINE f == [Top EXCEPT !.at = "stepWait", !.sig = FALSE]
  <2>1. Top' = f /\ Top'.at = "stepWait" /\ Top'.tid = t /\ Top'.addr = Top.addr
    <3>1. f.at = "stepWait" /\ f.tid = t /\ f.addr = Top.addr
      BY TopIs DEF Activations
    <3> HIDE DEF f
    <3> QED
      BY <1>3, <3>1, NowTop DEF Become, f
  <2> HIDE DEF f
  <2>2. /\ InPtraceStop(t) /\ ~th[t].running /\ OffTheByteNow(t) /\ ~stepReq
        /\ Placed(t) /\ ~Trapped(t) /\ cur = t
    BY <1>1, <1>3
       DEF Steady, PlacedAll, Position, Lifted, Stopping, Trapped, CurInv, Own, Unasked
  <2>3. th[t].known
    BY <2>2, TopIs DEF Met, InPtraceStop
  <2>4. /\ \A u \in Tid \ {t} : k'[u] = k[u] /\ th'[u] = th[u]
        /\ k'[t].run = "step" /\ k'[t].status = "none" /\ k'[t].at = k[t].at
        /\ k'[t].past <=> k[t].past
        /\ ~k'[t].dying
        /\ th'[t].known /\ ~th'[t].atBp /\ th'[t].stepping
        /\ th'[t].pbp = th[t].pbp /\ th'[t].susp = th[t].susp
    BY <1>1, <1>3, <2>2, <2>3
       DEF Restart, Kernels, KernelThread, Records, ThreadRecords, InPtraceStop,
           OffTheByteNow
  <2>5. "resumeRunning" \notin Calls => th[t].pbp = NoAddr
    BY <1>1, <1>3, <2>2, LeaderAssumption DEF Steady, ReportedFirst, CurSuspended, SweepPoints
  <2>6. Placed(t)'
    <3>1. StepsOver(t)' /\ ~Trapped(t)' /\ ~Reporting(t)
      BY <1>1, <2>1 DEF StepsOver, Trapped, Reporting
    <3>2. Behind(t)' /\ AtByte(t)' /\ Ends(t)'
      BY <1>1, <2>2, <2>4, <3>1 DEF Placed, Behind, Hit, AtByte, Ends, InPtraceStop
    <3>3. Unstepped(t)' /\ Fresh(t)' /\ Noted(t)' /\ Waits(t)'
      BY <1>1, <2>2, <2>4, <2>5, <3>1
         DEF Placed, Unstepped, Fresh, Noted, Counted, Waits, InPtraceStop
    <3> QED
      BY <3>2, <3>3 DEF Placed
  <2>7. PlacedAll'
    <3>1. ASSUME NEW u \in Tid, u # t
          PROVE  Placed(u)'
      <4>1. SameTop(u)
        BY <1>1, <2>1, <3>1, SameTopAway DEF ThreadPoints
      <4> QED
        BY <1>1, <2>4, <3>1, <4>1, PlacedSame DEF Steady, PlacedAll, SameKernel, SameMarks
    <3> QED
      BY <2>6, <3>1 DEF PlacedAll
  <2>8. ReportedFirst'
    BY <1>1, <2>1, <2>4, ReportedStays DEF Steady, Suspended, SweepPoints
  <2>9. Position'
    BY <1>1, <1>3, <2>1, <2>2, <2>4
       DEF Position, Leaving, Awaited, Caught, Unasked, ToLift, ToDrain, Drained, Lifted,
           Stepped, OffTheByteNow
  <2>10. Whole'
    BY <1>1, <1>3, <2>1, LiftedStays DEF Steady, SwallowPoints
  <2> QED
    BY <2>7, <2>8, <2>9, <2>10 DEF Steady
<1>4. \A sig, how : AlikeMarks(Keep(th, cur, sig, how), th)
  BY <1>1, MarksKept
<1>5. AlikeMarks(th, th)
  BY DEF AlikeMarks
<1> QED
  BY <1>2, <1>3, <1>4, <1>5 DEF StepOffTheByte

LEMMA StepTakenSteady ==
  ASSUME IInv, CurInv, Steady, StepTaken
  PROVE  Steady'
<1> PICK t \in Tid : t = Top.tid
  BY TopIs
<1> DEFINE ths == ClearSingleStep(th, t)
<1>1. /\ Top.at = "stepWait" /\ recs' = recs /\ rearms' = rearms /\ stepReq' = stepReq
      /\ hits' = hits /\ armed' = Rearmed(Top.addr) /\ k[t].status # "none"
      /\ k \in Kernels /\ k[t] \in KernelThread /\ th \in Records /\ th[t] \in ThreadRecords
      /\ cur = t /\ Placed(t)
  BY TopOwn DEF StepTaken, At, userVars, IInv, Threads, Kernels, Records, OwnPoints, Steady,
                PlacedAll
<1>2. k[t].run = "stopped" /\ k[t].status \notin {"none", "int3"} /\ ~InPtraceStop(t)
  BY <1>1, RunsFree DEF Steady, Position, Stepped, Runs, InPtraceStop
<1>3. /\ ths \in Records
      /\ \A u \in Tid \ {t} : ths[u] = th[u]
      /\ ths[t].known <=> th[t].known
      /\ ths[t].running <=> th[t].running
      /\ ths[t].atBp <=> th[t].atBp
      /\ ~ths[t].stepping /\ ths[t].pbp = th[t].pbp /\ ths[t].susp = th[t].susp
  <2>1. ths \in Records
    BY <1>1, ClearIs
  <2>2. ths = [th EXCEPT ![t].stepping = FALSE]
    BY DEF ClearSingleStep
  <2> HIDE DEF ths
  <2> QED
    BY <1>1, <2>1, <2>2 DEF Records, ThreadRecords
<1>4. th[t].known
  BY <1>2, TopIs DEF Met
<1>5. CASE /\ k' = [k EXCEPT ![t].status = "none"]
           /\ th' = Announced(ths, t)
           /\ Return
  <2> HIDE DEF ths
  <2>1. Top'.at \notin PlacePoints \cup ThreadPoints
    BY <1>1, <1>5, NowTop, ReturnsTo DEF Return, SwallowPoints
  <2>2. \A u \in Tid \ {t} : SameTop(u)
    BY <1>1, <2>1, SameTopAway DEF ThreadPoints
  <2>3. \A u \in Tid : th'[u] = ths[u] \/ (~th[u].known /\ th'[u] = Announcement)
    BY <1>3, <1>5, AnnouncedNew DEF Announced
  <2>4. /\ \A u \in Tid \ {t} : SameKernel(u)
        /\ k'[t].status = "none" /\ k'[t].run = "stopped" /\ k'[t].at = k[t].at
        /\ k'[t].past <=> k[t].past
        /\ k'[t].dying <=> k[t].dying
    BY <1>1, <1>2, <1>5 DEF Kernels, KernelThread, SameKernel
  <2>5. th'[t] = ths[t]
    BY <1>4, <2>3
  <2>6. Placed(t)'
    <3>1. InPtraceStop(t)' /\ ~Trapped(t)' /\ ~Trapped(t) /\ ~Reporting(t)
      BY <1>1, <2>1, <2>4 DEF InPtraceStop, Trapped, Reporting, ThreadPoints
    <3>2. Behind(t)' /\ AtByte(t)' /\ Ends(t)'
      BY <1>1, <1>2, <1>3, <2>4, <2>5, <3>1 DEF Placed, Behind, Hit, AtByte, Ends
    <3>3. Unstepped(t)' /\ Fresh(t)' /\ Noted(t)' /\ Waits(t)'
      BY <1>1, <1>2, <1>3, <1>4, <2>4, <2>5, <3>1
         DEF Placed, Unstepped, Fresh, Noted, Counted, Waits
    <3> QED
      BY <3>2, <3>3 DEF Placed
  <2>7. ASSUME NEW u \in Tid
        PROVE  /\ (SameKernel(u) /\ SameMarks(u) /\ SameTop(u)) \/ Placed(u)'
               /\ \/ th'[u].pbp = NoAddr
                  \/ th'[u].pbp = th[u].pbp /\ (Suspended(u) => Suspended(u)')
    <3>1. CASE u = t
      BY <1>3, <2>5, <2>6, <3>1 DEF Suspended
    <3>2. CASE u # t /\ th'[u] = ths[u]
      BY <1>3, <2>2, <2>4, <3>2 DEF SameMarks, Suspended
    <3>3. CASE u # t /\ ~th[u].known /\ th'[u] = Announcement
      BY <1>1, <2>2, <2>4, <3>3, NewPlaced
    <3> QED
      BY <2>3, <3>1, <3>2, <3>3
  <2> QED
    BY <1>1, <1>5, <2>1, <2>7, StepPastEndsSteady
<1>6. CASE HandleSignal(t, ths, <<Frame("stepTaken", t)>> \o Tail(stack))
  <2>1. k[t].status # "exited"
    BY <1>2 DEF IInv, Threads, StatusOf
  <2>2. <<Frame("stepTaken", t)>> \o Tail(stack) \in Seq(Activations)
    <3>1. Frame("stepTaken", t) \in Activations
      BY FrameIs DEF Points
    <3>2. Tail(stack) \in Seq(Activations)
      BY <1>1, BelowIs
    <3> QED
      BY <3>1, <3>2
  <2>3. Whole'
    BY <1>1, LiftedBack DEF Steady
  <2> HIDE DEF ths
  <2> QED
    BY <1>1, <1>2, <1>3, <1>6, <2>1, <2>2, <2>3, HandledSteady
<1> QED
  BY <1>1, <1>5, <1>6 DEF StepTaken

LEMMA StepConsumedSteady ==
  ASSUME IInv, CurInv, Steady, StepConsumed
  PROVE  Steady'
<1>1. /\ Top.at = "stepTaken" /\ k' = k /\ th' = th /\ recs' = recs /\ armed' = armed
      /\ rearms' = rearms /\ stepReq' = stepReq /\ hits' = hits /\ Return
  BY DEF StepConsumed, At, kernelVars, bpVars, userVars, historyVars
<1>2. Top'.at \notin PlacePoints \cup ThreadPoints
  BY <1>1, NowTop, ReturnsTo DEF Return, SwallowPoints
<1>3. AlikeMarks(th', th)
  BY <1>1 DEF AlikeMarks
<1> QED
  BY <1>1, <1>2, <1>3, PlainSteady DEF LiftPoints, ThreadPoints, SweepPoints

LEMMA StepOverSteady ==
  ASSUME IInv, CurInv, Steady, StepOver
  PROVE  Steady'
BY SwallowSteady, SwallowTakeSteady, SwallowLostSteady, StepPastSteady, StepOffTheByteSteady,
   StepTakenSteady, StepConsumedSteady
   DEF StepOver

-----------------------------------------------------------------------------
(* ... and the resumes                                                     *)

\* The tracer goes on to where it does nothing to a thread.
Away(f) == f.at \notin PlacePoints \cup ThreadPoints
OnPoints == ResumePoints \cup ResumeAllPoints
              \cup {"takeResumes", "drain", "continueOrPark", "decide", "stepped", "cont"}
LEMMA OnSteady ==
  ASSUME IInv, CurInv, Steady, k' = k, AlikeMarks(th', th), recs' = recs,
         armed' = armed, rearms' = rearms, stepReq' = stepReq, hits' = hits,
         Top.at \in OnPoints, NEW f, NEW g,
         Return \/ (Become(f) /\ Away(f)) \/ (Call(f, g) /\ Away(f))
  PROVE  Steady'
<1>1. Top.at \notin LiftPoints \cup ThreadPoints \cup SwallowPoints \cup {"loop"} \cup SweepPoints
  BY DEF OnPoints, ResumePoints, ResumeAllPoints, LiftPoints, ThreadPoints, SwallowPoints,
         SweepPoints
<1>2. Top'.at \notin PlacePoints \cup ThreadPoints
  <2>1. CASE Return
    BY <1>1, <2>1, NowTop, ReturnsTo DEF Return
  <2>2. CASE Become(f) /\ Away(f)
    BY <2>2, NowTop DEF Become, Away
  <2>3. CASE Call(f, g) /\ Away(f)
    BY <2>3, NowTop DEF Call, Away
  <2> QED
    BY <2>1, <2>2, <2>3
<1> QED
  BY <1>1, <1>2, PlainSteady DEF ThreadPoints

\* A thread steps off the breakpoint it stands at.
LEMMA LiftsSteady ==
  ASSUME IInv, CurInv, Steady, k' = k, AlikeMarks(th', th), recs' = recs,
         armed' = armed, rearms' = rearms, stepReq' = stepReq, hits' = hits,
         Top.at \in OnPoints, NEW t \in Tid, OnBreakpoint(t), ~Suspended(t),
         NEW g, Call(Frame("stepPast", t), g)
  PROVE  Steady'
<1>1. Top.at \notin LiftPoints \cup ThreadPoints \cup SwallowPoints \cup {"loop"} \cup SweepPoints
  BY DEF OnPoints, ResumePoints, ResumeAllPoints, LiftPoints, ThreadPoints, SwallowPoints,
         SweepPoints
<1>2. Top'.at = "stepPast" /\ Top'.tid = t
  <2> DEFINE f == Frame("stepPast", t)
  <2>1. f.at = "stepPast" /\ f.tid = t
    BY DEF Frame
  <2> HIDE DEF f
  <2> QED
    BY <2>1, NowTop DEF Call, f
<1>3. Stopping(t) /\ ~k[t].dying
  BY <1>1, OnByteStands DEF ThreadPoints, Steady, PlacedAll
<1>4. \A u \in Tid : SameMarks(u) /\ (Suspended(u)' <=> Suspended(u))
  BY MarksSame
<1>5. PlacedAll'
  <2>1. \A u \in Tid : SameTop(u)
    BY <1>1, <1>2, SameTopAway DEF ThreadPoints
  <2> QED
    BY <1>4, <2>1, PlacedSame DEF Steady, PlacedAll, SameKernel
<1>6. ReportedFirst'
  BY <1>1, <1>2, <1>4 DEF Steady, ReportedFirst, SameMarks, SweepPoints
<1>7. Position'
  BY <1>2, <1>3, <1>4
     DEF Steady, Position, Leaving, Awaited, Caught, Unasked, ToLift, ToDrain, Drained, Lifted,
         Stepped, Stopping, InPtraceStop, SameMarks
<1>8. Whole'
  BY <1>1, WholeStays DEF Steady
<1> QED
  BY <1>5, <1>6, <1>7, <1>8 DEF Steady

\* A stopped thread that is not suspended goes on.
LEMMA RestartsSteady ==
  ASSUME IInv, CurInv, Steady, NEW t \in Tid, InPtraceStop(t), ~Suspended(t),
         k' = Restart(t, "run"), NEW ths \in Records, AlikeMarks(ths, th),
         th' = Running(ths, t), recs' = recs,
         armed' = armed, rearms' = rearms, stepReq' = stepReq, hits' = hits,
         Top.at \in OnPoints, NEW f, Return \/ (Become(f) /\ Away(f))
  PROVE  Steady'
<1>1. Top.at \notin LiftPoints \cup ThreadPoints \cup SwallowPoints \cup {"loop"} \cup SweepPoints
  BY DEF OnPoints, ResumePoints, ResumeAllPoints, LiftPoints, ThreadPoints, SwallowPoints,
         SweepPoints
<1>2. Top'.at \notin PlacePoints \cup ThreadPoints
  <2>1. CASE Return
    BY <1>1, <2>1, NowTop, ReturnsTo DEF Return
  <2>2. CASE Become(f) /\ Away(f)
    BY <2>2, NowTop DEF Become, Away
  <2> QED
    BY <2>1, <2>2
<1>3. \A u \in Tid : SameTop(u)
  BY <1>1, <1>2, SameTopAway
<1>4. /\ k \in Kernels /\ k[t] \in KernelThread /\ ths[t] \in ThreadRecords
  BY DEF IInv, Threads, Kernels, Records
<1>5. /\ \A u \in Tid \ {t} : k'[u] = k[u]
      /\ k'[t].run = "run" /\ k'[t].status = "none" /\ k'[t].at = k[t].at
      /\ k'[t].past <=> k[t].past
      /\ k'[t].dying <=> k[t].dying
  BY <1>4 DEF Restart, Kernels, KernelThread, InPtraceStop
<1>6. /\ \A u \in Tid \ {t} : th'[u] = ths[u]
      /\ th'[t].known <=> ths[t].known
      /\ th'[t].stepping <=> ths[t].stepping
      /\ ~th'[t].atBp /\ th'[t].pbp = ths[t].pbp /\ th'[t].susp = ths[t].susp
  BY <1>4 DEF Running, Records, ThreadRecords
<1>7. /\ Placed(t) /\ ~Trapped(t) /\ ~Reporting(t) /\ ~k[t].past
      /\ "resumeRunning" \notin Calls => th[t].pbp = NoAddr
  <2>1. Placed(t) /\ ~Trapped(t) /\ ~Reporting(t)
    BY <1>1 DEF Steady, PlacedAll, Trapped, Reporting, ThreadPoints
  <2> QED
    BY <1>1, <2>1, StoppedAhead DEF InPtraceStop, Steady, ReportedFirst
<1>8. Placed(t)'
  <2>1. /\ th'[t].known <=> th[t].known
        /\ th'[t].stepping <=> th[t].stepping
        /\ th'[t].pbp = th[t].pbp
    BY <1>6 DEF AlikeMarks
  <2>2. ~Trapped(t)' /\ ~InPtraceStop(t)'
    BY <1>3, <1>5, <1>7 DEF SameTop, InPtraceStop
  <2>3. Behind(t)' /\ AtByte(t)' /\ Ends(t)'
    BY <1>5, <1>6, <1>7, <2>2 DEF Placed, Behind, Hit, AtByte, Ends, InPtraceStop
  <2>4. Unstepped(t)' /\ Fresh(t)' /\ Waits(t)'
    BY <1>3, <1>6, <1>7, <2>1 DEF Placed, SameTop, Unstepped, Fresh, Waits
  <2>5. Noted(t)'
    BY <1>7, <2>1 DEF Placed, Noted, Counted, InPtraceStop
  <2> QED
    BY <2>3, <2>4, <2>5 DEF Placed
<1>9. ASSUME NEW u \in Tid
      PROVE  /\ Unaffected(u) \/ Placed(u)'
             /\ th'[u].pbp = th[u].pbp /\ (Suspended(u)' <=> Suspended(u))
  <2>1. CASE u = t
    BY <1>6, <1>8, <2>1 DEF AlikeMarks, Suspended
  <2>2. CASE u # t
    BY <1>3, <1>5, <1>6, <2>2
       DEF Unaffected, SameKernel, SameMarks, AlikeMarks, Suspended
  <2> QED
    BY <2>1, <2>2
<1>10. ReportedFirst'
  BY <1>1, <1>2, <1>9, ReportedStays DEF Steady, PlacePoints
<1> QED
  BY <1>1, <1>2, <1>9, <1>10, ElseSteady

LEMMA TakePendingResumesSteady ==
  ASSUME IInv, CurInv, Steady, TakePendingResumes
  PROVE  Steady'
<1> DEFINE f == [Frame("drain", Top.tid) EXCEPT !.todo = pendResume]
<1>1. /\ Top.at = "takeResumes" /\ k' = k /\ th' = th /\ recs' = recs /\ armed' = armed
      /\ rearms' = rearms /\ stepReq' = stepReq /\ hits' = hits /\ Become(f)
  BY DEF TakePendingResumes, At, kernelVars, bpVars, historyVars
<1>2. Away(f)
  BY DEF Away, Frame, PlacePoints, ThreadPoints
<1> HIDE DEF f
<1> QED
  BY <1>1, <1>2, OnSteady DEF OnPoints, AlikeMarks

LEMMA DrainPendingResumesSteady ==
  ASSUME IInv, CurInv, Steady, DrainPendingResumes
  PROVE  Steady'
<1>1. /\ Top.at = "drain" /\ k' = k /\ th' = th /\ recs' = recs /\ armed' = armed
      /\ rearms' = rearms /\ stepReq' = stepReq /\ hits' = hits
      /\ \/ Become(ContinueOrPark(Top.tid, FALSE, FALSE))
         \/ \E t \in Top.todo : Call(Frame("resume", t), [Top EXCEPT !.todo = @ \ {t}])
  BY DEF DrainPendingResumes, At, kernelVars, bpVars, userVars, historyVars
<1>2. \A t : Away(Frame("resume", t))
  BY DEF Away, Frame, PlacePoints, ThreadPoints
<1>3. Away(ContinueOrPark(Top.tid, FALSE, FALSE))
  BY TopIs, KindsOfFrame DEF Away, PlacePoints, ThreadPoints
<1> QED
  BY <1>1, <1>2, <1>3, OnSteady DEF OnPoints, AlikeMarks

LEMMA ResumeStoppedThreadSteady ==
  ASSUME IInv, CurInv, Steady, ResumeStoppedThread
  PROVE  Steady'
<1> PICK t \in Tid : t = Top.tid
  BY TopIs
<1>1. /\ Top.at = "resume" /\ k' = k /\ recs' = recs /\ armed' = armed
      /\ rearms' = rearms /\ stepReq' = stepReq /\ hits' = hits /\ th \in Records
  BY DEF ResumeStoppedThread, At, kernelVars, bpVars, userVars, historyVars, IInv, Threads,
         Records
<1>2. CASE (Return \/ Become(Frame("resumeNow", t))) /\ th' = th
  <2>1. Away(Frame("resumeNow", t))
    BY DEF Away, Frame, PlacePoints, ThreadPoints
  <2> QED
    BY <1>1, <1>2, <2>1, OnSteady DEF OnPoints, ResumePoints, AlikeMarks
<1>3. CASE Continuable(t) /\ OnBreakpoint(t) /\ StepOffAs(t, Frame("resumed", t))
  <2>1. ~Suspended(t) /\ AlikeMarks(th', th)
    BY <1>1, <1>3, MarksKept DEF Continuable, StepOffAs
  <2> QED
    BY <1>1, <1>3, <2>1, LiftsSteady DEF StepOffAs, OnPoints, ResumePoints
<1> QED
  BY <1>1, <1>2, <1>3 DEF ResumeStoppedThread

LEMMA ResumeSteppedOffSteady ==
  ASSUME IInv, CurInv, Steady, ResumeSteppedOff
  PROVE  Steady'
<1>1. /\ Top.at = "resumed" /\ k' = k /\ th' = th /\ recs' = recs /\ armed' = armed
      /\ rearms' = rearms /\ stepReq' = stepReq /\ hits' = hits
      /\ Return \/ Become(Frame("resumeNow", Top.tid))
  BY DEF ResumeSteppedOff, At, kernelVars, bpVars, userVars, historyVars
<1>2. Away(Frame("resumeNow", Top.tid))
  BY DEF Away, Frame, PlacePoints, ThreadPoints
<1> QED
  BY <1>1, <1>2, OnSteady DEF OnPoints, ResumePoints, AlikeMarks

LEMMA ContinueThreadSteady ==
  ASSUME IInv, CurInv, Steady, NEW t \in Tid, ContinueThread(t), recs' = recs,
         armed' = armed, rearms' = rearms, stepReq' = stepReq, hits' = hits,
         Top.at \in OnPoints, NEW f, Return \/ (Become(f) /\ Away(f))
  PROVE  Steady'
<1> DEFINE ths == [th EXCEPT ![t].psig = "none"]
<1>1. th \in Records
  BY DEF IInv, Threads, Records
<1>2. ths \in Records /\ AlikeMarks(ths, th)
  BY <1>1, FieldsAre, MarksKept
<1>3. CASE k' = k /\ (th' = th \/ th' = ths)
  <2>1. AlikeMarks(th', th)
    BY <1>2, <1>3 DEF AlikeMarks
  <2> QED
    BY <1>3, <2>1, OnSteady
<1>4. CASE /\ Continuable(t) /\ InPtraceStop(t)
           /\ k' = Restart(t, "run") /\ th' = Running(ths, t)
  <2>1. ~Suspended(t)
    BY <1>4 DEF Continuable
  <2> HIDE DEF ths
  <2> QED
    BY <1>2, <1>4, <2>1, RestartsSteady
<1> QED
  BY <1>3, <1>4 DEF ContinueThread

LEMMA ResumeNowSteady ==
  ASSUME IInv, CurInv, Steady, ResumeNow
  PROVE  Steady'
<1>1. /\ Top.at = "resumeNow" /\ Top.tid \in Tid /\ ContinueThread(Top.tid) /\ recs' = recs
      /\ armed' = armed /\ rearms' = rearms /\ stepReq' = stepReq /\ hits' = hits /\ Return
  BY TopIs DEF ResumeNow, At, bpVars, userVars
<1> QED
  BY <1>1, ContinueThreadSteady DEF OnPoints, ResumePoints

LEMMA StepOffSteady ==
  ASSUME IInv, CurInv, Steady, StepOff
  PROVE  Steady'
<1>1. /\ Top.at = "stepOff" /\ k' = k /\ recs' = recs /\ armed' = armed
      /\ rearms' = rearms /\ stepReq' = stepReq /\ hits' = hits /\ th \in Records
      /\ Top \in Activations
  <2>1. th \in Records /\ Top \in Activations
    BY TopIs DEF IInv, Threads, Records
  <2> QED
    BY <2>1, ZenonT(60) DEF StepOff, At, kernelVars, bpVars, userVars, historyVars
<1> DEFINE f == [Top EXCEPT !.at = "continueRest", !.todo = Top.rest]
           after(t) == [Top EXCEPT !.todo = @ \ {t}]
<1>2. CASE Become(f) /\ th' = th
  <2>1. Away(f)
    BY <1>1 DEF Away, Activations, PlacePoints, ThreadPoints
  <2> HIDE DEF f
  <2> QED
    BY <1>1, <1>2, <2>1, OnSteady DEF OnPoints, ResumeAllPoints, AlikeMarks
<1>3. ASSUME NEW t \in Tid, Become(after(t)), th' = th
      PROVE  Steady'
  <2>1. Away(after(t))
    BY <1>1 DEF Away, Activations, PlacePoints, ThreadPoints
  <2> HIDE DEF after
  <2> QED
    BY <1>1, <1>3, <2>1, OnSteady DEF OnPoints, ResumeAllPoints, AlikeMarks
<1>4. ASSUME NEW t \in Tid, Continuable(t), OnBreakpoint(t), NEW g, StepOffAs(t, g)
      PROVE  Steady'
  <2>1. ~Suspended(t) /\ AlikeMarks(th', th)
    BY <1>1, <1>4, MarksKept DEF Continuable, StepOffAs
  <2> QED
    BY <1>1, <1>4, <2>1, LiftsSteady DEF StepOffAs, OnPoints, ResumeAllPoints
<1>5. Top.todo \subseteq Tid
  BY <1>1 DEF Activations
<1> QED
  BY <1>2, <1>3, <1>4, <1>5, ZenonT(60) DEF StepOff

LEMMA AfterStepOffSteady ==
  ASSUME IInv, CurInv, Steady, AfterStepOff
  PROVE  Steady'
<1> DEFINE left == IF ret = "parked" THEN {Top.who} ELSE {}
           f == [Frame("stepOff", Top.tid) EXCEPT !.todo = Top.todo, !.rest = Top.rest \ left,
                                                  !.parked = Top.parked \cup left]
<1>1. /\ Top.at = "steppedOff" /\ k' = k /\ th' = th /\ recs' = recs /\ armed' = armed
      /\ rearms' = rearms /\ stepReq' = stepReq /\ hits' = hits /\ Become(f)
  BY DEF AfterStepOff, At, kernelVars, bpVars, userVars, historyVars
<1>2. Away(f)
  BY DEF Away, Frame, PlacePoints, ThreadPoints
<1> HIDE DEF f
<1> QED
  BY <1>1, <1>2, OnSteady DEF OnPoints, ResumeAllPoints, AlikeMarks

LEMMA ContinueRestSteady ==
  ASSUME IInv, CurInv, Steady, ContinueRest
  PROVE  Steady'
<1>1. /\ Top.at = "continueRest" /\ recs' = recs /\ armed' = armed
      /\ rearms' = rearms /\ stepReq' = stepReq /\ hits' = hits
      /\ Top \in Activations /\ Top.todo \subseteq Tid
  BY TopIs DEF ContinueRest, At, bpVars, userVars, Activations
<1> DEFINE f == [Top EXCEPT !.at = "continueParked", !.todo = Top.parked]
           after(t) == [Top EXCEPT !.todo = @ \ {t}]
<1>2. CASE Become(f) /\ k' = k /\ th' = th
  <2>1. Away(f)
    BY <1>1 DEF Away, Activations, PlacePoints, ThreadPoints
  <2> HIDE DEF f
  <2> QED
    BY <1>1, <1>2, <2>1, OnSteady DEF OnPoints, ResumeAllPoints, AlikeMarks
<1>3. ASSUME NEW t \in Tid, ContinueThread(t), Become(after(t))
      PROVE  Steady'
  <2>1. Away(after(t))
    BY <1>1 DEF Away, Activations, PlacePoints, ThreadPoints
  <2> HIDE DEF after
  <2> QED
    BY <1>1, <1>3, <2>1, ContinueThreadSteady DEF OnPoints, ResumeAllPoints
<1> QED
  BY <1>1, <1>2, <1>3, ZenonT(60) DEF ContinueRest

LEMMA ContinueParkedSteady ==
  ASSUME IInv, CurInv, Steady, ContinueParked
  PROVE  Steady'
<1>1. /\ Top.at = "continueParked" /\ k' = k /\ th' = th /\ recs' = recs /\ armed' = armed
      /\ rearms' = rearms /\ stepReq' = stepReq /\ hits' = hits
      /\ \/ Return
         \/ \E t \in Top.todo : Call(Frame("resume", t), [Top EXCEPT !.todo = @ \ {t}])
  BY DEF ContinueParked, At, kernelVars, bpVars, userVars, historyVars
<1>2. \A t : Away(Frame("resume", t))
  BY DEF Away, Frame, PlacePoints, ThreadPoints
<1> QED
  BY <1>1, <1>2, OnSteady DEF OnPoints, ResumeAllPoints, AlikeMarks

LEMMA ProceedSteady ==
  ASSUME IInv, CurInv, Steady, Proceed
  PROVE  Steady'
<1> PICK t \in Tid : t = Top.tid
  BY TopIs
<1>1. /\ Top.at = "continueOrPark" /\ recs' = recs /\ armed' = armed /\ cur = t
      /\ rearms' = rearms /\ stepReq' = stepReq /\ hits' = hits /\ th \in Records
      /\ t # NoTid
  BY TopOwn DEF Proceed, At, bpVars, IInv, Threads, Records, OwnPoints
<1>2. Away(Frame("wait", t))
  BY DEF Away, Frame, PlacePoints, ThreadPoints
<1>3. CASE th' = Keep(th, cur, Top.sig, "reported") /\ PauseIfAlone(t) /\ k' = k
  <2>1. AlikeMarks(th', th)
    BY <1>1, <1>3, MarksKept
  <2>2. Return \/ Become(Frame("wait", t))
    BY <1>3 DEF PauseIfAlone, BeginPause
  <2> QED
    BY <1>1, <1>2, <1>3, <2>1, <2>2, OnSteady DEF OnPoints
<1>4. CASE ~CurSuspended /\ InPtraceStop(t) /\ k' = Restart(t, "run") /\ th' = Running(th, cur)
           /\ Return
  <2>1. ~Suspended(t)
    BY <1>1, <1>4 DEF CurSuspended
  <2>2. AlikeMarks(th, th)
    BY DEF AlikeMarks
  <2> QED
    BY <1>1, <1>4, <2>1, <2>2, RestartsSteady DEF OnPoints
<1>5. CASE k' = k /\ th' = th /\ Return
  BY <1>1, <1>5, OnSteady DEF OnPoints, AlikeMarks
<1> QED
  BY <1>1, <1>3, <1>4, <1>5 DEF Proceed

LEMMA ResumeThreadsSteady ==
  ASSUME IInv, CurInv, Steady, ResumeThreads
  PROVE  Steady'
BY StepOffSteady, AfterStepOffSteady, ContinueRestSteady, ContinueParkedSteady, ProceedSteady,
   TakePendingResumesSteady, DrainPendingResumesSteady, ResumeStoppedThreadSteady,
   ResumeSteppedOffSteady, ResumeNowSteady
   DEF ResumeThreads

-----------------------------------------------------------------------------
(* ... and pauseAndResume                                                  *)

LEMMA WakeSteady ==
  ASSUME IInv, CurInv, Steady, Wake
  PROVE  Steady'
<1> DEFINE t == IF cur = NoTid THEN Top.tid ELSE cur
           away == t # Top.tid
           ths == Keep(th, Top.tid, away /\ curSig, "reported")
           f == Frame("pend", t)
<1>1. /\ Top.at = "wait" /\ k' = k /\ recs' = recs /\ armed' = armed /\ rearms' = rearms
      /\ stepReq' = stepReq /\ hits' = hits /\ th \in Records /\ Become(f)
      /\ th' = ths \/ th' = [ths EXCEPT ![t].psig = "none"]
  BY DEF Wake, At, kernelVars, bpVars, userVars, historyVars, IInv, Threads, Records
<1>2. AlikeMarks(th', th)
  <2>1. ths \in Records /\ AlikeMarks(ths, th)
    BY <1>1, KeepIs, MarksKept
  <2> HIDE DEF ths, t
  <2>2. AlikeMarks([ths EXCEPT ![t].psig = "none"], ths)
    BY <2>1, MarksKept
  <2> QED
    BY <1>1, <2>1, <2>2, MarksTrans
<1>3. Top'.at = "pend"
  <2>1. f.at = "pend"
    BY DEF Frame
  <2> HIDE DEF f
  <2> QED
    BY <1>1, <2>1, NowTop DEF Become
<1> QED
  BY <1>1, <1>2, <1>3, PlainSteady DEF LiftPoints, ThreadPoints, PlacePoints, SweepPoints

LEMMA ReportPendingHitSteady ==
  ASSUME IInv, CurInv, Steady, NEW t \in Tid, ReportPendingHit(t)
  PROVE  Steady'
<1> DEFINE ths == [th EXCEPT ![t].pbp = NoAddr]
<1>1. /\ Top.at = "pend" /\ k' = k /\ recs' = recs /\ armed' = armed /\ rearms' = rearms
      /\ stepReq' = stepReq /\ th \in Records
      /\ \/ /\ th[t].pbp \in recs
            /\ th' = Keep(ths, Top.tid, curSig, "reported")
            /\ BeginPause(t)
            /\ hits' = hits \ {t}
         \/ /\ th[t].pbp \notin recs
            /\ th' = ths
            /\ stack' = stack /\ hits' = hits
      /\ th[t].pbp # NoAddr /\ th[t].known
  BY DEF ReportPendingHit, PendingHit, At, kernelVars, bpVars, IInv, Threads, Records
<1>2. Top'.at \in {"wait", "pend"}
  <2>1. Frame("wait", t).at = "wait"
    BY DEF Frame
  <2> QED
    BY <1>1, <2>1, NowTop DEF BeginPause, Become, Top
<1>3. /\ ths \in Records /\ ths[t].pbp = NoAddr
      /\ \A u \in Tid : u # t => ths[u] = th[u]
      /\ ths[t].known <=> th[t].known
      /\ ths[t].running <=> th[t].running
      /\ ths[t].atBp <=> th[t].atBp
      /\ ths[t].stepping <=> th[t].stepping
  <2>1. ths \in Records
    BY <1>1, FieldsAre
  <2>2. ths = [th EXCEPT ![t].pbp = NoAddr] /\ th[t] \in ThreadRecords
    BY <1>1 DEF Records
  <2> HIDE DEF ths
  <2> QED
    BY <1>1, <2>1, <2>2 DEF Records, ThreadRecords
<1>4. th' = Keep(ths, Top.tid, curSig, "reported") \/ th' = ths
  BY <1>1
<1> HIDE DEF ths
<1>9. AlikeMarks(th', ths)
  <2>1. CASE th' = Keep(ths, Top.tid, curSig, "reported")
    BY <1>3, <2>1, MarksKept
  <2>2. CASE th' = ths
    BY <2>2 DEF AlikeMarks
  <2> QED
    BY <1>4, <2>1, <2>2
<1>5. \A u \in Tid : SameTop(u)
  BY <1>1, <1>2, SameTopAway DEF ThreadPoints
<1>6. Placed(t)'
  <2>1. Placed(t) /\ SameTop(t)
    BY <1>5 DEF Steady, PlacedAll
  <2>2. /\ th'[t].pbp = NoAddr
        /\ th'[t].known <=> th[t].known
        /\ th'[t].running <=> th[t].running
        /\ th'[t].atBp <=> th[t].atBp
        /\ th'[t].stepping <=> th[t].stepping
    BY <1>3, <1>9 DEF AlikeMarks
  <2>3. Behind(t)' /\ AtByte(t)' /\ Ends(t)'
    BY <1>1, <2>1, <2>2 DEF Placed, SameTop, Behind, Hit, AtByte, Ends, InPtraceStop
  <2>4. Unstepped(t)' /\ Fresh(t)' /\ Waits(t)'
    BY <2>1, <2>2 DEF Placed, SameTop, Unstepped, Fresh, Waits
  <2>5. Noted(t)'
    BY <1>1, <2>1, <2>2 DEF Placed, Noted, Counted
  <2> QED
    BY <2>3, <2>4, <2>5 DEF Placed
<1>7. ASSUME NEW u \in Tid, u # t
      PROVE  Unaffected(u)
  <2>1. SameMarks(u)
    BY <1>3, <1>9, <1>7 DEF AlikeMarks, SameMarks
  <2> QED
    BY <1>1, <1>5, <2>1 DEF Unaffected, SameKernel
<1>8. ReportedFirst'
  BY <1>2 DEF ReportedFirst, SweepPoints
<1> QED
  BY <1>1, <1>2, <1>6, <1>7, <1>8, ElseSteady DEF LiftPoints, PlacePoints

LEMMA ReportPendingSignalSteady ==
  ASSUME IInv, CurInv, Steady, NEW t \in Tid, ReportPendingSignal(t)
  PROVE  Steady'
<1> DEFINE ths == [th EXCEPT ![t].psig = "none"]
<1>1. /\ Top.at = "pend" /\ k' = k /\ recs' = recs /\ armed' = armed /\ rearms' = rearms
      /\ stepReq' = stepReq /\ hits' = hits /\ th \in Records
      /\ th' = Keep(ths, Top.tid, curSig, "reported")
      /\ BeginPause(t)
  BY DEF ReportPendingSignal, At, kernelVars, bpVars, historyVars, IInv, Threads, Records
<1>2. Top'.at = "wait"
  <2>1. Frame("wait", t).at = "wait"
    BY DEF Frame
  <2> QED
    BY <1>1, <2>1, NowTop DEF BeginPause, Become
<1>3. ths \in Records /\ AlikeMarks(ths, th)
  BY <1>1, FieldsAre, MarksKept
<1> HIDE DEF ths
<1>4. AlikeMarks(th', ths)
  BY <1>1, <1>3, MarksKept
<1>5. AlikeMarks(th', th)
  BY <1>3, <1>4, MarksTrans
<1> QED
  BY <1>1, <1>2, <1>5, PlainSteady DEF LiftPoints, ThreadPoints, PlacePoints, SweepPoints

\* All that is left has been reported, or is suspended.
LEMMA NothingPendingSteady ==
  ASSUME IInv, CurInv, Steady, NothingPending
  PROVE  Steady'
<1>1. /\ Top.at = "pend" /\ k' = k /\ th' = th /\ recs' = recs /\ armed' = armed
      /\ rearms' = rearms /\ stepReq' = stepReq /\ hits' = hits /\ Become(Frame("decide", Top.tid))
      /\ \A t \in Tid : ~PendingHit(t)
  BY DEF NothingPending, At, kernelVars, bpVars, userVars, historyVars, Steady, Position, Unasked
<1>2. Top'.at = "decide"
  BY <1>1, NowTop DEF Become, Frame
<1>3. \A t \in Tid : Unaffected(t)
  BY <1>1, <1>2, SameTopAway DEF Unaffected, SameKernel, SameMarks, ThreadPoints
<1>4. ReportedFirst'
  <2>1. ASSUME NEW t \in Tid, th[t].pbp # NoAddr
        PROVE  Suspended(t)
    <3>1. th[t].known
      BY <2>1 DEF Steady, PlacedAll, Placed, Fresh
    <3> QED
      BY <1>1, <2>1, <3>1 DEF PendingHit
  <2> QED
    BY <1>1, <1>2, <2>1 DEF ReportedFirst, Suspended
<1> QED
  BY <1>1, <1>2, <1>3, <1>4, ElseSteady DEF LiftPoints, PlacePoints

LEMMA DecideContinueSteady ==
  ASSUME IInv, CurInv, Steady, DecideContinue
  PROVE  Steady'
<1> PICK t \in Tid : t = Top.tid
  BY TopIs
<1>1. /\ Top.at = "decide" /\ k' = k /\ th' = th /\ recs' = recs
      /\ stepReq' = stepReq /\ hits' = hits /\ cur = t
  BY TopOwn DEF DecideContinue, At, kernelVars, userVars, historyVars, OwnPoints
<1>2. AlikeMarks(th', th)
  BY <1>1 DEF AlikeMarks
<1>3. Away(ResumeFrom(t, FALSE)) /\ ResumeFrom(t, FALSE).at = "cont"
  BY KindsOfFrame DEF Away, PlacePoints, ThreadPoints
<1>4. CASE /\ ~Suspended(cur) /\ OnBreakpoint(cur)
           /\ Call(Frame("stepPast", t), Frame("stepped", t))
           /\ UNCHANGED <<armed, rearms>>
  BY <1>1, <1>2, <1>4, LiftsSteady DEF OnPoints
<1>5. CASE k[cur].at \in Rep /\ Lift(cur) /\ Become(ResumeFrom(t, FALSE))
  <2>1. Top'.at = "cont"
    BY <1>3, <1>5, NowTop DEF Become
  <2>2. PlacedAll'
    <3>1. \A u \in Tid : SameTop(u)
      BY <1>1, <2>1, SameTopAway DEF ThreadPoints
    <3> QED
      BY <1>1, <3>1, PlacedSame DEF Steady, PlacedAll, SameKernel, SameMarks
  <2>3. ReportedFirst'
    BY <1>1, <2>1, ReportedStays DEF Steady, Suspended, SweepPoints
  <2>4. Position'
    BY <1>1, <2>1, PositionFree DEF Steady, Position, Unasked, PlacePoints
  <2>5. Whole'
    BY <1>5 DEF Whole
  <2> QED
    BY <2>2, <2>3, <2>4, <2>5 DEF Steady
<1>6. CASE Become(ResumeFrom(t, FALSE)) /\ UNCHANGED <<armed, rearms>>
  BY <1>1, <1>2, <1>3, <1>6, OnSteady DEF OnPoints
<1> QED
  BY <1>1, <1>4, <1>5, <1>6 DEF DecideContinue

\* The frame of resumeAllThreads, whatever it has left to do.
LEMMA ResumeAllIs ==
  ASSUME NEW t, NEW below, ResumeAll(t, below)
  PROVE  \E f : stack' = <<f>> \o below /\ f.at = "stepOff" /\ Away(f)
<1>1. PICK T : stack' = <<ResumesAll(t, T)>> \o below
  BY Zenon DEF ResumeAll, ResumesAll
<1>2. ResumesAll(t, T).at = "stepOff"
  BY DEF ResumesAll, Frame
<1> QED
  BY <1>1, <1>2 DEF Away, PlacePoints, ThreadPoints

LEMMA SteppedPastSteady ==
  ASSUME IInv, CurInv, Steady, SteppedPast
  PROVE  Steady'
<1> PICK t \in Tid : t = Top.tid
  BY TopIs
<1> DEFINE g == ResumeFrom(t, ret = "parked")
<1>1. /\ Top.at = "stepped" /\ k' = k /\ th' = th /\ recs' = recs /\ armed' = armed
      /\ rearms' = rearms /\ stepReq' = stepReq /\ hits' = hits
  BY DEF SteppedPast, At, kernelVars, bpVars, userVars, historyVars
<1>2. AlikeMarks(th', th)
  BY <1>1 DEF AlikeMarks
<1>3. Away(g)
  <2>1. (ret = "parked") \in BOOLEAN
    OBVIOUS
  <2> QED
    BY <2>1, KindsOfFrame DEF Away, PlacePoints, ThreadPoints
<1>4. AbandonAllStop(t) \/ Become(g)
  BY DEF SteppedPast
<1> HIDE DEF g
<1>5. CASE Become(g)
  BY <1>1, <1>2, <1>3, <1>5, OnSteady DEF OnPoints
<1>6. CASE Return
  BY <1>1, <1>2, <1>6, OnSteady DEF OnPoints
<1>7. CASE ResumeAll(t, Tail(stack))
  <2>1. PICK f : Become(f) /\ Away(f)
    BY <1>7, ResumeAllIs DEF Become
  <2> QED
    BY <1>1, <1>2, <2>1, OnSteady DEF OnPoints
<1> QED
  BY <1>4, <1>5, <1>6, <1>7 DEF AbandonAllStop

LEMMA ContinueAllSteady ==
  ASSUME IInv, CurInv, Steady, ContinueAll
  PROVE  Steady'
<1> PICK t \in Tid : t = Top.tid
  BY TopIs
<1> DEFINE g == ContinueOrPark(t, curSig, Top.park)
           s == <<g>> \o Tail(stack)
<1>1. /\ Top.at = "cont" /\ k' = k /\ th' = th /\ recs' = recs /\ armed' = armed
      /\ rearms' = rearms /\ stepReq' = stepReq /\ hits' = hits
  BY DEF ContinueAll, At, kernelVars, bpVars, historyVars
<1>2. AlikeMarks(th', th)
  <2>1. th' = th
    BY <1>1
  <2> QED
    BY <2>1 DEF AlikeMarks
<1>3. BeginPause(t) \/ ResumeAll(t, s)
  BY DEF ContinueAll
<1>4. s \in Seq(Activations)
  <2>1. Top.park \in BOOLEAN /\ curSig \in BOOLEAN
    BY TopIs DEF Activations, IInv, Flags
  <2>2. g \in Activations
    BY <2>1, KindsOfFrame
  <2>3. Tail(stack) \in Seq(Activations)
    BY <1>1, BelowIs
  <2> HIDE DEF g
  <2> QED
    BY <2>2, <2>3
<1> HIDE DEF g, s
<1>5. Top'.at \notin PlacePoints \cup ThreadPoints
  <2>1. CASE BeginPause(t)
    <3>1. Away(Frame("wait", t))
      BY DEF Away, Frame, PlacePoints, ThreadPoints
    <3> QED
      BY <2>1, <3>1, NowTop DEF BeginPause, Become, Away
  <2>2. CASE ResumeAll(t, s)
    <3>1. PICK f : stack' = <<f>> \o s /\ Away(f)
      BY <2>2, ResumeAllIs
    <3> QED
      BY <1>4, <3>1, HeadIs DEF Top, Away
  <2> QED
    BY <1>3, <2>1, <2>2
<1> QED
  BY <1>1, <1>2, <1>5, PlainSteady DEF LiftPoints, ThreadPoints, SweepPoints

LEMMA PauseAndResumeSteady ==
  ASSUME IInv, CurInv, Steady, PauseAndResume
  PROVE  Steady'
<1>1. ~stepReq /\ Top.at # "stepNow"
  BY DEF Steady, Position, Unasked
<1>2. ~DecideStep /\ ~StepNow
  BY <1>1 DEF DecideStep, StepNow, At
<1> QED
  BY <1>2, WakeSteady, NothingPendingSteady, DecideContinueSteady, SteppedPastSteady,
     ContinueAllSteady, ReportPendingHitSteady, ReportPendingSignalSteady
     DEF PauseAndResume

-----------------------------------------------------------------------------
(* ... and every step                                                      *)

LEMMA InitSteady == Init => Steady
<1> SUFFICES ASSUME Init
             PROVE  Steady
  OBVIOUS
<1>1. PICK own \in SUBSET (Tid \ Births) :
        /\ k = [t \in Tid |-> IF t \in Births THEN Unborn ELSE Attached(t \in own)]
        /\ th = [t \in Tid |-> IF t \in Births THEN NoThread ELSE ThreadRecord(t \in own)]
  BY DEF Init
<1>2. /\ recs = {} /\ armed = {} /\ rearms = [t \in Tid |-> NoAddr] /\ ~stepReq /\ hits = {}
  BY DEF Init
<1>3. Top.at = "wait"
  BY DEF Init, Top, Frame
<1>4. ASSUME NEW t \in Tid
      PROVE  Placed(t)
  <2>1. /\ k[t].run \in {"unborn", "stopped"} /\ k[t].status = "none" /\ ~k[t].past
        /\ ~k[t].dying
    BY <1>1 DEF Unborn, Attached
  <2>2. ~th[t].atBp /\ ~th[t].stepping /\ th[t].pbp = NoAddr
    <3>1. NoThread \in ThreadRecords
      BY BoundAssumption DEF NoThread, ThreadRecords
    <3>2. ~NoThread.atBp /\ ~NoThread.stepping /\ NoThread.pbp = NoAddr
      BY DEF NoThread
    <3>3. /\ NewThread \in ThreadRecords
          /\ ~NewThread.atBp /\ ~NewThread.stepping /\ NewThread.pbp = NoAddr
      BY <3>1, <3>2 DEF NewThread, ThreadRecords
    <3>4. ASSUME NEW mine
          PROVE  LET r == ThreadRecord(mine)
                 IN ~r.atBp /\ ~r.stepping /\ r.pbp = NoAddr
      BY <3>3 DEF ThreadRecord, ThreadRecords
    <3>5. th[t] = NoThread \/ th[t] = ThreadRecord(t \in own)
      BY <1>1
    <3> QED
      BY <3>2, <3>4, <3>5
  <2>3. ~Trapped(t)
    BY <1>3 DEF Trapped
  <2> QED
    BY <1>2, <2>1, <2>2, <2>3
       DEF Placed, Behind, Hit, AtByte, Ends, Unstepped, Fresh, Noted, Counted, Waits
<1>5. ReportedFirst
  BY <1>3 DEF ReportedFirst, SweepPoints
<1>6. Position
  BY <1>2, <1>3
     DEF Position, Leaving, Awaited, Caught, Unasked, ToLift, ToDrain, Drained, Lifted, Stepped
<1>7. Whole
  BY <1>2 DEF Whole
<1> QED
  BY <1>4, <1>5, <1>6, <1>7 DEF Steady, PlacedAll

LEMMA NextSteady ==
  ASSUME NoSteps, Deletes, IInv, CurInv, Steady, [Next]_vars
  PROVE  Steady'
<1>1. ASSUME NEW t \in Tid, Kernel(t) \/ SendSignal(t)
      PROVE  Steady'
  BY <1>1, KernelSteady, SendSignalSteady
<1>2. CASE User
  BY <1>2, UserSteady
<1>3. CASE Tracer
  BY <1>3, LoopSteady, SweepSteady, StepOverSteady, ResumeThreadsSteady, PauseAndResumeSteady
     DEF Tracer
<1>4. CASE UNCHANGED vars
  <2>1. /\ k' = k /\ th' = th /\ stack' = stack /\ ret' = ret /\ bpVars' = bpVars
        /\ rearms' = rearms /\ stepReq' = FALSE /\ hits' = hits
    BY <1>4 DEF vars, kernelVars, tracerVars, userVars, historyVars, Steady, Position, Unasked,
                IInv, Flags
  <2> QED
    BY <2>1, UntouchedSteady
<1> QED
  BY <1>1, <1>2, <1>3, <1>4 DEF Next

\* What the theorems of this section ask of the calls.
StepFree == NoSteps /\ ("delete" \in Calls => Restricted)

\* As long as the user does not step, a thread whose hit is being handled is behind the
\* int3 and every other one is not; whoever is noted to be at a breakpoint stands there; a
\* thread steps only over the one byte that is lifted for it, from which it cannot get away
\* unnoticed; what the sweep found is reported before anything runs; and every byte but
\* that one is in memory (handleSignal, stopAllThreads, stepPastBreakpoint,
\* swallowPendingSigstop, pauseAndResume).
THEOREM SteadyKept == ASSUME StepFree PROVE Spec => []Steady
<1> DEFINE Inv == IInv /\ CurInv /\ (Restricted => Accounted /\ Ready) /\ Steady
<1>1. Init => Inv
  BY InitIInv, InitCurInv, InitAll, InitSteady
<1>2. Inv /\ [Next]_vars => Inv'
  <2> SUFFICES ASSUME Inv, [Next]_vars
               PROVE  Inv'
    OBVIOUS
  <2>1. NoSteps /\ Deletes
    BY DEF StepFree, Deletes
  <2>2. Restricted => (Accounted /\ Ready)'
    BY NextAll
  <2> QED
    BY <2>1, <2>2, NextIInv, NextCurInv, NextSteady
<1>3. Inv => Steady
  OBVIOUS
<1> QED
  BY <1>1, <1>2, <1>3, PTL DEF Spec

-----------------------------------------------------------------------------
(* What follows for the breakpoints and the steps                          *)

LEMMA SteadyGives ==
  ASSUME IInv, Steady
  PROVE  NeverRunsPast /\ StepStaysAStep
<1>1. NeverRunsPast
  BY RunnerIs DEF NeverRunsPast
<1>2. ASSUME NEW t \in Tid, th[t].stepping
      PROVE  k[t].run # "run"
  <2>1. StepsOver(t)
    BY <1>2 DEF Steady, PlacedAll, Placed, Unstepped
  <2> QED
    BY <2>1 DEF StepsOver, Steady, Position, Stepped
<1> QED
  BY <1>1, <1>2 DEF StepStaysAStep

\* No thread is set going from behind the int3 it hit, inside the instruction: as long as
\* the user does not step, handleSignal, stopAllThreads and the step over a breakpoint put
\* it back to the breakpoint's address before PTRACE_CONT or PTRACE_SINGLESTEP, whatever
\* pauses, signals, suspends and resumes come in between.
THEOREM NeverRunsPastKept == ASSUME StepFree PROVE Spec => []NeverRunsPast
<1>1. IInv /\ Steady => NeverRunsPast
  BY SteadyGives
<1> QED
  BY <1>1, IInvInvariant, SteadyKept, PTL

\* The step over a breakpoint is one instruction: until its stop has been taken, no
\* PTRACE_CONT of another function of the tracer lets the thread run on (stepPastBreakpoint
\* sets mStepping, the handlers of its stop clear it).
THEOREM StepStaysAStepKept == ASSUME StepFree PROVE Spec => []StepStaysAStep
<1>1. IInv /\ Steady => StepStaysAStep
  BY SteadyGives
<1> QED
  BY <1>1, IInvInvariant, SteadyKept, PTL

\* A hit the user was not told of is not lost while no breakpoint is deleted: the kernel
\* holds its stop, a handler or the sweep has it, or it is noted on the thread
\* (mPendingBreakpoint), through every sweep, drain and step over.
THEOREM HitsAccountedKept ==
  ASSUME StepFree, "delete" \notin Calls
  PROVE  Spec => []HitsAccounted
<1>1. IInv /\ Steady => HitsAccounted
  <2> SUFFICES ASSUME IInv, Steady
               PROVE  HitsAccounted
    OBVIOUS
  <2>1. hits \subseteq Tid
    BY DEF IInv, Marks
  <2>2. \A t \in Tid : Counted(t)
    BY DEF Steady, PlacedAll, Placed, Noted
  <2> QED
    BY <2>1, <2>2 DEF Counted, Trapped, Reporting, HitsAccounted, At
<1> QED
  BY <1>1, IInvInvariant, SteadyKept, PTL

\* While the user looks at a pause every breakpoint's byte is in memory: whatever the
\* steps over it did (one that was taken, lost, or overtaken by a signal or an exit),
\* the byte they lifted is back, if no breakpoint is on a rep instruction.
THEOREM ArmedAtPauseKept ==
  ASSUME StepFree, Rep = {}
  PROVE  Spec => []ArmedAtPause
<1>1. IInv /\ Steady => ArmedAtPause
  <2> SUFFICES ASSUME IInv, Steady, Pausing
               PROVE  armed = recs
    BY DEF ArmedAtPause
  <2>1. Top.at = "wait" /\ armed \subseteq recs
    BY DEF Pausing, At, IInv, Bytes
  <2>2. \A a \in recs \ armed : LiftedFor(a)
    BY DEF Steady, Whole
  <2> QED
    BY <2>1, <2>2 DEF LiftedFor, SwallowPoints
<1> QED
  BY <1>1, IInvInvariant, SteadyKept, PTL

\* A hit the sweep found (mPendingBreakpoint) is reported while the thread is still at the
\* breakpoint, rewound onto it, as long as the user resumes threads only while everything
\* is paused.
THEOREM PendingHitInPlaceKept ==
  ASSUME StepFree, "resumeRunning" \notin Calls
  PROVE  Spec => []PendingHitInPlace
<1>1. Steady => PendingHitInPlace
  BY DEF Steady, PlacedAll, Placed, Waits, PendingHitInPlace
<1> QED
  BY <1>1, SteadyKept, PTL

=============================================================================
