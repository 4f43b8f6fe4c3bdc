-------------------------- MODULE ElfTracer_proofs --------------------------
(* The bookkeeping of ElfTracer for every set of threads, all combinations   *)
(* of calls and with or without timeouts: the types, and that a thread which *)
(* is booked as owing a SIGSTOP has one coming.                              *)
EXTENDS ElfTracer, FiniteSetTheorems, SequenceTheorems, TLAPS

\* A stop that can be taken is one of a stopped thread, an end one of a dead thread.
StatusOf ==
  \A t \in Tid : /\ k[t].status \notin {"none", "exited"} => k[t].run = "stopped"
                 /\ k[t].status = "exited" => k[t].run = "dead"

\* The tracer knows a thread, unless that has died.
Met(t, kernel, threads) == threads[t].known \/ kernel[t].run = "dead"

\* A SIGSTOP is owed, or the one a thread starts with is still coming.
StopComing(t) == k[t].stopq \/ k[t].status = "stop"
Owed == \A t \in Tid : Living(t) /\ (th[t].pss \/ ~th[t].known) => StopComing(t)

\* Signals that are queued come from those that are left.
SignalsBounded == \A t \in Tid : k[t].sigq + signalsLeft <= MaxSignals

Threads ==
  /\ k \in [Tid -> KernelThread]
  /\ th \in [Tid -> ThreadRecords]
  /\ signalsLeft \in 0 .. MaxSignals /\ SignalsBounded
  /\ StatusOf
  /\ \A t \in Tid : th[t].running => Met(t, k, th)
  /\ Owed

\* The breakpoints, and everything else that has just a type.
Bytes ==
  /\ armed \subseteq recs /\ recs \subseteq Addr
  /\ rearms \in [Tid -> Addr \cup {NoAddr}]
Flags ==
  /\ procStop \in BOOLEAN /\ curSig \in BOOLEAN /\ allStopped \in BOOLEAN
  /\ paused \in BOOLEAN /\ stepReq \in BOOLEAN /\ pauseReq \in BOOLEAN /\ kick \in BOOLEAN
Marks ==
  /\ ret \in {"drained", "lost", "stepped", "parked", "consumed"}
  /\ pendSuspend \subseteq Tid /\ hits \subseteq Tid /\ owed \in [Tid -> Int]

\* What the tracer refers to are threads it knows.
Current ==
  /\ cur \in Tid \cup {NoTid} /\ (cur # NoTid => Met(cur, k, th))
  /\ pendResume \subseteq Tid /\ \A t \in pendResume : Met(t, k, th)
MetBy(f, kernel, threads) ==
  /\ Met(f.tid, kernel, threads)
  /\ f.who # NoTid => Met(f.who, kernel, threads)
  /\ f.prev # NoTid => Met(f.prev, kernel, threads)
  /\ \A t \in f.todo \cup f.rest \cup f.parked : Met(t, kernel, threads)

\* One loop at the bottom; the activations below the top are ones that called another,
\* and a step over the byte is for some thread.
Callers == {"loop", "stepNow", "stepped", "lifted", "stepTaken", "resumed", "drain",
            "steppedOff", "continueParked", "continueOrPark"}
Shape(s) ==
  /\ s \in Seq(Activations) /\ s # <<>>
  /\ \A i \in 1 .. Len(s) : s[i].at = "loop" <=> i = Len(s)
  /\ \A i \in 2 .. Len(s) : s[i].at \in Callers
  /\ \A i \in 1 .. Len(s) : s[i].at = "steppedOff" => s[i].who \in Tid
Frames ==
  /\ Shape(stack)
  /\ \A i \in 1 .. Len(stack) : MetBy(stack[i], k, th)

\* What the tracer handles is a thread in ptrace-stop, what it waits for will stop.
StopPoints == {"stop", "stopForResumes", "stopForPause", "exit"}
Handled ==
  /\ Top.at \in StopPoints => InPtraceStop(Top.tid)
  /\ Top.at = "sweepWait" => Top.who \in Tid /\ (Living(Top.who) => StopComing(Top.who))

IInv == Threads /\ Bytes /\ Flags /\ Marks /\ Current /\ Frames /\ Handled

-----------------------------------------------------------------------------
(* The stack                                                               *)

\* A sequence with other elements in front.
LEMMA Front ==
  ASSUME NEW S, NEW s \in Seq(S), NEW f \in S
  PROVE  /\ <<f>> \o s \in Seq(S) /\ <<f>> \o s # <<>>
         /\ Len(<<f>> \o s) = Len(s) + 1
         /\ (<<f>> \o s)[1] = f /\ Head(<<f>> \o s) = f
         /\ \A i \in 1 .. Len(s) : (<<f>> \o s)[i + 1] = s[i]
<1>1. Len(s) \in Nat /\ <<f>> \in Seq(S) /\ Len(<<f>>) = 1 /\ <<f>>[1] = f
  OBVIOUS
<1>2. /\ <<f>> \o s \in Seq(S)
      /\ Len(<<f>> \o s) = Len(s) + 1
      /\ \A i \in 1 .. 1 + Len(s) : (<<f>> \o s)[i] = IF i <= 1 THEN <<f>>[i] ELSE s[i - 1]
  BY <1>1, ConcatProperties
<1>3. (<<f>> \o s)[1] = f
  BY <1>1, <1>2
<1>4. \A i \in 1 .. Len(s) : (<<f>> \o s)[i + 1] = s[i]
  BY <1>1, <1>2
<1>5. <<f>> \o s # <<>>
  BY <1>1, <1>2, EmptySeq
<1>6. Head(<<f>> \o s) = f
  BY <1>2, <1>3, <1>5, HeadTailProperties
<1> QED
  BY <1>2, <1>3, <1>4, <1>5, <1>6

\* Where the frames of a stack come from.
From(s2, s, F) ==
  \A i \in 1 .. Len(s2) : s2[i] \in F \/ \E j \in 1 .. Len(s) : s2[i] = s[j]

\* An activation that can be called by another one.
Above(f) == /\ f \in Activations /\ f.at # "loop"
            /\ f.at = "steppedOff" => f.who \in Tid

\* An activation called by the top one.
LEMMA Pushed ==
  ASSUME NEW s, Shape(s), Head(s).at \in Callers, NEW f, Above(f)
  PROVE  /\ Shape(<<f>> \o s) /\ Head(<<f>> \o s) = f
         /\ From(<<f>> \o s, s, {f})
<1> DEFINE s2 == <<f>> \o s
<1>1. s \in Seq(Activations) /\ s # <<>> /\ f \in Activations /\ f.at # "loop"
  BY DEF Shape, Above
<1>2. Len(s) \in Nat \ {0} /\ Head(s) = s[1]
  BY <1>1, EmptySeq, HeadTailProperties
<1>3. /\ s2 \in Seq(Activations) /\ s2 # <<>> /\ Len(s2) = Len(s) + 1
      /\ s2[1] = f /\ Head(s2) = f
      /\ \A i \in 1 .. Len(s) : s2[i + 1] = s[i]
  BY <1>1, Front
<1> HIDE DEF s2
<1>4. \A i \in 2 .. Len(s2) : i - 1 \in 1 .. Len(s) /\ s2[i] = s[i - 1]
  <2>1. \A i \in 2 .. Len(s2) : i - 1 \in 1 .. Len(s) /\ (i - 1) + 1 = i
    BY <1>2, <1>3
  <2> QED
    BY <2>1, <1>3
<1>5. \A i \in 1 .. Len(s2) : s2[i].at = "loop" <=> i = Len(s2)
  <2>1. \A i \in 1 .. Len(s) : s[i].at = "loop" <=> i = Len(s)
    BY DEF Shape
  <2>2. \A i \in 2 .. Len(s2) : s2[i].at = "loop" <=> i = Len(s2)
    BY <1>2, <1>3, <1>4, <2>1
  <2> QED
    BY <1>1, <1>2, <1>3, <2>2
<1>6. \A i \in 2 .. Len(s2) : s2[i].at \in Callers
  <2>1. \A i \in 2 .. Len(s) : s[i].at \in Callers
    BY DEF Shape
  <2> QED
    BY <1>2, <1>4, <2>1
<1>7. From(s2, s, {f})
  BY <1>2, <1>3, <1>4 DEF From
<1>8. \A i \in 1 .. Len(s2) : s2[i].at = "steppedOff" => s2[i].who \in Tid
  <2>1. \A i \in 1 .. Len(s) : s[i].at = "steppedOff" => s[i].who \in Tid
    BY DEF Shape
  <2>2. \A i \in 2 .. Len(s2) : s2[i].at = "steppedOff" => s2[i].who \in Tid
    BY <1>4, <2>1
  <2>3. f.at = "steppedOff" => f.who \in Tid
    BY DEF Above
  <2> QED
    BY <1>2, <1>3, <2>2, <2>3
<1> QED
  BY <1>3, <1>5, <1>6, <1>7, <1>8 DEF Shape, s2

\* The top activation returns.
LEMMA Popped ==
  ASSUME NEW s, Shape(s), Head(s).at # "loop"
  PROVE  /\ Shape(Tail(s)) /\ Head(Tail(s)).at \in Callers
         /\ From(Tail(s), s, {})
<1>1. s \in Seq(Activations) /\ s # <<>>
  BY DEF Shape
<1>2. Len(s) \in Nat \ {0} /\ Head(s) = s[1]
  BY <1>1, EmptySeq, HeadTailProperties
<1>3. Len(s) > 1
  BY <1>2 DEF Shape
<1>4. /\ Tail(s) \in Seq(Activations) /\ Len(Tail(s)) = Len(s) - 1
      /\ \A i \in 1 .. Len(Tail(s)) : Tail(s)[i] = s[i + 1]
  BY <1>1, HeadTailProperties
<1> DEFINE r == Tail(s)
<1>5. r # <<>> /\ Head(r) = r[1]
  <2>1. r \in Seq(Activations) /\ Len(r) > 0
    BY <1>2, <1>3, <1>4
  <2> HIDE DEF r
  <2>2. r # <<>>
    BY <2>1, EmptySeq
  <2> QED
    BY <2>1, <2>2, HeadTailProperties
<1> HIDE DEF r
<1>6. Len(r) = Len(s) - 1 /\ r \in Seq(Activations)
  BY <1>4 DEF r
<1>7. \A i \in 1 .. Len(r) : /\ i + 1 \in 2 .. Len(s) /\ i + 1 \in 1 .. Len(s)
                            /\ r[i] = s[i + 1]
  BY <1>2, <1>4, <1>6 DEF r
<1>8. \A i \in 1 .. Len(r) : r[i].at = "loop" <=> i = Len(r)
  <2>1. \A i \in 1 .. Len(s) : s[i].at = "loop" <=> i = Len(s)
    BY DEF Shape
  <2> QED
    BY <1>2, <1>6, <1>7, <2>1
<1>9. \A i \in 1 .. Len(r) : r[i].at \in Callers
  <2>1. \A i \in 2 .. Len(s) : s[i].at \in Callers
    BY DEF Shape
  <2> QED
    BY <1>7, <2>1
<1>10. Head(r).at \in Callers
  BY <1>2, <1>3, <1>5, <1>6, <1>9
<1>11. Shape(r)
  <2>1. \A i \in 1 .. Len(r) : r[i].at = "steppedOff" => r[i].who \in Tid
    <3>1. \A i \in 1 .. Len(s) : s[i].at = "steppedOff" => s[i].who \in Tid
      BY DEF Shape
    <3> QED
      BY <1>7, <3>1
  <2> QED
    BY <1>2, <1>3, <1>5, <1>6, <1>8, <1>9, <2>1 DEF Shape
<1>12. From(r, s, {})
  BY <1>7 DEF From
<1> QED
  BY <1>10, <1>11, <1>12 DEF r

LEMMA FromFrom ==
  ASSUME NEW s, NEW s1, NEW s2, NEW F, NEW G, From(s1, s, F), From(s2, s1, G)
  PROVE  From(s2, s, F \cup G)
BY DEF From

\* The top activation goes on to another point, or calls one that returns to it.
LEMMA Replaced ==
  ASSUME NEW s, Shape(s), Head(s).at # "loop", NEW f, Above(f)
  PROVE  /\ Shape(<<f>> \o Tail(s)) /\ Head(<<f>> \o Tail(s)) = f
         /\ From(<<f>> \o Tail(s), s, {f})
<1>1. Shape(Tail(s)) /\ Head(Tail(s)).at \in Callers /\ From(Tail(s), s, {})
  BY Popped
<1>2. /\ Shape(<<f>> \o Tail(s)) /\ Head(<<f>> \o Tail(s)) = f
      /\ From(<<f>> \o Tail(s), Tail(s), {f})
  BY <1>1, Pushed
<1>3. From(<<f>> \o Tail(s), s, {} \cup {f})
  BY <1>1, <1>2, FromFrom
<1>4. {} \cup {f} = {f}
  OBVIOUS
<1> QED
  BY <1>2, <1>3, <1>4

LEMMA Pair ==
  ASSUME NEW S, NEW f \in S, NEW g \in S
  PROVE  <<f>> \o <<g>> = <<f, g>>
<1>1. /\ <<f>> \in Seq(S) /\ <<g>> \in Seq(S) /\ <<f, g>> \in Seq(S)
      /\ Len(<<f>>) = 1 /\ Len(<<g>>) = 1 /\ Len(<<f, g>>) = 2
  OBVIOUS
<1>2. <<f>> \o <<g>> \in Seq(S) /\ Len(<<f>> \o <<g>>) = 2
  BY <1>1, ConcatProperties
<1>3. \A i \in 1 .. 2 : (<<f>> \o <<g>>)[i] = IF i <= 1 THEN <<f>>[i] ELSE <<g>>[i - 1]
  BY <1>1, ConcatProperties
<1>4. (<<f>> \o <<g>>)[1] = f /\ (<<f>> \o <<g>>)[2] = g
  BY <1>3
<1>5. \A i \in 1 .. 2 : (<<f>> \o <<g>>)[i] = <<f, g>>[i]
  BY <1>4
<1> QED
  BY <1>1, <1>2, <1>5, SeqEqual

LEMMA CalledFrom ==
  ASSUME NEW s, Shape(s), Head(s).at # "loop",
         NEW f, Above(f), NEW g, Above(g), g.at \in Callers
  PROVE  /\ Shape(<<f, g>> \o Tail(s)) /\ Head(<<f, g>> \o Tail(s)) = f
         /\ From(<<f, g>> \o Tail(s), s, {f, g})
         /\ <<f>> \o (<<g>> \o Tail(s)) = <<f, g>> \o Tail(s)
<1> DEFINE r == <<g>> \o Tail(s)
<1>1. /\ Shape(r) /\ Head(r) = g /\ From(r, s, {g})
  BY Replaced
<1>2. /\ Shape(<<f>> \o r) /\ Head(<<f>> \o r) = f /\ From(<<f>> \o r, r, {f})
  BY <1>1, Pushed
<1>3. From(<<f>> \o r, s, {g} \cup {f})
  BY <1>1, <1>2, FromFrom
<1>4. {g} \cup {f} = {f, g}
  OBVIOUS
<1>5. <<f>> \o r = <<f, g>> \o Tail(s)
  <2>1. Tail(s) \in Seq(Activations) /\ f \in Activations /\ g \in Activations
    BY Popped DEF Shape, Above
  <2>2. <<f>> \in Seq(Activations) /\ <<g>> \in Seq(Activations)
    BY <2>1
  <2>3. <<f>> \o <<g>> = <<f, g>>
    BY <2>1, Pair
  <2> QED
    BY <2>1, <2>2, <2>3, ConcatAssociative
<1> QED
  BY <1>2, <1>3, <1>4, <1>5
-----------------------------------------------------------------------------
(* Activations                                                             *)

LEMMA FrameIs ==
  ASSUME NEW t \in Tid, NEW point \in Points
  PROVE  /\ Frame(point, t) \in Activations
         /\ Frame(point, t).at = point /\ Frame(point, t).tid = t
         /\ Frame(point, t).who = NoTid /\ Frame(point, t).prev = NoTid
         /\ Frame(point, t).todo = {} /\ Frame(point, t).rest = {}
         /\ Frame(point, t).parked = {}
BY DEF Frame, Activations, Reasons

\* The fields an activation sets.
LEMMA WithFields ==
  ASSUME NEW f \in Activations
  PROVE  /\ \A p \in Points : [f EXCEPT !.at = p] \in Activations
         /\ \A b \in BOOLEAN : /\ [f EXCEPT !.sig = b] \in Activations
                               /\ [f EXCEPT !.park = b] \in Activations
         /\ \A w \in Reasons : [f EXCEPT !.why = w] \in Activations
         /\ \A T \in SUBSET Tid : [f EXCEPT !.todo = T] \in Activations
         /\ \A t \in Tid \cup {NoTid} : [f EXCEPT !.prev = t] \in Activations
BY DEF Activations

LEMMA KindsOfFrame ==
  ASSUME NEW t \in Tid
  PROVE  /\ \A why \in Reasons : /\ StopAll(t, why) \in Activations
                                 /\ StopAll(t, why).at = "sweep" /\ StopAll(t, why).tid = t
         /\ \A park \in BOOLEAN : /\ ResumeFrom(t, park) \in Activations
                                  /\ ResumeFrom(t, park).at = "cont"
                                  /\ ResumeFrom(t, park).tid = t
         /\ \A sig, park \in BOOLEAN : /\ ContinueOrPark(t, sig, park) \in Activations
                                       /\ ContinueOrPark(t, sig, park).at = "continueOrPark"
                                       /\ ContinueOrPark(t, sig, park).tid = t
<1>1. {"sweep", "cont", "continueOrPark"} \subseteq Points
  BY DEF Points
<1>2. \A p \in {"sweep", "cont", "continueOrPark"} : Frame(p, t) \in Activations
  BY <1>1, FrameIs
<1>3. \A why \in Reasons : StopAll(t, why) \in Activations
  BY <1>2, WithFields DEF StopAll
<1>4. \A park \in BOOLEAN : ResumeFrom(t, park) \in Activations
  BY <1>2, WithFields DEF ResumeFrom
<1>5. \A sig, park \in BOOLEAN : ContinueOrPark(t, sig, park) \in Activations
  <2> TAKE sig, park \in BOOLEAN
  <2> DEFINE f == Frame("continueOrPark", t)
             g == [f EXCEPT !.sig = sig]
  <2>1. g \in Activations
    BY <1>2, WithFields
  <2>2. [g EXCEPT !.park = park] \in Activations
    <3> HIDE DEF g
    <3> QED
      BY <2>1, WithFields
  <2>3. ContinueOrPark(t, sig, park) = [g EXCEPT !.park = park]
    BY DEF ContinueOrPark
  <2> QED
    BY <2>2, <2>3
<1>6. /\ \A why : StopAll(t, why).at = "sweep" /\ StopAll(t, why).tid = t
      /\ \A park : ResumeFrom(t, park).at = "cont" /\ ResumeFrom(t, park).tid = t
      /\ \A sig, park : /\ ContinueOrPark(t, sig, park).at = "continueOrPark"
                        /\ ContinueOrPark(t, sig, park).tid = t
  BY DEF StopAll, ResumeFrom, ContinueOrPark, Frame
<1> QED
  BY <1>3, <1>4, <1>5, <1>6

\* Activations that refer to no other thread than their own.
LEMMA MetByOwn ==
  ASSUME NEW kernel, NEW threads, NEW t, Met(t, kernel, threads)
  PROVE  /\ \A point : MetBy(Frame(point, t), kernel, threads)
         /\ \A why : MetBy(StopAll(t, why), kernel, threads)
         /\ \A park : MetBy(ResumeFrom(t, park), kernel, threads)
         /\ \A sig, park : MetBy(ContinueOrPark(t, sig, park), kernel, threads)
BY DEF MetBy, Frame, StopAll, ResumeFrom, ContinueOrPark

-----------------------------------------------------------------------------
(* What the steps have in common                                           *)

\* No thread is forgotten before it is dead.
MetStays == \A t \in Tid : Met(t, k, th) => Met(t, k', th')

LEMMA MetByStays ==
  ASSUME MetStays, NEW f \in Activations, MetBy(f, k, th)
  PROVE  MetBy(f, k', th')
<1>1. /\ f.tid \in Tid /\ f.who \in Tid \cup {NoTid} /\ f.prev \in Tid \cup {NoTid}
      /\ f.todo \cup f.rest \cup f.parked \subseteq Tid
  BY DEF Activations
<1> QED
  BY <1>1 DEF MetBy, MetStays

LEMMA FramesFrom ==
  ASSUME IInv, MetStays, Shape(stack'), NEW F, From(stack', stack, F),
         \A f \in F : MetBy(f, k', th')
  PROVE  Frames'
<1>1. \A j \in 1 .. Len(stack) : stack[j] \in Activations /\ MetBy(stack[j], k, th)
  BY ElementOfSeq DEF IInv, Frames, Shape
<1>2. \A j \in 1 .. Len(stack) : MetBy(stack[j], k', th')
  BY <1>1, MetByStays
<1>3. \A i \in 1 .. Len(stack') : MetBy(stack'[i], k', th')
  BY <1>2 DEF From
<1> QED
  BY <1>3 DEF Frames

LEMMA SameStack ==
  ASSUME IInv, MetStays, stack' = stack
  PROVE  Frames'
<1>1. From(stack', stack, {}) /\ Shape(stack')
  BY DEF From, IInv, Frames
<1> QED
  BY <1>1, FramesFrom

\* Of the top activation nothing is asked except in the handlers and the waits.
Free(f) == f.at \notin StopPoints \cup {"sweepWait"}

LEMMA HandledFree ==
  ASSUME Free(Head(stack'))
  PROVE  Handled'
BY DEF Free, Handled, Top

LEMMA CallersFree ==
  ASSUME NEW f, f.at \in Callers
  PROVE  Free(f)
BY DEF Free, Callers, StopPoints

\* The top activation.
LEMMA TopIs ==
  ASSUME IInv
  PROVE  /\ Top \in Activations /\ Top.tid \in Tid /\ MetBy(Top, k, th)
         /\ Met(Top.tid, k, th)
         /\ Shape(stack) /\ Head(stack) = Top
<1>1. Shape(stack) /\ stack \in Seq(Activations) /\ stack # <<>>
  BY DEF IInv, Frames, Shape
<1>2. Len(stack) \in Nat \ {0} /\ Head(stack) = stack[1]
  BY <1>1, EmptySeq, HeadTailProperties
<1>3. 1 \in 1 .. Len(stack)
  BY <1>2
<1>4. Top \in Activations /\ MetBy(Top, k, th)
  BY <1>1, <1>2, <1>3, ElementOfSeq DEF Top, IInv, Frames
<1> QED
  BY <1>1, <1>4 DEF Top, Activations, MetBy

LEMMA BecomeStep ==
  ASSUME IInv, MetStays, Top.at # "loop", NEW f, Above(f), MetBy(f, k', th'),
         stack' = <<f>> \o Tail(stack)
  PROVE  Frames' /\ Head(stack') = f /\ (Free(f) => Handled')
<1>1. Shape(stack') /\ Head(stack') = f /\ From(stack', stack, {f})
  BY TopIs, Replaced
<1> QED
  BY <1>1, FramesFrom, HandledFree

LEMMA CallStep ==
  ASSUME IInv, MetStays, Top.at # "loop", NEW f, Above(f), MetBy(f, k', th'), Free(f),
         NEW g, Above(g), MetBy(g, k', th'), g.at \in Callers,
         stack' = <<f, g>> \o Tail(stack)
  PROVE  Frames' /\ Handled'
<1>1. Shape(stack') /\ Head(stack') = f /\ From(stack', stack, {f, g})
  BY TopIs, CalledFrom
<1> QED
  BY <1>1, FramesFrom, HandledFree

LEMMA ReturnStep ==
  ASSUME IInv, MetStays, Top.at # "loop", stack' = Tail(stack)
  PROVE  Frames' /\ Handled'
<1>1. Shape(stack') /\ Head(stack').at \in Callers /\ From(stack', stack, {})
  BY TopIs, Popped
<1>2. Frames'
  BY <1>1, FramesFrom
<1>3. Handled'
  BY <1>1, HandledFree, CallersFree
<1> QED
  BY <1>2, <1>3

\* The current thread and the resumes that are pending stay, or some are dropped.
LEMMA CurrentStays ==
  ASSUME IInv, MetStays, cur' \in {cur, NoTid}, pendResume' \subseteq pendResume
  PROVE  Current'
BY DEF IInv, Current, MetStays

-----------------------------------------------------------------------------
(* The records of the threads                                              *)

Kernels == [Tid -> KernelThread]
Records == [Tid -> ThreadRecords]

\* What a step does to one thread.
ThreadStep(t) ==
  /\ k[t].run = "dead" => k'[t].run = "dead"
  /\ th[t].known \/ th'[t].running => Met(t, k', th')
  /\ k'[t].status \notin {"none", "exited"} => k'[t].run = "stopped"
  /\ k'[t].status = "exited" => k'[t].run = "dead"
  /\ k'[t].run \in {"run", "step", "stopped"} /\ ~k'[t].dying
       /\ (th'[t].pss \/ ~th'[t].known)
       => k'[t].stopq \/ k'[t].status = "stop"

LEMMA ThreadsBy ==
  ASSUME IInv, k' \in Kernels, th' \in Records, signalsLeft' \in 0 .. MaxSignals,
         \A t \in Tid : k'[t].sigq + signalsLeft' <= MaxSignals,
         \A t \in Tid : (k'[t] = k[t] /\ th'[t] = th[t]) \/ ThreadStep(t)
  PROVE  Threads' /\ MetStays
<1> USE DEF IInv, Threads
<1>1. MetStays
  BY DEF MetStays, Met, ThreadStep
<1>2. StatusOf'
  BY DEF StatusOf, ThreadStep
<1>3. \A t \in Tid : th'[t].running => Met(t, k', th')
  BY DEF Met, ThreadStep
<1>4. Owed'
  BY DEF Owed, ThreadStep, Living, StopComing
<1>5. SignalsBounded'
  BY DEF SignalsBounded
<1> QED
  BY <1>1, <1>2, <1>3, <1>4, <1>5 DEF Kernels, Records

LEMMA ThreadsSame ==
  ASSUME IInv, k' = k, th' = th, signalsLeft' = signalsLeft
  PROVE  Threads' /\ MetStays
<1>1. k' \in Kernels /\ th' \in Records /\ signalsLeft' \in 0 .. MaxSignals
  BY DEF IInv, Threads, Kernels, Records
<1>2. \A t \in Tid : k'[t].sigq + signalsLeft' <= MaxSignals
  BY DEF IInv, Threads, SignalsBounded
<1> QED
  BY <1>1, <1>2, ThreadsBy

\* A thread is known, runs and owes as before.
Alike(ths, ths2) ==
  \A t \in Tid : /\ ths[t].known = ths2[t].known
                 /\ ths[t].running = ths2[t].running
                 /\ ths[t].pss = ths2[t].pss

LEMMA ThreadsAlike ==
  ASSUME IInv, k' = k, th' \in Records, Alike(th', th), signalsLeft' = signalsLeft
  PROVE  Threads' /\ MetStays
<1>1. k' \in Kernels /\ signalsLeft' \in 0 .. MaxSignals
  BY DEF IInv, Threads, Kernels
<1>2. \A t \in Tid : k'[t].sigq + signalsLeft' <= MaxSignals
  BY DEF IInv, Threads, SignalsBounded
<1>3. \A t \in Tid : ThreadStep(t)
  BY DEF IInv, Threads, StatusOf, Owed, Alike, ThreadStep, Met, Living, StopComing
<1> QED
  BY <1>1, <1>2, <1>3, ThreadsBy

\* What the operators on the records do.
LEMMA KeepIs ==
  ASSUME NEW ths \in Records, NEW t, NEW sig, NEW how \in {"reported", "unreported"}
  PROVE  Keep(ths, t, sig, how) \in Records /\ Alike(Keep(ths, t, sig, how), ths)
<1>1. /\ [ths EXCEPT ![t].psig = how] \in Records
      /\ Alike([ths EXCEPT ![t].psig = how], ths)
  BY DEF Records, ThreadRecords, Alike
<1> QED
  BY <1>1 DEF Keep, Alike

LEMMA ClearIs ==
  ASSUME NEW ths \in Records, NEW t
  PROVE  /\ ClearSingleStep(ths, t) \in Records
         /\ Alike(ClearSingleStep(ths, t), ths)
BY DEF ClearSingleStep, Records, ThreadRecords, Alike

LEMMA FieldsAre ==
  ASSUME NEW ths \in Records, NEW t
  PROVE  /\ [ths EXCEPT ![t].psig = "none"] \in Records
         /\ Alike([ths EXCEPT ![t].psig = "none"], ths)
         /\ [ths EXCEPT ![t].pbp = NoAddr] \in Records
         /\ Alike([ths EXCEPT ![t].pbp = NoAddr], ths)
         /\ [ths EXCEPT ![t].atBp = TRUE] \in Records
         /\ Alike([ths EXCEPT ![t].atBp = TRUE], ths)
BY DEF Records, ThreadRecords, Alike

LEMMA SteppingIs ==
  ASSUME NEW ths \in Records, NEW t
  PROVE  /\ [ths EXCEPT ![t].stepping = TRUE, ![t].atBp = FALSE] \in Records
         /\ Alike([ths EXCEPT ![t].stepping = TRUE, ![t].atBp = FALSE], ths)
         /\ [ths EXCEPT ![t].stepping = TRUE, ![t].pbp = NoAddr] \in Records
         /\ Alike([ths EXCEPT ![t].stepping = TRUE, ![t].pbp = NoAddr], ths)
<1>1. /\ [ths EXCEPT ![t].stepping = TRUE, ![t].atBp = FALSE] \in Records
      /\ Alike([ths EXCEPT ![t].stepping = TRUE, ![t].atBp = FALSE], ths)
  BY DEF Records, ThreadRecords, Alike
<1>2. /\ [ths EXCEPT ![t].stepping = TRUE, ![t].pbp = NoAddr] \in Records
      /\ Alike([ths EXCEPT ![t].stepping = TRUE, ![t].pbp = NoAddr], ths)
  BY DEF Records, ThreadRecords, Alike
<1> QED
  BY <1>1, <1>2

LEMMA ClaimIs ==
  ASSUME th \in Records, k \in Kernels, NEW t \in Tid
  PROVE  Claim(t) \in Records /\ Alike(Claim(t), th)
<1>1. k[t].at \in Addr \cup {NoAddr}
  BY DEF Kernels, KernelThread
<1> DEFINE a == k[t].at
           ths == [th EXCEPT ![t].atBp = TRUE, ![t].pbp = a]
<1>2. a \in Addr \cup {NoAddr}
  BY <1>1
<1> HIDE DEF a
<1>3. ths \in Records
  <2>1. th[t] \in ThreadRecords
    BY DEF Records
  <2>2. [th[t] EXCEPT !.atBp = TRUE, !.pbp = a] \in ThreadRecords
    BY <1>2, <2>1 DEF ThreadRecords
  <2>3. ths = [th EXCEPT ![t] = [th[t] EXCEPT !.atBp = TRUE, !.pbp = a]]
    BY DEF Records
  <2> HIDE DEF ths
  <2> QED
    BY <2>2, <2>3 DEF Records
<1>4. Alike(ths, th)
  BY DEF Records, ThreadRecords, Alike
<1>5. Claim(t) \in {ths, th}
  BY DEF Claim, a
<1> HIDE DEF ths
<1>6. Alike(th, th)
  BY DEF Alike
<1> QED
  BY <1>3, <1>4, <1>5, <1>6

LEMMA AlikeTrans ==
  ASSUME NEW a, NEW b, NEW c, Alike(a, b), Alike(b, c)
  PROVE  Alike(a, c)
BY DEF Alike

\* But for one thread.
Others(f, g, t) == \A u \in Tid \ {t} : f[u] = g[u]

LEMMA RunningIs ==
  ASSUME NEW ths \in Records, NEW t \in Tid
  PROVE  /\ Running(ths, t) \in Records /\ Others(Running(ths, t), ths, t)
         /\ Running(ths, t)[t].known = ths[t].known
         /\ Running(ths, t)[t].pss = ths[t].pss
BY DEF Running, Records, ThreadRecords, Others

LEMMA StoppedIs ==
  ASSUME NEW ths \in Records, NEW t \in Tid, NEW owes \in BOOLEAN
  PROVE  /\ Stopped(ths, t, owes) \in Records /\ Others(Stopped(ths, t, owes), ths, t)
         /\ Stopped(ths, t, owes)[t].known = ths[t].known
         /\ Stopped(ths, t, owes)[t].running = FALSE
         /\ Stopped(ths, t, owes)[t].pss = owes
BY DEF Stopped, Records, ThreadRecords, Others

\* A child that is registered was not known.
LEMMA RegisterIs ==
  ASSUME IInv, NEW ths \in Records, NEW parent \in Tid
  PROVE  /\ RegisterClone(ths, parent) \in Records
         /\ \A u \in Tid :
              \/ RegisterClone(ths, parent)[u] = ths[u]
              \/ /\ u = k[parent].child /\ ~th[u].known
                 /\ RegisterClone(ths, parent)[u].known
<1> DEFINE c == k[parent].child
           new == [NewThread EXCEPT !.running = TRUE, !.pss = TRUE]
<1>1. MaxSuspend \in Nat
  BY BoundAssumption
<1>2. new \in ThreadRecords /\ new.known
  <2>1. NewThread \in ThreadRecords /\ NewThread.known
    <3>1. NoThread \in ThreadRecords
      BY <1>1 DEF NoThread, ThreadRecords
    <3> QED
      BY <3>1 DEF NewThread, ThreadRecords
  <2> QED
    BY <2>1 DEF ThreadRecords
<1> HIDE DEF new
<1>3. [ths EXCEPT ![c] = new] \in Records
  BY <1>2 DEF Records
<1>4. \A u \in Tid : [ths EXCEPT ![c] = new][u] = IF u = c THEN new ELSE ths[u]
  BY DEF Records
<1>5. RegisterClone(ths, parent) = IF th[c].known THEN ths ELSE [ths EXCEPT ![c] = new]
  BY DEF RegisterClone, new
<1> QED
  BY <1>2, <1>3, <1>4, <1>5

LEMMA RestartIs ==
  ASSUME k \in Kernels, NEW t \in Tid, NEW how \in {"run", "step"}
  PROVE  /\ Restart(t, how) \in Kernels /\ Others(Restart(t, how), k, t)
         /\ Restart(t, how)[t].run = how
         /\ Restart(t, how)[t].status = k[t].status
         /\ Restart(t, how)[t].stopq = k[t].stopq
         /\ Restart(t, how)[t].sigq = k[t].sigq
         /\ Restart(t, how)[t].dying = k[t].dying
<1>1. Queued(t) \in BOOLEAN
  BY DEF Queued
<1> DEFINE q == Queued(t)
           r == [k EXCEPT ![t].run = how, ![t].due = q]
<1>2. q \in BOOLEAN /\ Restart(t, how) = r
  BY <1>1 DEF Restart
<1> HIDE DEF q
<1>3. r \in Kernels
  <2>1. how \in {"unborn", "run", "step", "stopped", "dead"}
    OBVIOUS
  <2>2. k[t] \in KernelThread
    BY DEF Kernels
  <2>3. [k[t] EXCEPT !.run = how, !.due = q] \in KernelThread
    BY <1>2, <2>1, <2>2 DEF KernelThread
  <2> QED
    BY <2>3 DEF Kernels
<1>4. Others(r, k, t)
  BY DEF Kernels, Others
<1>5. r[t].run = how /\ r[t].status = k[t].status /\ r[t].stopq = k[t].stopq
      /\ r[t].sigq = k[t].sigq /\ r[t].dying = k[t].dying
  BY DEF Kernels, KernelThread
<1> QED
  BY <1>2, <1>3, <1>4, <1>5

-----------------------------------------------------------------------------
(* The kernel and the debuggee                                             *)

\* What the handler of the top activation counts on is not disturbed.
TopStays ==
  \A t \in Tid : /\ InPtraceStop(t) => InPtraceStop(t)'
                 /\ (Living(t) => StopComing(t)) /\ Living(t)' => StopComing(t)'

LEMMA HandledStays ==
  ASSUME IInv, TopStays, stack' = stack
  PROVE  Handled'
<1>1. Top.tid \in Tid /\ Top' = Top
  BY TopIs DEF Top
<1>2. ASSUME Top.at \in StopPoints
      PROVE  k'[Top.tid].run = "stopped" /\ k'[Top.tid].status = "none"
  BY <1>1, <1>2 DEF IInv, Handled, TopStays, InPtraceStop
<1>3. ASSUME Top.at = "sweepWait"
      PROVE  /\ Top.who \in Tid
             /\ k'[Top.who].run \in {"run", "step", "stopped"} /\ ~k'[Top.who].dying
                  => k'[Top.who].stopq \/ k'[Top.who].status = "stop"
  BY <1>3 DEF IInv, Handled, TopStays, Living, StopComing
<1>4. Top'.at \in StopPoints => InPtraceStop(Top.tid)'
  BY <1>1, <1>2 DEF InPtraceStop
<1>5. Top'.at = "sweepWait"
        => Top'.who \in Tid /\ (Living(Top.who)' => StopComing(Top.who)')
  BY <1>1, <1>3 DEF Living, StopComing
<1> QED
  BY <1>4, <1>5 DEF Handled

\* A thread that runs has no stop to be taken.
LEMMA RunsFree ==
  ASSUME IInv, NEW t \in Tid, Runs(t)
  PROVE  k[t].status = "none" /\ k[t].run # "dead"
<1>1. k[t].status \in {"none", "int3", "step", "stop", "sig", "clone", "exit", "exited"}
  BY DEF IInv, Threads, KernelThread
<1> QED
  BY <1>1 DEF Runs, IInv, Threads, StatusOf

\* A thread that runs stops or goes on.
LEMMA KernelStep ==
  ASSUME IInv, NEW t \in Tid, Runs(t), k' \in Kernels, Others(k', k, t),
         th' = th, signalsLeft' = signalsLeft, stack' = stack,
         k'[t].sigq <= k[t].sigq, k[t].dying => k'[t].dying,
         k[t].stopq => k'[t].stopq \/ k'[t].status = "stop",
         \/ k'[t].status = "none"
         \/ (k'[t].run = "stopped" /\ k'[t].status # "exited")
         \/ (k'[t].run = "dead" /\ k'[t].status = "exited")
  PROVE  Threads' /\ MetStays /\ Frames' /\ Handled'
<1>1. th' \in Records /\ signalsLeft' \in 0 .. MaxSignals
  BY DEF IInv, Threads, Records
<1>2. \A u \in Tid : k'[u].sigq + signalsLeft' <= MaxSignals
  <2>1. \A u \in Tid : k[u].sigq + signalsLeft <= MaxSignals
    BY DEF IInv, Threads, SignalsBounded
  <2>2. \A u \in Tid : k'[u].sigq \in Int /\ k[u].sigq \in Int /\ k'[u].sigq <= k[u].sigq
    BY DEF Others, IInv, Threads, Kernels, KernelThread
  <2>3. signalsLeft \in Int /\ MaxSignals \in Int
    BY BoundAssumption DEF IInv, Threads
  <2> QED
    BY <2>1, <2>2, <2>3
<1>3. k[t].status = "none" /\ k[t].run # "dead"
  BY RunsFree
<1>4. StopComing(t) /\ Living(t)' => Living(t) /\ StopComing(t)'
  BY <1>3 DEF StopComing, Living, Runs
<1>5. Living(t)' => Living(t)
  BY DEF Living, Runs
<1>6. ThreadStep(t)
  BY <1>3, <1>4, <1>5 DEF ThreadStep, IInv, Threads, Owed, Met, Living, StopComing
<1>7. Threads' /\ MetStays
  BY <1>1, <1>2, <1>6, ThreadsBy DEF Others
<1>8. TopStays
  <2>1. ~InPtraceStop(t)
    BY DEF InPtraceStop, Runs
  <2>2. \A u \in Tid \ {t} : k'[u] = k[u]
    BY DEF Others
  <2> QED
    BY <1>4, <1>5, <2>1, <2>2 DEF TopStays, InPtraceStop, Living, StopComing
<1> QED
  BY <1>7, <1>8, SameStack, HandledStays

\* A thread whose record changes in other fields than those that matter here.
AlikeKernel(f, g, t) ==
  /\ f \in Kernels /\ Others(f, g, t)
  /\ f[t].run = g[t].run /\ f[t].status = g[t].status /\ f[t].stopq = g[t].stopq
  /\ f[t].sigq = g[t].sigq /\ f[t].dying = g[t].dying

LEMMA WithRecord ==
  ASSUME NEW f \in Kernels, NEW t \in Tid, NEW x \in KernelThread
  PROVE  /\ [f EXCEPT ![t] = x] \in Kernels /\ Others([f EXCEPT ![t] = x], f, t)
         /\ [f EXCEPT ![t] = x][t] = x
BY DEF Kernels, Others

LEMMA PastIs ==
  ASSUME NEW f \in Kernels, NEW t \in Tid, NEW b \in BOOLEAN
  PROVE  AlikeKernel([f EXCEPT ![t].past = b], f, t)
<1> DEFINE x == [f[t] EXCEPT !.past = b]
<1>1. f[t] \in KernelThread
  BY DEF Kernels
<1>2. /\ x \in KernelThread
      /\ x.run = f[t].run /\ x.status = f[t].status /\ x.stopq = f[t].stopq
      /\ x.sigq = f[t].sigq /\ x.dying = f[t].dying
  BY <1>1 DEF KernelThread
<1> HIDE DEF x
<1>3. AlikeKernel([f EXCEPT ![t] = x], f, t)
  BY <1>2, WithRecord DEF AlikeKernel
<1> QED
  BY <1>3 DEF x

LEMMA MovesIs ==
  ASSUME NEW f \in Kernels, NEW t \in Tid, NEW a \in Addr \cup {NoAddr}
  PROVE  AlikeKernel([f EXCEPT ![t].at = a, ![t].past = FALSE, ![t].due = FALSE], f, t)
<1> DEFINE x == [f[t] EXCEPT !.at = a, !.past = FALSE, !.due = FALSE]
<1>1. f[t] \in KernelThread
  BY DEF Kernels
<1>2. /\ x \in KernelThread
      /\ x.run = f[t].run /\ x.status = f[t].status /\ x.stopq = f[t].stopq
      /\ x.sigq = f[t].sigq /\ x.dying = f[t].dying
  BY <1>1 DEF KernelThread
<1> HIDE DEF x
<1>3. AlikeKernel([f EXCEPT ![t] = x], f, t)
  BY <1>2, WithRecord DEF AlikeKernel
<1>4. [f EXCEPT ![t].at = a, ![t].past = FALSE, ![t].due = FALSE] = [f EXCEPT ![t] = x]
  BY DEF x, Kernels
<1> QED
  BY <1>3, <1>4

LEMMA StopsIs ==
  ASSUME k \in Kernels, NEW t \in Tid,
         NEW why \in {"int3", "step", "stop", "sig", "clone", "exit"}
  PROVE  /\ Stops(t, why) \in Kernels /\ Others(Stops(t, why), k, t)
         /\ Stops(t, why)[t].run = "stopped" /\ Stops(t, why)[t].status = why
         /\ Stops(t, why)[t].stopq = k[t].stopq /\ Stops(t, why)[t].sigq = k[t].sigq
         /\ Stops(t, why)[t].dying = k[t].dying
<1> DEFINE r == [k EXCEPT ![t].run = "stopped", ![t].status = why, ![t].due = FALSE]
<1>1. [k[t] EXCEPT !.run = "stopped", !.status = why, !.due = FALSE] \in KernelThread
  <2>1. why \in {"none", "int3", "step", "stop", "sig", "clone", "exit", "exited"}
    OBVIOUS
  <2>2. k[t] \in KernelThread
    BY DEF Kernels
  <2> QED
    BY <2>1, <2>2 DEF KernelThread
<1>2. r \in Kernels
  BY <1>1 DEF Kernels
<1>3. Others(r, k, t)
  BY DEF Kernels, Others
<1>4. /\ r[t].run = "stopped" /\ r[t].status = why
      /\ r[t].stopq = k[t].stopq /\ r[t].sigq = k[t].sigq /\ r[t].dying = k[t].dying
  BY DEF Kernels, KernelThread
<1> QED
  BY <1>2, <1>3, <1>4 DEF Stops

\* A thread executes, or hits a breakpoint.
LEMMA ExecuteIs ==
  ASSUME IInv, NEW t \in Tid, Execute(t)
  PROVE  /\ k' \in Kernels /\ Others(k', k, t)
         /\ k'[t].sigq = k[t].sigq /\ k'[t].dying = k[t].dying
         /\ k'[t].stopq = k[t].stopq
         /\ \/ k'[t].status = k[t].status /\ k'[t].run = k[t].run
            \/ k'[t].run = "stopped" /\ k'[t].status \in {"int3", "step"}
         /\ hits' \subseteq Tid
<1>1. k \in Kernels /\ Runs(t) /\ k[t] \in KernelThread
  BY DEF IInv, Threads, Kernels, Execute, Executes
<1> DEFINE Outcome ==
             /\ k' \in Kernels /\ Others(k', k, t)
             /\ k'[t].sigq = k[t].sigq /\ k'[t].dying = k[t].dying
             /\ k'[t].stopq = k[t].stopq
             /\ (\/ k'[t].status = k[t].status /\ k'[t].run = k[t].run
                 \/ k'[t].run = "stopped" /\ k'[t].status \in {"int3", "step"})
             /\ hits' \subseteq Tid
<1>2. Outcome
  <2>1. hits \subseteq Tid
    BY DEF IInv, Marks
  <2>2. CASE /\ k' = [Stops(t, "int3") EXCEPT ![t].past = TRUE]
             /\ hits' = hits \cup {t}
    <3> DEFINE r == Stops(t, "int3")
    <3>1. /\ r \in Kernels /\ Others(r, k, t)
          /\ r[t].run = "stopped" /\ r[t].status = "int3"
          /\ r[t].stopq = k[t].stopq /\ r[t].sigq = k[t].sigq /\ r[t].dying = k[t].dying
      BY <1>1, StopsIs
    <3> HIDE DEF r
    <3>2. k' = [r EXCEPT ![t].past = TRUE]
      BY <2>2 DEF r
    <3>3. AlikeKernel(k', r, t)
      BY <3>1, <3>2, PastIs
    <3>4. hits' \subseteq Tid
      BY <2>1, <2>2
    <3> QED
      BY <3>1, <3>3, <3>4 DEF AlikeKernel, Others
  <2>3. ASSUME NEW a \in Addr \cup {NoAddr}, UNCHANGED hits,
               k' = [IF k[t].run = "step" THEN Stops(t, "step") ELSE k
                       EXCEPT ![t].at = a, ![t].past = FALSE, ![t].due = FALSE]
        PROVE  Outcome
    <3> DEFINE r == IF k[t].run = "step" THEN Stops(t, "step") ELSE k
    <3>1. /\ r \in Kernels /\ Others(r, k, t)
          /\ r[t].stopq = k[t].stopq /\ r[t].sigq = k[t].sigq /\ r[t].dying = k[t].dying
          /\ \/ r[t].status = k[t].status /\ r[t].run = k[t].run
             \/ r[t].run = "stopped" /\ r[t].status = "step"
      <4>1. CASE k[t].run = "step"
        BY <1>1, <4>1, StopsIs
      <4>2. CASE k[t].run # "step"
        <5>1. r = k
          BY <4>2
        <5> HIDE DEF r
        <5> QED
          BY <1>1, <5>1 DEF Others
      <4> QED
        BY <4>1, <4>2
    <3> HIDE DEF r
    <3>2. k' = [r EXCEPT ![t].at = a, ![t].past = FALSE, ![t].due = FALSE]
      BY <2>3 DEF r
    <3>3. AlikeKernel(k', r, t)
      <4>1. r \in Kernels /\ a \in Addr \cup {NoAddr}
        BY <2>3, <3>1
      <4>2. AlikeKernel([r EXCEPT ![t].at = a, ![t].past = FALSE, ![t].due = FALSE], r, t)
        BY <4>1, MovesIs
      <4> QED
        BY <3>2, <4>2
    <3> QED
      BY <2>1, <2>3, <3>1, <3>3 DEF AlikeKernel, Others
  <2>4. k[t].at \in Addr \cup {NoAddr} /\ Rep \subseteq Addr
    BY <1>1, AddrAssumption DEF KernelThread
  <2>5. (IF k[t].at = NoAddr THEN Addr ELSE {NoAddr} \cup ({k[t].at} \cap Rep))
          \subseteq Addr \cup {NoAddr}
    BY <2>4
  <2>6. \/ k' = [Stops(t, "int3") EXCEPT ![t].past = TRUE] /\ hits' = hits \cup {t}
        \/ \E a \in Addr \cup {NoAddr} :
             /\ k' = [IF k[t].run = "step" THEN Stops(t, "step") ELSE k
                       EXCEPT ![t].at = a, ![t].past = FALSE, ![t].due = FALSE]
             /\ UNCHANGED hits
    BY <2>5 DEF Execute
  <2> HIDE DEF Outcome
  <2> QED
    BY <2>2, <2>3, <2>6
<1> QED
  BY <1>2

LEMMA ExecuteStep ==
  ASSUME IInv, NEW t \in Tid, Execute(t)
  PROVE  IInv'
<1>1. k \in Kernels /\ Runs(t) /\ k[t] \in KernelThread
  BY DEF IInv, Threads, Kernels, Execute, Executes
<1>2. /\ th' = th /\ signalsLeft' = signalsLeft /\ stack' = stack
      /\ UNCHANGED <<procStop, bpVars, tracerVars, userVars, owed>>
  BY DEF Execute, tracerVars
<1>3. /\ k' \in Kernels /\ Others(k', k, t)
      /\ k'[t].sigq = k[t].sigq /\ k'[t].dying = k[t].dying
      /\ k'[t].stopq = k[t].stopq
      /\ \/ k'[t].status = k[t].status
         \/ k'[t].run = "stopped" /\ k'[t].status \in {"int3", "step"}
      /\ hits' \subseteq Tid
  BY ExecuteIs
<1>4. k[t].status = "none"
  BY <1>1, RunsFree
<1>5. Threads' /\ MetStays /\ Frames' /\ Handled'
  <2>1. k'[t].sigq <= k[t].sigq
    BY <1>1, <1>3 DEF KernelThread
  <2> QED
    <3>1. \/ k'[t].status = "none"
          \/ (k'[t].run = "stopped" /\ k'[t].status # "exited")
          \/ (k'[t].run = "dead" /\ k'[t].status = "exited")
      BY <1>3, <1>4
    <3>2. k' \in Kernels /\ Others(k', k, t) /\ (k[t].dying => k'[t].dying)
          /\ (k[t].stopq => k'[t].stopq \/ k'[t].status = "stop")
      BY <1>3
    <3> QED
      BY <1>1, <1>2, <2>1, <3>1, <3>2, KernelStep
<1>6. Bytes' /\ Flags' /\ Marks' /\ Current'
  BY <1>2, <1>3, <1>5, CurrentStays
     DEF IInv, Bytes, Flags, Marks, bpVars, tracerVars, userVars
<1> QED
  BY <1>5, <1>6 DEF IInv

\* The queues of a thread.
WithSigstop(f, t, b) == [f EXCEPT ![t].stopq = b]
LEMMA SigstopIs ==
  ASSUME NEW f \in Kernels, NEW t \in Tid, NEW b \in BOOLEAN
  PROVE  LET g == WithSigstop(f, t, b) IN
         /\ g \in Kernels /\ Others(g, f, t)
         /\ g[t].run = f[t].run /\ g[t].status = f[t].status /\ g[t].stopq = b
         /\ g[t].sigq = f[t].sigq /\ g[t].dying = f[t].dying
<1> DEFINE x == [f[t] EXCEPT !.stopq = b]
<1>1. f[t] \in KernelThread
  BY DEF Kernels
<1>2. /\ x \in KernelThread /\ x.run = f[t].run /\ x.status = f[t].status
      /\ x.stopq = b /\ x.sigq = f[t].sigq /\ x.dying = f[t].dying
  BY <1>1 DEF KernelThread
<1>3. WithSigstop(f, t, b) = [f EXCEPT ![t] = x]
  BY DEF Kernels, WithSigstop
<1> HIDE DEF x
<1>4. [f EXCEPT ![t] = x] \in Kernels /\ Others([f EXCEPT ![t] = x], f, t)
        /\ [f EXCEPT ![t] = x][t] = x
  BY <1>2, WithRecord
<1> QED
  BY <1>2, <1>3, <1>4

WithSignals(f, t, n) == [f EXCEPT ![t].sigq = n]
LEMMA SignalsAre ==
  ASSUME NEW f \in Kernels, NEW t \in Tid, NEW n \in 0 .. MaxSignals
  PROVE  LET g == WithSignals(f, t, n) IN
         /\ g \in Kernels /\ Others(g, f, t)
         /\ g[t].run = f[t].run /\ g[t].status = f[t].status
         /\ g[t].stopq = f[t].stopq /\ g[t].sigq = n /\ g[t].dying = f[t].dying
<1> DEFINE x == [f[t] EXCEPT !.sigq = n]
<1>1. f[t] \in KernelThread
  BY DEF Kernels
<1>2. /\ x \in KernelThread /\ x.run = f[t].run /\ x.status = f[t].status
      /\ x.stopq = f[t].stopq /\ x.sigq = n /\ x.dying = f[t].dying
  BY <1>1 DEF KernelThread
<1>3. WithSignals(f, t, n) = [f EXCEPT ![t] = x]
  BY DEF Kernels, WithSignals
<1> HIDE DEF x
<1>4. [f EXCEPT ![t] = x] \in Kernels /\ Others([f EXCEPT ![t] = x], f, t)
        /\ [f EXCEPT ![t] = x][t] = x
  BY <1>2, WithRecord
<1> QED
  BY <1>2, <1>3, <1>4

LEMMA OthersTrans ==
  ASSUME NEW f, NEW g, NEW h, NEW t, Others(f, g, t), Others(g, h, t)
  PROVE  Others(f, h, t)
BY DEF Others

\* A step of the kernel in which nothing else changes.
Elsewhere == UNCHANGED <<signalsLeft, bpVars, tracerVars, userVars, historyVars>>

LEMMA ElsewhereSame ==
  ASSUME IInv, Elsewhere, procStop' \in BOOLEAN, MetStays
  PROVE  Bytes' /\ Flags' /\ Marks' /\ Current'
BY CurrentStays
   DEF Elsewhere, IInv, Bytes, Flags, Marks, bpVars, tracerVars, userVars, historyVars

LEMMA TakeSigstopStep ==
  ASSUME IInv, NEW t \in Tid, TakeSigstop(t)
  PROVE  IInv'
<1> DEFINE r == Stops(t, "stop")
<1>1. k \in Kernels /\ Runs(t)
  BY DEF IInv, Threads, Kernels, TakeSigstop
<1>2. /\ r \in Kernels /\ Others(r, k, t) /\ r[t].run = "stopped" /\ r[t].status = "stop"
      /\ r[t].stopq = k[t].stopq /\ r[t].sigq = k[t].sigq /\ r[t].dying = k[t].dying
  BY <1>1, StopsIs
<1>3. (k' = [r EXCEPT ![t].stopq = FALSE] /\ procStop' = procStop)
        \/ (k' = r /\ procStop' = FALSE)
  BY DEF TakeSigstop
<1>4. Elsewhere /\ th' = th /\ stack' = stack /\ signalsLeft' = signalsLeft
  BY DEF TakeSigstop, Elsewhere, tracerVars
<1> HIDE DEF r
<1>5. /\ k' \in Kernels /\ Others(k', k, t) /\ k'[t].run = "stopped"
      /\ k'[t].status = "stop" /\ k'[t].sigq = k[t].sigq /\ k'[t].dying = k[t].dying
  <2>1. CASE k' = [r EXCEPT ![t].stopq = FALSE]
    <3>1. /\ k' \in Kernels /\ Others(k', r, t)
          /\ k'[t].run = r[t].run /\ k'[t].status = r[t].status
          /\ k'[t].sigq = r[t].sigq /\ k'[t].dying = r[t].dying
      <4>1. k' = WithSigstop(r, t, FALSE)
        BY <2>1 DEF WithSigstop
      <4> QED
        BY <1>2, <4>1, SigstopIs
    <3> QED
      BY <1>2, <3>1, OthersTrans
  <2>2. CASE k' = r
    BY <1>2, <2>2
  <2> QED
    BY <1>3, <2>1, <2>2
<1>6. k'[t].sigq <= k[t].sigq
  BY <1>1, <1>5 DEF Kernels, KernelThread
<1>7. Threads' /\ MetStays /\ Frames' /\ Handled'
  BY <1>1, <1>4, <1>5, <1>6, KernelStep
<1>8. procStop' \in BOOLEAN
  BY <1>3 DEF IInv, Flags
<1> QED
  BY <1>4, <1>7, <1>8, ElsewhereSame DEF IInv

LEMMA TakeSignalStep ==
  ASSUME IInv, NEW t \in Tid, TakeSignal(t)
  PROVE  IInv'
<1> DEFINE r == Stops(t, "sig")
<1>1. k \in Kernels /\ Runs(t) /\ k[t].sigq > 0 /\ k[t].sigq \in 0 .. MaxSignals
  BY DEF IInv, Threads, Kernels, KernelThread, TakeSignal
<1>2. /\ r \in Kernels /\ Others(r, k, t) /\ r[t].run = "stopped" /\ r[t].status = "sig"
      /\ r[t].stopq = k[t].stopq /\ r[t].sigq = k[t].sigq /\ r[t].dying = k[t].dying
  BY <1>1, StopsIs
<1>3. k' = [r EXCEPT ![t].sigq = @ - 1] /\ procStop' = procStop
  BY DEF TakeSignal
<1>4. Elsewhere /\ th' = th /\ stack' = stack /\ signalsLeft' = signalsLeft
  BY DEF TakeSignal, Elsewhere, tracerVars
<1> HIDE DEF r
<1> DEFINE n == k[t].sigq - 1
<1>5. n \in 0 .. MaxSignals /\ n <= k[t].sigq
  BY <1>1, BoundAssumption
<1>6. k' = [r EXCEPT ![t].sigq = n]
  BY <1>2, <1>3
<1> HIDE DEF n
<1>7. /\ k' \in Kernels /\ Others(k', k, t) /\ k'[t].run = "stopped" /\ k'[t].sigq = n
      /\ k'[t].status = "sig" /\ k'[t].stopq = k[t].stopq /\ k'[t].dying = k[t].dying
  <2>1. /\ k' \in Kernels /\ Others(k', r, t) /\ k'[t].sigq = n
        /\ k'[t].run = r[t].run /\ k'[t].status = r[t].status
        /\ k'[t].stopq = r[t].stopq /\ k'[t].dying = r[t].dying
    <3>1. k' = WithSignals(r, t, n)
      BY <1>6 DEF WithSignals
    <3> QED
      BY <1>2, <1>5, <3>1, SignalsAre
  <2> QED
    BY <1>2, <2>1, OthersTrans
<1>8. Threads' /\ MetStays /\ Frames' /\ Handled'
  BY <1>1, <1>4, <1>5, <1>7, KernelStep
<1>9. procStop' \in BOOLEAN
  BY <1>3 DEF IInv, Flags
<1> QED
  BY <1>4, <1>8, <1>9, ElsewhereSame DEF IInv

LEMMA ExitStep ==
  ASSUME IInv, NEW t \in Tid, Exit(t)
  PROVE  IInv'
<1> DEFINE r == Stops(t, "exit")
           x == [r[t] EXCEPT !.dying = TRUE, !.at = NoAddr, !.past = FALSE]
<1>1. k \in Kernels /\ Runs(t)
  BY DEF IInv, Threads, Kernels, Exit, Executes
<1>2. /\ r \in Kernels /\ Others(r, k, t) /\ r[t].run = "stopped" /\ r[t].status = "exit"
      /\ r[t].stopq = k[t].stopq /\ r[t].sigq = k[t].sigq
  BY <1>1, StopsIs
<1>3. k' = [r EXCEPT ![t].dying = TRUE, ![t].at = NoAddr, ![t].past = FALSE]
        /\ procStop' = procStop
  BY DEF Exit
<1>4. Elsewhere /\ th' = th /\ stack' = stack /\ signalsLeft' = signalsLeft
  BY DEF Exit, Elsewhere, tracerVars
<1> HIDE DEF r
<1>5. r[t] \in KernelThread
  BY <1>2 DEF Kernels
<1>6. /\ x \in KernelThread /\ x.run = r[t].run /\ x.status = r[t].status
      /\ x.stopq = r[t].stopq /\ x.sigq = r[t].sigq /\ x.dying = TRUE
  BY <1>5 DEF KernelThread
<1>7. k' = [r EXCEPT ![t] = x]
  BY <1>2, <1>3 DEF Kernels
<1> HIDE DEF x
<1>8. /\ k' \in Kernels /\ Others(k', k, t) /\ k'[t].run = "stopped"
      /\ k'[t].sigq = k[t].sigq /\ k'[t].status = "exit" /\ k'[t].stopq = k[t].stopq
      /\ k'[t].dying
  <2>1. k' \in Kernels /\ Others(k', r, t) /\ k'[t] = x
    BY <1>2, <1>6, <1>7, WithRecord
  <2> QED
    BY <1>2, <1>6, <2>1, OthersTrans
<1>9. k'[t].sigq <= k[t].sigq
  BY <1>1, <1>8 DEF Kernels, KernelThread
<1>10. Threads' /\ MetStays /\ Frames' /\ Handled'
  BY <1>1, <1>4, <1>8, <1>9, KernelStep
<1>11. procStop' \in BOOLEAN
  BY <1>3 DEF IInv, Flags
<1> QED
  BY <1>4, <1>10, <1>11, ElsewhereSame DEF IInv

LEMMA DieStep ==
  ASSUME IInv, NEW t \in Tid, Die(t)
  PROVE  IInv'
<1> DEFINE x == [k[t] EXCEPT !.run = "dead", !.status = "exited"]
<1>1. k \in Kernels /\ Runs(t) /\ k[t] \in KernelThread
  BY DEF IInv, Threads, Kernels, Die
<1>2. /\ x \in KernelThread /\ x.run = "dead" /\ x.status = "exited"
      /\ x.stopq = k[t].stopq /\ x.sigq = k[t].sigq /\ x.dying = k[t].dying
  BY <1>1 DEF KernelThread
<1>3. k' = [k EXCEPT ![t] = x] /\ procStop' = procStop
  BY <1>1 DEF Die, Kernels
<1>4. Elsewhere /\ th' = th /\ stack' = stack /\ signalsLeft' = signalsLeft
  BY DEF Die, Elsewhere, tracerVars
<1> HIDE DEF x
<1>5. /\ k' \in Kernels /\ Others(k', k, t) /\ k'[t].run = "dead"
      /\ k'[t].sigq = k[t].sigq /\ k'[t].status = "exited" /\ k'[t].stopq = k[t].stopq
      /\ k'[t].dying = k[t].dying
  BY <1>1, <1>2, <1>3, WithRecord
<1>6. k'[t].sigq <= k[t].sigq
  BY <1>1, <1>5 DEF KernelThread
<1>7. Threads' /\ MetStays /\ Frames' /\ Handled'
  BY <1>1, <1>4, <1>5, <1>6, KernelStep
<1>8. procStop' \in BOOLEAN
  BY <1>3 DEF IInv, Flags
<1> QED
  BY <1>4, <1>7, <1>8, ElsewhereSame DEF IInv

\* A thread is created in front of the SIGSTOP it starts with.
LEMMA CloneStep ==
  ASSUME IInv, NEW t \in Tid, Clone(t)
  PROVE  IInv'
<1>1. k \in Kernels /\ th \in Records /\ Runs(t) /\ signalsLeft \in 0 .. MaxSignals
  BY DEF IInv, Threads, Kernels, Records, Clone, Executes
<1>2. PICK c \in Births :
        /\ k[c].run = "unborn"
        /\ k' = [Stops(t, "clone") EXCEPT ![t].child = c, ![t].at = NoAddr,
                                          ![t].past = FALSE, ![c] = Newborn]
  BY DEF Clone
<1>3. Elsewhere /\ th' = th /\ stack' = stack /\ signalsLeft' = signalsLeft
        /\ procStop' = procStop
  BY DEF Clone, Elsewhere, tracerVars
<1>4. c \in Tid /\ c # t
  BY <1>1, <1>2, LifeAssumption DEF Runs
<1> DEFINE r == Stops(t, "clone")
           x == [r[t] EXCEPT !.child = c, !.at = NoAddr, !.past = FALSE]
<1>5. /\ r \in Kernels /\ Others(r, k, t) /\ r[t].run = "stopped" /\ r[t].status = "clone"
      /\ r[t].stopq = k[t].stopq /\ r[t].sigq = k[t].sigq /\ r[t].dying = k[t].dying
  BY <1>1, StopsIs
<1>6. k' = [r EXCEPT ![t].child = c, ![t].at = NoAddr, ![t].past = FALSE, ![c] = Newborn]
  BY <1>2
<1> HIDE DEF r
<1>7. r[t] \in KernelThread
  BY <1>5 DEF Kernels
<1>8. /\ x \in KernelThread /\ x.run = r[t].run /\ x.status = r[t].status
      /\ x.stopq = r[t].stopq /\ x.sigq = r[t].sigq /\ x.dying = r[t].dying
  BY <1>4, <1>7 DEF KernelThread
<1>9. Newborn \in KernelThread
  BY BoundAssumption DEF Newborn, KernelThread
<1>10. k' = [[r EXCEPT ![t] = x] EXCEPT ![c] = Newborn]
  BY <1>4, <1>5, <1>6 DEF Kernels
<1> HIDE DEF x
<1>11. /\ k' \in Kernels /\ k'[t] = x /\ k'[c] = Newborn
       /\ \A u \in Tid \ {t, c} : k'[u] = k[u]
  <2>1. /\ [r EXCEPT ![t] = x] \in Kernels /\ Others([r EXCEPT ![t] = x], r, t)
        /\ [r EXCEPT ![t] = x][t] = x
    BY <1>5, <1>8, WithRecord
  <2> DEFINE q == [r EXCEPT ![t] = x]
  <2> HIDE DEF q
  <2>2. q \in Kernels /\ Others(q, r, t) /\ q[t] = x /\ k' = [q EXCEPT ![c] = Newborn]
    BY <1>10, <2>1 DEF q
  <2>3. /\ [q EXCEPT ![c] = Newborn] \in Kernels /\ Others([q EXCEPT ![c] = Newborn], q, c)
        /\ [q EXCEPT ![c] = Newborn][c] = Newborn
    BY <1>4, <1>9, <2>2, WithRecord
  <2> QED
    BY <1>4, <1>5, <2>2, <2>3 DEF Others
<1>12. /\ k'[c].run = "run" /\ k'[c].status = "none" /\ k'[c].stopq = TRUE
       /\ k'[c].sigq = 0 /\ k'[c].dying = FALSE
  BY <1>11 DEF Newborn
<1>13. /\ k'[t].run = "stopped" /\ k'[t].status = "clone" /\ k'[t].sigq = k[t].sigq
       /\ k'[t].stopq = k[t].stopq /\ k'[t].dying = k[t].dying
  BY <1>5, <1>8, <1>11
<1>14. k[t].status = "none" /\ k[t].run # "dead"
  BY <1>1, RunsFree
<1>15. \A u \in Tid : k'[u].sigq + signalsLeft' <= MaxSignals
  <2>1. \A u \in Tid : k[u].sigq + signalsLeft <= MaxSignals
    BY DEF IInv, Threads, SignalsBounded
  <2>2. \A u \in Tid \ {c} : k'[u].sigq + signalsLeft' <= MaxSignals
    BY <1>3, <1>11, <1>13, <2>1
  <2>3. k'[c].sigq + signalsLeft' <= MaxSignals
    BY <1>1, <1>3, <1>12, BoundAssumption
  <2> QED
    BY <2>2, <2>3
<1>16. ThreadStep(t)
  BY <1>3, <1>13, <1>14
     DEF ThreadStep, IInv, Threads, Owed, Met, Living, StopComing, Runs, Clone, Executes
<1>17. ThreadStep(c)
  BY <1>2, <1>3, <1>4, <1>12 DEF ThreadStep, IInv, Threads, Met, Living, StopComing
<1>18. Threads' /\ MetStays
  <2>1. \A u \in Tid : (k'[u] = k[u] /\ th'[u] = th[u]) \/ ThreadStep(u)
    BY <1>3, <1>11, <1>16, <1>17
  <2>2. signalsLeft' \in 0 .. MaxSignals /\ th' \in Records
    BY <1>1, <1>3
  <2> QED
    BY <1>11, <1>15, <2>1, <2>2, ThreadsBy
<1>19. TopStays
  <2> DEFINE Stays(u) ==
        /\ InPtraceStop(u) => k'[u].run = "stopped" /\ k'[u].status = "none"
        /\ (Living(u) => StopComing(u))
             /\ k'[u].run \in {"run", "step", "stopped"} /\ ~k'[u].dying
             => k'[u].stopq \/ k'[u].status = "stop"
  <2>1. Stays(t)
    BY <1>1, <1>13, <1>14 DEF InPtraceStop, Living, StopComing, Runs
  <2>2. Stays(c)
    BY <1>2, <1>12 DEF InPtraceStop
  <2>3. \A u \in Tid \ {t, c} : Stays(u)
    BY <1>11 DEF InPtraceStop, Living, StopComing
  <2>4. \A u \in Tid : Stays(u)
    BY <2>1, <2>2, <2>3
  <2> QED
    BY <2>4 DEF TopStays, InPtraceStop, Living, StopComing
<1>20. procStop' \in BOOLEAN
  BY <1>3 DEF IInv, Flags
<1> QED
  BY <1>3, <1>18, <1>19, <1>20, SameStack, HandledStays, ElsewhereSame DEF IInv

\* Nothing about a thread changes.
LEMMA Untouched ==
  ASSUME IInv, k' = k, th' = th, signalsLeft' = signalsLeft, stack' = stack
  PROVE  Threads' /\ MetStays /\ Frames' /\ Handled'
<1>1. Threads' /\ MetStays
  BY ThreadsSame
<1>2. TopStays
  BY DEF TopStays, InPtraceStop, Living, StopComing
<1> QED
  BY <1>1, <1>2, SameStack, HandledStays

\* A SIGSTOP or a signal is sent, and booked.
Sends ==
  /\ k' \in Kernels /\ th' \in Records
  /\ \A t \in Tid : /\ k'[t].run = k[t].run /\ k'[t].status = k[t].status
                    /\ k'[t].dying = k[t].dying
                    /\ k[t].stopq => k'[t].stopq
                    /\ th'[t].known = th[t].known /\ th'[t].running = th[t].running
                    /\ th'[t].pss => th[t].pss \/ k'[t].stopq
  /\ signalsLeft' \in 0 .. MaxSignals
  /\ \A t \in Tid : k'[t].sigq + signalsLeft' <= MaxSignals

LEMMA SendsStep ==
  ASSUME IInv, Sends
  PROVE  Threads' /\ MetStays /\ TopStays
<1>1. \A t \in Tid : ThreadStep(t)
  BY DEF Sends, ThreadStep, IInv, Threads, StatusOf, Owed, Met, Living, StopComing
<1>2. Threads' /\ MetStays
  BY <1>1, ThreadsBy DEF Sends
<1>3. TopStays
  BY DEF Sends, TopStays, InPtraceStop, Living, StopComing
<1> QED
  BY <1>2, <1>3

\* A SIGSTOP is sent to one thread at most.
LEMMA SigstopStep ==
  ASSUME IInv, NEW t \in Tid, k' = k \/ k' = WithSigstop(k, t, TRUE),
         th' \in Records, signalsLeft' = signalsLeft,
         \A u \in Tid : /\ th'[u].known = th[u].known /\ th'[u].running = th[u].running
                        /\ \/ th'[u].pss = th[u].pss
                           \/ (u = t /\ k' = WithSigstop(k, t, TRUE))
  PROVE  Threads' /\ MetStays /\ TopStays
<1> DEFINE g == WithSigstop(k, t, TRUE)
<1>1. k \in Kernels /\ signalsLeft' \in 0 .. MaxSignals
  BY DEF IInv, Threads, Kernels
<1>2. /\ g \in Kernels /\ Others(g, k, t) /\ g[t].stopq = TRUE
      /\ g[t].run = k[t].run /\ g[t].status = k[t].status
      /\ g[t].sigq = k[t].sigq /\ g[t].dying = k[t].dying
  BY <1>1, SigstopIs
<1> HIDE DEF g
<1>3. /\ k' \in Kernels
      /\ \A u \in Tid : /\ k'[u].run = k[u].run /\ k'[u].status = k[u].status
                        /\ k'[u].dying = k[u].dying /\ k'[u].sigq = k[u].sigq
                        /\ k[u].stopq => k'[u].stopq
      /\ k' = g => k'[t].stopq
  <2>1. CASE k' = k
    <3>1. k' = g => k[t].stopq
      BY <1>2, <2>1
    <3> QED
      BY <1>1, <2>1, <3>1
  <2>2. CASE k' = g
    BY <1>2, <2>2 DEF Others
  <2> QED
    BY <2>1, <2>2 DEF g
<1>4. \A u \in Tid : th'[u].pss => th[u].pss \/ k'[u].stopq
  BY <1>3 DEF g
<1>5. \A u \in Tid : k'[u].sigq + signalsLeft' <= MaxSignals
  BY <1>3 DEF IInv, Threads, SignalsBounded
<1>6. Sends
  BY <1>1, <1>3, <1>4, <1>5 DEF Sends
<1> QED
  BY <1>6, SendsStep

LEMMA SendSignalStep ==
  ASSUME IInv, NEW t \in Tid, SendSignal(t)
  PROVE  IInv'
<1>1. /\ k \in Kernels /\ k[t].sigq \in Nat /\ signalsLeft \in Nat /\ signalsLeft > 0
      /\ k[t].sigq + signalsLeft <= MaxSignals /\ MaxSignals \in Nat
  BY BoundAssumption
     DEF SendSignal, IInv, Threads, SignalsBounded, Kernels, KernelThread
<1> DEFINE n == k[t].sigq + 1
<1>2. n \in 0 .. MaxSignals /\ n + (signalsLeft - 1) <= MaxSignals
  BY <1>1
<1>3. k' = WithSignals(k, t, n)
  BY DEF SendSignal, WithSignals
<1>4. /\ th' = th /\ stack' = stack /\ signalsLeft' = signalsLeft - 1
      /\ UNCHANGED <<procStop, bpVars, tracerVars, userVars, historyVars>>
  BY DEF SendSignal, tracerVars
<1> HIDE DEF n
<1>5. /\ k' \in Kernels /\ Others(k', k, t) /\ k'[t].sigq = n
      /\ k'[t].run = k[t].run /\ k'[t].status = k[t].status
      /\ k'[t].stopq = k[t].stopq /\ k'[t].dying = k[t].dying
  BY <1>1, <1>2, <1>3, SignalsAre
<1>6. \A u \in Tid : k'[u].sigq + signalsLeft' <= MaxSignals
  <2>1. \A u \in Tid \ {t} : k[u].sigq + signalsLeft <= MaxSignals /\ k[u].sigq \in Nat
    BY <1>1 DEF IInv, Threads, SignalsBounded, Kernels, KernelThread
  <2>2. \A u \in Tid \ {t} : k'[u].sigq + signalsLeft' <= MaxSignals
    BY <1>1, <1>4, <1>5, <2>1 DEF Others
  <2> QED
    BY <1>2, <1>4, <1>5, <2>2
<1>7. Sends
  <2>1. th' \in Records /\ signalsLeft' \in 0 .. MaxSignals
    BY <1>1, <1>4 DEF IInv, Threads, Records
  <2> QED
    BY <1>4, <1>5, <1>6, <2>1 DEF Sends, Others
<1>8. Threads' /\ MetStays /\ Frames' /\ Handled'
  BY <1>4, <1>7, SendsStep, SameStack, HandledStays
<1>9. Bytes' /\ Flags' /\ Marks' /\ Current'
  BY <1>4, <1>8, CurrentStays
     DEF IInv, Bytes, Flags, Marks, bpVars, tracerVars, userVars, historyVars
<1> QED
  BY <1>8, <1>9 DEF IInv

-----------------------------------------------------------------------------
(* The user                                                                *)

LEMMA ContinueStep ==
  ASSUME IInv, Continue
  PROVE  IInv'
<1>1. /\ UNCHANGED <<kernelVars, bpVars, tracerVars, historyVars>>
      /\ UNCHANGED <<pauseReq, pendSuspend, pendResume, kick>>
      /\ paused' = FALSE /\ stepReq' = FALSE
  BY DEF Continue
<1>2. Threads' /\ MetStays /\ Frames' /\ Handled'
  BY <1>1, Untouched DEF kernelVars, tracerVars
<1> QED
  BY <1>1, <1>2, CurrentStays
     DEF IInv, Bytes, Flags, Marks, kernelVars, bpVars, tracerVars, historyVars

LEMMA StepIntoStep ==
  ASSUME IInv, StepInto
  PROVE  IInv'
<1>1. /\ UNCHANGED <<kernelVars, bpVars, tracerVars, historyVars>>
      /\ UNCHANGED <<pauseReq, pendSuspend, pendResume, kick>>
      /\ paused' = FALSE /\ stepReq' = TRUE
  BY DEF StepInto
<1>2. Threads' /\ MetStays /\ Frames' /\ Handled'
  BY <1>1, Untouched DEF kernelVars, tracerVars
<1> QED
  BY <1>1, <1>2, CurrentStays
     DEF IInv, Bytes, Flags, Marks, kernelVars, bpVars, tracerVars, historyVars

LEMMA PauseStep ==
  ASSUME IInv, Pause
  PROVE  IInv'
<1>1. /\ UNCHANGED <<kernelVars, bpVars, tracerVars, historyVars>>
      /\ UNCHANGED <<paused, stepReq, pendSuspend, pendResume>>
      /\ pauseReq' = TRUE /\ kick' = TRUE
  BY DEF Pause
<1>2. Threads' /\ MetStays /\ Frames' /\ Handled'
  BY <1>1, Untouched DEF kernelVars, tracerVars
<1> QED
  BY <1>1, <1>2, CurrentStays
     DEF IInv, Bytes, Flags, Marks, kernelVars, bpVars, tracerVars, historyVars

LEMMA SwitchThreadStep ==
  ASSUME IInv, NEW t \in Tid, SwitchThread(t)
  PROVE  IInv'
<1>1. /\ UNCHANGED <<th, curSig, rearms, allStopped, stack, ret>>
      /\ UNCHANGED <<kernelVars, bpVars, userVars, historyVars>>
      /\ th[t].known /\ cur' = t
  BY DEF SwitchThread
<1>2. Threads' /\ MetStays /\ Frames' /\ Handled'
  BY <1>1, Untouched DEF kernelVars
<1>3. Current'
  BY <1>1 DEF IInv, Current, Met, kernelVars, userVars
<1> QED
  BY <1>1, <1>2, <1>3
     DEF IInv, Bytes, Flags, Marks, kernelVars, bpVars, userVars, historyVars

LEMMA InterruptRunningThreadStep ==
  ASSUME IInv, InterruptRunningThread
  PROVE  IInv'
<1>1. /\ UNCHANGED <<signalsLeft, cur, curSig, rearms, allStopped, stack, ret>>
      /\ UNCHANGED <<paused, stepReq, pauseReq, pendSuspend, pendResume>>
      /\ UNCHANGED <<bpVars, historyVars>>
      /\ kick' = FALSE
  BY DEF InterruptRunningThread
<1>2. Threads' /\ MetStays /\ TopStays
  <2>1. CASE \E t \in Interruptible(NoTid) : Interrupt(t)
    <3>1. PICK t \in Tid : Interrupt(t)
      BY <2>1 DEF Interruptible
    <3>2. k' = WithSigstop(k, t, TRUE) /\ th' = [th EXCEPT ![t].pss = TRUE]
      BY <3>1 DEF Interrupt, WithSigstop
    <3>3. /\ th' \in Records
          /\ \A u \in Tid : /\ th'[u].known = th[u].known /\ th'[u].running = th[u].running
                            /\ (th'[u].pss = th[u].pss \/ u = t)
      BY <3>2 DEF IInv, Threads, ThreadRecords, Records
    <3> QED
      BY <1>1, <3>2, <3>3, SigstopStep
  <2>2. CASE k' = k /\ th' = th
    <3>1. TopStays
      BY <2>2 DEF TopStays, InPtraceStop, Living, StopComing
    <3> QED
      BY <1>1, <2>2, <3>1, ThreadsSame
  <2> QED
    BY <2>1, <2>2 DEF InterruptRunningThread
<1>3. Frames' /\ Handled'
  BY <1>1, <1>2, SameStack, HandledStays
<1>4. procStop' \in BOOLEAN
  BY DEF InterruptRunningThread, IInv, Flags
<1> QED
  BY <1>1, <1>2, <1>3, <1>4, CurrentStays
     DEF IInv, Bytes, Flags, Marks, bpVars, historyVars

\* How often a thread is suspended.
WithSusp(ths, t, n) == [ths EXCEPT ![t].susp = n]
LEMMA SuspIs ==
  ASSUME NEW ths \in Records, NEW t \in Tid, NEW n \in 0 .. MaxSuspend
  PROVE  WithSusp(ths, t, n) \in Records /\ Alike(WithSusp(ths, t, n), ths)
<1>1. ths[t] \in ThreadRecords
  BY DEF Records
<1>2. [ths[t] EXCEPT !.susp = n] \in ThreadRecords
  BY <1>1 DEF ThreadRecords
<1>3. WithSusp(ths, t, n) \in Records
  BY <1>2 DEF Records, WithSusp
<1>4. Alike(WithSusp(ths, t, n), ths)
  BY <1>1 DEF Records, ThreadRecords, Alike, WithSusp
<1> QED
  BY <1>3, <1>4

\* A SIGSTOP is booked on a thread.
WithOwed(ths, t) == [ths EXCEPT ![t].pss = TRUE]
LEMMA OwedIs ==
  ASSUME NEW ths \in Records, NEW t \in Tid
  PROVE  /\ WithOwed(ths, t) \in Records
         /\ \A u \in Tid : /\ WithOwed(ths, t)[u].known = ths[u].known
                           /\ WithOwed(ths, t)[u].running = ths[u].running
                           /\ (WithOwed(ths, t)[u].pss = ths[u].pss \/ u = t)
BY DEF Records, ThreadRecords, WithOwed

LEMMA SuspendStep ==
  ASSUME IInv, NEW t \in Tid, Suspend(t)
  PROVE  IInv'
<1>1. /\ UNCHANGED <<cur, curSig, rearms, allStopped, stack, ret>>
      /\ UNCHANGED <<paused, stepReq, pauseReq, pendResume, kick>>
      /\ UNCHANGED <<procStop, signalsLeft, bpVars, historyVars>>
      /\ th[t].susp < MaxSuspend
  BY DEF Suspend
<1>2. th \in Records /\ th[t].susp \in 0 .. MaxSuspend /\ MaxSuspend \in Nat
  BY BoundAssumption DEF IInv, Threads, Records, ThreadRecords
<1> DEFINE n == th[t].susp + 1
<1>3. n \in 0 .. MaxSuspend
  BY <1>1, <1>2
<1>4. \/ /\ th' = [th EXCEPT ![t].susp = n, ![t].pss = TRUE]
         /\ k' = WithSigstop(k, t, TRUE) /\ pendSuspend' = pendSuspend \cup {t}
      \/ /\ th' = [th EXCEPT ![t].susp = n]
         /\ k' = k /\ pendSuspend' = pendSuspend
  BY DEF Suspend, WithSigstop
<1> HIDE DEF n
<1>5. Threads' /\ MetStays /\ TopStays
  <2>1. CASE /\ th' = [th EXCEPT ![t].susp = n, ![t].pss = TRUE]
             /\ k' = WithSigstop(k, t, TRUE)
    <3> DEFINE ths == WithSusp(th, t, n)
    <3>1. th' = WithOwed(ths, t)
      BY <1>2, <2>1 DEF WithOwed, WithSusp, Records, ThreadRecords
    <3>2. ths \in Records /\ Alike(ths, th)
      BY <1>2, <1>3, SuspIs
    <3> HIDE DEF ths
    <3>3. th' \in Records
      BY <3>1, <3>2, OwedIs
    <3>4. \A u \in Tid : /\ th'[u].known = th[u].known /\ th'[u].running = th[u].running
                         /\ (th'[u].pss = th[u].pss \/ u = t)
      BY <3>1, <3>2, OwedIs DEF Alike
    <3> QED
      BY <1>1, <2>1, <3>3, <3>4, SigstopStep
  <2>2. CASE th' = [th EXCEPT ![t].susp = n] /\ k' = k
    <3>1. th' \in Records /\ Alike(th', th)
      BY <1>2, <1>3, <2>2, SuspIs DEF WithSusp
    <3>2. TopStays
      BY <2>2 DEF TopStays, InPtraceStop, Living, StopComing
    <3> QED
      BY <1>1, <2>2, <3>1, <3>2, ThreadsAlike
  <2> QED
    BY <1>4, <2>1, <2>2
<1>6. Frames' /\ Handled'
  BY <1>1, <1>5, SameStack, HandledStays
<1>7. pendSuspend' \subseteq Tid
  BY <1>4 DEF IInv, Marks
<1> QED
  BY <1>1, <1>5, <1>6, <1>7, CurrentStays
     DEF IInv, Bytes, Flags, Marks, bpVars, historyVars

LEMMA ResumeStep ==
  ASSUME IInv, NEW t \in Tid, Resume(t)
  PROVE  IInv'
<1>1. /\ UNCHANGED <<cur, curSig, rearms, allStopped, stack, ret>>
      /\ UNCHANGED <<paused, stepReq, pauseReq, pendSuspend, kick>>
      /\ UNCHANGED <<procStop, signalsLeft, bpVars, historyVars>>
      /\ th[t].known /\ th[t].susp > 0
  BY DEF Resume
<1>2. th \in Records /\ th[t].susp \in 0 .. MaxSuspend /\ MaxSuspend \in Nat
  BY BoundAssumption DEF IInv, Threads, Records, ThreadRecords
<1> DEFINE n == th[t].susp - 1
           ths == [th EXCEPT ![t].susp = n]
<1>3. n \in 0 .. MaxSuspend
  BY <1>1, <1>2
<1>4. /\ pendResume' \in {pendResume, pendResume \cup {t}}
      /\ \/ \E u \in Tid : /\ k' = WithSigstop(k, u, TRUE)
                         /\ th' = [ths EXCEPT ![u].pss = TRUE]
         \/ k' = k /\ th' = ths
  BY DEF Resume, WithSigstop, Interruptible
<1>5. ths \in Records /\ Alike(ths, th)
  <2> HIDE DEF n
  <2> QED
    BY <1>2, <1>3, SuspIs DEF WithSusp
<1> HIDE DEF ths
<1>6. Threads' /\ MetStays /\ TopStays
  <2>1. ASSUME NEW u \in Tid, k' = WithSigstop(k, u, TRUE),
               th' = [ths EXCEPT ![u].pss = TRUE]
        PROVE  Threads' /\ MetStays /\ TopStays
    <3>1. /\ th' \in Records
          /\ \A v \in Tid : /\ th'[v].known = ths[v].known /\ th'[v].running = ths[v].running
                            /\ (th'[v].pss = ths[v].pss \/ v = u)
      BY <1>5, <2>1 DEF ThreadRecords, Records
    <3>2. \A v \in Tid : /\ th'[v].known = th[v].known /\ th'[v].running = th[v].running
                         /\ (th'[v].pss = th[v].pss \/ v = u)
      BY <1>5, <3>1 DEF Alike
    <3> QED
      BY <1>1, <2>1, <3>1, <3>2, SigstopStep
  <2>2. CASE k' = k /\ th' = ths
    <3>1. TopStays
      BY <2>2 DEF TopStays, InPtraceStop, Living, StopComing
    <3> QED
      BY <1>1, <1>5, <2>2, <3>1, ThreadsAlike
  <2> QED
    BY <1>4, <2>1, <2>2
<1>7. Frames' /\ Handled'
  BY <1>1, <1>6, SameStack, HandledStays
<1>8. Current'
  BY <1>1, <1>4, <1>6 DEF IInv, Current, MetStays, Met
<1> QED
  BY <1>1, <1>6, <1>7, <1>8
     DEF IInv, Bytes, Flags, Marks, bpVars, historyVars

LEMMA SetBreakpointStep ==
  ASSUME IInv, NEW a \in Addr, SetBreakpoint(a)
  PROVE  IInv'
<1>1. /\ UNCHANGED <<kernelVars, tracerVars, userVars, historyVars>>
      /\ recs' = recs \cup {a} /\ armed' = armed \cup {a}
  BY DEF SetBreakpoint
<1>2. Threads' /\ MetStays /\ Frames' /\ Handled'
  BY <1>1, Untouched DEF kernelVars, tracerVars
<1>3. Bytes'
  BY <1>1 DEF IInv, Bytes, tracerVars
<1> QED
  BY <1>1, <1>2, <1>3, CurrentStays
     DEF IInv, Flags, Marks, kernelVars, tracerVars, userVars, historyVars

LEMMA DeleteBreakpointStep ==
  ASSUME IInv, NEW a \in Addr, DeleteBreakpoint(a)
  PROVE  IInv'
<1>1. /\ UNCHANGED <<kernelVars, tracerVars, userVars, owed>>
      /\ recs' = recs \ {a} /\ armed' = armed \ {a}
      /\ hits' = {t \in hits : k[t].at # a}
  BY DEF DeleteBreakpoint
<1>2. Threads' /\ MetStays /\ Frames' /\ Handled'
  BY <1>1, Untouched DEF kernelVars, tracerVars
<1>3. Bytes'
  BY <1>1 DEF IInv, Bytes, tracerVars
<1>4. hits' \subseteq Tid
  BY <1>1 DEF IInv, Marks
<1> QED
  BY <1>1, <1>2, <1>3, <1>4, CurrentStays
     DEF IInv, Flags, Marks, kernelVars, tracerVars, userVars

-----------------------------------------------------------------------------
(* Where the tracer goes on                                                *)

LEMMA GoesOn ==
  ASSUME IInv, MetStays, Top.at # "loop", NEW f, Above(f), Free(f), MetBy(f, k', th'),
         Become(f)
  PROVE  Frames' /\ Handled'
BY BecomeStep DEF Become

\* The points of which nothing is asked.
Plain == Points \ ({"loop", "steppedOff", "sweepWait"} \cup StopPoints)

LEMMA GoesOnAt ==
  ASSUME IInv, MetStays, Top.at # "loop", NEW t \in Tid, Met(t, k', th'),
         NEW point \in Plain,
         Become(Frame(point, t))
  PROVE  Frames' /\ Handled'
<1>1. /\ Frame(point, t) \in Activations /\ Frame(point, t).at = point
      /\ point \notin {"loop", "steppedOff", "sweepWait"} \cup StopPoints
  BY FrameIs DEF Plain
<1>2. MetBy(Frame(point, t), k', th')
  BY MetByOwn
<1>3. Above(Frame(point, t)) /\ Free(Frame(point, t))
  BY <1>1 DEF Above, Free
<1> QED
  BY <1>2, <1>3, GoesOn

LEMMA StopsAll ==
  ASSUME IInv, MetStays, Top.at # "loop", NEW t \in Tid, Met(t, k', th'),
         NEW why \in Reasons, Become(StopAll(t, why))
  PROVE  Frames' /\ Handled'
<1>1. StopAll(t, why) \in Activations /\ StopAll(t, why).at = "sweep"
  BY KindsOfFrame
<1>2. MetBy(StopAll(t, why), k', th')
  BY MetByOwn
<1>3. Above(StopAll(t, why)) /\ Free(StopAll(t, why))
  BY <1>1 DEF Above, Free, StopPoints
<1> QED
  BY <1>2, <1>3, GoesOn

LEMMA GoesOnToContinue ==
  ASSUME IInv, MetStays, Top.at # "loop", NEW t \in Tid, Met(t, k', th'),
         NEW sig \in BOOLEAN, NEW park \in BOOLEAN,
         Become(ContinueOrPark(t, sig, park)) \/ Become(ResumeFrom(t, park))
  PROVE  Frames' /\ Handled'
<1>1. /\ ContinueOrPark(t, sig, park) \in Activations
      /\ ContinueOrPark(t, sig, park).at = "continueOrPark"
      /\ ResumeFrom(t, park) \in Activations /\ ResumeFrom(t, park).at = "cont"
  BY KindsOfFrame
<1>2. /\ MetBy(ContinueOrPark(t, sig, park), k', th')
      /\ MetBy(ResumeFrom(t, park), k', th')
  BY MetByOwn
<1>3. /\ Above(ContinueOrPark(t, sig, park)) /\ Free(ContinueOrPark(t, sig, park))
      /\ Above(ResumeFrom(t, park)) /\ Free(ResumeFrom(t, park))
  BY <1>1 DEF Above, Free, StopPoints
<1> QED
  BY <1>2, <1>3, GoesOn

LEMMA Returns ==
  ASSUME IInv, MetStays, Top.at # "loop", Return
  PROVE  Frames' /\ Handled'
BY ReturnStep DEF Return

LEMMA Pauses ==
  ASSUME IInv, MetStays, Top.at # "loop", NEW t \in Tid, Met(t, k', th'),
         BeginPause(t) \/ PauseIfAlone(t)
  PROVE  Frames' /\ Handled' /\ paused' \in BOOLEAN /\ allStopped' \in BOOLEAN
<1>1. ASSUME BeginPause(t)
      PROVE  Frames' /\ Handled' /\ paused' \in BOOLEAN /\ allStopped' \in BOOLEAN
  <2>1. "wait" \in Plain
    BY DEF Plain, Points, StopPoints
  <2> QED
    BY <1>1, <2>1, GoesOnAt DEF BeginPause
<1>2. ASSUME Return, UNCHANGED <<paused, allStopped>>
      PROVE  Frames' /\ Handled' /\ paused' \in BOOLEAN /\ allStopped' \in BOOLEAN
  BY <1>2, Returns DEF IInv, Flags
<1> QED
  BY <1>1, <1>2 DEF PauseIfAlone

\* The top activation with other locals.
SameThreads(f, g) ==
  /\ f.tid = g.tid /\ f.who = g.who /\ f.prev = g.prev
  /\ f.todo \subseteq g.todo /\ f.rest = g.rest /\ f.parked = g.parked

LEMMA MetByAlike ==
  ASSUME IInv, MetStays, NEW f, SameThreads(f, Top)
  PROVE  MetBy(f, k', th')
<1>1. Top \in Activations /\ MetBy(Top, k, th)
  BY TopIs
<1>2. MetBy(Top, k', th')
  BY <1>1, MetByStays
<1> QED
  BY <1>2 DEF MetBy, SameThreads

Moved(f, point) == [f EXCEPT !.at = point]
LEMMA MovedIs ==
  ASSUME NEW f \in Activations, NEW point \in Points
  PROVE  /\ Moved(f, point) \in Activations /\ Moved(f, point).at = point
         /\ SameThreads(Moved(f, point), f)
BY DEF Moved, Activations, SameThreads

Without(f, t) == [f EXCEPT !.todo = @ \ {t}]
LEMMA WithoutIs ==
  ASSUME NEW f \in Activations, NEW t
  PROVE  /\ Without(f, t) \in Activations /\ Without(f, t).at = f.at
         /\ SameThreads(Without(f, t), f)
BY DEF Without, Activations, SameThreads

\* What is changed about a breakpoint's byte.
LEMMA RestoreIs ==
  ASSUME IInv, NEW t \in Tid, RestoreSourceByte(t), recs' = recs
  PROVE  Bytes'
<1>1. Rearmed(rearms[t]) \subseteq recs
  BY DEF IInv, Bytes, Rearmed
<1> QED
  BY <1>1 DEF IInv, Bytes, RestoreSourceByte

-----------------------------------------------------------------------------
(* The loop                                                                *)

\* The flags and what has only a type, when a thread's stop is taken.
LEMMA ExitThreadEventIs ==
  ASSUME IInv, NEW t \in Tid, k[t].status = "exited", ExitThreadEvent(t),
         signalsLeft' = signalsLeft, recs' = recs
  PROVE  Threads' /\ MetStays /\ Bytes' /\ Current'
           /\ pendSuspend' \subseteq Tid /\ hits' \subseteq Tid /\ owed' \in [Tid -> Int]
<1>1. /\ k \in Kernels /\ th \in Records /\ k[t] \in KernelThread /\ k[t].run = "dead"
  BY DEF IInv, Threads, Kernels, Records, StatusOf
<1> DEFINE x == [k[t] EXCEPT !.status = "none"]
<1>2. /\ x \in KernelThread /\ x.run = "dead" /\ x.status = "none" /\ x.sigq = k[t].sigq
  BY <1>1 DEF KernelThread
<1>3. k' = [k EXCEPT ![t] = x]
  BY <1>1 DEF ExitThreadEvent, Kernels
<1> HIDE DEF x
<1>4. k' \in Kernels /\ Others(k', k, t) /\ k'[t] = x
  BY <1>1, <1>2, <1>3, WithRecord
<1>5. NoThread \in ThreadRecords
  BY BoundAssumption DEF NoThread, ThreadRecords
<1>6. th' \in Records /\ Others(th', th, t)
  BY <1>1, <1>5 DEF ExitThreadEvent, Records, Others
<1>7. ~th'[t].running
  BY <1>1 DEF ExitThreadEvent, Records, NoThread
<1>8. ThreadStep(t)
  BY <1>2, <1>4, <1>7 DEF ThreadStep, Met, Living
<1>9. \A u \in Tid : k'[u].sigq + signalsLeft' <= MaxSignals
  BY <1>2, <1>4 DEF Others, IInv, Threads, SignalsBounded
<1>10. signalsLeft' \in 0 .. MaxSignals
  BY DEF IInv, Threads
<1>11. Threads' /\ MetStays
  BY <1>4, <1>6, <1>8, <1>9, <1>10, ThreadsBy DEF Others
<1>12. Bytes'
  BY RestoreIs DEF ExitThreadEvent
<1>13. Current'
  BY <1>11, CurrentStays DEF ExitThreadEvent
<1> QED
  BY <1>11, <1>12, <1>13 DEF ExitThreadEvent, IInv, Marks

LEMMA ReapStep ==
  ASSUME IInv, NEW t \in Tid, Reap(t)
  PROVE  IInv'
<1>1. /\ Top.at = "loop" /\ k[t].status = "exited" /\ ExitThreadEvent(t)
      /\ UNCHANGED <<procStop, signalsLeft, recs, curSig, allStopped, stack, ret>>
      /\ UNCHANGED <<paused, stepReq, pauseReq, kick>>
  BY DEF Reap, At
<1>2. Threads' /\ MetStays /\ Bytes' /\ Current'
        /\ pendSuspend' \subseteq Tid /\ hits' \subseteq Tid /\ owed' \in [Tid -> Int]
  BY <1>1, ExitThreadEventIs
<1>3. Frames'
  BY <1>1, <1>2, SameStack
<1>4. Handled'
  BY <1>1 DEF Handled, Top, StopPoints
<1> QED
  BY <1>1, <1>2, <1>3, <1>4 DEF IInv, Flags, Marks

\* A stop that is taken from the kernel.
LEMMA TakenIs ==
  ASSUME k \in Kernels, NEW t \in Tid, k' = [k EXCEPT ![t].status = "none"]
  PROVE  /\ k' \in Kernels /\ Others(k', k, t) /\ k'[t].status = "none"
         /\ k'[t].run = k[t].run /\ k'[t].stopq = k[t].stopq
         /\ k'[t].sigq = k[t].sigq /\ k'[t].dying = k[t].dying
<1> DEFINE x == [k[t] EXCEPT !.status = "none"]
<1>1. k[t] \in KernelThread
  BY DEF Kernels
<1>2. /\ x \in KernelThread /\ x.status = "none" /\ x.run = k[t].run
      /\ x.stopq = k[t].stopq /\ x.sigq = k[t].sigq /\ x.dying = k[t].dying
  BY <1>1 DEF KernelThread
<1>3. k' = [k EXCEPT ![t] = x]
  BY DEF Kernels
<1> HIDE DEF x
<1>4. /\ [k EXCEPT ![t] = x] \in Kernels /\ Others([k EXCEPT ![t] = x], k, t)
      /\ [k EXCEPT ![t] = x][t] = x
  BY <1>2, WithRecord
<1> QED
  BY <1>2, <1>3, <1>4

\* The signals that are queued stay, or get fewer.
LEMMA SignalsStay ==
  ASSUME IInv, k' \in Kernels, NEW t \in Tid, Others(k', k, t), k'[t].sigq = k[t].sigq,
         signalsLeft' = signalsLeft
  PROVE  /\ signalsLeft' \in 0 .. MaxSignals
         /\ \A u \in Tid : k'[u].sigq + signalsLeft' <= MaxSignals
BY DEF Others, IInv, Threads, SignalsBounded

\* handleSignal.
LEMMA HandleSignalIs ==
  ASSUME IInv, NEW t \in Tid, NEW ths \in Records, Alike(ths, th), NEW below,
         k[t].status # "none", HandleSignal(t, ths, below),
         signalsLeft' = signalsLeft, pendResume' = pendResume,
         Shape(below), Head(below).at \in Callers, NEW F, From(below, stack, F),
         \A f \in F : Met(t, k', th') /\ MetStays => MetBy(f, k', th')
  PROVE  /\ Threads' /\ Frames' /\ Handled' /\ Current' /\ curSig' \in BOOLEAN
         /\ owed' \in [Tid -> Int]
<1> DEFINE why == k[t].status
           owes == IF why = "stop" THEN FALSE ELSE ths[t].pss
           x == [ths[t] EXCEPT !.known = TRUE, !.running = FALSE, !.pss = owes]
<1>1. /\ k \in Kernels /\ th \in Records /\ k[t] \in KernelThread
      /\ (k[t].status # "exited" => k[t].run = "stopped")
      /\ (k[t].status = "exited" => k[t].run = "dead")
      /\ ths[t] \in ThreadRecords
  BY DEF IInv, Threads, StatusOf, Kernels, Records
<1>2. /\ k' = [k EXCEPT ![t].status = "none"]
      /\ th' = [ths EXCEPT ![t].known = TRUE, ![t].running = FALSE,
                           ![t].pss = IF why = "stop" THEN FALSE ELSE @]
      /\ cur' = t /\ curSig' = (why = "sig")
      /\ owed' = IF why = "sig" THEN [owed EXCEPT ![t] = @ + 1] ELSE owed
  BY DEF HandleSignal
<1>3. /\ k' \in Kernels /\ Others(k', k, t) /\ k'[t].status = "none"
      /\ k'[t].run = k[t].run /\ k'[t].stopq = k[t].stopq
      /\ k'[t].sigq = k[t].sigq /\ k'[t].dying = k[t].dying
  BY <1>1, <1>2, TakenIs
<1>4. owes \in BOOLEAN
  BY <1>1 DEF ThreadRecords
<1>5. x \in ThreadRecords /\ x.known = TRUE /\ x.running = FALSE /\ x.pss = owes
  <2> HIDE DEF owes
  <2> QED
    BY <1>1, <1>4 DEF ThreadRecords
<1>6. th' = [ths EXCEPT ![t] = x]
  BY <1>1, <1>2 DEF Records, ThreadRecords
<1>7. /\ th' \in Records /\ th'[t].known = TRUE /\ th'[t].running = FALSE
      /\ th'[t].pss = owes
      /\ \A u \in Tid \ {t} : th'[u] = ths[u]
  <2> HIDE DEF x
  <2> QED
    BY <1>5, <1>6 DEF Records
<1>8. th'[t].pss => k'[t].stopq \/ ~Living(t)'
  <2>1. SUFFICES ASSUME th'[t].pss, ~k[t].dying, k[t].run # "dead"
                 PROVE  k'[t].stopq
    BY <1>3 DEF Living
  <2>2. why # "stop" /\ th[t].pss
    BY <1>7, <2>1 DEF Alike
  <2>3. Living(t)
    BY <1>1, <2>1 DEF Living
  <2> QED
    BY <1>3, <2>2, <2>3 DEF IInv, Threads, Owed, StopComing
<1>9. ThreadStep(t)
  BY <1>1, <1>3, <1>7, <1>8 DEF ThreadStep, Met, Living, StopComing
<1>10. \A u \in Tid \ {t} : ThreadStep(u)
  BY <1>3, <1>7 DEF Others, Alike, ThreadStep, Met, Living, StopComing,
                    IInv, Threads, StatusOf, Owed
<1>11. Threads' /\ MetStays
  <2>1. /\ signalsLeft' \in 0 .. MaxSignals
        /\ \A u \in Tid : k'[u].sigq + signalsLeft' <= MaxSignals
    BY <1>3, SignalsStay
  <2>2. \A u \in Tid : ThreadStep(u)
    BY <1>9, <1>10
  <2> QED
    BY <1>3, <1>7, <2>1, <2>2, ThreadsBy
<1>12. Met(t, k', th')
  BY <1>7 DEF Met
<1> DEFINE point == IF why \in {"stop", "sig", "clone", "exit"} THEN why ELSE "trap"
           f == [Frame(point, t) EXCEPT !.why = why, !.ran = th[t].running,
                                        !.susp = Suspended(t)]
<1>13. stack' = <<f>> \o below
  BY DEF HandleSignal
<1>14. point \in Points \ {"loop", "sweepWait", "steppedOff"}
  BY DEF Points
<1>15. /\ f \in Activations /\ f.at = point /\ f.tid = t
       /\ MetBy(f, k', th')
  <2>1. why \in Reasons /\ th[t].running \in BOOLEAN /\ Suspended(t) \in BOOLEAN
    BY <1>1 DEF KernelThread, Reasons, Records, ThreadRecords, Suspended
  <2>2. Frame(point, t) \in Activations /\ Frame(point, t).at = point
          /\ Frame(point, t).tid = t
    <3> HIDE DEF point
    <3> QED
      BY <1>14, FrameIs
  <2>3. MetBy(Frame(point, t), k', th')
    <3> HIDE DEF point
    <3> QED
      BY <1>12, MetByOwn
  <2> DEFINE g == Frame(point, t)
             ran == th[t].running
             susp == Suspended(t)
  <2>4. /\ f = [g EXCEPT !.why = why, !.ran = ran, !.susp = susp]
        /\ ran \in BOOLEAN /\ susp \in BOOLEAN /\ why \in Reasons
        /\ g \in Activations /\ g.at = point /\ g.tid = t /\ MetBy(g, k', th')
    BY <2>1, <2>2, <2>3
  <2> HIDE DEF g, f, ran, susp, why, point
  <2>5. f \in Activations /\ f.at = point /\ f.tid = t /\ SameThreads(f, g)
    BY <2>4 DEF Activations, SameThreads
  <2> QED
    BY <2>4, <2>5 DEF MetBy, SameThreads
<1> HIDE DEF f
<1>16. Above(f)
  BY <1>14, <1>15 DEF Above
<1>17. Shape(stack') /\ Head(stack') = f /\ From(stack', stack, F \cup {f})
  <2>1. Shape(stack') /\ Head(stack') = f /\ From(stack', below, {f})
    BY <1>13, <1>16, Pushed
  <2> QED
    BY <2>1, FromFrom
<1>18. Frames'
  <2>1. \A g \in F \cup {f} : MetBy(g, k', th')
    BY <1>11, <1>12, <1>15
  <2> QED
    BY <1>11, <1>17, <2>1, FramesFrom
<1>19. Handled'
  <2>1. Top'.at = point /\ Top'.tid = t /\ point # "sweepWait"
    BY <1>14, <1>15, <1>17 DEF Top
  <2>2. point \in StopPoints => k'[t].run = "stopped"
    BY <1>1, <1>3 DEF StopPoints
  <2> QED
    BY <1>3, <2>1, <2>2 DEF Handled, InPtraceStop
<1>20. Current'
  BY <1>2, <1>11, <1>12 DEF Current, IInv, MetStays
<1>21. curSig' \in BOOLEAN /\ owed' \in [Tid -> Int]
  BY <1>2 DEF IInv, Marks
<1> QED
  BY <1>11, <1>18, <1>19, <1>20, <1>21

LEMMA WaitAnyStep ==
  ASSUME IInv, NEW t \in Tid, WaitAny(t)
  PROVE  IInv'
<1>1. /\ Top.at = "loop" /\ k[t].status \notin {"none", "exited"}
      /\ HandleSignal(t, th, stack)
      /\ UNCHANGED <<procStop, signalsLeft, bpVars, rearms, allStopped, ret, userVars, hits>>
  BY DEF WaitAny, At
<1>2. /\ th \in Records /\ Alike(th, th) /\ Shape(stack) /\ Head(stack).at \in Callers
      /\ From(stack, stack, {})
  BY <1>1, TopIs DEF IInv, Threads, Records, Alike, Callers, From
<1>3. /\ Threads' /\ Frames' /\ Handled' /\ Current' /\ curSig' \in BOOLEAN
      /\ owed' \in [Tid -> Int]
  BY <1>1, <1>2, HandleSignalIs DEF userVars
<1> QED
  BY <1>1, <1>3 DEF IInv, Bytes, Flags, Marks, bpVars, userVars

\* A thread in ptrace-stop is set going, and whoever is said to run is known.
LEMMA RestartStep ==
  ASSUME IInv, NEW t \in Tid, InPtraceStop(t), NEW how \in {"run", "step"},
         k' = Restart(t, how), th' \in Records, signalsLeft' = signalsLeft,
         \A u \in Tid : /\ th'[u].known = th[u].known /\ th'[u].pss = th[u].pss
                        /\ th'[u].running => th[u].running \/ Met(u, k, th)
  PROVE  Threads' /\ MetStays
<1>1. k \in Kernels
  BY DEF IInv, Threads, Kernels
<1>2. /\ k' \in Kernels /\ Others(k', k, t) /\ k'[t].run = how
      /\ k'[t].status = k[t].status /\ k'[t].stopq = k[t].stopq
      /\ k'[t].sigq = k[t].sigq /\ k'[t].dying = k[t].dying
  BY <1>1, RestartIs
<1>3. /\ signalsLeft' \in 0 .. MaxSignals
      /\ \A u \in Tid : k'[u].sigq + signalsLeft' <= MaxSignals
  BY <1>2, SignalsStay
<1>4. \A u \in Tid : Met(u, k, th) => Met(u, k', th')
  BY <1>2 DEF Met, Others, InPtraceStop
<1>5. \A u \in Tid : th[u].running \/ th[u].known => Met(u, k, th)
  BY DEF Met, IInv, Threads
<1>6. \A u \in Tid : th[u].known \/ th'[u].running => Met(u, k', th')
  BY <1>4, <1>5
<1>7. k[t].status = "none" /\ k[t].run = "stopped"
  BY DEF InPtraceStop
<1>8. ThreadStep(t)
  BY <1>2, <1>6, <1>7 DEF ThreadStep, Living, StopComing, IInv, Threads, Owed
<1>9. \A u \in Tid \ {t} : ThreadStep(u)
  BY <1>2, <1>6 DEF Others, ThreadStep, Living, StopComing, IInv, Threads, StatusOf, Owed
<1> QED
  BY <1>2, <1>3, <1>8, <1>9, ThreadsBy

\* Only what does not matter here changes.
LEMMA AlikeStep ==
  ASSUME IInv, NEW t \in Tid, AlikeKernel(k', k, t), th' \in Records, Alike(th', th),
         signalsLeft' = signalsLeft
  PROVE  Threads' /\ MetStays
<1>1. /\ signalsLeft' \in 0 .. MaxSignals
      /\ \A u \in Tid : k'[u].sigq + signalsLeft' <= MaxSignals
  BY SignalsStay DEF AlikeKernel
<1>2. \A u \in Tid : ThreadStep(u)
  BY DEF AlikeKernel, Others, Alike, ThreadStep, Met, Living, StopComing,
         IInv, Threads, StatusOf, Owed
<1> QED
  BY <1>1, <1>2, ThreadsBy DEF AlikeKernel

LEMMA StopForSuspendStep ==
  ASSUME IInv, StopForSuspend
  PROVE  IInv'
<1> DEFINE t == Top.tid
           resumed == t \in pendSuspend /\ ~Suspended(t)
           f == [Top EXCEPT !.at = "stopForResumes", !.resumed = resumed]
<1>1. /\ Top.at = "stop" /\ UNCHANGED <<kernelVars, bpVars, historyVars>>
      /\ UNCHANGED <<th, cur, curSig, rearms, ret, stepReq, pauseReq, kick>>
      /\ pendSuspend' \subseteq pendSuspend /\ pendResume' \subseteq pendResume
      /\ PauseIfAlone(t) \/ (Become(f) /\ UNCHANGED <<paused, allStopped>>)
  BY DEF StopForSuspend, At
<1>2. Threads' /\ MetStays
  BY <1>1, ThreadsSame DEF kernelVars
<1>3. Frames' /\ Handled' /\ paused' \in BOOLEAN /\ allStopped' \in BOOLEAN
  <2>1. CASE PauseIfAlone(t)
    <3>1. t \in Tid /\ Met(t, k', th')
      BY <1>2, TopIs DEF MetStays
    <3> HIDE DEF t
    <3> QED
      BY <1>1, <1>2, <2>1, <3>1, Pauses
  <2>2. CASE Become(f) /\ UNCHANGED <<paused, allStopped>>
    <3>1. Top \in Activations /\ resumed \in BOOLEAN
      BY TopIs
    <3>2. /\ f \in Activations /\ f.at = "stopForResumes" /\ SameThreads(f, Top)
      <4> HIDE DEF resumed
      <4> QED
        BY <3>1 DEF Activations, Points, SameThreads
    <3> HIDE DEF f
    <3>3. MetBy(f, k', th') /\ Above(f)
      BY <1>2, <3>2, MetByAlike DEF Above
    <3>4. Frames' /\ Head(stack') = f
      BY <1>1, <1>2, <2>2, <3>3, BecomeStep DEF Become
    <3>5. Handled'
      BY <1>1, <3>2, <3>4
         DEF Handled, Top, StopPoints, InPtraceStop, SameThreads, IInv, kernelVars
    <3> QED
      BY <2>2, <3>4, <3>5 DEF IInv, Flags
  <2> QED
    BY <1>1, <2>1, <2>2
<1>4. Current'
  BY <1>1, <1>2, CurrentStays
<1> QED
  BY <1>1, <1>2, <1>3, <1>4
     DEF IInv, Bytes, Flags, Marks, kernelVars, bpVars, historyVars

LEMMA StopForResumesStep ==
  ASSUME IInv, StopForResumes
  PROVE  IInv'
<1>1. /\ Top.at = "stopForResumes" /\ UNCHANGED <<kernelVars, bpVars, historyVars>>
      /\ UNCHANGED <<th, cur, curSig, rearms, allStopped, ret>>
      /\ UNCHANGED <<paused, stepReq, pauseReq, pendSuspend, kick>>
      /\ pendResume' \subseteq pendResume
      /\ \/ Become(StopAll(Top.tid, "resume")) \/ Become(Frame("takeResumes", Top.tid))
         \/ Become([Top EXCEPT !.at = "stopForPause"])
  BY DEF StopForResumes, At
<1>2. Threads' /\ MetStays
  BY <1>1, ThreadsSame DEF kernelVars
<1>3. Top.tid \in Tid /\ Met(Top.tid, k', th')
  BY <1>2, TopIs DEF MetStays
<1>4. Frames' /\ Handled'
  <2>1. CASE Become(StopAll(Top.tid, "resume"))
    BY <1>1, <1>2, <1>3, <2>1, StopsAll DEF Reasons
  <2>2. CASE Become(Frame("takeResumes", Top.tid))
    <3>1. "takeResumes" \in Plain
      BY DEF Plain, Points, StopPoints
    <3> QED
      BY <1>1, <1>2, <1>3, <2>2, <3>1, GoesOnAt
  <2>3. CASE Become([Top EXCEPT !.at = "stopForPause"])
    <3> DEFINE f == Moved(Top, "stopForPause")
    <3>1. /\ f \in Activations /\ f.at = "stopForPause" /\ SameThreads(f, Top)
      BY TopIs, MovedIs DEF Points
    <3>2. stack' = <<f>> \o Tail(stack)
      BY <2>3 DEF Become, Moved
    <3> HIDE DEF f
    <3>3. MetBy(f, k', th') /\ Above(f)
      BY <1>2, <3>1, MetByAlike DEF Above
    <3>4. Frames' /\ Head(stack') = f
      BY <1>1, <1>2, <3>2, <3>3, BecomeStep
    <3>5. Handled'
      BY <1>1, <3>1, <3>4
         DEF Handled, Top, StopPoints, InPtraceStop, SameThreads, IInv, kernelVars
    <3> QED
      BY <3>4, <3>5
  <2> QED
    BY <1>1, <2>1, <2>2, <2>3
<1>5. Current'
  BY <1>1, <1>2, CurrentStays
<1> QED
  BY <1>1, <1>2, <1>4, <1>5
     DEF IInv, Bytes, Flags, Marks, kernelVars, bpVars, historyVars

LEMMA StopForPauseStep ==
  ASSUME IInv, StopForPause
  PROVE  IInv'
<1> DEFINE t == Top.tid
<1>1. /\ Top.at = "stopForPause"
      /\ UNCHANGED <<procStop, signalsLeft, recs, cur, curSig, allStopped, ret>>
      /\ UNCHANGED <<paused, stepReq, pendSuspend, pendResume, kick, historyVars>>
      /\ pauseReq' \in BOOLEAN
  BY DEF StopForPause, At, IInv, Flags
<1>2. /\ t \in Tid /\ Met(t, k, th) /\ th \in Records /\ k \in Kernels
      /\ InPtraceStop(t)
  BY <1>1, TopIs DEF IInv, Handled, StopPoints, Threads, Records, Kernels
<1>3. \/ /\ th' = ClearSingleStep(th, t) /\ k' = k
         /\ RestoreSourceByte(t) /\ Become(StopAll(t, "paused"))
      \/ /\ k' = Restart(t, "step") /\ th' = Running(th, t)
         /\ armed' = armed /\ rearms' = rearms /\ Return
      \/ /\ k' = k /\ th' = th /\ armed' = armed /\ rearms' = rearms
         /\ Become(ContinueOrPark(t, FALSE, FALSE)) \/ Return
  BY DEF StopForPause
<1> HIDE DEF t
<1>4. Threads' /\ MetStays
  <2>1. CASE th' = ClearSingleStep(th, t) /\ k' = k
    BY <1>1, <1>2, <2>1, ClearIs, ThreadsAlike
  <2>2. CASE k' = Restart(t, "step") /\ th' = Running(th, t)
    <3>1. th' \in Records /\ \A u \in Tid : /\ th'[u].known = th[u].known
                                            /\ th'[u].pss = th[u].pss
                                            /\ (th'[u].running => th[u].running \/ u = t)
      BY <1>2, <2>2, RunningIs DEF Others
    <3>2. \A u \in Tid : th'[u].running => th[u].running \/ Met(u, k, th)
      BY <1>2, <3>1
    <3> QED
      BY <1>1, <1>2, <2>2, <3>1, <3>2, RestartStep
  <2>3. CASE th' = th /\ k' = k
    BY <1>1, <2>3, ThreadsSame
  <2> QED
    BY <1>3, <2>1, <2>2, <2>3
<1>5. Met(t, k', th')
  BY <1>2, <1>4 DEF MetStays
<1>6. Frames' /\ Handled'
  <2>1. CASE Become(StopAll(t, "paused"))
    BY <1>1, <1>2, <1>4, <1>5, <2>1, StopsAll DEF Reasons
  <2>2. CASE Return
    BY <1>1, <1>4, <2>2, Returns
  <2>3. CASE Become(ContinueOrPark(t, FALSE, FALSE))
    BY <1>1, <1>2, <1>4, <1>5, <2>3, GoesOnToContinue
  <2> QED
    BY <1>3, <2>1, <2>2, <2>3
<1>7. Bytes'
  <2>1. CASE RestoreSourceByte(t)
    BY <1>1, <1>2, <2>1, RestoreIs
  <2>2. CASE armed' = armed /\ rearms' = rearms
    BY <1>1, <2>2 DEF IInv, Bytes
  <2> QED
    BY <1>3, <2>1, <2>2
<1>8. Current'
  BY <1>1, <1>4, CurrentStays
<1> QED
  BY <1>1, <1>4, <1>6, <1>7, <1>8 DEF IInv, Flags, Marks, historyVars

LEMMA HandleSigtrapStep ==
  ASSUME IInv, HandleSigtrap
  PROVE  IInv'
<1> DEFINE t == Top.tid
<1>1. /\ Top.at = "trap" /\ userVars' = userVars
      /\ UNCHANGED <<procStop, signalsLeft, recs, cur, allStopped, ret, hits>>
      /\ curSig' \in BOOLEAN
  BY DEF HandleSigtrap, At, IInv, Flags
<1>2. /\ t \in Tid /\ Met(t, k, th) /\ th \in Records /\ k \in Kernels
  BY TopIs DEF IInv, Threads, Records, Kernels
<1>3. /\ \/ k' = k /\ th' \in {th, ClearSingleStep(th, t)}
         \/ k' = [k EXCEPT ![t].past = FALSE] /\ th' = [th EXCEPT ![t].atBp = TRUE]
      /\ RestoreSourceByte(t)
      /\ \/ Become(StopAll(t, "step")) \/ Become(StopAll(t, "breakpoint"))
         \/ Become(StopAll(t, "exception")) \/ Become(ContinueOrPark(t, FALSE, FALSE))
      /\ owed' \in {owed, [owed EXCEPT ![t] = @ + 1]}
  BY DEF HandleSigtrap
<1> HIDE DEF t
<1>4. Threads' /\ MetStays
  <2>1. CASE k' = k /\ th' = th
    BY <1>1, <2>1, ThreadsSame
  <2>2. CASE k' = k /\ th' = ClearSingleStep(th, t)
    BY <1>1, <1>2, <2>2, ClearIs, ThreadsAlike
  <2>3. CASE k' = [k EXCEPT ![t].past = FALSE] /\ th' = [th EXCEPT ![t].atBp = TRUE]
    <3>1. th' \in Records /\ Alike(th', th)
      BY <1>2, <2>3, FieldsAre
    <3>2. AlikeKernel([k EXCEPT ![t].past = FALSE], k, t)
      BY <1>2, PastIs
    <3> QED
      BY <1>1, <1>2, <2>3, <3>1, <3>2, AlikeStep
  <2> QED
    BY <1>3, <2>1, <2>2, <2>3
<1>5. Met(t, k', th')
  BY <1>2, <1>4 DEF MetStays
<1>6. Frames' /\ Handled'
  <2>1. CASE \E why \in Reasons : Become(StopAll(t, why))
    BY <1>1, <1>2, <1>4, <1>5, <2>1, StopsAll
  <2>2. CASE Become(ContinueOrPark(t, FALSE, FALSE))
    BY <1>1, <1>2, <1>4, <1>5, <2>2, GoesOnToContinue
  <2>3. {"step", "breakpoint", "exception"} \subseteq Reasons
    BY DEF Reasons
  <2> QED
    BY <1>3, <2>1, <2>2, <2>3
<1>7. Bytes'
  BY <1>1, <1>2, <1>3, RestoreIs
<1>8. Current'
  BY <1>1, <1>4, CurrentStays DEF userVars
<1>9. owed' \in [Tid -> Int]
  BY <1>2, <1>3 DEF IInv, Marks
<1> QED
  BY <1>1, <1>4, <1>6, <1>7, <1>8, <1>9 DEF IInv, Flags, Marks, userVars

\* A step that concerns one thread, and the child it may have.
OrBorn(t) ==
  \A u \in Tid \ {t} :
    \/ /\ th'[u].known = th[u].known /\ th'[u].running = th[u].running
       /\ th'[u].pss = th[u].pss
    \/ ~th[u].known /\ th'[u].known

LEMMA OneThread ==
  ASSUME IInv, NEW t \in Tid, k' \in Kernels, Others(k', k, t), k'[t].sigq = k[t].sigq,
         th' \in Records, OrBorn(t), signalsLeft' = signalsLeft, ThreadStep(t)
  PROVE  Threads' /\ MetStays
<1>1. /\ signalsLeft' \in 0 .. MaxSignals
      /\ \A u \in Tid : k'[u].sigq + signalsLeft' <= MaxSignals
  BY SignalsStay
<1>2. ASSUME NEW u \in Tid \ {t}
      PROVE  ThreadStep(u)
  <2>1. k'[u] = k[u] /\ u \in Tid
    BY <1>2 DEF Others
  <2>2. CASE ~th[u].known /\ th'[u].known
    BY <2>1, <2>2 DEF ThreadStep, Met, Living, StopComing, IInv, Threads, StatusOf, Owed
  <2>3. CASE /\ th'[u].known = th[u].known /\ th'[u].running = th[u].running
             /\ th'[u].pss = th[u].pss
    BY <2>1, <2>3 DEF ThreadStep, Met, Living, StopComing, IInv, Threads, StatusOf, Owed
  <2> QED
    BY <1>2, <2>2, <2>3 DEF OrBorn
<1>3. \A u \in Tid : ThreadStep(u)
  BY <1>2
<1> QED
  BY <1>1, <1>3, ThreadsBy

LEMMA ReportSignalStep ==
  ASSUME IInv, ReportSignal
  PROVE  IInv'
<1> DEFINE t == Top.tid
<1>1. /\ Top.at = "sig"
      /\ UNCHANGED <<recs, cur, curSig, allStopped, ret, kernelVars, userVars, historyVars>>
      /\ th' = ClearSingleStep(th, t) /\ RestoreSourceByte(t)
      /\ Become(StopAll(t, "exception"))
  BY DEF ReportSignal, At
<1>2. /\ t \in Tid /\ Met(t, k, th) /\ th \in Records
  BY TopIs DEF IInv, Threads, Records
<1> HIDE DEF t
<1>3. Threads' /\ MetStays
  BY <1>1, <1>2, ClearIs, ThreadsAlike DEF kernelVars
<1>4. Frames' /\ Handled'
  <2>1. "exception" \in Reasons /\ Met(t, k', th')
    BY <1>2, <1>3 DEF Reasons, MetStays
  <2> QED
    BY <1>1, <1>2, <1>3, <2>1, StopsAll
<1>5. Bytes'
  BY <1>1, <1>2, RestoreIs
<1>6. Current'
  BY <1>1, <1>3, CurrentStays DEF userVars
<1> QED
  BY <1>1, <1>3, <1>4, <1>5, <1>6 DEF IInv, Flags, Marks, kernelVars, userVars, historyVars

LEMMA HandleCloneStep ==
  ASSUME IInv, HandleClone
  PROVE  IInv'
<1> DEFINE t == Top.tid
           ths == ClearSingleStep(th, t)
<1>1. /\ Top.at = "clone"
      /\ UNCHANGED <<recs, cur, curSig, allStopped, ret, kernelVars, userVars, historyVars>>
      /\ th' = RegisterClone(ths, t) /\ RestoreSourceByte(t)
      /\ Become(StopAll(t, "step")) \/ Become(ContinueOrPark(t, FALSE, FALSE))
  BY DEF HandleClone, At
<1>2. /\ t \in Tid /\ Met(t, k, th) /\ th \in Records /\ k \in Kernels
  BY TopIs DEF IInv, Threads, Records, Kernels
<1> HIDE DEF t
<1>3. ths \in Records /\ Alike(ths, th)
  BY <1>2, ClearIs
<1> HIDE DEF ths
<1>4. /\ th' \in Records
      /\ \A u \in Tid : th'[u] = ths[u] \/ (~th[u].known /\ th'[u].known)
  BY <1>1, <1>2, <1>3, RegisterIs
<1>5. \A u \in Tid : \/ /\ th'[u].known = th[u].known /\ th'[u].running = th[u].running
                        /\ th'[u].pss = th[u].pss
                     \/ ~th[u].known /\ th'[u].known
  BY <1>3, <1>4 DEF Alike
<1>6. ThreadStep(t)
  <2>1. k' = k
    BY <1>1 DEF kernelVars
  <2> QED
    <3>1. CASE /\ th'[t].known = th[t].known /\ th'[t].running = th[t].running
               /\ th'[t].pss = th[t].pss
      BY <1>2, <2>1, <3>1
         DEF ThreadStep, Met, Living, StopComing, IInv, Threads, StatusOf, Owed
    <3>2. CASE ~th[t].known /\ th'[t].known
      BY <1>2, <2>1, <3>2
         DEF ThreadStep, Met, Living, StopComing, IInv, Threads, StatusOf, Owed
    <3> QED
      BY <1>2, <1>5, <3>1, <3>2
<1>7. Threads' /\ MetStays
  <2>1. k' \in Kernels /\ Others(k', k, t) /\ k'[t].sigq = k[t].sigq
          /\ signalsLeft' = signalsLeft
    BY <1>1, <1>2 DEF kernelVars, Others
  <2> QED
    BY <1>2, <1>4, <1>5, <1>6, <2>1, OneThread DEF OrBorn
<1>8. Met(t, k', th')
  BY <1>2, <1>7 DEF MetStays
<1>9. Frames' /\ Handled'
  <2>1. CASE Become(StopAll(t, "step"))
    BY <1>1, <1>2, <1>7, <1>8, <2>1, StopsAll DEF Reasons
  <2>2. CASE Become(ContinueOrPark(t, FALSE, FALSE))
    BY <1>1, <1>2, <1>7, <1>8, <2>2, GoesOnToContinue
  <2> QED
    BY <1>1, <2>1, <2>2
<1>10. Bytes'
  BY <1>1, <1>2, RestoreIs
<1>11. Current'
  BY <1>1, <1>7, CurrentStays DEF userVars
<1> QED
  BY <1>1, <1>7, <1>9, <1>10, <1>11
     DEF IInv, Flags, Marks, kernelVars, userVars, historyVars

LEMMA HandleExitStep ==
  ASSUME IInv, HandleExit
  PROVE  IInv'
<1> DEFINE t == Top.tid
<1>1. /\ Top.at = "exit"
      /\ UNCHANGED <<procStop, signalsLeft, recs, cur, curSig, allStopped, ret>>
      /\ UNCHANGED <<userVars, historyVars>>
      /\ th' = ClearSingleStep(th, t) /\ RestoreSourceByte(t)
      /\ k' = Restart(t, "run") /\ Return
  BY DEF HandleExit, At
<1>2. /\ t \in Tid /\ th \in Records /\ InPtraceStop(t)
  BY <1>1, TopIs DEF IInv, Threads, Records, Handled, StopPoints
<1> HIDE DEF t
<1>3. Threads' /\ MetStays
  <2>1. th' \in Records /\ Alike(th', th)
    BY <1>1, <1>2, ClearIs
  <2> QED
    BY <1>1, <1>2, <2>1, RestartStep DEF Alike
<1>4. Frames' /\ Handled'
  BY <1>1, <1>3, Returns
<1>5. Bytes'
  BY <1>1, <1>2, RestoreIs
<1>6. Current'
  BY <1>1, <1>3, CurrentStays DEF userVars
<1> QED
  BY <1>1, <1>3, <1>4, <1>5, <1>6 DEF IInv, Flags, Marks, userVars, historyVars

-----------------------------------------------------------------------------
(* The sweep                                                               *)

\* The thread the sweep waits for.
LEMMA WhoIs ==
  ASSUME IInv, Top.at = "sweepWait"
  PROVE  /\ Top.who \in Tid /\ Met(Top.who, k, th)
         /\ Living(Top.who) => StopComing(Top.who)
<1>1. Top.who \in Tid /\ (Living(Top.who) => StopComing(Top.who))
  BY DEF IInv, Handled
<1>2. Top.who # NoTid
  BY <1>1, LeaderAssumption
<1> QED
  BY <1>1, <1>2, TopIs DEF MetBy

LEMMA SweepGoesOn ==
  ASSUME IInv, MetStays, Top.at = "sweepWait", Become([Top EXCEPT !.at = "sweep"])
  PROVE  Frames' /\ Handled'
<1> DEFINE f == Moved(Top, "sweep")
<1>1. /\ f \in Activations /\ f.at = "sweep" /\ SameThreads(f, Top)
  BY TopIs, MovedIs DEF Points
<1>2. Become(f)
  BY DEF Become, Moved
<1> HIDE DEF f
<1>3. MetBy(f, k', th') /\ Above(f) /\ Free(f)
  BY <1>1, MetByAlike DEF Above, Free, StopPoints
<1> QED
  BY <1>2, <1>3, GoesOn

LEMMA SweepAskStep ==
  ASSUME IInv, NEW t \in Tid, SweepAsk(t)
  PROVE  IInv'
<1> DEFINE f == [Top EXCEPT !.at = "sweepWait", !.who = t]
<1>1. /\ Top.at = "sweep" /\ th[t].running
      /\ UNCHANGED <<th, cur, curSig, rearms, allStopped, ret>>
      /\ UNCHANGED <<procStop, signalsLeft, bpVars, userVars, historyVars>>
      /\ \/ th[t].pss /\ k' = k
         \/ k' = WithSigstop(k, t, TRUE)
      /\ Become(f)
  BY DEF SweepAsk, At, WithSigstop
<1>2. th \in Records /\ k \in Kernels
  BY DEF IInv, Threads, Records, Kernels
<1>3. Threads' /\ MetStays /\ TopStays
  BY <1>1, <1>2, SigstopStep
<1>4. Met(t, k', th')
  BY <1>1, <1>3 DEF IInv, Threads, MetStays
<1>5. Living(t)' => StopComing(t)'
  <2>1. CASE k' = k /\ th[t].pss
    BY <1>1, <2>1 DEF IInv, Threads, Owed, Living, StopComing
  <2>2. CASE k' = WithSigstop(k, t, TRUE)
    <3>1. k'[t].stopq = TRUE
      BY <1>2, <2>2, SigstopIs
    <3> QED
      BY <3>1 DEF StopComing
  <2> QED
    BY <1>1, <2>1, <2>2
<1>6. /\ f \in Activations /\ f.at = "sweepWait" /\ f.who = t /\ f.tid = Top.tid
      /\ f.prev = Top.prev /\ f.todo = Top.todo /\ f.rest = Top.rest
      /\ f.parked = Top.parked
  BY TopIs DEF Activations, Points
<1> HIDE DEF f
<1>7. MetBy(f, k', th')
  <2>1. MetBy(Top, k', th')
    BY <1>3, TopIs, MetByStays
  <2> QED
    BY <1>4, <1>6, <2>1 DEF MetBy
<1>8. Frames' /\ Head(stack') = f
  BY <1>1, <1>3, <1>6, <1>7, BecomeStep DEF Above, Become
<1>9. Handled'
  BY <1>5, <1>6, <1>8 DEF Handled, Top, StopPoints, Living, StopComing
<1>10. Current'
  BY <1>1, <1>3, CurrentStays DEF userVars
<1> QED
  BY <1>1, <1>3, <1>8, <1>9, <1>10
     DEF IInv, Bytes, Flags, Marks, bpVars, userVars, historyVars

\* What becomes of a trap that is claimed.
LEMMA RewoundIs ==
  ASSUME k \in Kernels, NEW t \in Tid
  PROVE  /\ Rewound(t) \in Kernels /\ Others(Rewound(t), k, t)
         /\ Rewound(t)[t].status = "none" /\ Rewound(t)[t].run = k[t].run
         /\ Rewound(t)[t].stopq = k[t].stopq /\ Rewound(t)[t].sigq = k[t].sigq
         /\ Rewound(t)[t].dying = k[t].dying
<1> DEFINE past == IF Claimed(t) THEN FALSE ELSE k[t].past
           x == [k[t] EXCEPT !.status = "none", !.past = past]
<1>1. k[t] \in KernelThread
  BY DEF Kernels
<1>2. past \in BOOLEAN
  BY <1>1 DEF KernelThread
<1>3. /\ x \in KernelThread /\ x.status = "none" /\ x.run = k[t].run
      /\ x.stopq = k[t].stopq /\ x.sigq = k[t].sigq /\ x.dying = k[t].dying
  <2> HIDE DEF past
  <2> QED
    BY <1>1, <1>2 DEF KernelThread
<1>4. Rewound(t) = [k EXCEPT ![t] = x]
  BY <1>1 DEF Rewound, Kernels, KernelThread
<1> HIDE DEF x
<1>5. /\ [k EXCEPT ![t] = x] \in Kernels /\ Others([k EXCEPT ![t] = x], k, t)
      /\ [k EXCEPT ![t] = x][t] = x
  BY <1>3, WithRecord
<1> QED
  BY <1>3, <1>4, <1>5

LEMMA SweepTakeStep ==
  ASSUME IInv, SweepTake
  PROVE  IInv'
<1> DEFINE t == Top.who
<1>1. /\ Top.at = "sweepWait" /\ Become([Top EXCEPT !.at = "sweep"])
      /\ UNCHANGED <<cur, curSig, rearms, allStopped, ret>>
      /\ UNCHANGED <<procStop, signalsLeft, bpVars, userVars, hits>>
      /\ owed' \in {owed, [owed EXCEPT ![t] = @ + 1]}
      /\ \/ /\ k[t].status = "stop" /\ k' = [k EXCEPT ![t].status = "none"]
            /\ th' = Stopped(th, t, FALSE)
         \/ /\ k[t].status \in {"int3", "step", "sig"} /\ k' = Rewound(t)
            /\ th' = Keep(Stopped(Claim(t), t, TRUE), t, Signalled(t), "unreported")
  BY DEF SweepTake, At, OwnReason, Taken
<1>2. /\ t \in Tid /\ Met(t, k, th) /\ (Living(t) => StopComing(t))
      /\ th \in Records /\ k \in Kernels
  BY <1>1, WhoIs DEF IInv, Threads, Records, Kernels
<1> HIDE DEF t
<1>3. k[t].run = "stopped" /\ th[t].known
  BY <1>1, <1>2 DEF IInv, Threads, StatusOf, Met
<1>4. /\ k' \in Kernels /\ Others(k', k, t) /\ k'[t].status = "none"
      /\ k'[t].run = "stopped" /\ k'[t].stopq = k[t].stopq
      /\ k'[t].sigq = k[t].sigq /\ k'[t].dying = k[t].dying
  <2>1. CASE k' = [k EXCEPT ![t].status = "none"]
    BY <1>2, <1>3, <2>1, TakenIs
  <2>2. CASE k' = Rewound(t)
    BY <1>2, <1>3, <2>2, RewoundIs
  <2> QED
    BY <1>1, <2>1, <2>2
<1>5. /\ th' \in Records /\ OrBorn(t)
      /\ th'[t].known = th[t].known /\ th'[t].running = FALSE
      /\ th'[t].pss => k[t].status # "stop"
  <2>1. CASE k[t].status = "stop" /\ th' = Stopped(th, t, FALSE)
    <3> DEFINE s == Stopped(th, t, FALSE)
    <3>1. /\ s \in Records /\ Others(s, th, t) /\ s[t].known = th[t].known
          /\ s[t].running = FALSE /\ s[t].pss = FALSE
      BY <1>2, StoppedIs
    <3>2. th' = s
      BY <2>1
    <3> HIDE DEF s
    <3>3. OrBorn(t)
      BY <3>1, <3>2 DEF OrBorn, Others
    <3> QED
      BY <3>1, <3>2, <3>3
  <2>2. CASE /\ k[t].status \in {"int3", "step", "sig"}
             /\ th' = Keep(Stopped(Claim(t), t, TRUE), t, Signalled(t), "unreported")
    <3> DEFINE c == Claim(t)
               s == Stopped(c, t, TRUE)
    <3>1. c \in Records /\ Alike(c, th)
      BY <1>2, ClaimIs
    <3> HIDE DEF c
    <3>2. s \in Records /\ Others(s, c, t) /\ s[t].known = c[t].known /\ s[t].running = FALSE
      BY <1>2, <3>1, StoppedIs
    <3> HIDE DEF s
    <3>3. th' \in Records /\ Alike(th', s)
      BY <2>2, <3>2, KeepIs DEF s, c
    <3>4. OrBorn(t)
      BY <3>1, <3>2, <3>3 DEF Alike, Others, OrBorn
    <3>5. th'[t].known = th[t].known /\ th'[t].running = FALSE
      BY <1>2, <3>1, <3>2, <3>3 DEF Alike
    <3> QED
      BY <2>2, <3>3, <3>4, <3>5
  <2> QED
    BY <1>1, <2>1, <2>2
<1>6. ThreadStep(t)
  <2>1. ~k'[t].dying /\ th'[t].pss => k'[t].stopq
    BY <1>2, <1>3, <1>4, <1>5 DEF Living, StopComing
  <2>2. th'[t].known
    BY <1>3, <1>5
  <2> QED
    BY <1>4, <1>5, <2>1, <2>2, <1>3 DEF ThreadStep, Met
<1>7. Threads' /\ MetStays
  BY <1>1, <1>2, <1>4, <1>5, <1>6, OneThread
<1>8. Frames' /\ Handled'
  BY <1>1, <1>7, SweepGoesOn
<1>9. Current'
  BY <1>1, <1>7, CurrentStays DEF userVars
<1>10. owed' \in [Tid -> Int]
  BY <1>1, <1>2 DEF IInv, Marks
<1> QED
  BY <1>1, <1>7, <1>8, <1>9, <1>10
     DEF IInv, Bytes, Flags, Marks, bpVars, userVars

\* The thread the sweep waits for goes on.
LEMMA TakenOnIs ==
  ASSUME k \in Kernels, NEW t \in Tid,
         k' = [Restart(t, "run") EXCEPT ![t].status = "none"]
  PROVE  /\ k' \in Kernels /\ Others(k', k, t) /\ k'[t].status = "none"
         /\ k'[t].run = "run" /\ k'[t].stopq = k[t].stopq
         /\ k'[t].sigq = k[t].sigq /\ k'[t].dying = k[t].dying
<1> DEFINE r == Restart(t, "run")
           x == [r[t] EXCEPT !.status = "none"]
<1>1. /\ r \in Kernels /\ Others(r, k, t) /\ r[t].run = "run" /\ r[t].stopq = k[t].stopq
      /\ r[t].sigq = k[t].sigq /\ r[t].dying = k[t].dying
  BY RestartIs
<1>2. k' = [r EXCEPT ![t].status = "none"]
  OBVIOUS
<1> HIDE DEF r
<1>3. r[t] \in KernelThread
  BY <1>1 DEF Kernels
<1>4. /\ x \in KernelThread /\ x.status = "none" /\ x.run = "run"
      /\ x.stopq = r[t].stopq /\ x.sigq = r[t].sigq /\ x.dying = r[t].dying
  BY <1>1, <1>3 DEF KernelThread
<1>5. k' = [r EXCEPT ![t] = x]
  BY <1>1, <1>2 DEF Kernels
<1> HIDE DEF x
<1>6. /\ [r EXCEPT ![t] = x] \in Kernels /\ Others([r EXCEPT ![t] = x], r, t)
      /\ [r EXCEPT ![t] = x][t] = x
  BY <1>1, <1>4, WithRecord
<1>7. k' \in Kernels /\ Others(k', r, t) /\ k'[t] = x
  BY <1>5, <1>6
<1>8. Others(k', k, t)
  BY <1>1, <1>7, OthersTrans
<1> QED
  BY <1>1, <1>4, <1>7, <1>8

LEMMA SweepCloneStep ==
  ASSUME IInv, SweepClone
  PROVE  IInv'
<1> DEFINE t == Top.who
           r == RegisterClone(th, t)
<1>1. /\ Top.at = "sweepWait" /\ Become([Top EXCEPT !.at = "sweep"])
      /\ UNCHANGED <<cur, curSig, rearms, allStopped, ret>>
      /\ UNCHANGED <<procStop, signalsLeft, bpVars, userVars, historyVars>>
      /\ k[t].status = "clone"
      /\ k' = [Restart(t, "run") EXCEPT ![t].status = "none"]
      /\ th' = [r EXCEPT ![t].pss = TRUE]
  BY DEF SweepClone, At
<1>2. /\ t \in Tid /\ Met(t, k, th) /\ (Living(t) => StopComing(t))
      /\ th \in Records /\ k \in Kernels
  BY <1>1, WhoIs DEF IInv, Threads, Records, Kernels
<1> HIDE DEF t
<1>3. k[t].run = "stopped" /\ th[t].known
  BY <1>1, <1>2 DEF IInv, Threads, StatusOf, Met
<1>4. /\ k' \in Kernels /\ Others(k', k, t) /\ k'[t].status = "none"
      /\ k'[t].run = "run" /\ k'[t].stopq = k[t].stopq
      /\ k'[t].sigq = k[t].sigq /\ k'[t].dying = k[t].dying
  BY <1>1, <1>2, TakenOnIs
<1>5. /\ r \in Records
      /\ \A u \in Tid : r[u] = th[u] \/ (~th[u].known /\ r[u].known)
  BY <1>2, RegisterIs
<1> HIDE DEF r
<1>6. /\ th' \in Records /\ Others(th', r, t)
      /\ th'[t].known = r[t].known /\ th'[t].running = r[t].running
  <2>1. th' = WithOwed(r, t)
    BY <1>1 DEF WithOwed
  <2>2. Others(th', r, t)
    BY <1>1, <1>2, <1>5 DEF Records, Others
  <2> QED
    BY <1>2, <1>5, <2>1, <2>2, OwedIs
<1>7. th'[t].known
  BY <1>2, <1>3, <1>5, <1>6
<1>8. OrBorn(t)
  BY <1>5, <1>6 DEF OrBorn, Others
<1>9. ~k'[t].dying => k'[t].stopq
  BY <1>1, <1>2, <1>3, <1>4 DEF Living, StopComing
<1>10. ThreadStep(t)
  BY <1>3, <1>4, <1>7, <1>9 DEF ThreadStep, Met
<1>11. Threads' /\ MetStays
  BY <1>1, <1>2, <1>4, <1>6, <1>8, <1>10, OneThread
<1>12. Frames' /\ Handled'
  BY <1>1, <1>11, SweepGoesOn
<1>13. Current'
  BY <1>1, <1>11, CurrentStays DEF userVars
<1> QED
  BY <1>1, <1>11, <1>12, <1>13
     DEF IInv, Bytes, Flags, Marks, bpVars, userVars, historyVars

\* It is not said to run any more.
NotRunning(ths, t) == [ths EXCEPT ![t].running = FALSE]
LEMMA NotRunningIs ==
  ASSUME NEW ths \in Records, NEW t \in Tid
  PROVE  /\ NotRunning(ths, t) \in Records /\ Others(NotRunning(ths, t), ths, t)
         /\ NotRunning(ths, t)[t].known = ths[t].known
         /\ NotRunning(ths, t)[t].running = FALSE
         /\ NotRunning(ths, t)[t].pss = ths[t].pss
BY DEF NotRunning, Records, ThreadRecords, Others

LEMMA SweepExitStep ==
  ASSUME IInv, SweepExit
  PROVE  IInv'
<1> DEFINE t == Top.who
<1>1. /\ Top.at = "sweepWait" /\ Become([Top EXCEPT !.at = "sweep"])
      /\ UNCHANGED <<cur, curSig, rearms, allStopped, ret>>
      /\ UNCHANGED <<procStop, signalsLeft, bpVars, userVars, historyVars>>
      /\ k[t].status = "exit"
      /\ k' = [Restart(t, "run") EXCEPT ![t].status = "none"]
      /\ th' = NotRunning(th, t)
  BY DEF SweepExit, At, NotRunning
<1>2. /\ t \in Tid /\ Met(t, k, th) /\ (Living(t) => StopComing(t))
      /\ th \in Records /\ k \in Kernels
  BY <1>1, WhoIs DEF IInv, Threads, Records, Kernels
<1> HIDE DEF t
<1>3. k[t].run = "stopped" /\ th[t].known
  BY <1>1, <1>2 DEF IInv, Threads, StatusOf, Met
<1>4. /\ k' \in Kernels /\ Others(k', k, t) /\ k'[t].status = "none"
      /\ k'[t].run = "run" /\ k'[t].stopq = k[t].stopq
      /\ k'[t].sigq = k[t].sigq /\ k'[t].dying = k[t].dying
  BY <1>1, <1>2, TakenOnIs
<1>5. /\ th' \in Records /\ Others(th', th, t) /\ th'[t].known = th[t].known
  BY <1>1, <1>2, NotRunningIs
<1>6. OrBorn(t)
  BY <1>5 DEF OrBorn, Others
<1>7. ~k'[t].dying => k'[t].stopq
  BY <1>1, <1>2, <1>3, <1>4 DEF Living, StopComing
<1>8. th'[t].known
  BY <1>3, <1>5
<1>9. ThreadStep(t)
  BY <1>3, <1>4, <1>7, <1>8 DEF ThreadStep, Met
<1>10. Threads' /\ MetStays
  BY <1>1, <1>2, <1>4, <1>5, <1>6, <1>9, OneThread
<1>11. Frames' /\ Handled'
  BY <1>1, <1>10, SweepGoesOn
<1>12. Current'
  BY <1>1, <1>10, CurrentStays DEF userVars
<1> QED
  BY <1>1, <1>10, <1>11, <1>12
     DEF IInv, Bytes, Flags, Marks, bpVars, userVars, historyVars

LEMMA SweepReapStep ==
  ASSUME IInv, SweepReap
  PROVE  IInv'
<1> DEFINE t == Top.who
<1>1. /\ Top.at = "sweepWait" /\ Become([Top EXCEPT !.at = "sweep"])
      /\ UNCHANGED <<procStop, signalsLeft, recs, curSig, allStopped, ret>>
      /\ UNCHANGED <<paused, stepReq, pauseReq, kick>>
      /\ k[t].status = "exited" /\ ExitThreadEvent(t)
  BY DEF SweepReap, At
<1>2. t \in Tid
  BY <1>1, WhoIs
<1> HIDE DEF t
<1>3. Threads' /\ MetStays /\ Bytes' /\ Current'
        /\ pendSuspend' \subseteq Tid /\ hits' \subseteq Tid /\ owed' \in [Tid -> Int]
  BY <1>1, <1>2, ExitThreadEventIs
<1>4. Frames' /\ Handled'
  BY <1>1, <1>3, SweepGoesOn
<1> QED
  BY <1>1, <1>3, <1>4 DEF IInv, Flags, Marks

LEMMA SweepGoneStep ==
  ASSUME IInv, SweepGone
  PROVE  IInv'
<1> DEFINE t == Top.who
<1>1. /\ Top.at = "sweepWait" /\ Become([Top EXCEPT !.at = "sweep"])
      /\ UNCHANGED <<cur, curSig, rearms, allStopped, ret>>
      /\ UNCHANGED <<kernelVars, bpVars, userVars, historyVars>>
      /\ Gone(t) /\ th' = NotRunning(th, t)
  BY DEF SweepGone, At, NotRunning
<1>2. /\ t \in Tid /\ th \in Records /\ k \in Kernels
  BY <1>1, WhoIs DEF IInv, Threads, Records, Kernels
<1> HIDE DEF t
<1>3. k' = k /\ signalsLeft' = signalsLeft /\ k[t].run = "dead" /\ k[t].status = "none"
  BY <1>1 DEF kernelVars, Gone
<1>4. th' \in Records /\ OrBorn(t)
  BY <1>1, <1>2, NotRunningIs DEF OrBorn, Others
<1>5. ThreadStep(t)
  BY <1>3 DEF ThreadStep, Met
<1>6. Threads' /\ MetStays
  BY <1>2, <1>3, <1>4, <1>5, OneThread DEF Others
<1>7. Frames' /\ Handled'
  BY <1>1, <1>6, SweepGoesOn
<1>8. Current'
  BY <1>1, <1>6, CurrentStays DEF userVars
<1> QED
  BY <1>1, <1>6, <1>7, <1>8
     DEF IInv, Bytes, Flags, Marks, kernelVars, bpVars, userVars, historyVars

\* A thread that does not stop in time still has its SIGSTOP coming.
LEMMA SweepTimeoutStep ==
  ASSUME IInv, SweepTimeout
  PROVE  IInv'
<1> DEFINE t == Top.who
           s == Stopped(th, t, TRUE)
<1>1. /\ Top.at = "sweepWait" /\ Become([Top EXCEPT !.at = "sweep"])
      /\ UNCHANGED <<cur, curSig, rearms, allStopped, ret>>
      /\ UNCHANGED <<kernelVars, bpVars, userVars, historyVars>>
      /\ k[t].status = "none" /\ th' = s
  BY DEF SweepTimeout, At
<1>2. /\ t \in Tid /\ Met(t, k, th) /\ (Living(t) => StopComing(t))
      /\ th \in Records /\ k \in Kernels
  BY <1>1, WhoIs DEF IInv, Threads, Records, Kernels
<1> HIDE DEF t
<1>3. k' = k /\ signalsLeft' = signalsLeft
  BY <1>1 DEF kernelVars
<1>4. /\ s \in Records /\ Others(s, th, t) /\ s[t].known = th[t].known
      /\ s[t].running = FALSE
  BY <1>2, StoppedIs
<1> HIDE DEF s
<1>5. th' \in Records /\ OrBorn(t) /\ th'[t].known = th[t].known /\ th'[t].running = FALSE
  BY <1>1, <1>4 DEF OrBorn, Others
<1>6. ThreadStep(t)
  BY <1>1, <1>2, <1>3, <1>5 DEF ThreadStep, Met, Living, StopComing
<1>7. Threads' /\ MetStays
  BY <1>2, <1>3, <1>5, <1>6, OneThread DEF Others
<1>8. Frames' /\ Handled'
  BY <1>1, <1>7, SweepGoesOn
<1>9. Current'
  BY <1>1, <1>7, CurrentStays DEF userVars
<1> QED
  BY <1>1, <1>7, <1>8, <1>9
     DEF IInv, Bytes, Flags, Marks, kernelVars, bpVars, userVars, historyVars

LEMMA SweepDoneStep ==
  ASSUME IInv, SweepDone
  PROVE  IInv'
<1> DEFINE t == Top.tid
<1>1. /\ Top.at = "sweep"
      /\ UNCHANGED <<th, cur, curSig, rearms, ret>>
      /\ UNCHANGED <<stepReq, pauseReq, pendSuspend, pendResume, kick>>
      /\ UNCHANGED <<kernelVars, bpVars, owed>>
      /\ hits' \subseteq hits
      /\ \/ BeginPause(t)
         \/ Become(Frame("wait", t)) /\ UNCHANGED <<paused, allStopped>>
  BY DEF SweepDone, At
<1>2. t \in Tid /\ Met(t, k, th)
  BY TopIs
<1> HIDE DEF t
<1>3. Threads' /\ MetStays
  BY <1>1, ThreadsSame DEF kernelVars
<1>4. Met(t, k', th')
  BY <1>2, <1>3 DEF MetStays
<1>5. Frames' /\ Handled' /\ paused' \in BOOLEAN /\ allStopped' \in BOOLEAN
  <2>1. CASE BeginPause(t)
    BY <1>1, <1>2, <1>3, <1>4, <2>1, Pauses
  <2>2. CASE Become(Frame("wait", t)) /\ UNCHANGED <<paused, allStopped>>
    <3>1. "wait" \in Plain
      BY DEF Plain, Points, StopPoints
    <3>2. Frames' /\ Handled'
      BY <1>1, <1>2, <1>3, <1>4, <2>2, <3>1, GoesOnAt
    <3> QED
      BY <2>2, <3>2 DEF IInv, Flags
  <2> QED
    BY <1>1, <2>1, <2>2
<1>6. Current'
  BY <1>1, <1>3, CurrentStays
<1> QED
  BY <1>1, <1>3, <1>5, <1>6 DEF IInv, Bytes, Flags, Marks, kernelVars, bpVars

-----------------------------------------------------------------------------
(* Resumes                                                                 *)

\* PTRACE_CONT of a thread.
LEMMA ContinueThreadStep ==
  ASSUME IInv, NEW t \in Tid, ContinueThread(t), signalsLeft' = signalsLeft
  PROVE  Threads' /\ MetStays /\ owed' \in [Tid -> Int]
<1> DEFINE ths == [th EXCEPT ![t].psig = "none"]
<1>1. th \in Records /\ owed \in [Tid -> Int]
  BY DEF IInv, Threads, Records, Marks
<1>2. /\ \/ k' = k /\ th' \in {th, ths}
         \/ /\ Continuable(t) /\ InPtraceStop(t)
            /\ k' = Restart(t, "run") /\ th' = Running(ths, t)
      /\ owed' \in {owed, [owed EXCEPT ![t] = @ - 1]}
  BY DEF ContinueThread, GiveBack
<1>3. ths \in Records /\ Alike(ths, th)
  BY <1>1, FieldsAre
<1> HIDE DEF ths
<1>4. Threads' /\ MetStays
  <2>1. CASE k' = k /\ th' = th
    BY <2>1, ThreadsSame
  <2>2. CASE k' = k /\ th' = ths
    BY <1>3, <2>2, ThreadsAlike
  <2>3. CASE /\ Continuable(t) /\ InPtraceStop(t)
             /\ k' = Restart(t, "run") /\ th' = Running(ths, t)
    <3>1. Met(t, k, th)
      BY <2>3 DEF Continuable, Met
    <3>2. /\ th' \in Records
          /\ \A u \in Tid : /\ th'[u].known = ths[u].known /\ th'[u].pss = ths[u].pss
                            /\ (th'[u].running => ths[u].running \/ u = t)
      BY <1>3, <2>3, RunningIs DEF Others
    <3>3. \A u \in Tid : /\ th'[u].known = th[u].known /\ th'[u].pss = th[u].pss
                         /\ (th'[u].running => th[u].running \/ Met(u, k, th))
      BY <1>3, <3>1, <3>2 DEF Alike
    <3> QED
      BY <2>3, <3>2, <3>3, RestartStep
  <2> QED
    BY <1>2, <2>1, <2>2, <2>3
<1>5. owed' \in [Tid -> Int]
  BY <1>1, <1>2
<1> QED
  BY <1>4, <1>5

\* The step over the byte is run as the thread it is for.
WithPrev(f, t) == [f EXCEPT !.prev = t]
LEMMA StepOffAsStep ==
  ASSUME IInv, NEW t \in Tid, Met(t, k, th), k' = k, signalsLeft' = signalsLeft,
         pendResume' = pendResume, Top.at # "loop",
         NEW next \in Activations, next.at \in Callers \ {"loop"}, MetBy(next, k, th),
         next.at = "steppedOff" => next.who \in Tid,
         StepOffAs(t, next)
  PROVE  /\ Threads' /\ MetStays /\ Frames' /\ Handled' /\ Current'
         /\ curSig' \in BOOLEAN
<1> DEFINE f == Frame("stepPast", t)
           g == WithPrev(next, cur)
<1>1. /\ cur' = t /\ curSig' = (th[t].psig # "none")
      /\ th' = [th EXCEPT ![t].psig = "none"]
      /\ stack' = <<f, g>> \o Tail(stack)
  BY DEF StepOffAs, Call, WithPrev
<1>2. th \in Records
  BY DEF IInv, Threads, Records
<1>3. th' \in Records /\ Alike(th', th)
  BY <1>1, <1>2, FieldsAre
<1>4. Threads' /\ MetStays
  BY <1>3, ThreadsAlike
<1>5. cur \in Tid \cup {NoTid} /\ (cur # NoTid => Met(cur, k, th))
  BY DEF IInv, Current
<1>6. /\ g \in Activations /\ g.at = next.at /\ g.tid = next.tid /\ g.who = next.who
      /\ g.prev = cur /\ g.todo = next.todo /\ g.rest = next.rest
      /\ g.parked = next.parked
  BY <1>5 DEF Activations, WithPrev
<1> HIDE DEF g
<1>7. MetBy(g, k, th) /\ Above(g)
  BY <1>5, <1>6 DEF MetBy, Above
<1>8. f \in Activations /\ f.at = "stepPast" /\ MetBy(f, k', th')
  <2>1. "stepPast" \in Points /\ Met(t, k', th')
    BY <1>4 DEF Points, MetStays
  <2> QED
    BY <2>1, FrameIs, MetByOwn
<1> HIDE DEF f
<1>9. Above(f) /\ Free(f)
  BY <1>8 DEF Above, Free, StopPoints
<1>10. MetBy(g, k', th')
  BY <1>4, <1>6, <1>7, MetByStays
<1>11. Frames' /\ Handled'
  BY <1>1, <1>4, <1>6, <1>7, <1>8, <1>9, <1>10, CallStep
<1>12. Current'
  BY <1>1, <1>4 DEF IInv, Current, MetStays
<1>13. curSig' \in BOOLEAN
  BY <1>1
<1> QED
  BY <1>4, <1>11, <1>12, <1>13

LEMMA SteppedOffIs ==
  ASSUME IInv, MetStays, SteppedOff, pendResume' = pendResume
  PROVE  Current' /\ curSig' \in BOOLEAN
<1>1. Top.prev \in Tid \cup {NoTid} /\ (Top.prev # NoTid => Met(Top.prev, k, th))
  BY TopIs DEF Activations, MetBy
<1>2. cur' = Top.prev /\ curSig' = FALSE
  BY DEF SteppedOff
<1> QED
  BY <1>1, <1>2 DEF IInv, Current, MetStays

WithTodo(f, T) == [f EXCEPT !.todo = T]
LEMMA TakePendingResumesStep ==
  ASSUME IInv, TakePendingResumes
  PROVE  IInv'
<1> DEFINE t == Top.tid
           d == Frame("drain", t)
           f == WithTodo(d, pendResume)
<1>1. /\ Top.at = "takeResumes" /\ pendResume' = {} /\ Become(f)
      /\ UNCHANGED <<th, cur, curSig, rearms, allStopped, ret>>
      /\ UNCHANGED <<paused, stepReq, pauseReq, pendSuspend, kick>>
      /\ UNCHANGED <<kernelVars, bpVars, historyVars>>
  BY DEF TakePendingResumes, At, WithTodo, Become
<1>2. t \in Tid /\ Met(t, k, th)
  BY TopIs
<1> HIDE DEF t
<1>3. Threads' /\ MetStays
  BY <1>1, ThreadsSame DEF kernelVars
<1>4. pendResume \subseteq Tid /\ \A u \in pendResume : Met(u, k, th)
  BY DEF IInv, Current
<1>5. d \in Activations /\ d.at = "drain" /\ MetBy(d, k, th)
  <2>1. "drain" \in Points
    BY DEF Points
  <2> QED
    BY <1>2, <2>1, FrameIs, MetByOwn
<1> HIDE DEF d
<1>6. /\ f \in Activations /\ f.at = "drain" /\ f.tid = d.tid /\ f.who = d.who
      /\ f.prev = d.prev /\ f.todo = pendResume /\ f.rest = d.rest /\ f.parked = d.parked
  BY <1>4, <1>5 DEF Activations, WithTodo
<1> HIDE DEF f
<1>7. MetBy(f, k, th)
  BY <1>4, <1>5, <1>6 DEF MetBy
<1>8. MetBy(f, k', th') /\ Above(f) /\ Free(f)
  BY <1>3, <1>6, <1>7, MetByStays DEF Above, Free, StopPoints
<1>9. Frames' /\ Handled'
  BY <1>1, <1>3, <1>8, GoesOn
<1>10. Current'
  BY <1>1, <1>3, CurrentStays
<1> QED
  BY <1>1, <1>3, <1>9, <1>10
     DEF IInv, Bytes, Flags, Marks, kernelVars, bpVars, historyVars

\* A thread of those that are left is resumed.
LEMMA CallsResume ==
  ASSUME IInv, MetStays, Top.at \in {"drain", "continueParked"}, NEW t \in Top.todo,
         Call(Frame("resume", t), [Top EXCEPT !.todo = @ \ {t}])
  PROVE  Frames' /\ Handled'
<1> DEFINE f == Frame("resume", t)
           g == Without(Top, t)
<1>1. t \in Tid /\ Met(t, k', th')
  BY TopIs DEF Activations, MetBy, MetStays
<1>2. f \in Activations /\ f.at = "resume" /\ MetBy(f, k', th')
  <2>1. "resume" \in Points
    BY DEF Points
  <2> QED
    BY <1>1, <2>1, FrameIs, MetByOwn
<1>3. g \in Activations /\ g.at = Top.at /\ SameThreads(g, Top)
  BY TopIs, WithoutIs
<1>4. stack' = <<f, g>> \o Tail(stack)
  BY DEF Call, Without
<1> HIDE DEF f, g
<1>5. MetBy(g, k', th')
  BY <1>3, MetByAlike
<1>6. Above(f) /\ Free(f) /\ Above(g) /\ g.at \in Callers
  BY <1>2, <1>3 DEF Above, Free, StopPoints, Callers
<1> QED
  BY <1>2, <1>4, <1>5, <1>6, CallStep

LEMMA DrainPendingResumesStep ==
  ASSUME IInv, DrainPendingResumes
  PROVE  IInv'
<1> DEFINE t == Top.tid
<1>1. /\ Top.at = "drain"
      /\ UNCHANGED <<th, cur, curSig, rearms, allStopped, ret>>
      /\ UNCHANGED <<kernelVars, bpVars, userVars, historyVars>>
      /\ \/ Become(ContinueOrPark(t, FALSE, FALSE))
         \/ \E u \in Top.todo : Call(Frame("resume", u), [Top EXCEPT !.todo = @ \ {u}])
  BY DEF DrainPendingResumes, At
<1>2. Threads' /\ MetStays
  BY <1>1, ThreadsSame DEF kernelVars
<1>3. t \in Tid /\ Met(t, k', th')
  BY <1>2, TopIs DEF MetStays
<1> HIDE DEF t
<1>4. Frames' /\ Handled'
  <2>1. CASE Become(ContinueOrPark(t, FALSE, FALSE))
    BY <1>1, <1>2, <1>3, <2>1, GoesOnToContinue
  <2>2. ASSUME NEW u \in Top.todo, Call(Frame("resume", u), [Top EXCEPT !.todo = @ \ {u}])
        PROVE  Frames' /\ Handled'
    BY <1>1, <1>2, <2>2, CallsResume
  <2> QED
    BY <1>1, <2>1, <2>2
<1>5. Current'
  BY <1>1, <1>2, CurrentStays DEF userVars
<1> QED
  BY <1>1, <1>2, <1>4, <1>5
     DEF IInv, Bytes, Flags, Marks, kernelVars, bpVars, userVars, historyVars

LEMMA ResumeStoppedThreadStep ==
  ASSUME IInv, ResumeStoppedThread
  PROVE  IInv'
<1> DEFINE t == Top.tid
<1>1. /\ Top.at = "resume"
      /\ UNCHANGED <<rearms, allStopped, ret>>
      /\ UNCHANGED <<kernelVars, bpVars, userVars, historyVars>>
      /\ \/ Return /\ UNCHANGED <<th, cur, curSig>>
         \/ StepOffAs(t, Frame("resumed", t))
         \/ Become(Frame("resumeNow", t)) /\ UNCHANGED <<th, cur, curSig>>
  BY DEF ResumeStoppedThread, At
<1>2. t \in Tid /\ Met(t, k, th)
  BY TopIs
<1>3. k' = k /\ signalsLeft' = signalsLeft /\ pendResume' = pendResume
  BY <1>1 DEF kernelVars, userVars
<1> HIDE DEF t
<1>4. /\ Threads' /\ MetStays /\ Frames' /\ Handled' /\ Current'
      /\ curSig' \in BOOLEAN
  <2>1. CASE StepOffAs(t, Frame("resumed", t))
    <3> DEFINE f == Frame("resumed", t)
    <3>1. f \in Activations /\ f.at = "resumed" /\ MetBy(f, k, th)
      <4>1. "resumed" \in Points
        BY DEF Points
      <4> QED
        BY <1>2, <4>1, FrameIs, MetByOwn
    <3>2. StepOffAs(t, f)
      BY <2>1
    <3> HIDE DEF f
    <3>3. f.at \in Callers \ {"loop"} /\ Top.at # "loop"
      BY <1>1, <3>1 DEF Callers
    <3> QED
      BY <1>2, <1>3, <3>1, <3>2, <3>3, StepOffAsStep
  <2>2. ASSUME UNCHANGED <<th, cur, curSig>>, Return \/ Become(Frame("resumeNow", t))
        PROVE  /\ Threads' /\ MetStays /\ Frames' /\ Handled' /\ Current'
               /\ curSig' \in BOOLEAN
    <3>1. Threads' /\ MetStays
      BY <1>3, <2>2, ThreadsSame
    <3>2. Met(t, k', th')
      BY <1>2, <3>1 DEF MetStays
    <3>3. "resumeNow" \in Plain
      BY DEF Plain, Points, StopPoints
    <3>4. Frames' /\ Handled'
      BY <1>1, <1>2, <2>2, <3>1, <3>2, <3>3, GoesOnAt, Returns
    <3>5. Current'
      BY <1>3, <2>2, <3>1, CurrentStays
    <3>6. curSig' \in BOOLEAN
      BY <2>2 DEF IInv, Flags
    <3> QED
      BY <3>1, <3>4, <3>5, <3>6
  <2> QED
    BY <1>1, <2>1, <2>2
<1> QED
  BY <1>1, <1>4
     DEF IInv, Bytes, Flags, Marks, kernelVars, bpVars, userVars, historyVars

LEMMA ResumeSteppedOffStep ==
  ASSUME IInv, ResumeSteppedOff
  PROVE  IInv'
<1> DEFINE t == Top.tid
<1>1. /\ Top.at = "resumed" /\ SteppedOff
      /\ UNCHANGED <<th, rearms, allStopped, ret>>
      /\ UNCHANGED <<kernelVars, bpVars, userVars, historyVars>>
      /\ Return \/ Become(Frame("resumeNow", t))
  BY DEF ResumeSteppedOff, At
<1>2. Threads' /\ MetStays
  BY <1>1, ThreadsSame DEF kernelVars
<1>3. t \in Tid /\ Met(t, k', th')
  BY <1>2, TopIs DEF MetStays
<1> HIDE DEF t
<1>4. Frames' /\ Handled'
  <2>1. "resumeNow" \in Plain
    BY DEF Plain, Points, StopPoints
  <2> QED
    BY <1>1, <1>2, <1>3, <2>1, GoesOnAt, Returns
<1>5. Current' /\ curSig' \in BOOLEAN
  BY <1>1, <1>2, SteppedOffIs DEF userVars
<1> QED
  BY <1>1, <1>2, <1>4, <1>5
     DEF IInv, Bytes, Flags, Marks, kernelVars, bpVars, userVars, historyVars

LEMMA ResumeNowStep ==
  ASSUME IInv, ResumeNow
  PROVE  IInv'
<1> DEFINE t == Top.tid
<1>1. /\ Top.at = "resumeNow" /\ ContinueThread(t) /\ Return
      /\ UNCHANGED <<procStop, signalsLeft, cur, curSig, rearms, allStopped, ret>>
      /\ UNCHANGED <<bpVars, userVars, hits>>
  BY DEF ResumeNow, At
<1>2. t \in Tid
  BY TopIs
<1> HIDE DEF t
<1>3. Threads' /\ MetStays /\ owed' \in [Tid -> Int]
  BY <1>1, <1>2, ContinueThreadStep
<1>4. Frames' /\ Handled'
  BY <1>1, <1>3, Returns
<1>5. Current'
  BY <1>1, <1>3, CurrentStays DEF userVars
<1> QED
  BY <1>1, <1>3, <1>4, <1>5
     DEF IInv, Bytes, Flags, Marks, bpVars, userVars

-----------------------------------------------------------------------------
(* The step over the breakpoint's byte                                     *)

LEMMA SwallowStep ==
  ASSUME IInv, Swallow
  PROVE  IInv'
<1> DEFINE t == Top.tid
<1>1. /\ Top.at = "swallow"
      /\ UNCHANGED <<th, cur, curSig, rearms, allStopped>>
      /\ UNCHANGED <<procStop, signalsLeft, bpVars, userVars, historyVars>>
      /\ \/ ret' = "drained" /\ Return /\ k' = k
         \/ /\ Become(Frame("swallowWait", t)) /\ ret' = ret
            /\ k' = k \/ (InPtraceStop(t) /\ k' = Restart(t, "run"))
  BY DEF Swallow, At
<1>2. t \in Tid /\ Met(t, k, th) /\ th \in Records
  BY TopIs DEF IInv, Threads, Records
<1> HIDE DEF t
<1>3. Threads' /\ MetStays
  <2>1. CASE k' = k
    BY <1>1, <2>1, ThreadsSame
  <2>2. CASE InPtraceStop(t) /\ k' = Restart(t, "run")
    BY <1>1, <1>2, <2>2, RestartStep
  <2> QED
    BY <1>1, <2>1, <2>2
<1>4. Frames' /\ Handled'
  <2>1. /\ "swallowWait" \in Plain
        /\ Met(t, k', th')
    BY <1>2, <1>3 DEF Plain, Points, StopPoints, MetStays
  <2> QED
    BY <1>1, <1>2, <1>3, <2>1, GoesOnAt, Returns
<1>5. ret' \in {"drained", "lost", "stepped", "parked", "consumed"}
  BY <1>1 DEF IInv, Marks
<1>6. Current'
  BY <1>1, <1>3, CurrentStays DEF userVars
<1> QED
  BY <1>1, <1>3, <1>4, <1>5, <1>6
     DEF IInv, Bytes, Flags, Marks, bpVars, userVars, historyVars

\* A thread that is let run on.
LEMMA RunsOnIs ==
  ASSUME k \in Kernels, NEW t \in Tid,
         k' = [Rewound(t) EXCEPT ![t].run = "run", ![t].due = Queued(t)]
  PROVE  /\ k' \in Kernels /\ Others(k', k, t) /\ k'[t].status = "none"
         /\ k'[t].run = "run" /\ k'[t].stopq = k[t].stopq
         /\ k'[t].sigq = k[t].sigq /\ k'[t].dying = k[t].dying
<1> DEFINE r == Rewound(t)
           due == Queued(t)
           x == [r[t] EXCEPT !.run = "run", !.due = due]
<1>1. /\ r \in Kernels /\ Others(r, k, t) /\ r[t].status = "none"
      /\ r[t].stopq = k[t].stopq /\ r[t].sigq = k[t].sigq /\ r[t].dying = k[t].dying
  BY RewoundIs
<1>2. k' = [r EXCEPT ![t].run = "run", ![t].due = due] /\ due \in BOOLEAN
  BY DEF Queued
<1> HIDE DEF r, due
<1>3. r[t] \in KernelThread
  BY <1>1 DEF Kernels
<1>4. /\ x \in KernelThread /\ x.run = "run" /\ x.status = r[t].status
      /\ x.stopq = r[t].stopq /\ x.sigq = r[t].sigq /\ x.dying = r[t].dying
  BY <1>2, <1>3 DEF KernelThread
<1>5. k' = [r EXCEPT ![t] = x]
  BY <1>1, <1>2 DEF Kernels
<1> HIDE DEF x
<1>6. /\ [r EXCEPT ![t] = x] \in Kernels /\ Others([r EXCEPT ![t] = x], r, t)
      /\ [r EXCEPT ![t] = x][t] = x
  BY <1>1, <1>4, WithRecord
<1>7. k' \in Kernels /\ Others(k', r, t) /\ k'[t] = x
  BY <1>5, <1>6
<1>8. Others(k', k, t)
  BY <1>1, <1>7, OthersTrans
<1> QED
  BY <1>1, <1>4, <1>7, <1>8

LEMMA AnnouncedIs ==
  ASSUME IInv, NEW ths \in Records, NEW parent \in Tid
  PROVE  /\ Announced(ths, parent) \in Records
         /\ \A u \in Tid :
              \/ Announced(ths, parent)[u] = ths[u]
              \/ ~th[u].known /\ Announced(ths, parent)[u].known
BY RegisterIs DEF Announced

\* The stop of a known thread is taken, its own or the child's record follows.
LEMMA StopTaken ==
  ASSUME IInv, NEW t \in Tid, th[t].known, k[t].run = "stopped", k[t].status # "stop",
         k' \in Kernels, Others(k', k, t), k'[t].status = "none", k'[t].run # "unborn",
         k'[t].stopq = k[t].stopq, k'[t].sigq = k[t].sigq, k'[t].dying = k[t].dying,
         signalsLeft' = signalsLeft, NEW ths \in Records, Alike(ths, th), th' \in Records,
         \A u \in Tid : \/ /\ th'[u].known = ths[u].known /\ th'[u].running = ths[u].running
                           /\ th'[u].pss = ths[u].pss
                        \/ ~th[u].known /\ th'[u].known
  PROVE  Threads' /\ MetStays
<1>1. \A u \in Tid : \/ /\ th'[u].known = th[u].known /\ th'[u].running = th[u].running
                        /\ th'[u].pss = th[u].pss
                     \/ ~th[u].known /\ th'[u].known
  BY DEF Alike
<1>2. th'[t].known /\ th'[t].pss = th[t].pss
  BY <1>1
<1>3. th[t].pss /\ ~k'[t].dying => k'[t].stopq
  BY DEF IInv, Threads, Owed, Living, StopComing
<1>4. ThreadStep(t)
  BY <1>2, <1>3 DEF ThreadStep, Met
<1> QED
  BY <1>1, <1>4, OneThread DEF OrBorn

LEMMA SwallowTakeStep ==
  ASSUME IInv, SwallowTake
  PROVE  IInv'
<1> DEFINE t == Top.tid
           free == th[t].psig = "none"
           c == Claim(t)
           a == Announced(c, t)
<1>1. /\ Top.at = "swallowWait"
      /\ UNCHANGED <<cur, curSig, rearms, allStopped>>
      /\ UNCHANGED <<procStop, signalsLeft, bpVars, userVars, hits>>
      /\ owed' \in {owed, [owed EXCEPT ![t] = @ + 1]}
      /\ \/ /\ k[t].status = "stop" /\ k' = [k EXCEPT ![t].status = "none"]
            /\ th' = Stopped(th, t, FALSE) /\ ret' = "drained" /\ Return
         \/ /\ k[t].status \notin {"none", "stop", "exited"}
            /\ k' = [Rewound(t) EXCEPT ![t].run = "run", ![t].due = Queued(t)]
            /\ th' = Keep(a, t, SignalDrained(t) /\ free, "reported")
            /\ stack' = stack /\ ret' = ret
  BY DEF SwallowTake, At, Taken
<1>2. t \in Tid /\ Met(t, k, th) /\ th \in Records /\ k \in Kernels
  BY TopIs DEF IInv, Threads, Records, Kernels
<1> HIDE DEF t
<1>3. k[t].run = "stopped" /\ th[t].known
  BY <1>1, <1>2 DEF IInv, Threads, StatusOf, Met
<1>4. Threads' /\ MetStays
  <2>1. CASE k[t].status = "stop" /\ k' = [k EXCEPT ![t].status = "none"]
               /\ th' = Stopped(th, t, FALSE)
    <3> DEFINE s == Stopped(th, t, FALSE)
    <3>1. /\ s \in Records /\ Others(s, th, t) /\ s[t].known = th[t].known
          /\ s[t].running = FALSE /\ s[t].pss = FALSE
      BY <1>2, StoppedIs
    <3>2. th' = s
      BY <2>1
    <3> HIDE DEF s
    <3>3. /\ k' \in Kernels /\ Others(k', k, t) /\ k'[t].status = "none"
          /\ k'[t].run = "stopped" /\ k'[t].sigq = k[t].sigq
      BY <1>2, <1>3, <2>1, TakenIs
    <3>4. ThreadStep(t)
      BY <1>3, <3>1, <3>2, <3>3 DEF ThreadStep, Met
    <3>5. OrBorn(t) /\ th' \in Records
      BY <3>1, <3>2 DEF OrBorn, Others
    <3> QED
      BY <1>1, <1>2, <3>3, <3>4, <3>5, OneThread
  <2>2. CASE /\ k[t].status \notin {"none", "stop", "exited"}
             /\ k' = [Rewound(t) EXCEPT ![t].run = "run", ![t].due = Queued(t)]
             /\ th' = Keep(a, t, SignalDrained(t) /\ free, "reported")
    <3>1. c \in Records /\ Alike(c, th)
      BY <1>2, ClaimIs
    <3> HIDE DEF c
    <3>2. /\ a \in Records
          /\ \A u \in Tid : a[u] = c[u] \/ (~th[u].known /\ a[u].known)
      BY <1>2, <3>1, AnnouncedIs
    <3> HIDE DEF a
    <3>3. th' \in Records /\ Alike(th', a)
      BY <2>2, <3>2, KeepIs
    <3>4. \A u \in Tid : \/ /\ th'[u].known = c[u].known /\ th'[u].running = c[u].running
                            /\ th'[u].pss = c[u].pss
                         \/ ~th[u].known /\ th'[u].known
      BY <3>2, <3>3 DEF Alike
    <3>5. /\ k' \in Kernels /\ Others(k', k, t) /\ k'[t].status = "none"
          /\ k'[t].run = "run" /\ k'[t].stopq = k[t].stopq
          /\ k'[t].sigq = k[t].sigq /\ k'[t].dying = k[t].dying
      BY <1>2, <2>2, RunsOnIs
    <3> QED
      BY <1>1, <1>2, <1>3, <2>2, <3>1, <3>3, <3>4, <3>5, StopTaken
  <2> QED
    BY <1>1, <2>1, <2>2
<1>5. Frames' /\ Handled'
  <2>1. CASE Return
    BY <1>1, <1>4, <2>1, Returns
  <2>2. CASE stack' = stack
    <3>1. Frames'
      BY <1>4, <2>2, SameStack
    <3>2. Free(Head(stack'))
      BY <1>1, <2>2 DEF Free, Top, StopPoints
    <3> QED
      BY <3>1, <3>2, HandledFree
  <2> QED
    BY <1>1, <2>1, <2>2
<1>6. ret' \in {"drained", "lost", "stepped", "parked", "consumed"}
        /\ owed' \in [Tid -> Int]
  <2>1. ret' \in {"drained", ret}
    BY <1>1
  <2>2. owed' \in [Tid -> Int]
    BY <1>1, <1>2 DEF IInv, Marks
  <2> QED
    BY <2>1, <2>2 DEF IInv, Marks
<1>7. Current'
  BY <1>1, <1>4, CurrentStays DEF userVars
<1> QED
  BY <1>1, <1>4, <1>5, <1>6, <1>7
     DEF IInv, Bytes, Flags, Marks, bpVars, userVars

LEMMA SwallowLostStep ==
  ASSUME IInv, SwallowLost
  PROVE  IInv'
<1> DEFINE t == Top.tid
<1>1. /\ Top.at = "swallowWait" /\ ret' = "lost" /\ Return
      /\ UNCHANGED <<procStop, signalsLeft, recs, curSig, allStopped>>
      /\ UNCHANGED <<paused, stepReq, pauseReq, kick>>
      /\ \/ k[t].status = "exited" /\ ExitThreadEvent(t)
         \/ /\ th' = Running(th, t)
            /\ UNCHANGED <<k, armed, rearms, cur, pendSuspend, pendResume, historyVars>>
  BY DEF SwallowLost, At
<1>2. t \in Tid /\ Met(t, k, th) /\ th \in Records /\ k \in Kernels
  BY TopIs DEF IInv, Threads, Records, Kernels
<1> HIDE DEF t
<1>3. /\ Threads' /\ MetStays /\ Bytes' /\ Current'
      /\ pendSuspend' \subseteq Tid /\ hits' \subseteq Tid /\ owed' \in [Tid -> Int]
  <2>1. CASE k[t].status = "exited" /\ ExitThreadEvent(t)
    BY <1>1, <1>2, <2>1, ExitThreadEventIs
  <2>2. CASE /\ th' = Running(th, t)
             /\ UNCHANGED <<k, armed, rearms, cur, pendSuspend, pendResume, historyVars>>
    <3>1. /\ th' \in Records /\ Others(th', th, t) /\ th'[t].known = th[t].known
          /\ th'[t].pss = th[t].pss
      BY <1>2, <2>2, RunningIs
    <3>2. ThreadStep(t)
      BY <1>2, <2>2, <3>1
         DEF ThreadStep, Met, IInv, Threads, StatusOf, Owed, Living, StopComing
    <3>3. OrBorn(t)
      BY <3>1 DEF OrBorn, Others
    <3>4. k' \in Kernels /\ Others(k', k, t) /\ k'[t].sigq = k[t].sigq
      BY <1>2, <2>2 DEF Others
    <3>5. Threads' /\ MetStays
      BY <1>1, <1>2, <3>1, <3>2, <3>3, <3>4, OneThread
    <3>6. Current'
      BY <2>2, <3>5, CurrentStays
    <3> QED
      BY <1>1, <2>2, <3>5, <3>6 DEF IInv, Bytes, Marks, historyVars
  <2> QED
    BY <1>1, <2>1, <2>2
<1>4. Frames' /\ Handled'
  BY <1>1, <1>3, Returns
<1> QED
  BY <1>1, <1>3, <1>4 DEF IInv, Flags, Marks

LEMMA StepPastStep ==
  ASSUME IInv, StepPast
  PROVE  IInv'
<1> DEFINE t == Top.tid
           a == k[t].at
           addr == IF a \in armed THEN a ELSE NoAddr
           f == Frame("swallow", t)
           g == [Frame("lifted", t) EXCEPT !.sig = curSig, !.addr = addr]
<1>1. /\ Top.at = "stepPast" /\ armed' = armed \ {a} /\ curSig' = FALSE
      /\ UNCHANGED <<recs, th, cur, rearms, allStopped, ret>>
      /\ UNCHANGED <<kernelVars, userVars, historyVars>>
      /\ stack' = <<f, g>> \o Tail(stack)
  BY DEF StepPast, At, Call
<1>2. t \in Tid /\ Met(t, k, th) /\ addr \in Addr \cup {NoAddr} /\ curSig \in BOOLEAN
  BY TopIs DEF IInv, Bytes, Flags
<1> HIDE DEF t, addr
<1>3. Threads' /\ MetStays
  BY <1>1, ThreadsSame DEF kernelVars
<1>4. Met(t, k', th')
  BY <1>2, <1>3 DEF MetStays
<1>5. f \in Activations /\ f.at = "swallow" /\ MetBy(f, k', th')
  <2>1. "swallow" \in Points
    BY DEF Points
  <2> QED
    BY <1>2, <1>4, <2>1, FrameIs, MetByOwn
<1>6. g \in Activations /\ g.at = "lifted" /\ MetBy(g, k', th')
  <2> DEFINE d == Frame("lifted", t)
  <2>1. d \in Activations /\ d.at = "lifted" /\ MetBy(d, k', th')
    <3>1. "lifted" \in Points
      BY DEF Points
    <3> QED
      BY <1>2, <1>4, <3>1, FrameIs, MetByOwn
  <2>2. g = [d EXCEPT !.sig = curSig, !.addr = addr]
    OBVIOUS
  <2> HIDE DEF d, g
  <2>3. g \in Activations /\ g.at = d.at /\ SameThreads(g, d)
    BY <1>2, <2>1, <2>2 DEF Activations, SameThreads
  <2> QED
    BY <2>1, <2>3 DEF MetBy, SameThreads
<1> HIDE DEF f, g
<1>7. Above(f) /\ Free(f) /\ Above(g) /\ g.at \in Callers
  BY <1>5, <1>6 DEF Above, Free, StopPoints, Callers
<1>8. Frames' /\ Handled'
  BY <1>1, <1>3, <1>5, <1>6, <1>7, CallStep
<1>9. Bytes'
  BY <1>1 DEF IInv, Bytes
<1>10. Current'
  BY <1>1, <1>3, CurrentStays DEF userVars
<1> QED
  BY <1>1, <1>3, <1>8, <1>9, <1>10 DEF IInv, Flags, Marks, kernelVars, userVars, historyVars

LEMMA StepOffTheByteStep ==
  ASSUME IInv, StepOffTheByte
  PROVE  IInv'
<1> DEFINE t == Top.tid
           f == [Top EXCEPT !.at = "stepWait", !.sig = FALSE]
<1>1. /\ Top.at = "lifted"
      /\ UNCHANGED <<procStop, signalsLeft, recs, cur, curSig, rearms, allStopped>>
      /\ UNCHANGED <<userVars, hits>>
      /\ armed' \in {armed, Rearmed(Top.addr)}
      /\ ret' \in {ret, "consumed", "parked"}
      /\ owed' \in {owed, [owed EXCEPT ![t] = @ - 1]}
      /\ Return \/ Become(f)
      /\ \/ k' = k /\ th' \in {th, Keep(th, cur, Top.sig, "reported")}
         \/ /\ InPtraceStop(t) /\ k' = Restart(t, "step")
            /\ th' = [th EXCEPT ![t].stepping = TRUE, ![t].atBp = FALSE]
  BY DEF StepOffTheByte, At, GiveBack
<1>2. t \in Tid /\ th \in Records
  BY TopIs DEF IInv, Threads, Records
<1> HIDE DEF t
<1>3. Threads' /\ MetStays
  <2>1. CASE k' = k /\ th' = th
    BY <1>1, <2>1, ThreadsSame
  <2>2. CASE k' = k /\ th' = Keep(th, cur, Top.sig, "reported")
    BY <1>1, <1>2, <2>2, KeepIs, ThreadsAlike
  <2>3. CASE /\ InPtraceStop(t) /\ k' = Restart(t, "step")
             /\ th' = [th EXCEPT ![t].stepping = TRUE, ![t].atBp = FALSE]
    <3>1. th' \in Records /\ Alike(th', th)
      BY <1>2, <2>3, SteppingIs
    <3> QED
      BY <1>1, <1>2, <2>3, <3>1, RestartStep DEF Alike
  <2> QED
    BY <1>1, <2>1, <2>2, <2>3
<1>4. Frames' /\ Handled'
  <2>1. CASE Return
    BY <1>1, <1>3, <2>1, Returns
  <2>2. CASE Become(f)
    <3>1. /\ f \in Activations /\ f.at = "stepWait" /\ SameThreads(f, Top)
      BY TopIs DEF Activations, Points, SameThreads
    <3> HIDE DEF f
    <3>2. MetBy(f, k', th') /\ Above(f) /\ Free(f)
      BY <1>3, <3>1, MetByAlike DEF Above, Free, StopPoints
    <3> QED
      BY <1>1, <1>3, <2>2, <3>2, GoesOn
  <2> QED
    BY <1>1, <2>1, <2>2
<1>5. Bytes'
  <2>1. Rearmed(Top.addr) \subseteq recs
    BY DEF IInv, Bytes, Rearmed
  <2> QED
    BY <1>1, <2>1 DEF IInv, Bytes
<1>6. Current'
  BY <1>1, <1>3, CurrentStays DEF userVars
<1>7. /\ owed' \in [Tid -> Int]
      /\ ret' \in {"drained", "lost", "stepped", "parked", "consumed"}
  BY <1>1 DEF IInv, Marks
<1> QED
  BY <1>1, <1>3, <1>4, <1>5, <1>6, <1>7 DEF IInv, Flags, Marks, userVars

LEMMA StepTakenStep ==
  ASSUME IInv, StepTaken
  PROVE  IInv'
<1> DEFINE t == Top.tid
           ths == ClearSingleStep(th, t)
           b == <<Frame("stepTaken", t)>> \o Tail(stack)
<1>1. /\ Top.at = "stepWait" /\ k[t].status # "none"
      /\ armed' = Rearmed(Top.addr)
      /\ UNCHANGED <<procStop, signalsLeft, recs, rearms, allStopped, userVars, hits>>
      /\ ret' \in {ret, "stepped"}
      /\ \/ /\ k[t].status \in {"step", "int3", "clone", "exit"}
            /\ k' = [k EXCEPT ![t].status = "none"]
            /\ th' = Announced(ths, t) /\ Return
            /\ UNCHANGED <<cur, curSig, owed>>
         \/ HandleSignal(t, ths, b)
  BY DEF StepTaken, At
<1>2. t \in Tid /\ Met(t, k, th) /\ th \in Records /\ k \in Kernels
  BY TopIs DEF IInv, Threads, Records, Kernels
<1>3. ths \in Records /\ Alike(ths, th)
  BY <1>2, ClearIs
<1> HIDE DEF ths, t
<1>4. /\ Threads' /\ Frames' /\ Handled' /\ Current' /\ curSig' \in BOOLEAN
      /\ owed' \in [Tid -> Int]
  <2>1. CASE /\ k[t].status \in {"step", "int3", "clone", "exit"}
             /\ k' = [k EXCEPT ![t].status = "none"]
             /\ th' = Announced(ths, t) /\ Return
             /\ UNCHANGED <<cur, curSig, owed>>
    <3>1. k[t].run = "stopped" /\ th[t].known
      BY <1>2, <2>1 DEF IInv, Threads, StatusOf, Met
    <3>2. /\ k' \in Kernels /\ Others(k', k, t) /\ k'[t].status = "none"
          /\ k'[t].run = "stopped" /\ k'[t].stopq = k[t].stopq
          /\ k'[t].sigq = k[t].sigq /\ k'[t].dying = k[t].dying
      BY <1>2, <2>1, <3>1, TakenIs
    <3>3. /\ th' \in Records
          /\ \A u \in Tid : th'[u] = ths[u] \/ (~th[u].known /\ th'[u].known)
      BY <1>2, <1>3, <2>1, AnnouncedIs
    <3>4. \A u \in Tid : \/ /\ th'[u].known = ths[u].known /\ th'[u].running = ths[u].running
                            /\ th'[u].pss = ths[u].pss
                         \/ ~th[u].known /\ th'[u].known
      BY <3>3
    <3>5. Threads' /\ MetStays
      BY <1>1, <1>2, <1>3, <2>1, <3>1, <3>2, <3>3, <3>4, StopTaken
    <3>6. Frames' /\ Handled'
      BY <1>1, <2>1, <3>5, Returns
    <3>7. Current'
      BY <1>1, <2>1, <3>5, CurrentStays DEF userVars
    <3> QED
      BY <2>1, <3>5, <3>6, <3>7 DEF IInv, Flags, Marks
  <2>2. CASE HandleSignal(t, ths, b)
    <3> DEFINE f == Frame("stepTaken", t)
    <3>1. f \in Activations /\ f.at = "stepTaken"
      <4>1. "stepTaken" \in Points
        BY DEF Points
      <4> QED
        BY <1>2, <4>1, FrameIs
    <3>2. ASSUME Met(t, k', th')
          PROVE  MetBy(f, k', th')
      BY <3>2, MetByOwn
    <3>3. b = <<f>> \o Tail(stack)
      OBVIOUS
    <3> HIDE DEF f, b
    <3>4. Above(f)
      BY <3>1 DEF Above
    <3>5. Shape(stack) /\ Head(stack).at # "loop"
      BY <1>1, TopIs
    <3>6. Shape(b) /\ Head(b) = f /\ From(b, stack, {f})
      BY <3>3, <3>4, <3>5, Replaced
    <3>7. Head(b).at \in Callers
      BY <3>1, <3>6 DEF Callers
    <3>8. \A g \in {f} : Met(t, k', th') /\ MetStays => MetBy(g, k', th')
      BY <3>2
    <3>9. signalsLeft' = signalsLeft /\ pendResume' = pendResume
      BY <1>1 DEF userVars
    <3> QED
      BY <1>1, <1>2, <1>3, <2>2, <3>6, <3>7, <3>8, <3>9, HandleSignalIs
  <2> QED
    BY <1>1, <2>1, <2>2
<1>5. Bytes'
  <2>1. Rearmed(Top.addr) \subseteq recs
    BY DEF IInv, Bytes, Rearmed
  <2> QED
    BY <1>1, <2>1 DEF IInv, Bytes
<1>6. ret' \in {"drained", "lost", "stepped", "parked", "consumed"}
  BY <1>1 DEF IInv, Marks
<1> QED
  BY <1>1, <1>4, <1>5, <1>6 DEF IInv, Flags, Marks, userVars

LEMMA StepConsumedStep ==
  ASSUME IInv, StepConsumed
  PROVE  IInv'
<1>1. /\ Top.at = "stepTaken" /\ ret' = "consumed" /\ Return
      /\ UNCHANGED <<th, cur, curSig, rearms, allStopped>>
      /\ UNCHANGED <<kernelVars, bpVars, userVars, historyVars>>
  BY DEF StepConsumed, At
<1>2. Threads' /\ MetStays
  BY <1>1, ThreadsSame DEF kernelVars
<1>3. Frames' /\ Handled'
  BY <1>1, <1>2, Returns
<1>4. Current'
  BY <1>1, <1>2, CurrentStays DEF userVars
<1> QED
  BY <1>1, <1>2, <1>3, <1>4
     DEF IInv, Bytes, Flags, Marks, kernelVars, bpVars, userVars, historyVars

-----------------------------------------------------------------------------
(* Setting all threads going                                               *)

\* resumeAllThreads begins with the stopped threads the tracer knows.
ResumesAll(except, T) == [Frame("stepOff", except) EXCEPT !.todo = T, !.rest = T]
LEMMA ResumesAllIs ==
  ASSUME MetStays, NEW t \in Tid, Met(t, k', th'), NEW T \in SUBSET Tid,
         \A u \in T : th[u].known
  PROVE  /\ Above(ResumesAll(t, T)) /\ Free(ResumesAll(t, T))
         /\ MetBy(ResumesAll(t, T), k', th')
<1> DEFINE d == Frame("stepOff", t)
           f == ResumesAll(t, T)
<1>1. d \in Activations /\ d.at = "stepOff" /\ MetBy(d, k', th')
  <2>1. "stepOff" \in Points
    BY DEF Points
  <2> QED
    BY <2>1, FrameIs, MetByOwn
<1>2. f = [d EXCEPT !.todo = T, !.rest = T]
  BY DEF ResumesAll
<1> HIDE DEF d, f
<1>3. /\ f \in Activations /\ f.at = "stepOff" /\ f.tid = d.tid /\ f.who = d.who
      /\ f.prev = d.prev /\ f.todo = T /\ f.rest = T /\ f.parked = d.parked
  BY <1>1, <1>2 DEF Activations
<1>4. \A u \in T : Met(u, k', th')
  BY DEF Met, MetStays
<1>5. MetBy(f, k', th')
  BY <1>1, <1>3, <1>4 DEF MetBy
<1> QED
  BY <1>3, <1>5 DEF Above, Free, StopPoints, f

LEMMA ResumeAllStep ==
  ASSUME IInv, MetStays, Top.at # "loop", NEW t \in Tid, Met(t, k', th'),
         NEW sig \in BOOLEAN, NEW park \in BOOLEAN,
         \/ ResumeAll(t, Tail(stack))
         \/ ResumeAll(t, <<ContinueOrPark(t, sig, park)>> \o Tail(stack))
  PROVE  Frames' /\ Handled' /\ allStopped' \in BOOLEAN
<1> DEFINE T == {u \in Tid \ ({t} \cup ResumeExcept) : Continuable(u)}
           f == ResumesAll(t, T)
           g == ContinueOrPark(t, sig, park)
<1>1. /\ allStopped' = FALSE
      /\ stack' = <<f>> \o Tail(stack) \/ stack' = <<f>> \o (<<g>> \o Tail(stack))
  BY DEF ResumeAll, ResumesAll
<1>2. Above(f) /\ Free(f) /\ MetBy(f, k', th')
  <2>1. T \in SUBSET Tid /\ \A u \in T : th[u].known
    BY DEF Continuable
  <2> HIDE DEF T
  <2> QED
    BY <2>1, ResumesAllIs
<1>3. g \in Activations /\ g.at = "continueOrPark" /\ MetBy(g, k', th')
  BY KindsOfFrame, MetByOwn
<1> HIDE DEF f, g
<1>4. Above(g) /\ g.at \in Callers
  BY <1>3 DEF Above, Callers
<1>5. <<f>> \o (<<g>> \o Tail(stack)) = <<f, g>> \o Tail(stack)
  BY <1>2, <1>4, TopIs, CalledFrom
<1>6. CASE stack' = <<f>> \o Tail(stack)
  BY <1>1, <1>2, <1>6, GoesOn DEF Become
<1>7. CASE stack' = <<f, g>> \o Tail(stack)
  BY <1>1, <1>2, <1>3, <1>4, <1>7, CallStep
<1> QED
  BY <1>1, <1>5, <1>6, <1>7

LEMMA AbandonStep ==
  ASSUME IInv, MetStays, Top.at # "loop", NEW t \in Tid, Met(t, k', th'),
         AbandonAllStop(t)
  PROVE  Frames' /\ Handled' /\ allStopped' \in BOOLEAN
<1>1. CASE ResumeAll(t, Tail(stack))
  BY <1>1, ResumeAllStep
<1>2. CASE Return /\ UNCHANGED allStopped
  BY <1>2, Returns DEF IInv, Flags
<1> QED
  BY <1>1, <1>2 DEF AbandonAllStop

LEMMA StepOffStep ==
  ASSUME IInv, StepOff
  PROVE  IInv'
<1> DEFINE rest == [Top EXCEPT !.at = "continueRest", !.todo = Top.rest]
           Goes(t) == [[Top EXCEPT !.todo = @ \ {t}] EXCEPT !.at = "steppedOff", !.who = t]
           Result == /\ Threads' /\ MetStays /\ Frames' /\ Handled' /\ Current'
                     /\ curSig' \in BOOLEAN
<1>1. /\ Top.at = "stepOff"
      /\ UNCHANGED <<rearms, allStopped, ret>>
      /\ UNCHANGED <<kernelVars, bpVars, userVars, historyVars>>
  BY DEF StepOff, At
<1>2. \/ Become(rest) /\ UNCHANGED <<th, cur, curSig>>
      \/ \E t \in Top.todo :
           \/ Become([Top EXCEPT !.todo = @ \ {t}]) /\ UNCHANGED <<th, cur, curSig>>
           \/ StepOffAs(t, Goes(t))
  BY DEF StepOff
<1>3. k' = k /\ signalsLeft' = signalsLeft /\ pendResume' = pendResume
  BY <1>1 DEF kernelVars, userVars
<1>4. ASSUME UNCHANGED <<th, cur, curSig>>,
             NEW f, f \in Activations, f.at \in {"continueRest", "stepOff"},
             f.tid = Top.tid, f.who = Top.who, f.prev = Top.prev, f.rest = Top.rest,
             f.parked = Top.parked, f.todo \subseteq Top.todo \cup Top.rest,
             Become(f)
      PROVE  Result
  <2>1. Threads' /\ MetStays
    BY <1>3, <1>4, ThreadsSame
  <2>2. Current' /\ curSig' \in BOOLEAN
    BY <1>3, <1>4, <2>1, CurrentStays DEF IInv, Flags
  <2>3. MetBy(f, k', th')
    <3>1. MetBy(Top, k', th')
      BY <2>1, TopIs, MetByStays
    <3> QED
      BY <1>4, <3>1 DEF MetBy
  <2>4. Above(f) /\ Free(f)
    BY <1>4 DEF Above, Free, StopPoints
  <2> QED
    BY <1>1, <1>4, <2>1, <2>2, <2>3, <2>4, GoesOn
<1>5. ASSUME Become(rest), UNCHANGED <<th, cur, curSig>>
      PROVE  Result
  <2>1. /\ rest \in Activations /\ rest.at = "continueRest"
        /\ rest.tid = Top.tid /\ rest.who = Top.who /\ rest.prev = Top.prev
        /\ rest.rest = Top.rest /\ rest.parked = Top.parked
        /\ rest.todo \subseteq Top.todo \cup Top.rest
    BY TopIs DEF Activations, Points
  <2> HIDE DEF rest, Result
  <2> QED
    BY <1>4, <1>5, <2>1
<1>6. ASSUME NEW t \in Top.todo, Become([Top EXCEPT !.todo = @ \ {t}]),
             UNCHANGED <<th, cur, curSig>>
      PROVE  Result
  <2> DEFINE f == Without(Top, t)
  <2>1. f \in Activations /\ f.at = "stepOff" /\ SameThreads(f, Top)
    BY <1>1, TopIs, WithoutIs
  <2>2. Become(f)
    BY <1>6 DEF Without
  <2> HIDE DEF f, Result
  <2> QED
    BY <1>4, <1>6, <2>1, <2>2 DEF SameThreads
<1>7. ASSUME NEW t \in Top.todo, StepOffAs(t, Goes(t))
      PROVE  Result
  <2> DEFINE f == Goes(t)
  <2>1. t \in Tid /\ Met(t, k, th) /\ Top \in Activations /\ MetBy(Top, k, th)
    BY <1>7, TopIs DEF Activations, MetBy
  <2>2. /\ f \in Activations /\ f.at = "steppedOff" /\ f.who = t /\ f.tid = Top.tid
        /\ f.prev = Top.prev /\ f.todo \subseteq Top.todo /\ f.rest = Top.rest
        /\ f.parked = Top.parked
    BY <2>1 DEF Activations, Points
  <2> HIDE DEF f, Result
  <2>3. MetBy(f, k, th) /\ f.at \in Callers \ {"loop"}
    BY <2>1, <2>2 DEF MetBy, Callers
  <2>4. StepOffAs(t, f)
    BY <1>7 DEF f
  <2> QED
    BY <1>1, <1>3, <2>1, <2>2, <2>3, <2>4, StepOffAsStep DEF Result
<1>8. Result
  <2> HIDE DEF Result, rest, Goes
  <2> QED
    BY <1>2, <1>5, <1>6, <1>7
<1> QED
  BY <1>1, <1>8 DEF IInv, Bytes, Flags, Marks, kernelVars, bpVars, userVars, historyVars

LEMMA AfterStepOffStep ==
  ASSUME IInv, AfterStepOff
  PROVE  IInv'
<1>1. PICK left \in SUBSET {Top.who} :
        Become([Frame("stepOff", Top.tid) EXCEPT !.todo = Top.todo, !.rest = Top.rest \ left,
                                                 !.parked = Top.parked \cup left])
  BY DEF AfterStepOff
<1>2. /\ Top.at = "steppedOff" /\ SteppedOff
      /\ UNCHANGED <<th, rearms, allStopped, ret>>
      /\ UNCHANGED <<kernelVars, bpVars, userVars, historyVars>>
  BY DEF AfterStepOff, At
<1>3. Threads' /\ MetStays
  BY <1>2, ThreadsSame DEF kernelVars
<1>4. /\ Top \in Activations /\ MetBy(Top, k', th') /\ Top.tid \in Tid
      /\ Met(Top.tid, k', th')
  BY <1>3, TopIs, MetByStays DEF MetStays
<1>5. Top.who \in Tid
  <2>1. Shape(stack) /\ Head(stack) = Top /\ stack \in Seq(Activations) /\ stack # <<>>
    BY TopIs DEF Shape
  <2>2. Len(stack) \in Nat \ {0} /\ Top = stack[1]
    BY <2>1, EmptySeq, HeadTailProperties
  <2> QED
    BY <1>2, <2>1, <2>2 DEF Shape
<1> DEFINE d == Frame("stepOff", Top.tid)
           todo == Top.todo
           rest == Top.rest \ left
           parked == Top.parked \cup left
           f == [d EXCEPT !.todo = todo, !.rest = rest, !.parked = parked]
<1>6. d \in Activations /\ d.at = "stepOff" /\ MetBy(d, k', th')
  <2>1. "stepOff" \in Points
    BY DEF Points
  <2> QED
    BY <1>4, <2>1, FrameIs, MetByOwn
<1>7. /\ todo \in SUBSET Tid /\ rest \in SUBSET Tid /\ parked \in SUBSET Tid
      /\ \A u \in todo \cup rest \cup parked : Met(u, k', th')
  <2>1. Top.who # NoTid
    BY <1>5, LeaderAssumption
  <2>2. \A u \in left : u = Top.who
    BY <1>1
  <2> QED
    BY <1>4, <1>5, <2>1, <2>2 DEF Activations, MetBy
<1>8. Become(f)
  BY <1>1
<1> HIDE DEF d, todo, rest, parked
<1>9. /\ f \in Activations /\ f.at = "stepOff" /\ f.tid = d.tid /\ f.who = d.who
      /\ f.prev = d.prev /\ f.todo = todo /\ f.rest = rest /\ f.parked = parked
  BY <1>6, <1>7 DEF Activations
<1> HIDE DEF f
<1>10. MetBy(f, k', th') /\ Above(f) /\ Free(f)
  BY <1>6, <1>7, <1>9 DEF MetBy, Above, Free, StopPoints
<1>11. Frames' /\ Handled'
  BY <1>2, <1>3, <1>8, <1>10, GoesOn
<1>12. Current' /\ curSig' \in BOOLEAN
  BY <1>2, <1>3, SteppedOffIs DEF userVars
<1> QED
  BY <1>2, <1>3, <1>11, <1>12
     DEF IInv, Bytes, Flags, Marks, kernelVars, bpVars, userVars, historyVars

LEMMA ContinueRestStep ==
  ASSUME IInv, ContinueRest
  PROVE  IInv'
<1> DEFINE p == [Top EXCEPT !.at = "continueParked", !.todo = Top.parked]
<1>1. /\ Top.at = "continueRest"
      /\ UNCHANGED <<cur, curSig, rearms, allStopped, ret>>
      /\ UNCHANGED <<procStop, signalsLeft, bpVars, userVars, hits>>
  BY DEF ContinueRest, At
<1>2. \/ Become(p) /\ UNCHANGED <<k, th, owed>>
      \/ \E t \in Top.todo : ContinueThread(t) /\ Become([Top EXCEPT !.todo = @ \ {t}])
  BY DEF ContinueRest
<1> DEFINE Result == Threads' /\ MetStays /\ Frames' /\ Handled' /\ owed' \in [Tid -> Int]
<1>3. ASSUME Become(p), UNCHANGED <<k, th, owed>>
      PROVE  Result
  <2>1. Threads' /\ MetStays /\ owed' \in [Tid -> Int]
    BY <1>1, <1>3, ThreadsSame DEF IInv, Marks
  <2>2. MetBy(Top, k', th') /\ Top \in Activations
    BY <2>1, TopIs, MetByStays
  <2>3. /\ p \in Activations /\ p.at = "continueParked" /\ p.tid = Top.tid
        /\ p.who = Top.who /\ p.prev = Top.prev /\ p.todo = Top.parked
        /\ p.rest = Top.rest /\ p.parked = Top.parked
    BY <2>2 DEF Activations, Points
  <2> HIDE DEF p
  <2>4. MetBy(p, k', th') /\ Above(p) /\ Free(p)
    BY <2>2, <2>3 DEF MetBy, Above, Free, StopPoints
  <2> QED
    BY <1>1, <1>3, <2>1, <2>4, GoesOn
<1>4. ASSUME NEW t \in Top.todo, ContinueThread(t), Become([Top EXCEPT !.todo = @ \ {t}])
      PROVE  Result
  <2> DEFINE f == Without(Top, t)
  <2>1. f \in Activations /\ f.at = "continueRest" /\ SameThreads(f, Top)
    BY <1>1, TopIs, WithoutIs
  <2>2. Become(f)
    BY <1>4 DEF Without
  <2>3. t \in Tid
    BY <1>4, TopIs DEF Activations
  <2> HIDE DEF f
  <2>4. Threads' /\ MetStays /\ owed' \in [Tid -> Int]
    BY <1>1, <1>4, <2>3, ContinueThreadStep
  <2>5. MetBy(f, k', th') /\ Above(f) /\ Free(f)
    BY <2>1, <2>4, MetByAlike DEF Above, Free, StopPoints
  <2> QED
    BY <1>1, <2>2, <2>4, <2>5, GoesOn
<1>5. Result
  <2> HIDE DEF Result, p
  <2> QED
    BY <1>2, <1>3, <1>4
<1>6. Current'
  BY <1>1, <1>5, CurrentStays DEF userVars
<1> QED
  BY <1>1, <1>5, <1>6 DEF IInv, Bytes, Flags, Marks, bpVars, userVars

LEMMA ContinueParkedStep ==
  ASSUME IInv, ContinueParked
  PROVE  IInv'
<1>1. /\ Top.at = "continueParked"
      /\ UNCHANGED <<th, cur, curSig, rearms, allStopped, ret>>
      /\ UNCHANGED <<kernelVars, bpVars, userVars, historyVars>>
      /\ \/ Return
         \/ \E u \in Top.todo : Call(Frame("resume", u), [Top EXCEPT !.todo = @ \ {u}])
  BY DEF ContinueParked, At
<1>2. Threads' /\ MetStays
  BY <1>1, ThreadsSame DEF kernelVars
<1>3. Frames' /\ Handled'
  <2>1. ASSUME NEW u \in Top.todo, Call(Frame("resume", u), [Top EXCEPT !.todo = @ \ {u}])
        PROVE  Frames' /\ Handled'
    BY <1>1, <1>2, <2>1, CallsResume
  <2> QED
    BY <1>1, <1>2, <2>1, Returns
<1>4. Current'
  BY <1>1, <1>2, CurrentStays DEF userVars
<1> QED
  BY <1>1, <1>2, <1>3, <1>4
     DEF IInv, Bytes, Flags, Marks, kernelVars, bpVars, userVars, historyVars

LEMMA ProceedStep ==
  ASSUME IInv, Proceed
  PROVE  IInv'
<1> DEFINE t == Top.tid
<1>1. /\ Top.at = "continueOrPark"
      /\ UNCHANGED <<procStop, signalsLeft, bpVars, cur, curSig, rearms, ret>>
      /\ UNCHANGED <<stepReq, pendSuspend, pendResume, kick, hits>>
      /\ \/ /\ cur # NoTid
            /\ th' = Keep(th, cur, Top.sig, "reported")
            /\ PauseIfAlone(t) /\ pauseReq' = (pauseReq /\ AnyRunning)
            /\ UNCHANGED <<k, owed>>
         \/ /\ \/ UNCHANGED <<k, th, owed>>
               \/ /\ InPtraceStop(t) /\ k' = Restart(t, "run") /\ th' = Running(th, cur)
                  /\ owed' \in {owed, [owed EXCEPT ![t] = @ - 1]}
            /\ Return /\ UNCHANGED <<paused, allStopped, pauseReq>>
  BY DEF Proceed, At, GiveBack
<1>2. /\ t \in Tid /\ Met(t, k, th) /\ th \in Records
      /\ cur \in Tid \cup {NoTid} /\ (cur # NoTid => Met(cur, k, th))
  BY TopIs DEF IInv, Threads, Records, Current
<1> HIDE DEF t
<1>3. /\ Threads' /\ MetStays /\ owed' \in [Tid -> Int]
  <2>1. CASE th' = Keep(th, cur, Top.sig, "reported") /\ UNCHANGED <<k, owed>>
    BY <1>1, <1>2, <2>1, KeepIs, ThreadsAlike DEF IInv, Marks
  <2>2. CASE UNCHANGED <<k, th, owed>>
    BY <1>1, <2>2, ThreadsSame DEF IInv, Marks
  <2>3. CASE /\ InPtraceStop(t) /\ k' = Restart(t, "run") /\ th' = Running(th, cur)
             /\ owed' \in {owed, [owed EXCEPT ![t] = @ - 1]}
    <3>1. /\ th' \in Records
          /\ \A u \in Tid : /\ th'[u].known = th[u].known /\ th'[u].pss = th[u].pss
                            /\ (th'[u].running => th[u].running \/ Met(u, k, th))
      <4>1. CASE cur = NoTid
        <5>1. th' = th
          BY <1>2, <2>3, <4>1, LeaderAssumption DEF Running, Records
        <5> QED
          BY <1>2, <5>1
      <4>2. CASE cur \in Tid
        <5>1. /\ th' \in Records /\ Others(th', th, cur) /\ th'[cur].known = th[cur].known
              /\ th'[cur].pss = th[cur].pss
          BY <1>2, <2>3, <4>2, RunningIs
        <5>2. cur # NoTid
          BY <4>2, LeaderAssumption
        <5> QED
          BY <1>2, <5>1, <5>2 DEF Others
      <4> QED
        BY <1>2, <4>1, <4>2
    <3>2. Threads' /\ MetStays
      BY <1>1, <1>2, <2>3, <3>1, RestartStep
    <3>3. owed' \in [Tid -> Int]
      BY <1>2, <2>3 DEF IInv, Marks
    <3> QED
      BY <3>2, <3>3
  <2> QED
    BY <1>1, <2>1, <2>2, <2>3
<1>4. Frames' /\ Handled' /\ paused' \in BOOLEAN /\ allStopped' \in BOOLEAN
  <2>1. CASE PauseIfAlone(t)
    <3>1. Met(t, k', th')
      BY <1>2, <1>3 DEF MetStays
    <3> QED
      BY <1>1, <1>2, <1>3, <2>1, <3>1, Pauses
  <2>2. CASE Return /\ UNCHANGED <<paused, allStopped, pauseReq>>
    BY <1>1, <1>3, <2>2, Returns DEF IInv, Flags
  <2> QED
    BY <1>1, <2>1, <2>2
<1>5. pauseReq' \in BOOLEAN
  BY <1>1 DEF IInv, Flags
<1>6. Current'
  BY <1>1, <1>3, CurrentStays
<1> QED
  BY <1>1, <1>3, <1>4, <1>5, <1>6 DEF IInv, Bytes, Flags, Marks, bpVars

-----------------------------------------------------------------------------
(* A pause                                                                 *)

\* A function called by the top activation, for the same thread.
LEMMA CallsOnTop ==
  ASSUME IInv, MetStays, Top.at # "loop", NEW t \in Tid, Met(t, k', th'),
         NEW p \in Plain, NEW q \in Plain \cap Callers,
         Call(Frame(p, t), Frame(q, t))
  PROVE  Frames' /\ Handled'
<1> DEFINE f == Frame(p, t)
           g == Frame(q, t)
<1>1. p \in Points \ ({"loop", "steppedOff", "sweepWait"} \cup StopPoints)
      /\ q \in Points \ ({"loop", "steppedOff", "sweepWait"} \cup StopPoints)
      /\ q \in Callers
  BY DEF Plain
<1>2. f \in Activations /\ f.at = p /\ g \in Activations /\ g.at = q
  BY <1>1, FrameIs
<1>3. MetBy(f, k', th') /\ MetBy(g, k', th')
  BY MetByOwn
<1>4. stack' = <<f, g>> \o Tail(stack)
  BY DEF Call
<1> HIDE DEF f, g
<1>5. Above(f) /\ Free(f) /\ Above(g) /\ g.at \in Callers
  BY <1>1, <1>2 DEF Above, Free
<1> QED
  BY <1>3, <1>4, <1>5, CallStep

LEMMA WakeStep ==
  ASSUME IInv, Wake
  PROVE  IInv'
<1> DEFINE t == IF cur = NoTid THEN Top.tid ELSE cur
<1>1. PICK sig \in BOOLEAN, take \in BOOLEAN :
        LET ths == Keep(th, Top.tid, sig, "reported")
        IN th' = IF take THEN [ths EXCEPT ![t].psig = "none"] ELSE ths
  <2> DEFINE away == t # Top.tid
             sig == away /\ curSig
             ths == Keep(th, Top.tid, sig, "reported")
             take == ~(~away /\ curSig) /\ cur # NoTid /\ ths[t].psig = "reported"
  <2>1. sig \in BOOLEAN /\ take \in BOOLEAN
    BY DEF IInv, Flags
  <2>2. th' = IF take THEN [ths EXCEPT ![t].psig = "none"] ELSE ths
    BY DEF Wake
  <2> QED
    BY <2>1, <2>2
<1>2. /\ Top.at = "wait" /\ Become(Frame("pend", t))
      /\ UNCHANGED <<cur, rearms, allStopped, ret>>
      /\ UNCHANGED <<kernelVars, bpVars, userVars, historyVars>>
  BY DEF Wake, At
<1>3. curSig' \in BOOLEAN
  BY DEF Wake, IInv, Flags
<1>4. t \in Tid /\ Met(t, k, th) /\ th \in Records
  BY TopIs DEF IInv, Current, Threads, Records
<1> HIDE DEF t
<1>5. Threads' /\ MetStays
  <2> DEFINE ths == Keep(th, Top.tid, sig, "reported")
  <2>1. ths \in Records /\ Alike(ths, th)
    BY <1>4, KeepIs
  <2>2. th' = ths \/ th' = [ths EXCEPT ![t].psig = "none"]
    BY <1>1
  <2> HIDE DEF ths
  <2>3. th' \in Records /\ Alike(th', ths)
    <3>1. /\ [ths EXCEPT ![t].psig = "none"] \in Records
          /\ Alike([ths EXCEPT ![t].psig = "none"], ths)
      BY <2>1, FieldsAre
    <3>2. Alike(ths, ths)
      BY DEF Alike
    <3> QED
      BY <2>1, <2>2, <3>1, <3>2
  <2>4. Alike(th', th)
    BY <2>1, <2>3, AlikeTrans
  <2> QED
    BY <1>2, <2>3, <2>4, ThreadsAlike DEF kernelVars
<1>6. Frames' /\ Handled'
  <2>1. "pend" \in Plain
    BY DEF Plain, Points, StopPoints
  <2>2. Met(t, k', th')
    BY <1>4, <1>5 DEF MetStays
  <2> QED
    BY <1>2, <1>4, <1>5, <2>1, <2>2, GoesOnAt
<1>7. Current'
  BY <1>2, <1>5, CurrentStays DEF userVars
<1> QED
  BY <1>2, <1>3, <1>5, <1>6, <1>7
     DEF IInv, Bytes, Flags, Marks, kernelVars, bpVars, userVars, historyVars

LEMMA ReportPendingHitStep ==
  ASSUME IInv, NEW t \in Tid, ReportPendingHit(t)
  PROVE  IInv'
<1> DEFINE ths == [th EXCEPT ![t].pbp = NoAddr]
<1>1. /\ Top.at = "pend" /\ th[t].known
      /\ UNCHANGED <<rearms, ret, stepReq, pauseReq, pendSuspend, pendResume, kick>>
      /\ UNCHANGED <<kernelVars, bpVars, owed>>
      /\ \/ /\ th' = Keep(ths, Top.tid, curSig, "reported")
            /\ curSig' = FALSE /\ cur' = t /\ BeginPause(t) /\ hits' = hits \ {t}
         \/ th' = ths /\ UNCHANGED <<curSig, cur, paused, allStopped, stack, hits>>
  BY DEF ReportPendingHit, PendingHit, At
<1>2. th \in Records /\ Met(t, k, th)
  BY <1>1 DEF IInv, Threads, Records, Met
<1>3. ths \in Records /\ Alike(ths, th)
  BY <1>2, FieldsAre
<1> HIDE DEF ths
<1>4. th' \in Records /\ Alike(th', th)
  BY <1>1, <1>3, KeepIs, AlikeTrans
<1>5. Threads' /\ MetStays
  BY <1>1, <1>4, ThreadsAlike DEF kernelVars
<1>6. Met(t, k', th')
  BY <1>2, <1>5 DEF MetStays
<1> DEFINE Result == /\ Frames' /\ Handled' /\ Current' /\ paused' \in BOOLEAN
                     /\ allStopped' \in BOOLEAN /\ curSig' \in BOOLEAN
                     /\ hits' \subseteq Tid
<1>7. ASSUME curSig' = FALSE, cur' = t, BeginPause(t), hits' = hits \ {t}
      PROVE  Result
  <2>1. Frames' /\ Handled' /\ paused' \in BOOLEAN /\ allStopped' \in BOOLEAN
    BY <1>1, <1>5, <1>6, <1>7, Pauses
  <2>2. Current'
    BY <1>1, <1>5, <1>6, <1>7 DEF IInv, Current, MetStays
  <2> QED
    BY <1>7, <2>1, <2>2 DEF IInv, Marks
<1>8. ASSUME UNCHANGED <<curSig, cur, paused, allStopped, stack, hits>>
      PROVE  Result
  <2>1. Frames' /\ Handled'
    <3>1. TopStays
      BY <1>1, <1>4, <1>8 DEF TopStays, InPtraceStop, Living, StopComing, kernelVars
    <3> QED
      BY <1>5, <1>8, <3>1, SameStack, HandledStays
  <2>2. Current'
    BY <1>1, <1>5, <1>8, CurrentStays
  <2> QED
    BY <1>8, <2>1, <2>2 DEF IInv, Marks, Flags
<1>9. Result
  <2> HIDE DEF Result
  <2> QED
    BY <1>1, <1>7, <1>8
<1> QED
  BY <1>1, <1>5, <1>9 DEF IInv, Bytes, Flags, Marks, kernelVars, bpVars

LEMMA ReportPendingSignalStep ==
  ASSUME IInv, NEW t \in Tid, ReportPendingSignal(t)
  PROVE  IInv'
<1> DEFINE ths == [th EXCEPT ![t].psig = "none"]
<1>1. /\ Top.at = "pend" /\ th[t].known
      /\ UNCHANGED <<rearms, ret, stepReq, pauseReq, pendSuspend, pendResume, kick>>
      /\ UNCHANGED <<kernelVars, bpVars, historyVars>>
      /\ th' = Keep(ths, Top.tid, curSig, "reported")
      /\ curSig' = TRUE /\ cur' = t /\ BeginPause(t)
  BY DEF ReportPendingSignal, PendingSignal, At
<1>2. th \in Records /\ Met(t, k, th)
  BY <1>1 DEF IInv, Threads, Records, Met
<1>3. ths \in Records /\ Alike(ths, th)
  BY <1>2, FieldsAre
<1> HIDE DEF ths
<1>4. th' \in Records /\ Alike(th', th)
  BY <1>1, <1>3, KeepIs, AlikeTrans
<1>5. Threads' /\ MetStays
  BY <1>1, <1>4, ThreadsAlike DEF kernelVars
<1>6. Met(t, k', th')
  BY <1>2, <1>5 DEF MetStays
<1>7. Frames' /\ Handled' /\ paused' \in BOOLEAN /\ allStopped' \in BOOLEAN
  BY <1>1, <1>5, <1>6, Pauses
<1>8. Current'
  BY <1>1, <1>5, <1>6 DEF IInv, Current, MetStays
<1> QED
  BY <1>1, <1>5, <1>7, <1>8
     DEF IInv, Bytes, Flags, Marks, kernelVars, bpVars, historyVars

LEMMA NothingPendingStep ==
  ASSUME IInv, NothingPending
  PROVE  IInv'
<1>1. /\ Top.at = "pend" /\ Become(Frame("decide", Top.tid))
      /\ UNCHANGED <<th, cur, curSig, rearms, allStopped, ret>>
      /\ UNCHANGED <<kernelVars, bpVars, userVars, historyVars>>
  BY DEF NothingPending, At
<1>2. Threads' /\ MetStays
  BY <1>1, ThreadsSame DEF kernelVars
<1>3. Top.tid \in Tid /\ Met(Top.tid, k', th')
  BY <1>2, TopIs DEF MetStays
<1>4. Frames' /\ Handled'
  <2>1. "decide" \in Plain
    BY DEF Plain, Points, StopPoints
  <2> QED
    BY <1>1, <1>2, <1>3, <2>1, GoesOnAt
<1>5. Current'
  BY <1>1, <1>2, CurrentStays DEF userVars
<1> QED
  BY <1>1, <1>2, <1>4, <1>5
     DEF IInv, Bytes, Flags, Marks, kernelVars, bpVars, userVars, historyVars

\* The byte under a thread is lifted, or left.
LEMMA LiftIs ==
  ASSUME IInv, NEW t \in Tid, recs' = recs, Lift(t) \/ UNCHANGED <<armed, rearms>>
  PROVE  Bytes'
<1>1. k[t].at \in Addr \cup {NoAddr}
  BY DEF IInv, Threads, KernelThread
<1>2. rearms' \in [Tid -> Addr \cup {NoAddr}]
  BY <1>1 DEF IInv, Bytes, Lift
<1>3. armed' \subseteq recs
  BY DEF IInv, Bytes, Lift
<1> QED
  BY <1>2, <1>3 DEF IInv, Bytes

LEMMA DecideStepStep ==
  ASSUME IInv, DecideStep
  PROVE  IInv'
<1> DEFINE t == Top.tid
<1>1. /\ Top.at = "decide" /\ cur # NoTid /\ stepReq' = FALSE
      /\ UNCHANGED <<recs, th, cur, curSig, ret, pauseReq, pendSuspend, pendResume, kick>>
      /\ UNCHANGED <<kernelVars, historyVars>>
      /\ Lift(cur) \/ UNCHANGED <<armed, rearms>>
      /\ \/ BeginPause(t)
         \/ /\ Call(Frame("swallow", t), Frame("stepNow", t))
            /\ UNCHANGED <<paused, allStopped>>
  BY DEF DecideStep, At
<1>2. t \in Tid /\ cur \in Tid
  BY <1>1, TopIs DEF IInv, Current
<1>3. Threads' /\ MetStays
  BY <1>1, ThreadsSame DEF kernelVars
<1>4. Met(t, k', th')
  BY <1>3, TopIs DEF MetStays
<1> HIDE DEF t
<1>5. Frames' /\ Handled' /\ paused' \in BOOLEAN /\ allStopped' \in BOOLEAN
  <2>1. CASE BeginPause(t)
    BY <1>1, <1>2, <1>3, <1>4, <2>1, Pauses
  <2>2. CASE /\ Call(Frame("swallow", t), Frame("stepNow", t))
             /\ UNCHANGED <<paused, allStopped>>
    <3>1. "swallow" \in Plain /\ "stepNow" \in Plain \cap Callers
      BY DEF Plain, Points, StopPoints, Callers
    <3>2. Frames' /\ Handled'
      BY <1>1, <1>2, <1>3, <1>4, <2>2, <3>1, CallsOnTop
    <3> QED
      BY <2>2, <3>2 DEF IInv, Flags
  <2> QED
    BY <1>1, <2>1, <2>2
<1>6. Bytes'
  BY <1>1, <1>2, LiftIs
<1>7. Current'
  BY <1>1, <1>3, CurrentStays
<1> QED
  BY <1>1, <1>3, <1>5, <1>6, <1>7 DEF IInv, Flags, Marks, kernelVars, historyVars

LEMMA DecideContinueStep ==
  ASSUME IInv, DecideContinue
  PROVE  IInv'
<1> DEFINE t == Top.tid
<1>1. /\ Top.at = "decide"
      /\ UNCHANGED <<recs, th, cur, curSig, allStopped, ret>>
      /\ UNCHANGED <<kernelVars, userVars, historyVars>>
      /\ (cur # NoTid /\ Lift(cur)) \/ UNCHANGED <<armed, rearms>>
      /\ \/ Call(Frame("stepPast", t), Frame("stepped", t))
         \/ Become(ResumeFrom(t, FALSE))
  BY DEF DecideContinue, At
<1>2. t \in Tid /\ cur \in Tid \cup {NoTid}
  BY TopIs DEF IInv, Current
<1>3. Threads' /\ MetStays
  BY <1>1, ThreadsSame DEF kernelVars
<1>4. Met(t, k', th')
  BY <1>3, TopIs DEF MetStays
<1> HIDE DEF t
<1>5. Frames' /\ Handled'
  <2>1. CASE Become(ResumeFrom(t, FALSE))
    BY <1>1, <1>2, <1>3, <1>4, <2>1, GoesOnToContinue
  <2>2. CASE Call(Frame("stepPast", t), Frame("stepped", t))
    <3>1. "stepPast" \in Plain /\ "stepped" \in Plain \cap Callers
      BY DEF Plain, Points, StopPoints, Callers
    <3> QED
      BY <1>1, <1>2, <1>3, <1>4, <2>2, <3>1, CallsOnTop
  <2> QED
    BY <1>1, <2>1, <2>2
<1>6. Bytes'
  <2>1. CASE cur # NoTid /\ Lift(cur)
    BY <1>1, <1>2, <2>1, LiftIs
  <2>2. CASE UNCHANGED <<armed, rearms>>
    BY <1>1, <1>2, <2>2, LiftIs
  <2> QED
    BY <1>1, <2>1, <2>2
<1>7. Current'
  BY <1>1, <1>3, CurrentStays DEF userVars
<1> QED
  BY <1>1, <1>3, <1>5, <1>6, <1>7 DEF IInv, Flags, Marks, kernelVars, userVars, historyVars

LEMMA SteppedPastStep ==
  ASSUME IInv, SteppedPast
  PROVE  IInv'
<1> DEFINE t == Top.tid
<1>1. /\ Top.at = "stepped"
      /\ UNCHANGED <<th, cur, curSig, rearms, ret>>
      /\ UNCHANGED <<kernelVars, bpVars, userVars, historyVars>>
      /\ \/ AbandonAllStop(t)
         \/ Become(ResumeFrom(t, ret = "parked")) /\ UNCHANGED allStopped
  BY DEF SteppedPast, At
<1>2. t \in Tid
  BY TopIs
<1>3. Threads' /\ MetStays
  BY <1>1, ThreadsSame DEF kernelVars
<1>4. Met(t, k', th')
  BY <1>3, TopIs DEF MetStays
<1> HIDE DEF t
<1>5. Frames' /\ Handled' /\ allStopped' \in BOOLEAN
  <2>1. CASE AbandonAllStop(t)
    BY <1>1, <1>2, <1>3, <1>4, <2>1, AbandonStep
  <2>2. CASE Become(ResumeFrom(t, ret = "parked")) /\ UNCHANGED allStopped
    <3>1. (ret = "parked") \in BOOLEAN
      OBVIOUS
    <3>2. Frames' /\ Handled'
      BY <1>1, <1>2, <1>3, <1>4, <2>2, <3>1, GoesOnToContinue
    <3> QED
      BY <2>2, <3>2 DEF IInv, Flags
  <2> QED
    BY <1>1, <2>1, <2>2
<1>6. Current'
  BY <1>1, <1>3, CurrentStays DEF userVars
<1> QED
  BY <1>1, <1>3, <1>5, <1>6
     DEF IInv, Bytes, Flags, Marks, kernelVars, bpVars, userVars, historyVars

LEMMA StepNowStep ==
  ASSUME IInv, StepNow
  PROVE  IInv'
<1> DEFINE t == Top.tid
           ths == [th EXCEPT ![t].stepping = TRUE, ![t].pbp = NoAddr]
<1>1. /\ Top.at = "stepNow"
      /\ UNCHANGED <<procStop, signalsLeft, recs, cur, ret>>
      /\ UNCHANGED <<stepReq, pauseReq, pendSuspend, pendResume, kick>>
      /\ curSig' \in {curSig, FALSE}
      /\ hits' \subseteq hits
      /\ owed' \in {owed, [owed EXCEPT ![t] = @ - 1]}
      /\ RestoreSourceByte(t) \/ UNCHANGED <<armed, rearms>>
      /\ \/ k' = k /\ th' \in {th, [th EXCEPT ![t].pbp = NoAddr]}
         \/ InPtraceStop(t) /\ k' = Restart(t, "step") /\ th' = Running(ths, t)
      /\ \/ AbandonAllStop(t) /\ UNCHANGED paused
         \/ BeginPause(t)
         \/ Return /\ UNCHANGED <<allStopped, paused>>
  BY DEF StepNow, At, GiveBack
<1>2. t \in Tid /\ Met(t, k, th) /\ th \in Records
  BY TopIs DEF IInv, Threads, Records
<1>3. ths \in Records /\ Alike(ths, th)
  BY <1>2, SteppingIs
<1> HIDE DEF t, ths
<1>4. Threads' /\ MetStays
  <2>1. CASE k' = k /\ th' = th
    BY <1>1, <2>1, ThreadsSame
  <2>2. CASE k' = k /\ th' = [th EXCEPT ![t].pbp = NoAddr]
    BY <1>1, <1>2, <2>2, FieldsAre, ThreadsAlike
  <2>3. CASE InPtraceStop(t) /\ k' = Restart(t, "step") /\ th' = Running(ths, t)
    <3>1. /\ th' \in Records /\ Others(th', ths, t)
          /\ th'[t].known = ths[t].known /\ th'[t].pss = ths[t].pss
      BY <1>2, <1>3, <2>3, RunningIs
    <3>2. \A u \in Tid : /\ th'[u].known = th[u].known /\ th'[u].pss = th[u].pss
                         /\ th'[u].running => th[u].running \/ Met(u, k, th)
      BY <1>2, <1>3, <3>1 DEF Others, Alike
    <3> QED
      BY <1>1, <1>2, <2>3, <3>1, <3>2, RestartStep
  <2> QED
    BY <1>1, <2>1, <2>2, <2>3
<1>5. Met(t, k', th')
  BY <1>2, <1>4 DEF MetStays
<1>6. Frames' /\ Handled' /\ paused' \in BOOLEAN /\ allStopped' \in BOOLEAN
  <2>1. CASE AbandonAllStop(t) /\ UNCHANGED paused
    BY <1>1, <1>2, <1>4, <1>5, <2>1, AbandonStep DEF IInv, Flags
  <2>2. CASE BeginPause(t)
    BY <1>1, <1>2, <1>4, <1>5, <2>2, Pauses
  <2>3. CASE Return /\ UNCHANGED <<allStopped, paused>>
    BY <1>1, <1>4, <2>3, Returns DEF IInv, Flags
  <2> QED
    BY <1>1, <2>1, <2>2, <2>3
<1>7. Bytes'
  <2>1. CASE RestoreSourceByte(t)
    BY <1>1, <1>2, <2>1, RestoreIs
  <2>2. CASE UNCHANGED <<armed, rearms>>
    BY <1>1, <2>2 DEF IInv, Bytes
  <2> QED
    BY <1>1, <2>1, <2>2
<1>8. Current'
  BY <1>1, <1>4, CurrentStays
<1>9. owed' \in [Tid -> Int]
  BY <1>1 DEF IInv, Marks
<1>10. curSig' \in BOOLEAN
  BY <1>1 DEF IInv, Flags
<1> QED
  BY <1>1, <1>4, <1>6, <1>7, <1>8, <1>9, <1>10 DEF IInv, Flags, Marks

LEMMA ContinueAllStep ==
  ASSUME IInv, ContinueAll
  PROVE  IInv'
<1> DEFINE t == Top.tid
<1>1. /\ Top.at = "cont"
      /\ UNCHANGED <<th, cur, rearms, ret>>
      /\ UNCHANGED <<stepReq, pauseReq, pendSuspend, pendResume, kick>>
      /\ UNCHANGED <<kernelVars, bpVars, historyVars>>
      /\ curSig' \in {curSig, FALSE}
      /\ \/ BeginPause(t)
         \/ /\ ResumeAll(t, <<ContinueOrPark(t, curSig, Top.park)>> \o Tail(stack))
            /\ UNCHANGED paused
  BY DEF ContinueAll, At
<1>2. t \in Tid /\ curSig \in BOOLEAN /\ Top.park \in BOOLEAN
  BY TopIs DEF IInv, Flags, Activations
<1>3. Threads' /\ MetStays
  BY <1>1, ThreadsSame DEF kernelVars
<1>4. Met(t, k', th')
  BY <1>3, TopIs DEF MetStays
<1> HIDE DEF t
<1>5. Frames' /\ Handled' /\ paused' \in BOOLEAN /\ allStopped' \in BOOLEAN
  <2>1. CASE BeginPause(t)
    BY <1>1, <1>2, <1>3, <1>4, <2>1, Pauses
  <2>2. CASE /\ ResumeAll(t, <<ContinueOrPark(t, curSig, Top.park)>> \o Tail(stack))
             /\ UNCHANGED paused
    BY <1>1, <1>2, <1>3, <1>4, <2>2, ResumeAllStep DEF IInv, Flags
  <2> QED
    BY <1>1, <2>1, <2>2
<1>6. Current'
  BY <1>1, <1>3, CurrentStays
<1> QED
  BY <1>1, <1>2, <1>3, <1>5, <1>6
     DEF IInv, Bytes, Flags, Marks, kernelVars, bpVars, historyVars

-----------------------------------------------------------------------------
(* The invariant                                                           *)

\* After an attach the threads are stopped, and owe the SIGSTOP that is queued on them.
LEMMA InitThreads ==
  ASSUME Init
  PROVE  Threads /\ owed \in [Tid -> Int] /\ \A t \in Tid \ Births : th[t].known
<1>1. PICK own \in SUBSET (Tid \ Births) :
        /\ Cardinality(own) <= MaxSignals
        /\ k = [t \in Tid |-> IF t \in Births THEN Unborn ELSE Attached(t \in own)]
        /\ th = [t \in Tid |-> IF t \in Births THEN NoThread ELSE ThreadRecord(t \in own)]
        /\ owed = [t \in Tid |-> IF t \in own THEN 1 ELSE 0]
        /\ signalsLeft = MaxSignals - Cardinality(own)
  BY DEF Init
<1>2. MaxSignals \in Nat /\ MaxSuspend \in Nat
  BY BoundAssumption
<1>3. signalsLeft \in 0 .. MaxSignals
  <2>1. IsFiniteSet(own)
    BY LeaderAssumption, FS_Subset
  <2>2. Cardinality(own) \in Nat
    BY <2>1, FS_CardinalityType
  <2> QED
    BY <1>1, <1>2, <2>2
<1>4. \A b \in BOOLEAN : /\ Attached(b) \in KernelThread /\ Attached(b).run = "stopped"
                         /\ Attached(b).status = "none" /\ Attached(b).stopq = b
                         /\ Attached(b).sigq = 0
  BY <1>2 DEF Attached, KernelThread
<1>5. /\ Unborn \in KernelThread /\ Unborn.run = "unborn" /\ Unborn.status = "none"
      /\ Unborn.sigq = 0
  <2>1. \A r \in KernelThread :
          /\ [r EXCEPT !.run = "unborn"] \in KernelThread
          /\ [r EXCEPT !.run = "unborn"].run = "unborn"
          /\ [r EXCEPT !.run = "unborn"].status = r.status
          /\ [r EXCEPT !.run = "unborn"].sigq = r.sigq
    BY DEF KernelThread
  <2>2. Attached(FALSE) \in KernelThread
    BY <1>4
  <2> QED
    BY <1>4, <2>1, <2>2 DEF Unborn
<1>6. NoThread \in ThreadRecords /\ ~NoThread.running
  BY <1>2 DEF NoThread, ThreadRecords
<1>7. \A b \in BOOLEAN : /\ ThreadRecord(b) \in ThreadRecords /\ ThreadRecord(b).known
                         /\ ~ThreadRecord(b).running /\ ThreadRecord(b).pss = b
  <2>1. NewThread \in ThreadRecords /\ NewThread.known /\ ~NewThread.running
    BY <1>6 DEF NewThread, ThreadRecords, NoThread
  <2> QED
    BY <2>1 DEF ThreadRecord, ThreadRecords
<1>8. \A t \in Tid : /\ t \in Births => k[t] = Unborn /\ th[t] = NoThread
                     /\ t \notin Births => /\ k[t] = Attached(t \in own)
                                           /\ th[t] = ThreadRecord(t \in own)
  BY <1>1
<1>9. \A t \in Tid : (t \in own) \in BOOLEAN
  OBVIOUS
<1>10. k \in [Tid -> KernelThread] /\ th \in [Tid -> ThreadRecords]
  BY <1>1, <1>4, <1>5, <1>6, <1>7, <1>9
<1>11. \A t \in Tid : /\ k[t].status = "none" /\ k[t].sigq = 0 /\ ~th[t].running
                      /\ k[t].run \in {"unborn", "stopped"}
                      /\ k[t].run = "stopped" => th[t].known /\ th[t].pss = k[t].stopq
                      /\ t \notin Births => th[t].known
  BY <1>4, <1>5, <1>6, <1>7, <1>8, <1>9
<1>12. owed \in [Tid -> Int]
  BY <1>1
<1>13. SignalsBounded
  BY <1>2, <1>3, <1>11 DEF SignalsBounded
<1>14. StatusOf
  BY <1>11 DEF StatusOf
<1>15. Owed
  BY <1>11 DEF Owed, Living, StopComing
<1> QED
  BY <1>3, <1>10, <1>11, <1>12, <1>13, <1>14, <1>15 DEF Threads

LEMMA InitIInv == Init => IInv
<1> SUFFICES ASSUME Init
             PROVE  IInv
  OBVIOUS
<1>1. Threads /\ owed \in [Tid -> Int] /\ Met(Leader, k, th) /\ Leader \in Tid
  BY InitThreads, LeaderAssumption, LifeAssumption DEF Met
<1>2. /\ procStop = FALSE
      /\ recs = {} /\ armed = {} /\ rearms = [t \in Tid |-> NoAddr]
      /\ cur = Leader /\ curSig = FALSE /\ allStopped = TRUE
      /\ ret = "drained"
      /\ paused = TRUE /\ stepReq = FALSE /\ pauseReq = FALSE
      /\ pendSuspend = {} /\ pendResume = {} /\ kick = FALSE
      /\ hits = {}
  BY DEF Init
<1>3. Bytes /\ Flags /\ Marks /\ Current
  BY <1>1, <1>2 DEF Bytes, Flags, Marks, Current
<1> DEFINE f == Frame("wait", Leader)
           g == Frame("loop", Leader)
<1>4. stack = <<f, g>>
  BY DEF Init
<1>5. /\ f \in Activations /\ f.at = "wait" /\ g \in Activations /\ g.at = "loop"
  <2>1. "wait" \in Points /\ "loop" \in Points
    BY DEF Points
  <2> QED
    BY <1>1, <2>1, FrameIs
<1>6. MetBy(f, k, th) /\ MetBy(g, k, th)
  BY <1>1, MetByOwn
<1> HIDE DEF f, g
<1>7. /\ stack \in Seq(Activations) /\ Len(stack) = 2 /\ stack[1] = f /\ stack[2] = g
      /\ stack # <<>> /\ Top = f
  BY <1>4, <1>5 DEF Top
<1>8. Frames
  <2>1. \A i \in 1 .. 2 : i = 1 \/ i = 2
    OBVIOUS
  <2>2. Shape(stack)
    BY <1>5, <1>7, <2>1 DEF Shape, Callers
  <2> QED
    BY <1>6, <1>7, <2>1, <2>2 DEF Frames
<1>9. Handled
  BY <1>5, <1>7 DEF Handled, StopPoints
<1> QED
  BY <1>1, <1>3, <1>8, <1>9 DEF IInv, Marks

LEMMA StutterStep ==
  ASSUME IInv, UNCHANGED vars
  PROVE  IInv'
<1>1. UNCHANGED <<kernelVars, bpVars, tracerVars, userVars, historyVars>>
  BY DEF vars
<1>2. Threads' /\ MetStays /\ Frames' /\ Handled'
  BY <1>1, Untouched DEF kernelVars, tracerVars
<1>3. Current'
  BY <1>1, <1>2, CurrentStays DEF tracerVars, userVars
<1> QED
  BY <1>1, <1>2, <1>3 DEF IInv, Bytes, Flags, Marks,
     kernelVars, bpVars, tracerVars, userVars, historyVars

LEMMA NextIInv == IInv /\ [Next]_vars => IInv'
<1> SUFFICES ASSUME IInv, [Next]_vars
             PROVE  IInv'
  OBVIOUS
<1>1. ASSUME NEW t \in Tid, Kernel(t)
      PROVE  IInv'
  BY <1>1, ExecuteStep, TakeSigstopStep, TakeSignalStep, CloneStep, ExitStep, DieStep
     DEF Kernel
<1>2. ASSUME NEW t \in Tid, SendSignal(t)
      PROVE  IInv'
  BY <1>2, SendSignalStep
<1>3. CASE User
  <2>1. ASSUME NEW t \in Tid, SwitchThread(t) \/ Suspend(t) \/ Resume(t)
        PROVE  IInv'
    BY <2>1, SwitchThreadStep, SuspendStep, ResumeStep
  <2>2. ASSUME NEW a \in Addr, SetBreakpoint(a) \/ DeleteBreakpoint(a)
        PROVE  IInv'
    BY <2>2, SetBreakpointStep, DeleteBreakpointStep
  <2> QED
    BY <1>3, <2>1, <2>2, ContinueStep, StepIntoStep, PauseStep, InterruptRunningThreadStep
       DEF User
<1>4. CASE Loop
  <2>1. ASSUME NEW t \in Tid, WaitAny(t) \/ Reap(t)
        PROVE  IInv'
    BY <2>1, WaitAnyStep, ReapStep
  <2> QED
    BY <1>4, <2>1, StopForSuspendStep, StopForResumesStep, StopForPauseStep,
       HandleSigtrapStep, ReportSignalStep, HandleCloneStep, HandleExitStep DEF Loop
<1>5. CASE Sweep
  <2>1. ASSUME NEW t \in Tid, SweepAsk(t)
        PROVE  IInv'
    BY <2>1, SweepAskStep
  <2> QED
    BY <1>5, <2>1, SweepTakeStep, SweepCloneStep, SweepExitStep, SweepReapStep,
       SweepGoneStep, SweepTimeoutStep, SweepDoneStep DEF Sweep
<1>6. CASE StepOver
  BY <1>6, SwallowStep, SwallowTakeStep, SwallowLostStep, StepPastStep,
     StepOffTheByteStep, StepTakenStep, StepConsumedStep DEF StepOver
<1>7. CASE ResumeThreads
  BY <1>7, StepOffStep, AfterStepOffStep, ContinueRestStep, ContinueParkedStep,
     ProceedStep, TakePendingResumesStep, DrainPendingResumesStep,
     ResumeStoppedThreadStep, ResumeSteppedOffStep, ResumeNowStep DEF ResumeThreads
<1>8. CASE PauseAndResume
  <2>1. ASSUME NEW t \in Tid, ReportPendingHit(t) \/ ReportPendingSignal(t)
        PROVE  IInv'
    BY <2>1, ReportPendingHitStep, ReportPendingSignalStep
  <2> QED
    BY <1>8, <2>1, WakeStep, NothingPendingStep, DecideStepStep, DecideContinueStep,
       SteppedPastStep, StepNowStep, ContinueAllStep DEF PauseAndResume
<1>9. CASE UNCHANGED vars
  BY <1>9, StutterStep
<1> QED
  BY <1>1, <1>2, <1>3, <1>4, <1>5, <1>6, <1>7, <1>8, <1>9 DEF Next, Tracer

\* What the tracer keeps of its threads, its breakpoints and its activations stays
\* consistent: it refers to threads it knows or that have died, waits only for a thread
\* that will stop, and handles a thread that is in ptrace-stop.
THEOREM IInvInvariant == Spec => []IInv
<1>1. Init => IInv
  BY InitIInv
<1>2. IInv /\ [Next]_vars => IInv'
  BY NextIInv
<1> QED
  BY <1>1, <1>2, PTL DEF Spec

LEMMA IInvTypes == IInv => TypeOK
<1> SUFFICES ASSUME IInv
             PROVE  TypeOK
  OBVIOUS
<1>1. k \in [Tid -> KernelThread] /\ th \in [Tid -> ThreadRecords]
      /\ signalsLeft \in 0 .. MaxSignals
  BY DEF IInv, Threads
<1>2. \A t \in Tid : k[t].status # "none" => ~Runs(t)
  BY DEF IInv, Threads, StatusOf, Runs
<1>3. /\ stack \in Seq(Activations) /\ stack # <<>>
      /\ \A i \in DOMAIN stack : stack[i].at = "loop" <=> i = Len(stack)
  <2>1. stack \in Seq(Activations)
    BY DEF IInv, Frames, Shape
  <2>2. DOMAIN stack = 1 .. Len(stack)
    BY <2>1
  <2> QED
    BY <2>1, <2>2 DEF IInv, Frames, Shape
<1>4. cur \in Tid \cup {NoTid} /\ pendResume \subseteq Tid
  BY DEF IInv, Current
<1>5. /\ armed \subseteq recs /\ recs \subseteq Addr
      /\ rearms \in [Tid -> Addr \cup {NoAddr}]
  BY DEF IInv, Bytes
<1>6. /\ procStop \in BOOLEAN /\ curSig \in BOOLEAN /\ allStopped \in BOOLEAN
      /\ paused \in BOOLEAN /\ stepReq \in BOOLEAN /\ pauseReq \in BOOLEAN
      /\ kick \in BOOLEAN
  BY DEF IInv, Flags
<1>7. /\ ret \in {"drained", "lost", "stepped", "parked", "consumed"}
      /\ pendSuspend \subseteq Tid /\ hits \subseteq Tid /\ owed \in [Tid -> Int]
  BY DEF IInv, Marks
<1> QED
  BY <1>1, <1>2, <1>3, <1>4, <1>5, <1>6, <1>7 DEF TypeOK

\* The types of Process, Thread and the tracer's own state (Debugger.h): a stop that is
\* not taken is one of a thread that does not run, a lifted byte is a breakpoint's, and
\* debugLoop is the one activation at the bottom of the stack.
THEOREM TypeOKInvariant == Spec => []TypeOK
BY IInvInvariant, IInvTypes, PTL

\* A thread that is booked as owing a SIGSTOP (SetPendingSigstop) has one coming, whatever
\* the user asks, whoever is created or exits and whichever wait times out: a drain of
\* what it owes (swallowPendingSigstop) never lets a thread go that nothing stops.
THEOREM SigstopOwedHolds == Spec => []SigstopOwed
<1>1. IInv => SigstopOwed
  BY DEF IInv, Threads, Owed, StopComing, SigstopOwed
<1> QED
  BY <1>1, IInvInvariant, PTL

=============================================================================
