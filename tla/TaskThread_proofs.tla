-------------------------- MODULE TaskThread_proofs --------------------------
(* What a task thread does with its posts, for any number of producers and   *)
(* posts: nothing is lost, doubled or moved, a wakeup is never forgotten, and *)
(* every step of the thread is a step of the mailbox it implements.          *)
EXTENDS TaskThread, SequenceTheorems, TLAPS

USE MaxPostsAssumption

\* The strings of a task are numbered in the order of their posts.
Numbered(s) == \A n \in 1..Len(s) : s[n] = n

\* WakeUp is only called on a task that nobody has begun to destroy.
OpenUntilStopped == active <=> dtor = "none"

\* A task that collects strings: calls, latch and arguments are the posts.
Collected ==
  concat => /\ Numbered(calls)
            /\ worker = "fn" => Numbered(calls \o argLatch)
            /\ active => /\ Numbered(calls \o Latched \o args)
                         /\ Len(calls \o Latched \o args) = posts

\* A plain task: the arguments are never older than the latch, and the latch is
\* never older than what the task has been called with.
NewestLast ==
  ~concat => /\ Highest(calls) <= Highest(argLatch)
             /\ Highest(argLatch) <= Highest(args)

\* Arguments that nobody has latched, and a destructor that waits, have a wakeup
\* under way.
WakeupUnderWay ==
  /\ Highest(args) > Highest(argLatch) =>
       semaphore = 1 \/ worker = "latch" \/ \E p \in Producer : pc[p] = "release"
  /\ ~active /\ worker = "wait" => semaphore = 1 \/ dtor = "release"

IInv == TypeOK /\ OpenUntilStopped /\ Collected /\ NewestLast

-----------------------------------------------------------------------------
\* A beginning of a numbered sequence is numbered.
LEMMA NumberedPrefix ==
  ASSUME NEW S, NEW s \in Seq(S), NEW t \in Seq(S), Numbered(s \o t)
  PROVE  Numbered(s)
<1>1. \A n \in 1..Len(s) : n \in 1..Len(s \o t) /\ (s \o t)[n] = s[n]
  BY ConcatProperties, LenProperties
<1> QED
  BY <1>1 DEF Numbered

\* The last post of two sequences is that of the second, if it has one, otherwise
\* that of the first.
LEMMA HighestConcat ==
  ASSUME NEW k \in Nat, NEW s \in Seq(1..k), NEW t \in Seq(1..k)
  PROVE  /\ Highest(s) \in 0..k
         /\ Highest(s \o t) \in {Highest(s), Highest(t)}
<1>1. Len(s) \in Nat /\ Len(t) \in Nat
  BY LenProperties
<1>2. s # <<>> => Len(s) \in 1..Len(s) /\ s[Len(s)] \in 1..k
  BY <1>1, EmptySeq, ElementOfSeq
<1>3. t # <<>> => /\ s \o t # <<>>
                  /\ Len(s \o t) = Len(s) + Len(t)
                  /\ (s \o t)[Len(s \o t)] = t[Len(t)]
  <2> SUFFICES ASSUME t # <<>> PROVE s \o t # <<>> /\ Len(s \o t) = Len(s) + Len(t)
                                     /\ (s \o t)[Len(s \o t)] = t[Len(t)]
    OBVIOUS
  <2>1. Len(t) > 0
    BY <1>1, EmptySeq
  <2>2. Len(s \o t) = Len(s) + Len(t) /\ s \o t # <<>>
    BY ConcatProperties, ConcatEqualIffEmpty
  <2> QED
    BY <1>1, <2>1, <2>2, ConcatProperties
<1>4. t = <<>> => s \o t = s
  BY ConcatEmptySeq
<1>5. Highest(s) \in 0..k
  BY <1>2 DEF Highest
<1>6. t = <<>> => Highest(s \o t) = Highest(s)
  BY <1>4 DEF Highest
<1>7. t # <<>> => Highest(s \o t) = Highest(t)
  BY <1>3 DEF Highest
<1> QED
  BY <1>5, <1>6, <1>7

\* The last post of a numbered sequence is its length.
LEMMA NumberedHighest ==
  ASSUME NEW S, NEW s \in Seq(S), Numbered(s)
  PROVE  Highest(s) = Len(s)
<1>1. CASE s = <<>>
  BY <1>1, EmptySeq DEF Highest
<1>2. CASE s # <<>>
  <2>1. Len(s) \in 1..Len(s)
    BY <1>2, EmptySeq
  <2> QED
    BY <1>2, <2>1 DEF Highest, Numbered
<1> QED
  BY <1>1, <1>2

-----------------------------------------------------------------------------
\* Init, the invariant: nothing is posted yet.
LEMMA InitIInv ==
  ASSUME Init
  PROVE  IInv /\ WakeupUnderWay
<1>1. <<>> \in Seq(1..0) /\ Len(<<>>) = 0
  BY EmptySeq
<1>2. TypeOK
  BY <1>1 DEF Init, TypeOK, Posts
<1>3. <<>> \o <<>> \o <<>> = <<>>
  BY <1>1, ConcatEmptySeq
<1>4. OpenUntilStopped /\ Collected /\ NewestLast /\ WakeupUnderWay
  BY <1>1, <1>3 DEF Init, OpenUntilStopped, Collected, NewestLast, WakeupUnderWay,
                    Numbered, Latched, Highest
<1> QED
  BY <1>2, <1>4 DEF IInv

\* The types are kept by every step.
LEMMA TypeOKStep ==
  ASSUME TypeOK, [Next]_vars
  PROVE  TypeOK'
<1>1. posts \in Nat
  BY DEF TypeOK
<1>2. CASE UNCHANGED vars
  BY <1>2 DEF vars, TypeOK, Posts
<1>3. ASSUME NEW p \in Producer, WakeUp(p)
      PROVE  TypeOK'
  <2>1. posts' \in 1..MaxPosts /\ posts' = posts + 1
    BY <1>1, <1>3 DEF WakeUp, TypeOK
  <2>2. \A s \in Seq(1..posts) : s \in Seq(1..posts')
    BY <1>1, <2>1, SeqMonotonic, 1..posts \subseteq 1..posts'
  <2>3. args' \in Seq(1..posts')
    <3>1. Append(args, posts') \in Seq(1..posts')
      BY <1>1, <2>1, <2>2, AppendProperties DEF TypeOK, Posts
    <3>2. <<posts'>> \in Seq(1..posts')
      BY <1>1, <2>1
    <3> QED
      BY <1>3, <3>1, <3>2 DEF WakeUp, CompressArguments
  <2> QED
    BY <1>3, <2>1, <2>2, <2>3 DEF WakeUp, TypeOK, Posts
<1>4. ASSUME NEW p \in Producer, Wake(p)
      PROVE  TypeOK'
  BY <1>4 DEF Wake, ReleaseSemaphore, TypeOK, Posts
<1>5. CASE LoopTest
  BY <1>5 DEF LoopTest, TypeOK, Posts
<1>6. CASE WaitForWakeup
  BY <1>6 DEF WaitForWakeup, TypeOK, Posts
<1>7. CASE Latch
  BY <1>1, <1>7, EmptySeq DEF Latch, ResetArgs, TypeOK, Posts
<1>8. CASE ActiveTest
  BY <1>8 DEF ActiveTest, TypeOK, Posts
<1>9. CASE Call
  BY <1>1, <1>9, ConcatProperties DEF Call, TypeOK, Posts
<1>10. CASE Stop
  BY <1>10 DEF Stop, TypeOK, Posts
<1>11. CASE StopWake
  BY <1>11 DEF StopWake, ReleaseSemaphore, TypeOK, Posts
<1>12. CASE Join
  BY <1>12 DEF Join, TypeOK, Posts
<1> QED
  BY <1>2, <1>3, <1>4, <1>5, <1>6, <1>7, <1>8, <1>9, <1>10, <1>11, <1>12
     DEF Next, Loop, Destructor

\* A string that is posted is the next number in line.
LEMMA CollectedWakeUp ==
  ASSUME IInv, NEW p \in Producer, WakeUp(p)
  PROVE  Collected'
<1> SUFFICES ASSUME concat
             PROVE  Collected'
  BY DEF Collected, WakeUp
<1> DEFINE S == 1..posts'
           c == calls \o Latched
<1>1. posts \in Nat /\ posts' = posts + 1 /\ active
  BY DEF IInv, TypeOK, OpenUntilStopped, WakeUp
<1>2. /\ \A s \in Seq(1..posts) : s \in Seq(S)
      /\ <<>> \in Seq(S)
  BY <1>1, SeqMonotonic, EmptySeq, 1..posts \subseteq S
<1>3. args \in Seq(S) /\ calls \in Seq(S) /\ Latched \in Seq(S)
  BY <1>2 DEF IInv, TypeOK, Posts, Latched
<1>4. c \in Seq(S)
  BY <1>3, ConcatProperties
<1>5. c \o Append(args, posts') = Append(c \o args, posts')
  <2>1. posts' \in S /\ <<posts'>> \in Seq(S) /\ c \o args \in Seq(S)
    BY <1>1, <1>3, <1>4, ConcatProperties
  <2> HIDE DEF c, S
  <2>2. Append(args, posts') = args \o <<posts'>>
    BY <1>3, <2>1, AppendIsConcat
  <2>3. c \o (args \o <<posts'>>) = (c \o args) \o <<posts'>>
    BY <1>3, <1>4, <2>1, ConcatAssociative
  <2> QED
    BY <2>1, <2>2, <2>3, AppendIsConcat
<1>6. Numbered(c \o args) /\ Len(c \o args) = posts
  BY <1>1 DEF IInv, Collected
<1>7. c \o args \in Seq(S) /\ posts' \in S
  BY <1>1, <1>3, <1>4, ConcatProperties
<1>8. Numbered(Append(c \o args, posts')) /\ Len(Append(c \o args, posts')) = posts'
  <2> HIDE DEF c, S
  <2> QED
    BY <1>1, <1>6, <1>7, AppendProperties DEF Numbered
<1>9. Latched' = Latched /\ calls' = calls /\ args' = Append(args, posts')
      /\ worker' = worker /\ argLatch' = argLatch
  BY DEF WakeUp, CompressArguments, Latched
<1> QED
  BY <1>5, <1>8, <1>9 DEF Collected, IInv

\* A latched argument moves from the collected strings to the latched ones, a
\* called one from the latched strings to the called ones.
LEMMA CollectedLoop ==
  ASSUME IInv, Loop
  PROVE  Collected'
<1> SUFFICES ASSUME concat
             PROVE  Collected'
  BY DEF Collected, Loop, LoopTest, WaitForWakeup, Latch, ActiveTest, Call
<1> DEFINE S == 1..posts
<1>1. args \in Seq(S) /\ calls \in Seq(S) /\ argLatch \in Seq(S) /\ <<>> \in Seq(S)
  BY EmptySeq DEF IInv, TypeOK, Posts
<1>2. /\ Numbered(calls)
      /\ worker = "fn" => Numbered(calls \o argLatch)
      /\ active => /\ Numbered(calls \o Latched \o args)
                   /\ Len(calls \o Latched \o args) = posts
  BY DEF IInv, Collected
<1>3. calls \o <<>> = calls /\ calls \o argLatch \in Seq(S) /\ calls \o args \in Seq(S)
  BY <1>1, ConcatEmptySeq, ConcatProperties
<1> HIDE DEF S
<1>4. CASE LoopTest \/ WaitForWakeup
  <2>1. Latched = <<>> /\ Latched' = <<>>
    BY <1>4 DEF LoopTest, WaitForWakeup, Latched
  <2> QED
    BY <1>2, <1>4, <2>1 DEF LoopTest, WaitForWakeup, Collected
<1>5. CASE Latch
  <2>1. Latched = <<>> /\ Latched' = args /\ args' = <<>> /\ calls' = calls
    BY <1>5 DEF Latch, Latched, ResetArgs
  <2>2. (calls \o args) \o <<>> = calls \o args
    BY <1>3, ConcatEmptySeq
  <2> QED
    BY <1>2, <1>3, <1>5, <2>1, <2>2 DEF Latch, Collected
<1>6. CASE ActiveTest
  <2>1. CASE active
    <3>1. Latched = argLatch /\ Latched' = argLatch
      BY <1>6, <2>1 DEF ActiveTest, Latched
    <3>2. Numbered(calls \o argLatch)
      BY <1>1, <1>2, <1>3, <2>1, <3>1, NumberedPrefix
    <3> QED
      BY <1>2, <1>6, <3>1, <3>2 DEF ActiveTest, Collected
  <2>2. CASE ~active
    BY <1>2, <1>6, <2>2 DEF ActiveTest, Collected
  <2> QED
    BY <2>1, <2>2
<1>7. CASE Call
  <2>1. Latched = argLatch /\ Latched' = <<>> /\ calls' = calls \o argLatch
    BY <1>7 DEF Call, Latched
  <2>2. (calls \o argLatch) \o <<>> = calls \o argLatch
    BY <1>3, ConcatEmptySeq
  <2> QED
    BY <1>2, <1>7, <2>1, <2>2 DEF Call, Collected
<1> QED
  BY <1>4, <1>5, <1>6, <1>7 DEF Loop

\* Every step keeps the strings in order.
LEMMA CollectedStep ==
  ASSUME IInv, [Next]_vars
  PROVE  Collected'
<1>1. ASSUME NEW p \in Producer, WakeUp(p)
      PROVE  Collected'
  BY <1>1, CollectedWakeUp
<1>2. CASE Loop
  BY <1>2, CollectedLoop
<1>3. ASSUME UNCHANGED <<concat, args, worker, argLatch, posts, calls>>, active' => active
      PROVE  Collected'
  BY <1>3 DEF IInv, Collected, Latched
<1>4. ASSUME NEW p \in Producer, Wake(p)
      PROVE  Collected'
  BY <1>3, <1>4 DEF Wake
<1>5. CASE Destructor \/ UNCHANGED vars
  BY <1>3, <1>5 DEF Destructor, Stop, StopWake, Join, vars
<1> QED
  BY <1>1, <1>2, <1>4, <1>5 DEF Next

\* What a plain task is called with is never older than what it was called with.
LEMMA NewestLastStep ==
  ASSUME IInv, [Next]_vars
  PROVE  NewestLast'
<1> SUFFICES ASSUME ~concat
             PROVE  NewestLast'
  <2>1. concat' = concat
    BY DEF Next, WakeUp, Wake, Loop, LoopTest, WaitForWakeup, Latch, ActiveTest, Call,
           Destructor, Stop, StopWake, Join, vars
  <2> QED
    BY <2>1 DEF NewestLast
<1>1. /\ posts \in Nat /\ args \in Seq(1..posts)
      /\ argLatch \in Seq(1..posts) /\ calls \in Seq(1..posts)
      /\ Highest(calls) <= Highest(argLatch) /\ Highest(argLatch) <= Highest(args)
  BY DEF IInv, TypeOK, Posts, NewestLast
<1>2. Highest(calls) \in 0..posts /\ Highest(argLatch) \in 0..posts /\ Highest(args) \in 0..posts
  BY <1>1, HighestConcat
<1>3. ASSUME NEW p \in Producer, WakeUp(p)
      PROVE  NewestLast'
  <2>1. args' = <<posts + 1>> /\ calls' = calls /\ argLatch' = argLatch
    BY <1>3 DEF WakeUp, CompressArguments
  <2>2. Highest(args') = posts + 1
    BY <2>1 DEF Highest
  <2> QED
    BY <1>1, <1>2, <2>1, <2>2 DEF NewestLast
<1>4. CASE Latch
  <2>1. args' = args /\ argLatch' = args /\ calls' = calls
    BY <1>4 DEF Latch, ResetArgs
  <2> QED
    BY <1>1, <1>2, <2>1 DEF NewestLast
<1>5. CASE Call
  <2>1. calls' = calls \o argLatch /\ args' = args /\ argLatch' = argLatch
    BY <1>5 DEF Call
  <2>2. Highest(calls \o argLatch) \in {Highest(calls), Highest(argLatch)}
    BY <1>1, HighestConcat
  <2>3. Highest(calls)' = Highest(calls \o argLatch)
    BY <2>1 DEF Highest
  <2>4. Highest(calls)' <= Highest(argLatch)
    BY <1>1, <1>2, <2>2, <2>3
  <2> QED
    BY <1>1, <2>1, <2>4 DEF NewestLast
<1>6. ASSUME UNCHANGED <<args, argLatch, calls>>
      PROVE  NewestLast'
  BY <1>1, <1>6 DEF NewestLast
<1> QED
  BY <1>3, <1>4, <1>5, <1>6
     DEF Next, Wake, Loop, LoopTest, WaitForWakeup, ActiveTest, Destructor, Stop, StopWake, Join, vars

\* The invariant is inductive.
LEMMA IInvStep ==
  ASSUME IInv, [Next]_vars
  PROVE  IInv'
<1>1. TypeOK'
  BY TypeOKStep DEF IInv
<1>2. OpenUntilStopped'
  BY DEF IInv, OpenUntilStopped, Next, WakeUp, Wake, Loop, LoopTest, WaitForWakeup, Latch,
         ActiveTest, Call, Destructor, Stop, StopWake, Join, vars
<1> QED
  BY <1>1, <1>2, CollectedStep, NewestLastStep DEF IInv

\* A wakeup stays under way until the worker latches the arguments it is for,
\* whatever other releases the semaphore swallows meanwhile.
LEMMA WakeupStep ==
  ASSUME IInv, WakeupUnderWay, [Next]_vars
  PROVE  WakeupUnderWay'
<1>1. /\ posts \in Nat /\ args \in Seq(1..posts) /\ argLatch \in Seq(1..posts)
      /\ Highest(argLatch) \in 0..posts /\ Highest(args) \in 0..posts
  BY HighestConcat DEF IInv, TypeOK, Posts
<1>2. ASSUME NEW p \in Producer, WakeUp(p)
      PROVE  WakeupUnderWay'
  BY <1>2 DEF WakeUp, WakeupUnderWay, IInv, TypeOK
<1>3. ASSUME NEW p \in Producer, Wake(p)
      PROVE  WakeupUnderWay'
  BY <1>3 DEF Wake, ReleaseSemaphore, WakeupUnderWay
<1>4. CASE LoopTest
  BY <1>4 DEF LoopTest, WakeupUnderWay
<1>5. CASE WaitForWakeup
  BY <1>5 DEF WaitForWakeup, WakeupUnderWay
<1>6. CASE Latch
  <2>1. argLatch' = args /\ (args' = args \/ args' = <<>>)
    BY <1>6 DEF Latch, ResetArgs
  <2>2. ~(Highest(args') > Highest(argLatch'))
    BY <1>1, <2>1 DEF Highest
  <2> QED
    BY <1>6, <2>2 DEF Latch, WakeupUnderWay
<1>7. CASE ActiveTest \/ Call
  BY <1>7 DEF ActiveTest, Call, WakeupUnderWay
<1>8. CASE Stop
  BY <1>8 DEF Stop, WakeupUnderWay
<1>9. CASE StopWake
  BY <1>9 DEF StopWake, ReleaseSemaphore, WakeupUnderWay
<1>10. CASE Join \/ UNCHANGED vars
  BY <1>10 DEF Join, vars, WakeupUnderWay, IInv, OpenUntilStopped
<1> QED
  BY <1>2, <1>3, <1>4, <1>5, <1>6, <1>7, <1>8, <1>9, <1>10 DEF Next, Loop, Destructor

-----------------------------------------------------------------------------
\* The invariant holds in every run of the task thread (taskthread.h).
THEOREM IInvInvariant == Spec => []IInv
<1>1. Init => IInv
  BY InitIInv
<1>2. IInv /\ [Next]_vars => IInv'
  BY IInvStep
<1> QED
  BY <1>1, <1>2, PTL DEF Spec

\* Arguments, latch and history keep their types.
THEOREM TypeOKInvariant == Spec => []TypeOK
<1>1. IInv => TypeOK
  BY DEF IInv
<1> QED
  BY <1>1, IInvInvariant, PTL

\* A numbered sequence is the sequence of the numbers up to its length.
LEMMA NumberedIs ==
  ASSUME NEW S, NEW s \in Seq(S), Numbered(s)
  PROVE  s = [n \in 1..Len(s) |-> n]
<1>1. s \in [1..Len(s) -> S]
  BY LenProperties
<1> QED
  BY <1>1 DEF Numbered

\* No string is lost, doubled or moved on its way from WakeUp to fn, for any
\* number of producers and posts (StringConcatTaskThread_, the log of the GUI).
THEOREM StringsInOrderHolds == Spec => []StringsInOrder
<1>1. IInv => StringsInOrder
  <2> SUFFICES ASSUME IInv, concat
               PROVE  /\ calls = [n \in 1..Len(calls) |-> n]
                      /\ active => calls \o Latched \o args = [n \in 1..posts |-> n]
    BY DEF StringsInOrder
  <2>1. args \in Seq(1..posts) /\ calls \in Seq(1..posts) /\ Latched \in Seq(1..posts)
    BY EmptySeq DEF IInv, TypeOK, Posts, Latched
  <2>2. calls \o Latched \o args \in Seq(1..posts)
    BY <2>1, ConcatProperties
  <2>3. calls = [n \in 1..Len(calls) |-> n]
    BY <2>1, NumberedIs DEF IInv, Collected
  <2>4. active => calls \o Latched \o args = [n \in 1..posts |-> n]
    BY <2>2, NumberedIs DEF IInv, Collected
  <2> QED
    BY <2>3, <2>4
<1> QED
  BY <1>1, IInvInvariant, PTL

\* No wakeup is lost although the semaphore counts to one only: while a post is
\* not latched, or a destructor waits for a sleeping worker, a release is there
\* or still to come.
THEOREM NoLostWakeup == Spec => []WakeupUnderWay
<1>1. Init => WakeupUnderWay
  BY InitIInv
<1>2. IInv /\ WakeupUnderWay /\ [Next]_vars => WakeupUnderWay'
  BY WakeupStep
<1> QED
  BY <1>1, <1>2, IInvInvariant, PTL DEF Spec

-----------------------------------------------------------------------------
\* A call of fn shows the task something newer than it has seen, or nothing.
LEMMA CallSees ==
  ASSUME IInv, Call
  PROVE  Highest(calls)' = Highest(calls) \/ MailboxOf!See
<1> DEFINE c == calls \o argLatch
<1>1. posts \in Nat /\ calls \in Seq(1..posts) /\ argLatch \in Seq(1..posts)
  BY DEF IInv, TypeOK, Posts
<1>2. posts' = posts /\ active' = active /\ worker = "fn" /\ calls' = c
  BY DEF Call
<1>3. Highest(calls)' = Highest(c)
  BY <1>2 DEF Highest
<1>4. /\ Highest(c) \in {Highest(calls), Highest(argLatch)}
      /\ Highest(calls) \in 0..posts /\ Highest(argLatch) \in 0..posts
  BY <1>1, HighestConcat
<1>5. Highest(c) \in 0..posts
  BY <1>4
<1>6. Highest(calls) <= Highest(c)
  <2>1. CASE ~concat
    <3>1. Highest(calls) <= Highest(argLatch)
      BY <2>1 DEF IInv, NewestLast
    <3> QED
      BY <1>1, <1>4, <3>1
  <2>2. CASE concat
    <3>1. Numbered(calls) /\ Numbered(c)
      BY <1>2, <2>2 DEF IInv, Collected
    <3>2. /\ Len(calls) \in Nat /\ Len(argLatch) \in Nat /\ c \in Seq(1..posts)
          /\ Len(c) = Len(calls) + Len(argLatch)
      BY <1>1, LenProperties, ConcatProperties
    <3>3. Highest(calls) = Len(calls) /\ Highest(c) = Len(c)
      BY <1>1, <3>1, <3>2, NumberedHighest
    <3> QED
      BY <3>2, <3>3
  <2> QED
    BY <2>1, <2>2
<1>7. Highest(c) = Highest(calls) \/ Highest(c) \in (Highest(calls) + 1)..posts
  BY <1>1, <1>4, <1>5, <1>6
<1> QED
  BY <1>2, <1>3, <1>7 DEF MailboxOf!See

\* Every step of a task thread is a step of the mailbox, or one that the mailbox
\* does not see: WakeUp posts, the call of fn sees, ~TaskThread_ closes.
LEMMA StepIsMailStep ==
  ASSUME IInv, [Next]_vars
  PROVE  [MailboxOf!Next]_(MailboxOf!mailVars)
<1>1. ASSUME NEW p \in Producer, WakeUp(p)
      PROVE  MailboxOf!Post
  BY <1>1 DEF WakeUp, MailboxOf!Post, Highest, IInv, OpenUntilStopped
<1>2. CASE Call
  <2>1. CASE Highest(calls)' = Highest(calls)
    BY <1>2, <2>1 DEF Call, MailboxOf!mailVars
  <2>2. CASE MailboxOf!See
    BY <2>2 DEF MailboxOf!Next
  <2> QED
    BY <1>2, <2>1, <2>2, CallSees
<1>3. CASE Stop
  <2>1. MailboxOf!Close
    BY <1>3 DEF Stop, MailboxOf!Close, Highest, IInv, OpenUntilStopped
  <2> QED
    BY <2>1 DEF MailboxOf!Next
<1>4. ASSUME UNCHANGED <<posts, calls, active>>
      PROVE  UNCHANGED MailboxOf!mailVars
  BY <1>4 DEF MailboxOf!mailVars, Highest
<1> QED
  BY <1>1, <1>2, <1>3, <1>4
     DEF Next, Wake, Loop, LoopTest, WaitForWakeup, Latch, ActiveTest, Destructor,
         StopWake, Join, vars, MailboxOf!Next

\* The safety part of the refinement: a task thread is a mailbox, so that fn
\* never gets older arguments after newer ones and none nobody posted.
THEOREM MailboxImplemented ==
  Spec => MailboxOf!Init /\ [][MailboxOf!Next]_(MailboxOf!mailVars)
<1>1. Init => MailboxOf!Init
  BY DEF Init, MailboxOf!Init, Highest
<1>2. IInv /\ [Next]_vars => [MailboxOf!Next]_(MailboxOf!mailVars)
  BY StepIsMailStep
<1> QED
  BY <1>1, <1>2, IInvInvariant, PTL DEF Spec

=============================================================================
