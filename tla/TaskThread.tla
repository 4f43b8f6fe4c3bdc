---------------------------- MODULE TaskThread ----------------------------
(* The task threads of the debugger (taskthread.h): WakeUp leaves arguments  *)
(* for a function under a critical section and releases a semaphore that     *)
(* counts to one, the worker waits for the semaphore, latches the arguments  *)
(* and calls the function. A plain task keeps the last arguments only and    *)
(* does not forget them, a StringConcatTaskThread_ collects strings and      *)
(* starts over when they are latched. The destructor stops the worker and    *)
(* waits for its end.                                                        *)
EXTENDS Naturals, Sequences

CONSTANTS
  Producer,   \* threads that call WakeUp
  MaxPosts    \* bound: calls of WakeUp

ASSUME MaxPostsAssumption == MaxPosts \in Nat

VARIABLES
  concat,      \* which of the two classes the task is
  args,        \* the arguments: the posts collected in them
  semaphore,   \* the count of wakeupSemaphore
  active,
  worker,      \* the thread in Loop()
  argLatch,
  pc,          \* per producer: outside of WakeUp or about to release
  dtor,        \* the destructor
  posts,       \* history: calls of WakeUp, numbered in the order of the section
  calls        \* history: the arguments fn was called with, all put together

vars == <<concat, args, semaphore, active, worker, argLatch, pc, dtor, posts, calls>>

Posts == Seq(1..posts)

TypeOK ==
  /\ concat \in BOOLEAN /\ active \in BOOLEAN
  /\ args \in Posts /\ argLatch \in Posts /\ calls \in Posts
  /\ semaphore \in 0..1
  /\ worker \in {"while", "wait", "latch", "if", "fn", "ended"}
  /\ pc \in [Producer -> {"out", "release"}]
  /\ dtor \in {"none", "release", "join", "gone"}
  /\ posts \in 0..MaxPosts

Init ==
  /\ concat \in BOOLEAN
  /\ args = <<>> /\ semaphore = 0 /\ active = TRUE
  /\ worker = "while" /\ argLatch = <<>>
  /\ pc = [p \in Producer |-> "out"]
  /\ dtor = "none"
  /\ posts = 0 /\ calls = <<>>

-----------------------------------------------------------------------------
\* (variant: a semaphore without a maximum)
ReleaseCounting == semaphore' = semaphore + 1

\* ReleaseSemaphore fails silently at the maximum.
ReleaseSemaphore == semaphore' = 1

CompressArguments(n) == IF concat THEN Append(args, n) ELSE <<n>>
ResetArgs == IF concat THEN <<>> ELSE args

\* WakeUp: the arguments are exchanged under the critical section ...
WakeUp(p) ==
  /\ pc[p] = "out" /\ dtor = "none" /\ posts < MaxPosts
  /\ posts' = posts + 1
  /\ args' = CompressArguments(posts')
  /\ pc' = [pc EXCEPT ![p] = "release"]
  /\ UNCHANGED <<concat, semaphore, active, worker, argLatch, dtor, calls>>

\* (variant: no release while the worker is busy)
WakeRelaxed(p) ==
  /\ pc[p] = "release"
  /\ semaphore' = IF worker = "wait" THEN 1 ELSE semaphore
  /\ pc' = [pc EXCEPT ![p] = "out"]
  /\ UNCHANGED <<concat, args, active, worker, argLatch, dtor, posts, calls>>

\* ... and the worker is woken up.
Wake(p) ==
  /\ pc[p] = "release"
  /\ ReleaseSemaphore
  /\ pc' = [pc EXCEPT ![p] = "out"]
  /\ UNCHANGED <<concat, args, active, worker, argLatch, dtor, posts, calls>>

-----------------------------------------------------------------------------
\* Loop: while(active)
LoopTest ==
  /\ worker = "while"
  /\ worker' = IF active THEN "wait" ELSE "ended"
  /\ UNCHANGED <<concat, args, semaphore, active, argLatch, pc, dtor, posts, calls>>

WaitForWakeup ==
  /\ worker = "wait" /\ semaphore = 1
  /\ semaphore' = 0
  /\ worker' = "latch"
  /\ UNCHANGED <<concat, args, active, argLatch, pc, dtor, posts, calls>>

\* (variant: latched arguments are not reset)
LatchKeeping ==
  /\ worker = "latch"
  /\ argLatch' = args
  /\ worker' = "if"
  /\ UNCHANGED <<concat, args, semaphore, active, pc, dtor, posts, calls>>

\* The arguments are latched and reset under the critical section.
Latch ==
  /\ worker = "latch"
  /\ argLatch' = args
  /\ args' = ResetArgs
  /\ worker' = "if"
  /\ UNCHANGED <<concat, semaphore, active, pc, dtor, posts, calls>>

ActiveTest ==
  /\ worker = "if"
  /\ worker' = IF active THEN "fn" ELSE "while"
  /\ UNCHANGED <<concat, args, semaphore, active, argLatch, pc, dtor, posts, calls>>

\* fn is called with the latched arguments, then the thread sleeps.
Call ==
  /\ worker = "fn"
  /\ calls' = calls \o argLatch
  /\ worker' = "while"
  /\ UNCHANGED <<concat, args, semaphore, active, argLatch, pc, dtor, posts>>

Loop == LoopTest \/ WaitForWakeup \/ Latch \/ ActiveTest \/ Call

-----------------------------------------------------------------------------
\* ~TaskThread_(): nobody is inside WakeUp or calls it from here on. The worker
\* is told to stop ...
Stop ==
  /\ dtor = "none" /\ \A p \in Producer : pc[p] = "out"
  /\ active' = FALSE
  /\ dtor' = "release"
  /\ UNCHANGED <<concat, args, semaphore, worker, argLatch, pc, posts, calls>>

\* (variant: the worker is left asleep)
StopUnwoken ==
  /\ dtor = "release"
  /\ dtor' = "join"
  /\ UNCHANGED <<concat, args, semaphore, active, worker, argLatch, pc, posts, calls>>

\* ... woken up ...
StopWake ==
  /\ dtor = "release"
  /\ ReleaseSemaphore
  /\ dtor' = "join"
  /\ UNCHANGED <<concat, args, active, worker, argLatch, pc, posts, calls>>

\* ... and waited for.
Join ==
  /\ dtor = "join" /\ worker = "ended"
  /\ dtor' = "gone"
  /\ UNCHANGED <<concat, args, semaphore, active, worker, argLatch, pc, posts, calls>>

Destructor == Stop \/ StopWake \/ Join

Next == (\E p \in Producer : WakeUp(p) \/ Wake(p)) \/ Loop \/ Destructor

\* The worker and a producer inside WakeUp go on, and fn returns. Nobody has to
\* call WakeUp or to destroy the task.
Fairness ==
  /\ WF_vars(Loop) /\ WF_vars(StopWake \/ Join)
  /\ \A p \in Producer : WF_vars(Wake(p))
Spec == Init /\ [][Next]_vars /\ Fairness

-----------------------------------------------------------------------------
Highest(s) == IF s = <<>> THEN 0 ELSE s[Len(s)]

\* No string is lost, doubled or moved: what the task was called with, what the
\* worker has latched for it and what is collected are all the posts in order;
\* the destructor drops posts from the end only.
Latched == IF worker \in {"if", "fn"} THEN argLatch ELSE <<>>
StringsInOrder ==
  concat => /\ calls = [n \in 1..Len(calls) |-> n]
            /\ active => calls \o Latched \o args = [n \in 1..posts |-> n]

\* The task thread is a mailbox: the last post of what fn was called with only
\* goes up, and reaches the number of posts unless the task is destroyed.
MailboxOf == INSTANCE Mailbox WITH seen <- Highest(calls), open <- active
IsMailbox == MailboxOf!Spec

\* The destructor returns.
DestructorReturns == (dtor = "release") ~> (dtor = "gone")
=============================================================================
