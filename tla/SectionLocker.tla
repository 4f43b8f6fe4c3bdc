--------------------------- MODULE SectionLocker ---------------------------
(* The reader-writer locks of the debugger core (threading.h). Each lock is  *)
(* a Windows SRW lock, which is neither recursive nor upgradable, plus the   *)
(* identity of the thread that owns it exclusively and how often. Code takes *)
(* a lock by declaring a SectionLocker, so a thread has a stack of scopes,   *)
(* each with one lock; a scope may give its lock back early and take it      *)
(* again. The main thread of the GUI spins instead of blocking when the      *)
(* scope asks for it, and runs event handlers between two attempts, which    *)
(* may declare scopes of their own.                                          *)
EXTENDS Integers, FiniteSets

CONSTANTS
  Thread,      \* the threads of the process
  Gui,         \* the GUI's main thread, m_guiMainThreadId
  Lock,        \* values of the SectionLock enumeration
  None,        \* the owner of a lock nobody owns
  MaxScopes,   \* bound: how deep scopes nest in one thread
  Nests,       \* <<held lock, held shared?, wanted lock, wanted shared?>>:
               \* the ways in which the code nests two locks
  GuiScopes    \* locks the GUI thread takes with ProcessGuiEvents

ASSUME GuiAssumption == Gui \in Thread
ASSUME NoneAssumption == None \notin Thread
ASSUME MaxScopesAssumption == MaxScopes \in Nat

VARIABLES
  srw,     \* m_srwLocks: the exclusive holder and the shared holds per thread
  owner,   \* m_exclusiveOwner: threadId and count
  scope,   \* the SectionLocker objects of each thread, outermost first
  depth    \* how many there are

lockVars == <<srw, owner, scope, depth>>

\* Where a scope is: before the owner check ("acquire"), blocked in the SRW
\* lock ("wait"), about to try it ("try") or handling events after a failed
\* try ("events"), granted but not yet booked as owner ("own"), holding,
\* unbooked but not yet handed back ("clear"), or without its lock.
Stage == {"acquire", "wait", "try", "events", "own", "held", "clear", "released"}
Scope == [lock : Lock, shared : BOOLEAN, at : Stage]
NoScope == [lock |-> None, shared |-> FALSE, at |-> "none"]
NoOwner == [threadId |-> None, count |-> 0]

TypeOK ==
  /\ srw \in [Lock -> [excl : Thread \cup {None}, shared : [Thread -> Nat]]]
  /\ owner \in [Lock -> [threadId : Thread \cup {None}, count : Nat]]
  /\ depth \in [Thread -> 0..MaxScopes]
  /\ scope \in [Thread -> [1..MaxScopes -> Scope \cup {NoScope}]]
  /\ \A t \in Thread : \A i \in 1..MaxScopes : scope[t][i] \in Scope <=> i <= depth[t]

Init ==
  /\ srw = [l \in Lock |-> [excl |-> None, shared |-> [t \in Thread |-> 0]]]
  /\ owner = [l \in Lock |-> NoOwner]
  /\ scope = [t \in Thread |-> [i \in 1..MaxScopes |-> NoScope]]
  /\ depth = [t \in Thread |-> 0]

-----------------------------------------------------------------------------
At(t) == IF depth[t] = 0 THEN "none" ELSE scope[t][depth[t]].at
Settled(t, i) == \A j \in i..depth[t] : scope[t][j].at \in {"held", "released"}
\* A thread runs code that may take locks unless it is inside Unlock() or Lock().
Releasing(t) == \E i \in 1..depth[t] : scope[t][i].at = "clear"
MayLock(t) == At(t) \in {"none", "events", "held", "released"}
\* Code nests its own locks. An event handler that the GUI thread runs between two
\* attempts knows nothing of the locks held outside of it.
Outside(t, i) == \E k \in (i + 1)..depth[t] : scope[t][k].at = "events"
Held(t) == {i \in 1..depth[t] : scope[t][i].at = "held" /\ ~Outside(t, i)}
CanNest(t, l, shared) ==
  \A i \in Held(t) : <<scope[t][i].lock, scope[t][i].shared, l, shared>> \in Nests
Move(t, i, stage) == scope' = [scope EXCEPT ![t][i].at = stage]
Owns(t, l) == owner[l].threadId = t

\* SectionLocker(): a new scope, whose constructor calls Lock().
Enter(t, l, shared) ==
  /\ MayLock(t) /\ depth[t] < MaxScopes
  /\ CanNest(t, l, shared)
  /\ depth' = [depth EXCEPT ![t] = @ + 1]
  /\ scope' = [scope EXCEPT ![t][depth[t] + 1] = [lock |-> l, shared |-> shared, at |-> "acquire"]]
  /\ UNCHANGED <<srw, owner>>

\* REACQUIRE: the innermost scope takes its lock again.
Reacquire(t) ==
  /\ At(t) = "released"
  /\ CanNest(t, scope[t][depth[t]].lock, scope[t][depth[t]].shared)
  /\ Move(t, depth[t], "acquire")
  /\ UNCHANGED <<srw, owner, depth>>

\* (variant: any owner counts as the caller)
AcquireAnyOwned(t, i) ==
  LET l == scope[t][i].lock
  IN /\ owner[l].count > 0
     /\ owner' = [owner EXCEPT ![l].count = IF scope[t][i].shared THEN @ ELSE @ + 1]
     /\ Move(t, i, "held")
     /\ UNCHANGED <<srw, depth>>

\* AcquireLock by the exclusive owner takes nothing: a shared scope rides on
\* the exclusive hold, an exclusive one counts.
AcquireOwned(t, i) ==
  LET l == scope[t][i].lock
  IN /\ Owns(t, l)
     /\ owner' = [owner EXCEPT ![l].count = IF scope[t][i].shared THEN @ ELSE @ + 1]
     /\ Move(t, i, "held")
     /\ UNCHANGED <<srw, depth>>

\* (variant: a shared scope goes to the SRW lock without a look at the owner)
AcquireSharedBlindly(t, i) ==
  LET l == scope[t][i].lock
  IN /\ Owns(t, l) => scope[t][i].shared
     /\ Move(t, i, IF t = Gui /\ l \in GuiScopes THEN "try" ELSE "wait")
     /\ UNCHANGED <<srw, owner, depth>>

\* AcquireLock by anybody else goes to the SRW lock. The GUI thread does not
\* block there when the scope handles events.
AcquireOther(t, i) ==
  LET l == scope[t][i].lock
  IN /\ ~Owns(t, l)
     /\ Move(t, i, IF t = Gui /\ l \in GuiScopes THEN "try" ELSE "wait")
     /\ UNCHANGED <<srw, owner, depth>>

\* The SRW lock: a grant is possible in shared mode while nobody holds it
\* exclusively, in exclusive mode while nobody holds it at all.
Grantable(l, shared) ==
  /\ srw[l].excl = None
  /\ ~shared => \A u \in Thread : srw[l].shared[u] = 0

Grant(t, i) ==
  LET l == scope[t][i].lock
  IN /\ Grantable(l, scope[t][i].shared)
     /\ IF scope[t][i].shared
        THEN srw' = [srw EXCEPT ![l].shared[t] = @ + 1] /\ Move(t, i, "held")
        ELSE srw' = [srw EXCEPT ![l].excl = t] /\ Move(t, i, "own")
     /\ UNCHANGED <<owner, depth>>

\* TryAcquireSRWLock fails, so the GUI thread handles events ...
TryFails(t, i) ==
  /\ ~Grantable(scope[t][i].lock, scope[t][i].shared)
  /\ Move(t, i, "events")
  /\ UNCHANGED <<srw, owner, depth>>

\* ... and tries again once the handlers it ran have left their scopes.
GuiProcessEvents(t) ==
  /\ At(t) = "events"
  /\ Move(t, depth[t], "try")
  /\ UNCHANGED <<srw, owner, depth>>

\* The new exclusive holder books itself as owner.
Own(t, i) ==
  /\ owner' = [owner EXCEPT ![scope[t][i].lock] = [threadId |-> t, count |-> 1]]
  /\ Move(t, i, "held")
  /\ UNCHANGED <<srw, depth>>

Acquire(t) ==
  \/ At(t) = "acquire" /\ (AcquireOwned(t, depth[t]) \/ AcquireOther(t, depth[t]))
  \/ At(t) = "wait" /\ Grant(t, depth[t])
  \/ At(t) = "try" /\ (Grant(t, depth[t]) \/ TryFails(t, depth[t]))
  \/ At(t) = "own" /\ Own(t, depth[t])

-----------------------------------------------------------------------------
\* (variant: the owner is not looked at)
ReleaseSharedAlways(t, i) ==
  /\ srw' = [srw EXCEPT ![scope[t][i].lock].shared[t] = @ - 1]
  /\ Move(t, i, "released")
  /\ UNCHANGED <<owner, depth>>

\* ReleaseLock in shared mode: nothing under an exclusive hold of one's own.
ReleaseShared(t, i) ==
  LET l == scope[t][i].lock
  IN /\ srw' = IF Owns(t, l) THEN srw ELSE [srw EXCEPT ![l].shared[t] = @ - 1]
     /\ Move(t, i, "released")
     /\ UNCHANGED <<owner, depth>>

\* (variant: the thread stays booked as owner)
ReleaseStillOwner(t, i) ==
  LET l == scope[t][i].lock
  IN /\ owner' = [owner EXCEPT ![l].count = @ - 1]
     /\ Move(t, i, IF owner[l].count = 1 THEN "clear" ELSE "released")
     /\ UNCHANGED <<srw, depth>>

\* ReleaseLock in exclusive mode: the last release clears the owner first and
\* hands the SRW lock back in a step of its own.
ReleaseExclusive(t, i) ==
  LET l == scope[t][i].lock
  IN /\ IF owner[l].count = 1
        THEN owner' = [owner EXCEPT ![l] = NoOwner] /\ Move(t, i, "clear")
        ELSE owner' = [owner EXCEPT ![l].count = @ - 1] /\ Move(t, i, "released")
     /\ UNCHANGED <<srw, depth>>

HandBack(t, i) ==
  /\ scope[t][i].at = "clear"
  /\ srw' = [srw EXCEPT ![scope[t][i].lock].excl = None]
  /\ Move(t, i, "released")
  /\ UNCHANGED <<owner, depth>>

\* Unlock(), from RELEASE or the destructor. Scopes of one function may be
\* released in any order, but no inner scope holds the same lock then.
Unlock(t, i) ==
  /\ Settled(t, i) /\ scope[t][i].at = "held"
  /\ \A j \in (i + 1)..depth[t] :
       scope[t][j].at = "held" => scope[t][j].lock # scope[t][i].lock
  /\ IF scope[t][i].shared THEN ReleaseShared(t, i) ELSE ReleaseExclusive(t, i)

\* ~SectionLocker(), after its Unlock() if the lock was held.
Leave(t) ==
  /\ At(t) = "released"
  /\ scope' = [scope EXCEPT ![t][depth[t]] = NoScope]
  /\ depth' = [depth EXCEPT ![t] = @ - 1]
  /\ UNCHANGED <<srw, owner>>

LockStep(t) ==
  \/ /\ ~Releasing(t)
     /\ \/ \E l \in Lock, shared \in BOOLEAN : Enter(t, l, shared)
        \/ Reacquire(t)
        \/ Acquire(t)
        \/ GuiProcessEvents(t)
        \/ \E i \in 1..depth[t] : Unlock(t, i)
        \/ Leave(t)
  \/ \E i \in 1..depth[t] : HandBack(t, i)

Next == \E t \in Thread : LockStep(t)
Spec == Init /\ [][Next]_lockVars

-----------------------------------------------------------------------------
Holds(t, l) == {i \in 1..MaxScopes : scope[t][i].lock = l /\ scope[t][i].at = "held"}
Exclusive(t, l) == {i \in Holds(t, l) : ~scope[t][i].shared}
Shared(t, l) == Holds(t, l) \ Exclusive(t, l)

\* A thread with a scope that holds a lock exclusively is the only thread with
\* a scope that holds it at all, however its own scopes nest.
ExclusiveAlone ==
  \A l \in Lock : \A t \in Thread :
    Exclusive(t, l) # {} => \A u \in Thread \ {t} : Holds(u, l) = {}

\* m_exclusiveOwner is exact: it names the thread with exclusive scopes and
\* counts them, so that the last of them, and no other, hands the lock back.
OwnerExact ==
  \A l \in Lock : \A t \in Thread :
    Cardinality(Exclusive(t, l)) = (IF Owns(t, l) THEN owner[l].count ELSE 0)

\* The SRW lock has one shared hold for each shared scope taken without an
\* exclusive hold, and none for the others: each release gives back exactly
\* what its acquire took, although it decides by the owner of the moment.
SharedExact ==
  \A l \in Lock : \A t \in Thread :
    srw[l].shared[t] = (IF Owns(t, l) THEN 0 ELSE Cardinality(Shared(t, l)))

\* The assertions of AcquireLock: whoever is granted the SRW lock exclusively
\* finds no owner booked.
NoOwnerWhenGranted ==
  \A t \in Thread : At(t) = "own" => owner[scope[t][depth[t]].lock] = NoOwner

\* The books of a lock are exact: its owner, the count of the owner's scopes and
\* the holds of the SRW lock are what the scopes on the threads' stacks say, at
\* every moment between the steps of any two of them.
BooksExact == OwnerExact /\ SharedExact /\ NoOwnerWhenGranted
=============================================================================
