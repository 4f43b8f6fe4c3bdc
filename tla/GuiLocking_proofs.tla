------------------------- MODULE GuiLocking_proofs -------------------------
(* The calls into the GUI leave the locks alone, so that what is proved of   *)
(* the locks holds in the presence of the calls too; and whatever deadlock   *)
(* the two make together goes through the GUI's main thread.                 *)
EXTENDS GuiLocking, SectionLocker_proofs, WellFoundedInduction

USE GuiAssumption, NoneAssumption, MaxScopesAssumption
DEF GuiAssumption, NoneAssumption, MaxScopesAssumption

\* A step of a call is none of the locks.
LEMMA GuiStepIsLockStep == [GuiNext]_guiVars => [Next]_lockVars
<1> SUFFICES ASSUME [GuiNext]_guiVars PROVE [Next]_lockVars
  OBVIOUS
<1>1. CASE UNCHANGED guiVars
  BY <1>1 DEF guiVars, lockVars
<1>2. ASSUME NEW t \in Thread, LockerStep(t)
      PROVE  Next
  BY <1>2 DEF LockerStep, Next
<1>3. ASSUME NEW t \in Thread, Call(t) \/ EnterBridge(t) \/ SetResult(t) \/ LeaveBridge(t)
      PROVE  UNCHANGED lockVars
  BY <1>3 DEF Call, EnterBridge, SetResult, LeaveBridge
<1> QED
  BY <1>1, <1>2, <1>3 DEF GuiNext

\* The locks with the calls into the GUI implement the locks alone: each step of
\* a call is a stutter of the locks.
THEOREM LocksImplemented == GuiSpec => Spec
<1>1. GuiInit => Init
  BY DEF GuiInit
<1> QED
  BY <1>1, GuiStepIsLockStep, PTL DEF GuiSpec, Spec

\* Mutual exclusion of the locks in a debugger that calls its GUI.
THEOREM MutualExclusionWithGui == GuiSpec => []ExclusiveAlone
BY LocksImplemented, MutualExclusion, PTL

-----------------------------------------------------------------------------
\* Why locks alone make no circle: a lock that is waited for is ranked above every
\* lock held in the scopes outside of it, and a lock the GUI thread spins for above
\* those held around the handlers it ran in between as well. A scope that asks for
\* its lock has been checked against the locks of its own code.
Outer(t, i) == {j \in Index : j < i /\ scope[t][j].at = "held"}
Between(t, j, i) == \E k \in Index : j < k /\ k < i /\ scope[t][k].at = "events"
MayTake(t, i) ==
  \A j \in Outer(t, i) :
    ~Between(t, j, i) =>
      <<scope[t][j].lock, scope[t][j].shared, scope[t][i].lock, scope[t][i].shared>> \in Nests
Below(l, m, rank) ==
  rank[l] < rank[m] /\ (m \in GuiScopes => \A g \in GuiScopes \cap Lock : rank[l] < rank[g])
Above(t, i, rank) == \A j \in Outer(t, i) : Below(scope[t][j].lock, scope[t][i].lock, rank)
Wanting == {"wait", "try", "events"}
Handled(t, i) == \E k \in Index : k < i /\ scope[t][k].at = "events"

ScopesOrdered(rank) ==
  \A t \in Thread, i \in Index :
    /\ scope[t][i].at = "acquire" => MayTake(t, i)
    /\ scope[t][i].at \in Wanting /\ (Handled(t, i) => scope[t][i].lock \in GuiScopes)
         => Above(t, i, rank)

\* Inside the scope that is giving its lock back, all others are at rest.
ReleasesSettled ==
  \A t \in Thread, i, j \in Index :
    scope[t][i].at = "clear" /\ i < j /\ j <= depth[t] => scope[t][j].at \in {"held", "released"}

\* The GUI thread blocks only for locks it takes without ProcessGuiEvents, and
\* nobody spins but the GUI thread, for the others.
GuiSpins ==
  /\ \A i \in Index : scope[Gui][i].at = "wait" => scope[Gui][i].lock \notin GuiScopes
  /\ \A t \in Thread, i \in Index :
       scope[t][i].at \in {"try", "events"} => t = Gui /\ scope[t][i].lock \in GuiScopes

\* An exclusive hold of the SRW lock has an owner or a scope that is about to
\* book or has just cleared it.
HoldsBacked ==
  \A t \in Thread, l \in Lock : srw[l].excl = t => Owns(t, l) \/ Pending(t, l) # {}

WaitInv(rank) == ScopesOrdered(rank) /\ ReleasesSettled /\ GuiSpins /\ HoldsBacked

\* The bridge's owner is a caller past the critical section.
CallInv ==
  /\ csBridge \in Thread \cup {None}
  /\ call \in [Thread -> {"none", "enter", "wait", "answered"}]
  /\ csBridge # None => call[csBridge] \in {"wait", "answered"}

-----------------------------------------------------------------------------
\* A thread that is in Lock() is not in Unlock().
LEMMA NotReleasing ==
  ASSUME Typed, ReleasesSettled, NEW t \in Thread, At(t) \in Wanting
  PROVE  ~Releasing(t)
<1>1. /\ depth[t] \in Index /\ At(t) = scope[t][depth[t]].at /\ depth[t] \in 0..MaxScopes
  BY Innermost DEF Wanting, Typed
<1> SUFFICES ASSUME NEW i \in 1..depth[t], scope[t][i].at = "clear"
             PROVE  FALSE
  BY DEF Releasing
<1>2. i \in Index /\ i <= depth[t]
  BY <1>1 DEF Index
<1>3. i # depth[t]
  BY <1>1 DEF Wanting
<1> QED
  <2>1. i < depth[t] /\ depth[t] <= depth[t]
    BY <1>1, <1>2, <1>3 DEF Index
  <2> QED
    BY <1>1, <1>2, <2>1 DEF ReleasesSettled, Wanting

\* A move of one scope keeps the order of the scopes, if it keeps to it itself.
LEMMA MoveOrdered ==
  ASSUME Typed, NEW rank, ScopesOrdered(rank), ReleasesSettled, GuiSpins,
         NEW t \in Thread, NEW i \in 1..depth[t], NEW stage \in Stage,
         Move(t, i, stage), UNCHANGED depth,
         stage = "held" => i = depth[t],
         stage = "acquire" => MayTake(t, i),
         stage \in Wanting /\ (Handled(t, i) => scope[t][i].lock \in GuiScopes) => Above(t, i, rank),
         stage = "clear" => Settled(t, i),
         stage \in {"held", "released"} \/ ~Releasing(t),
         scope[t][i].at = "events" => i = depth[t],
         stage = "wait" /\ t = Gui => scope[t][i].lock \notin GuiScopes,
         stage \in {"try", "events"} => t = Gui /\ scope[t][i].lock \in GuiScopes
  PROVE  ScopesOrdered(rank)' /\ ReleasesSettled' /\ GuiSpins'
<1>1. /\ i \in Index /\ scope[t][i] \in Scope
      /\ scope'[t][i] = [scope[t][i] EXCEPT !.at = stage]
      /\ \A u \in Thread, j \in Index : (u # t \/ j # i) => scope'[u][j] = scope[u][j]
  BY Moves
<1>2. /\ scope'[t][i].at = stage /\ scope'[t][i].lock = scope[t][i].lock
      /\ scope'[t][i].shared = scope[t][i].shared
  BY <1>1 DEF Scope
<1>3. \A u \in Thread, j \in Index :
        scope'[u][j].lock = scope[u][j].lock /\ scope'[u][j].shared = scope[u][j].shared
  BY <1>1, <1>2
<1>4. depth[t] \in 0..MaxScopes /\ i <= depth[t]
  BY DEF Typed
<1>5. ASSUME NEW u \in Thread, NEW k \in Index, k <= depth[u]
      PROVE  Outer(u, k)' \subseteq Outer(u, k)
  <2>1. CASE u = t /\ stage = "held"
    BY <1>1, <1>4, <1>5, <2>1 DEF Outer, Index
  <2>2. CASE u = t /\ stage # "held"
    BY <1>1, <1>2, <2>2 DEF Outer
  <2>3. CASE u # t
    BY <1>1, <2>3 DEF Outer
  <2> QED
    BY <2>1, <2>2, <2>3
<1>6. ASSUME NEW u \in Thread, NEW k \in Index, scope'[u][k].at \in Stage
      PROVE  k <= depth[u]
  <2>1. CASE u = t /\ k = i
    BY <1>4, <2>1
  <2>2. CASE u # t \/ k # i
    <3>1. scope[u][k].at # "none"
      BY <1>1, <1>6, <2>2, NoScopeIsNone
    <3>2. scope[u][k] # NoScope
      BY <3>1 DEF NoScope
    <3>3. scope[u] \in [1..MaxScopes -> Scope \cup {NoScope}]
      BY DEF Typed
    <3>4. scope[u][k] \in Scope
      BY <3>2, <3>3 DEF Index
    <3> QED
      BY <3>4 DEF Typed, Index
  <2> QED
    BY <2>1, <2>2
<1>7. ScopesOrdered(rank)'
  <2> SUFFICES ASSUME NEW u \in Thread, NEW k \in Index
               PROVE  /\ scope'[u][k].at = "acquire" => MayTake(u, k)'
                      /\ scope'[u][k].at \in Wanting
                         /\ (Handled(u, k)' => scope'[u][k].lock \in GuiScopes)
                           => Above(u, k, rank)'
    BY DEF ScopesOrdered
  <2>0. k <= depth[u] =>
          /\ Handled(u, k) => Handled(u, k)'
          /\ \A j \in Index : Between(u, j, k) => Between(u, j, k)'
    <3> SUFFICES ASSUME k <= depth[u], NEW m \in Index, m < k, scope[u][m].at = "events"
                 PROVE  scope'[u][m].at = "events"
      BY DEF Handled, Between
    <3>1. u # t \/ m # i
      BY <1>4 DEF Index
    <3> QED
      BY <1>1, <3>1
  <2>1. k <= depth[u] => /\ MayTake(u, k) => MayTake(u, k)'
                         /\ Above(u, k, rank) => Above(u, k, rank)'
    <3> SUFFICES ASSUME k <= depth[u], NEW j \in Outer(u, k)'
                 PROVE  /\ j \in Outer(u, k)
                        /\ ~Between(u, j, k)' => ~Between(u, j, k)
                        /\ scope'[u][j].lock = scope[u][j].lock
                        /\ scope'[u][j].shared = scope[u][j].shared
                        /\ scope'[u][k].lock = scope[u][k].lock
                        /\ scope'[u][k].shared = scope[u][k].shared
      BY DEF MayTake, Above, Below
    <3>1. j \in Index
      BY DEF Outer
    <3> QED
      BY <1>3, <1>5, <2>0, <3>1
  <2>2. scope'[u][k].at = "acquire" \/ scope'[u][k].at \in Wanting => k <= depth[u]
    BY <1>6 DEF Stage, Wanting
  <2>3. CASE u = t /\ k = i
    BY <1>2, <2>0, <2>1, <2>2, <2>3
  <2>4. CASE u # t \/ k # i
    <3>1. scope'[u][k].at = scope[u][k].at /\ scope'[u][k].lock = scope[u][k].lock
      BY <1>1, <2>4
    <3> QED
      BY <2>0, <2>1, <2>2, <3>1 DEF ScopesOrdered
  <2> QED
    BY <2>3, <2>4
<1>8. ReleasesSettled'
  <2> SUFFICES ASSUME NEW u \in Thread, NEW k \in Index, NEW j \in Index,
                      scope'[u][k].at = "clear", k < j, j <= depth[u]
               PROVE  scope'[u][j].at \in {"held", "released"}
    BY DEF ReleasesSettled
  <2>1. CASE u # t \/ (k # i /\ j # i)
    BY <1>1, <2>1 DEF ReleasesSettled
  <2>2. CASE u = t /\ k = i
    <3>1. scope'[u][j] = scope[u][j] /\ j \in i..depth[t]
      BY <1>1, <1>4, <2>2 DEF Index
    <3> QED
      BY <1>2, <2>2, <3>1 DEF Settled
  <2>3. CASE u = t /\ k # i /\ j = i
    <3>1. scope[t][k].at = "clear" /\ k \in 1..depth[t]
      BY <1>1, <1>4, <2>3 DEF Index
    <3>2. Releasing(t)
      BY <3>1 DEF Releasing
    <3> QED
      BY <1>2, <2>3, <3>2
  <2> QED
    BY <2>1, <2>2, <2>3
<1>9. GuiSpins'
  <2>1. ASSUME NEW k \in Index, scope'[Gui][k].at = "wait"
        PROVE  scope[Gui][k].lock \notin GuiScopes
    <3>1. CASE t = Gui /\ k = i
      BY <1>2, <2>1, <3>1
    <3>2. CASE t # Gui \/ k # i
      BY <1>1, <2>1, <3>2 DEF GuiSpins
    <3> QED
      BY <3>1, <3>2
  <2>2. ASSUME NEW u \in Thread, NEW k \in Index, scope'[u][k].at \in {"try", "events"}
        PROVE  u = Gui /\ scope[u][k].lock \in GuiScopes
    <3>1. CASE u = t /\ k = i
      BY <1>2, <2>2, <3>1
    <3>2. CASE u # t \/ k # i
      BY <1>1, <2>2, <3>2 DEF GuiSpins
    <3> QED
      BY <3>1, <3>2
  <2> QED
    BY <1>3, <2>1, <2>2 DEF GuiSpins
<1> QED
  BY <1>7, <1>8, <1>9

\* A lock whose scope moves keeps an exclusive hold backed, if the scope backs
\* it, or neither the hold nor its backing has changed.
LEMMA MoveBacked ==
  ASSUME Typed, HoldsBacked, NEW t \in Thread, NEW i \in 1..depth[t], NEW stage \in Stage,
         Move(t, i, stage), UNCHANGED depth, NEW l \in Lock, l = scope[t][i].lock,
         \A u \in Thread, m \in Lock :
           u # t \/ m # l =>
             (srw'[m].excl = u => srw[m].excl = u) /\ (Owns(u, m) => Owns(u, m)'),
         srw'[l].excl = t =>
           \/ Owns(t, l)' \/ stage \in Unbooked
           \/ srw[l].excl = t /\ ~Owns(t, l) /\ scope[t][i].at \notin Unbooked
  PROVE  HoldsBacked'
<1>1. /\ i \in Index /\ scope[t][i] \in Scope
      /\ scope'[t][i] = [scope[t][i] EXCEPT !.at = stage]
      /\ \A u \in Thread, j \in Index : (u # t \/ j # i) => scope'[u][j] = scope[u][j]
  BY Moves
<1>2. scope'[t][i].at = stage /\ scope'[t][i].lock = l
  BY <1>1 DEF Scope
<1>3. \A u \in Thread, m \in Lock : \A j \in Pending(u, m) : u # t \/ j # i => j \in Pending(u, m)'
  BY <1>1 DEF Pending
<1>4. stage \in Unbooked => i \in Pending(t, l)'
  BY <1>1, <1>2 DEF Pending
<1> SUFFICES ASSUME NEW u \in Thread, NEW m \in Lock, srw'[m].excl = u
             PROVE  Owns(u, m)' \/ Pending(u, m)' # {}
  BY DEF HoldsBacked
<1>5. CASE u # t \/ m # l
  <2>1. Owns(u, m) \/ Pending(u, m) # {}
    BY <1>5 DEF HoldsBacked
  <2>2. ASSUME NEW j \in Pending(u, m) PROVE u # t \/ j # i
    BY <1>5 DEF Pending
  <2> QED
    BY <1>3, <1>5, <2>1, <2>2
<1>6. CASE u = t /\ m = l
  <2>1. ASSUME srw[l].excl = t, ~Owns(t, l), scope[t][i].at \notin Unbooked
        PROVE  Pending(t, l)' # {}
    <3>1. PICK j \in Pending(t, l) : TRUE
      BY <2>1 DEF HoldsBacked
    <3>2. j # i
      BY <2>1 DEF Pending
    <3> QED
      BY <1>3, <3>1, <3>2
  <2> QED
    BY <1>4, <1>6, <2>1
<1> QED
  BY <1>5, <1>6

\* A move that leaves the books alone keeps exclusive holds backed.
LEMMA QuietBacked ==
  ASSUME Typed, HoldsBacked, NEW t \in Thread, NEW i \in 1..depth[t], NEW stage \in Stage,
         Move(t, i, stage), UNCHANGED depth, scope[t][i].at \notin Unbooked,
         \A m \in Lock : /\ srw'[m].excl = srw[m].excl
                         /\ owner'[m].threadId = owner[m].threadId
  PROVE  HoldsBacked'
<1>1. PICK l \in Lock : l = scope[t][i].lock
  BY Moves DEF Scope
<1>2. \A u \in Thread, m \in Lock : Owns(u, m)' <=> Owns(u, m)
  BY DEF Owns
<1> QED
  BY <1>1, <1>2, MoveBacked

\* A new scope asks for its lock only under locks it may be taken under.
LEMMA EnterOrdered ==
  ASSUME Typed, NEW rank, WaitInv(rank), NEW t \in Thread, NEW l \in Lock,
         NEW shared \in BOOLEAN, ~Releasing(t), Enter(t, l, shared)
  PROVE  WaitInv(rank)'
<1>1. depth[t] \in 0..MaxScopes /\ depth[t] < MaxScopes
  BY DEF Typed, Enter
<1>2. PICK i \in Index : i = depth[t] + 1
  BY <1>1 DEF Index
<1>3. /\ scope'[t][i] = [lock |-> l, shared |-> shared, at |-> "acquire"]
      /\ \A u \in Thread, j \in Index : (u # t \/ j # i) => scope'[u][j] = scope[u][j]
      /\ depth'[t] = i /\ \A u \in Thread : u # t => depth'[u] = depth[u]
      /\ UNCHANGED <<srw, owner>>
  BY <1>2 DEF Enter, Typed, Index
<1>4. scope[t][i].at = "none" /\ \A j \in Index : scope[t][j].at # "none" => j < i
  <2>1. ASSUME NEW j \in Index, ~(j < i)
        PROVE  scope[t][j].at = "none"
    <3>1. scope[t][j] \in Scope \cup {NoScope} /\ scope[t][j] \notin Scope
      BY <1>1, <1>2, <2>1 DEF Typed, Index
    <3> QED
      BY <3>1 DEF NoScope
  <2> QED
    BY <1>2, <2>1 DEF Index
<1>5. \A u \in Thread, k \in Index : Outer(u, k)' = Outer(u, k)
  BY <1>3, <1>4 DEF Outer
<1>6. ScopesOrdered(rank)'
  <2> SUFFICES ASSUME NEW u \in Thread, NEW k \in Index
               PROVE  /\ scope'[u][k].at = "acquire" => MayTake(u, k)'
                      /\ scope'[u][k].at \in Wanting
                         /\ (Handled(u, k)' => scope'[u][k].lock \in GuiScopes)
                           => Above(u, k, rank)'
    BY DEF ScopesOrdered
  <2>0. /\ Handled(u, k)' <=> Handled(u, k)
        /\ \A j \in Index : Between(u, j, k)' <=> Between(u, j, k)
    BY <1>3, <1>4 DEF Handled, Between
  <2>1. \A j \in Outer(u, k) : scope'[u][j] = scope[u][j]
    BY <1>3, <1>4 DEF Outer
  <2>2. CASE u = t /\ k = i
    <3>1. scope'[u][k].at \notin Wanting /\ scope'[u][k].lock = l /\ scope'[u][k].shared = shared
      BY <1>3, <2>2 DEF Wanting
    <3>2. ASSUME NEW j \in Outer(u, k), ~Between(u, j, k)
          PROVE  <<scope[u][j].lock, scope[u][j].shared, l, shared>> \in Nests
      <4>1. j \in 1..depth[t] /\ scope[t][j].at = "held"
        BY <1>1, <1>2, <2>2 DEF Outer, Index
      <4>2. ~Outside(t, j)
        <5> SUFFICES ASSUME NEW m \in (j + 1)..depth[t], scope[t][m].at = "events"
                     PROVE  FALSE
          BY DEF Outside
        <5>1. m \in Index /\ j < m /\ m < k
          BY <1>1, <1>2, <2>2, <4>1 DEF Index
        <5> QED
          BY <2>2, <3>2, <5>1 DEF Between
      <4> QED
        BY <2>2, <4>1, <4>2 DEF Enter, CanNest, Held
    <3>3. \A j \in Outer(u, k) : j \in Index
      BY DEF Outer
    <3> QED
      BY <1>5, <2>0, <2>1, <3>1, <3>2, <3>3 DEF MayTake
  <2>3. CASE u # t \/ k # i
    <3>1. scope'[u][k] = scope[u][k]
      BY <1>3, <2>3
    <3>2. /\ MayTake(u, k) => MayTake(u, k)'
          /\ Above(u, k, rank) => Above(u, k, rank)'
      <4>1. \A j \in Outer(u, k) : j \in Index
        BY DEF Outer
      <4> QED
        BY <1>5, <2>0, <2>1, <3>1, <4>1 DEF MayTake, Above, Below
    <3> QED
      BY <2>0, <3>1, <3>2 DEF WaitInv, ScopesOrdered
  <2> QED
    BY <2>2, <2>3
<1>7. ReleasesSettled'
  <2> SUFFICES ASSUME NEW u \in Thread, NEW k \in Index, NEW j \in Index,
                      scope'[u][k].at = "clear", k < j, j <= depth'[u]
               PROVE  scope'[u][j].at \in {"held", "released"}
    BY DEF ReleasesSettled
  <2>1. CASE u = t
    <3>1. k # i /\ scope[t][k].at = "clear"
      BY <1>3, <2>1
    <3>2. k < i
      BY <1>4, <3>1
    <3>3. k \in 1..depth[t]
      BY <1>1, <1>2, <3>2 DEF Index
    <3> QED
      BY <3>1, <3>3 DEF Releasing
  <2>2. CASE u # t
    BY <1>3, <2>2 DEF WaitInv, ReleasesSettled
  <2> QED
    BY <2>1, <2>2
<1>8. GuiSpins'
  <2>1. ASSUME NEW u \in Thread, NEW k \in Index, scope'[u][k].at \in {"wait", "try", "events"}
        PROVE  scope'[u][k] = scope[u][k]
    BY <1>3, <2>1
  <2> QED
    BY <2>1 DEF WaitInv, GuiSpins
<1>9. HoldsBacked'
  <2>1. \A u \in Thread, m \in Lock : Pending(u, m) \subseteq Pending(u, m)'
    BY <1>3, <1>4 DEF Pending, Unbooked
  <2> QED
    BY <1>3, <2>1 DEF WaitInv, HoldsBacked, Owns
<1> QED
  BY <1>6, <1>7, <1>8, <1>9 DEF WaitInv

\* A scope that ends held nothing any more.
LEMMA LeaveOrdered ==
  ASSUME Typed, NEW rank, WaitInv(rank), NEW t \in Thread, Leave(t)
  PROVE  WaitInv(rank)'
<1>1. PICK i \in Index : i = depth[t] /\ scope[t][i].at = "released" /\ depth[t] \in 0..MaxScopes
  BY Innermost DEF Leave, Typed
<1>2. /\ scope'[t][i] = NoScope
      /\ \A u \in Thread, j \in Index : (u # t \/ j # i) => scope'[u][j] = scope[u][j]
      /\ depth'[t] = i - 1 /\ \A u \in Thread : u # t => depth'[u] = depth[u]
      /\ UNCHANGED <<srw, owner>>
  BY <1>1 DEF Leave, Typed, Index
<1>3. scope'[t][i].at = "none"
  BY <1>2 DEF NoScope
<1>4. \A u \in Thread, k \in Index : Outer(u, k)' = Outer(u, k)
  BY <1>1, <1>2, <1>3 DEF Outer
<1>5. ScopesOrdered(rank)'
  <2> SUFFICES ASSUME NEW u \in Thread, NEW k \in Index
               PROVE  /\ scope'[u][k].at = "acquire" => MayTake(u, k)'
                      /\ scope'[u][k].at \in Wanting
                         /\ (Handled(u, k)' => scope'[u][k].lock \in GuiScopes)
                           => Above(u, k, rank)'
    BY DEF ScopesOrdered
  <2>0. /\ Handled(u, k)' <=> Handled(u, k)
        /\ \A j \in Index : Between(u, j, k)' <=> Between(u, j, k)
    BY <1>1, <1>2, <1>3 DEF Handled, Between
  <2>1. CASE u = t /\ k = i
    BY <1>3, <2>1 DEF Wanting
  <2>2. CASE u # t \/ k # i
    <3>1. scope'[u][k] = scope[u][k]
      BY <1>2, <2>2
    <3>2. \A j \in Outer(u, k) : scope'[u][j] = scope[u][j]
      BY <1>1, <1>2 DEF Outer
    <3>3. /\ MayTake(u, k) => MayTake(u, k)'
          /\ Above(u, k, rank) => Above(u, k, rank)'
      <4>1. \A j \in Outer(u, k) : j \in Index
        BY DEF Outer
      <4> QED
        BY <1>4, <2>0, <3>1, <3>2, <4>1 DEF MayTake, Above, Below
    <3> QED
      BY <2>0, <3>1, <3>3 DEF WaitInv, ScopesOrdered
  <2> QED
    BY <2>1, <2>2
<1>6. ReleasesSettled'
  <2> SUFFICES ASSUME NEW u \in Thread, NEW k \in Index, NEW j \in Index,
                      scope'[u][k].at = "clear", k < j, j <= depth'[u]
               PROVE  scope'[u][j].at \in {"held", "released"}
    BY DEF ReleasesSettled
  <2>1. (u # t \/ k # i) /\ (u # t \/ j # i)
    BY <1>1, <1>2, <1>3 DEF Index
  <2>2. j <= depth[u]
    <3>1. CASE u = t
      BY <1>1, <1>2, <3>1 DEF Index
    <3>2. CASE u # t
      BY <1>2, <3>2
    <3> QED
      BY <3>1, <3>2
  <2> QED
    BY <1>2, <2>1, <2>2 DEF WaitInv, ReleasesSettled
<1>7. GuiSpins'
  <2>1. ASSUME NEW u \in Thread, NEW k \in Index, scope'[u][k].at \in {"wait", "try", "events"}
        PROVE  scope'[u][k] = scope[u][k]
    BY <1>2, <1>3, <2>1
  <2> QED
    BY <2>1 DEF WaitInv, GuiSpins
<1>8. HoldsBacked'
  <2>1. \A u \in Thread, m \in Lock : Pending(u, m) \subseteq Pending(u, m)'
    BY <1>1, <1>2 DEF Pending, Unbooked
  <2> QED
    BY <1>2, <2>1 DEF WaitInv, HoldsBacked, Owns
<1> QED
  BY <1>5, <1>6, <1>7, <1>8 DEF WaitInv

\* The lock of a scope that goes to the SRW lock is ranked above the locks held
\* outside of it: held exclusively already, it would have been taken as owner. A
\* lock held around a handler is ranked below all that the GUI thread spins for.
LEMMA GoesAbove ==
  ASSUME IInv, NEW rank, Disciplined(rank), WaitInv(rank),
         NEW t \in Thread, NEW i \in Index, i = depth[t], scope[t][i] \in Scope,
         scope[t][i].at = "acquire", ~Owns(t, scope[t][i].lock),
         Handled(t, i) => scope[t][i].lock \in GuiScopes
  PROVE  Above(t, i, rank)
<1> SUFFICES ASSUME NEW j \in Outer(t, i)
             PROVE  Below(scope[t][j].lock, scope[t][i].lock, rank)
  BY DEF Above
<1>1. j \in Index /\ scope[t][j].at = "held" /\ j < i
  BY DEF Outer
<1>2. scope[t][j] \in Scope
  <2>1. scope[t][j] \in Scope \cup {NoScope} /\ scope[t][j] # NoScope
    BY <1>1 DEF IInv, Typed, Index, NoScope
  <2> QED
    BY <2>1
<1>3. /\ scope[t][j].lock \in Lock /\ scope[t][j].shared \in BOOLEAN
      /\ scope[t][i].lock \in Lock /\ scope[t][i].shared \in BOOLEAN
  BY <1>2 DEF Scope
<1>4. CASE ~Between(t, j, i)
  <2>1. <<scope[t][j].lock, scope[t][j].shared, scope[t][i].lock, scope[t][i].shared>> \in Nests
    BY <1>4 DEF WaitInv, ScopesOrdered, MayTake
  <2>2. ~(scope[t][j].lock = scope[t][i].lock /\ ~scope[t][j].shared)
    <3> SUFFICES ASSUME scope[t][j].lock = scope[t][i].lock, ~scope[t][j].shared
                 PROVE  FALSE
      OBVIOUS
    <3> DEFINE l == scope[t][i].lock
    <3>1. j \in Exclusive(t, l)
      BY <1>1 DEF Exclusive, Holds, Index
    <3>2. Cardinality(Exclusive(t, l)) = 0
      BY <1>3 DEF IInv, OwnerExact
    <3> QED
      BY <1>3, <3>1, <3>2, FiniteHolds
  <2> QED
    BY <1>3, <2>1, <2>2 DEF Disciplined, Below
<1>5. CASE Between(t, j, i)
  <2>1. PICK k \in Index : j < k /\ k < i /\ scope[t][k].at = "events"
    BY <1>5 DEF Between
  <2>2. Handled(t, i) /\ scope[t][i].lock \in GuiScopes
    BY <2>1 DEF Handled
  <2>3. scope[t][k].lock \in GuiScopes
    BY <2>1 DEF WaitInv, GuiSpins
  <2>4. Above(t, k, rank) /\ j \in Outer(t, k)
    BY <1>1, <2>1, <2>3 DEF WaitInv, ScopesOrdered, Wanting, Outer
  <2>5. Below(scope[t][j].lock, scope[t][k].lock, rank)
    BY <2>4 DEF Above
  <2> QED
    BY <1>3, <2>2, <2>3, <2>5 DEF Below
<1> QED
  BY <1>4, <1>5

\* The owner of a lock is the only one.
LEMMA OneOwner ==
  ASSUME IInv, NEW t \in Thread, NEW l \in Lock,
         Exclusive(t, l) # {} \/ Pending(t, l) # {}
  PROVE  \A u \in Thread \ {t} : ~Owns(u, l)
<1>1. srw[l].excl = t
  BY DEF IInv, HoldersHold
<1> QED
  BY <1>1 DEF IInv, OwnerHolds, Owns

\* Every step of a thread through Lock() and Unlock() keeps the order.
LEMMA AcquireOrdered ==
  ASSUME IInv, NEW rank, Disciplined(rank), WaitInv(rank),
         NEW t \in Thread, ~Releasing(t), Acquire(t) \/ Reacquire(t) \/ GuiProcessEvents(t)
  PROVE  WaitInv(rank)'
<1>1. PICK i \in 1..depth[t] :
        /\ i = depth[t] /\ i \in Index /\ At(t) = scope[t][i].at /\ scope[t][i] \in Scope
  <2>1. At(t) # "none"
    BY DEF Acquire, Reacquire, GuiProcessEvents
  <2> QED
    BY <2>1, Innermost DEF IInv
<1>2. PICK l \in Lock : l = scope[t][i].lock
  BY <1>1 DEF Scope
<1>3. Typed /\ ScopesOrdered(rank) /\ ReleasesSettled /\ GuiSpins /\ HoldsBacked
  BY DEF IInv, WaitInv
<1>4. ASSUME NEW stage \in Stage \ {"clear"}, Move(t, i, stage), UNCHANGED depth,
             stage = "acquire" => MayTake(t, i),
             stage \in Wanting /\ (Handled(t, i) => l \in GuiScopes) => Above(t, i, rank),
             stage = "wait" /\ t = Gui => l \notin GuiScopes,
             stage \in {"try", "events"} => t = Gui /\ l \in GuiScopes
      PROVE  ScopesOrdered(rank)' /\ ReleasesSettled' /\ GuiSpins'
  BY <1>1, <1>2, <1>3, <1>4, MoveOrdered
<1>5. ASSUME NEW stage \in Stage, Move(t, i, stage), UNCHANGED depth, At(t) # "own",
             \A m \in Lock : /\ srw'[m].excl = srw[m].excl
                             /\ owner'[m].threadId = owner[m].threadId
      PROVE  HoldsBacked'
  <2>1. scope[t][i].at \notin Unbooked
    <3>1. At(t) # "clear"
      BY DEF Acquire, Reacquire, GuiProcessEvents
    <3> QED
      BY <1>1, <1>5, <3>1 DEF Unbooked
  <2> QED
    BY <1>3, <1>5, <2>1, QuietBacked
<1>6. CASE Reacquire(t)
  <2>1. /\ Move(t, i, "acquire") /\ UNCHANGED <<srw, owner, depth>> /\ At(t) = "released"
        /\ CanNest(t, scope[t][i].lock, scope[t][i].shared)
    BY <1>1, <1>6 DEF Reacquire
  <2>2. MayTake(t, i)
    <3>1. depth[t] \in 0..MaxScopes
      BY <1>3 DEF Typed
    <3>2. \A j \in Outer(t, i) : j \in 1..depth[t] /\ scope[t][j].at = "held"
      BY <1>1, <3>1 DEF Outer, Index
    <3>3. ASSUME NEW j \in Outer(t, i), Outside(t, j)
          PROVE  Between(t, j, i)
      <4>1. PICK m \in (j + 1)..depth[t] : scope[t][m].at = "events"
        BY <3>3 DEF Outside
      <4>2. m # i
        BY <1>1, <2>1, <4>1
      <4>3. m \in Index /\ j < m /\ m < i
        BY <1>1, <3>1, <3>2, <4>1, <4>2 DEF Index
      <4> QED
        BY <4>1, <4>3 DEF Between
    <3> QED
      BY <2>1, <3>2, <3>3 DEF MayTake, CanNest, Held
  <2>3. "acquire" \in Stage \ {"clear"} /\ "acquire" \notin Wanting
    BY DEF Stage, Wanting
  <2> QED
    BY <1>4, <1>5, <2>1, <2>2, <2>3 DEF WaitInv
<1>7. CASE GuiProcessEvents(t)
  <2>1. Move(t, i, "try") /\ UNCHANGED <<srw, owner, depth>> /\ scope[t][i].at = "events"
    BY <1>1, <1>7 DEF GuiProcessEvents
  <2>2. t = Gui /\ l \in GuiScopes /\ Above(t, i, rank)
    BY <1>1, <1>2, <1>3, <2>1 DEF ScopesOrdered, Wanting, GuiSpins
  <2>3. "try" \in Stage \ {"clear"}
    BY DEF Stage
  <2> QED
    BY <1>1, <1>4, <1>5, <2>1, <2>2, <2>3 DEF WaitInv
<1>8. CASE At(t) = "acquire" /\ AcquireOwned(t, i)
  <2>1. Move(t, i, "held") /\ UNCHANGED <<srw, depth>>
    BY <1>8 DEF AcquireOwned
  <2>2. \A m \in Lock : owner'[m].threadId = owner[m].threadId
    BY <1>2, <1>3, <1>8 DEF AcquireOwned, Typed
  <2>3. "held" \in Stage \ {"clear"} /\ "held" \notin Wanting
    BY DEF Stage, Wanting
  <2> QED
    BY <1>4, <1>5, <1>8, <2>1, <2>2, <2>3 DEF WaitInv
<1>9. CASE At(t) = "acquire" /\ AcquireOther(t, i)
  <2>1. PICK stage \in {"try", "wait"} :
          /\ Move(t, i, stage) /\ (stage = "wait" /\ t = Gui => l \notin GuiScopes)
          /\ stage = "try" => t = Gui /\ l \in GuiScopes
    BY <1>2, <1>9 DEF AcquireOther
  <2>2. UNCHANGED <<srw, owner, depth>> /\ ~Owns(t, scope[t][i].lock)
    BY <1>9 DEF AcquireOther
  <2>3. (Handled(t, i) => l \in GuiScopes) => Above(t, i, rank)
    BY <1>1, <1>2, <1>9, <2>2, GoesAbove
  <2>4. stage \in Stage \ {"clear"} /\ stage # "acquire" /\ stage # "events"
    BY DEF Stage
  <2> QED
    BY <1>4, <1>5, <1>9, <2>1, <2>2, <2>3, <2>4 DEF WaitInv
<1>10. CASE At(t) = "try" /\ TryFails(t, i)
  <2>1. Move(t, i, "events") /\ UNCHANGED <<srw, owner, depth>>
    BY <1>10 DEF TryFails
  <2>2. t = Gui /\ l \in GuiScopes /\ Above(t, i, rank)
    BY <1>1, <1>2, <1>3, <1>10 DEF ScopesOrdered, Wanting, GuiSpins
  <2>3. "events" \in Stage \ {"clear"}
    BY DEF Stage
  <2> QED
    BY <1>4, <1>5, <1>10, <2>1, <2>2, <2>3 DEF WaitInv
<1>11. CASE At(t) \in {"wait", "try"} /\ Grant(t, i)
  <2>1. "held" \in Stage \ {"clear"} /\ "held" \notin Wanting
        /\ "own" \in Stage \ {"clear"} /\ "own" \notin Wanting /\ "own" \in Unbooked
    BY DEF Stage, Wanting, Unbooked
  <2>2. UNCHANGED <<owner, depth>>
    BY <1>11 DEF Grant
  <2>3. CASE scope[t][i].shared
    <3>1. Move(t, i, "held") /\ \A m \in Lock : srw'[m].excl = srw[m].excl
      <4>1. Move(t, i, "held") /\ srw' = [srw EXCEPT ![l].shared[t] = @ + 1]
        BY <1>2, <1>11, <2>3 DEF Grant
      <4> QED
        BY <1>2, <1>3, <4>1 DEF Typed
    <3> QED
      BY <1>4, <1>5, <1>11, <2>1, <2>2, <3>1 DEF WaitInv
  <2>4. CASE ~scope[t][i].shared
    <3>1. /\ Move(t, i, "own") /\ srw'[l].excl = t
          /\ \A m \in Lock : m # l => srw'[m] = srw[m]
      <4>1. Move(t, i, "own") /\ srw' = [srw EXCEPT ![l].excl = t]
        BY <1>2, <1>11, <2>4 DEF Grant
      <4> QED
        BY <1>2, <1>3, <4>1 DEF Typed
    <3>2. \A u \in Thread, m \in Lock :
            u # t \/ m # l =>
              (srw'[m].excl = u => srw[m].excl = u) /\ (Owns(u, m) => Owns(u, m)')
      BY <2>2, <3>1 DEF Owns
    <3>3. HoldsBacked'
      BY <1>2, <1>3, <2>1, <2>2, <3>1, <3>2, MoveBacked
    <3> QED
      BY <1>4, <2>1, <2>2, <3>1, <3>3 DEF WaitInv
  <2> QED
    BY <2>3, <2>4
<1>12. CASE At(t) = "own" /\ Own(t, i)
  <2>1. /\ Move(t, i, "held") /\ UNCHANGED <<srw, depth>>
        /\ owner'[l].threadId = t /\ \A m \in Lock : m # l => owner'[m] = owner[m]
    BY <1>2, <1>3, <1>12 DEF Own, Typed
  <2>2. i \in Pending(t, l)
    BY <1>1, <1>2, <1>12 DEF Pending, Unbooked
  <2>3. \A u \in Thread, m \in Lock :
          u # t \/ m # l =>
            (srw'[m].excl = u => srw[m].excl = u) /\ (Owns(u, m) => Owns(u, m)')
    BY <2>1, <2>2, OneOwner DEF Owns
  <2>4. "held" \in Stage \ {"clear"} /\ "held" \notin Wanting
    BY DEF Stage, Wanting
  <2>5. HoldsBacked'
    BY <1>2, <1>3, <2>1, <2>3, <2>4, MoveBacked DEF Owns
  <2> QED
    BY <1>4, <2>1, <2>4, <2>5 DEF WaitInv
<1> QED
  BY <1>1, <1>6, <1>7, <1>8, <1>9, <1>10, <1>11, <1>12 DEF Acquire

\* ... and so does Unlock() ...
LEMMA UnlockOrdered ==
  ASSUME IInv, NEW rank, WaitInv(rank), NEW t \in Thread, ~Releasing(t),
         NEW i \in 1..depth[t], Unlock(t, i)
  PROVE  WaitInv(rank)'
<1>1. i \in Index /\ scope[t][i] \in Scope /\ scope[t][i].at = "held" /\ Settled(t, i)
  BY DEF IInv, Typed, Index, Unlock
<1>2. PICK l \in Lock : l = scope[t][i].lock
  BY <1>1 DEF Scope
<1>3. Typed /\ ScopesOrdered(rank) /\ ReleasesSettled /\ GuiSpins /\ HoldsBacked
  BY DEF IInv, WaitInv
<1>4. ASSUME NEW stage \in {"clear", "released"}, Move(t, i, stage), UNCHANGED depth
      PROVE  ScopesOrdered(rank)' /\ ReleasesSettled' /\ GuiSpins'
  <2>1. /\ stage \in Stage /\ stage \notin Wanting /\ stage # "held" /\ stage # "acquire"
        /\ stage \notin {"wait", "try", "events"} /\ scope[t][i].at # "events"
    BY <1>1 DEF Stage, Wanting
  <2> QED
    BY <1>1, <1>3, <1>4, <2>1, MoveOrdered
<1>5. ASSUME Move(t, i, "released"), UNCHANGED depth,
             \A m \in Lock : /\ srw'[m].excl = srw[m].excl
                             /\ owner'[m].threadId = owner[m].threadId
      PROVE  WaitInv(rank)'
  <2>1. "released" \in Stage /\ scope[t][i].at \notin Unbooked
    BY <1>1 DEF Stage, Unbooked
  <2>2. HoldsBacked'
    BY <1>3, <1>5, <2>1, QuietBacked
  <2> QED
    BY <1>4, <1>5, <2>2 DEF WaitInv
<1>6. CASE scope[t][i].shared
  <2>1. Move(t, i, "released") /\ UNCHANGED <<owner, depth>>
    BY <1>6 DEF Unlock, ReleaseShared
  <2>2. srw' = srw \/ srw' = [srw EXCEPT ![l].shared[t] = @ - 1]
    BY <1>2, <1>6 DEF Unlock, ReleaseShared
  <2>3. \A m \in Lock : srw'[m].excl = srw[m].excl
    <3>1. srw[l] \in [excl : Thread \cup {None}, shared : [Thread -> Int]]
      BY <1>3 DEF Typed
    <3>2. CASE srw' = [srw EXCEPT ![l].shared[t] = @ - 1]
      <4>1. /\ srw'[l] = [srw[l] EXCEPT !.shared[t] = @ - 1]
            /\ \A m \in Lock : m # l => srw'[m] = srw[m]
        BY <1>3, <3>2 DEF Typed
      <4> QED
        BY <3>1, <4>1
    <3> QED
      BY <2>2, <3>2
  <2> QED
    BY <1>5, <2>1, <2>3
<1>7. CASE ~scope[t][i].shared /\ owner[l].count = 1
  <2>1. Move(t, i, "clear") /\ UNCHANGED <<srw, depth>> /\ owner' = [owner EXCEPT ![l] = NoOwner]
    BY <1>2, <1>7 DEF Unlock, ReleaseExclusive
  <2>2. i \in Exclusive(t, l)
    BY <1>1, <1>2, <1>7 DEF Exclusive, Holds, Index
  <2>3. \A u \in Thread, m \in Lock :
          u # t \/ m # l =>
            (srw'[m].excl = u => srw[m].excl = u) /\ (Owns(u, m) => Owns(u, m)')
    <3>1. \A m \in Lock : m # l => owner'[m] = owner[m]
      BY <1>3, <2>1 DEF Typed
    <3>2. \A u \in Thread \ {t} : ~Owns(u, l)
      BY <2>2, OneOwner
    <3> QED
      BY <2>1, <3>1, <3>2 DEF Owns
  <2>4. "clear" \in Stage /\ "clear" \in Unbooked
    BY DEF Stage, Unbooked
  <2>5. HoldsBacked'
    BY <1>2, <1>3, <2>1, <2>3, <2>4, MoveBacked
  <2> QED
    BY <1>4, <2>1, <2>5 DEF WaitInv
<1>8. CASE ~scope[t][i].shared /\ owner[l].count # 1
  <2>1. Move(t, i, "released") /\ UNCHANGED <<srw, depth>> /\ owner' = [owner EXCEPT ![l].count = @ - 1]
    BY <1>2, <1>8 DEF Unlock, ReleaseExclusive
  <2>2. \A m \in Lock : owner'[m].threadId = owner[m].threadId
    <3>1. /\ owner'[l] = [owner[l] EXCEPT !.count = @ - 1]
          /\ \A m \in Lock : m # l => owner'[m] = owner[m]
      BY <1>3, <2>1 DEF Typed
    <3>2. owner[l] \in [threadId : Thread \cup {None}, count : Int]
      BY <1>3 DEF Typed
    <3> QED
      BY <3>1, <3>2
  <2> QED
    BY <1>5, <2>1, <2>2
<1> QED
  BY <1>6, <1>7, <1>8

\* ... with the step that gives the SRW lock back.
LEMMA HandBackOrdered ==
  ASSUME IInv, NEW rank, WaitInv(rank), NEW t \in Thread,
         NEW i \in 1..depth[t], HandBack(t, i)
  PROVE  WaitInv(rank)'
<1>1. i \in Index /\ scope[t][i] \in Scope /\ scope[t][i].at = "clear"
  BY DEF IInv, Typed, Index, HandBack
<1>2. PICK l \in Lock : l = scope[t][i].lock
  BY <1>1 DEF Scope
<1>3. Typed /\ ScopesOrdered(rank) /\ ReleasesSettled /\ GuiSpins /\ HoldsBacked
  BY DEF IInv, WaitInv
<1>4. /\ Move(t, i, "released") /\ UNCHANGED <<owner, depth>>
      /\ srw' = [srw EXCEPT ![l].excl = None]
  BY <1>2 DEF HandBack
<1>5. "released" \in Stage /\ "released" \notin Wanting
  BY DEF Stage, Wanting
<1>6. ScopesOrdered(rank)' /\ ReleasesSettled' /\ GuiSpins'
  BY <1>1, <1>3, <1>4, <1>5, MoveOrdered
<1>7. srw'[l].excl = None /\ \A m \in Lock : m # l => srw'[m] = srw[m]
  BY <1>3, <1>4 DEF Typed
<1>8. \A u \in Thread, m \in Lock :
        u # t \/ m # l =>
          (srw'[m].excl = u => srw[m].excl = u) /\ (Owns(u, m) => Owns(u, m)')
  BY <1>4, <1>7 DEF Owns
<1>9. HoldsBacked'
  BY <1>2, <1>3, <1>4, <1>5, <1>7, <1>8, MoveBacked
<1> QED
  BY <1>6, <1>9 DEF WaitInv

\* Every step of the locks keeps the order.
LEMMA NextOrdered ==
  ASSUME IInv, NEW rank, Disciplined(rank), WaitInv(rank), [Next]_lockVars
  PROVE  WaitInv(rank)'
<1>1. CASE UNCHANGED lockVars
  <2>1. UNCHANGED <<srw, owner, scope, depth>>
    BY <1>1 DEF lockVars
  <2>2. ScopesOrdered(rank)' /\ ReleasesSettled' /\ GuiSpins'
    BY <2>1 DEF WaitInv, ScopesOrdered, MayTake, Above, Below, Between, Handled, Outer,
              ReleasesSettled, GuiSpins
  <2>3. HoldsBacked'
    BY <2>1 DEF WaitInv, HoldsBacked, Owns, Pending
  <2> QED
    BY <2>2, <2>3 DEF WaitInv
<1>2. ASSUME NEW t \in Thread, LockStep(t)
      PROVE  WaitInv(rank)'
  <2>0. Typed
    BY DEF IInv
  <2>1. ASSUME NEW i \in 1..depth[t], HandBack(t, i)
        PROVE  WaitInv(rank)'
    BY <2>1, HandBackOrdered
  <2>2. ASSUME ~Releasing(t), NEW l \in Lock, NEW shared \in BOOLEAN, Enter(t, l, shared)
        PROVE  WaitInv(rank)'
    BY <2>0, <2>2, EnterOrdered
  <2>3. CASE ~Releasing(t) /\ (Acquire(t) \/ Reacquire(t) \/ GuiProcessEvents(t))
    BY <2>3, AcquireOrdered
  <2>4. ASSUME ~Releasing(t), NEW i \in 1..depth[t], Unlock(t, i)
        PROVE  WaitInv(rank)'
    BY <2>4, UnlockOrdered
  <2>5. CASE Leave(t)
    BY <2>0, <2>5, LeaveOrdered
  <2> QED
    BY <1>2, <2>1, <2>2, <2>3, <2>4, <2>5 DEF LockStep
<1> QED
  BY <1>1, <1>2 DEF Next

-----------------------------------------------------------------------------
\* Nobody calls, and nobody is in a scope, when the debugger starts.
LEMMA InitWaitInv ==
  ASSUME GuiInit, NEW rank
  PROVE  WaitInv(rank) /\ CallInv
<1>1. \A t \in Thread, i \in Index : scope[t][i].at = "none"
  BY DEF GuiInit, Init, NoScope, Index
<1>2. ScopesOrdered(rank) /\ ReleasesSettled /\ GuiSpins
  BY <1>1 DEF ScopesOrdered, ReleasesSettled, GuiSpins, Wanting
<1>3. HoldsBacked
  BY DEF GuiInit, Init, HoldsBacked
<1>4. CallInv
  BY DEF GuiInit, CallInv
<1> QED
  BY <1>2, <1>3, <1>4 DEF WaitInv

\* Every step keeps the calls in order.
LEMMA NextCallInv ==
  ASSUME CallInv, [GuiNext]_guiVars
  PROVE  CallInv'
<1>1. CASE UNCHANGED <<csBridge, call>>
  BY <1>1 DEF CallInv
<1>2. ASSUME NEW t \in Thread, Call(t)
      PROVE  CallInv'
  BY <1>2 DEF Call, CallInv
<1>3. ASSUME NEW t \in Thread, EnterBridge(t)
      PROVE  CallInv'
  BY <1>3 DEF EnterBridge, CallInv
<1>4. ASSUME NEW t \in Thread, SetResult(t)
      PROVE  CallInv'
  BY <1>4 DEF SetResult, CallInv
<1>5. ASSUME NEW t \in Thread, LeaveBridge(t)
      PROVE  CallInv'
  BY <1>5 DEF LeaveBridge, CallInv
<1> QED
  BY <1>1, <1>2, <1>3, <1>4, <1>5 DEF GuiNext, guiVars, LockerStep

-----------------------------------------------------------------------------
\* A finite ranking has a highest place.
LEMMA Highest ==
  ASSUME NEW S, S # {}, NEW n \in Nat, NEW f \in [S -> 0..n]
  PROVE  \E x \in S : \A y \in S : f[y] <= f[x]
<1> DEFINE Higher(x) == (f[x] + 1)..n
           T == {Higher(x) : x \in S}
<1>1. T \subseteq FiniteSubsetsOf(Nat) /\ T # {}
  <2>1. ASSUME NEW x \in S
        PROVE  Higher(x) \subseteq Nat /\ IsFiniteSet(Higher(x))
    <3>1. f[x] \in 0..n
      OBVIOUS
    <3>2. f[x] + 1 \in Int /\ n \in Int /\ f[x] + 1 > 0
      BY <3>1
    <3>3. IsFiniteSet((f[x] + 1)..n)
      BY <3>2, FS_Interval
    <3> QED
      BY <3>1, <3>3
  <2> QED
    BY <2>1 DEF FiniteSubsetsOf
<1>2. PICK A \in T : \A B \in T : ~(<<B, A>> \in StrictSubsetOrdering(Nat))
  <2>1. IsWellFoundedOn(StrictSubsetOrdering(Nat), FiniteSubsetsOf(Nat))
    BY FS_StrictSubsetOrderingWellFounded
  <2> HIDE DEF T
  <2> QED
    BY <1>1, <2>1, WFMin
<1>3. PICK x \in S : A = Higher(x)
  OBVIOUS
<1>4. ASSUME NEW y \in S, f[y] > f[x]
      PROVE  FALSE
  <2>1. f[x] \in 0..n /\ f[y] \in 0..n
    OBVIOUS
  <2>2. f[y] \in Higher(x) /\ f[y] \notin Higher(y) /\ Higher(y) \subseteq Higher(x)
    BY <1>4, <2>1
  <2>3. Higher(x) \subseteq Nat /\ Higher(y) \subseteq Nat
    BY <2>1
  <2>4. <<Higher(y), Higher(x)>> \in StrictSubsetOrdering(Nat)
    BY <2>2, <2>3 DEF StrictSubsetOrdering
  <2> QED
    BY <1>2, <1>3, <2>4
<1> QED
  <2>1. \A y \in S : f[y] \in 0..n
    OBVIOUS
  <2> QED
    BY <1>4, <2>1

\* A thread that waits for a lock: its place in the ranking is that of the lock,
\* a writer's above a reader's.
AtLock(t) == call[t] = "none" /\ At(t) \in Wanting
Wanted(t) == scope[t][depth[t]].lock
Level(t, rank) == 2 * rank[Wanted(t)] + (IF scope[t][depth[t]].shared THEN 0 ELSE 1)

\* Such a thread wants a lock above all it holds, unless it is the GUI thread that
\* blocks for the lock in a handler.
LEMMA WantedLock ==
  ASSUME IInv, NEW rank, WaitInv(rank), NEW t \in Thread, AtLock(t)
  PROVE  /\ depth[t] \in Index /\ scope[t][depth[t]].at \in Wanting
         /\ Wanted(t) \in Lock /\ scope[t][depth[t]].shared \in BOOLEAN
         /\ \/ \A j \in Index : scope[t][j].at = "held" => rank[scope[t][j].lock] < rank[Wanted(t)]
            \/ t = Gui /\ BlocksOutright(t) /\ InHandler(t)
<1>1. /\ depth[t] \in Index /\ At(t) = scope[t][depth[t]].at /\ scope[t][depth[t]] \in Scope
  BY Innermost DEF IInv, AtLock, Wanting
<1>2. scope[t][depth[t]].at \in Wanting
  BY <1>1 DEF AtLock
<1>3. ASSUME NEW j \in Index, scope[t][j].at = "held"
      PROVE  j \in Outer(t, depth[t])
  <2>1. scope[t][j] \in Scope
    <3>1. scope[t][j] \in Scope \cup {NoScope} /\ scope[t][j] # NoScope
      BY <1>3 DEF IInv, Typed, Index, NoScope
    <3> QED
      BY <3>1
  <2>2. j <= depth[t] /\ j # depth[t]
    BY <1>2, <1>3, <2>1 DEF IInv, Typed, Index, Wanting
  <2>3. j < depth[t]
    BY <1>1, <2>2 DEF Index
  <2> QED
    BY <1>3, <2>3 DEF Outer
<1>4. CASE Handled(t, depth[t]) => Wanted(t) \in GuiScopes
  <2>1. Above(t, depth[t], rank)
    BY <1>1, <1>2, <1>4 DEF WaitInv, ScopesOrdered, Wanted
  <2> QED
    BY <1>1, <1>2, <1>3, <2>1 DEF Wanted, Scope, Above, Below
<1>5. CASE Handled(t, depth[t]) /\ Wanted(t) \notin GuiScopes
  <2>1. PICK k \in Index : k < depth[t] /\ scope[t][k].at = "events"
    BY <1>5 DEF Handled
  <2>2. t = Gui /\ At(t) = "wait"
    BY <1>1, <1>2, <1>5, <2>1 DEF WaitInv, GuiSpins, Wanting, Wanted
  <2>3. InHandler(t)
    <3>1. k \in 1..depth[t]
      BY <1>1, <2>1 DEF Index
    <3> QED
      BY <2>1, <3>1 DEF InHandler
  <2> QED
    BY <1>1, <1>2, <1>5, <2>2, <2>3 DEF BlocksOutright, AtLock, Wanted, Scope
<1> QED
  BY <1>4, <1>5

\* Who has a lock, and is neither taking nor giving it back, has a scope that
\* holds it.
LEMMA HolderHolds ==
  ASSUME IInv, HoldsBacked, NEW u \in Thread, NEW l \in Lock, HoldsAny(u, l),
         ~Releasing(u), At(u) # "own"
  PROVE  \E j \in Index : scope[u][j].at = "held" /\ scope[u][j].lock = l
<1>1. CASE Holds(u, l) # {}
  BY <1>1 DEF Holds, Index
<1>2. CASE Holds(u, l) = {}
  <2>1. srw[l].excl = u /\ Exclusive(u, l) = {}
    BY <1>2 DEF HoldsAny, Exclusive
  <2>2. Pending(u, l) = {}
    <3>1. \A j \in Index : scope[u][j].at \notin Unbooked
      BY AllBooked DEF IInv
    <3> QED
      BY <3>1 DEF Pending
  <2>3. Owns(u, l)
    BY <2>1, <2>2 DEF HoldsBacked
  <2>4. owner[l].count > 0 /\ owner[l].count \in Int
    BY <2>3 DEF IInv, OwnerHolds, Owns, Typed
  <2>5. Cardinality(Exclusive(u, l)) = owner[l].count
    BY <2>3 DEF IInv, OwnerExact
  <2>6. Cardinality(Exclusive(u, l)) = 0
    BY <2>1, FiniteHolds
  <2> QED
    BY <2>4, <2>5, <2>6
<1> QED
  BY <1>1, <1>2

\* A thread in a circle that is in a call waits, itself or through the owner of the
\* critical section, for the GUI thread, which is blocked.
LEMMA CallersWaitForGui ==
  ASSUME IInv, CallInv, NEW rank, WaitInv(rank), NEW S \in SUBSET Thread, Circle(S),
         NEW t \in S, ~AtLock(t)
  PROVE  Gui \in S /\ BlocksOutright(Gui) /\ \E u \in S : call[u] = "wait"
<1>1. ASSUME NEW u \in S, call[u] = "wait"
      PROVE  Gui \in S /\ BlocksOutright(Gui)
  <2>1. WaitsFor(u) \cap S # {} /\ WaitsFor(u) = (IF u # Gui /\ Blocked(Gui) THEN {Gui} ELSE {})
    BY <1>1 DEF Circle, WaitsFor
  <2>2. Gui \in S /\ Blocked(Gui)
    BY <2>1
  <2>3. CASE At(Gui) = "wait" /\ call[Gui] = "none"
    <3>1. depth[Gui] \in Index /\ scope[Gui][depth[Gui]].at = "wait"
      BY <2>3, Innermost DEF IInv
    <3> QED
      BY <2>2, <2>3, <3>1 DEF WaitInv, GuiSpins, BlocksOutright
  <2> QED
    BY <2>2, <2>3 DEF Blocked, BlocksOutright
<1>2. WaitsFor(t) \cap S # {}
  BY DEF Circle
<1>3. CASE call[t] = "enter"
  <2>1. WaitsFor(t) = {csBridge} \ {None}
    BY <1>3 DEF WaitsFor
  <2>2. csBridge \in S /\ csBridge # None
    BY <1>2, <2>1
  <2>3. WaitsFor(csBridge) # {}
    BY <2>2 DEF Circle
  <2>4. call[csBridge] = "wait"
    BY <2>2, <2>3 DEF CallInv, WaitsFor
  <2> QED
    BY <1>1, <2>2, <2>4
<1>4. CASE call[t] = "wait"
  BY <1>1, <1>4
<1>5. call[t] = "enter" \/ call[t] = "wait"
  BY <1>2 DEF WaitsFor, CallInv, AtLock, Wanting
<1> QED
  BY <1>3, <1>4, <1>5

\* Of two threads at locks, the one that is waited for has the higher place.
LEMMA WaitsUpward ==
  ASSUME IInv, CallInv, NEW n \in Nat, NEW rank \in [Lock -> 0..n], WaitInv(rank),
         NEW t \in Thread, NEW u \in Thread, u \in WaitsFor(t), AtLock(t), AtLock(u),
         ~(u = Gui /\ BlocksOutright(u) /\ InHandler(u))
  PROVE  Level(t, rank) < Level(u, rank)
<1>1. HoldsBacked /\ Typed /\ ReleasesSettled
  BY DEF IInv, WaitInv
<1>2. \A l \in Lock : rank[l] \in Nat
  OBVIOUS
<1>3. /\ Wanted(t) \in Lock /\ scope[t][depth[t]].shared \in BOOLEAN
      /\ Wanted(u) \in Lock /\ scope[u][depth[u]].shared \in BOOLEAN
  BY WantedLock
<1>4. CASE HoldsAny(u, Wanted(t))
  <2>1. ~Releasing(u) /\ At(u) # "own"
    <3>1. At(u) \in Wanting
      BY DEF AtLock
    <3> QED
      BY <1>1, <3>1, NotReleasing DEF Wanting
  <2>2. PICK j \in Index : scope[u][j].at = "held" /\ scope[u][j].lock = Wanted(t)
    BY <1>1, <1>3, <1>4, <2>1, HolderHolds
  <2>3. rank[Wanted(t)] < rank[Wanted(u)]
    BY <2>2, WantedLock
  <2> QED
    BY <1>2, <1>3, <2>3 DEF Level
<1>5. CASE ~HoldsAny(u, Wanted(t))
  <2>1. scope[t][depth[t]].shared /\ Writes(u, Wanted(t))
    BY <1>5 DEF WaitsFor, AtLock, Wanting, Wanted, HoldsAny
  <2>2. Wanted(u) = Wanted(t) /\ ~scope[u][depth[u]].shared
    BY <2>1 DEF Writes, Wanted
  <2> QED
    BY <1>2, <1>3, <2>1, <2>2 DEF Level
<1> QED
  BY <1>4, <1>5

\* So that in every circle some thread is in a call, or the GUI thread blocks in a
\* handler: otherwise one with the highest place would wait for nobody in it.
LEMMA CirclesNeedTheGui ==
  ASSUME IInv, CallInv, NEW n \in Nat, NEW rank \in [Lock -> 0..n], WaitInv(rank)
  PROVE  CirclesBlockTheGui
<1> SUFFICES ASSUME NEW S \in SUBSET Thread, Circle(S)
             PROVE  /\ Gui \in S /\ BlocksOutright(Gui)
                    /\ (\E t \in S : call[t] = "wait") \/ InHandler(Gui)
  BY DEF CirclesBlockTheGui
<1>1. CASE \E t \in S : ~AtLock(t)
  BY <1>1, CallersWaitForGui
<1>2. CASE Gui \in S /\ BlocksOutright(Gui) /\ InHandler(Gui)
  BY <1>2
<1>3. ASSUME \A t \in S : AtLock(t), ~(Gui \in S /\ BlocksOutright(Gui) /\ InHandler(Gui))
      PROVE  FALSE
  <2> DEFINE f == [t \in S |-> Level(t, rank)]
             top == 2 * n + 1
  <2>1. top \in Nat
    OBVIOUS
  <2>2. ASSUME NEW t \in S
        PROVE  Level(t, rank) \in 0..top
    <3>1. Wanted(t) \in Lock
      BY <1>3, WantedLock
    <3>2. rank[Wanted(t)] \in 0..n
      BY <3>1
    <3>3. Level(t, rank) \in {2 * rank[Wanted(t)], 2 * rank[Wanted(t)] + 1}
      BY <3>2 DEF Level
    <3> QED
      BY <3>2, <3>3
  <2>3. f \in [S -> 0..top]
    BY <2>2
  <2>4. PICK t \in S : \A u \in S : f[u] <= f[t]
    <3>1. S # {}
      BY DEF Circle
    <3> HIDE DEF f, top
    <3> QED
      BY <2>1, <2>3, <3>1, Highest
  <2>5. PICK u \in S : u \in WaitsFor(t)
    BY DEF Circle
  <2>6. Level(t, rank) < Level(u, rank)
    BY <1>3, <2>5, WaitsUpward
  <2>7. Level(u, rank) <= Level(t, rank)
    BY <2>4
  <2> QED
    BY <2>2, <2>6, <2>7
<1> QED
  BY <1>1, <1>2, <1>3

\* For any number of threads, locks, nested scopes, handlers and calls, whoever
\* calls the GUI and under whatever locks: when the code takes its locks in an
\* order, a deadlock goes through the GUI's main thread, blocked outright for a lock
\* taken without ProcessGuiEvents or in the critical section of BridgeResult.
THEOREM OnlyTheGuiMakesACircle ==
  ASSUME NEW n \in Nat, NEW rank \in [Lock -> 0..n], Disciplined(rank)
  PROVE  GuiSpec => []CirclesBlockTheGui
<1>1. GuiInit => WaitInv(rank) /\ CallInv
  BY InitWaitInv
<1>2. ASSUME IInv, WaitInv(rank), CallInv, [GuiNext]_guiVars
      PROVE  WaitInv(rank)' /\ CallInv'
  <2>1. [Next]_lockVars
    BY <1>2, GuiStepIsLockStep
  <2> QED
    BY <1>2, <2>1, NextOrdered, NextCallInv
<1>3. GuiSpec => []IInv
  BY LocksImplemented, BooksInvariant, PTL
<1>4. IInv /\ WaitInv(rank) /\ CallInv => CirclesBlockTheGui
  BY CirclesNeedTheGui
<1> QED
  BY <1>1, <1>2, <1>3, <1>4, PTL DEF GuiSpec
=============================================================================
