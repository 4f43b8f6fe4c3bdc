------------------------ MODULE SectionLocker_proofs ------------------------
(* The locks of SectionLocker exclude each other for every number of         *)
(* threads, locks and nested scopes, and for every way of nesting them.      *)
EXTENDS SectionLocker, FiniteSetTheorems, TLAPS

USE GuiAssumption, NoneAssumption, MaxScopesAssumption
DEF GuiAssumption, NoneAssumption, MaxScopesAssumption

\* The types the steps keep one by one. That no count goes below zero is not one
\* of them: it takes the books.
Typed ==
  /\ srw \in [Lock -> [excl : Thread \cup {None}, shared : [Thread -> Int]]]
  /\ owner \in [Lock -> [threadId : Thread \cup {None}, count : Int]]
  /\ depth \in [Thread -> 0..MaxScopes]
  /\ scope \in [Thread -> [1..MaxScopes -> Scope \cup {NoScope}]]
  /\ \A t \in Thread : \A i \in 1..MaxScopes : scope[t][i] \in Scope <=> i <= depth[t]

Index == 1..MaxScopes
InLock == {"acquire", "wait", "try", "own"}
Unbooked == {"own", "clear"}

\* A thread is in the middle of Lock() in its innermost scope only, and in the
\* middle of an exclusive Lock() or Unlock() in one scope only.
OneBusyScope ==
  /\ \A t \in Thread, i \in Index : scope[t][i].at \in InLock => i = depth[t]
  /\ \A t \in Thread, i, j \in Index :
       scope[t][i].at \in Unbooked /\ scope[t][j].at \in Unbooked => i = j

\* Exclusive scopes, booked or not, stand for an exclusive hold of the SRW lock.
Pending(t, l) == {i \in Index : scope[t][i].lock = l /\ scope[t][i].at \in Unbooked}
HoldersHold ==
  \A t \in Thread, l \in Lock :
    /\ Exclusive(t, l) # {} => srw[l].excl = t
    /\ Pending(t, l) # {} => srw[l].excl = t /\ owner[l] = NoOwner
    /\ \A i \in Pending(t, l) : ~scope[t][i].shared

\* A booked owner is the exclusive holder, and an exclusive hold excludes others.
OwnerHolds ==
  \A l \in Lock :
    /\ owner[l].threadId # None => srw[l].excl = owner[l].threadId /\ owner[l].count > 0
    /\ owner[l].threadId = None => owner[l] = NoOwner
    /\ srw[l].excl # None => \A u \in Thread : srw[l].shared[u] = 0

\* A shared scope of the owner lies inside one of its exclusive scopes.
SharedInside ==
  \A t \in Thread, l \in Lock :
    Owns(t, l) => \A j \in Shared(t, l) : \E k \in Exclusive(t, l) : k < j

IInv ==
  Typed /\ OneBusyScope /\ HoldersHold /\ OwnerHolds /\ SharedInside
  /\ OwnerExact /\ SharedExact

-----------------------------------------------------------------------------
\* The scopes of a thread on a lock are finitely many, so that they can be counted.
LEMMA FiniteHolds ==
  ASSUME NEW t \in Thread, NEW l \in Lock
  PROVE  /\ IsFiniteSet(Exclusive(t, l)) /\ IsFiniteSet(Shared(t, l))
         /\ Cardinality(Exclusive(t, l)) \in Nat /\ Cardinality(Shared(t, l)) \in Nat
         /\ Exclusive(t, l) = {} <=> Cardinality(Exclusive(t, l)) = 0
         /\ Shared(t, l) = {} <=> Cardinality(Shared(t, l)) = 0
<1>1. IsFiniteSet(1..MaxScopes)
  BY FS_Interval
<1>2. Exclusive(t, l) \subseteq 1..MaxScopes /\ Shared(t, l) \subseteq 1..MaxScopes
  BY DEF Exclusive, Shared, Holds
<1>3. IsFiniteSet(Exclusive(t, l)) /\ IsFiniteSet(Shared(t, l))
  BY <1>1, <1>2, FS_Subset
<1> QED
  BY <1>3, FS_CardinalityType, FS_EmptySet

\* What a move of one scope does to the sets of holding scopes.
LEMMA Moves ==
  ASSUME Typed, NEW t \in Thread, NEW i \in 1..depth[t], NEW stage \in Stage,
         Move(t, i, stage), UNCHANGED depth
  PROVE  /\ i \in Index /\ scope[t][i] \in Scope
         /\ scope'[t][i] = [scope[t][i] EXCEPT !.at = stage]
         /\ \A u \in Thread, j \in Index : (u # t \/ j # i) => scope'[u][j] = scope[u][j]
         /\ \A u \in Thread, l \in Lock :
              (u # t \/ l # scope[t][i].lock) =>
                Exclusive(u, l)' = Exclusive(u, l) /\ Shared(u, l)' = Shared(u, l)
         /\ scope' \in [Thread -> [1..MaxScopes -> Scope \cup {NoScope}]]
         /\ \A u \in Thread : \A j \in 1..MaxScopes : scope'[u][j] \in Scope <=> j <= depth'[u]
<1>1. /\ i \in Index /\ depth[t] \in 0..MaxScopes /\ scope[t][i] \in Scope
      /\ scope[t] \in [1..MaxScopes -> Scope \cup {NoScope}]
  BY DEF Typed, Index
<1>2. [scope[t][i] EXCEPT !.at = stage] \in Scope
  BY <1>1 DEF Scope
<1>3. scope' = [scope EXCEPT ![t] = [scope[t] EXCEPT ![i] = [scope[t][i] EXCEPT !.at = stage]]]
  BY <1>1 DEF Move, Typed
<1>4. /\ scope'[t][i] = [scope[t][i] EXCEPT !.at = stage]
      /\ \A u \in Thread, j \in Index : (u # t \/ j # i) => scope'[u][j] = scope[u][j]
  BY <1>1, <1>3 DEF Typed, Index
<1>5. scope' \in [Thread -> [1..MaxScopes -> Scope \cup {NoScope}]]
  BY <1>1, <1>2, <1>3 DEF Typed, Index
<1>6. \A u \in Thread : \A j \in 1..MaxScopes : scope'[u][j] \in Scope <=> j <= depth'[u]
  <2> SUFFICES ASSUME NEW u \in Thread, NEW j \in Index
               PROVE  scope'[u][j] \in Scope <=> j <= depth[u]
    BY DEF Index
  <2>1. CASE u = t /\ j = i
    <3>1. scope'[u][j] \in Scope
      BY <1>2, <1>4, <2>1
    <3>2. j <= depth[u]
      BY <1>1, <2>1
    <3> QED
      BY <3>1, <3>2
  <2>2. CASE u # t \/ j # i
    <3>1. scope'[u][j] = scope[u][j]
      BY <1>4, <2>2
    <3> QED
      BY <3>1 DEF Typed, Index
  <2> QED
    BY <2>1, <2>2
<1>7. \A u \in Thread, l \in Lock :
         (u # t \/ l # scope[t][i].lock) =>
            Exclusive(u, l)' = Exclusive(u, l) /\ Shared(u, l)' = Shared(u, l)
  <2>1. scope'[t][i].lock = scope[t][i].lock /\ scope'[t][i].shared = scope[t][i].shared
    BY <1>1, <1>4 DEF Scope
  <2> SUFFICES ASSUME NEW u \in Thread, NEW l \in Lock, u # t \/ l # scope[t][i].lock
               PROVE  Exclusive(u, l)' = Exclusive(u, l) /\ Shared(u, l)' = Shared(u, l)
    OBVIOUS
  <2>2. \A j \in Index : scope'[u][j] = scope[u][j] \/ (u = t /\ j = i)
    BY <1>4
  <2>3. \A j \in Index : j \in Holds(u, l)' <=> j \in Holds(u, l)
    BY <2>1, <2>2 DEF Holds, Index
  <2>4. Holds(u, l)' = Holds(u, l)
    BY <2>3 DEF Holds, Index
  <2>5. \A j \in Holds(u, l) : scope'[u][j] = scope[u][j]
    BY <2>2 DEF Holds, Index
  <2> QED
    BY <2>4, <2>5 DEF Exclusive, Shared
<1> QED
  BY <1>1, <1>4, <1>5, <1>6, <1>7

\* A scope that starts or stops holding its lock joins or leaves the set of its
\* mode; any other move leaves both sets alone.
LEMMA MovesIn ==
  ASSUME Typed, NEW t \in Thread, NEW i \in 1..depth[t],
         Move(t, i, "held"), UNCHANGED depth, scope[t][i].at # "held",
         NEW l \in Lock, scope[t][i].lock = l
  PROVE  /\ Exclusive(t, l)' = (IF scope[t][i].shared THEN Exclusive(t, l) ELSE Exclusive(t, l) \cup {i})
         /\ Shared(t, l)' = (IF scope[t][i].shared THEN Shared(t, l) \cup {i} ELSE Shared(t, l))
         /\ Cardinality(Exclusive(t, l)') =
              Cardinality(Exclusive(t, l)) + (IF scope[t][i].shared THEN 0 ELSE 1)
         /\ Cardinality(Shared(t, l)') =
              Cardinality(Shared(t, l)) + (IF scope[t][i].shared THEN 1 ELSE 0)
<1>1. /\ i \in Index /\ scope[t][i] \in Scope
      /\ scope'[t][i] = [scope[t][i] EXCEPT !.at = "held"]
      /\ \A j \in Index : j # i => scope'[t][j] = scope[t][j]
  <2>1. "held" \in Stage
    BY DEF Stage
  <2> QED
    BY <2>1, Moves
<1>2. l \in Lock /\ scope[t][i].shared \in BOOLEAN
  BY <1>1 DEF Scope
<1>3. /\ scope'[t][i].lock = l /\ scope'[t][i].at = "held"
      /\ scope'[t][i].shared = scope[t][i].shared
  BY <1>1 DEF Scope
<1>4. i \notin Exclusive(t, l) /\ i \notin Shared(t, l)
  BY DEF Exclusive, Shared, Holds
<1>5. /\ Exclusive(t, l)' = (IF scope[t][i].shared THEN Exclusive(t, l) ELSE Exclusive(t, l) \cup {i})
      /\ Shared(t, l)' = (IF scope[t][i].shared THEN Shared(t, l) \cup {i} ELSE Shared(t, l))
  <2>1. Holds(t, l)' = Holds(t, l) \cup {i}
    BY <1>1, <1>3 DEF Holds, Index
  <2> QED
    BY <1>1, <1>2, <1>3, <2>1 DEF Exclusive, Shared, Holds, Index
<1>6. IsFiniteSet(Exclusive(t, l)) /\ IsFiniteSet(Shared(t, l))
      /\ Cardinality(Exclusive(t, l)) \in Nat /\ Cardinality(Shared(t, l)) \in Nat
  BY <1>2, FiniteHolds
<1>7. /\ Cardinality(Exclusive(t, l) \cup {i}) = Cardinality(Exclusive(t, l)) + 1
      /\ Cardinality(Shared(t, l) \cup {i}) = Cardinality(Shared(t, l)) + 1
  BY <1>4, <1>6, FS_AddElement
<1> QED
  BY <1>2, <1>5, <1>6, <1>7

\* A scope that stops holding its lock leaves the set of its mode.
LEMMA MovesOut ==
  ASSUME Typed, NEW t \in Thread, NEW i \in 1..depth[t], NEW stage \in Stage \ {"held"},
         Move(t, i, stage), UNCHANGED depth, scope[t][i].at = "held",
         NEW l \in Lock, scope[t][i].lock = l
  PROVE  /\ Exclusive(t, l)' = Exclusive(t, l) \ {i}
         /\ Shared(t, l)' = Shared(t, l) \ {i}
         /\ Cardinality(Exclusive(t, l)') =
              Cardinality(Exclusive(t, l)) - (IF scope[t][i].shared THEN 0 ELSE 1)
         /\ Cardinality(Shared(t, l)') =
              Cardinality(Shared(t, l)) - (IF scope[t][i].shared THEN 1 ELSE 0)
<1>1. /\ i \in Index /\ scope[t][i] \in Scope
      /\ scope'[t][i] = [scope[t][i] EXCEPT !.at = stage]
      /\ \A j \in Index : j # i => scope'[t][j] = scope[t][j]
  BY Moves
<1>2. l \in Lock /\ scope[t][i].shared \in BOOLEAN
  BY <1>1 DEF Scope
<1>3. scope'[t][i].at # "held"
  BY <1>1 DEF Scope
<1>4. IF scope[t][i].shared THEN i \in Shared(t, l) /\ i \notin Exclusive(t, l)
                            ELSE i \in Exclusive(t, l) /\ i \notin Shared(t, l)
  BY <1>1, <1>2 DEF Exclusive, Shared, Holds, Index
<1>5. /\ Exclusive(t, l)' = Exclusive(t, l) \ {i}
      /\ Shared(t, l)' = Shared(t, l) \ {i}
  <2>1. Holds(t, l)' = Holds(t, l) \ {i}
    BY <1>1, <1>3 DEF Holds, Index
  <2> QED
    BY <1>1, <1>2, <1>3, <2>1 DEF Exclusive, Shared, Holds, Index
<1>6. IsFiniteSet(Exclusive(t, l)) /\ IsFiniteSet(Shared(t, l))
      /\ Cardinality(Exclusive(t, l)) \in Nat /\ Cardinality(Shared(t, l)) \in Nat
  BY <1>2, FiniteHolds
<1>7. CASE scope[t][i].shared
  <2>1. Cardinality(Shared(t, l) \ {i}) = Cardinality(Shared(t, l)) - 1
    BY <1>4, <1>6, <1>7, FS_RemoveElement
  <2>2. Exclusive(t, l) \ {i} = Exclusive(t, l)
    BY <1>4, <1>7
  <2>3. /\ Cardinality(Exclusive(t, l)') = Cardinality(Exclusive(t, l))
        /\ Cardinality(Shared(t, l)') = Cardinality(Shared(t, l)) - 1
    BY <1>5, <2>1, <2>2
  <2> QED
    BY <1>5, <1>6, <1>7, <2>3
<1>8. CASE ~scope[t][i].shared
  <2>1. Cardinality(Exclusive(t, l) \ {i}) = Cardinality(Exclusive(t, l)) - 1
    BY <1>4, <1>6, <1>8, FS_RemoveElement
  <2>2. Shared(t, l) \ {i} = Shared(t, l)
    BY <1>4, <1>8
  <2>3. /\ Cardinality(Exclusive(t, l)') = Cardinality(Exclusive(t, l)) - 1
        /\ Cardinality(Shared(t, l)') = Cardinality(Shared(t, l))
    BY <1>5, <2>1, <2>2
  <2> QED
    BY <1>5, <1>6, <1>8, <2>3
<1> QED
  BY <1>7, <1>8

\* A scope that moves on without having or getting its lock changes nobody's
\* holds.
LEMMA MovesAside ==
  ASSUME Typed, NEW t \in Thread, NEW i \in 1..depth[t], NEW stage \in Stage \ {"held"},
         Move(t, i, stage), UNCHANGED depth, scope[t][i].at # "held"
  PROVE  \A u \in Thread, l \in Lock :
           Exclusive(u, l)' = Exclusive(u, l) /\ Shared(u, l)' = Shared(u, l)
<1>1. /\ i \in Index /\ scope[t][i] \in Scope
      /\ scope'[t][i] = [scope[t][i] EXCEPT !.at = stage]
      /\ \A u \in Thread, j \in Index : (u # t \/ j # i) => scope'[u][j] = scope[u][j]
  BY Moves
<1>2. scope'[t][i].at # "held"
  BY <1>1 DEF Scope
<1> SUFFICES ASSUME NEW u \in Thread, NEW l \in Lock
             PROVE  Exclusive(u, l)' = Exclusive(u, l) /\ Shared(u, l)' = Shared(u, l)
  OBVIOUS
<1>3. Holds(u, l)' = Holds(u, l)
  BY <1>1, <1>2 DEF Holds, Index
<1>4. \A j \in Holds(u, l) : scope'[u][j] = scope[u][j]
  BY <1>1 DEF Holds, Index
<1> QED
  BY <1>3, <1>4 DEF Exclusive, Shared

\* The place behind the innermost scope is not a scope.
LEMMA NoScopeIsNone == NoScope \notin Scope /\ "none" \notin Stage
BY DEF NoScope, Scope, Stage

\* The innermost scope of a thread that is somewhere.
LEMMA Innermost ==
  ASSUME Typed, NEW t \in Thread, At(t) # "none"
  PROVE  /\ depth[t] \in 1..depth[t] /\ depth[t] \in Index
         /\ At(t) = scope[t][depth[t]].at
         /\ scope[t][depth[t]] \in Scope
<1>1. depth[t] \in 0..MaxScopes /\ depth[t] # 0
  BY DEF Typed, At
<1> QED
  BY <1>1 DEF Typed, At, Index

\* No scope, no hold and no owner: the invariant holds when the locks are
\* initialised.
LEMMA InitIInv == Init => IInv
<1> SUFFICES ASSUME Init PROVE IInv
  OBVIOUS
<1>1. \A t \in Thread, i \in Index : scope[t][i] = NoScope
  BY DEF Init, Index
<1>2. Typed
  <2>1. NoOwner \in [threadId : Thread \cup {None}, count : Int]
    BY DEF NoOwner
  <2> QED
    BY <1>1, <2>1, NoScopeIsNone DEF Init, Typed, Index
<1>3. \A t \in Thread, l \in Lock : Exclusive(t, l) = {} /\ Shared(t, l) = {}
  BY <1>1 DEF Exclusive, Shared, Holds, NoScope, Index
<1>4. OneBusyScope /\ HoldersHold /\ SharedInside
  <2>1. \A t \in Thread, l \in Lock : Pending(t, l) = {}
    BY <1>1 DEF Pending, NoScope, Unbooked
  <2> QED
    BY <1>1, <1>3, <2>1 DEF OneBusyScope, HoldersHold, SharedInside, NoScope, InLock, Unbooked
<1>5. OwnerHolds
  BY DEF Init, OwnerHolds, NoOwner
<1>6. OwnerExact /\ SharedExact
  BY <1>3, FS_EmptySet DEF Init, OwnerExact, SharedExact, Owns, NoOwner
<1> QED
  BY <1>2, <1>4, <1>5, <1>6 DEF IInv

-----------------------------------------------------------------------------
\* Every move of one scope keeps the types, if the books stay well formed, ...
LEMMA TypesMove ==
  ASSUME Typed, NEW t \in Thread, NEW i \in 1..depth[t], NEW stage \in Stage,
         Move(t, i, stage), UNCHANGED depth,
         srw' \in [Lock -> [excl : Thread \cup {None}, shared : [Thread -> Int]]],
         owner' \in [Lock -> [threadId : Thread \cup {None}, count : Int]]
  PROVE  Typed'
<1>1. /\ scope' \in [Thread -> [1..MaxScopes -> Scope \cup {NoScope}]]
      /\ \A u \in Thread : \A j \in 1..MaxScopes : scope'[u][j] \in Scope <=> j <= depth'[u]
  BY Moves
<1> QED
  BY <1>1 DEF Typed

\* ... and the discipline of Lock() and Unlock(), if it follows it itself.
LEMMA BusyMove ==
  ASSUME Typed, OneBusyScope, NEW t \in Thread, NEW i \in 1..depth[t], NEW stage \in Stage,
         Move(t, i, stage), UNCHANGED depth,
         stage \in InLock => i = depth[t],
         stage \in Unbooked => \A j \in Index : scope[t][j].at \notin Unbooked
  PROVE  OneBusyScope'
<1>1. /\ i \in Index /\ scope[t][i] \in Scope
      /\ scope'[t][i] = [scope[t][i] EXCEPT !.at = stage]
      /\ \A u \in Thread, j \in Index : (u # t \/ j # i) => scope'[u][j] = scope[u][j]
  BY Moves
<1>2. scope'[t][i].at = stage
  BY <1>1 DEF Scope
<1>3. ASSUME NEW u \in Thread, NEW j \in Index, scope'[u][j].at \in InLock
      PROVE  j = depth'[u]
  <2>1. CASE u = t /\ j = i
    BY <1>2, <1>3, <2>1
  <2>2. CASE u # t \/ j # i
    BY <1>1, <1>3, <2>2 DEF OneBusyScope
  <2> QED
    BY <2>1, <2>2
<1>4. ASSUME NEW u \in Thread, NEW j \in Index, NEW k \in Index,
             scope'[u][j].at \in Unbooked, scope'[u][k].at \in Unbooked
      PROVE  j = k
  <2>1. CASE u # t \/ (j # i /\ k # i)
    BY <1>1, <1>4, <2>1 DEF OneBusyScope
  <2>2. CASE u = t /\ j = i /\ k # i
    BY <1>1, <1>2, <1>4, <2>2
  <2>3. CASE u = t /\ j # i /\ k = i
    BY <1>1, <1>2, <1>4, <2>3
  <2> QED
    BY <2>1, <2>2, <2>3
<1> QED
  BY <1>3, <1>4 DEF OneBusyScope

\* The unbooked scopes after a move.
LEMMA PendingMove ==
  ASSUME Typed, NEW t \in Thread, NEW i \in 1..depth[t], NEW stage \in Stage,
         Move(t, i, stage), UNCHANGED depth
  PROVE  \A u \in Thread, l \in Lock :
           /\ Pending(u, l)' \subseteq
                Pending(u, l) \cup (IF u = t /\ l = scope[t][i].lock THEN {i} ELSE {})
           /\ stage \notin Unbooked => Pending(u, l)' \subseteq Pending(u, l) \ (IF u = t THEN {i} ELSE {})
           /\ \A j \in Pending(u, l)' : scope'[u][j].shared = scope[u][j].shared
<1>1. /\ i \in Index /\ scope[t][i] \in Scope
      /\ scope'[t][i] = [scope[t][i] EXCEPT !.at = stage]
      /\ \A u \in Thread, j \in Index : (u # t \/ j # i) => scope'[u][j] = scope[u][j]
  BY Moves
<1>2. /\ scope'[t][i].at = stage /\ scope'[t][i].lock = scope[t][i].lock
      /\ scope'[t][i].shared = scope[t][i].shared
  BY <1>1 DEF Scope
<1> SUFFICES ASSUME NEW u \in Thread, NEW l \in Lock, NEW j \in Pending(u, l)'
             PROVE  /\ j \in Pending(u, l) \/ (u = t /\ l = scope[t][i].lock /\ j = i)
                    /\ stage \notin Unbooked => j \in Pending(u, l) /\ (u # t \/ j # i)
                    /\ scope'[u][j].shared = scope[u][j].shared
  OBVIOUS
<1>3. j \in Index /\ scope'[u][j].lock = l /\ scope'[u][j].at \in Unbooked
  BY DEF Pending
<1>4. CASE u = t /\ j = i
  BY <1>2, <1>3, <1>4
<1>5. CASE u # t \/ j # i
  BY <1>1, <1>3, <1>5 DEF Pending
<1> QED
  BY <1>4, <1>5

\* Steps inside Lock() that neither take nor give anything.
LEMMA QuietMove ==
  ASSUME IInv, NEW t \in Thread, NEW stage \in Stage \ {"held", "own", "clear"},
         At(t) \in Stage \ {"held"}, Move(t, depth[t], stage), UNCHANGED <<srw, owner, depth>>
  PROVE  IInv'
<1>1. PICK i \in 1..depth[t] : i = depth[t] /\ i \in Index /\ At(t) = scope[t][i].at
  BY Innermost, NoScopeIsNone DEF IInv
<1>2. /\ Typed /\ OneBusyScope /\ Move(t, i, stage) /\ UNCHANGED depth
      /\ stage \in Stage \ {"held"} /\ stage \notin Unbooked /\ scope[t][i].at # "held"
  BY <1>1 DEF IInv, Unbooked
<1>3. \A u \in Thread, l \in Lock :
        Exclusive(u, l)' = Exclusive(u, l) /\ Shared(u, l)' = Shared(u, l)
  BY <1>2, MovesAside
<1>4. \A u \in Thread, l \in Lock :
        /\ Pending(u, l)' \subseteq Pending(u, l)
        /\ \A j \in Pending(u, l)' : scope'[u][j].shared = scope[u][j].shared
  <2>1. stage \in Stage
    OBVIOUS
  <2> QED
    BY <1>2, <2>1, PendingMove
<1>5. Typed'
  <2>1. stage \in Stage
    OBVIOUS
  <2> QED
    BY <1>2, <2>1, TypesMove DEF Typed
<1>6. OneBusyScope'
  <2>1. stage \in Stage
    OBVIOUS
  <2> QED
    BY <1>1, <1>2, <2>1, BusyMove
<1>7. HoldersHold'
  BY <1>3, <1>4 DEF IInv, HoldersHold
<1>8. OwnerHolds' /\ OwnerExact' /\ SharedExact' /\ SharedInside'
  BY <1>3 DEF IInv, OwnerHolds, OwnerExact, SharedExact, SharedInside, Owns
<1> QED
  BY <1>5, <1>6, <1>7, <1>8 DEF IInv

\* Scopes that hold are among the scopes there are.
LEMMA HoldsWithin ==
  ASSUME Typed, NEW t \in Thread, NEW l \in Lock, NEW k \in Holds(t, l)
  PROVE  k \in Index /\ k <= depth[t] /\ depth[t] \in Nat
<1>1. k \in Index /\ scope[t][k].at = "held" /\ depth[t] \in 0..MaxScopes
  BY DEF Holds, Typed, Index
<1>2. scope[t][k] # NoScope
  BY <1>1 DEF NoScope
<1> QED
  BY <1>1, <1>2 DEF Typed, Index

\* The owner's Lock() keeps the books.
LEMMA AcquireOwnedKeeps ==
  ASSUME IInv, NEW t \in Thread, At(t) = "acquire", AcquireOwned(t, depth[t])
  PROVE  IInv'
<1>1. PICK i \in 1..depth[t] :
        i = depth[t] /\ i \in Index /\ scope[t][i].at = "acquire" /\ scope[t][i] \in Scope
  BY Innermost, NoScopeIsNone DEF IInv, Stage
<1>2. PICK l \in Lock : l = scope[t][i].lock
  BY <1>1 DEF Scope
<1>3. /\ Typed /\ OneBusyScope /\ Move(t, i, "held") /\ UNCHANGED srw /\ UNCHANGED depth
      /\ "held" \in Stage /\ "held" \notin Unbooked /\ "held" \notin InLock
      /\ scope[t][i].at # "held" /\ Owns(t, l)
      /\ owner' = [owner EXCEPT ![l].count = IF scope[t][i].shared THEN @ ELSE @ + 1]
  BY <1>1, <1>2 DEF IInv, AcquireOwned, Stage, Unbooked, InLock
<1>4. /\ owner[l] \in [threadId : Thread \cup {None}, count : Int]
      /\ owner[l].threadId = t /\ srw[l].excl = t /\ owner[l].count > 0
  BY <1>3 DEF Typed, IInv, OwnerHolds, Owns
<1>5. /\ owner'[l].threadId = t
      /\ owner'[l].count = owner[l].count + (IF scope[t][i].shared THEN 0 ELSE 1)
      /\ owner'[l].count \in Int /\ owner'[l].count > 0
      /\ \A m \in Lock : m # l => owner'[m] = owner[m]
      /\ owner' \in [Lock -> [threadId : Thread \cup {None}, count : Int]]
  <2>1. owner'[l] = [owner[l] EXCEPT !.count = IF scope[t][i].shared THEN @ ELSE @ + 1]
    BY <1>3 DEF Typed
  <2>2. /\ owner'[l].threadId = t
        /\ owner'[l].count = owner[l].count + (IF scope[t][i].shared THEN 0 ELSE 1)
    BY <1>4, <2>1
  <2>3. owner[l].count \in Int /\ owner'[l].count \in Int /\ owner'[l].count > 0
    BY <1>4, <2>2
  <2>4. owner'[l] \in [threadId : Thread \cup {None}, count : Int]
    BY <1>4, <2>1, <2>2, <2>3
  <2>5. \A m \in Lock : m # l => owner'[m] = owner[m]
    BY <1>3 DEF Typed
  <2>6. owner' = [owner EXCEPT ![l] = owner'[l]]
    BY <1>3 DEF Typed
  <2> QED
    BY <1>3, <2>2, <2>3, <2>4, <2>5, <2>6 DEF Typed
<1>6. /\ Exclusive(t, l)' = (IF scope[t][i].shared THEN Exclusive(t, l) ELSE Exclusive(t, l) \cup {i})
      /\ Shared(t, l)' = (IF scope[t][i].shared THEN Shared(t, l) \cup {i} ELSE Shared(t, l))
      /\ Cardinality(Exclusive(t, l)') =
           Cardinality(Exclusive(t, l)) + (IF scope[t][i].shared THEN 0 ELSE 1)
  BY <1>2, <1>3, MovesIn
<1>7. \A u \in Thread, m \in Lock :
        (u # t \/ m # l) => Exclusive(u, m)' = Exclusive(u, m) /\ Shared(u, m)' = Shared(u, m)
  <2>1. \A u \in Thread, m \in Lock :
          (u # t \/ m # scope[t][i].lock) =>
            Exclusive(u, m)' = Exclusive(u, m) /\ Shared(u, m)' = Shared(u, m)
    BY <1>3, Moves
  <2> QED
    BY <1>2, <2>1
<1>8. \A u \in Thread, m \in Lock :
        /\ Pending(u, m)' \subseteq Pending(u, m)
        /\ \A j \in Pending(u, m)' : scope'[u][j].shared = scope[u][j].shared
  BY <1>3, PendingMove
<1>9. Cardinality(Exclusive(t, l)) = owner[l].count /\ Exclusive(t, l) # {}
  BY <1>4, FiniteHolds DEF IInv, OwnerExact, Owns
<1>10. Typed'
  BY <1>3, <1>5, TypesMove DEF Typed
<1>11. OneBusyScope'
  BY <1>3, BusyMove
<1>12. HoldersHold'
  <2>1. \A u \in Thread : Pending(u, l) = {} /\ (u # t => Exclusive(u, l) = {})
    BY <1>4 DEF IInv, HoldersHold, NoOwner
  <2> SUFFICES ASSUME NEW u \in Thread, NEW m \in Lock
               PROVE  /\ Exclusive(u, m)' # {} => srw'[m].excl = u
                      /\ Pending(u, m)' # {} => srw'[m].excl = u /\ owner'[m] = NoOwner
                      /\ \A j \in Pending(u, m)' : ~scope'[u][j].shared
    BY DEF HoldersHold
  <2>2. CASE m = l
    BY <1>3, <1>4, <1>7, <1>8, <2>1, <2>2
  <2>3. CASE m # l
    BY <1>3, <1>5, <1>7, <1>8, <2>3 DEF IInv, HoldersHold
  <2> QED
    BY <2>2, <2>3
<1>13. OwnerHolds'
  BY <1>3, <1>4, <1>5 DEF IInv, OwnerHolds
<1>14. OwnerExact'
  <2> SUFFICES ASSUME NEW m \in Lock, NEW u \in Thread
               PROVE  Cardinality(Exclusive(u, m)') = IF owner'[m].threadId = u THEN owner'[m].count ELSE 0
    BY DEF OwnerExact, Owns
  <2>1. CASE u = t /\ m = l
    BY <1>5, <1>6, <1>9, <2>1
  <2>2. CASE u # t \/ m # l
    <3>1. Cardinality(Exclusive(u, m)') = IF owner[m].threadId = u THEN owner[m].count ELSE 0
      BY <1>7, <2>2 DEF IInv, OwnerExact, Owns
    <3> QED
      BY <1>4, <1>5, <2>2, <3>1
  <2> QED
    BY <2>1, <2>2
<1>15. SharedExact'
  BY <1>3, <1>4, <1>5, <1>7 DEF IInv, SharedExact, Owns
<1>16. SharedInside'
  <2>1. \E k \in Exclusive(t, l) : k < i
    <3>1. PICK k \in Exclusive(t, l) : TRUE
      BY <1>9
    <3>2. k \in Holds(t, l) /\ k # i
      BY <1>3 DEF Exclusive, Holds
    <3>3. k \in Index /\ k <= depth[t] /\ depth[t] \in Nat
      BY <1>3, <3>2, HoldsWithin
    <3> QED
      BY <1>1, <3>1, <3>2, <3>3 DEF Index
  <2> SUFFICES ASSUME NEW u \in Thread, NEW m \in Lock, Owns(u, m)', NEW j \in Shared(u, m)'
               PROVE  \E k \in Exclusive(u, m)' : k < j
    BY DEF SharedInside
  <2>2. Owns(u, m)
    BY <1>3, <1>5 DEF Owns
  <2>3. CASE u = t /\ m = l
    BY <1>6, <2>1, <2>2, <2>3 DEF IInv, SharedInside
  <2>4. CASE u # t \/ m # l
    BY <1>7, <2>2, <2>4 DEF IInv, SharedInside
  <2> QED
    BY <2>3, <2>4
<1> QED
  BY <1>10, <1>11, <1>12, <1>13, <1>14, <1>15, <1>16 DEF IInv

\* The frame of a step that moves one scope of one thread with one lock.
LEMMA Frame ==
  ASSUME Typed, NEW t \in Thread, NEW i \in 1..depth[t], NEW stage \in Stage,
         Move(t, i, stage), UNCHANGED depth, NEW l \in Lock, l = scope[t][i].lock
  PROVE  /\ \A u \in Thread, m \in Lock :
              (u # t \/ m # l) => Exclusive(u, m)' = Exclusive(u, m) /\ Shared(u, m)' = Shared(u, m)
         /\ \A u \in Thread, m \in Lock :
              (u # t \/ m # l \/ stage \notin Unbooked) => Pending(u, m)' \subseteq Pending(u, m)
         /\ Pending(t, l)' \subseteq Pending(t, l) \cup {i}
         /\ stage \notin Unbooked => Pending(t, l)' \subseteq Pending(t, l) \ {i}
         /\ \A u \in Thread, m \in Lock, j \in Index :
              j \in Pending(u, m)' => scope'[u][j].shared = scope[u][j].shared
<1>1. \A u \in Thread, m \in Lock :
        (u # t \/ m # scope[t][i].lock) =>
          Exclusive(u, m)' = Exclusive(u, m) /\ Shared(u, m)' = Shared(u, m)
  BY Moves
<1>2. \A u \in Thread, m \in Lock :
        /\ Pending(u, m)' \subseteq
             Pending(u, m) \cup (IF u = t /\ m = scope[t][i].lock THEN {i} ELSE {})
        /\ stage \notin Unbooked => Pending(u, m)' \subseteq Pending(u, m) \ (IF u = t THEN {i} ELSE {})
        /\ \A j \in Pending(u, m)' : scope'[u][j].shared = scope[u][j].shared
  BY PendingMove
<1> QED
  BY <1>1, <1>2

\* A shared grant keeps the books: nobody owns the lock exclusively then.
LEMMA GrantSharedKeeps ==
  ASSUME IInv, NEW t \in Thread, At(t) \in {"wait", "try"}, Grant(t, depth[t]),
         scope[t][depth[t]].shared
  PROVE  IInv'
<1>1. PICK i \in 1..depth[t] :
        /\ i = depth[t] /\ i \in Index /\ scope[t][i].at \in {"wait", "try"}
        /\ scope[t][i] \in Scope
  BY Innermost, NoScopeIsNone DEF IInv, Stage
<1>2. PICK l \in Lock : l = scope[t][i].lock
  BY <1>1 DEF Scope
<1>3. /\ Typed /\ OneBusyScope /\ Move(t, i, "held") /\ UNCHANGED owner /\ UNCHANGED depth
      /\ "held" \in Stage /\ "held" \notin Unbooked /\ "held" \notin InLock
      /\ scope[t][i].at # "held" /\ scope[t][i].shared
      /\ srw[l].excl = None
      /\ srw' = [srw EXCEPT ![l].shared[t] = @ + 1]
  BY <1>1, <1>2 DEF IInv, Grant, Grantable, Stage, Unbooked, InLock
<1>4. /\ owner[l].threadId = None
      /\ srw[l] \in [excl : Thread \cup {None}, shared : [Thread -> Int]]
  BY <1>3 DEF IInv, OwnerHolds, Typed
<1>5. /\ srw'[l].excl = None
      /\ srw'[l].shared[t] = srw[l].shared[t] + 1
      /\ \A u \in Thread : u # t => srw'[l].shared[u] = srw[l].shared[u]
      /\ \A m \in Lock : m # l => srw'[m] = srw[m]
      /\ srw' \in [Lock -> [excl : Thread \cup {None}, shared : [Thread -> Int]]]
  <2>1. srw'[l] = [srw[l] EXCEPT !.shared = [srw[l].shared EXCEPT ![t] = @ + 1]]
    BY <1>3 DEF Typed
  <2>2. srw'[l].shared = [srw[l].shared EXCEPT ![t] = @ + 1] /\ srw'[l].excl = None
    BY <1>3, <1>4, <2>1
  <2>3. srw'[l].shared \in [Thread -> Int]
    BY <1>4, <2>2
  <2>4. srw'[l] \in [excl : Thread \cup {None}, shared : [Thread -> Int]]
    BY <1>4, <2>1, <2>2, <2>3
  <2>5. srw' = [srw EXCEPT ![l] = srw'[l]]
    BY <1>3 DEF Typed
  <2> QED
    BY <1>3, <1>4, <2>2, <2>4, <2>5 DEF Typed
<1>6. /\ Exclusive(t, l)' = Exclusive(t, l)
      /\ Cardinality(Shared(t, l)') = Cardinality(Shared(t, l)) + 1
  BY <1>2, <1>3, MovesIn
<1>7. /\ \A u \in Thread, m \in Lock :
           (u # t \/ m # l) => Exclusive(u, m)' = Exclusive(u, m) /\ Shared(u, m)' = Shared(u, m)
      /\ \A u \in Thread, m \in Lock : Pending(u, m)' \subseteq Pending(u, m)
      /\ \A u \in Thread, m \in Lock, j \in Index :
           j \in Pending(u, m)' => scope'[u][j].shared = scope[u][j].shared
  BY <1>2, <1>3, Frame
<1>8. \A u \in Thread : Pending(u, l) = {} /\ Exclusive(u, l) = {}
  BY <1>3 DEF IInv, HoldersHold
<1>9. Typed'
  BY <1>3, <1>5, TypesMove DEF Typed
<1>10. OneBusyScope'
  BY <1>3, BusyMove
<1>11. HoldersHold'
  <2> SUFFICES ASSUME NEW u \in Thread, NEW m \in Lock
               PROVE  /\ Exclusive(u, m)' # {} => srw'[m].excl = u
                      /\ Pending(u, m)' # {} => srw'[m].excl = u /\ owner'[m] = NoOwner
                      /\ \A j \in Pending(u, m)' : ~scope'[u][j].shared
    BY DEF HoldersHold
  <2>1. CASE m = l
    BY <1>6, <1>7, <1>8, <2>1
  <2>2. CASE m # l
    BY <1>3, <1>5, <1>7, <2>2 DEF IInv, HoldersHold, Pending
  <2> QED
    BY <2>1, <2>2
<1>12. OwnerHolds'
  BY <1>3, <1>4, <1>5 DEF IInv, OwnerHolds
<1>13. OwnerExact'
  BY <1>3, <1>6, <1>7 DEF IInv, OwnerExact, Owns
<1>14. SharedExact'
  <2> SUFFICES ASSUME NEW m \in Lock, NEW u \in Thread
               PROVE  srw'[m].shared[u] = IF owner'[m].threadId = u THEN 0 ELSE Cardinality(Shared(u, m)')
    BY DEF SharedExact, Owns
  <2>1. CASE u = t /\ m = l
    BY <1>3, <1>4, <1>5, <1>6, <2>1 DEF IInv, SharedExact, Owns
  <2>2. CASE u # t \/ m # l
    <3>1. srw'[m].shared[u] = srw[m].shared[u]
      BY <1>5, <2>2
    <3>2. Shared(u, m)' = Shared(u, m)
      BY <1>7, <2>2
    <3> QED
      BY <1>3, <3>1, <3>2 DEF IInv, SharedExact, Owns
  <2> QED
    BY <2>1, <2>2
<1>15. SharedInside'
  <2> SUFFICES ASSUME NEW u \in Thread, NEW m \in Lock, Owns(u, m)', NEW j \in Shared(u, m)'
               PROVE  \E k \in Exclusive(u, m)' : k < j
    BY DEF SharedInside
  <2>1. Owns(u, m) /\ m # l
    BY <1>3, <1>4 DEF Owns
  <2> QED
    BY <1>7, <2>1 DEF IInv, SharedInside
<1> QED
  BY <1>9, <1>10, <1>11, <1>12, <1>13, <1>14, <1>15 DEF IInv

\* A thread that is not at the end of Unlock() and not at the end of Lock() has
\* booked all its exclusive scopes.
LEMMA AllBooked ==
  ASSUME Typed, OneBusyScope, NEW t \in Thread, ~Releasing(t), At(t) # "own"
  PROVE  \A j \in Index : scope[t][j].at \notin Unbooked
<1> SUFFICES ASSUME NEW j \in Index, scope[t][j].at \in Unbooked PROVE FALSE
  OBVIOUS
<1>1. scope[t][j] \in Scope /\ j <= depth[t] /\ depth[t] \in Nat
  BY DEF Typed, Index, NoScope, Unbooked
<1>2. CASE scope[t][j].at = "clear"
  BY <1>1, <1>2 DEF Releasing, Index
<1>3. CASE scope[t][j].at = "own"
  <2>1. j = depth[t] /\ depth[t] # 0
    BY <1>1, <1>3 DEF OneBusyScope, InLock, Index
  <2> QED
    BY <1>3, <2>1 DEF At
<1> QED
  BY <1>2, <1>3 DEF Unbooked

\* An exclusive grant keeps the books: nobody holds the lock in any mode then.
LEMMA GrantExclusiveKeeps ==
  ASSUME IInv, NEW t \in Thread, At(t) \in {"wait", "try"}, Grant(t, depth[t]),
         ~scope[t][depth[t]].shared, ~Releasing(t)
  PROVE  IInv'
<1>1. PICK i \in 1..depth[t] :
        /\ i = depth[t] /\ i \in Index /\ scope[t][i].at \in {"wait", "try"}
        /\ scope[t][i] \in Scope
  BY Innermost, NoScopeIsNone DEF IInv, Stage
<1>2. PICK l \in Lock : l = scope[t][i].lock
  BY <1>1 DEF Scope
<1>3. /\ Typed /\ OneBusyScope /\ Move(t, i, "own") /\ UNCHANGED owner /\ UNCHANGED depth
      /\ "own" \in Stage /\ "own" \in Stage \ {"held"}
      /\ scope[t][i].at # "held" /\ ~scope[t][i].shared
      /\ srw[l].excl = None /\ (\A u \in Thread : srw[l].shared[u] = 0)
      /\ srw' = [srw EXCEPT ![l].excl = t]
  BY <1>1, <1>2 DEF IInv, Grant, Grantable, Stage
<1>4. /\ owner[l] = NoOwner /\ owner[l].threadId = None
      /\ srw[l] \in [excl : Thread \cup {None}, shared : [Thread -> Int]]
  BY <1>3 DEF IInv, OwnerHolds, Typed
<1>5. /\ srw'[l].excl = t /\ srw'[l].shared = srw[l].shared
      /\ \A m \in Lock : m # l => srw'[m] = srw[m]
      /\ srw' \in [Lock -> [excl : Thread \cup {None}, shared : [Thread -> Int]]]
  <2>1. srw'[l] = [srw[l] EXCEPT !.excl = t]
    BY <1>3 DEF Typed
  <2>2. srw'[l] \in [excl : Thread \cup {None}, shared : [Thread -> Int]]
    BY <1>4, <2>1
  <2>3. srw' = [srw EXCEPT ![l] = srw'[l]]
    BY <1>3 DEF Typed
  <2> QED
    BY <1>3, <1>4, <2>1, <2>2, <2>3 DEF Typed
<1>6. \A u \in Thread, m \in Lock :
        Exclusive(u, m)' = Exclusive(u, m) /\ Shared(u, m)' = Shared(u, m)
  BY <1>3, MovesAside
<1>7. /\ \A u \in Thread, m \in Lock :
           (u # t \/ m # l) => Pending(u, m)' \subseteq Pending(u, m)
      /\ Pending(t, l)' \subseteq Pending(t, l) \cup {i}
      /\ \A u \in Thread, m \in Lock, j \in Index :
           j \in Pending(u, m)' => scope'[u][j].shared = scope[u][j].shared
  BY <1>2, <1>3, Frame
<1>8. \A u \in Thread : Pending(u, l) = {} /\ Exclusive(u, l) = {}
  BY <1>3 DEF IInv, HoldersHold
<1>9. Typed'
  BY <1>3, <1>5, TypesMove DEF Typed
<1>10. OneBusyScope'
  <2>1. \A j \in Index : scope[t][j].at \notin Unbooked
    BY <1>3, AllBooked
  <2> QED
    BY <1>1, <1>3, <2>1, BusyMove
<1>11. HoldersHold'
  <2> SUFFICES ASSUME NEW u \in Thread, NEW m \in Lock
               PROVE  /\ Exclusive(u, m)' # {} => srw'[m].excl = u
                      /\ Pending(u, m)' # {} => srw'[m].excl = u /\ owner'[m] = NoOwner
                      /\ \A j \in Pending(u, m)' : ~scope'[u][j].shared
    BY DEF HoldersHold
  <2>1. CASE m = l /\ u = t
    BY <1>1, <1>3, <1>4, <1>5, <1>6, <1>7, <1>8, <2>1
  <2>2. CASE m = l /\ u # t
    BY <1>6, <1>7, <1>8, <2>2
  <2>3. CASE m # l
    BY <1>3, <1>5, <1>6, <1>7, <2>3 DEF IInv, HoldersHold, Pending
  <2> QED
    BY <2>1, <2>2, <2>3
<1>12. OwnerHolds'
  BY <1>3, <1>4, <1>5 DEF IInv, OwnerHolds
<1>13. OwnerExact' /\ SharedInside'
  BY <1>3, <1>6 DEF IInv, OwnerExact, SharedInside, Owns
<1>14. SharedExact'
  <2>1. \A m \in Lock, u \in Thread : srw'[m].shared[u] = srw[m].shared[u]
    BY <1>5
  <2> QED
    BY <1>3, <1>6, <2>1 DEF IInv, SharedExact, Owns
<1> QED
  BY <1>9, <1>10, <1>11, <1>12, <1>13, <1>14 DEF IInv

\* Booking the owner after the grant keeps the books.
LEMMA OwnKeeps ==
  ASSUME IInv, NEW t \in Thread, At(t) = "own", Own(t, depth[t])
  PROVE  IInv'
<1>1. PICK i \in 1..depth[t] :
        i = depth[t] /\ i \in Index /\ scope[t][i].at = "own" /\ scope[t][i] \in Scope
  BY Innermost, NoScopeIsNone DEF IInv, Stage
<1>2. PICK l \in Lock : l = scope[t][i].lock
  BY <1>1 DEF Scope
<1>3. /\ Typed /\ OneBusyScope /\ Move(t, i, "held") /\ UNCHANGED srw /\ UNCHANGED depth
      /\ "held" \in Stage /\ "held" \notin Unbooked /\ "held" \notin InLock
      /\ scope[t][i].at # "held"
      /\ owner' = [owner EXCEPT ![l] = [threadId |-> t, count |-> 1]]
  BY <1>1, <1>2 DEF IInv, Own, Stage, Unbooked, InLock
<1>4. i \in Pending(t, l) /\ Pending(t, l) \subseteq {i}
  BY <1>1, <1>2, <1>3 DEF Pending, OneBusyScope, Unbooked
<1>5. /\ srw[l].excl = t /\ owner[l] = NoOwner /\ owner[l].threadId = None
      /\ ~scope[t][i].shared /\ t # None
  BY <1>4 DEF IInv, HoldersHold, NoOwner
<1>6. /\ owner'[l].threadId = t /\ owner'[l].count = 1
      /\ \A m \in Lock : m # l => owner'[m] = owner[m]
      /\ owner' \in [Lock -> [threadId : Thread \cup {None}, count : Int]]
  <2>1. [threadId |-> t, count |-> 1] \in [threadId : Thread \cup {None}, count : Int]
    OBVIOUS
  <2> QED
    BY <1>3, <2>1 DEF Typed
<1>7. /\ Exclusive(t, l)' = Exclusive(t, l) \cup {i} /\ Shared(t, l)' = Shared(t, l)
      /\ Cardinality(Exclusive(t, l)') = Cardinality(Exclusive(t, l)) + 1
  BY <1>2, <1>3, <1>5, MovesIn
<1>8. /\ \A u \in Thread, m \in Lock :
           (u # t \/ m # l) => Exclusive(u, m)' = Exclusive(u, m) /\ Shared(u, m)' = Shared(u, m)
      /\ \A u \in Thread, m \in Lock : Pending(u, m)' \subseteq Pending(u, m)
      /\ Pending(t, l)' \subseteq Pending(t, l) \ {i}
      /\ \A u \in Thread, m \in Lock, j \in Index :
           j \in Pending(u, m)' => scope'[u][j].shared = scope[u][j].shared
  BY <1>2, <1>3, Frame
<1>9. \A u \in Thread : u # t => Pending(u, l) = {} /\ Exclusive(u, l) = {}
  BY <1>5 DEF IInv, HoldersHold
<1>10. \A u \in Thread : srw[l].shared[u] = 0
  BY <1>5 DEF IInv, OwnerHolds
<1>11. Typed'
  BY <1>3, <1>6, TypesMove DEF Typed
<1>12. OneBusyScope'
  BY <1>3, BusyMove
<1>13. HoldersHold'
  <2> SUFFICES ASSUME NEW u \in Thread, NEW m \in Lock
               PROVE  /\ Exclusive(u, m)' # {} => srw'[m].excl = u
                      /\ Pending(u, m)' # {} => srw'[m].excl = u /\ owner'[m] = NoOwner
                      /\ \A j \in Pending(u, m)' : ~scope'[u][j].shared
    BY DEF HoldersHold
  <2>1. CASE m = l /\ u = t
    BY <1>3, <1>4, <1>5, <1>8, <2>1
  <2>2. CASE m = l /\ u # t
    BY <1>8, <1>9, <2>2
  <2>3. CASE m # l
    BY <1>3, <1>6, <1>8, <2>3 DEF IInv, HoldersHold, Pending
  <2> QED
    BY <2>1, <2>2, <2>3
<1>14. OwnerHolds'
  <2>1. \A m \in Lock : m # l => owner'[m] = owner[m]
    BY <1>6
  <2> QED
    BY <1>3, <1>5, <1>6, <1>10, <2>1 DEF IInv, OwnerHolds
<1>15. OwnerExact'
  <2> SUFFICES ASSUME NEW m \in Lock, NEW u \in Thread
               PROVE  Cardinality(Exclusive(u, m)') = IF owner'[m].threadId = u THEN owner'[m].count ELSE 0
    BY DEF OwnerExact, Owns
  <2>1. CASE u = t /\ m = l
    <3>1. Cardinality(Exclusive(t, l)) = 0
      BY <1>5 DEF IInv, OwnerExact, Owns
    <3>2. Cardinality(Exclusive(t, l)') = 1
      BY <1>7, <3>1
    <3> QED
      BY <1>6, <2>1, <3>2
  <2>2. CASE u # t \/ m # l
    <3>1. Cardinality(Exclusive(u, m)') = IF owner[m].threadId = u THEN owner[m].count ELSE 0
      BY <1>8, <2>2 DEF IInv, OwnerExact, Owns
    <3> QED
      BY <1>5, <1>6, <2>2, <3>1
  <2> QED
    BY <2>1, <2>2
<1>16. SharedExact'
  <2> SUFFICES ASSUME NEW m \in Lock, NEW u \in Thread
               PROVE  srw[m].shared[u] = IF owner'[m].threadId = u THEN 0 ELSE Cardinality(Shared(u, m)')
    BY <1>3 DEF SharedExact, Owns
  <2>1. CASE u = t /\ m = l
    BY <1>6, <1>10, <2>1
  <2>2. CASE u # t \/ m # l
    BY <1>5, <1>6, <1>8, <2>2 DEF IInv, SharedExact, Owns
  <2> QED
    BY <2>1, <2>2
<1>17. SharedInside'
  <2>1. Shared(t, l) = {}
    BY <1>5, <1>10, FiniteHolds DEF IInv, SharedExact, Owns
  <2> SUFFICES ASSUME NEW u \in Thread, NEW m \in Lock, Owns(u, m)', NEW j \in Shared(u, m)'
               PROVE  \E k \in Exclusive(u, m)' : k < j
    BY DEF SharedInside
  <2>2. u # t \/ m # l
    BY <1>7, <2>1
  <2>3. Owns(u, m)
    BY <1>6, <2>2 DEF Owns
  <2> QED
    BY <1>8, <2>2, <2>3 DEF IInv, SharedInside
<1> QED
  BY <1>11, <1>12, <1>13, <1>14, <1>15, <1>16, <1>17 DEF IInv

\* A shared Unlock() keeps the books.
LEMMA ReleaseSharedKeeps ==
  ASSUME IInv, NEW t \in Thread, NEW i \in 1..depth[t], scope[t][i].at = "held",
         scope[t][i].shared, ReleaseShared(t, i)
  PROVE  IInv'
<1>1. i \in Index /\ scope[t][i] \in Scope
  BY DEF IInv, Typed, Index
<1>2. PICK l \in Lock : l = scope[t][i].lock
  BY <1>1 DEF Scope
<1>3. /\ Typed /\ OneBusyScope /\ Move(t, i, "released") /\ UNCHANGED owner /\ UNCHANGED depth
      /\ "released" \in Stage /\ "released" \in Stage \ {"held"}
      /\ "released" \notin Unbooked /\ "released" \notin InLock
      /\ srw' = IF Owns(t, l) THEN srw ELSE [srw EXCEPT ![l].shared[t] = @ - 1]
  BY <1>2 DEF IInv, ReleaseShared, Stage, Unbooked, InLock
<1>4. srw[l] \in [excl : Thread \cup {None}, shared : [Thread -> Int]]
  BY <1>3 DEF Typed
<1>5. i \in Shared(t, l) /\ Cardinality(Shared(t, l)) \in Nat /\ Cardinality(Shared(t, l)) # 0
  <2>1. i \in Shared(t, l)
    BY <1>1, <1>2 DEF Shared, Exclusive, Holds, Index
  <2> QED
    BY <2>1, FiniteHolds
<1>6. /\ Exclusive(t, l)' = Exclusive(t, l) \ {i} /\ Shared(t, l)' = Shared(t, l) \ {i}
      /\ Cardinality(Shared(t, l)') = Cardinality(Shared(t, l)) - 1
      /\ Exclusive(t, l)' = Exclusive(t, l)
  <2>1. /\ Exclusive(t, l)' = Exclusive(t, l) \ {i} /\ Shared(t, l)' = Shared(t, l) \ {i}
        /\ Cardinality(Shared(t, l)') =
             Cardinality(Shared(t, l)) - (IF scope[t][i].shared THEN 1 ELSE 0)
    BY <1>2, <1>3, MovesOut
  <2>2. i \notin Exclusive(t, l)
    BY <1>5 DEF Shared
  <2> QED
    BY <2>1, <2>2
<1>7. /\ \A u \in Thread, m \in Lock :
           (u # t \/ m # l) => Exclusive(u, m)' = Exclusive(u, m) /\ Shared(u, m)' = Shared(u, m)
      /\ \A u \in Thread, m \in Lock : Pending(u, m)' \subseteq Pending(u, m)
      /\ \A u \in Thread, m \in Lock, j \in Index :
           j \in Pending(u, m)' => scope'[u][j].shared = scope[u][j].shared
  BY <1>2, <1>3, Frame
<1>8. \A u \in Thread, m \in Lock :
        Exclusive(u, m)' = Exclusive(u, m) /\ Shared(u, m)' \subseteq Shared(u, m)
  BY <1>6, <1>7
<1>9. /\ \A m \in Lock : srw'[m].excl = srw[m].excl
      /\ \A m \in Lock, u \in Thread : (m # l \/ u # t) => srw'[m].shared[u] = srw[m].shared[u]
      /\ ~Owns(t, l) => srw'[l].shared[t] = srw[l].shared[t] - 1
      /\ Owns(t, l) => srw' = srw
      /\ srw' \in [Lock -> [excl : Thread \cup {None}, shared : [Thread -> Int]]]
  <2>1. CASE Owns(t, l)
    BY <1>3, <2>1 DEF Typed
  <2>2. CASE ~Owns(t, l)
    <3>1. srw'[l] = [srw[l] EXCEPT !.shared = [srw[l].shared EXCEPT ![t] = @ - 1]]
      BY <1>3, <2>2 DEF Typed
    <3>2. /\ srw'[l].shared = [srw[l].shared EXCEPT ![t] = @ - 1] /\ srw'[l].excl = srw[l].excl
      BY <1>4, <3>1
    <3>3. srw'[l].shared \in [Thread -> Int]
      BY <1>4, <3>2
    <3>4. srw'[l] \in [excl : Thread \cup {None}, shared : [Thread -> Int]]
      BY <1>4, <3>1, <3>2, <3>3
    <3>5. srw' = [srw EXCEPT ![l] = srw'[l]]
      BY <1>3, <2>2 DEF Typed
    <3> QED
      BY <1>3, <1>4, <2>2, <3>2, <3>4, <3>5 DEF Typed
  <2> QED
    BY <2>1, <2>2
<1>10. Typed'
  BY <1>3, <1>9, TypesMove DEF Typed
<1>11. OneBusyScope'
  BY <1>3, BusyMove
<1>12. HoldersHold'
  <2> SUFFICES ASSUME NEW u \in Thread, NEW m \in Lock
               PROVE  /\ Exclusive(u, m)' # {} => srw'[m].excl = u
                      /\ Pending(u, m)' # {} => srw'[m].excl = u /\ owner'[m] = NoOwner
                      /\ \A j \in Pending(u, m)' : ~scope'[u][j].shared
    BY DEF HoldersHold
  <2>1. srw'[m].excl = srw[m].excl /\ owner'[m] = owner[m]
    BY <1>3, <1>9
  <2> QED
    BY <1>7, <1>8, <2>1 DEF IInv, HoldersHold, Pending
<1>13. OwnerHolds'
  <2> SUFFICES ASSUME NEW m \in Lock, srw'[m].excl # None, NEW u \in Thread
               PROVE  srw'[m].shared[u] = 0
    BY <1>3, <1>9 DEF IInv, OwnerHolds
  <2>1. srw[m].shared[u] = 0
    BY <1>9 DEF IInv, OwnerHolds
  <2>2. CASE m = l /\ u = t
    <3>1. Owns(t, l)
      BY <1>5, <2>1, <2>2 DEF IInv, SharedExact
    <3> QED
      BY <1>9, <2>1, <3>1
  <2>3. CASE m # l \/ u # t
    BY <1>9, <2>1, <2>3
  <2> QED
    BY <2>2, <2>3
<1>14. OwnerExact'
  BY <1>3, <1>8 DEF IInv, OwnerExact, Owns
<1>15. SharedExact'
  <2> SUFFICES ASSUME NEW m \in Lock, NEW u \in Thread
               PROVE  srw'[m].shared[u] = IF Owns(u, m) THEN 0 ELSE Cardinality(Shared(u, m)')
    BY <1>3 DEF SharedExact, Owns
  <2>1. CASE u = t /\ m = l
    <3>1. srw[l].shared[t] = IF Owns(t, l) THEN 0 ELSE Cardinality(Shared(t, l))
      BY DEF IInv, SharedExact
    <3> QED
      BY <1>6, <1>9, <2>1, <3>1
  <2>2. CASE u # t \/ m # l
    BY <1>7, <1>9, <2>2 DEF IInv, SharedExact
  <2> QED
    BY <2>1, <2>2
<1>16. SharedInside'
  BY <1>3, <1>8 DEF IInv, SharedInside, Owns
<1> QED
  BY <1>10, <1>11, <1>12, <1>13, <1>14, <1>15, <1>16 DEF IInv

\* An exclusive Unlock() keeps the books, whether or not it is the last one.
LEMMA ReleaseExclusiveKeeps ==
  ASSUME IInv, NEW t \in Thread, NEW i \in 1..depth[t], ~Releasing(t),
         Unlock(t, i), ~scope[t][i].shared
  PROVE  IInv'
<1>1. i \in Index /\ scope[t][i] \in Scope /\ depth[t] \in 0..MaxScopes
  BY DEF IInv, Typed, Index
<1>2. PICK l \in Lock : l = scope[t][i].lock
  BY <1>1 DEF Scope
<1>3. /\ Typed /\ OneBusyScope /\ UNCHANGED srw /\ UNCHANGED depth
      /\ scope[t][i].at = "held" /\ Settled(t, i)
      /\ \A j \in (i + 1)..depth[t] :
            scope[t][j].at = "held" => scope[t][j].lock # scope[t][i].lock
      /\ IF owner[l].count = 1
         THEN owner' = [owner EXCEPT ![l] = NoOwner] /\ Move(t, i, "clear")
         ELSE owner' = [owner EXCEPT ![l].count = @ - 1] /\ Move(t, i, "released")
  BY <1>2 DEF IInv, Unlock, ReleaseExclusive
<1> DEFINE stage == IF owner[l].count = 1 THEN "clear" ELSE "released"
<1>4. /\ Move(t, i, stage) /\ stage \in Stage /\ stage \in Stage \ {"held"} /\ stage \notin InLock
      /\ stage = "clear" <=> owner[l].count = 1
      /\ stage \in Unbooked <=> stage = "clear"
  BY <1>3 DEF Stage, InLock, Unbooked
<1>5. i \in Exclusive(t, l) /\ Cardinality(Exclusive(t, l)) \in Nat /\ Cardinality(Exclusive(t, l)) # 0
  <2>1. i \in Exclusive(t, l)
    BY <1>1, <1>2, <1>3 DEF Exclusive, Holds, Index
  <2> QED
    BY <2>1, FiniteHolds
<1>6. /\ owner[l].threadId = t /\ owner[l].count = Cardinality(Exclusive(t, l))
      /\ srw[l].excl = t /\ t # None
      /\ owner[l] \in [threadId : Thread \cup {None}, count : Int]
  <2>1. Owns(t, l) /\ owner[l].count = Cardinality(Exclusive(t, l))
    BY <1>5 DEF IInv, OwnerExact
  <2> QED
    BY <1>3, <1>5, <2>1 DEF IInv, HoldersHold, Owns, Typed
<1>7. /\ stage = "clear" => owner'[l] = NoOwner
      /\ stage # "clear" => /\ owner'[l].threadId = t
                            /\ owner'[l].count = owner[l].count - 1
                            /\ owner'[l].count > 0
      /\ \A m \in Lock : m # l => owner'[m] = owner[m]
      /\ owner' \in [Lock -> [threadId : Thread \cup {None}, count : Int]]
  <2>1. CASE owner[l].count = 1
    <3>1. NoOwner \in [threadId : Thread \cup {None}, count : Int]
      BY DEF NoOwner
    <3> QED
      BY <1>3, <1>4, <2>1, <3>1 DEF Typed
  <2>2. CASE owner[l].count # 1
    <3>1. owner'[l] = [owner[l] EXCEPT !.count = @ - 1]
      BY <1>3, <2>2 DEF Typed
    <3>2. /\ owner'[l].threadId = t /\ owner'[l].count = owner[l].count - 1
          /\ owner'[l].count \in Int /\ owner'[l].count > 0
      BY <1>5, <1>6, <2>2, <3>1
    <3>3. owner'[l] \in [threadId : Thread \cup {None}, count : Int]
      BY <1>6, <3>1, <3>2
    <3>4. owner' = [owner EXCEPT ![l] = owner'[l]]
      BY <1>3, <2>2 DEF Typed
    <3> QED
      BY <1>3, <1>4, <2>2, <3>2, <3>3, <3>4 DEF Typed
  <2> QED
    BY <2>1, <2>2
<1>8. /\ Exclusive(t, l)' = Exclusive(t, l) \ {i} /\ Shared(t, l)' = Shared(t, l)
      /\ Cardinality(Exclusive(t, l)') = Cardinality(Exclusive(t, l)) - 1
  <2>1. /\ Exclusive(t, l)' = Exclusive(t, l) \ {i} /\ Shared(t, l)' = Shared(t, l) \ {i}
        /\ Cardinality(Exclusive(t, l)') =
             Cardinality(Exclusive(t, l)) - (IF scope[t][i].shared THEN 0 ELSE 1)
    BY <1>2, <1>3, <1>4, MovesOut
  <2>2. i \notin Shared(t, l)
    BY <1>5 DEF Shared
  <2> QED
    BY <2>1, <2>2
<1>9. /\ \A u \in Thread, m \in Lock :
           (u # t \/ m # l) => Exclusive(u, m)' = Exclusive(u, m) /\ Shared(u, m)' = Shared(u, m)
      /\ \A u \in Thread, m \in Lock :
           (u # t \/ m # l \/ stage \notin Unbooked) => Pending(u, m)' \subseteq Pending(u, m)
      /\ Pending(t, l)' \subseteq Pending(t, l) \cup {i}
      /\ \A u \in Thread, m \in Lock, j \in Index :
           j \in Pending(u, m)' => scope'[u][j].shared = scope[u][j].shared
  BY <1>2, <1>3, <1>4, Frame
<1>10. \A u \in Thread : Pending(u, l) = {} /\ (u # t => Exclusive(u, l) = {})
  BY <1>6 DEF IInv, HoldersHold, NoOwner
\* Only the released scope could have protected the shared scopes inside it.
<1>11. \A j \in Shared(t, l) : \E k \in Exclusive(t, l) \ {i} : k < j
  <2> SUFFICES ASSUME NEW j \in Shared(t, l)
               PROVE  \E k \in Exclusive(t, l) \ {i} : k < j
    OBVIOUS
  <2>1. PICK k \in Exclusive(t, l) : k < j
    BY <1>6 DEF IInv, SharedInside, Owns
  <2>2. j \in Holds(t, l) /\ j \in Index /\ j <= depth[t]
    BY <1>3, HoldsWithin DEF Shared
  <2>3. ~(i < j)
    BY <1>1, <1>2, <1>3, <2>2 DEF Holds, Index
  <2> QED
    BY <2>1, <2>3
<1>12. Typed'
  BY <1>3, <1>4, <1>7, TypesMove DEF Typed
<1>13. OneBusyScope'
  <2>1. At(t) # "own"
    BY <1>1, <1>3 DEF At, Settled
  <2>2. \A j \in Index : scope[t][j].at \notin Unbooked
    BY <1>3, <2>1, AllBooked
  <2> QED
    BY <1>3, <1>4, <2>2, BusyMove
<1>14. HoldersHold'
  <2> SUFFICES ASSUME NEW u \in Thread, NEW m \in Lock
               PROVE  /\ Exclusive(u, m)' # {} => srw'[m].excl = u
                      /\ Pending(u, m)' # {} => srw'[m].excl = u /\ owner'[m] = NoOwner
                      /\ \A j \in Pending(u, m)' : ~scope'[u][j].shared
    BY DEF HoldersHold
  <2>1. CASE m = l /\ u = t
    BY <1>1, <1>3, <1>4, <1>6, <1>7, <1>9, <1>10, <2>1
  <2>2. CASE m = l /\ u # t
    BY <1>9, <1>10, <2>2
  <2>3. CASE m # l
    BY <1>3, <1>7, <1>9, <2>3 DEF IInv, HoldersHold, Pending
  <2> QED
    BY <2>1, <2>2, <2>3
<1>15. OwnerHolds'
  <2> SUFFICES ASSUME NEW m \in Lock
               PROVE  /\ owner'[m].threadId # None => srw[m].excl = owner'[m].threadId /\ owner'[m].count > 0
                      /\ owner'[m].threadId = None => owner'[m] = NoOwner
    BY <1>3 DEF IInv, OwnerHolds
  <2>1. CASE m = l
    BY <1>6, <1>7, <2>1 DEF NoOwner
  <2>2. CASE m # l
    BY <1>7, <2>2 DEF IInv, OwnerHolds
  <2> QED
    BY <2>1, <2>2
<1>16. OwnerExact'
  <2> SUFFICES ASSUME NEW m \in Lock, NEW u \in Thread
               PROVE  Cardinality(Exclusive(u, m)') = IF owner'[m].threadId = u THEN owner'[m].count ELSE 0
    BY DEF OwnerExact, Owns
  <2>1. CASE u = t /\ m = l
    <3>1. Cardinality(Exclusive(t, l)') = owner[l].count - 1
      BY <1>6, <1>8
    <3>2. CASE stage = "clear"
      BY <1>4, <1>6, <1>7, <2>1, <3>1, <3>2 DEF NoOwner
    <3>3. CASE stage # "clear"
      BY <1>7, <2>1, <3>1, <3>3
    <3> QED
      BY <3>2, <3>3
  <2>2. CASE u # t \/ m # l
    <3>1. Cardinality(Exclusive(u, m)') = IF owner[m].threadId = u THEN owner[m].count ELSE 0
      BY <1>9, <2>2 DEF IInv, OwnerExact, Owns
    <3>2. CASE m # l
      BY <1>7, <3>1, <3>2
    <3>3. CASE m = l
      BY <1>6, <1>7, <2>2, <3>1, <3>3 DEF NoOwner
    <3> QED
      BY <3>2, <3>3
  <2> QED
    BY <2>1, <2>2
<1>17. SharedExact'
  <2> SUFFICES ASSUME NEW m \in Lock, NEW u \in Thread
               PROVE  srw[m].shared[u] = IF owner'[m].threadId = u THEN 0 ELSE Cardinality(Shared(u, m)')
    BY <1>3 DEF SharedExact, Owns
  <2>1. Shared(u, m)' = Shared(u, m)
    BY <1>8, <1>9
  <2>2. srw[m].shared[u] = IF owner[m].threadId = u THEN 0 ELSE Cardinality(Shared(u, m))
    BY DEF IInv, SharedExact, Owns
  <2>3. CASE m # l
    BY <1>7, <2>1, <2>2, <2>3
  <2>4. CASE m = l /\ u # t
    BY <1>6, <1>7, <2>1, <2>2, <2>4 DEF NoOwner
  <2>5. CASE m = l /\ u = t /\ stage # "clear"
    BY <1>6, <1>7, <2>2, <2>5
  <2>6. CASE m = l /\ u = t /\ stage = "clear"
    <3>1. Exclusive(t, l)' = {}
      <4>1. Cardinality(Exclusive(t, l)) = 1 /\ IsFiniteSet(Exclusive(t, l))
        BY <1>4, <1>6, <2>6, FiniteHolds
      <4>2. Exclusive(t, l) = {i}
        BY <1>5, <4>1, FS_Singleton
      <4> QED
        BY <1>8, <4>2
    <3>2. Shared(t, l) = {}
      BY <1>8, <1>11, <3>1
    <3> QED
      BY <1>6, <1>7, <2>1, <2>2, <2>6, <3>2, FS_EmptySet DEF NoOwner
  <2> QED
    BY <2>3, <2>4, <2>5, <2>6
<1>18. SharedInside'
  <2> SUFFICES ASSUME NEW u \in Thread, NEW m \in Lock, Owns(u, m)', NEW j \in Shared(u, m)'
               PROVE  \E k \in Exclusive(u, m)' : k < j
    BY DEF SharedInside
  <2>1. CASE u = t /\ m = l
    BY <1>8, <1>11, <2>1
  <2>2. CASE u # t \/ m # l
    <3>1. Owns(u, m)
      BY <1>7, <2>2 DEF Owns, NoOwner
    <3> QED
      BY <1>9, <2>2, <3>1 DEF IInv, SharedInside
  <2> QED
    BY <2>1, <2>2
<1> QED
  BY <1>12, <1>13, <1>14, <1>15, <1>16, <1>17, <1>18 DEF IInv

\* Handing the SRW lock back keeps the books.
LEMMA HandBackKeeps ==
  ASSUME IInv, NEW t \in Thread, NEW i \in 1..depth[t], HandBack(t, i)
  PROVE  IInv'
<1>1. i \in Index /\ scope[t][i] \in Scope
  BY DEF IInv, Typed, Index
<1>2. PICK l \in Lock : l = scope[t][i].lock
  BY <1>1 DEF Scope
<1>3. /\ Typed /\ OneBusyScope /\ Move(t, i, "released") /\ UNCHANGED owner /\ UNCHANGED depth
      /\ "released" \in Stage /\ "released" \in Stage \ {"held"}
      /\ "released" \notin Unbooked /\ "released" \notin InLock
      /\ scope[t][i].at = "clear" /\ scope[t][i].at # "held"
      /\ srw' = [srw EXCEPT ![l].excl = None]
  BY <1>2 DEF IInv, HandBack, Stage, Unbooked, InLock
<1>4. i \in Pending(t, l) /\ Pending(t, l) \subseteq {i}
  BY <1>1, <1>2, <1>3 DEF Pending, OneBusyScope, Unbooked
<1>5. /\ srw[l].excl = t /\ owner[l] = NoOwner /\ owner[l].threadId = None /\ t # None
      /\ srw[l] \in [excl : Thread \cup {None}, shared : [Thread -> Int]]
  BY <1>3, <1>4 DEF IInv, HoldersHold, NoOwner, Typed
<1>6. /\ srw'[l].excl = None /\ srw'[l].shared = srw[l].shared
      /\ \A m \in Lock : m # l => srw'[m] = srw[m]
      /\ srw' \in [Lock -> [excl : Thread \cup {None}, shared : [Thread -> Int]]]
  <2>1. srw'[l] = [srw[l] EXCEPT !.excl = None]
    BY <1>3 DEF Typed
  <2>2. srw'[l] \in [excl : Thread \cup {None}, shared : [Thread -> Int]]
    BY <1>5, <2>1
  <2>3. srw' = [srw EXCEPT ![l] = srw'[l]]
    BY <1>3 DEF Typed
  <2> QED
    BY <1>3, <1>5, <2>1, <2>2, <2>3 DEF Typed
<1>7. \A u \in Thread, m \in Lock :
        Exclusive(u, m)' = Exclusive(u, m) /\ Shared(u, m)' = Shared(u, m)
  BY <1>3, MovesAside
<1>8. /\ \A u \in Thread, m \in Lock : Pending(u, m)' \subseteq Pending(u, m)
      /\ Pending(t, l)' \subseteq Pending(t, l) \ {i}
      /\ \A u \in Thread, m \in Lock, j \in Index :
           j \in Pending(u, m)' => scope'[u][j].shared = scope[u][j].shared
  BY <1>2, <1>3, Frame
<1>9. \A u \in Thread : Exclusive(u, l) = {} /\ (u # t => Pending(u, l) = {})
  <2>1. Exclusive(t, l) = {}
    BY <1>5, FiniteHolds DEF IInv, OwnerExact, Owns
  <2> QED
    BY <1>5, <2>1 DEF IInv, HoldersHold
<1>10. Typed'
  BY <1>3, <1>6, TypesMove DEF Typed
<1>11. OneBusyScope'
  BY <1>3, BusyMove
<1>12. HoldersHold'
  <2> SUFFICES ASSUME NEW u \in Thread, NEW m \in Lock
               PROVE  /\ Exclusive(u, m)' # {} => srw'[m].excl = u
                      /\ Pending(u, m)' # {} => srw'[m].excl = u /\ owner'[m] = NoOwner
                      /\ \A j \in Pending(u, m)' : ~scope'[u][j].shared
    BY DEF HoldersHold
  <2>1. CASE m = l
    BY <1>4, <1>7, <1>8, <1>9, <2>1
  <2>2. CASE m # l
    BY <1>3, <1>6, <1>7, <1>8, <2>2 DEF IInv, HoldersHold, Pending
  <2> QED
    BY <2>1, <2>2
<1>13. OwnerHolds'
  BY <1>3, <1>5, <1>6 DEF IInv, OwnerHolds
<1>14. OwnerExact' /\ SharedInside'
  BY <1>3, <1>7 DEF IInv, OwnerExact, SharedInside, Owns
<1>15. SharedExact'
  <2>1. \A m \in Lock, u \in Thread : srw'[m].shared[u] = srw[m].shared[u]
    BY <1>6
  <2> QED
    BY <1>3, <1>7, <2>1 DEF IInv, SharedExact, Owns
<1> QED
  BY <1>10, <1>11, <1>12, <1>13, <1>14, <1>15 DEF IInv

\* A scope that appears without its lock, or goes away without it, changes
\* nobody's holds.
LEMMA SameHolds ==
  ASSUME IInv, NEW t \in Thread, NEW i \in Index,
         \A u \in Thread, j \in Index : (u # t \/ j # i) => scope'[u][j] = scope[u][j],
         scope[t][i].at \notin {"held", "own", "clear"},
         scope'[t][i].at \notin {"held", "own", "clear"},
         UNCHANGED <<srw, owner>>
  PROVE  HoldersHold' /\ OwnerHolds' /\ SharedInside' /\ OwnerExact' /\ SharedExact'
<1>1. ASSUME NEW u \in Thread, NEW l \in Lock
      PROVE  /\ Exclusive(u, l)' = Exclusive(u, l) /\ Shared(u, l)' = Shared(u, l)
             /\ Pending(u, l)' = Pending(u, l)
             /\ \A j \in Pending(u, l) : scope'[u][j] = scope[u][j]
  <2>1. Holds(u, l)' = Holds(u, l)
    BY DEF Holds, Index
  <2>2. \A j \in Holds(u, l) : scope'[u][j] = scope[u][j]
    BY DEF Holds, Index
  <2>3. Pending(u, l)' = Pending(u, l)
    BY DEF Pending, Unbooked
  <2>4. \A j \in Pending(u, l) : scope'[u][j] = scope[u][j]
    BY DEF Pending, Unbooked
  <2> QED
    BY <2>1, <2>2, <2>3, <2>4 DEF Exclusive, Shared
<1>2. HoldersHold'
  BY <1>1 DEF IInv, HoldersHold
<1>3. OwnerHolds'
  BY DEF IInv, OwnerHolds
<1>4. SharedInside' /\ OwnerExact' /\ SharedExact'
  BY <1>1 DEF IInv, SharedInside, OwnerExact, SharedExact, Owns
<1> QED
  BY <1>2, <1>3, <1>4

\* A new scope keeps the books.
LEMMA EnterKeeps ==
  ASSUME IInv, NEW t \in Thread, NEW l \in Lock, NEW shared \in BOOLEAN, Enter(t, l, shared)
  PROVE  IInv'
<1>1. /\ Typed /\ depth[t] \in 0..MaxScopes /\ depth[t] < MaxScopes
  BY DEF IInv, Typed, Enter
<1>2. PICK i \in Index : i = depth[t] + 1
  BY <1>1 DEF Index
<1>3. /\ scope'[t][i] = [lock |-> l, shared |-> shared, at |-> "acquire"]
      /\ \A u \in Thread, j \in Index : (u # t \/ j # i) => scope'[u][j] = scope[u][j]
      /\ depth'[t] = i /\ \A u \in Thread : u # t => depth'[u] = depth[u]
      /\ UNCHANGED <<srw, owner>>
  BY <1>1, <1>2 DEF Enter, Typed, Index
<1>4. scope'[t][i] \in Scope /\ scope'[t][i].at = "acquire"
  BY <1>3 DEF Scope, Stage
<1>5. scope[t][i] = NoScope /\ scope[t][i].at = "none"
  <2>1. scope[t][i] \in Scope \cup {NoScope} /\ (scope[t][i] \in Scope <=> i <= depth[t])
    BY <1>1 DEF Typed, Index
  <2>2. scope[t][i] = NoScope
    BY <1>1, <1>2, <2>1 DEF Index
  <2> QED
    BY <2>2 DEF NoScope
<1>6. Typed'
  <2>1. /\ depth' \in [Thread -> 0..MaxScopes]
        /\ scope' \in [Thread -> [1..MaxScopes -> Scope \cup {NoScope}]]
    BY <1>1, <1>2, <1>3, <1>4 DEF Enter, Typed, Index
  <2>2. ASSUME NEW u \in Thread, NEW j \in 1..MaxScopes
        PROVE  scope'[u][j] \in Scope <=> j <= depth'[u]
    <3>1. CASE u = t /\ j = i
      BY <1>2, <1>3, <1>4, <3>1 DEF Index
    <3>2. CASE u = t /\ j # i
      <4>1. scope'[u][j] = scope[u][j] /\ (scope[u][j] \in Scope <=> j <= depth[t])
        BY <1>1, <1>3, <3>2 DEF Typed, Index
      <4> QED
        BY <1>1, <1>2, <1>3, <3>2, <4>1
    <3>3. CASE u # t
      BY <1>1, <1>3, <3>3 DEF Typed, Index
    <3> QED
      BY <3>1, <3>2, <3>3
  <2> QED
    BY <1>1, <1>3, <2>1, <2>2 DEF Typed
<1>7. OneBusyScope'
  <2>1. \A j \in Index : scope[t][j].at \notin InLock
    BY <1>1 DEF IInv, OneBusyScope, Enter, MayLock, At, InLock, Index
  <2>2. ASSUME NEW u \in Thread, NEW j \in Index, scope'[u][j].at \in InLock
        PROVE  j = depth'[u]
    BY <1>3, <2>1, <2>2 DEF IInv, OneBusyScope
  <2>3. ASSUME NEW u \in Thread, NEW j \in Index, NEW k \in Index,
               scope'[u][j].at \in Unbooked, scope'[u][k].at \in Unbooked
        PROVE  j = k
    <3>1. (u # t \/ j # i) /\ (u # t \/ k # i)
      BY <1>4, <2>3 DEF Unbooked
    <3> QED
      BY <1>3, <2>3, <3>1 DEF IInv, OneBusyScope
  <2> QED
    BY <2>2, <2>3 DEF OneBusyScope
<1>8. HoldersHold' /\ OwnerHolds' /\ SharedInside' /\ OwnerExact' /\ SharedExact'
  BY <1>3, <1>4, <1>5, SameHolds
<1> QED
  BY <1>6, <1>7, <1>8 DEF IInv

\* The end of a scope keeps the books.
LEMMA LeaveKeeps ==
  ASSUME IInv, NEW t \in Thread, Leave(t)
  PROVE  IInv'
<1>1. PICK i \in 1..depth[t] :
        /\ i = depth[t] /\ i \in Index /\ scope[t][i].at = "released" /\ Typed
        /\ depth[t] \in 0..MaxScopes
  BY Innermost DEF IInv, Leave, Typed
<1>2. /\ scope'[t][i] = NoScope
      /\ \A u \in Thread, j \in Index : (u # t \/ j # i) => scope'[u][j] = scope[u][j]
      /\ depth'[t] = i - 1 /\ \A u \in Thread : u # t => depth'[u] = depth[u]
      /\ UNCHANGED <<srw, owner>>
  BY <1>1 DEF Leave, Typed, Index
<1>3. scope'[t][i].at = "none" /\ scope'[t][i] \notin Scope
  BY <1>2, NoScopeIsNone DEF NoScope
<1>4. Typed'
  <2>1. /\ depth' \in [Thread -> 0..MaxScopes]
        /\ scope' \in [Thread -> [1..MaxScopes -> Scope \cup {NoScope}]]
    BY <1>1 DEF Leave, Typed, Index
  <2>2. ASSUME NEW u \in Thread, NEW j \in 1..MaxScopes
        PROVE  scope'[u][j] \in Scope <=> j <= depth'[u]
    <3>1. CASE u = t /\ j = i
      BY <1>1, <1>2, <1>3, <3>1
    <3>2. CASE u = t /\ j # i
      <4>1. scope'[u][j] = scope[u][j] /\ (scope[u][j] \in Scope <=> j <= depth[t])
        BY <1>1, <1>2, <3>2 DEF Typed, Index
      <4> QED
        BY <1>1, <1>2, <3>2, <4>1
    <3>3. CASE u # t
      BY <1>1, <1>2, <3>3 DEF Typed, Index
    <3> QED
      BY <3>1, <3>2, <3>3
  <2> QED
    BY <1>1, <1>2, <2>1, <2>2 DEF Typed
<1>5. OneBusyScope'
  <2>1. \A j \in Index : scope[t][j].at \notin InLock
    BY <1>1 DEF IInv, OneBusyScope, InLock
  <2>2. ASSUME NEW u \in Thread, NEW j \in Index, scope'[u][j].at \in InLock
        PROVE  j = depth'[u]
    <3>1. u # t \/ j # i
      BY <1>3, <2>2 DEF InLock
    <3> QED
      BY <1>2, <2>1, <2>2, <3>1 DEF IInv, OneBusyScope
  <2>3. ASSUME NEW u \in Thread, NEW j \in Index, NEW k \in Index,
               scope'[u][j].at \in Unbooked, scope'[u][k].at \in Unbooked
        PROVE  j = k
    <3>1. (u # t \/ j # i) /\ (u # t \/ k # i)
      BY <1>3, <2>3 DEF Unbooked
    <3> QED
      BY <1>2, <2>3, <3>1 DEF IInv, OneBusyScope
  <2> QED
    BY <2>2, <2>3 DEF OneBusyScope
<1>6. HoldersHold' /\ OwnerHolds' /\ SharedInside' /\ OwnerExact' /\ SharedExact'
  BY <1>1, <1>2, <1>3, SameHolds
<1> QED
  BY <1>4, <1>5, <1>6 DEF IInv

\* Every step of the locks keeps the books.
LEMMA NextIInv ==
  ASSUME IInv, [Next]_lockVars
  PROVE  IInv'
<1>1. CASE UNCHANGED lockVars
  <2>1. UNCHANGED <<srw, owner, scope, depth>>
    BY <1>1 DEF lockVars
  <2>2. \A t \in Thread, l \in Lock :
          /\ Exclusive(t, l)' = Exclusive(t, l) /\ Shared(t, l)' = Shared(t, l)
          /\ Pending(t, l)' = Pending(t, l)
    BY <2>1 DEF Exclusive, Shared, Holds, Pending
  <2>3. Typed'
    BY <2>1 DEF IInv, Typed
  <2>4. OneBusyScope' /\ OwnerHolds'
    BY <2>1 DEF IInv, OneBusyScope, OwnerHolds
  <2>5. HoldersHold' /\ SharedInside' /\ OwnerExact' /\ SharedExact'
    BY <2>1, <2>2 DEF IInv, HoldersHold, SharedInside, OwnerExact, SharedExact, Owns
  <2> QED
    BY <2>3, <2>4, <2>5 DEF IInv
<1>2. ASSUME NEW t \in Thread, LockStep(t)
      PROVE  IInv'
  <2>1. ASSUME NEW i \in 1..depth[t], HandBack(t, i)
        PROVE  IInv'
    BY <2>1, HandBackKeeps
  <2>2. ASSUME NEW l \in Lock, NEW shared \in BOOLEAN, Enter(t, l, shared)
        PROVE  IInv'
    BY <2>2, EnterKeeps
  <2>3. CASE Reacquire(t)
    BY <2>3, QuietMove DEF Reacquire, Stage
  <2>4. CASE ~Releasing(t) /\ Acquire(t)
    <3>1. CASE At(t) = "acquire" /\ AcquireOwned(t, depth[t])
      BY <3>1, AcquireOwnedKeeps
    <3>2. CASE At(t) = "acquire" /\ AcquireOther(t, depth[t])
      <4>1. PICK stage \in {"try", "wait"} : Move(t, depth[t], stage)
        BY <3>2 DEF AcquireOther
      <4>2. stage \in Stage \ {"held", "own", "clear"} /\ At(t) \in Stage \ {"held"}
        BY <3>2 DEF Stage
      <4> QED
        BY <3>2, <4>1, <4>2, QuietMove DEF AcquireOther
    <3>3. CASE At(t) \in {"wait", "try"} /\ Grant(t, depth[t])
      BY <2>4, <3>3, GrantSharedKeeps, GrantExclusiveKeeps
    <3>4. CASE At(t) = "try" /\ TryFails(t, depth[t])
      BY <3>4, QuietMove DEF TryFails, Stage
    <3>5. CASE At(t) = "own" /\ Own(t, depth[t])
      BY <3>5, OwnKeeps
    <3> QED
      BY <2>4, <3>1, <3>2, <3>3, <3>4, <3>5 DEF Acquire
  <2>5. CASE GuiProcessEvents(t)
    BY <2>5, QuietMove DEF GuiProcessEvents, Stage
  <2>6. ASSUME ~Releasing(t), NEW i \in 1..depth[t], Unlock(t, i)
        PROVE  IInv'
    <3>1. CASE scope[t][i].shared
      BY <2>6, <3>1, ReleaseSharedKeeps DEF Unlock
    <3>2. CASE ~scope[t][i].shared
      BY <2>6, <3>2, ReleaseExclusiveKeeps
    <3> QED
      BY <3>1, <3>2
  <2>7. CASE Leave(t)
    BY <2>7, LeaveKeeps
  <2> QED
    BY <1>2, <2>1, <2>2, <2>3, <2>4, <2>5, <2>6, <2>7 DEF LockStep
<1> QED
  BY <1>1, <1>2 DEF Next

\* The locks' books are right in every reachable state.
THEOREM BooksInvariant == Spec => []IInv
BY InitIInv, NextIInv, PTL DEF Spec

\* The locks and scopes keep their types: a thread's scopes are a stack, no release
\* takes a hold that is not there and no owner is counted below zero.
THEOREM TypeCorrect == Spec => []TypeOK
<1>1. ASSUME IInv PROVE TypeOK
  <2>1. Typed
    BY <1>1 DEF IInv
  <2>2. ASSUME NEW l \in Lock, NEW t \in Thread
        PROVE  srw[l].shared[t] \in Nat
    <3>1. Cardinality(Shared(t, l)) \in Nat
      BY FiniteHolds
    <3> QED
      BY <1>1, <3>1 DEF IInv, SharedExact
  <2>3. ASSUME NEW l \in Lock
        PROVE  srw[l] \in [excl : Thread \cup {None}, shared : [Thread -> Nat]]
    <3>1. srw[l] \in [excl : Thread \cup {None}, shared : [Thread -> Int]]
      BY <2>1 DEF Typed
    <3> QED
      BY <2>2, <3>1
  <2>4. ASSUME NEW l \in Lock
        PROVE  owner[l] \in [threadId : Thread \cup {None}, count : Nat]
    <3>1. owner[l] \in [threadId : Thread \cup {None}, count : Int]
      BY <2>1 DEF Typed
    <3>2. owner[l].count > 0 \/ owner[l] = NoOwner
      BY <1>1 DEF IInv, OwnerHolds
    <3> QED
      BY <3>1, <3>2 DEF NoOwner
  <2>5. srw \in [Lock -> [excl : Thread \cup {None}, shared : [Thread -> Nat]]]
    BY <2>1, <2>3 DEF Typed
  <2>6. owner \in [Lock -> [threadId : Thread \cup {None}, count : Nat]]
    BY <2>1, <2>4 DEF Typed
  <2> QED
    BY <2>1, <2>5, <2>6 DEF Typed, TypeOK
<1> QED
  BY <1>1, BooksInvariant, PTL

\* m_exclusiveOwner counts the exclusive scopes of the owner.
THEOREM OwnerIsExact == Spec => []OwnerExact
<1>1. IInv => OwnerExact
  BY DEF IInv
<1> QED
  BY <1>1, BooksInvariant, PTL

\* The SRW lock has a shared hold for each shared scope outside an own
\* exclusive hold, and none for the others.
THEOREM SharedIsExact == Spec => []SharedExact
<1>1. IInv => SharedExact
  BY DEF IInv
<1> QED
  BY <1>1, BooksInvariant, PTL

\* The assertions of AcquireLock hold: nobody is owner when a thread is granted
\* the lock exclusively.
THEOREM NoStaleOwner == Spec => []NoOwnerWhenGranted
<1>1. ASSUME IInv, NEW t \in Thread, At(t) = "own"
      PROVE  owner[scope[t][depth[t]].lock] = NoOwner
  <2>1. PICK i \in Index : i = depth[t] /\ scope[t][i].at = "own" /\ scope[t][i] \in Scope
    BY <1>1, Innermost DEF IInv
  <2>2. PICK l \in Lock : l = scope[t][i].lock
    BY <2>1 DEF Scope
  <2>3. i \in Pending(t, l)
    BY <2>1, <2>2 DEF Pending, Unbooked
  <2> QED
    BY <1>1, <2>1, <2>2, <2>3 DEF IInv, HoldersHold
<1>2. IInv => NoOwnerWhenGranted
  BY <1>1 DEF NoOwnerWhenGranted
<1> QED
  BY <1>2, BooksInvariant, PTL

\* The books are exact in every reachable state.
THEOREM BooksAreExact == Spec => []BooksExact
<1>1. OwnerExact /\ SharedExact /\ NoOwnerWhenGranted => BooksExact
  BY DEF BooksExact
<1> QED
  BY <1>1, OwnerIsExact, SharedIsExact, NoStaleOwner, PTL

\* Mutual exclusion: while a scope of one thread holds a lock exclusively, no
\* scope of another thread holds it in any mode.
THEOREM MutualExclusion == Spec => []ExclusiveAlone
<1>1. ASSUME IInv, NEW l \in Lock, NEW t \in Thread, Exclusive(t, l) # {},
             NEW u \in Thread \ {t}
      PROVE  Holds(u, l) = {}
  <2>1. srw[l].excl = t /\ srw[l].shared[u] = 0
    BY <1>1 DEF IInv, HoldersHold, OwnerHolds
  <2>2. Exclusive(u, l) = {}
    BY <1>1, <2>1 DEF IInv, HoldersHold
  <2>3. ~Owns(u, l)
    BY <1>1, <2>1 DEF IInv, OwnerHolds, Owns
  <2>4. Cardinality(Shared(u, l)) = 0
    BY <1>1, <2>1, <2>3 DEF IInv, SharedExact
  <2>5. Shared(u, l) = {}
    BY <2>4, FiniteHolds
  <2> QED
    BY <2>2, <2>5 DEF Shared
<1>2. IInv => ExclusiveAlone
  BY <1>1 DEF ExclusiveAlone
<1> QED
  BY <1>2, BooksInvariant, PTL
=============================================================================
