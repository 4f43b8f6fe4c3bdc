---------------------------- MODULE Annotations ----------------------------
(***************************************************************************)
(* The annotations of one module that cover ranges (function.cpp,          *)
(* addresscolor.cpp, loop.cpp over serializablemap.h) and what plugins are *)
(* told of them (database_cb_batcher.cpp).                                 *)
(*                                                                         *)
(* A thread changes a map under its lock and reports the change after it   *)
(* gave the lock back, as operations Add and Remove.  A DbCallbackBatcher  *)
(* on the thread's stack collects the operations; the plugins get them,    *)
(* one plugin after the other, when it goes out of scope or holds          *)
(* Threshold of them.  A plugin's callback may change the map again.       *)
(*                                                                         *)
(* Of the kinds of annotations one is followed through a behaviour: the    *)
(* maps share nothing but the batcher.  Two ranges that overlap are the    *)
(* same key of a map (addrinfo.h), so an entry keeps the range it was      *)
(* first stored under beside its value.                                    *)
(***************************************************************************)
EXTENDS Naturals, Sequences, FiniteSets, SequencesExt, Bags

CONSTANTS
    Threads,        \* threads that change annotations
    Address,        \* the addresses of the module
    Kinds,          \* of {"function", "color", "loop"}, those followed
    Calls,          \* Calls[k]: what threads call on annotations of kind k
    CallbackCalls,  \* CallbackCalls[k]: what plugins call from their callbacks
    Saved,          \* Saved[k]: the annotations in the database file, in its order
    NPlugins,       \* plugins with callbacks, in the order of gPluginCallbackList
    Threshold,      \* operations in a batch that make it flush (8096 in the code)
    MaxCalls,       \* bound: MaxCalls[k], the calls threads make on annotations of kind k
    MaxReentrant    \* bound: calls made from callbacks

ASSUME AnnotationsAssumption ==
    /\ Address \subseteq Nat
    /\ Kinds \subseteq {"function", "color", "loop"}
    /\ NPlugins \in Nat \ {0}
    /\ Threshold \in Nat \ {0}
    /\ \A k \in Kinds : MaxCalls[k] \in Nat
    /\ MaxReentrant \in Nat

VARIABLES
    kind,       \* the kind of annotation followed
    store,      \* mMap (loops for loop.cpp): a set of entries
    stack,      \* stack[t]: the calls thread t is in, the innermost first
    batch,      \* batch[t]: tActiveBatcher of thread t
    mirror,     \* mirror[p]: the annotations plugin p was told of, as a bag
    outOfStep,  \* history: addresses where a mirror may go wrong
    made        \* history: how many calls were made by threads and callbacks

vars == <<kind, store, stack, batch, mirror, outOfStep, made>>

----------------------------------------------------------------------------
(* Items, entries and operations *)

\* tag: the colour of a "color", the depth of a "loop"
Item(lo, hi, tag, manual) == [lo |-> lo, hi |-> hi, tag |-> tag, manual |-> manual]
Depth(item) == IF kind = "loop" THEN item.tag ELSE 0
Key(item) == [depth |-> Depth(item), lo |-> item.lo, hi |-> item.hi]
Entry(item) == [key |-> Key(item), val |-> item]

Cells(item) == item.lo .. item.hi
Overlap(a, b) == a.lo <= b.hi /\ b.lo <= a.hi
Within(a, b) == b.lo <= a.lo /\ a.hi <= b.hi

\* Neither key is before the other for the comparison of the map.
SameKey(j, k) == j.depth = k.depth /\ Overlap(j, k)

Matching(s, k) == {e \in s : SameKey(e.key, k)}

\* std::map::find: the first of the entries that match, or nothing.
Found(s, k) == {e \in Matching(s, k) : \A f \in Matching(s, k) : e.key.lo <= f.key.lo}

InMapOrder(E) ==
    SetToSortSeq(E, LAMBDA e, f : \/ e.key.depth < f.key.depth
                                  \/ e.key.depth = f.key.depth /\ e.key.lo < f.key.lo)
Values(E) == {e.val : e \in E}

Added(item) == [add |-> TRUE, item |-> item]
Removed(item) == [add |-> FALSE, item |-> item]
Removals(E) == [i \in 1 .. Cardinality(E) |-> Removed(InMapOrder(E)[i].val)]

\* The outcome of a change under the lock: the new map, the operations to report,
\* whether a batcher is opened for them, and the addresses where they are not what
\* happened to the map.
Outcome(s, ops, batched, wrong) ==
    [store |-> s, ops |-> ops, batched |-> batched, wrong |-> wrong]

----------------------------------------------------------------------------
(* The maps *)

\* mMap[makeKey(value)] = value: over a key that is there, the value changes and
\* the key stays.
Put(s, item) ==
    LET found == Found(s, Key(item))
        new == IF found = {} THEN {Entry(item)} ELSE {[e EXCEPT !.val = item] : e \in found}
    IN Outcome((s \ found) \cup new, <<Added(item)>>, FALSE,
               UNION {Cells(item) \cup Cells(e.val) \cup Cells(e.key) : e \in found})

\* map.emplace and map.insert: nothing happens over a key that is there.
Emplace(s, item) == IF Matching(s, Key(item)) = {} THEN s \cup {Entry(item)} ELSE s

Erase(s, E, batched) == Outcome(s \ E, Removals(E), batched, {})

\* FunctionDelRange: all of them for the whole address space, else those whose
\* values meet the range, with the user's own only if he asked for it.
FunctionDelRange(s, c) ==
    Erase(s, {e \in s : /\ Overlap(e.val, c)
                        /\ c.manual \/ ~e.val.manual}, TRUE)

\* Delete: the entry whose key holds the address.
FunctionDelete(s, c) == Erase(s, Matching(s, [c EXCEPT !.depth = 0]), FALSE)

\* What is left of an item when a range is taken out of it, and a variant that forgets
\* that a range may lie in the middle (see README, Mutants).
FragmentsOneSide(item, c) ==
    IF item.lo < c.lo THEN <<[item EXCEPT !.hi = c.lo - 1]>>
    ELSE IF item.hi > c.hi THEN <<[item EXCEPT !.lo = c.hi + 1]>> ELSE <<>>
Fragments(item, c) ==
    (IF item.lo < c.lo THEN <<[item EXCEPT !.hi = c.lo - 1]>> ELSE <<>>)
    \o (IF item.hi > c.hi THEN <<[item EXCEPT !.lo = c.hi + 1]>> ELSE <<>>)

\* ReplaceRange and DeleteRangeWhere: take the range out of the entries cut, put
\* the fragments and the new items in; one report, a batch when it is longer than one.
CutRange(s, cut, c, new, batched) ==
    LET added == FlattenSeq([i \in 1 .. Cardinality(cut) |->
                                Fragments(InMapOrder(cut)[i].val, c)]) \o new
        ops == Removals(cut) \o [i \in 1 .. Len(added) |-> Added(added[i])]
    IN Outcome(FoldLeft(Emplace, s \ cut, added), ops, batched \/ Len(ops) > 1, {})

AddressColorSetRange(s, c) ==
    CutRange(s, {e \in s : Overlap(e.val, c)}, c,
             <<Item(c.lo, c.hi, c.tag, c.manual)>>, c.lo # c.hi)
AddressColorDelete(s, c) ==
    CutRange(s, {e \in s : Overlap(e.val, c)}, c, <<>>, FALSE)
AddressColorDelRange(s, c) ==
    CutRange(s, {e \in s : Overlap(e.val, c) /\ e.val.manual = c.manual}, c, <<>>, TRUE)

Clear(s, c) == Erase(s, s, TRUE)

----------------------------------------------------------------------------
(* Loops *)

Depths == 0 .. Cardinality(Address) + MaxCalls[kind] + MaxReentrant

\* LoopOverlaps: go down while a loop of the depth holds the range; the depth where
\* that ends, and the loop that is met there, if any.
FinalDepth(s, c) ==
    LET holds(d) == \E e \in Found(s, [c EXCEPT !.depth = d]) : Within(c, e.val)
    IN CHOOSE d \in Depths : ~holds(d) /\ \A b \in 0 .. d - 1 : holds(b)
Met(s, c) == Found(s, [c EXCEPT !.depth = FinalDepth(s, c)])

\* LoopAdd looks at the map first; a range that only partly overlaps is refused.
LoopFits(s, c) == \A e \in Met(s, c) : Within(e.val, c)
Surrounds(s, c) == Met(s, c) # {}

\* The second half of LoopAdd: a loop that surrounds others moves them one deeper.
\* The depth was found before the lock was taken; insert and emplace may do nothing,
\* the operations are reported all the same.
LoopInsert(s, item, surround) ==
    LET moved == IF surround THEN {e \in s : Within(e.val, item)} ELSE {}
        old == InMapOrder(moved)
        deeper == [i \in 1 .. Len(old) |-> [old[i].val EXCEPT !.tag = @ + 1]]
        all == deeper \o <<item>>
        first(n) == FoldLeft(Emplace, s \ moved, SubSeq(all, 1, n))
        refused == {i \in 1 .. Len(all) : first(i) = first(i - 1)}
    IN Outcome(first(Len(all)),
               Removals(moved) \o <<Added(item)>>
                   \o [i \in 1 .. Len(deeper) |-> Added(deeper[i])],
               moved # {},
               UNION {Cells(all[i]) : i \in refused})

\* LoopDeleteAllRange over growing depths, until a depth has nothing to delete.
DeleteDownFrom(s, k) ==
    LET at(d) == Matching(s, [k EXCEPT !.depth = d])
    IN Erase(s, UNION {at(d) : d \in {b \in Depths : /\ b >= k.depth
                                                     /\ \A a \in k.depth .. b : at(a) # {}}},
             TRUE)
LoopDeleteRange(s, c) == DeleteDownFrom(s, [c EXCEPT !.depth = 0])
LoopDelete(s, c) ==
    IF Found(s, c) = {} THEN Erase(s, {}, TRUE)
    ELSE DeleteDownFrom(s, (CHOOSE e \in Found(s, c) : TRUE).key)

----------------------------------------------------------------------------
(* Calls, and the operations still to be reported *)

\* A call: its name, the range, and the depth, colour and manual flag if it has them.
Call(name, lo, hi, depth, tag, manual) ==
    [name |-> name, lo |-> lo, hi |-> hi, depth |-> depth, tag |-> tag, manual |-> manual]

\* Calls that do all of their work under the lock.
AtOnce(s, c) ==
    CASE c.name = "FunctionDelete"       -> FunctionDelete(s, c)
      [] c.name = "FunctionDelRange"     -> FunctionDelRange(s, c)
      [] c.name = "AddressColorSetRange" -> AddressColorSetRange(s, c)
      [] c.name = "AddressColorDelete"   -> AddressColorDelete(s, c)
      [] c.name = "AddressColorDelRange" -> AddressColorDelRange(s, c)
      [] c.name = "LoopDelete"           -> LoopDelete(s, c)
      [] c.name = "LoopDeleteRange"      -> LoopDeleteRange(s, c)
      [] c.name = "Clear"                -> Clear(s, c)

NoBatch == [open |-> FALSE, load |-> FALSE, ops |-> <<>>, flushing |-> FALSE]
NewBatch(load) == [NoBatch EXCEPT !.open = TRUE, !.load = load]

\* Frames of a stack: a call between its check and its change, a call that reports
\* (and loads the rest), a plugincbcall that is in the callback of plugin p.
Checked(item, surround) == [at |-> "checked", item |-> item, surround |-> surround]
Reporting(todo, rest, load, owner) ==
    [at |-> "report", todo |-> todo, rest |-> rest, load |-> load, owner |-> owner]
InPlugin(ops, p, flush) == [at |-> "plugin", ops |-> ops, plugin |-> p, flush |-> flush]

Top(t) == Head(stack[t])
In(t, at) == stack[t] # <<>> /\ Top(t).at = at
SetStack(t, frames) == stack' = [stack EXCEPT ![t] = frames]

\* Operations a thread has to report, those its callbacks have to pass on to the next
\* plugin (but for some), and all those on their way
Unhanded(t) == UNION {Range(f.todo) : f \in {g \in Range(stack[t]) : g.at = "report"}}
ToPassOn(t, but) ==
    UNION {Range(f.ops) : f \in {g \in Range(stack[t]) : /\ g.at = "plugin"
                                                        /\ g.plugin < NPlugins
                                                        /\ g \notin but}}
OnTheirWay(t) == Unhanded(t) \cup ToPassOn(t, {}) \cup Range(batch[t].ops)
CellsOf(ops) == UNION {Cells(o.item) : o \in ops}

\* What another thread, or a call this one interrupts, did to the map and some plugin
\* may hear of after a change that thread t makes now.  Inside a flush the change joins
\* the batch behind it.
HeardLater(t, load) ==
    LET flushes == {f \in Range(stack[t]) : f.at = "plugin" /\ f.flush /\ batch[t].load = load}
    IN CellsOf(Unhanded(t) \cup ToPassOn(t, flushes)
               \cup UNION {OnTheirWay(u) : u \in Threads \ {t}})

Mark(t, out, load) ==
    outOfStep' = outOfStep \cup out.wrong
                           \cup (CellsOf(Range(out.ops)) \cap HeardLater(t, load))

----------------------------------------------------------------------------
Init ==
    /\ kind \in Kinds
    /\ store = {}
    /\ stack = [t \in Threads |-> <<>>]
    /\ batch = [t \in Threads |-> NoBatch]
    /\ mirror = [p \in 1 .. NPlugins |-> EmptyBag]
    /\ outOfStep = {}
    /\ made = [calls |-> 0, reentrant |-> 0]

\* A thread may call when it is idle, a plugin from its callback.
MayCall(t, c) ==
    \/ /\ stack[t] = <<>>
       /\ c \in Calls[kind]
       /\ made.calls < MaxCalls[kind]
       /\ made' = [made EXCEPT !.calls = @ + 1]
    \/ /\ In(t, "plugin")
       /\ c \in CallbackCalls[kind]
       /\ made.reentrant < MaxReentrant
       /\ made' = [made EXCEPT !.reentrant = @ + 1]

\* The change of a call is made: go on with the report, in a batch of its own when it
\* opens a batcher and none is active.
Report(t, out, rest, load, below) ==
    LET owner == out.batched /\ ~batch[t].open
    IN /\ store' = out.store
       /\ SetStack(t, <<Reporting(out.ops, rest, load, owner)>> \o below)
       /\ batch' = IF owner THEN [batch EXCEPT ![t] = NewBatch(load)] ELSE batch
       /\ Mark(t, out, load)

CallAtOnce(t, c) ==
    /\ c.name \notin {"FunctionAdd", "LoopAdd", "CacheLoad"}
    /\ MayCall(t, c)
    /\ Report(t, AtOnce(store, c), <<>>, FALSE, stack[t])
    /\ UNCHANGED <<kind, mirror>>

\* FunctionAdd and LoopAdd look whether the range is free and give the lock back.
CheckFunction(t, c) ==
    /\ c.name = "FunctionAdd"
    /\ MayCall(t, c)
    /\ Matching(store, [c EXCEPT !.depth = 0]) = {}
    /\ SetStack(t, <<Checked(Item(c.lo, c.hi, 0, c.manual), FALSE)>> \o stack[t])
    /\ UNCHANGED <<kind, store, batch, mirror, outOfStep>>

CheckLoop(t, c) ==
    /\ c.name = "LoopAdd"
    /\ MayCall(t, c)
    /\ LoopFits(store, c)
    /\ LET surround == Surrounds(store, c)
           depth == IF surround THEN 0 ELSE FinalDepth(store, c)
       IN SetStack(t, <<Checked(Item(c.lo, c.hi, depth, c.manual), surround)>> \o stack[t])
    /\ UNCHANGED <<kind, store, batch, mirror, outOfStep>>

\* The rest of FunctionAdd and LoopAdd.
Insert(t) ==
    /\ In(t, "checked")
    /\ LET out == IF kind = "loop" THEN LoopInsert(store, Top(t).item, Top(t).surround)
                  ELSE Put(store, Top(t).item)
       IN Report(t, out, <<>>, FALSE, Tail(stack[t]))
    /\ UNCHANGED <<kind, mirror, made>>

\* CacheLoad: a batcher of its own kind, then every item under the lock by itself.
CacheLoad(t, c) ==
    /\ c.name = "CacheLoad"
    /\ MayCall(t, c)
    /\ Report(t, Outcome(store, <<>>, TRUE, {}), Saved[kind], TRUE, stack[t])
    /\ UNCHANGED <<kind, mirror>>

LoadNext(t) ==
    /\ In(t, "report")
    /\ Top(t).todo = <<>> /\ Top(t).rest # <<>>
    /\ LET out == Put(store, Head(Top(t).rest))
       IN /\ store' = out.store
          /\ SetStack(t, <<[Top(t) EXCEPT !.todo = out.ops, !.rest = Tail(@)]>> \o Tail(stack[t]))
          /\ Mark(t, out, TRUE)
    /\ UNCHANGED <<kind, batch, mirror, made>>

----------------------------------------------------------------------------
(* DbCallbackBatcher *)

\* The callback of plugin p: it brings its mirror up to date, then may go on.
CallPlugin(t, p, ops, flush, below) ==
    /\ mirror' = [mirror EXCEPT ![p] =
           FoldLeft(LAMBDA m, o : IF o.add THEN m (+) SetToBag({o.item})
                                  ELSE m (-) SetToBag({o.item}), @, ops)]
    /\ SetStack(t, <<InPlugin(ops, p, flush)>> \o below)

\* plugincbcall: one plugin after the other.
Deliver(t, ops, flush, below) == CallPlugin(t, 1, ops, flush, below)

\* flush takes all operations out of the batch before it delivers them.
Flush(t, ops, below) ==
    /\ Deliver(t, ops, TRUE, below)
    /\ batch' = [batch EXCEPT ![t].ops = <<>>, ![t].flushing = TRUE]

\* A full batch is flushed; one that is being flushed may grow past the threshold (and
\* a variant without mFlushing).
FullNested(t, ops) == Len(ops) >= Threshold
Full(t, ops) == Len(ops) >= Threshold /\ ~batch[t].flushing

\* DbCallbackBatcher::Add: into the active batch of the same kind, else to the plugins.
Hand(t) ==
    /\ In(t, "report") /\ Top(t).todo # <<>>
    /\ LET o == Head(Top(t).todo)
           rest == <<[Top(t) EXCEPT !.todo = Tail(@)]>> \o Tail(stack[t])
           ops == Append(batch[t].ops, o)
       IN \/ /\ batch[t].open /\ batch[t].load = Top(t).load
             /\ IF Full(t, ops)
                THEN Flush(t, ops, rest)
                ELSE /\ batch' = [batch EXCEPT ![t].ops = ops]
                     /\ SetStack(t, rest)
                     /\ UNCHANGED mirror
          \/ /\ ~(batch[t].open /\ batch[t].load = Top(t).load)
             /\ Deliver(t, <<o>>, FALSE, rest)
             /\ UNCHANGED batch
    /\ UNCHANGED <<kind, store, outOfStep, made>>

\* The callback returns, and plugincbcall goes on to the next plugin.
NextPlugin(t) ==
    /\ In(t, "plugin") /\ Top(t).plugin < NPlugins
    /\ CallPlugin(t, Top(t).plugin + 1, Top(t).ops, Top(t).flush, Tail(stack[t]))
    /\ UNCHANGED <<kind, store, batch, outOfStep, made>>

\* All callbacks returned; flush goes on while they left operations behind.
CallbacksReturn(t) ==
    /\ In(t, "plugin") /\ Top(t).plugin = NPlugins
    /\ IF Top(t).flush
       THEN IF batch[t].ops # <<>>
            THEN Flush(t, batch[t].ops, Tail(stack[t]))
            ELSE /\ batch' = [batch EXCEPT ![t].flushing = FALSE]
                 /\ SetStack(t, Tail(stack[t]))
                 /\ UNCHANGED mirror
       ELSE SetStack(t, Tail(stack[t])) /\ UNCHANGED <<batch, mirror>>
    /\ UNCHANGED <<kind, store, outOfStep, made>>

\* The end of a call: the batcher it owns is flushed and taken off the thread.
Return(t) ==
    /\ In(t, "report") /\ Top(t).todo = <<>> /\ Top(t).rest = <<>>
    /\ IF Top(t).owner /\ batch[t].ops # <<>>
       THEN Flush(t, batch[t].ops, stack[t])
       ELSE /\ SetStack(t, Tail(stack[t]))
            /\ batch' = IF Top(t).owner THEN [batch EXCEPT ![t] = NoBatch] ELSE batch
            /\ UNCHANGED mirror
    /\ UNCHANGED <<kind, store, outOfStep, made>>

Next ==
    \E t \in Threads :
        \/ \E c \in Calls[kind] \cup CallbackCalls[kind] :
              CallAtOnce(t, c) \/ CheckFunction(t, c) \/ CheckLoop(t, c) \/ CacheLoad(t, c)
        \/ Insert(t) \/ LoadNext(t) \/ Hand(t) \/ NextPlugin(t) \/ CallbacksReturn(t) \/ Return(t)

Spec == Init /\ [][Next]_vars

----------------------------------------------------------------------------
(* Properties *)

\* What each plugin was told of is what the map holds, once, for every annotation that
\* no operation on its way concerns: whatever plugins change from their callbacks and
\* however batches are cut, operations arrive once and in the order of the changes
\* (database_cb_batcher.cpp:86).  Left out are addresses where a change was made before
\* some plugin heard of an earlier one (HeardLater), where a function was stored over
\* another one after the check of FunctionAdd, and where LoopAdd reports a loop that it
\* did not insert.
MirrorExact ==
    LET unsettled == outOfStep \cup CellsOf(UNION {OnTheirWay(t) : t \in Threads})
    IN \A p \in 1 .. NPlugins :
          \A item \in BagToSet(mirror[p]) \cup Values(store) :
              Cells(item) \cap unsettled = {}
                  => /\ item \in Values(store)
                     /\ CopiesIn(item, mirror[p]) = 1

\* The colours of an address, as the entries that cover it say, and what a call means
\* for it: no entries, no fragments, no keys.
ColoursAt(s, a) == {[tag |-> e.val.tag, manual |-> e.val.manual] : e \in {f \in s : a \in Cells(f.val)}}
Painted(old, c, a) ==
    IF a \notin Cells(c) THEN old
    ELSE CASE c.name = "AddressColorSetRange" -> {[tag |-> c.tag, manual |-> c.manual]}
           [] c.name = "AddressColorDelete"   -> {}
           [] c.name = "AddressColorDelRange" -> {x \in old : x.manual # c.manual}

\* Ranges of colours are cut and put together so that every address has the colour it
\* was given last: whatever a range overlaps, nothing outside of it changes and nothing
\* is lost (the split of ReplaceRange and DeleteRangeWhere; tests/database_callbacks/
\* README.md:99 "preserves the unaffected interval fragments").
ColoursAsPainted ==
    [][kind = "color" /\ store' # store =>
          \E c \in Calls[kind] \cup CallbackCalls[kind] :
              \A a \in Address : ColoursAt(store', a) = Painted(ColoursAt(store, a), c, a)]_vars
=============================================================================
