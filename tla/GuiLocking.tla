----------------------------- MODULE GuiLocking -----------------------------
(* The locks of SectionLocker together with the calls into the GUI that     *)
(* return a value (BridgeResult): the caller enters a critical section       *)
(* shared by all such calls, posts an event to the GUI's main thread and     *)
(* waits for its handler's answer, often while it holds locks. The GUI's     *)
(* main thread handles events when it is idle, between two attempts to take  *)
(* a lock, and while it waits for an answer itself.                          *)
EXTENDS SectionLocker

CONSTANTS
  Callers,     \* threads that call the GUI for a result
  CallUnder    \* locks the code holds over such a call

VARIABLES
  csBridge,    \* the owner of mCsBridge
  call         \* per thread: outside, at the critical section, waiting, answered

guiVars == <<srw, owner, scope, depth, csBridge, call>>

GuiInit ==
  /\ Init
  /\ csBridge = None
  /\ call = [t \in Thread |-> "none"]

\* A thread inside a call takes and releases no locks.
LockerStep(t) ==
  /\ call[t] = "none"
  /\ LockStep(t)
  /\ UNCHANGED <<csBridge, call>>

\* A Gui...() function that constructs a BridgeResult.
Call(t) ==
  /\ t \in Callers /\ call[t] = "none" /\ MayLock(t) /\ ~Releasing(t)
  /\ \A i \in Held(t) : scope[t][i].lock \in CallUnder
  /\ call' = [call EXCEPT ![t] = "enter"]
  /\ UNCHANGED <<lockVars, csBridge>>

\* BridgeResult(): EnterCriticalSection, then the event is posted.
EnterBridge(t) ==
  /\ call[t] = "enter" /\ csBridge = None
  /\ csBridge' = t
  /\ call' = [call EXCEPT ![t] = "wait"]
  /\ UNCHANGED lockVars

\* The GUI thread is in its event loop, in a GuiProcessEvents of AcquireLock, or
\* in the processEvents of BridgeResult::Wait.
HandlesEvents == IF call[Gui] = "none" THEN At(Gui) \in {"none", "events"} ELSE call[Gui] = "wait"

\* The handler of the event answers with Bridge::setResult.
SetResult(t) ==
  /\ call[t] = "wait" /\ HandlesEvents
  /\ call' = [call EXCEPT ![t] = "answered"]
  /\ UNCHANGED <<lockVars, csBridge>>

\* Wait() returns and ~BridgeResult() leaves the critical section.
LeaveBridge(t) ==
  /\ call[t] = "answered"
  /\ csBridge' = None
  /\ call' = [call EXCEPT ![t] = "none"]
  /\ UNCHANGED lockVars

GuiNext ==
  \E t \in Thread :
    LockerStep(t) \/ Call(t) \/ EnterBridge(t) \/ SetResult(t) \/ LeaveBridge(t)

GuiSpec == GuiInit /\ [][GuiNext]_guiVars

-----------------------------------------------------------------------------
\* Blocked for good unless somebody else moves: the GUI thread as well when it
\* has to be able to handle events.
Blocked(t) == call[t] = "enter" \/ (call[t] = "none" /\ At(t) = "wait")

HoldsAny(u, l) == Holds(u, l) # {} \/ srw[l].excl = u
Writes(u, l) ==
  /\ call[u] = "none" /\ At(u) = "wait"
  /\ scope[u][depth[u]].lock = l /\ ~scope[u][depth[u]].shared

\* Whom a thread waits for. A waiting writer keeps new readers out.
WaitsFor(t) ==
  CASE call[t] = "enter" -> {csBridge} \ {None}
    [] call[t] = "wait" -> IF t # Gui /\ Blocked(Gui) THEN {Gui} ELSE {}
    [] call[t] = "none" /\ At(t) \in {"wait", "try", "events"} ->
         LET l == scope[t][depth[t]].lock
             shared == scope[t][depth[t]].shared
         IN {u \in Thread : IF shared THEN srw[l].excl = u \/ Writes(u, l)
                                      ELSE HoldsAny(u, l)}
    [] OTHER -> {}

\* A set of threads that waits for itself, through locks in nested scopes, through
\* waiting writers, or through the holder of a lock who waits for the GUI thread.
Circle(S) == S # {} /\ \A t \in S : WaitsFor(t) \cap S # {}

\* The GUI thread blocks without handling events: in the critical section, or for
\* a lock that it takes without ProcessGuiEvents.
BlocksOutright(t) ==
  \/ call[t] = "enter"
  \/ call[t] = "none" /\ At(t) = "wait" /\ scope[t][depth[t]].lock \notin GuiScopes

\* A handler it runs in AcquireLock, around whose code it holds other locks.
InHandler(t) == \E i \in 1..depth[t] : i < depth[t] /\ scope[t][i].at = "events"

\* Every deadlock goes through the GUI's main thread, blocked where it handles no
\* events, while somebody in the circle waits for its answer or it came there from
\* a handler. Locks alone, spinning included, never wait in a circle: a shared or
\* repeated scope of an owner never waits for itself, nor does a lock order turn.
CirclesBlockTheGui ==
  \A S \in SUBSET Thread : Circle(S) =>
    /\ Gui \in S /\ BlocksOutright(Gui)
    /\ (\E t \in S : call[t] = "wait") \/ InHandler(Gui)

\* What one would like to be true, and is not: see the README.
NoCircularWait == \A S \in SUBSET Thread : ~Circle(S)

\* The locks are ranked, and code takes a lock only under locks ranked lower (or
\* again, while it holds it exclusively). The locks that the GUI thread takes with
\* ProcessGuiEvents are ranked above whatever any of them is taken under.
Disciplined(rank) ==
  \A l, m \in Lock : \A s, r \in BOOLEAN :
    <<l, s, m, r>> \in Nests /\ ~(l = m /\ ~s) =>
      /\ rank[l] < rank[m]
      /\ m \in GuiScopes => \A g \in GuiScopes \cap Lock : rank[l] < rank[g]
=============================================================================
