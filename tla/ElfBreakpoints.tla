--------------------------- MODULE ElfBreakpoints ---------------------------
(***************************************************************************)
(* The software breakpoints of ElfBug's Process: the records kept in       *)
(* mBreakpoints and the int3 bytes they put into the debuggee's memory.    *)
(* Process.Breakpoint.cpp and Process.Memory.cpp; every operation runs     *)
(* under mBreakpointMutex, so one operation is one action.                 *)
(*                                                                         *)
(* Two things take more than one step.  dispatchBreakpoint copies a record *)
(* out, runs the user's callbacks without the lock and deletes a           *)
(* singleshot record afterwards (Debugger.cpp); and the kernel replaces    *)
(* the image on execve before the tracer hears of it (applyExec), while    *)
(* another thread may be writing memory.                                   *)
(***************************************************************************)
EXTENDS Integers

CONSTANTS
  Addr,   \* the addresses of the debuggee that matter
  Byte,   \* the values of a byte
  Images, \* the contents a program image may have
  Int3,   \* 0xCC
  Zero    \* the byte a record holds when nothing was read for it

ASSUME AddrAssumption == Addr \subseteq Nat
ASSUME ByteAssumption == Int3 \in Byte /\ Zero \in Byte
ASSUME ImageAssumption == Images \subseteq [Addr -> Byte]

NoDispatch == [at |-> {}, singleshot |-> FALSE]

VARIABLES
  mapped,       \* the addresses backed by memory; {} once the process is gone
  mem,          \* the bytes really in the debuggee's memory
  recs,         \* the addresses with a record in mBreakpoints
  armed,        \* those whose record says info.armed
  singleshot,   \* those whose record says info.singleshot
  saved,        \* info.savedByte of each record
  dispatch,     \* the copy dispatchBreakpoint works with
  execPending,  \* the image was replaced and applyExec has not run yet
  dirty         \* history: addresses whose record no longer knows its byte

vars == <<mapped, mem, recs, armed, singleshot, saved, dispatch, execPending,
          dirty>>
recVars == <<recs, armed, singleshot, saved>>

-----------------------------------------------------------------------------
\* The bytes MemReadRaw or MemWriteRaw transfers out of size bytes at a: the
\* longest prefix that is mapped.
Transferred(a, size) ==
  {x \in a .. (a + size - 1) : \A y \in a .. x : y \in mapped}

\* What MemRead shows: the record's byte wherever the record is armed.
View == [a \in Addr |-> IF a \in armed THEN saved[a] ELSE mem[a]]

\* The byte the program has at each address: what MemRead shows, except that no
\* record has put a trap into an image that execve has just mapped.
Program == [a \in Addr |-> IF execPending THEN mem[a] ELSE View[a]]

\* Between execve and applyExec every record describes the old image.
Stale == IF execPending THEN recs ELSE {}

Init ==
  /\ mapped \in SUBSET Addr
  /\ mem \in Images
  /\ recs = {} /\ armed = {} /\ singleshot = {}
  /\ saved = [a \in Addr |-> Zero]
  /\ dispatch = NoDispatch
  /\ execPending = FALSE
  /\ dirty = {}

-----------------------------------------------------------------------------
\* setBreakpointLocked: refused when there is a record or the byte cannot be
\* read and written.
SetBreakpoint(a, once) ==
  /\ ~execPending
  /\ a \notin recs
  /\ a \in mapped
  /\ recs' = recs \cup {a}
  /\ armed' = armed \cup {a}
  /\ singleshot' = IF once THEN singleshot \cup {a} ELSE singleshot
  /\ saved' = [saved EXCEPT ![a] = mem[a]]
  /\ mem' = [mem EXCEPT ![a] = Int3]
  /\ UNCHANGED <<mapped, dispatch, execPending, dirty>>

\* The record goes only if its byte can be put back.  Records are set, deleted
\* and moved by the tracer thread alone, so never while execPending.
Deletable(a) == a \in recs /\ (a \in armed => a \in mapped)

Erase(a) ==
  /\ recs' = recs \ {a}
  /\ armed' = armed \ {a}
  /\ singleshot' = singleshot \ {a}
  /\ saved' = saved

Unpatch(S) ==
  mem' = [a \in Addr |-> IF a \in S THEN saved[a] ELSE mem[a]]

DeleteBreakpoint(a) ==
  /\ ~execPending
  /\ Deletable(a)
  /\ Erase(a)
  /\ Unpatch({a} \cap armed)
  /\ UNCHANGED <<mapped, dispatch, execPending, dirty>>

\* A byte is lifted for a thread to step over it, and put back afterwards.
DisarmBreakpointByte(a) ==
  /\ ~execPending
  /\ a \in armed \cap mapped
  /\ armed' = armed \ {a}
  /\ Unpatch({a})
  /\ UNCHANGED <<mapped, recs, singleshot, saved, dispatch, execPending, dirty>>

RearmBreakpointByte(a) ==
  /\ ~execPending
  /\ a \in (recs \ armed) \cap mapped
  /\ armed' = armed \cup {a}
  /\ mem' = [mem EXCEPT ![a] = Int3]
  /\ UNCHANGED <<mapped, recs, singleshot, saved, dispatch, execPending, dirty>>

DisarmAllForgetsFailed ==
  /\ ~execPending
  /\ armed # {}
  /\ armed' = {}
  /\ Unpatch(armed \cap mapped)
  /\ UNCHANGED <<mapped, recs, singleshot, saved, dispatch, execPending, dirty>>

\* Teardown: bytes that cannot be written are passed over.
DisarmAllBreakpointBytes ==
  /\ ~execPending
  /\ armed # {}
  /\ armed' = armed \ mapped
  /\ Unpatch(armed \cap mapped)
  /\ UNCHANGED <<mapped, recs, singleshot, saved, dispatch, execPending, dirty>>

-----------------------------------------------------------------------------
\* Variants of MemWrite that forget one of its two duties (see README, Mutants).
MemWriteOverTraps(a, size, buf) ==
  LET T == Transferred(a, size)
  IN /\ T # {}
     /\ mem' = [x \in Addr |-> IF x \in T THEN buf[x] ELSE mem[x]]
     /\ saved' = [x \in Addr |-> IF x \in T \cap recs THEN buf[x] ELSE saved[x]]
     /\ dirty' = (dirty \ T) \cup (T \cap Stale \cap armed)
     /\ UNCHANGED <<mapped, recs, armed, singleshot, dispatch, execPending>>

MemWriteKeepsSaved(a, size, buf) ==
  LET T == Transferred(a, size)
  IN /\ T # {}
     /\ mem' = [x \in Addr |-> IF x \in T \ armed THEN buf[x] ELSE mem[x]]
     /\ dirty' = (dirty \ T) \cup (T \cap Stale \cap armed)
     /\ UNCHANGED <<mapped, recVars, dispatch, execPending>>

\* MemWrite, with the bytes of buf it gets to transfer: a write over an armed
\* byte leaves the trap in place and becomes the byte to restore.
MemWrite(a, size, buf) ==
  LET T == Transferred(a, size)
  IN /\ T # {}
     /\ mem' = [x \in Addr |-> IF x \in T
                               THEN IF x \in armed THEN Int3 ELSE buf[x]
                               ELSE mem[x]]
     /\ saved' = [x \in Addr |-> IF x \in T \cap recs THEN buf[x] ELSE saved[x]]
     /\ dirty' = (dirty \ T) \cup (T \cap Stale \cap armed)
     /\ UNCHANGED <<mapped, recs, armed, singleshot, dispatch, execPending>>

\* dispatchBreakpoint, before and after the callbacks.
TakeBreakpointDispatch(a) ==
  /\ ~execPending
  /\ dispatch = NoDispatch
  /\ a \in recs
  /\ dispatch' = [at |-> {a}, singleshot |-> a \in singleshot]
  /\ UNCHANGED <<mapped, mem, recVars, execPending, dirty>>

DispatchDone ==
  /\ ~execPending
  /\ dispatch # NoDispatch
  /\ dispatch' = NoDispatch
  /\ LET gone == {a \in dispatch.at : dispatch.singleshot /\ Deletable(a)}
     IN /\ recs' = recs \ gone
        /\ armed' = armed \ gone
        /\ singleshot' = singleshot \ gone
        /\ Unpatch(gone \cap armed)
  /\ UNCHANGED <<mapped, saved, execPending, dirty>>

-----------------------------------------------------------------------------
\* The debuggee stores a byte, or maps and unmaps memory; a fresh mapping has
\* fresh contents.  It does not know of the records.  From execve until the
\* tracer resumes it, it does not run.
DebuggeeWrite(a, b) ==
  /\ ~execPending
  /\ a \in mapped
  /\ mem' = [mem EXCEPT ![a] = b]
  /\ dirty' = dirty \cup ({a} \cap recs)
  /\ UNCHANGED <<mapped, recVars, dispatch, execPending>>

DebuggeeUnmap(a) ==
  /\ ~execPending
  /\ a \in mapped
  /\ mapped' = mapped \ {a}
  /\ dirty' = dirty \cup ({a} \cap recs)
  /\ UNCHANGED <<mem, recVars, dispatch, execPending>>

DebuggeeMap(a, b) ==
  /\ ~execPending
  /\ a \in Addr \ mapped
  /\ mapped' = mapped \cup {a}
  /\ mem' = [mem EXCEPT ![a] = b]
  /\ dirty' = dirty \cup ({a} \cap recs)
  /\ UNCHANGED <<recVars, dispatch, execPending>>

DebuggeeExits ==
  /\ mapped # {}
  /\ mapped' = {}
  /\ dirty' = dirty \cup recs
  /\ UNCHANGED <<mem, recVars, dispatch, execPending>>

\* execve maps the new image; the records stay as they are.
Exec(M, image) ==
  /\ ~execPending
  /\ execPending' = TRUE
  /\ mapped' = M
  /\ mem' = image
  /\ dirty' = {}
  /\ UNCHANGED <<recVars, dispatch>>

ApplyExecKeepsSaved(sameImage, planted) ==
  /\ execPending
  /\ execPending' = FALSE
  /\ recs' = IF sameImage THEN recs \ planted ELSE {}
  /\ singleshot' = singleshot \cap recs'
  /\ armed' = recs' \cap mapped
  /\ mem' = [a \in Addr |-> IF a \in armed' THEN Int3 ELSE mem[a]]
  /\ UNCHANGED <<mapped, saved, dispatch, dirty>>

\* (variant: a record is armed whether or not its byte could be written)
ApplyExecArmsAll(sameImage, planted) ==
  /\ execPending
  /\ execPending' = FALSE
  /\ recs' = IF sameImage THEN recs \ planted ELSE {}
  /\ singleshot' = singleshot \cap recs'
  /\ armed' = recs'
  /\ saved' = [a \in Addr |-> IF a \notin recs' THEN saved[a]
                             ELSE IF a \in mapped THEN mem[a] ELSE Zero]
  /\ mem' = [a \in Addr |-> IF a \in recs' \cap mapped THEN Int3 ELSE mem[a]]
  /\ UNCHANGED <<mapped, dispatch, dirty>>

\* applyExec.  onExec first forgets the byte planted for a step-over (planted
\* holds at most that address).  The other records are seated again when the
\* same image came back at the same base, re-reading each byte, else dropped.
ApplyExec(sameImage, planted) ==
  /\ execPending
  /\ execPending' = FALSE
  /\ recs' = IF sameImage THEN recs \ planted ELSE {}
  /\ singleshot' = singleshot \cap recs'
  /\ armed' = recs' \cap mapped
  /\ saved' = [a \in Addr |-> IF a \notin recs' THEN saved[a]
                             ELSE IF a \in mapped THEN mem[a] ELSE Zero]
  /\ mem' = [a \in Addr |-> IF a \in armed' THEN Int3 ELSE mem[a]]
  /\ UNCHANGED <<mapped, dispatch, dirty>>

Next ==
  \/ \E a \in Addr :
       \/ \E once \in BOOLEAN : SetBreakpoint(a, once)
       \/ DeleteBreakpoint(a)
       \/ DisarmBreakpointByte(a)
       \/ RearmBreakpointByte(a)
       \/ TakeBreakpointDispatch(a)
       \/ \E b \in Byte : DebuggeeWrite(a, b) \/ DebuggeeMap(a, b)
       \/ DebuggeeUnmap(a)
       \/ \E size \in Addr : \E buf \in [Transferred(a, size) -> Byte] :
            MemWrite(a, size, buf)
  \/ DisarmAllBreakpointBytes
  \/ DispatchDone
  \/ DebuggeeExits
  \/ \E M \in SUBSET Addr, image \in Images : Exec(M, image)
  \/ \E sameImage \in BOOLEAN, planted \in {{}} \cup {{a} : a \in Addr} :
       ApplyExec(sameImage, planted)

Spec == Init /\ [][Next]_vars

-----------------------------------------------------------------------------
\* The state is well formed.  In particular a record is armed only where it could
\* write its trap: no memory is behind it only if the debuggee has taken it away.
TypeOK ==
  /\ mapped \subseteq Addr
  /\ mem \in [Addr -> Byte]
  /\ armed \subseteq recs /\ recs \subseteq Addr
  /\ armed \subseteq mapped \cup dirty \cup Stale
  /\ singleshot \subseteq recs
  /\ saved \in [Addr -> Byte]
  /\ dispatch \in [at : SUBSET Addr, singleshot : BOOLEAN]
  /\ execPending \in BOOLEAN
  /\ dirty \subseteq Addr

\* An armed record really traps: wherever the records are to be trusted, the
\* byte of an armed one is an int3.
ArmedTraps ==
  \A a \in (armed \cap mapped) \ (dirty \cup Stale) : mem[a] = Int3

\* A lifted record still knows its byte: while a thread steps over it, what is
\* in memory is what putting the trap back will save from view.
LiftedBytesKnown ==
  \A a \in ((recs \ armed) \cap mapped) \ (dirty \cup Stale) : saved[a] = mem[a]

\* Both kinds of records agree with the memory, so that lifting, re-arming and
\* restoring a byte in any order never writes a byte of the past.
RecordsMatchMemory == ArmedTraps /\ LiftedBytesKnown

\* The breakpoints of ElfBug leave the debuggee's memory, as MemRead shows it,
\* the way the debuggee, the user and execve left it.
Memory == INSTANCE ElfMemoryView
            WITH view <- Program, dirty <- dirty, loading <- execPending
BreakpointsInvisible == Memory!Spec

\* What MemWrite transfers is what MemRead shows next, traps or not.
WriteTakesEffect ==
  [][\A a \in Addr, size \in Addr :
       \A buf \in [Transferred(a, size) -> Byte] :
         MemWrite(a, size, buf) =>
           \A x \in Transferred(a, size) : View'[x] = buf[x]]_vars

\* The teardown before a detach restores every byte that can be written, whatever
\* fails beside it: the memory there is what MemRead showed, no trap stays, and a byte
\* that could not be restored is still known with what it hides.
TeardownRestores ==
  [][DisarmAllBreakpointBytes =>
       /\ \A a \in mapped : mem'[a] = View[a] /\ a \notin armed'
       /\ View' = View]_vars
=============================================================================
