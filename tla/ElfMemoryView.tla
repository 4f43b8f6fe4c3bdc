--------------------------- MODULE ElfMemoryView ---------------------------
(***************************************************************************)
(* What ElfBug's Process promises about the debuggee's memory: one byte    *)
(* per address, changed by the debuggee, by the user's writes and by       *)
(* execve, and by nothing else.  Breakpoints come and go without a trace.  *)
(*                                                                         *)
(* The promise has one limit.  Process does not watch the debuggee's own   *)
(* writes, so an address the debuggee rewrites or remaps while a           *)
(* breakpoint record covers it is "dirty": what is shown there is          *)
(* unspecified until the user writes that byte or the program is replaced. *)
(* And between execve and the moment the tracer takes it in, the records   *)
(* describe the old program: what the user writes then may be lost.        *)
(***************************************************************************)
CONSTANTS
  Addr,   \* the addresses of the debuggee that matter
  Byte    \* the values of a byte

VARIABLES
  view,   \* the bytes the debuggee is meant to have
  dirty,  \* the addresses the promise does not cover
  loading \* the program was replaced and the tracer has not taken it in

vars == <<view, dirty, loading>>

Init ==
  /\ view \in [Addr -> Byte]
  /\ dirty = {}
  /\ loading = FALSE

\* Only the addresses of T, and those no promise covers, change.
OnlyChanges(T) ==
  /\ view' \in [Addr -> Byte]
  /\ \A a \in Addr \ (T \cup dirty) : view'[a] = view[a]

\* The user writes the bytes of T; that makes them clean again, except while
\* the program is being replaced.
UserWrite(T) ==
  /\ OnlyChanges(T)
  /\ dirty \ T \subseteq dirty'
  /\ dirty' \subseteq IF loading THEN dirty \cup T ELSE dirty
  /\ UNCHANGED loading

\* The debuggee writes or remaps the addresses of T.
DebuggeeChange(T) ==
  /\ OnlyChanges(T)
  /\ dirty \subseteq dirty'
  /\ dirty' \subseteq dirty \cup T
  /\ UNCHANGED loading

\* execve replaces the address space; then the tracer takes it in, which
\* changes nothing of it.
Replace ==
  /\ loading = FALSE /\ loading' = TRUE
  /\ view' \in [Addr -> Byte]
  /\ dirty' = {}

Settle ==
  /\ loading = TRUE /\ loading' = FALSE
  /\ OnlyChanges({})
  /\ UNCHANGED dirty

Next ==
  \/ \E T \in SUBSET Addr : UserWrite(T) \/ DebuggeeChange(T)
  \/ Replace
  \/ Settle

Spec == Init /\ [][Next]_vars

=============================================================================
