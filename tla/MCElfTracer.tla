---------------------------- MODULE MCElfTracer ----------------------------
(* Instances of ElfTracer. Two threads and one breakpoint are enough for    *)
(* every pair of threads that meet in the tracer: the one it steps and the  *)
(* one it freezes, the one it drains and the one it waits for. Three        *)
(* threads are used for stepping, where the stepped thread, the one with a  *)
(* pending hit and the one being swept differ. A configuration names in     *)
(* Calls the calls of the user it lets race with the tracer: all of them at *)
(* once are out of reach, so each configuration takes those that meet in    *)
(* the behaviour it is about. Births and Exits are one thread each: it is   *)
(* created, swept, paused and ends beside the leader, which stays.          *)
EXTENDS ElfTracer
=============================================================================
