--------------------------- MODULE MCTaskThread ---------------------------
(* An instance of TaskThread: two threads that wake the task up, five times  *)
(* together. While the worker is busy with one post a second is collected,   *)
(* a third finds the semaphore raised, and the others arrive between the     *)
(* release of a slow producer and the next latch.                            *)
EXTENDS TaskThread
CONSTANTS p1, p2
MCProducer == {p1, p2}
=============================================================================
