----------------------- MODULE ElfBreakpoints_proofs -----------------------
(***************************************************************************)
(* Proofs about ElfBreakpoints, for every set of addresses, every byte     *)
(* alphabet and every set of images.  TypeOK and ArmedTraps together are   *)
(* inductive; the other theorems follow from TypeOK and the definition of  *)
(* a step.                                                                 *)
(***************************************************************************)
EXTENDS ElfBreakpoints, TLAPS

\* The constants' assumptions are used in every proof below.
USE AddrAssumption, ByteAssumption, ImageAssumption
DEF AddrAssumption, ByteAssumption, ImageAssumption

-----------------------------------------------------------------------------
\* What a transfer moves is mapped, hence made of addresses of the model.
LEMMA TransferredMapped ==
  ASSUME TypeOK, NEW a \in Addr, NEW size \in Addr
  PROVE  Transferred(a, size) \subseteq mapped /\ Transferred(a, size) \subseteq Addr
<1>1. SUFFICES ASSUME NEW x \in Transferred(a, size) PROVE x \in mapped
  BY DEF TypeOK
<1>2. x \in a .. (a + size - 1) /\ \A y \in a .. x : y \in mapped
  BY DEF Transferred
<1>3. x \in a .. x
  BY <1>2
<1> QED
  BY <1>2, <1>3

\* The initial states are well typed.
LEMMA InitTypeOK == Init => TypeOK
<1> SUFFICES ASSUME Init PROVE TypeOK
  OBVIOUS
<1>1. mem \in [Addr -> Byte]
  BY DEF Init
<1>2. saved \in [Addr -> Byte]
  BY DEF Init
<1>3. dispatch \in [at : SUBSET Addr, singleshot : BOOLEAN]
  BY DEF Init, NoDispatch
<1> QED
  BY <1>1, <1>2, <1>3 DEF Init, TypeOK, Stale

\* Every operation of Process, every change the debuggee makes and every step
\* of an execve keeps the records well formed: a record is armed only where
\* its trap could be written.
LEMMA NextTypeOK == TypeOK /\ [Next]_vars => TypeOK'
<1> SUFFICES ASSUME TypeOK, [Next]_vars PROVE TypeOK'
  OBVIOUS
<1> USE DEF TypeOK, Stale
<1>1. ASSUME NEW a \in Addr, NEW once \in BOOLEAN, SetBreakpoint(a, once)
      PROVE  TypeOK'
  BY <1>1 DEF SetBreakpoint
<1>2. ASSUME NEW a \in Addr, DeleteBreakpoint(a) PROVE TypeOK'
  BY <1>2 DEF DeleteBreakpoint, Erase, Unpatch
<1>3. ASSUME NEW a \in Addr, DisarmBreakpointByte(a) PROVE TypeOK'
  BY <1>3 DEF DisarmBreakpointByte, Unpatch
<1>4. ASSUME NEW a \in Addr, RearmBreakpointByte(a) PROVE TypeOK'
  BY <1>4 DEF RearmBreakpointByte
<1>5. ASSUME NEW a \in Addr, TakeBreakpointDispatch(a) PROVE TypeOK'
  BY <1>5 DEF TakeBreakpointDispatch, recVars
<1>6. ASSUME NEW a \in Addr, NEW b \in Byte,
             DebuggeeWrite(a, b) \/ DebuggeeMap(a, b)
      PROVE  TypeOK'
  BY <1>6 DEF DebuggeeWrite, DebuggeeMap, recVars
<1>7. ASSUME NEW a \in Addr, DebuggeeUnmap(a) PROVE TypeOK'
  BY <1>7 DEF DebuggeeUnmap, recVars
<1>8. ASSUME NEW a \in Addr, NEW size \in Addr,
             NEW buf \in [Transferred(a, size) -> Byte], MemWrite(a, size, buf)
      PROVE  TypeOK'
  <2>1. Transferred(a, size) \subseteq mapped /\ Transferred(a, size) \subseteq Addr
    BY TransferredMapped
  <2> QED
    BY <1>8, <2>1 DEF MemWrite
<1>9. CASE DisarmAllBreakpointBytes
  BY <1>9 DEF DisarmAllBreakpointBytes, Unpatch
<1>10. CASE DispatchDone
  BY <1>10 DEF DispatchDone, Unpatch, NoDispatch
<1>11. CASE DebuggeeExits
  BY <1>11 DEF DebuggeeExits, recVars
<1>12. ASSUME NEW M \in SUBSET Addr, NEW image \in Images, Exec(M, image)
       PROVE  TypeOK'
  BY <1>12 DEF Exec, recVars
<1>13. ASSUME NEW sameImage \in BOOLEAN,
              NEW planted \in {{}} \cup {{a} : a \in Addr},
              ApplyExec(sameImage, planted)
       PROVE  TypeOK'
  BY <1>13 DEF ApplyExec
<1>14. CASE UNCHANGED vars
  BY <1>14 DEF vars
<1> QED
  BY <1>1, <1>2, <1>3, <1>4, <1>5, <1>6, <1>7, <1>8, <1>9, <1>10, <1>11,
     <1>12, <1>13, <1>14 DEF Next

\* Typing: the records of Process stay well formed in every behaviour
\* (Process.Breakpoint.cpp, Process.Memory.cpp).
THEOREM TypeOKInvariant == Spec => []TypeOK
  BY InitTypeOK, NextTypeOK, PTL DEF Spec

-----------------------------------------------------------------------------
\* A step of Process or of the debuggee keeps every trusted armed byte a trap.
LEMMA NextArmedTraps == TypeOK /\ ArmedTraps /\ [Next]_vars => ArmedTraps'
<1> SUFFICES ASSUME TypeOK, ArmedTraps, [Next]_vars PROVE ArmedTraps'
  OBVIOUS
<1> USE DEF TypeOK, ArmedTraps, Stale
<1>1. ASSUME NEW a \in Addr, NEW once \in BOOLEAN, SetBreakpoint(a, once)
      PROVE  ArmedTraps'
  BY <1>1 DEF SetBreakpoint
<1>2. ASSUME NEW a \in Addr, DeleteBreakpoint(a) PROVE ArmedTraps'
  BY <1>2 DEF DeleteBreakpoint, Erase, Unpatch
<1>3. ASSUME NEW a \in Addr, DisarmBreakpointByte(a) PROVE ArmedTraps'
  BY <1>3 DEF DisarmBreakpointByte, Unpatch
<1>4. ASSUME NEW a \in Addr, RearmBreakpointByte(a) PROVE ArmedTraps'
  BY <1>4 DEF RearmBreakpointByte
<1>5. ASSUME NEW a \in Addr, TakeBreakpointDispatch(a) PROVE ArmedTraps'
  BY <1>5 DEF TakeBreakpointDispatch, recVars
<1>6. ASSUME NEW a \in Addr, NEW b \in Byte,
             DebuggeeWrite(a, b) \/ DebuggeeMap(a, b)
      PROVE  ArmedTraps'
  BY <1>6 DEF DebuggeeWrite, DebuggeeMap, recVars
<1>7. ASSUME NEW a \in Addr, DebuggeeUnmap(a) PROVE ArmedTraps'
  BY <1>7 DEF DebuggeeUnmap, recVars
<1>8. ASSUME NEW a \in Addr, NEW size \in Addr,
             NEW buf \in [Transferred(a, size) -> Byte], MemWrite(a, size, buf)
      PROVE  ArmedTraps'
  <2>1. Transferred(a, size) \subseteq Addr
    BY TransferredMapped
  <2> QED
    BY <1>8, <2>1 DEF MemWrite
<1>9. CASE DisarmAllBreakpointBytes
  BY <1>9 DEF DisarmAllBreakpointBytes, Unpatch
<1>10. CASE DispatchDone
  BY <1>10 DEF DispatchDone, Unpatch
<1>11. CASE DebuggeeExits
  BY <1>11 DEF DebuggeeExits, recVars
<1>12. ASSUME NEW M \in SUBSET Addr, NEW image \in Images, Exec(M, image)
       PROVE  ArmedTraps'
  BY <1>12 DEF Exec, recVars
<1>13. ASSUME NEW sameImage \in BOOLEAN,
              NEW planted \in {{}} \cup {{a} : a \in Addr},
              ApplyExec(sameImage, planted)
       PROVE  ArmedTraps'
  BY <1>13 DEF ApplyExec
<1>14. CASE UNCHANGED vars
  BY <1>14 DEF vars
<1> QED
  BY <1>1, <1>2, <1>3, <1>4, <1>5, <1>6, <1>7, <1>8, <1>9, <1>10, <1>11,
     <1>12, <1>13, <1>14 DEF Next

\* The byte of an armed record is a trap, unless the debuggee rewrote it or the
\* record describes a program image that execve has just replaced.
THEOREM ArmedTrapsInvariant == Spec => []ArmedTraps
<1>1. Init => ArmedTraps
  BY DEF Init, ArmedTraps
<1>2. (TypeOK /\ ArmedTraps) /\ [Next]_vars => (TypeOK /\ ArmedTraps)'
  BY NextTypeOK, NextArmedTraps
<1> QED
  BY InitTypeOK, <1>1, <1>2, PTL DEF Spec

-----------------------------------------------------------------------------
\* Lifting a byte, writing over it and changes of the debuggee leave the saved
\* byte of a trusted lifted record equal to the byte in memory.
LEMMA NextLiftedBytesKnown == TypeOK /\ LiftedBytesKnown /\ [Next]_vars => LiftedBytesKnown'
<1> SUFFICES ASSUME TypeOK, LiftedBytesKnown, [Next]_vars PROVE LiftedBytesKnown'
  OBVIOUS
<1> USE DEF TypeOK, LiftedBytesKnown, Stale
<1>1. ASSUME NEW a \in Addr, NEW once \in BOOLEAN, SetBreakpoint(a, once)
      PROVE  LiftedBytesKnown'
  BY <1>1 DEF SetBreakpoint
<1>2. ASSUME NEW a \in Addr, DeleteBreakpoint(a) PROVE LiftedBytesKnown'
  BY <1>2 DEF DeleteBreakpoint, Erase, Unpatch
<1>3. ASSUME NEW a \in Addr, DisarmBreakpointByte(a) PROVE LiftedBytesKnown'
  BY <1>3 DEF DisarmBreakpointByte, Unpatch
<1>4. ASSUME NEW a \in Addr, RearmBreakpointByte(a) PROVE LiftedBytesKnown'
  BY <1>4 DEF RearmBreakpointByte
<1>5. ASSUME NEW a \in Addr, TakeBreakpointDispatch(a) PROVE LiftedBytesKnown'
  BY <1>5 DEF TakeBreakpointDispatch, recVars
<1>6. ASSUME NEW a \in Addr, NEW b \in Byte,
             DebuggeeWrite(a, b) \/ DebuggeeMap(a, b)
      PROVE  LiftedBytesKnown'
  BY <1>6 DEF DebuggeeWrite, DebuggeeMap, recVars
<1>7. ASSUME NEW a \in Addr, DebuggeeUnmap(a) PROVE LiftedBytesKnown'
  BY <1>7 DEF DebuggeeUnmap, recVars
<1>8. ASSUME NEW a \in Addr, NEW size \in Addr,
             NEW buf \in [Transferred(a, size) -> Byte], MemWrite(a, size, buf)
      PROVE  LiftedBytesKnown'
  <2>1. Transferred(a, size) \subseteq Addr
    BY TransferredMapped
  <2> QED
    BY <1>8, <2>1 DEF MemWrite
<1>9. CASE DisarmAllBreakpointBytes
  BY <1>9 DEF DisarmAllBreakpointBytes, Unpatch
<1>10. CASE DispatchDone
  BY <1>10 DEF DispatchDone, Unpatch
<1>11. CASE DebuggeeExits
  BY <1>11 DEF DebuggeeExits, recVars
<1>12. ASSUME NEW M \in SUBSET Addr, NEW image \in Images, Exec(M, image)
       PROVE  LiftedBytesKnown'
  BY <1>12 DEF Exec, recVars
<1>13. ASSUME NEW sameImage \in BOOLEAN,
              NEW planted \in {{}} \cup {{a} : a \in Addr},
              ApplyExec(sameImage, planted)
       PROVE  LiftedBytesKnown'
  BY <1>13 DEF ApplyExec
<1>14. CASE UNCHANGED vars
  BY <1>14 DEF vars
<1> QED
  BY <1>1, <1>2, <1>3, <1>4, <1>5, <1>6, <1>7, <1>8, <1>9, <1>10, <1>11,
     <1>12, <1>13, <1>14 DEF Next

\* While a thread steps over a lifted byte, the record knows what is in memory.
THEOREM LiftedBytesKnownInvariant == Spec => []LiftedBytesKnown
<1>1. Init => LiftedBytesKnown
  BY DEF Init, LiftedBytesKnown
<1>2. (TypeOK /\ LiftedBytesKnown) /\ [Next]_vars => (TypeOK /\ LiftedBytesKnown)'
  BY NextTypeOK, NextLiftedBytesKnown
<1> QED
  BY InitTypeOK, <1>1, <1>2, PTL DEF Spec

\* Every trusted record agrees with the memory, armed or lifted.
THEOREM RecordsMatchMemoryHolds == Spec => []RecordsMatchMemory
<1>1. ArmedTraps /\ LiftedBytesKnown => RecordsMatchMemory
  BY DEF RecordsMatchMemory
<1> QED
  BY <1>1, ArmedTrapsInvariant, LiftedBytesKnownInvariant, PTL

-----------------------------------------------------------------------------
\* What MemWrite transfers is what MemRead shows next, whatever records cover
\* the range and whether they are armed or lifted.
THEOREM WriteTakesEffectHolds == Spec => WriteTakesEffect
<1>1. TypeOK /\ [Next]_vars =>
        [\A a \in Addr, size \in Addr :
           \A buf \in [Transferred(a, size) -> Byte] :
             MemWrite(a, size, buf) =>
               \A x \in Transferred(a, size) : View'[x] = buf[x]]_vars
  <2> SUFFICES ASSUME TypeOK, NEW a \in Addr, NEW size \in Addr,
                      NEW buf \in [Transferred(a, size) -> Byte],
                      MemWrite(a, size, buf),
                      NEW x \in Transferred(a, size)
               PROVE  View'[x] = buf[x]
    OBVIOUS
  <2>1. x \in Addr
    BY TransferredMapped
  <2>2. CASE x \in armed
    <3>1. armed \subseteq recs
      BY DEF TypeOK
    <3> QED
      BY <2>1, <2>2, <3>1 DEF MemWrite, View
  <2>3. CASE x \notin armed
    BY <2>1, <2>3 DEF MemWrite, View
  <2> QED
    BY <2>2, <2>3
<1> QED
  BY TypeOKInvariant, <1>1, PTL DEF Spec, WriteTakesEffect

\* A teardown leaves the memory that MemRead showed wherever it can write, and what
\* MemRead shows as it was (Attach.cpp calls it before a detach).
THEOREM TeardownRestoresHolds == Spec => TeardownRestores
<1>1. TypeOK /\ [Next]_vars =>
        [DisarmAllBreakpointBytes =>
           /\ \A a \in mapped : mem'[a] = View[a] /\ a \notin armed'
           /\ View' = View]_vars
  BY DEF TypeOK, DisarmAllBreakpointBytes, Unpatch, View
<1> QED
  BY TypeOKInvariant, <1>1, PTL DEF Spec, TeardownRestores

-----------------------------------------------------------------------------
\* The abstract memory is always a byte per address.
LEMMA ProgramTyped == TypeOK => Program \in [Addr -> Byte]
  BY DEF TypeOK, View, Program

\* A step that touches records only, while they are to be trusted, is at most a
\* change of what is shown at dirty addresses.
LEMMA RecordStep ==
  ASSUME TypeOK, TypeOK', ~execPending, UNCHANGED <<execPending, dirty>>,
         \A a \in Addr \ dirty : View'[a] = View[a]
  PROVE  Memory!Next
<1>1. Program' \in [Addr -> Byte]
  BY ProgramTyped DEF TypeOK, View, Program
<1>2. \A a \in Addr \ dirty : Program'[a] = Program[a]
  BY DEF Program
<1>3. Memory!UserWrite({})
  BY <1>1, <1>2 DEF Memory!UserWrite, Memory!OnlyChanges
<1> QED
  BY <1>3 DEF Memory!Next

\* A step of the debuggee that changes the addresses of T only.
LEMMA DebuggeeStep ==
  ASSUME TypeOK, TypeOK', NEW T \in SUBSET Addr,
         UNCHANGED <<recs, execPending>>, dirty' = dirty \cup (T \cap recs),
         \A a \in Addr \ T : View'[a] = View[a] /\ mem'[a] = mem[a]
  PROVE  Memory!Next
<1>1. Program' \in [Addr -> Byte]
  BY ProgramTyped DEF TypeOK, View, Program
<1>2. \A a \in Addr \ T : Program'[a] = Program[a]
  BY DEF Program
<1>3. Memory!DebuggeeChange(T)
  BY <1>1, <1>2 DEF Memory!DebuggeeChange, Memory!OnlyChanges
<1> QED
  BY <1>3 DEF Memory!Next

\* Every step of Process and of the debuggee is a step of the abstract memory.
LEMMA NextRefines ==
  ASSUME TypeOK, LiftedBytesKnown, [Next]_vars
  PROVE  [Memory!Next]_Memory!vars
<1>0. TypeOK'
  BY NextTypeOK
<1>1. ASSUME NEW a \in Addr, NEW once \in BOOLEAN, SetBreakpoint(a, once)
      PROVE  Memory!Next
  <2>1. \A x \in Addr : View'[x] = View[x]
    BY <1>1 DEF SetBreakpoint, View, TypeOK
  <2> QED
    BY <1>0, <1>1, <2>1, RecordStep DEF SetBreakpoint
<1>2. ASSUME NEW a \in Addr, DeleteBreakpoint(a) PROVE Memory!Next
  <2>1. \A x \in Addr : View'[x] = View[x]
    BY <1>2 DEF DeleteBreakpoint, Erase, Unpatch, View, TypeOK
  <2> QED
    BY <1>0, <1>2, <2>1, RecordStep DEF DeleteBreakpoint
<1>3. ASSUME NEW a \in Addr, DisarmBreakpointByte(a) PROVE Memory!Next
  <2>1. \A x \in Addr : View'[x] = View[x]
    BY <1>3 DEF DisarmBreakpointByte, Unpatch, View, TypeOK
  <2> QED
    BY <1>0, <1>3, <2>1, RecordStep DEF DisarmBreakpointByte
<1>4. ASSUME NEW a \in Addr, RearmBreakpointByte(a) PROVE Memory!Next
  <2>1. \A x \in Addr \ dirty : View'[x] = View[x]
    BY <1>4 DEF RearmBreakpointByte, View, TypeOK, LiftedBytesKnown, Stale
  <2> QED
    BY <1>0, <1>4, <2>1, RecordStep DEF RearmBreakpointByte
<1>5. ASSUME NEW a \in Addr, TakeBreakpointDispatch(a)
      PROVE  UNCHANGED Memory!vars
  BY <1>5 DEF TakeBreakpointDispatch, recVars, Memory!vars, View, Program
<1>6. ASSUME NEW a \in Addr, NEW b \in Byte, DebuggeeWrite(a, b)
      PROVE  Memory!Next
  <2>1. \A x \in Addr \ {a} : View'[x] = View[x] /\ mem'[x] = mem[x]
    BY <1>6 DEF DebuggeeWrite, recVars, View, TypeOK
  <2>2. /\ UNCHANGED <<recs, execPending>>
        /\ dirty' = dirty \cup ({a} \cap recs)
    BY <1>6 DEF DebuggeeWrite, recVars
  <2>3. {a} \in SUBSET Addr
    OBVIOUS
  <2> QED
    BY <1>0, <2>1, <2>2, <2>3, DebuggeeStep
<1>7. ASSUME NEW a \in Addr, NEW b \in Byte, DebuggeeMap(a, b)
      PROVE  Memory!Next
  <2>1. \A x \in Addr \ {a} : View'[x] = View[x] /\ mem'[x] = mem[x]
    BY <1>7 DEF DebuggeeMap, recVars, View, TypeOK
  <2>2. /\ UNCHANGED <<recs, execPending>>
        /\ dirty' = dirty \cup ({a} \cap recs)
    BY <1>7 DEF DebuggeeMap, recVars
  <2>3. {a} \in SUBSET Addr
    OBVIOUS
  <2> QED
    BY <1>0, <2>1, <2>2, <2>3, DebuggeeStep
<1>8. ASSUME NEW a \in Addr, DebuggeeUnmap(a) PROVE Memory!Next
  <2>1. \A x \in Addr \ {a} : View'[x] = View[x] /\ mem'[x] = mem[x]
    BY <1>8 DEF DebuggeeUnmap, recVars, View
  <2>2. /\ UNCHANGED <<recs, execPending>>
        /\ dirty' = dirty \cup ({a} \cap recs)
    BY <1>8 DEF DebuggeeUnmap, recVars
  <2>3. {a} \in SUBSET Addr
    OBVIOUS
  <2> QED
    BY <1>0, <2>1, <2>2, <2>3, DebuggeeStep
<1>9. ASSUME NEW a \in Addr, NEW size \in Addr,
             NEW buf \in [Transferred(a, size) -> Byte], MemWrite(a, size, buf)
      PROVE  Memory!Next
  <2> DEFINE T == Transferred(a, size)
  <2>1. T \subseteq Addr
    BY TransferredMapped
  <2>2. Program' \in [Addr -> Byte]
    BY <1>0, ProgramTyped DEF TypeOK, View, Program
  <2>3. \A x \in Addr \ T : Program'[x] = Program[x]
    BY <1>9, <2>1 DEF MemWrite, View, Program, TypeOK
  <2>4. Memory!OnlyChanges(T)
    BY <2>2, <2>3 DEF Memory!OnlyChanges
  <2>5. /\ dirty \ T \subseteq dirty'
        /\ dirty' \subseteq IF execPending THEN dirty \cup T ELSE dirty
        /\ UNCHANGED execPending
    BY <1>9 DEF MemWrite, Stale
  <2>6. Memory!UserWrite(T)
    BY <2>4, <2>5 DEF Memory!UserWrite
  <2> QED
    BY <2>1, <2>6 DEF Memory!Next
<1>10. CASE DisarmAllBreakpointBytes
  <2>1. \A x \in Addr : View'[x] = View[x]
    BY <1>10 DEF DisarmAllBreakpointBytes, Unpatch, View, TypeOK
  <2> QED
    BY <1>0, <1>10, <2>1, RecordStep DEF DisarmAllBreakpointBytes
<1>11. CASE DispatchDone
  <2>1. \A x \in Addr : View'[x] = View[x]
    BY <1>11 DEF DispatchDone, Unpatch, View, TypeOK
  <2> QED
    BY <1>0, <1>11, <2>1, RecordStep DEF DispatchDone
<1>12. CASE DebuggeeExits
  <2>1. \A x \in Addr : View'[x] = View[x] /\ mem'[x] = mem[x]
    BY <1>12 DEF DebuggeeExits, recVars, View
  <2>2. dirty' = dirty \cup (Addr \cap recs)
    BY <1>12 DEF DebuggeeExits, TypeOK
  <2> QED
    BY <1>0, <1>12, <2>1, <2>2, DebuggeeStep DEF DebuggeeExits, recVars
<1>13. ASSUME NEW M \in SUBSET Addr, NEW image \in Images, Exec(M, image)
       PROVE  Memory!Next
  <2>1. Program' \in [Addr -> Byte]
    BY <1>0, ProgramTyped DEF TypeOK, View, Program
  <2>2. execPending = FALSE /\ execPending' = TRUE /\ dirty' = {}
    BY <1>13 DEF Exec, TypeOK
  <2>3. Memory!Replace
    BY <2>1, <2>2 DEF Memory!Replace
  <2> QED
    BY <2>3 DEF Memory!Next
<1>14. ASSUME NEW sameImage \in BOOLEAN,
              NEW planted \in {{}} \cup {{a} : a \in Addr},
              ApplyExec(sameImage, planted)
       PROVE  Memory!Next
  <2>1. Program' \in [Addr -> Byte]
    BY <1>0, ProgramTyped DEF TypeOK, View, Program
  <2>2. execPending = TRUE /\ execPending' = FALSE /\ dirty' = dirty
    BY <1>14 DEF ApplyExec, TypeOK
  <2>3. \A x \in Addr : Program'[x] = mem[x]
    BY <1>14, <2>2 DEF ApplyExec, View, Program, TypeOK
  <2>4. \A x \in Addr : Program[x] = mem[x]
    BY <2>2 DEF Program
  <2>5. Memory!OnlyChanges({})
    BY <2>1, <2>3, <2>4 DEF Memory!OnlyChanges
  <2>6. Memory!Settle
    BY <2>2, <2>5 DEF Memory!Settle
  <2> QED
    BY <2>6 DEF Memory!Next
<1>15. CASE UNCHANGED vars
  BY <1>15 DEF vars, Memory!vars, View, Program
<1> QED
  BY <1>1, <1>2, <1>3, <1>4, <1>5, <1>6, <1>7, <1>8, <1>9, <1>10, <1>11,
     <1>12, <1>13, <1>14, <1>15 DEF Next

\* ElfBug's breakpoints are invisible: every behaviour of Process, its debuggee
\* and execve is one of the plain memory of ElfMemoryView.
THEOREM BreakpointsInvisibleHolds == Spec => BreakpointsInvisible
<1>1. Init => Memory!Init
  <2> SUFFICES ASSUME Init PROVE Memory!Init
    OBVIOUS
  <2>1. Program \in [Addr -> Byte]
    BY InitTypeOK, ProgramTyped
  <2>2. dirty = {} /\ execPending = FALSE
    BY DEF Init
  <2> QED
    BY <2>1, <2>2 DEF Memory!Init
<1>2. TypeOK /\ LiftedBytesKnown /\ [Next]_vars => [Memory!Next]_Memory!vars
  BY NextRefines
<1> QED
  BY TypeOKInvariant, LiftedBytesKnownInvariant, <1>1, <1>2, PTL
  DEF Spec, BreakpointsInvisible, Memory!Spec
=============================================================================
