-------------------------- MODULE InterruptProofs --------------------------
(***************************************************************************)
(* Proofs about module Interrupt, for any number of lines, traps and       *)
(* snapshots, any ages and any program.  Each theorem about what pends     *)
(* names the loaders and savers of snapshots under which the code keeps    *)
(* it; README.md says what the others do.                                  *)
(***************************************************************************)
EXTENDS Interrupt, FiniteSetTheorems, TLAPS

\* The actions that neither raise, lower, reset nor load, with the frame that
\* they share: a request for a reset stays.
Quiet ==
  /\ UNCHANGED lineVars
  /\ "RESET" \in global => "RESET" \in global'

Counted(irq, nmi, i, n) ==
  /\ irq \in SUBSET Lines /\ nmi \in SUBSET Lines
  /\ i = Cardinality(irq) /\ n = Cardinality(nmi)

\* The types of the lines and of their counters.
LineTypes ==
  /\ pendingIrq \in SUBSET Lines /\ pendingNmi \in SUBSET Lines
  /\ nirq \in Nat /\ nnmi \in Nat
  /\ \A s \in snap : s.irq \in SUBSET Lines /\ s.nmi \in SUBSET Lines
                     /\ s.nirq \in Nat /\ s.nnmi \in Nat

\* The counters agree with the lines, on the machine and in the snapshot,
\* unless a reset is asked for, on the machine or in the snapshot.
CountInv ==
  /\ "RESET" \in global \/ Counted(pendingIrq, pendingNmi, nirq, nnmi)
  /\ \A s \in snap : "RESET" \in s.global \/ Counted(s.irq, s.nmi, s.nirq, s.nnmi)

LineInv == LineTypes /\ CountInv

-----------------------------------------------------------------------------
\* A line more or less changes the number of lines by one.
LEMMA OneLine ==
  ASSUME NEW A \in SUBSET Lines, NEW l \in Lines
  PROVE  /\ Cardinality(A) \in Nat
         /\ Cardinality(A) = 0 <=> A = {}
         /\ l \notin A => Cardinality(A \cup {l}) = Cardinality(A) + 1
         /\ l \in A => Cardinality(A \ {l}) = Cardinality(A) - 1
<1>1. IsFiniteSet(A)
  BY InterruptConstants, FS_Subset
<1> QED
  BY <1>1, FS_CardinalityType, FS_EmptySet, FS_AddElement, FS_RemoveElement

\* Init: no line is asserted.
LEMMA InitLineInv == Init => LineInv
<1>1. Cardinality({}) = 0
  BY FS_EmptySet
<1> QED
  BY <1>1 DEF Init, LineInv, LineTypes, CountInv, Counted

\* raise_irq and lower_irq count the line they change.
LEMMA IrqKeepsLineInv == LineInv /\ interrupt_set_irq => LineInv'
<1> SUFFICES ASSUME LineInv, interrupt_set_irq PROVE LineInv'
  OBVIOUS
<1>1. PICK l \in Lines : raise_irq(l) \/ lower_irq(l)
  BY DEF interrupt_set_irq
<1>2. UNCHANGED snap /\ UNCHANGED <<pendingNmi, nnmi>> /\ ("RESET" \in global => "RESET" \in global')
  BY <1>1 DEF interrupt_set_irq, raise_irq, lower_irq
<1>3. /\ pendingIrq' \in SUBSET Lines /\ nirq' \in Nat
      /\ nirq = Cardinality(pendingIrq) => nirq' = Cardinality(pendingIrq')
  <2>1. CASE raise_irq(l)
    BY <2>1, OneLine DEF raise_irq, LineInv, LineTypes
  <2>2. CASE lower_irq(l)
    BY <2>2, OneLine DEF lower_irq, LineInv, LineTypes
  <2> QED
    BY <1>1, <2>1, <2>2
<1>4. LineTypes'
  BY <1>2, <1>3 DEF LineInv, LineTypes
<1>5. CountInv'
  BY <1>2, <1>3 DEF LineInv, CountInv, Counted
<1> QED
  BY <1>4, <1>5 DEF LineInv

\* raise_nmi and lower_nmi count the line they change.
LEMMA NmiKeepsLineInv == LineInv /\ interrupt_set_nmi => LineInv'
<1> SUFFICES ASSUME LineInv, interrupt_set_nmi PROVE LineInv'
  OBVIOUS
<1>1. PICK l \in Lines : raise_nmi(l) \/ lower_nmi(l)
  BY DEF interrupt_set_nmi
<1>2. UNCHANGED snap /\ UNCHANGED <<pendingIrq, nirq>> /\ ("RESET" \in global => "RESET" \in global')
  BY <1>1 DEF interrupt_set_nmi, raise_nmi, lower_nmi
<1>3. /\ pendingNmi' \in SUBSET Lines /\ nnmi' \in Nat
      /\ nnmi = Cardinality(pendingNmi) => nnmi' = Cardinality(pendingNmi')
  <2>1. CASE raise_nmi(l)
    BY <2>1, OneLine DEF raise_nmi, LineInv, LineTypes
  <2>2. CASE lower_nmi(l)
    BY <2>2, OneLine DEF lower_nmi, LineInv, LineTypes
  <2> QED
    BY <1>1, <2>1, <2>2
<1>4. LineTypes'
  BY <1>2, <1>3 DEF LineInv, LineTypes
<1>5. CountInv'
  BY <1>2, <1>3 DEF LineInv, CountInv, Counted
<1> QED
  BY <1>4, <1>5 DEF LineInv

\* cpu_reset clears the lines and their counters together.
LEMMA ResetKeepsLineInv == LineInv /\ ResetStatus /\ UNCHANGED snap => LineInv'
<1>1. Cardinality({}) = 0
  BY FS_EmptySet
<1> QED
  BY <1>1 DEF ResetStatus, LineInv, LineTypes, CountInv, Counted

\* A snapshot brings its own lines and counters, or asks for a reset.
LEMMA LoadKeepsLineInv ==
  ASSUME NEW who, LineInv, machine_read_snapshot(who) \/ ReadSnapshotFails(who)
  PROVE  LineInv'
<1>1. CASE machine_read_snapshot(who)
  <2>1. PICK s \in snap : /\ pendingIrq' = s.irq /\ pendingNmi' = s.nmi
                          /\ nirq' = s.nirq /\ nnmi' = s.nnmi
                          /\ global' = Rearmed(who, s.global)
    BY <1>1 DEF machine_read_snapshot
  <2>2. snap' = snap /\ ("RESET" \in s.global => "RESET" \in global')
    BY <1>1, <2>1 DEF machine_read_snapshot, Rearmed
  <2> QED
    BY <2>1, <2>2 DEF LineInv, LineTypes, CountInv
<1>2. CASE ReadSnapshotFails(who)
  BY <1>2 DEF ReadSnapshotFails, LineInv, LineTypes, CountInv
<1> QED
  BY <1>1, <1>2

\* Everything else leaves the lines alone and a request for a reset pending.
LEMMA QuietKeepsLineInv == LineInv /\ Quiet /\ UNCHANGED snap => LineInv'
BY DEF Quiet, LineInv, LineTypes, CountInv, lineVars

\* Every step of the specification keeps the counters right.
LEMMA StepKeepsLineInv == LineInv /\ [Next]_vars => LineInv'
<1> SUFFICES ASSUME LineInv, [Next]_vars PROVE LineInv'
  OBVIOUS
<1> USE QuietKeepsLineInv
<1>1. CASE interrupt_set_irq
  BY <1>1, IrqKeepsLineInv
<1>2. CASE interrupt_set_nmi
  BY <1>2, NmiKeepsLineInv
<1>3. CASE TriggerDmaOrReset
  BY <1>3 DEF TriggerDmaOrReset, Quiet
<1>4. CASE interrupt_maincpu_trigger_trap
  BY <1>4 DEF interrupt_maincpu_trigger_trap, Quiet
<1>5. CASE Poll
  BY <1>5 DEF Poll, Quiet
<1>6. CASE EnterSequence
  BY <1>6 DEF EnterSequence, Quiet
<1>7. CASE SkipSequence
  BY <1>7 DEF SkipSequence, Quiet
<1>8. CASE ChooseVector
  BY <1>8 DEF ChooseVector, Quiet
<1>9. CASE interrupt_do_trap
  BY <1>9 DEF interrupt_do_trap, Quiet
<1>10. CASE NoTrap
  BY <1>10 DEF NoTrap, Quiet
<1>11. CASE cpu_reset
  BY <1>11, ResetKeepsLineInv DEF cpu_reset
<1>12. CASE NoReset
  BY <1>12 DEF NoReset, Quiet
<1>13. CASE LeaveInterrupt
  BY <1>13 DEF LeaveInterrupt, Quiet
<1>14. CASE ExecuteOpcode
  BY <1>14 DEF ExecuteOpcode, Quiet
<1>15. CASE BrkPushes
  BY <1>15 DEF BrkPushes, Quiet
<1>16. CASE BrkVector
  BY <1>16 DEF BrkVector, Quiet
<1>17. CASE ExecuteJam
  BY <1>17, ResetKeepsLineInv DEF ExecuteJam, Quiet
<1>18. CASE LeaveJamMonitor
  BY <1>18 DEF LeaveJamMonitor, Quiet
<1>19. CASE update_checkpoint_state
  BY <1>19 DEF update_checkpoint_state, Quiet
<1>20. CASE mon_jump
  BY <1>20 DEF mon_jump, Quiet
<1>21. CASE \E who \in Savers : machine_write_snapshot(who)
  <2>1. /\ UNCHANGED <<lineVars, global>>
        /\ snap' = {[irq |-> pendingIrq, nmi |-> pendingNmi, nirq |-> nirq, nnmi |-> nnmi,
                     global |-> global, jam |-> atJam]}
    BY <1>21 DEF machine_write_snapshot
  <2> QED
    BY <2>1 DEF lineVars, LineInv, LineTypes, CountInv, Counted
<1>22. CASE \E who \in Loaders : machine_read_snapshot(who) \/ ReadSnapshotFails(who)
  BY <1>22, LoadKeepsLineInv
<1>23. CASE UNCHANGED vars
  BY <1>23 DEF vars, Quiet
<1> QED
  BY <1>1, <1>2, <1>3, <1>4, <1>5, <1>6, <1>7, <1>8, <1>9, <1>10, <1>11, <1>12, <1>13,
     <1>14, <1>15, <1>16, <1>17, <1>18, <1>19, <1>20, <1>21, <1>22, <1>23 DEF Next

\* nirq and nnmi equal the number of asserted lines unless a reset is asked
\* for, for any number of lines and whoever saves and loads snapshots.
THEOREM CountersRight == Spec => []LinesCounted
<1>1. LineInv => LinesCounted
  BY DEF LineInv, CountInv, Counted, LinesCounted, ResetRequested
<1> QED
  BY <1>1, InitLineInv, StepKeepsLineInv, PTL DEF Spec
-----------------------------------------------------------------------------
(***************************************************************************)
(* The level of IK_IRQ.  A jammed CPU discards IK_IRQ; a snapshot that is   *)
(* loaded into it does not end that, and one that is saved then brings the *)
(* discarded level back.                                                   *)
(***************************************************************************)

\* IK_IRQ agrees with the lines, also while the program counter is at a JAM
\* that was not executed yet.
LevelInv ==
  /\ IrqLevelSeen
  /\ pc = "brk" => ~ atJam
  /\ Loaders = {} /\ ~ jammed /\ ~ ResetRequested => ("IRQ" \in global <=> pendingIrq # {})

\* An action that leaves the lines and IK_IRQ alone and does not unjam.
KeepsLevel ==
  /\ UNCHANGED <<pendingIrq, snap>>
  /\ "RESET" \in global => "RESET" \in global'
  /\ "RESET" \notin global' => ("IRQ" \in global' <=> "IRQ" \in global)
  /\ jammed' = jammed
  /\ atJam' = atJam
  /\ pc' = "brk" => pc = "brk" \/ ~ atJam

\* Such an action keeps the level.
LEMMA FrameKeepsLevel == LevelInv /\ KeepsLevel => LevelInv'
BY DEF KeepsLevel, LevelInv, IrqLevelSeen, ResetRequested

\* A raised line raises IK_IRQ and the last one that is lowered lowers it.
LEMMA IrqKeepsLevel == LineInv /\ LevelInv /\ interrupt_set_irq => LevelInv'
<1> SUFFICES ASSUME LineInv, LevelInv, interrupt_set_irq PROVE LevelInv'
  OBVIOUS
<1>1. PICK l \in Lines : raise_irq(l) \/ lower_irq(l)
  BY DEF interrupt_set_irq
<1>2. UNCHANGED <<snap, jammed, atJam, pc>>
  BY DEF interrupt_set_irq, cpuVars, loopVars
<1>3. "RESET" \in global' <=> "RESET" \in global
  BY <1>1 DEF raise_irq, lower_irq
<1>4. ASSUME ~ jammed, ~ atJam \/ Loaders = {}, ~ ResetRequested
      PROVE  "IRQ" \in global' <=> pendingIrq' # {}
  <2>1. CASE raise_irq(l)
    BY <2>1 DEF raise_irq
  <2>2. CASE lower_irq(l)
    <3>1. nirq = Cardinality(pendingIrq) /\ pendingIrq \in SUBSET Lines /\ pendingIrq' \in SUBSET Lines
      BY <1>4, <2>2 DEF LineInv, LineTypes, CountInv, Counted, ResetRequested, lower_irq
    <3>2. nirq' = 0 <=> pendingIrq' = {}
      BY <2>2, <3>1, OneLine DEF lower_irq
    <3>3. "IRQ" \in global
      BY <1>4, <2>2 DEF LevelInv, IrqLevelSeen, lower_irq
    <3> QED
      BY <2>2, <3>2, <3>3 DEF lower_irq
  <2> QED
    BY <1>1, <2>1, <2>2
<1> QED
  BY <1>2, <1>3, <1>4 DEF LevelInv, IrqLevelSeen, ResetRequested

\* Every step keeps the level, if no snapshot is loaded.
LEMMA StepKeepsLevel ==
  ASSUME Loaders = {}
  PROVE  LineInv /\ LevelInv /\ [Next]_vars => LevelInv'
<1> SUFFICES ASSUME LineInv, LevelInv, [Next]_vars PROVE LevelInv'
  OBVIOUS
<1> USE FrameKeepsLevel DEF cpuVars, lineVars, loopVars
<1>1. CASE interrupt_set_irq
  BY <1>1, IrqKeepsLevel
<1>2. CASE interrupt_set_nmi
  BY <1>2 DEF interrupt_set_nmi, raise_nmi, lower_nmi, KeepsLevel
<1>3. CASE TriggerDmaOrReset
  BY <1>3 DEF TriggerDmaOrReset, KeepsLevel
<1>4. CASE interrupt_maincpu_trigger_trap
  BY <1>4 DEF interrupt_maincpu_trigger_trap, KeepsLevel
<1>5. CASE Poll
  BY <1>5 DEF Poll, LevelInv, IrqLevelSeen, ResetRequested
<1>6. CASE EnterSequence
  BY <1>6 DEF EnterSequence, KeepsLevel
<1>7. CASE SkipSequence
  BY <1>7 DEF SkipSequence, KeepsLevel
<1>8. CASE ChooseVector
  BY <1>8 DEF ChooseVector, KeepsLevel
<1>9. CASE interrupt_do_trap
  BY <1>9 DEF interrupt_do_trap, KeepsLevel
<1>10. CASE NoTrap
  BY <1>10 DEF NoTrap, KeepsLevel
<1>11. CASE cpu_reset
  BY <1>11 DEF cpu_reset, ResetStatus, LevelInv, IrqLevelSeen
<1>12. CASE NoReset
  BY <1>12 DEF NoReset, KeepsLevel
<1>13. CASE LeaveInterrupt
  BY <1>13 DEF LeaveInterrupt, KeepsLevel
<1>14. CASE ExecuteOpcode
  BY <1>14 DEF ExecuteOpcode, LevelInv, IrqLevelSeen, ResetRequested
<1>15. CASE BrkPushes
  BY <1>15 DEF BrkPushes, KeepsLevel
<1>16. CASE BrkVector
  <2>1. /\ UNCHANGED <<pendingIrq, snap, jammed>> /\ (jammed => atJam' = FALSE)
        /\ "RESET" \in global' <=> "RESET" \in global
        /\ "IRQ" \in global' <=> "IRQ" \in global
    BY <1>16 DEF BrkVector
  <2> QED
    BY <1>16, <2>1 DEF LevelInv, IrqLevelSeen, ResetRequested, BrkVector
<1>17. CASE ExecuteJam
  BY <1>17 DEF ExecuteJam, ResetStatus, KeepsLevel, LevelInv, IrqLevelSeen, ResetRequested
<1>18. CASE LeaveJamMonitor
  BY <1>18 DEF LeaveJamMonitor, KeepsLevel
<1>19. CASE update_checkpoint_state
  BY <1>19 DEF update_checkpoint_state, KeepsLevel
<1>20. CASE mon_jump
  BY <1>20 DEF mon_jump, LevelInv, IrqLevelSeen, ResetRequested
<1>21. CASE \E who \in Savers : machine_write_snapshot(who)
  BY <1>21 DEF machine_write_snapshot, LevelInv, IrqLevelSeen, ResetRequested
<1>22. CASE \E who \in Loaders : machine_read_snapshot(who) \/ ReadSnapshotFails(who)
  BY <1>22 DEF machine_read_snapshot, ReadSnapshotFails, Rearmed, LevelInv, IrqLevelSeen, ResetRequested
<1>23. CASE UNCHANGED vars
  BY <1>23 DEF vars, KeepsLevel
<1> QED
  BY <1>1, <1>2, <1>3, <1>4, <1>5, <1>6, <1>7, <1>8, <1>9, <1>10, <1>11, <1>12, <1>13,
     <1>14, <1>15, <1>16, <1>17, <1>18, <1>19, <1>20, <1>21, <1>22, <1>23 DEF Next

\* IK_IRQ is pending exactly when some line is asserted, for any number of
\* lines and any program, while the CPU runs, also after the monitor moved it
\* away from a JAM and after resets: provided that no snapshot is loaded.
THEOREM LevelSeen ==
  ASSUME Loaders = {}
  PROVE  Spec => []IrqLevelSeen
<1>1. Init => LevelInv
  BY DEF Init, LevelInv, IrqLevelSeen, ResetRequested
<1>2. LevelInv => IrqLevelSeen
  BY DEF LevelInv
<1> QED
  BY <1>1, <1>2, InitLineInv, StepKeepsLineInv, StepKeepsLevel, PTL DEF Spec
-----------------------------------------------------------------------------
(***************************************************************************)
(* NMIs.                                                                   *)
(***************************************************************************)

\* A sequence entered for an NMI finds IK_NMI still pending, and long enough,
\* when it chooses the vector.
VectorInv ==
  /\ nmiAge \in Ages
  /\ pc = "check" => ik = global
  /\ pc = "vector" => entry = "IRQ" \/ ("NMI" \in global /\ nmiAge = MaxAge)
  /\ pc \in {"top", "check", "vector", "instr", "brk", "jamMonitor"} => vec # "IRQ"
  /\ NmiTakesNmiVector

\* Ages stay ages when time passes, and are the largest after five cycles.
LEMMA OlderAges ==
  ASSUME NEW age \in Ages, NEW n \in 0 .. 5
  PROVE  Older(age, n) \in Ages /\ Older(age, 5) = MaxAge
BY DEF Older, Ages, MaxAge, INTERRUPT_DELAY

\* Every step keeps the NMI a sequence was entered for.
LEMMA StepKeepsVector == VectorInv /\ [Next]_vars => VectorInv'
<1> SUFFICES ASSUME VectorInv, [Next]_vars PROVE VectorInv'
  OBVIOUS
<1> USE DEF VectorInv, NmiTakesNmiVector, timeVars, loopVars
<1>0. /\ MaxAge \in Ages /\ GivenAges \subseteq Ages
      /\ Older(nmiAge, 1) \in Ages /\ Older(nmiAge, 2) \in Ages /\ Older(nmiAge, 5) = MaxAge
      /\ \A n \in 1 .. 3 : Older(nmiAge, n) \in Ages
  BY OlderAges, InterruptConstants DEF Ages, MaxAge, INTERRUPT_DELAY
<1>1. CASE interrupt_set_irq
  BY <1>0, <1>1 DEF interrupt_set_irq, raise_irq, lower_irq, DevicesRun
<1>2. CASE interrupt_set_nmi
  BY <1>0, <1>2 DEF interrupt_set_nmi, raise_nmi, lower_nmi, DevicesRun
<1>3. CASE TriggerDmaOrReset
  BY <1>0, <1>3 DEF TriggerDmaOrReset, DevicesRun, InsideTrap, MonitorOpen
<1>4. CASE interrupt_maincpu_trigger_trap
  BY <1>0, <1>4 DEF interrupt_maincpu_trigger_trap, DevicesRun, InsideTrap, InsideReset, MonitorOpen
<1>5. CASE Poll
  BY <1>0, <1>5 DEF Poll
<1>6. CASE EnterSequence
  BY <1>0, <1>6 DEF EnterSequence, NmiTaken, Elapse
<1>7. CASE SkipSequence
  BY <1>0, <1>7 DEF SkipSequence
<1>8. CASE ChooseVector
  BY <1>0, <1>8 DEF ChooseVector, INTERRUPT_DELAY, MaxAge
<1>9. CASE interrupt_do_trap
  BY <1>0, <1>9 DEF interrupt_do_trap
<1>10. CASE NoTrap
  BY <1>0, <1>10 DEF NoTrap
<1>11. CASE cpu_reset
  BY <1>0, <1>11 DEF cpu_reset, ResetStatus
<1>12. CASE NoReset
  BY <1>0, <1>12 DEF NoReset
<1>13. CASE LeaveInterrupt
  BY <1>0, <1>13 DEF LeaveInterrupt, Forget
<1>14. CASE ExecuteOpcode
  BY <1>0, <1>14 DEF ExecuteOpcode, Elapse
<1>15. CASE BrkPushes
  BY <1>0, <1>15 DEF BrkPushes, Elapse
<1>16. CASE BrkVector
  BY <1>0, <1>16 DEF BrkVector
<1>17. CASE ExecuteJam
  BY <1>0, <1>17 DEF ExecuteJam, ResetStatus, Elapse
<1>18. CASE LeaveJamMonitor
  BY <1>0, <1>18 DEF LeaveJamMonitor
<1>19. CASE update_checkpoint_state
  BY <1>0, <1>19 DEF update_checkpoint_state, MonitorOpen, InsideTrap
<1>20. CASE mon_jump
  BY <1>0, <1>20 DEF mon_jump
<1>21. CASE \E who \in Savers : machine_write_snapshot(who)
  BY <1>0, <1>21 DEF machine_write_snapshot
<1>22. CASE \E who \in Loaders : machine_read_snapshot(who) \/ ReadSnapshotFails(who)
  BY <1>0, <1>22 DEF machine_read_snapshot, ReadSnapshotFails, LoadAllowed, InsideTrap, MonitorOpen
<1>23. CASE UNCHANGED vars
  BY <1>0, <1>23 DEF vars
<1> QED
  BY <1>1, <1>2, <1>3, <1>4, <1>5, <1>6, <1>7, <1>8, <1>9, <1>10, <1>11, <1>12, <1>13,
     <1>14, <1>15, <1>16, <1>17, <1>18, <1>19, <1>20, <1>21, <1>22, <1>23 DEF Next

\* An IRQ vector is never taken by a sequence that was entered for an NMI.
THEOREM NmiKeepsItsVector == Spec => []NmiTakesNmiVector
<1>1. Init => VectorInv
  BY DEF Init, VectorInv, NmiTakesNmiVector, Ages, MaxAge, INTERRUPT_DELAY
<1>2. VectorInv => NmiTakesNmiVector
  BY DEF VectorInv
<1> QED
  BY <1>1, <1>2, StepKeepsVector, PTL DEF Spec

\* The counters agree with the lines whenever devices run: after a failed load
\* the reset follows before the next opcode.
DeviceInv ==
  \/ Counted(pendingIrq, pendingNmi, nirq, nnmi)
  \/ InsideTrap /\ "RESET" \in global
  \/ pc = "reset" /\ "RESET" \in ik

\* The devices count the lines they change.
LEMMA DevicesCount ==
  ASSUME LineTypes, Counted(pendingIrq, pendingNmi, nirq, nnmi), interrupt_set_irq \/ interrupt_set_nmi
  PROVE  Counted(pendingIrq, pendingNmi, nirq, nnmi)'
<1>1. CASE interrupt_set_irq
  <2>1. PICK l \in Lines : raise_irq(l) \/ lower_irq(l)
    BY <1>1 DEF interrupt_set_irq
  <2> QED
    BY <2>1, OneLine DEF raise_irq, lower_irq, Counted
<1>2. CASE interrupt_set_nmi
  <2>1. PICK l \in Lines : raise_nmi(l) \/ lower_nmi(l)
    BY <1>2 DEF interrupt_set_nmi
  <2> QED
    BY <2>1, OneLine DEF raise_nmi, lower_nmi, Counted
<1> QED
  BY <1>1, <1>2

\* Every step keeps that, if the monitor loads no snapshot.
LEMMA StepKeepsDeviceInv ==
  ASSUME "undump" \notin Loaders
  PROVE  LineInv /\ DeviceInv /\ [Next]_vars => LineInv' /\ DeviceInv'
<1> SUFFICES ASSUME LineInv, DeviceInv, [Next]_vars PROVE DeviceInv'
  BY StepKeepsLineInv
<1>0. LineInv'
  BY StepKeepsLineInv
<1>a. "RESET" \notin global' => DeviceInv'
  BY <1>0 DEF LineInv, CountInv, DeviceInv
<1> SUFFICES ASSUME "RESET" \in global' PROVE DeviceInv'
  BY <1>a
<1> USE DEF DeviceInv, lineVars, loopVars, InsideTrap
<1>1. CASE interrupt_set_irq
  <2>1. DevicesRun
    BY <1>1 DEF interrupt_set_irq
  <2>2. Counted(pendingIrq, pendingNmi, nirq, nnmi)
    BY <2>1 DEF DevicesRun
  <2> QED
    BY <1>1, <2>2, DevicesCount DEF LineInv
<1>2. CASE interrupt_set_nmi
  <2>1. DevicesRun
    BY <1>2 DEF interrupt_set_nmi
  <2>2. Counted(pendingIrq, pendingNmi, nirq, nnmi)
    BY <2>1 DEF DevicesRun
  <2> QED
    BY <1>2, <2>2, DevicesCount DEF LineInv
<1>3. CASE TriggerDmaOrReset
  BY <1>3 DEF TriggerDmaOrReset, DevicesRun, InsideTrap, MonitorOpen
<1>4. CASE interrupt_maincpu_trigger_trap
  BY <1>4 DEF interrupt_maincpu_trigger_trap, DevicesRun, InsideTrap, InsideReset, MonitorOpen
<1>5. CASE Poll
  BY <1>5 DEF Poll
<1>6. CASE EnterSequence
  BY <1>6 DEF EnterSequence, NmiTaken, Elapse
<1>7. CASE SkipSequence
  BY <1>7 DEF SkipSequence
<1>8. CASE ChooseVector
  BY <1>8 DEF ChooseVector, INTERRUPT_DELAY, MaxAge
<1>9. CASE interrupt_do_trap
  BY <1>9 DEF interrupt_do_trap
<1>10. CASE NoTrap
  BY <1>10 DEF NoTrap
<1>11. CASE cpu_reset
  BY <1>11 DEF cpu_reset, ResetStatus
<1>12. CASE NoReset
  BY <1>12 DEF NoReset
<1>13. CASE LeaveInterrupt
  BY <1>13 DEF LeaveInterrupt, Forget
<1>14. CASE ExecuteOpcode
  BY <1>14 DEF ExecuteOpcode, Elapse
<1>15. CASE BrkPushes
  BY <1>15 DEF BrkPushes, Elapse
<1>16. CASE BrkVector
  BY <1>16 DEF BrkVector
<1>17. CASE ExecuteJam
  <2>1. ~ ResetStatus
    BY DEF ResetStatus
  <2>2. pc = "instr" /\ UNCHANGED lineVars
    BY <1>17, <2>1 DEF ExecuteJam
  <2> QED
    BY <2>2
<1>18. CASE LeaveJamMonitor
  BY <1>18 DEF LeaveJamMonitor
<1>19. CASE update_checkpoint_state
  BY <1>19 DEF update_checkpoint_state, MonitorOpen, InsideTrap
<1>20. CASE mon_jump
  BY <1>20 DEF mon_jump
<1>21. CASE \E who \in Savers : machine_write_snapshot(who)
  BY <1>21 DEF machine_write_snapshot
<1>22. CASE \E who \in Loaders : machine_read_snapshot(who) \/ ReadSnapshotFails(who)
  BY <1>22 DEF machine_read_snapshot, ReadSnapshotFails, LoadAllowed, InsideTrap, MonitorOpen
<1>23. CASE UNCHANGED vars
  BY <1>23 DEF vars
<1> QED
  BY <1>1, <1>2, <1>3, <1>4, <1>5, <1>6, <1>7, <1>8, <1>9, <1>10, <1>11, <1>12, <1>13,
     <1>14, <1>15, <1>16, <1>17, <1>18, <1>19, <1>20, <1>21, <1>22, <1>23 DEF Next

\* An NMI edge is never missed, if the monitor loads no snapshot.
THEOREM EdgeLatched ==
  ASSUME "undump" \notin Loaders
  PROVE  Spec => NmiEdgeLatched
<1>1. Init => LineInv /\ DeviceInv
  BY InitLineInv, FS_EmptySet DEF Init, DeviceInv, Counted
<1>2. ASSUME LineInv, DeviceInv, [Next]_vars
      PROVE  [DevicesRun /\ pendingNmi = {} /\ pendingNmi' # {} => "NMI" \in global']_vars
  <2>1. CASE interrupt_set_nmi
    <3>1. DevicesRun
      BY <2>1 DEF interrupt_set_nmi
    <3>2. nnmi = Cardinality(pendingNmi)
      BY <1>2, <3>1 DEF DeviceInv, Counted, DevicesRun, InsideTrap
    <3>3. pendingNmi = {} => nnmi = 0
      BY <3>2, FS_EmptySet
    <3> QED
      BY <2>1, <3>3 DEF interrupt_set_nmi, raise_nmi, lower_nmi
  <2>2. CASE interrupt_set_irq
    BY <2>2 DEF interrupt_set_irq, raise_irq, lower_irq
  <2>3. CASE cpu_reset \/ ExecuteJam
    BY <2>3 DEF cpu_reset, ExecuteJam, ResetStatus, lineVars
  <2>4. CASE \E who \in Loaders : machine_read_snapshot(who) \/ ReadSnapshotFails(who)
    BY <2>4 DEF machine_read_snapshot, ReadSnapshotFails, LoadAllowed, InsideTrap, DevicesRun, MonitorOpen
  <2>5. CASE UNCHANGED vars
    BY <2>5
  <2>6. CASE UNCHANGED lineVars
    BY <2>6 DEF lineVars
  <2> QED
    BY <1>2, <2>1, <2>2, <2>3, <2>4, <2>5, <2>6 DEF Next, TriggerDmaOrReset,
       interrupt_maincpu_trigger_trap, Poll, EnterSequence, SkipSequence, ChooseVector,
       interrupt_do_trap, NoTrap, NoReset, LeaveInterrupt, ExecuteOpcode, BrkPushes, BrkVector,
       LeaveJamMonitor, update_checkpoint_state, mon_jump, machine_write_snapshot
<1> QED
  BY <1>1, <1>2, StepKeepsDeviceInv, PTL DEF Spec, NmiEdgeLatched

-----------------------------------------------------------------------------
(***************************************************************************)
(* Traps and checkpoints.                                                  *)
(***************************************************************************)

\* IK_TRAP is pending exactly if traps wait, in every state; the cycle of
\* traps that runs is counted, and a snapshot saved by a trap has IK_TRAP.
TrapInv ==
  /\ trapsCount \in Nat /\ thisCycle \in Nat
  /\ "TRAP" \in global <=> trapsCount > 0
  /\ pc = "check" => ik = global
  /\ pc \in {"check", "vector", "traps"} /\ "TRAP" \in ik => trapsCount > 0
  /\ \A s \in snap : "TRAP" \in s.global

\* Every step keeps that, if snapshots are saved and loaded by traps only.
LEMMA StepKeepsTrapInv ==
  ASSUME "undump" \notin Loaders, "dump" \notin Savers
  PROVE  TrapInv /\ [Next]_vars => TrapInv'
<1> SUFFICES ASSUME TrapInv, [Next]_vars PROVE TrapInv'
  OBVIOUS
<1> USE DEF TrapInv, trapVars, loopVars
<1>1. CASE interrupt_set_irq
  BY <1>1 DEF interrupt_set_irq, raise_irq, lower_irq, DevicesRun
<1>2. CASE interrupt_set_nmi
  BY <1>2 DEF interrupt_set_nmi, raise_nmi, lower_nmi, DevicesRun
<1>3. CASE TriggerDmaOrReset
  BY <1>3 DEF TriggerDmaOrReset, DevicesRun, InsideTrap, MonitorOpen
<1>4. CASE interrupt_maincpu_trigger_trap
  BY <1>4 DEF interrupt_maincpu_trigger_trap, DevicesRun, InsideTrap, InsideReset, MonitorOpen
<1>5. CASE Poll
  BY <1>5 DEF Poll
<1>6. CASE EnterSequence
  BY <1>6 DEF EnterSequence, NmiTaken, Elapse
<1>7. CASE SkipSequence
  BY <1>7 DEF SkipSequence
<1>8. CASE ChooseVector
  BY <1>8 DEF ChooseVector, INTERRUPT_DELAY, MaxAge
<1>9. CASE interrupt_do_trap
  BY <1>9 DEF interrupt_do_trap
<1>10. CASE NoTrap
  BY <1>10 DEF NoTrap
<1>11. CASE cpu_reset
  BY <1>11 DEF cpu_reset, ResetStatus
<1>12. CASE NoReset
  BY <1>12 DEF NoReset
<1>13. CASE LeaveInterrupt
  BY <1>13 DEF LeaveInterrupt, Forget
<1>14. CASE ExecuteOpcode
  BY <1>14 DEF ExecuteOpcode, Elapse
<1>15. CASE BrkPushes
  BY <1>15 DEF BrkPushes, Elapse
<1>16. CASE BrkVector
  BY <1>16 DEF BrkVector
<1>17. CASE ExecuteJam
  <2>1. pc' \in {"top", "jamMonitor"} /\ UNCHANGED <<thisCycle, snap>>
    BY <1>17 DEF ExecuteJam
  <2>2. CASE ResetStatus
    BY <2>1, <2>2 DEF ResetStatus
  <2>3. CASE UNCHANGED <<global, trapsCount>>
    BY <2>1, <2>3
  <2> QED
    BY <1>17, <2>2, <2>3 DEF ExecuteJam
<1>18. CASE LeaveJamMonitor
  BY <1>18 DEF LeaveJamMonitor
<1>19. CASE update_checkpoint_state
  BY <1>19 DEF update_checkpoint_state, MonitorOpen, InsideTrap
<1>20. CASE mon_jump
  BY <1>20 DEF mon_jump
<1>21. CASE \E who \in Savers : machine_write_snapshot(who)
  BY <1>21 DEF machine_write_snapshot, InsideTrap
<1>22. CASE \E who \in Loaders : machine_read_snapshot(who) \/ ReadSnapshotFails(who)
  BY <1>22 DEF machine_read_snapshot, ReadSnapshotFails, LoadAllowed, InsideTrap, MonitorOpen, Rearmed
<1>23. CASE UNCHANGED vars
  BY <1>23 DEF vars
<1> QED
  BY <1>1, <1>2, <1>3, <1>4, <1>5, <1>6, <1>7, <1>8, <1>9, <1>10, <1>11, <1>12, <1>13,
     <1>14, <1>15, <1>16, <1>17, <1>18, <1>19, <1>20, <1>21, <1>22, <1>23 DEF Next

\* When the CPU polls, IK_TRAP is pending exactly if traps wait, if snapshots
\* are saved and loaded by traps, as the user interfaces do.
THEOREM TrapsArmed ==
  ASSUME "undump" \notin Loaders, "dump" \notin Savers
  PROVE  Spec => []TrapArmed
<1>1. Init => TrapInv
  BY DEF Init, TrapInv
<1>2. TrapInv => TrapArmed
  BY DEF TrapInv, TrapArmed
<1> QED
  BY <1>1, <1>2, StepKeepsTrapInv, PTL DEF Spec

\* IK_MONITOR is pending exactly if checkpoints exist, in every state.
MonitorInv == "MONITOR" \in global <=> mask

\* Every step keeps that, if only the loader in autostart.c loads.
LEMMA StepKeepsMonitorInv ==
  ASSUME Loaders \subseteq {"autostart"}
  PROVE  MonitorInv /\ [Next]_vars => MonitorInv'
<1> SUFFICES ASSUME MonitorInv, [Next]_vars PROVE MonitorInv'
  OBVIOUS
<1> USE DEF MonitorInv
<1>1. CASE interrupt_set_irq
  BY <1>1 DEF interrupt_set_irq, raise_irq, lower_irq, DevicesRun
<1>2. CASE interrupt_set_nmi
  BY <1>2 DEF interrupt_set_nmi, raise_nmi, lower_nmi, DevicesRun
<1>3. CASE TriggerDmaOrReset
  BY <1>3 DEF TriggerDmaOrReset, DevicesRun, InsideTrap, MonitorOpen
<1>4. CASE interrupt_maincpu_trigger_trap
  BY <1>4 DEF interrupt_maincpu_trigger_trap, DevicesRun, InsideTrap, InsideReset, MonitorOpen
<1>5. CASE Poll
  BY <1>5 DEF Poll
<1>6. CASE EnterSequence
  BY <1>6 DEF EnterSequence, NmiTaken, Elapse
<1>7. CASE SkipSequence
  BY <1>7 DEF SkipSequence
<1>8. CASE ChooseVector
  BY <1>8 DEF ChooseVector, INTERRUPT_DELAY, MaxAge
<1>9. CASE interrupt_do_trap
  BY <1>9 DEF interrupt_do_trap
<1>10. CASE NoTrap
  BY <1>10 DEF NoTrap
<1>11. CASE cpu_reset
  BY <1>11 DEF cpu_reset, ResetStatus
<1>12. CASE NoReset
  BY <1>12 DEF NoReset
<1>13. CASE LeaveInterrupt
  BY <1>13 DEF LeaveInterrupt, Forget
<1>14. CASE ExecuteOpcode
  BY <1>14 DEF ExecuteOpcode, Elapse
<1>15. CASE BrkPushes
  BY <1>15 DEF BrkPushes, Elapse
<1>16. CASE BrkVector
  BY <1>16 DEF BrkVector
<1>17. CASE ExecuteJam
  BY <1>17 DEF ExecuteJam, ResetStatus, Elapse
<1>18. CASE LeaveJamMonitor
  BY <1>18 DEF LeaveJamMonitor
<1>19. CASE update_checkpoint_state
  BY <1>19 DEF update_checkpoint_state, MonitorOpen, InsideTrap
<1>20. CASE mon_jump
  BY <1>20 DEF mon_jump
<1>21. CASE \E who \in Savers : machine_write_snapshot(who)
  BY <1>21 DEF machine_write_snapshot
<1>22. CASE \E who \in Loaders : machine_read_snapshot(who) \/ ReadSnapshotFails(who)
  BY <1>22 DEF machine_read_snapshot, ReadSnapshotFails, LoadAllowed, InsideTrap, MonitorOpen, Rearmed
<1>23. CASE UNCHANGED vars
  BY <1>23 DEF vars
<1> QED
  BY <1>1, <1>2, <1>3, <1>4, <1>5, <1>6, <1>7, <1>8, <1>9, <1>10, <1>11, <1>12, <1>13,
     <1>14, <1>15, <1>16, <1>17, <1>18, <1>19, <1>20, <1>21, <1>22, <1>23 DEF Next

\* When the CPU polls, IK_MONITOR is pending exactly if checkpoints exist: no
\* reset and no snapshot loaded by autostart.c disarms them.
THEOREM CheckpointsStayArmed ==
  ASSUME Loaders \subseteq {"autostart"}
  PROVE  Spec => []CheckpointsArmed
<1>1. Init => MonitorInv
  BY DEF Init, MonitorInv
<1>2. MonitorInv => CheckpointsArmed
  BY DEF MonitorInv, CheckpointsArmed
<1> QED
  BY <1>1, <1>2, StepKeepsMonitorInv, PTL DEF Spec
=============================================================================
