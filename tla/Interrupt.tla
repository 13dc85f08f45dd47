------------------------------ MODULE Interrupt ------------------------------
(***************************************************************************)
(* The interrupt status of the main CPU (interrupt.h, interrupt.c) and the *)
(* part of the CPU loop that serves it (6510core.c: the poll before every  *)
(* opcode and DO_INTERRUPT).  Devices raise and lower their IRQ and NMI    *)
(* lines from I/O accesses and from alarms, also in the middle of an       *)
(* interrupt sequence; the monitor arms its checkpoints with IK_MONITOR;   *)
(* traps are counted (module TrapQueue has the queue itself); a CPU reset  *)
(* and a snapshot replace everything at once.                              *)
(*                                                                         *)
(* Clocks are kept as distances from the CPU clock, which saturate where   *)
(* no comparison of the code tells them apart: irqAge and nmiAge are       *)
(* CLK - irq_clk and CLK - nmi_clk, pendLeft is irq_pending_clk - CLK.     *)
(* interrupt_fixup_int_clk, which corrects irq_clk for stolen cycles, may  *)
(* give every age of GivenAges, and so may a snapshot.                      *)
(***************************************************************************)
EXTENDS Integers, FiniteSets

CONSTANTS Lines,      \* the interrupt sources (int_num)
          MaxTraps,   \* bound: traps waiting at a time
          Loaders,    \* who loads snapshots: "autostart", "quickload", "undump"
          Savers,     \* who saves snapshots: "trap", "dump"
          GivenAges,  \* how long ago a line or a snapshot may say an interrupt was raised
          Program     \* the kinds of opcodes the emulated program executes

ASSUME InterruptConstants ==
  /\ IsFiniteSet(Lines)
  /\ MaxTraps \in Nat
  /\ Loaders \subseteq {"autostart", "quickload", "undump"}
  /\ Savers \subseteq {"trap", "dump"}
  /\ GivenAges \subseteq 0 .. 3
  /\ Program \subseteq {"plain", "branch", "cli", "sei", "brk"} /\ Program # {}

Kinds == {"NMI", "IRQ", "RESET", "TRAP", "MONITOR", "DMA", "IRQPEND"}
Opcodes == {"plain", "branch", "cli", "sei", "brk"}
INTERRUPT_DELAY == 2
MaxAge == INTERRUPT_DELAY + 1
Ages == 0 .. MaxAge
Never == 4            \* irq_pending_clk is CLOCK_MAX

VARIABLES pendingIrq, \* the lines with IK_IRQ in pending_int
          pendingNmi, \* the lines with IK_NMI in pending_int
          nirq, nnmi,
          global,     \* global_pending_int
          irqAge, nmiAge, pendLeft,
          trapsCount, \* traps_count
          thisCycle,  \* traps_this_cycle of interrupt_do_trap
          iFlag,      \* the I flag of the processor
          op,         \* what last_opcode_info says of the last opcode
          atJam,      \* the opcode at the program counter is a JAM
          jammed,     \* cpu_is_jammed
          mask,       \* monitor_mask is not 0: checkpoints exist
          pc,         \* where the CPU loop is
          ik,         \* the argument of DO_INTERRUPT
          entry,      \* why the interrupt sequence was entered
          vec,        \* the vector it took
          snap        \* the snapshot on disk, a set with at most one element

lineVars == <<pendingIrq, pendingNmi, nirq, nnmi>>
timeVars == <<irqAge, nmiAge, pendLeft>>
trapVars == <<trapsCount, thisCycle>>
cpuVars == <<iFlag, op, atJam, jammed>>
loopVars == <<pc, ik, entry, vec>>
vars == <<lineVars, global, timeVars, trapVars, cpuVars, mask, loopVars, snap>>

TypeOK ==
  /\ pendingIrq \in SUBSET Lines /\ pendingNmi \in SUBSET Lines
  /\ nirq \in Nat /\ nnmi \in Nat
  /\ global \in SUBSET Kinds /\ ik \in SUBSET Kinds
  /\ irqAge \in Ages /\ nmiAge \in Ages /\ pendLeft \in 0 .. Never
  /\ trapsCount \in Nat /\ thisCycle \in Nat
  /\ iFlag \in BOOLEAN /\ op \in Opcodes /\ atJam \in BOOLEAN /\ jammed \in BOOLEAN
  /\ mask \in BOOLEAN
  /\ pc \in {"top", "check", "vector", "traps", "reset", "monitor", "jamMonitor", "instr", "brk"}
  /\ entry \in {"none", "IRQ", "NMI"} /\ vec \in {"none", "IRQ", "NMI"}
  /\ \A s \in snap :
       /\ s.irq \in SUBSET Lines /\ s.nmi \in SUBSET Lines
       /\ s.nirq \in Nat /\ s.nnmi \in Nat
       /\ s.global \in SUBSET Kinds /\ s.jam \in BOOLEAN

Init ==
  /\ pendingIrq = {} /\ pendingNmi = {} /\ nirq = 0 /\ nnmi = 0
  /\ global = {} /\ ik = {}
  /\ irqAge = MaxAge /\ nmiAge = MaxAge /\ pendLeft = Never
  /\ trapsCount = 0 /\ thisCycle = 0
  /\ iFlag = TRUE /\ op = "plain" /\ atJam = FALSE /\ jammed = FALSE
  /\ mask = FALSE /\ pc = "top" /\ entry = "none" /\ vec = "none"
  /\ snap = {}

------------------------------------------------------------------------------
(***************************************************************************)
(* Time.                                                                   *)
(***************************************************************************)
Older(age, n) == IF age + n > MaxAge THEN MaxAge ELSE age + n
Closer(left, n) == IF left = Never THEN Never ELSE IF left > n THEN left - n ELSE 0

Elapse(n) ==
  /\ irqAge' = Older(irqAge, n)
  /\ nmiAge' = Older(nmiAge, n)
  /\ pendLeft' = Closer(pendLeft, n)

(***************************************************************************)
(* The lines.  Devices act during an instruction and, through the alarms   *)
(* that DO_INTERRUPT and BRK process, before the vector is chosen.         *)
(***************************************************************************)
DevicesRun == pc \in {"instr", "vector", "brk"}

\* Slip: a line that is active already is counted again.
RaiseIrqTwice(l) ==
  /\ pendingIrq' = pendingIrq \cup {l}
  /\ nirq' = nirq + 1
  /\ global' = global \cup {"IRQ", "IRQPEND"}
  /\ pendLeft' = Never
  /\ irqAge' \in GivenAges
  /\ UNCHANGED <<pendingNmi, nnmi, nmiAge>>

raise_irq(l) ==
  /\ l \notin pendingIrq
  /\ pendingIrq' = pendingIrq \cup {l}
  /\ nirq' = nirq + 1
  /\ global' = global \cup {"IRQ", "IRQPEND"}
  /\ pendLeft' = Never
  /\ irqAge' \in GivenAges
  /\ UNCHANGED <<pendingNmi, nnmi, nmiAge>>

\* Slip: the first device that lowers its line ends the IRQ for all.
LowerIrqForAll(l) ==
  /\ l \in pendingIrq
  /\ nirq > 0
  /\ pendingIrq' = pendingIrq \ {l}
  /\ nirq' = nirq - 1
  /\ global' = global \ {"IRQ"} /\ pendLeft' = 3
  /\ UNCHANGED <<pendingNmi, nnmi, irqAge, nmiAge>>

lower_irq(l) ==
  /\ l \in pendingIrq
  /\ nirq > 0
  /\ pendingIrq' = pendingIrq \ {l}
  /\ nirq' = nirq - 1
  /\ IF nirq' = 0
     THEN global' = global \ {"IRQ"} /\ pendLeft' = 3
     ELSE UNCHANGED <<global, pendLeft>>
  /\ UNCHANGED <<pendingNmi, nnmi, irqAge, nmiAge>>

interrupt_set_irq ==
  /\ DevicesRun
  /\ \E l \in Lines : raise_irq(l) \/ lower_irq(l)
  /\ UNCHANGED <<trapVars, cpuVars, mask, loopVars, snap>>

raise_nmi(l) ==
  /\ l \notin pendingNmi
  /\ IF nnmi = 0 /\ "NMI" \notin global
     THEN global' = global \cup {"NMI"} /\ nmiAge' \in GivenAges
     ELSE UNCHANGED <<global, nmiAge>>
  /\ nnmi' = nnmi + 1
  /\ pendingNmi' = pendingNmi \cup {l}
  /\ UNCHANGED <<pendingIrq, nirq, irqAge, pendLeft>>

\* Slip: nnmi is not counted down.
LowerNmiUncounted(l) ==
  /\ l \in pendingNmi
  /\ nnmi > 0
  /\ pendingNmi' = pendingNmi \ {l}
  /\ UNCHANGED <<pendingIrq, nirq, nnmi, global, timeVars>>

\* The latched IK_NMI stays: only interrupt_ack_nmi takes it back.
lower_nmi(l) ==
  /\ l \in pendingNmi
  /\ nnmi > 0
  /\ nnmi' = nnmi - 1
  /\ pendingNmi' = pendingNmi \ {l}
  /\ UNCHANGED <<pendingIrq, nirq, global, timeVars>>

interrupt_set_nmi ==
  /\ DevicesRun
  /\ \E l \in Lines : raise_nmi(l) \/ lower_nmi(l)
  /\ UNCHANGED <<trapVars, cpuVars, mask, loopVars, snap>>

\* A DMA or a reset is asked for; a trap or the monitor may ask for a reset.
\* machine_reset, at the end of cpu_reset, may trigger traps.
InsideTrap == pc = "traps" /\ "TRAP" \in ik
InsideReset == pc = "monitor" /\ "RESET" \in ik
MonitorOpen == pc = "jamMonitor" \/ (pc = "monitor" /\ "MONITOR" \in ik)

TriggerDmaOrReset ==
  /\ \/ DevicesRun /\ global' = global \cup {"DMA"}
     \/ (DevicesRun \/ InsideTrap \/ MonitorOpen) /\ global' = global \cup {"RESET"}
  /\ UNCHANGED <<lineVars, timeVars, trapVars, cpuVars, mask, loopVars, snap>>

interrupt_maincpu_trigger_trap ==
  /\ DevicesRun \/ InsideTrap \/ InsideReset \/ MonitorOpen
  /\ trapsCount < MaxTraps
  /\ trapsCount' = trapsCount + 1
  /\ global' = global \cup {"TRAP"}
  /\ UNCHANGED <<lineVars, timeVars, thisCycle, cpuVars, mask, loopVars, snap>>

------------------------------------------------------------------------------
(***************************************************************************)
(* The CPU loop.                                                           *)
(***************************************************************************)

\* The locals of DO_INTERRUPT and interrupt_do_trap go out of scope.
Forget == ik' = {} /\ thisCycle' = 0 /\ entry' = "none" /\ vec' = "none"

\* The poll before every opcode, with the acknowledgement of an IRQ that is
\* gone and the discarding of interrupts while the CPU is jammed.
Poll ==
  LET seen  == IF jammed THEN global \ {"IRQPEND", "IRQ", "NMI"} ELSE global
      left  == IF jammed THEN Never ELSE pendLeft
      stale == "IRQ" \notin seen /\ "IRQPEND" \in seen /\ left = 0
  IN  /\ pc = "top"
      /\ global' = IF stale THEN seen \ {"IRQPEND"} ELSE seen
      /\ pendLeft' = IF stale THEN Never ELSE left
      /\ jammed' = (jammed /\ "RESET" \notin seen)
      /\ ik' = global'
      /\ pc' = IF global' = {} THEN "instr" ELSE "check"
      /\ UNCHANGED <<lineVars, irqAge, nmiAge, trapVars, iFlag, op, atJam, mask, entry, vec, snap>>

BranchDelay == IF op = "branch" THEN 1 ELSE 0

\* Slip: a branch puts the NMI off by an opcode, not by a cycle.
NmiWaitsForBranches == op \notin {"brk", "branch"} /\ nmiAge >= INTERRUPT_DELAY

interrupt_check_nmi_delay == op # "brk" /\ nmiAge >= INTERRUPT_DELAY + BranchDelay

IrqDelayOver == irqAge >= INTERRUPT_DELAY + BranchDelay

NmiTaken == "NMI" \in ik /\ interrupt_check_nmi_delay
IrqWanted == ik \cap {"IRQ", "IRQPEND"} # {} /\ (~ iFlag \/ op = "sei")
IrqTaken == ~ NmiTaken /\ IrqWanted /\ IrqDelayOver /\ op # "cli"

\* DO_INTERRUPT, up to the pushes: five cycles pass and the I flag is set.
EnterSequence ==
  /\ pc = "check"
  /\ NmiTaken \/ IrqTaken
  /\ entry' = IF NmiTaken THEN "NMI" ELSE "IRQ"
  /\ iFlag' = TRUE
  /\ Elapse(5)
  /\ pc' = "vector"
  /\ UNCHANGED <<lineVars, global, trapVars, op, atJam, jammed, mask, ik, vec, snap>>

\* interrupt_check_irq_delay: the opcode that cleared I puts the IRQ off.
SkipSequence ==
  /\ pc = "check"
  /\ ~ NmiTaken /\ ~ IrqTaken
  /\ global' = IF IrqWanted /\ IrqDelayOver THEN global \cup {"IRQPEND"} ELSE global
  /\ pc' = "traps"
  /\ thisCycle' = trapsCount
  /\ UNCHANGED <<lineVars, timeVars, trapsCount, cpuVars, mask, ik, entry, vec, snap>>

\* Slip: the IRQ is looked at first.
ChooseIrqFirst ==
  /\ pc = "vector"
  /\ IF "IRQPEND" \notin global /\ "NMI" \in global /\ nmiAge >= INTERRUPT_DELAY
     THEN /\ global' = global \ {"NMI"}
          /\ vec' = "NMI"
          /\ pendLeft' = Closer(pendLeft, 2)
     ELSE /\ global' = global \ {"IRQPEND"}
          /\ vec' = "IRQ"
          /\ pendLeft' = Never
  /\ irqAge' = Older(irqAge, 2) /\ nmiAge' = Older(nmiAge, 2)
  /\ op' = "brk"
  /\ pc' = "traps"
  /\ thisCycle' = trapsCount
  /\ UNCHANGED <<lineVars, trapsCount, iFlag, atJam, jammed, mask, ik, entry, snap>>

\* After the alarms: an NMI may take over the sequence an IRQ started.
ChooseVector ==
  /\ pc = "vector"
  /\ IF "NMI" \in global /\ nmiAge >= INTERRUPT_DELAY
     THEN /\ global' = global \ {"NMI"}
          /\ vec' = "NMI"
          /\ pendLeft' = Closer(pendLeft, 2)
     ELSE /\ global' = global \ {"IRQPEND"}
          /\ vec' = "IRQ"
          /\ pendLeft' = Never
  /\ irqAge' = Older(irqAge, 2) /\ nmiAge' = Older(nmiAge, 2)
  /\ op' = "brk"
  /\ pc' = "traps"
  /\ thisCycle' = trapsCount
  /\ UNCHANGED <<lineVars, trapsCount, iFlag, atJam, jammed, mask, ik, entry, snap>>

\* interrupt_do_trap has called thisCycle traps; then a requested reset is
\* served at once.
interrupt_do_trap ==
  /\ pc = "traps" /\ "TRAP" \in ik
  /\ IF trapsCount > thisCycle
     THEN trapsCount' = trapsCount - thisCycle /\ UNCHANGED global
     ELSE trapsCount' = 0 /\ global' = global \ {"TRAP"}
  /\ ik' = ik \cup (global \cap {"RESET"})
  /\ pc' = "reset"
  /\ UNCHANGED <<lineVars, timeVars, thisCycle, cpuVars, mask, entry, vec, snap>>

NoTrap ==
  /\ pc = "traps" /\ "TRAP" \notin ik
  /\ pc' = "reset"
  /\ UNCHANGED <<lineVars, global, timeVars, trapVars, cpuVars, mask, ik, entry, vec, snap>>

\* Slip: the traps that wait survive, without IK_TRAP.
ResetKeepsTraps ==
  /\ pendingIrq' = {} /\ pendingNmi' = {} /\ nirq' = 0 /\ nnmi' = 0
  /\ global' = global \cap {"MONITOR"}
  /\ irqAge' = MaxAge /\ nmiAge' = MaxAge /\ pendLeft' = Never
  /\ UNCHANGED trapsCount
  /\ iFlag' = TRUE /\ jammed' = FALSE /\ atJam' = FALSE

\* Slip: preserve_monitor is forgotten.
ResetForgetsMonitor ==
  /\ pendingIrq' = {} /\ pendingNmi' = {} /\ nirq' = 0 /\ nnmi' = 0
  /\ global' = {}
  /\ irqAge' = MaxAge /\ nmiAge' = MaxAge /\ pendLeft' = Never
  /\ trapsCount' = 0
  /\ iFlag' = TRUE /\ jammed' = FALSE /\ atJam' = FALSE

\* cpu_reset, interrupt_cpu_status_reset and interrupt_ack_reset.
ResetStatus ==
  /\ pendingIrq' = {} /\ pendingNmi' = {} /\ nirq' = 0 /\ nnmi' = 0
  /\ global' = global \cap {"MONITOR"}
  /\ irqAge' = MaxAge /\ nmiAge' = MaxAge /\ pendLeft' = Never
  /\ trapsCount' = 0
  /\ iFlag' = TRUE /\ jammed' = FALSE /\ atJam' = FALSE

cpu_reset ==
  /\ pc = "reset" /\ "RESET" \in ik
  /\ ResetStatus
  /\ pc' = "monitor"
  /\ UNCHANGED <<thisCycle, op, mask, ik, entry, vec, snap>>

NoReset ==
  /\ pc = "reset" /\ "RESET" \notin ik
  /\ pc' = "monitor"
  /\ UNCHANGED <<lineVars, global, timeVars, trapVars, cpuVars, mask, ik, entry, vec, snap>>

\* interrupt_ack_dma, and the IK_IRQPEND that no line backs any more.
LeaveInterrupt ==
  LET g == IF "DMA" \in ik THEN global \ {"DMA"} ELSE global
  IN  /\ pc = "monitor"
      /\ global' = IF "IRQ" \notin g THEN g \ {"IRQPEND"} ELSE g
      /\ pc' = "instr"
      /\ Forget
      /\ UNCHANGED <<lineVars, timeVars, trapsCount, cpuVars, mask, snap>>

\* An opcode is executed.  cli and sei stand for every opcode that changes I
\* (PLP and RTI too); the next opcode may be a JAM.
ExecuteOpcode ==
  /\ pc = "instr" /\ ~ atJam
  /\ \E n \in 1 .. 3 : Elapse(n)
  /\ op' \in Program \ {"brk"}
  /\ iFlag' = IF op' = "sei" THEN TRUE ELSE IF op' = "cli" THEN FALSE ELSE iFlag
  /\ op' = "sei" => ~ iFlag
  /\ op' = "cli" => iFlag
  /\ atJam' \in (IF jammed THEN {FALSE} ELSE BOOLEAN)
  /\ pc' = "top"
  /\ UNCHANGED <<lineVars, global, trapVars, jammed, mask, ik, entry, vec, snap>>

\* BRK, up to the pushes.
BrkPushes ==
  /\ pc = "instr" /\ ~ atJam
  /\ "brk" \in Program
  /\ op' = "brk"
  /\ Elapse(5)
  /\ pc' = "brk"
  /\ UNCHANGED <<lineVars, global, trapVars, iFlag, atJam, jammed, mask, ik, entry, vec, snap>>

BrkServesNmi == "NMI" \in global /\ nmiAge >= INTERRUPT_DELAY
BrkServesIrq == global \cap {"IRQ", "IRQPEND"} # {} /\ ~ iFlag /\ irqAge >= INTERRUPT_DELAY

\* BRK, after the alarms: an interrupt may take it over.
BrkVector ==
  LET acked == ~ BrkServesNmi /\ BrkServesIrq
  IN  /\ pc = "brk"
      /\ global' = CASE BrkServesNmi -> global \ {"NMI"}
                     [] acked -> global \ {"IRQPEND"}
                     [] OTHER -> global
      /\ pendLeft' = IF acked THEN Never ELSE Closer(pendLeft, 2)
      /\ irqAge' = Older(irqAge, 2) /\ nmiAge' = Older(nmiAge, 2)
      /\ iFlag' = TRUE
      /\ atJam' \in (IF jammed THEN {FALSE} ELSE BOOLEAN)
      /\ pc' = "top"
      /\ UNCHANGED <<lineVars, trapVars, op, jammed, mask, ik, entry, vec, snap>>

\* is_jammed of machine.c: machine_trigger_reset clears it at once.
is_jammed == jammed /\ "RESET" \notin global

\* JAM: machine_jam answers with nothing, the monitor or a reset.
ExecuteJam ==
  /\ pc = "instr" /\ atJam
  /\ \/ /\ jammed' = TRUE
        /\ Elapse(1)
        /\ pc' = "top"
        /\ UNCHANGED <<lineVars, global, trapsCount, iFlag, atJam>>
     \/ /\ ~ is_jammed
        /\ jammed' = TRUE
        /\ pc' = "jamMonitor"
        /\ UNCHANGED <<lineVars, global, timeVars, trapsCount, iFlag, atJam>>
     \/ /\ ~ is_jammed
        /\ ResetStatus
        /\ pc' = "top"
  /\ UNCHANGED <<thisCycle, op, mask, ik, entry, vec, snap>>

LeaveJamMonitor ==
  /\ pc = "jamMonitor"
  /\ pc' = "top"
  /\ UNCHANGED <<lineVars, global, timeVars, trapVars, cpuVars, mask, ik, entry, vec, snap>>

------------------------------------------------------------------------------
(***************************************************************************)
(* The monitor and snapshots.                                              *)
(***************************************************************************)

\* update_checkpoint_state after a checkpoint was added or deleted.  The
\* monitor is entered on IK_MONITOR, on a JAM, or by a trap.
update_checkpoint_state ==
  /\ MonitorOpen \/ InsideTrap
  /\ mask' \in BOOLEAN
  /\ global' = IF mask' THEN global \cup {"MONITOR"} ELSE global \ {"MONITOR"}
  /\ UNCHANGED <<lineVars, timeVars, trapVars, cpuVars, loopVars, snap>>

\* mon_jump: the monitor sets the program counter of a jammed CPU.
mon_jump ==
  /\ MonitorOpen /\ atJam
  /\ atJam' = FALSE
  /\ UNCHANGED <<lineVars, global, timeVars, trapVars, iFlag, op, jammed, mask, loopVars, snap>>

\* interrupt_write_snapshot and interrupt_write_new_snapshot; the lines are
\* in the modules of the chips that drive them.
machine_write_snapshot(who) ==
  /\ who \in Savers
  /\ IF who = "dump" THEN MonitorOpen ELSE InsideTrap
  /\ snap' = {[irq |-> pendingIrq, nmi |-> pendingNmi, nirq |-> nirq, nnmi |-> nnmi,
               global |-> global, jam |-> atJam]}
  /\ UNCHANGED <<lineVars, global, timeVars, trapVars, cpuVars, mask, loopVars>>

LoadAllowed(who) ==
  /\ who \in Loaders
  /\ IF who = "undump" THEN MonitorOpen ELSE InsideTrap

\* Only the loader in autostart.c calls mon_update_all_checkpoint_state.
Rearmed(who, g) ==
  IF who # "autostart" THEN g ELSE IF mask THEN g \cup {"MONITOR"} ELSE g \ {"MONITOR"}

\* A complete load: the CPU module restores counters and global_pending_int,
\* then the chips restore their lines (interrupt_restore_irq/_nmi).
machine_read_snapshot(who) ==
  /\ LoadAllowed(who)
  /\ \E s \in snap :
       /\ pendingIrq' = s.irq /\ pendingNmi' = s.nmi
       /\ nirq' = s.nirq /\ nnmi' = s.nnmi
       /\ global' = Rearmed(who, s.global)
       /\ atJam' = s.jam
  /\ irqAge' \in GivenAges /\ nmiAge' \in GivenAges /\ pendLeft' \in {0, Never}
  /\ UNCHANGED <<trapVars, iFlag, op, jammed, mask, loopVars, snap>>

\* Slip: a load that fails asks for no reset.
ReadFailsWithoutReset(who) ==
  /\ LoadAllowed(who)
  /\ \E s \in snap :
       /\ nirq' = s.nirq /\ nnmi' = s.nnmi
       /\ global' = Rearmed(who, s.global)
       /\ atJam' = s.jam
  /\ pendingIrq' = {} /\ pendingNmi' = {}
  /\ irqAge' \in GivenAges /\ nmiAge' \in GivenAges /\ pendLeft' \in {0, Never}
  /\ UNCHANGED <<trapVars, iFlag, op, jammed, mask, loopVars, snap>>

\* A load that fails in a chip's module: the lines stay cleared, the counters
\* are the snapshot's, and the machine asks for a reset.
ReadSnapshotFails(who) ==
  /\ LoadAllowed(who)
  /\ \E s \in snap :
       /\ nirq' = s.nirq /\ nnmi' = s.nnmi
       /\ global' = Rearmed(who, s.global) \cup {"RESET"}
       /\ atJam' = s.jam
  /\ pendingIrq' = {} /\ pendingNmi' = {}
  /\ irqAge' \in GivenAges /\ nmiAge' \in GivenAges /\ pendLeft' \in {0, Never}
  /\ UNCHANGED <<trapVars, iFlag, op, jammed, mask, loopVars, snap>>

Next ==
  \/ interrupt_set_irq
  \/ interrupt_set_nmi
  \/ TriggerDmaOrReset
  \/ interrupt_maincpu_trigger_trap
  \/ Poll
  \/ EnterSequence
  \/ SkipSequence
  \/ ChooseVector
  \/ interrupt_do_trap
  \/ NoTrap
  \/ cpu_reset
  \/ NoReset
  \/ LeaveInterrupt
  \/ ExecuteOpcode
  \/ BrkPushes
  \/ BrkVector
  \/ ExecuteJam
  \/ LeaveJamMonitor
  \/ update_checkpoint_state
  \/ mon_jump
  \/ \E who \in Savers : machine_write_snapshot(who)
  \/ \E who \in Loaders : machine_read_snapshot(who) \/ ReadSnapshotFails(who)

Spec == Init /\ [][Next]_vars

\* The CPU loop goes on: traps return and the monitor is left.
CpuSteps ==
  \/ Poll \/ EnterSequence \/ SkipSequence \/ ChooseVector
  \/ interrupt_do_trap \/ NoTrap \/ cpu_reset \/ NoReset \/ LeaveInterrupt
  \/ ExecuteOpcode \/ BrkPushes \/ BrkVector \/ ExecuteJam \/ LeaveJamMonitor

FairSpec == Spec /\ WF_vars(CpuSteps)

------------------------------------------------------------------------------
(***************************************************************************)
(* Properties.                                                             *)
(***************************************************************************)
ResetRequested == "RESET" \in global

\* The counters that decide about IK_IRQ and about NMI edges equal the number
\* of asserted lines, across raises, lowers, resets and snapshots; only a
\* failed load leaves them apart, until the reset it asks for.
LinesCounted ==
  ~ ResetRequested => nirq = Cardinality(pendingIrq) /\ nnmi = Cardinality(pendingNmi)

\* While the CPU runs, IK_IRQ is pending exactly when some line is asserted:
\* no level-triggered interrupt is lost or served for ever.
IrqLevelSeen ==
  ~ jammed /\ ~ atJam /\ ~ ResetRequested => ("IRQ" \in global <=> pendingIrq # {})

\* A sequence entered for an NMI always ends in the NMI vector: an IRQ that
\* the I flag masks is never taken in its place.
NmiTakesNmiVector == vec = "IRQ" => entry = "IRQ"

\* An NMI edge is never missed: whenever a device makes the first line active
\* IK_NMI is pending, whatever nnmi counted before.
NmiEdgeLatched ==
  [][DevicesRun /\ pendingNmi = {} /\ pendingNmi' # {} => "NMI" \in global']_vars

\* A latched NMI is acknowledged after finitely many steps of the CPU, although
\* BRK and the entry of an IRQ put it off by an opcode and branches by a cycle.
NmiServed == "NMI" \in global ~> "NMI" \notin global

\* When the CPU polls, IK_TRAP is pending exactly if traps wait.
TrapArmed == pc = "top" => ("TRAP" \in global <=> trapsCount > 0)

\* When the CPU polls, IK_MONITOR is pending exactly if checkpoints exist:
\* neither a reset nor a snapshot disarms them.
CheckpointsArmed == pc = "top" => ("MONITOR" \in global <=> mask)
==============================================================================
