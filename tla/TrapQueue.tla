------------------------------ MODULE TrapQueue ------------------------------
(***************************************************************************)
(* The trap queue of the main CPU (interrupt.c): the user interface, the   *)
(* monitor, the netplay and the event code ask for a function to be called *)
(* between two instructions with interrupt_maincpu_trigger_trap; the CPU   *)
(* loop calls them in interrupt_do_trap.  A trap may itself trigger traps: *)
(* directly (load_snapshot_trap of autostart.c calls monitor_startup_trap) *)
(* or because it waits for a dialog and yields to the user interface       *)
(* (load_snapshot_trap of uisnapshot.c).                                   *)
(*                                                                         *)
(* Traps are numbered 1, 2, ... in the order they are triggered.  A slot   *)
(* of trap_func that lib_realloc added and nobody wrote holds Garbage.     *)
(* Everybody who triggers a trap runs on the emulation thread or holds the *)
(* main lock, so it happens between instructions or while a trap runs.     *)
(***************************************************************************)
EXTENDS Integers, Sequences, FiniteSets

CONSTANTS MaxIssued,     \* bound: traps triggered in a behaviour
          MaxResets,     \* bound: CPU resets in a behaviour
          NestAnywhere   \* TRUE: every trap of a cycle may trigger traps;
                         \* FALSE: only the first one of a cycle does

ASSUME TrapConstants ==
  /\ MaxIssued \in Nat \ {0}
  /\ MaxResets \in Nat
  /\ NestAnywhere \in BOOLEAN

VARIABLES trapFunc,   \* trap_func[], as far as it was ever allocated
          trapsNext,  \* traps_next
          trapsCount, \* traps_count
          trapBit,    \* global_pending_int & IK_TRAP
          resetBit,   \* global_pending_int & IK_RESET
          pc,         \* where the CPU loop is in DO_INTERRUPT
          i,          \* loop counter of interrupt_do_trap
          thisCycle,  \* traps_this_cycle
          issued,     \* history: number of traps triggered
          ran,        \* history: what was called, in order
          lost,       \* history: the traps a reset threw away
          resets      \* history: number of resets

vars == <<trapFunc, trapsNext, trapsCount, trapBit, resetBit, pc, i, thisCycle,
          issued, ran, lost, resets>>
queueVars == <<trapFunc, trapsNext, trapsCount, trapBit>>
history == <<issued, ran, lost, resets>>

Garbage == 0
TrapIds == 1 .. MaxIssued
Size == Len(trapFunc)

\* trap_func[k], counted from 0 as in C; nobody wrote what lies behind the array.
Slot(k) == IF k < Size THEN trapFunc[k + 1] ELSE Garbage

TypeOK ==
  /\ trapFunc \in Seq(TrapIds \cup {Garbage})
  /\ trapsNext \in Nat /\ trapsCount \in Nat
  /\ trapBit \in BOOLEAN /\ resetBit \in BOOLEAN
  /\ pc \in {"run", "loop", "call", "after"}
  /\ i \in Nat /\ thisCycle \in Nat
  /\ issued \in 0 .. MaxIssued
  /\ ran \in Seq(TrapIds \cup {Garbage})
  /\ lost \in SUBSET TrapIds
  /\ resets \in 0 .. MaxResets
  /\ pc = "run" => trapsNext + trapsCount <= Size

Init ==
  /\ trapFunc = << >>
  /\ trapsNext = 0 /\ trapsCount = 0
  /\ trapBit = FALSE /\ resetBit = FALSE
  /\ pc = "run" /\ i = 0 /\ thisCycle = 0
  /\ issued = 0 /\ ran = << >> /\ lost = {} /\ resets = 0

\* lib_realloc to n elements: what it adds is not initialised.
Grown(n) ==
  IF n > Size THEN trapFunc \o [k \in 1 .. n - Size |-> Garbage] ELSE trapFunc

\* Slip: the slot is counted from the start of the array.
IndexFromStart == trapsCount

\* Where interrupt_maincpu_trigger_trap stores the function.
this_trap_index == trapsNext + trapsCount

interrupt_maincpu_trigger_trap ==
  LET trap_size_needed == this_trap_index + 1
  IN  /\ issued < MaxIssued
      /\ \/ pc = "run"
         \/ pc = "call" /\ (NestAnywhere \/ i = 0)
      /\ issued' = issued + 1
      /\ trapFunc' = [Grown(trap_size_needed) EXCEPT ![this_trap_index + 1] = issued + 1]
      /\ trapsCount' = trapsCount + 1
      /\ trapBit' = TRUE
      /\ UNCHANGED <<trapsNext, resetBit, pc, i, thisCycle, ran, lost, resets>>

\* machine_trigger_reset, from a trap or from anywhere else.
interrupt_trigger_reset ==
  /\ pc \in {"run", "call"}
  /\ resets < MaxResets
  /\ resetBit' = TRUE
  /\ UNCHANGED <<queueVars, pc, i, thisCycle, history>>

------------------------------------------------------------------------------
(***************************************************************************)
(* interrupt_do_trap, called by DO_INTERRUPT when IK_TRAP was sampled.     *)
(***************************************************************************)
EnterDoTrap ==
  /\ pc = "run" /\ trapBit
  /\ thisCycle' = trapsCount
  /\ i' = 0
  /\ pc' = "loop"
  /\ UNCHANGED <<queueVars, resetBit, history>>

CallTrap ==
  /\ pc = "loop" /\ i < thisCycle
  /\ ran' = Append(ran, Slot(trapsNext))
  /\ pc' = "call"
  /\ UNCHANGED <<queueVars, resetBit, i, thisCycle, issued, lost, resets>>

\* traps_next is advanced after the call, not before it.
TrapReturns ==
  /\ pc = "call"
  /\ trapsNext' = trapsNext + 1
  /\ i' = i + 1
  /\ pc' = "loop"
  /\ UNCHANGED <<trapFunc, trapsCount, trapBit, resetBit, thisCycle, history>>

\* Slip: the traps that traps have triggered are dropped.
LeaveDroppingNested ==
  /\ pc = "loop" /\ i = thisCycle
  /\ trapBit' = FALSE
  /\ trapsNext' = 0
  /\ trapsCount' = 0
  /\ pc' = "after"
  /\ UNCHANGED <<trapFunc, resetBit, i, thisCycle, history>>

\* Slip: IK_TRAP is taken back although traps remain.
LeaveDisarmed ==
  /\ pc = "loop" /\ i = thisCycle
  /\ trapBit' = FALSE
  /\ IF trapsCount > thisCycle
     THEN trapsCount' = trapsCount - thisCycle /\ UNCHANGED trapsNext
     ELSE trapsNext' = 0 /\ trapsCount' = 0
  /\ pc' = "after"
  /\ UNCHANGED <<trapFunc, resetBit, i, thisCycle, history>>

LeaveDoTrap ==
  /\ pc = "loop" /\ i = thisCycle
  /\ IF trapsCount > thisCycle
     THEN /\ trapsCount' = trapsCount - thisCycle
          /\ UNCHANGED <<trapBit, trapsNext>>
     ELSE /\ trapBit' = FALSE
          /\ trapsNext' = 0
          /\ trapsCount' = 0
  /\ pc' = "after"
  /\ UNCHANGED <<trapFunc, resetBit, i, thisCycle, history>>

\* No reset was asked for: the CPU goes on with the next instruction.
ResumeCpu ==
  /\ pc = "after" /\ ~ resetBit
  /\ pc' = "run"
  /\ UNCHANGED <<queueVars, resetBit, i, thisCycle, history>>

\* cpu_reset: interrupt_cpu_status_reset clears the whole structure, the
\* queue and the pointer to it included, whatever is waiting in it.
cpu_reset ==
  /\ pc \in {"after", "run"} /\ resetBit
  /\ trapFunc' = << >>
  /\ trapsNext' = 0 /\ trapsCount' = 0
  /\ trapBit' = FALSE /\ resetBit' = FALSE
  /\ pc' = "run"
  /\ lost' = lost \cup {t \in 1 .. issued : \A k \in DOMAIN ran : ran[k] # t}
  /\ resets' = resets + 1
  /\ UNCHANGED <<i, thisCycle, issued, ran>>

Next ==
  \/ interrupt_maincpu_trigger_trap
  \/ interrupt_trigger_reset
  \/ EnterDoTrap
  \/ CallTrap
  \/ TrapReturns
  \/ LeaveDoTrap
  \/ ResumeCpu
  \/ cpu_reset

Spec == Init /\ [][Next]_vars

\* The CPU loop goes on and every trap function returns.
Fairness ==
  /\ WF_vars(EnterDoTrap) /\ WF_vars(CallTrap) /\ WF_vars(TrapReturns)
  /\ WF_vars(LeaveDoTrap) /\ WF_vars(ResumeCpu) /\ WF_vars(cpu_reset)

FairSpec == Spec /\ Fairness

------------------------------------------------------------------------------
(***************************************************************************)
(* Properties.                                                             *)
(***************************************************************************)
Executed == {ran[k] : k \in DOMAIN ran}
Queued == {Slot(k) : k \in trapsNext .. trapsNext + trapsCount - 1}

\* What interrupt_do_trap calls is a function somebody triggered, each one
\* once, in the order of the requests: no unwritten or stale slot is called.
TrapsRunInOrder ==
  /\ Garbage \notin Executed
  /\ \A j, k \in DOMAIN ran : j < k => ran[j] < ran[k]

\* Between two instructions every requested trap has run, waits in the
\* window the next interrupt_do_trap looks at, or was dropped by a reset;
\* and IK_TRAP is raised exactly when some trap waits.
NoTrapForgotten ==
  pc = "run" =>
    /\ 1 .. issued = Executed \cup Queued \cup lost
    /\ trapBit <=> trapsCount > 0

\* A trap that is triggered is executed, unless the CPU is reset first.
EveryTrapRuns == \A t \in TrapIds : issued >= t ~> t \in Executed \cup lost
==============================================================================
