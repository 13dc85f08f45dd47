---------------------------- MODULE ThreadProofs ----------------------------
(***************************************************************************)
(* Proofs about how the user interface gets at the emulation: modules      *)
(* TrapQueue and MainLock, which share no state.                           *)
(*                                                                         *)
(* TrapQueue: if only the first trap of a cycle triggers traps, every      *)
(* function that was asked for is called once, in the order of the         *)
(* requests, or is dropped by a reset, for any number of traps and resets. *)
(*                                                                         *)
(* MainLock: the two threads of VICE exclude each other as long as no      *)
(* handler obtains the lock twice, and whatever the handlers do neither    *)
(* thread waits for a signal that will not come.                           *)
(***************************************************************************)
EXTENDS TrapQueue, MainLock, TLAPS

-----------------------------------------------------------------------------
(***************************************************************************)
(* The trap queue.                                                         *)
(***************************************************************************)
InCycle == pc \in {"loop", "call"}

\* The first slot of the cycle that runs, or of the next one.
Base == IF InCycle THEN trapsNext - i ELSE trapsNext

\* How many traps of the cycle have been called.
Done == IF pc = "call" THEN i + 1 ELSE IF pc = "loop" THEN i ELSE 0

\* The newest of the traps that were called or dropped.
Newest == issued - trapsCount + Done

\* The loop of interrupt_do_trap.
CycleInv ==
  InCycle =>
    /\ 0 < thisCycle /\ thisCycle <= trapsCount
    /\ i <= thisCycle /\ i <= trapsNext
    /\ pc = "call" => i < thisCycle

\* IK_TRAP is pending exactly as long as traps are counted.
BitInv == trapBit <=> trapsCount > 0

\* The slots from Base on hold the latest traps_count requests, in order.
WindowInv ==
  /\ trapsCount <= issued
  /\ Base + trapsCount <= Size
  /\ \A k \in 0 .. trapsCount - 1 : trapFunc[Base + k + 1] = issued - trapsCount + 1 + k

\* What was called is in order and not newer than Newest, and everything that
\* is not newer was called or dropped.
HistoryInv ==
  /\ \A k \in DOMAIN ran : ran[k] \in 1 .. Newest
  /\ \A j, k \in DOMAIN ran : j < k => ran[j] < ran[k]
  /\ \A t \in 1 .. Newest : t \in Executed \cup lost
  /\ lost \in SUBSET (1 .. issued)

\* The types without their bounds; those of the window follow from WindowInv.
Types ==
  /\ trapFunc \in Seq(Nat) /\ ran \in Seq(Nat)
  /\ trapsNext \in Nat /\ trapsCount \in Nat /\ i \in Nat /\ thisCycle \in Nat
  /\ issued \in 0 .. MaxIssued
  /\ trapBit \in BOOLEAN /\ resetBit \in BOOLEAN
  /\ pc \in {"run", "loop", "call", "after"}

TrapInv == Types /\ CycleInv /\ BitInv /\ WindowInv /\ HistoryInv

-----------------------------------------------------------------------------
\* lib_realloc keeps what the array held and makes room for n elements.
LEMMA GrownKeeps ==
  ASSUME trapFunc \in Seq(Nat), NEW n \in Nat
  PROVE  /\ Grown(n) \in Seq(Nat)
         /\ Len(Grown(n)) = IF n > Size THEN n ELSE Size
         /\ \A k \in 1 .. Size : Grown(n)[k] = trapFunc[k]
<1>1. CASE n > Size
  <2> DEFINE new == [k \in 1 .. n - Size |-> Garbage]
  <2>1. new \in Seq(Nat) /\ Len(new) = n - Size
    BY <1>1 DEF Size, Garbage
  <2>2. Grown(n) = trapFunc \o new
    BY <1>1 DEF Grown
  <2> HIDE DEF new
  <2>3. trapFunc \o new \in Seq(Nat) /\ Len(trapFunc \o new) = Size + Len(new)
    BY <2>1 DEF Size
  <2>4. \A k \in 1 .. Size : (trapFunc \o new)[k] = trapFunc[k]
    BY <2>1 DEF Size
  <2>5. Size \in Nat
    BY DEF Size
  <2> QED
    BY <1>1, <2>1, <2>2, <2>3, <2>4, <2>5
<1>2. CASE ~(n > Size)
  BY <1>2 DEF Grown, Size
<1> QED
  BY <1>1, <1>2

\* An empty queue, nothing asked for and nothing run.
LEMMA InitTrapInv == Init => TrapInv
<1> SUFFICES ASSUME Init PROVE TrapInv
  OBVIOUS
<1> USE TrapConstants DEF Init
<1>1. Types
  <2>1. trapFunc \in Seq(Nat) /\ ran \in Seq(Nat) /\ issued \in 0 .. MaxIssued
    OBVIOUS
  <2> QED
    BY <2>1 DEF Types
<1>4. CycleInv /\ BitInv
  BY DEF CycleInv, BitInv, InCycle
<1>2. WindowInv
  BY DEF WindowInv, Base, InCycle, Size
<1>3. HistoryInv
  BY DEF HistoryInv, Newest, Done, Executed
<1> QED
  BY <1>1, <1>2, <1>3, <1>4 DEF TrapInv

\* A request is stored right behind the traps that wait: between two
\* instructions, and inside the first trap of a cycle, where traps_next has
\* not advanced yet.
LEMMA TriggerKeepsTrapInv ==
  ASSUME NestAnywhere = FALSE, TrapInv, interrupt_maincpu_trigger_trap
  PROVE  TrapInv'
<1> USE DEF TrapInv, Types
<1> DEFINE n == this_trap_index + 1
<1>1. /\ n \in Nat /\ n >= 1 /\ n = Base + trapsCount + 1
      /\ pc \in {"run", "call"} /\ pc = "call" => i = 0
  BY NestAnywhere = FALSE DEF interrupt_maincpu_trigger_trap, this_trap_index, Base, InCycle
<1>2. /\ Grown(n) \in Seq(Nat) /\ Len(Grown(n)) >= n /\ Len(Grown(n)) >= Size
      /\ \A k \in 1 .. Size : Grown(n)[k] = trapFunc[k]
  <2>1. Size \in Nat /\ (\E m \in Nat : m = n)
    BY <1>1 DEF Size
  <2>2. /\ Grown(n) \in Seq(Nat)
        /\ Len(Grown(n)) = IF n > Size THEN n ELSE Size
        /\ \A k \in 1 .. Size : Grown(n)[k] = trapFunc[k]
    BY <1>1, GrownKeeps
  <2> QED
    BY <1>1, <2>1, <2>2
<1>3. trapFunc' = [Grown(n) EXCEPT ![n] = issued + 1]
  BY DEF interrupt_maincpu_trigger_trap
<1> HIDE DEF n
<1>4. /\ trapFunc' \in Seq(Nat) /\ Len(trapFunc') = Len(Grown(n))
      /\ trapFunc'[n] = issued + 1
      /\ \A k \in 1 .. Size : k # n => trapFunc'[k] = trapFunc[k]
  BY <1>1, <1>2, <1>3 DEF Size
<1>5. /\ issued' = issued + 1 /\ trapsCount' = trapsCount + 1 /\ trapBit' = TRUE
      /\ issued < MaxIssued
      /\ UNCHANGED <<trapsNext, resetBit, pc, i, thisCycle, ran, lost, resets>>
  BY DEF interrupt_maincpu_trigger_trap
<1>6. Types'
  BY <1>4, <1>5, TrapConstants
<1>7. CycleInv' /\ BitInv'
  <2>1. CycleInv'
    BY <1>5 DEF CycleInv, InCycle
  <2>2. BitInv'
    BY <1>5 DEF BitInv
  <2> QED
    BY <2>1, <2>2
<1>8. Base' = Base /\ Newest' = Newest /\ Done' = Done /\ Base \in Nat
  BY <1>5 DEF Base, Newest, Done, InCycle, CycleInv
<1>9. WindowInv'
  <2>1. trapsCount' <= issued' /\ (Base + trapsCount <= Size)'
    BY <1>1, <1>2, <1>4, <1>5, <1>8 DEF WindowInv, Size
  <2>2. ASSUME NEW k \in 0 .. trapsCount
        PROVE  trapFunc'[Base + k + 1] = issued - trapsCount + 1 + k
    <3>1. CASE k = trapsCount
      BY <1>1, <1>4, <1>8, <3>1
    <3>2. CASE k < trapsCount
      <4>1. Base + k + 1 \in 1 .. Size /\ Base + k + 1 # n
        BY <1>1, <1>8, <3>2 DEF WindowInv, Size
      <4>2. trapFunc[Base + k + 1] = issued - trapsCount + 1 + k
        BY <3>2 DEF WindowInv
      <4> QED
        BY <1>4, <4>1, <4>2
    <3> QED
      BY <3>1, <3>2
  <2> QED
    BY <1>5, <1>8, <2>1, <2>2 DEF WindowInv
<1>10. HistoryInv'
  BY <1>5, <1>8 DEF HistoryInv, Executed
<1> QED
  BY <1>6, <1>7, <1>9, <1>10

\* The function that is called is the oldest of those that wait.
LEMMA CallKeepsTrapInv == ASSUME TrapInv, CallTrap PROVE TrapInv'
<1> USE DEF TrapInv, Types
<1>1. /\ pc = "loop" /\ i < thisCycle /\ pc' = "call"
      /\ ran' = Append(ran, Slot(trapsNext))
      /\ UNCHANGED <<trapFunc, trapsNext, trapsCount, trapBit, resetBit, i, thisCycle,
                     issued, lost, resets>>
  BY DEF CallTrap, queueVars
<1>2. Slot(trapsNext) = Newest + 1 /\ Newest \in Nat /\ Newest' = Newest + 1
  <2>1. /\ i \in 0 .. trapsCount - 1 /\ Base + i = trapsNext
        /\ trapsNext < Size /\ trapFunc[trapsNext + 1] = issued - trapsCount + 1 + i
    BY <1>1 DEF CycleInv, InCycle, WindowInv, Base, Size
  <2> QED
    BY <1>1, <2>1 DEF Slot, Newest, Done, Size, WindowInv
<1>3. Types'
  BY <1>1, <1>2
<1>4. CycleInv' /\ BitInv'
  BY <1>1 DEF CycleInv, InCycle, BitInv
<1>5. WindowInv'
  BY <1>1 DEF WindowInv, Base, InCycle, Size
<1>6. HistoryInv'
  <2>1. /\ DOMAIN ran = 1 .. Len(ran) /\ DOMAIN ran' = 1 .. Len(ran) + 1
        /\ ran'[Len(ran) + 1] = Newest + 1
        /\ \A k \in 1 .. Len(ran) : ran'[k] = ran[k]
    BY <1>1, <1>2
  <2>2. \A k \in DOMAIN ran' : ran'[k] \in 1 .. Newest'
    BY <1>2, <2>1 DEF HistoryInv
  <2>3. ASSUME NEW j \in DOMAIN ran', NEW k \in DOMAIN ran', j < k
        PROVE  ran'[j] < ran'[k]
    <3>1. j \in 1 .. Len(ran) /\ ran'[j] = ran[j] /\ ran[j] \in 1 .. Newest
      BY <2>1, <2>3 DEF HistoryInv
    <3>2. CASE k = Len(ran) + 1
      BY <1>2, <2>1, <3>1, <3>2
    <3>3. CASE k \in 1 .. Len(ran)
      BY <2>1, <2>3, <3>1, <3>3 DEF HistoryInv
    <3> QED
      BY <2>1, <3>2, <3>3
  <2>4. Executed \subseteq Executed' /\ Newest + 1 \in Executed'
    BY <2>1 DEF Executed
  <2>5. \A t \in 1 .. Newest' : t \in Executed' \cup lost'
    BY <1>1, <1>2, <2>4 DEF HistoryInv
  <2> QED
    BY <1>1, <2>2, <2>3, <2>5 DEF HistoryInv
<1> QED
  BY <1>3, <1>4, <1>5, <1>6

\* The end of a cycle leaves the traps that were triggered in it as the window
\* of the next one.
LEMMA LeaveKeepsTrapInv == ASSUME TrapInv, LeaveDoTrap PROVE TrapInv'
<1> USE DEF TrapInv, Types
<1>1. /\ pc = "loop" /\ i = thisCycle /\ pc' = "after"
      /\ UNCHANGED <<trapFunc, resetBit, i, thisCycle, issued, ran, lost, resets>>
  BY DEF LeaveDoTrap, history
<1>2. Newest' = Newest
  <2>1. trapsCount' = trapsCount - thisCycle
    BY <1>1 DEF LeaveDoTrap, CycleInv, InCycle
  <2> QED
    BY <1>1, <2>1 DEF Newest, Done
<1>3. Types' /\ CycleInv' /\ BitInv'
  <2>1. CASE trapsCount > thisCycle
    <3>1. trapsCount' = trapsCount - thisCycle /\ UNCHANGED <<trapBit, trapsNext>>
      BY <2>1 DEF LeaveDoTrap
    <3> QED
      BY <1>1, <2>1, <3>1 DEF CycleInv, BitInv, InCycle
  <2>2. CASE ~(trapsCount > thisCycle)
    <3>1. trapBit' = FALSE /\ trapsNext' = 0 /\ trapsCount' = 0
      BY <2>2 DEF LeaveDoTrap
    <3>2. BitInv'
      BY <3>1 DEF BitInv
    <3>3. trapBit' \in BOOLEAN
      BY <3>1
    <3> QED
      BY <1>1, <3>1, <3>2, <3>3 DEF CycleInv, InCycle
  <2> QED
    BY <2>1, <2>2
<1>4. WindowInv'
  <2>1. CASE trapsCount > thisCycle
    <3>1. Base' = Base + thisCycle /\ trapsCount' = trapsCount - thisCycle /\ Base \in Nat
      BY <1>1, <2>1 DEF LeaveDoTrap, Base, InCycle, CycleInv
    <3>2. ASSUME NEW k \in 0 .. trapsCount' - 1
          PROVE  trapFunc'[Base' + k + 1] = issued' - trapsCount' + 1 + k
      <4>1. thisCycle + k \in 0 .. trapsCount - 1
        BY <3>1
      <4>2. trapFunc[Base + (thisCycle + k) + 1] = issued - trapsCount + 1 + (thisCycle + k)
        BY <4>1 DEF WindowInv
      <4> QED
        BY <1>1, <3>1, <4>2
    <3> QED
      BY <1>1, <2>1, <3>1, <3>2 DEF WindowInv, Size
  <2>2. CASE ~(trapsCount > thisCycle)
    BY <1>1, <2>2 DEF LeaveDoTrap, WindowInv, Base, InCycle, Size
  <2> QED
    BY <2>1, <2>2
<1>5. HistoryInv'
  BY <1>1, <1>2 DEF HistoryInv, Executed
<1> QED
  BY <1>3, <1>4, <1>5

\* A reset empties the queue; what had not been called is lost.
LEMMA ResetKeepsTrapInv == ASSUME TrapInv, cpu_reset PROVE TrapInv'
<1> USE DEF TrapInv, Types
<1>1. /\ pc' = "run" /\ trapFunc' = << >> /\ trapsNext' = 0 /\ trapsCount' = 0
      /\ trapBit' = FALSE /\ resetBit' = FALSE
      /\ lost' = lost \cup {t \in 1 .. issued : \A k \in DOMAIN ran : ran[k] # t}
      /\ UNCHANGED <<i, thisCycle, issued, ran>>
  BY DEF cpu_reset
<1>2. Newest' = issued /\ Newest <= issued /\ Newest \in Int
  BY <1>1 DEF Newest, Done, CycleInv, InCycle
<1>3. Types' /\ CycleInv' /\ BitInv'
  <2>1. trapFunc' \in Seq(Nat)
    BY <1>1
  <2>2. trapBit' \in BOOLEAN /\ resetBit' \in BOOLEAN
    BY <1>1
  <2>3. Types'
    BY <1>1, <2>1, <2>2
  <2>4. BitInv'
    BY <1>1 DEF BitInv
  <2> QED
    BY <1>1, <2>3, <2>4 DEF CycleInv, InCycle
<1>4. WindowInv'
  BY <1>1 DEF WindowInv, Base, InCycle, Size
<1>5. HistoryInv'
  <2>1. \A t \in 1 .. issued : t \in Executed \cup lost'
    BY <1>1 DEF Executed
  <2>2. \A k \in DOMAIN ran : ran[k] \in 1 .. issued
    BY <1>2 DEF HistoryInv
  <2>3. lost' \in SUBSET (1 .. issued)
    BY <1>1 DEF HistoryInv
  <2> QED
    BY <1>1, <1>2, <2>1, <2>2, <2>3 DEF HistoryInv, Executed
<1> QED
  BY <1>3, <1>4, <1>5

\* Every step keeps the queue, its indices and the history in agreement, when
\* only the first trap of a cycle triggers traps.
LEMMA StepKeepsTrapInv ==
  ASSUME NestAnywhere = FALSE, TrapInv, [Next]_vars PROVE TrapInv'
<1> USE DEF TrapInv, Types
<1>1. CASE interrupt_trigger_reset \/ EnterDoTrap \/ ResumeCpu \/ UNCHANGED vars
  <2>1. UNCHANGED <<trapFunc, trapsNext, trapsCount, trapBit, issued, ran, lost>>
    BY <1>1 DEF interrupt_trigger_reset, EnterDoTrap, ResumeCpu, vars, queueVars, history
  <2>2. Types' /\ CycleInv' /\ BitInv'
    <3>1. BitInv'
      BY <2>1 DEF BitInv
    <3>2. CASE EnterDoTrap
      <4>1. trapsCount > 0
        BY <3>2 DEF EnterDoTrap, BitInv
      <4>2. thisCycle' = trapsCount /\ i' = 0 /\ pc' = "loop" /\ resetBit' = resetBit
        BY <3>2 DEF EnterDoTrap
      <4> QED
        BY <2>1, <3>1, <4>1, <4>2 DEF CycleInv, InCycle
    <3>3. CASE interrupt_trigger_reset \/ ResumeCpu \/ UNCHANGED vars
      <4>1. /\ UNCHANGED <<i, thisCycle>> /\ resetBit' \in BOOLEAN
            /\ pc' = pc \/ pc' = "run"
        BY <3>3 DEF interrupt_trigger_reset, ResumeCpu, vars
      <4> QED
        BY <2>1, <3>1, <4>1 DEF CycleInv, InCycle
    <3> QED
      BY <1>1, <3>2, <3>3
  <2>3. Base' = Base /\ Newest' = Newest
    BY <1>1, <2>1 DEF interrupt_trigger_reset, EnterDoTrap, ResumeCpu, vars, Base, Newest,
                      Done, InCycle
  <2>4. WindowInv' /\ HistoryInv'
    BY <2>1, <2>3 DEF WindowInv, HistoryInv, Size, Executed
  <2> QED
    BY <2>2, <2>4
<1>2. CASE TrapReturns
  <2>1. /\ UNCHANGED <<trapFunc, trapsCount, trapBit, resetBit, thisCycle, issued, ran, lost>>
        /\ pc = "call" /\ pc' = "loop" /\ trapsNext' = trapsNext + 1 /\ i' = i + 1
    BY <1>2 DEF TrapReturns, history
  <2>2. Types' /\ CycleInv' /\ BitInv'
    BY <2>1 DEF CycleInv, BitInv, InCycle
  <2>3. Base' = Base /\ Newest' = Newest
    BY <2>1 DEF Base, Newest, Done, InCycle
  <2>4. WindowInv' /\ HistoryInv'
    BY <2>1, <2>3 DEF WindowInv, HistoryInv, Size, Executed
  <2> QED
    BY <2>2, <2>4
<1> QED
  BY <1>1, <1>2, NestAnywhere = FALSE, TriggerKeepsTrapInv, CallKeepsTrapInv,
     LeaveKeepsTrapInv, ResetKeepsTrapInv DEF Next

\* The queue, its indices and the history of calls agree at every step.
THEOREM TrapInvariance == ASSUME NestAnywhere = FALSE PROVE Spec => []TrapInv
<1>1. TrapInv /\ [Next]_vars => TrapInv'
  BY NestAnywhere = FALSE, StepKeepsTrapInv
<1> QED
  BY InitTrapInv, <1>1, PTL DEF Spec

\* interrupt_do_trap calls what was asked for, each function once and in the
\* order of the requests, and never an unwritten slot.
THEOREM InOrder == ASSUME NestAnywhere = FALSE PROVE Spec => []TrapsRunInOrder
<1>1. TrapInv => TrapsRunInOrder
  <2> SUFFICES ASSUME TrapInv PROVE TrapsRunInOrder
    OBVIOUS
  <2>1. \A k \in DOMAIN ran : ran[k] # Garbage
    BY DEF TrapInv, HistoryInv, Garbage
  <2> QED
    BY <2>1 DEF TrapInv, HistoryInv, TrapsRunInOrder, Executed
<1> QED
  BY <1>1, NestAnywhere = FALSE, TrapInvariance, PTL

\* Between two instructions each requested trap has run, waits where the next
\* cycle looks, or was dropped by a reset, and IK_TRAP is right.
THEOREM NoneForgotten == ASSUME NestAnywhere = FALSE PROVE Spec => []NoTrapForgotten
<1>1. TrapInv => NoTrapForgotten
  <2> SUFFICES ASSUME TrapInv, pc = "run" PROVE NoTrapForgotten
    BY DEF NoTrapForgotten
  <2> USE DEF TrapInv, Types
  <2>1. Base = trapsNext /\ Newest = issued - trapsCount /\ (trapBit <=> trapsCount > 0)
    BY DEF Base, Newest, Done, InCycle, BitInv
  <2>2. ASSUME NEW k \in 0 .. trapsCount - 1
        PROVE  Slot(trapsNext + k) = issued - trapsCount + 1 + k
    <3>1. trapFunc[trapsNext + k + 1] = issued - trapsCount + 1 + k
      BY <2>1 DEF WindowInv
    <3>2. trapsNext + k < Size
      BY <2>1 DEF WindowInv, Size
    <3> QED
      BY <3>1, <3>2 DEF Slot
  <2>3. Queued = (issued - trapsCount + 1) .. issued
    <3>1. ASSUME NEW t \in Queued PROVE t \in (issued - trapsCount + 1) .. issued
      <4>1. PICK s \in trapsNext .. trapsNext + trapsCount - 1 : t = Slot(s)
        BY DEF Queued
      <4>2. s - trapsNext \in 0 .. trapsCount - 1 /\ s = trapsNext + (s - trapsNext)
        OBVIOUS
      <4>3. t = issued - trapsCount + 1 + (s - trapsNext)
        BY <2>2, <4>1, <4>2
      <4> QED
        BY <4>2, <4>3
    <3>2. ASSUME NEW t \in (issued - trapsCount + 1) .. issued PROVE t \in Queued
      <4>1. PICK k \in 0 .. trapsCount - 1 :
              /\ t = issued - trapsCount + 1 + k
              /\ trapsNext + k \in trapsNext .. trapsNext + trapsCount - 1
        <5>1. t - (issued - trapsCount + 1) \in 0 .. trapsCount - 1
          OBVIOUS
        <5> QED
          BY <5>1
      <4>2. t = Slot(trapsNext + k)
        BY <2>2, <4>1
      <4> QED
        BY <4>1, <4>2 DEF Queued
    <3> QED
      BY <3>1, <3>2
  <2>4. Executed \subseteq 1 .. Newest /\ lost \subseteq 1 .. issued
    BY DEF HistoryInv, Executed
  <2>5. \A t \in 1 .. Newest : t \in Executed \cup lost
    BY DEF HistoryInv
  <2>6. 1 .. issued = Executed \cup Queued \cup lost
    <3>1. trapsCount <= issued
      BY DEF WindowInv
    <3>2. \A t \in 1 .. issued : t \in 1 .. Newest \/ t \in Queued
      BY <2>1, <2>3, <3>1
    <3>3. \A t \in Queued \cup Executed : t \in 1 .. issued
      BY <2>1, <2>3, <2>4, <3>1
    <3> QED
      BY <2>4, <2>5, <3>2, <3>3
  <2> QED
    BY <2>1, <2>6 DEF NoTrapForgotten
<1> QED
  BY <1>1, NestAnywhere = FALSE, TrapInvariance, PTL

-----------------------------------------------------------------------------
(***************************************************************************)
(* The main lock.                                                          *)
(***************************************************************************)
OutsideHandlers == {"idle", "shutdown", "join", "done"}

\* main_lock_obtain_depth is 0 exactly when no handler runs.
DepthInv == IF ui \in OutsideHandlers THEN depth = 0 ELSE depth >= 1

\* Who holds internal_lock between two steps, and what ui_is_waiting and
\* vice_thread_is_running say of the two threads.
FlagInv ==
  /\ internal = IF v \in {"signal", "wait", "leave", "wakeUi"} THEN "vice" ELSE "none"
  /\ uiWaiting <=> ui \in {"wait", "woken"}
  /\ running <=> v \notin {"start", "wakeUi", "unlock", "gone"}

\* How far the UI thread can be at each step of mainlock_yield_begin: it
\* cannot get past "woken" before the VICE thread blocks.
HandshakeInv ==
  /\ v = "signal" => uiWaiting
  /\ v = "wait" => ui = "woken"
  /\ v = "blocked" => ui \in {"woken", "lock", "tell"}
  /\ v \in {"start", "unlock", "gone"} => ui # "wait"

SignalInv == LockTypeOK /\ DepthInv /\ FlagInv /\ HandshakeInv

\* Without nesting the owner of main_lock is known from where the threads are.
OwnerInv ==
  /\ mainOwner = "vice" <=> ViceInside
  /\ mainOwner = "ui" <=> UiInside

\* The initial state, before mainlock_set_vice_thread, satisfies the
\* invariant of the signals.
LEMMA InitSignalInv == LockInit => SignalInv
<1> SUFFICES ASSUME LockInit PROVE SignalInv
  OBVIOUS
<1>1. LockTypeOK
  <2>1. depth \in 0 .. MaxDepth /\ wakeups \in 0 .. MaxSpurious
    BY MainLockConstants DEF LockInit
  <2> QED
    BY <2>1 DEF LockInit, LockTypeOK, Threads
<1>2. DepthInv
  BY DEF LockInit, DepthInv, OutsideHandlers
<1>3. FlagInv
  <2>1. ui \notin {"wait", "woken"}
    BY DEF LockInit
  <2>2. v \in {"start", "wakeUi", "unlock", "gone"}
    BY DEF LockInit
  <2>3. internal = IF v \in {"signal", "wait", "leave", "wakeUi"} THEN "vice" ELSE "none"
    BY DEF LockInit
  <2> QED
    BY <2>1, <2>2, <2>3 DEF LockInit, FlagInv
<1>4. HandshakeInv
  BY DEF LockInit, HandshakeInv
<1> QED
  BY <1>1, <1>2, <1>3, <1>4 DEF SignalInv

\* Every step of the VICE thread keeps the invariant of the signals.
LEMMA ViceKeepsSignalInv == SignalInv /\ (ViceSteps \/ archdep_vice_exit) => SignalInv'
<1> SUFFICES ASSUME SignalInv, ViceSteps \/ archdep_vice_exit PROVE SignalInv'
  OBVIOUS
<1> USE MainLockConstants DEF SignalInv, LockTypeOK, Threads, DepthInv, FlagInv, HandshakeInv,
        OutsideHandlers, LockMain, UnlockMain, SignalUiWaiting
<1>1. CASE mainlock_set_vice_thread
  BY <1>1 DEF mainlock_set_vice_thread
<1>2. CASE FirstLock
  BY <1>2 DEF FirstLock
<1>3. CASE YieldUnlock
  BY <1>3 DEF YieldUnlock
<1>4. CASE YieldTest
  BY <1>4 DEF YieldTest
<1>5. CASE YieldSignal
  BY <1>5 DEF YieldSignal
<1>6. CASE YieldWait
  BY <1>6 DEF YieldWait
<1>7. CASE YieldWoken
  BY <1>7 DEF YieldWoken
<1>8. CASE YieldLeave
  BY <1>8 DEF YieldLeave
<1>9. CASE mainlock_yield_end
  BY <1>9 DEF mainlock_yield_end
<1>10. CASE consider_exit
  BY <1>10 DEF consider_exit
<1>11. CASE ExitWakesUi
  BY <1>11 DEF ExitWakesUi
<1>12. CASE ExitUnlocks
  BY <1>12 DEF ExitUnlocks
<1>13. CASE InitiateOnVice
  BY <1>13 DEF InitiateOnVice
<1>14. CASE archdep_vice_exit
  BY <1>14 DEF archdep_vice_exit
<1> QED
  BY <1>1, <1>2, <1>3, <1>4, <1>5, <1>6, <1>7, <1>8, <1>9, <1>10, <1>11, <1>12, <1>13, <1>14
     DEF ViceSteps, ViceYields, ViceLeaves

\* So does every step of the UI thread, and a wakeup without a signal.
LEMMA UiKeepsSignalInv ==
  SignalInv /\ (UiSteps \/ vice_gtk3_lock \/ actually_exit \/ SpuriousWakeup) => SignalInv'
<1> SUFFICES ASSUME SignalInv, UiSteps \/ vice_gtk3_lock \/ actually_exit \/ SpuriousWakeup
             PROVE  SignalInv'
  OBVIOUS
<1> USE MainLockConstants DEF SignalInv, LockTypeOK, Threads, DepthInv, FlagInv, HandshakeInv,
        OutsideHandlers, LockMain, UnlockMain, SignalUiHasLock, Obtain
<1>1. CASE vice_gtk3_lock
  BY <1>1 DEF vice_gtk3_lock
<1>2. CASE ObtainTest
  BY <1>2 DEF ObtainTest
<1>3. CASE ObtainWoken
  BY <1>3 DEF ObtainWoken
<1>4. CASE ObtainLock
  BY <1>4 DEF ObtainLock
<1>5. CASE ObtainTell
  BY <1>5 DEF ObtainTell
<1>6. CASE mainlock_release
  BY <1>6 DEF mainlock_release
<1>7. CASE ReleaseCounts
  BY <1>7 DEF ReleaseCounts
<1>8. CASE actually_exit
  BY <1>8 DEF actually_exit
<1>9. CASE vice_thread_shutdown
  BY <1>9 DEF vice_thread_shutdown
<1>10. CASE JoinReturns
  BY <1>10 DEF JoinReturns
<1>11. CASE SpuriousWakeup
  BY <1>11 DEF SpuriousWakeup
<1> QED
  BY <1>1, <1>2, <1>3, <1>4, <1>5, <1>6, <1>7, <1>8, <1>9, <1>10, <1>11 DEF UiSteps

\* The invariant of the signals holds for every nesting depth, with spurious
\* wakeups and with an exit from either thread.
THEOREM SignalInvariance == LockSpec => []SignalInv
<1>1. SignalInv /\ UNCHANGED lockVars => SignalInv'
  BY DEF SignalInv, LockTypeOK, DepthInv, FlagInv, HandshakeInv, lockVars
<1>2. SignalInv /\ [LockNext]_lockVars => SignalInv'
  BY <1>1, ViceKeepsSignalInv, UiKeepsSignalInv DEF LockNext
<1> QED
  BY InitSignalInv, <1>2, PTL DEF LockSpec

\* The variables of mainlock.c keep their types; the depth never gets
\* negative.
THEOREM LockTypeCorrect == LockSpec => []LockTypeOK
<1>1. SignalInv => LockTypeOK
  BY DEF SignalInv
<1> QED
  BY <1>1, SignalInvariance, PTL

\* The wait of mainlock_yield_begin does not miss its signal, although no loop
\* tests a predicate: a VICE thread that is blocked there is owed the signal.
THEOREM SignalIsOwed == LockSpec => []HandshakeOwed
<1>1. SignalInv => HandshakeOwed
  BY DEF SignalInv, FlagInv, HandshakeInv, LockTypeOK, HandshakeOwed
<1> QED
  BY <1>1, SignalInvariance, PTL

\* Nor does the wait of mainlock_obtain: the UI thread never waits for a VICE
\* thread that has not started, or that has gone.
THEOREM NobodyLeftWaiting == LockSpec => []NoOrphanedWait
<1>1. SignalInv => NoOrphanedWait
  BY DEF SignalInv, FlagInv, HandshakeInv, LockTypeOK, NoOrphanedWait
<1> QED
  BY <1>1, SignalInvariance, PTL

\* The step from one state to the next keeps OwnerInv if no handler nests.
LEMMA StepKeepsOwnerInv ==
  ASSUME MaxDepth = 1, SignalInv, SignalInv', OwnerInv, [LockNext]_lockVars
  PROVE  OwnerInv'
<1> USE DEF SignalInv, LockTypeOK, DepthInv, OutsideHandlers, OwnerInv, ViceInside, UiInside,
            LockMain, UnlockMain, SignalUiWaiting, SignalUiHasLock, Obtain
<1>1. CASE ViceYields
  BY <1>1 DEF ViceYields, YieldUnlock, YieldTest, YieldSignal, YieldWait, YieldWoken,
              YieldLeave, mainlock_yield_end
<1>2. CASE ViceLeaves
  BY <1>2 DEF ViceLeaves, consider_exit, ExitWakesUi, ExitUnlocks, InitiateOnVice
<1>3. CASE mainlock_set_vice_thread \/ FirstLock \/ archdep_vice_exit
  BY <1>3 DEF mainlock_set_vice_thread, FirstLock, archdep_vice_exit
<1>4. CASE ObtainTest \/ ObtainWoken \/ ObtainLock \/ ObtainTell
  BY <1>4 DEF ObtainTest, ObtainWoken, ObtainLock, ObtainTell
<1>5. CASE mainlock_release \/ ReleaseCounts
  BY <1>5 DEF mainlock_release, ReleaseCounts
<1>6. CASE vice_thread_shutdown \/ JoinReturns \/ SpuriousWakeup
  BY <1>6 DEF vice_thread_shutdown, JoinReturns, SpuriousWakeup
<1>7. CASE vice_gtk3_lock \/ actually_exit
  BY <1>7 DEF vice_gtk3_lock, actually_exit
<1>8. CASE UNCHANGED lockVars
  BY <1>8 DEF lockVars
<1> QED
  BY <1>1, <1>2, <1>3, <1>4, <1>5, <1>6, <1>7, <1>8 DEF LockNext, ViceSteps, UiSteps

\* If no handler obtains the lock while it has it, emulation and user
\* interface never work on emulator data at the same time.
THEOREM Exclusion == ASSUME MaxDepth = 1 PROVE LockSpec => []MutualExclusion
<1>1. LockInit => OwnerInv
  BY DEF LockInit, OwnerInv, ViceInside, UiInside
<1>2. SignalInv /\ SignalInv' /\ OwnerInv /\ [LockNext]_lockVars => OwnerInv'
  BY StepKeepsOwnerInv, MaxDepth = 1
<1>3. OwnerInv => MutualExclusion
  BY DEF OwnerInv, MutualExclusion
<1> QED
  BY <1>1, <1>2, <1>3, SignalInvariance, PTL DEF LockSpec
=============================================================================
