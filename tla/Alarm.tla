-------------------------------- MODULE Alarm --------------------------------
(***************************************************************************)
(* An alarm context of VICE (alarm.c, alarm.h) and the CPU loop that polls *)
(* it (PROCESS_ALARMS of 6510core.c).  The pending alarms are an unsorted  *)
(* array; the context caches the clock and the index of the earliest one,  *)
(* and every alarm caches its own index in the array.  The three copies    *)
(* are updated by hand in alarm_set and alarm_unset, which the chips call  *)
(* at any time: from I/O accesses of an instruction and from callbacks,    *)
(* also from the callback of another alarm.                                *)
(*                                                                         *)
(* The list alarms/next/prev, which only alarm_context_destroy walks, is   *)
(* the set `live' here.  alarm_context_time_warp has no caller and is left *)
(* out.  Entries of the array at num and above are what earlier operations *)
(* left there.                                                             *)
(***************************************************************************)
EXTENDS Integers, FiniteSets

CONSTANTS Alarms,      \* every alarm that may ever be created
          MaxPending,  \* ALARM_CONTEXT_MAX_PENDING_ALARMS (0x100)
          ClockMax,    \* CLOCK_MAX
          ResetClk,    \* maincpu_clk after a reset (6)
          MaxCycles,   \* the longest the CPU runs between two alarm checks
          NoAlarm      \* the null pointer

ASSUME ConstantsAssumption ==
  /\ MaxPending \in Nat \ {0}
  /\ ClockMax \in Nat \ {0}
  /\ MaxCycles \in Nat \ {0}
  /\ ResetClk \in 0 .. ClockMax - 1
  /\ NoAlarm \notin Alarms

VARIABLES clk,           \* the CPU clock
          live,          \* alarms: the alarms of the context
          pendingAlarm,  \* pending_alarms[i].alarm; NoAlarm where never written
          pendingClk,    \* pending_alarms[i].clk
          num,           \* num_pending_alarms
          nextClk,       \* next_pending_alarm_clk
          nextIdx,       \* next_pending_alarm_idx
          pendingIdx,    \* alarm->pending_idx
          running        \* the alarm whose callback is executing, or NoAlarm

vars == <<clk, live, pendingAlarm, pendingClk, num, nextClk, nextIdx,
          pendingIdx, running>>
arrayVars == <<pendingAlarm, pendingClk, num, nextClk, nextIdx, pendingIdx>>

Time == 0 .. ClockMax
Slots == 0 .. MaxPending - 1
Used == 0 .. num - 1

TypeOK ==
  /\ clk \in 0 .. ClockMax - 1
  /\ live \in SUBSET Alarms
  /\ pendingAlarm \in [Slots -> Alarms \cup {NoAlarm}]
  /\ pendingClk \in [Slots -> Time]
  /\ num \in 0 .. MaxPending
  /\ nextClk \in Time
  /\ nextIdx \in -1 .. MaxPending - 1
  /\ pendingIdx \in [Alarms -> -1 .. MaxPending - 1]
  /\ running \in Alarms \cup {NoAlarm}

(***************************************************************************)
(* alarm_context_init does not assign next_pending_alarm_idx: it is        *)
(* whatever lib_malloc returned.  -1 stands for the values that are no     *)
(* index of the array.                                                     *)
(***************************************************************************)
Init ==
  /\ clk = 0
  /\ live = {}
  /\ pendingAlarm = [i \in Slots |-> NoAlarm]
  /\ pendingClk = [i \in Slots |-> 0]
  /\ num = 0
  /\ nextClk = ClockMax
  /\ nextIdx \in -1 .. MaxPending - 1
  /\ pendingIdx = [a \in Alarms |-> -1]
  /\ running = NoAlarm

------------------------------------------------------------------------------
(***************************************************************************)
(* alarm_context_update_next_pending: the scan starts from CLOCK_MAX and   *)
(* compares with <=, so that the last of several earliest entries wins and *)
(* the index keeps its value when there is no entry.                       *)
(***************************************************************************)
IsLastEarliest(i, pclk, n) ==
  /\ \A j \in 0 .. n - 1 : pclk[i] <= pclk[j]
  /\ \A j \in 0 .. n - 1 : j > i => pclk[i] < pclk[j]

UpdateNextPending(pclk, n) ==
  IF n = 0
  THEN nextClk' = ClockMax /\ nextIdx' = nextIdx
  ELSE \E i \in 0 .. n - 1 :
         /\ IsLastEarliest(i, pclk, n)
         /\ nextClk' = pclk[i]
         /\ nextIdx' = i

(***************************************************************************)
(* alarm_unset on a pending alarm: the last entry fills the hole.          *)
(***************************************************************************)
\* Slip: the alarm that moves keeps its old index.
RemoveKeepsMovedIndex(a) ==
  LET idx  == pendingIdx[a]
      last == num - 1
      pclk == [pendingClk EXCEPT ![idx] = pendingClk[last]]
  IN  /\ num > 1
      /\ num' = last
      /\ pendingAlarm' = [pendingAlarm EXCEPT ![idx] = pendingAlarm[last]]
      /\ pendingClk' = pclk
      /\ pendingIdx' = [pendingIdx EXCEPT ![a] = -1]
      /\ CASE nextIdx = idx  -> UpdateNextPending(pclk, last)
           [] nextIdx = last /\ nextIdx # idx -> nextIdx' = idx /\ UNCHANGED nextClk
           [] OTHER          -> UNCHANGED <<nextClk, nextIdx>>

\* Slip: the cached index is not redirected when the earliest entry moves.
RemoveKeepsNextIndex(a) ==
  LET idx  == pendingIdx[a]
      last == num - 1
      pclk == [pendingClk EXCEPT ![idx] = pendingClk[last]]
  IN  /\ num > 1
      /\ num' = last
      /\ pendingAlarm' = [pendingAlarm EXCEPT ![idx] = pendingAlarm[last]]
      /\ pendingClk' = pclk
      /\ pendingIdx' = [b \in Alarms |-> IF b = a THEN -1
                                         ELSE IF b = pendingAlarm[last] THEN idx
                                         ELSE pendingIdx[b]]
      /\ IF nextIdx = idx THEN UpdateNextPending(pclk, last) ELSE UNCHANGED <<nextClk, nextIdx>>

RemoveLastOfMany(a) ==
  LET idx  == pendingIdx[a]
      last == num - 1
      pclk == [pendingClk EXCEPT ![idx] = pendingClk[last]]
  IN  /\ num > 1
      /\ num' = last
      /\ pendingAlarm' = [pendingAlarm EXCEPT ![idx] = pendingAlarm[last]]
      /\ pendingClk' = pclk
      /\ pendingIdx' = [b \in Alarms |-> IF b = a THEN -1
                                         ELSE IF b = pendingAlarm[last] THEN idx
                                         ELSE pendingIdx[b]]
      /\ CASE nextIdx = idx  -> UpdateNextPending(pclk, last)
           [] nextIdx = last /\ nextIdx # idx -> nextIdx' = idx /\ UNCHANGED nextClk
           [] OTHER          -> UNCHANGED <<nextClk, nextIdx>>

RemoveOnly(a) ==
  /\ num <= 1
  /\ num' = 0
  /\ nextClk' = ClockMax
  /\ nextIdx' = -1
  /\ pendingIdx' = [pendingIdx EXCEPT ![a] = -1]
  /\ UNCHANGED <<pendingAlarm, pendingClk>>

Remove(a) ==
  IF pendingIdx[a] < 0
  THEN UNCHANGED arrayVars
  ELSE RemoveLastOfMany(a) \/ RemoveOnly(a)

(***************************************************************************)
(* The two halves of alarm_set, and its refusal when the array is full.    *)
(***************************************************************************)
Refuse == num >= MaxPending /\ UNCHANGED arrayVars

\* Slip: the cached clock is not compared with the new one.
AddEntryWithoutCache(a, t) ==
  /\ num < MaxPending
  /\ pendingAlarm' = [pendingAlarm EXCEPT ![num] = a]
  /\ pendingClk' = [pendingClk EXCEPT ![num] = t]
  /\ num' = num + 1
  /\ IF num = 0
     THEN nextClk' = t /\ nextIdx' = num
     ELSE UNCHANGED <<nextClk, nextIdx>>
  /\ pendingIdx' = [pendingIdx EXCEPT ![a] = num]

AddEntry(a, t) ==
  /\ num < MaxPending
  /\ pendingAlarm' = [pendingAlarm EXCEPT ![num] = a]
  /\ pendingClk' = [pendingClk EXCEPT ![num] = t]
  /\ num' = num + 1
  /\ IF t < nextClk
     THEN nextClk' = t /\ nextIdx' = num
     ELSE UNCHANGED <<nextClk, nextIdx>>
  /\ pendingIdx' = [pendingIdx EXCEPT ![a] = num]

\* Slip: no scan when the earliest alarm is put off.
ModifyEntryWithoutScan(a, t) ==
  LET idx  == pendingIdx[a]
      pclk == [pendingClk EXCEPT ![idx] = t]
  IN  /\ pendingClk' = pclk
      /\ IF nextClk > t
         THEN UpdateNextPending(pclk, num)
         ELSE UNCHANGED <<nextClk, nextIdx>>
      /\ UNCHANGED <<pendingAlarm, num, pendingIdx>>

ModifyEntry(a, t) ==
  LET idx  == pendingIdx[a]
      pclk == [pendingClk EXCEPT ![idx] = t]
  IN  /\ pendingClk' = pclk
      /\ IF nextClk > t \/ idx = nextIdx
         THEN UpdateNextPending(pclk, num)
         ELSE UNCHANGED <<nextClk, nextIdx>>
      /\ UNCHANGED <<pendingAlarm, num, pendingIdx>>

------------------------------------------------------------------------------
(***************************************************************************)
(* The operations of the interface.                                        *)
(***************************************************************************)
alarm_new(a) ==
  /\ a \notin live
  /\ live' = live \cup {a}
  /\ pendingIdx' = [pendingIdx EXCEPT ![a] = -1]
  /\ UNCHANGED <<clk, pendingAlarm, pendingClk, num, nextClk, nextIdx, running>>

alarm_unset(a) ==
  /\ a \in live
  /\ Remove(a)
  /\ UNCHANGED <<clk, live, running>>

\* No callback destroys the alarm it was called for.
alarm_destroy(a) ==
  /\ a \in live
  /\ a # running
  /\ Remove(a)
  /\ live' = live \ {a}
  /\ UNCHANGED <<clk, running>>

alarm_set(a, t) ==
  /\ a \in live
  /\ IF pendingIdx[a] < 0
     THEN Refuse \/ AddEntry(a, t)
     ELSE ModifyEntry(a, t)
  /\ UNCHANGED <<clk, live, running>>

(***************************************************************************)
(* PROCESS_ALARMS: the CPU calls alarm_context_dispatch while its clock is *)
(* not before next_pending_alarm_clk; only then it goes on to an interrupt *)
(* sequence or to the next instruction (Execute).  The callback may call   *)
(* every operation above before it returns.                                *)
(***************************************************************************)
alarm_context_dispatch ==
  /\ running = NoAlarm
  /\ clk >= nextClk
  /\ running' = pendingAlarm[nextIdx]
  /\ UNCHANGED <<clk, live, arrayVars>>

CallbackReturn ==
  /\ running # NoAlarm
  /\ running' = NoAlarm
  /\ UNCHANGED <<clk, live, arrayVars>>

\* CLOCK is 64 bits wide and never reaches CLOCK_MAX; the model stops there.
Execute(n) ==
  /\ running = NoAlarm
  /\ clk < nextClk
  /\ clk + n < ClockMax
  /\ clk' = clk + n
  /\ UNCHANGED <<live, arrayVars, running>>

\* cpu_reset turns the clock back and leaves the alarms as they are, those that
\* are due too: since the last check of the alarms DO_INTERRUPT may have spent
\* the last cycles of an interrupt sequence, and traps may have run.
cpu_reset ==
  /\ running = NoAlarm
  /\ clk' = ResetClk
  /\ UNCHANGED <<live, arrayVars, running>>

Next ==
  \/ \E a \in Alarms : alarm_new(a) \/ alarm_destroy(a) \/ alarm_unset(a)
  \/ \E a \in Alarms, t \in Time : alarm_set(a, t)
  \/ alarm_context_dispatch
  \/ CallbackReturn
  \/ \E n \in 1 .. MaxCycles : Execute(n)
  \/ cpu_reset

Spec == Init /\ [][Next]_vars

------------------------------------------------------------------------------
(***************************************************************************)
(* Properties.                                                             *)
(***************************************************************************)
IsPending(a) == pendingIdx[a] >= 0

\* The index an alarm keeps and the array agree: every used entry holds one
\* live alarm that points back to it, and a pending alarm points to a used
\* entry that holds it.  alarm_unset's move of the last entry must keep this.
IndexConsistent ==
  /\ \A i \in Used : \E a \in live : pendingAlarm[i] = a /\ pendingIdx[a] = i
  /\ \A a \in Alarms : IsPending(a) =>
       /\ a \in live
       /\ pendingIdx[a] \in Used
       /\ pendingAlarm[pendingIdx[a]] = a

\* The cached next_pending_alarm_clk is the earliest clock of the array, and
\* while it is a real deadline next_pending_alarm_idx is an entry that has it:
\* alarm_context_dispatch calls the right callback and none is overlooked.
NextIsEarliest ==
  /\ \A i \in Used : nextClk <= pendingClk[i]
  /\ num = 0 => nextClk = ClockMax
  /\ nextClk < ClockMax => nextIdx \in Used /\ pendingClk[nextIdx] = nextClk

\* The abstract state: the deadline of every alarm.
DeadlineOf == [a \in Alarms |-> IF IsPending(a) THEN pendingClk[pendingIdx[a]] ELSE -1]

Abstract == INSTANCE AlarmSpec WITH deadline <- DeadlineOf, Capacity <- MaxPending

\* alarm.c and alarm.h implement the abstract alarm context: no instruction
\* starts while an alarm is due, and dispatch calls the earliest due alarm,
\* whatever the chips set and unset in between and however far a reset turns
\* the clock back while alarms are due.
ImplementsAlarmSpec == Abstract!Spec

\* The clock moves forward only when every pending deadline lies ahead; but a
\* reset may come while an alarm is due, and it may move the clock too.
NoAlarmOverrun ==
  [][clk' > clk /\ ~cpu_reset =>
       \A a \in Alarms : IsPending(a) => pendingClk[pendingIdx[a]] > clk]_vars
==============================================================================
