------------------------------ MODULE AlarmSpec ------------------------------
(***************************************************************************)
(* What an alarm context of VICE promises to the chips and to the CPU that *)
(* owns it: every alarm has at most one deadline, the CPU never starts an  *)
(* instruction while a deadline is due, and callbacks are called in the    *)
(* order of their deadlines.  Nothing is said of how the deadlines are     *)
(* stored.  Module Alarm, the code of alarm.c and alarm.h, implements this.*)
(***************************************************************************)
EXTENDS Integers, FiniteSets

CONSTANTS Alarms,     \* every alarm that may ever be created
          Capacity,   \* how many alarms may be pending at a time
          ClockMax,   \* the largest CLOCK value
          ResetClk,   \* the value of the clock after a CPU reset
          MaxCycles,  \* the longest the CPU runs between two alarm checks
          NoAlarm     \* no alarm

VARIABLES clk,        \* the CPU clock
          live,       \* the alarms that exist
          deadline,   \* deadline[a] is the CLOCK a is set for, or NotPending
          running     \* the alarm whose callback is being executed, or NoAlarm

vars == <<clk, live, deadline, running>>

Time == 0 .. ClockMax
NotPending == -1

Pending == {a \in Alarms : deadline[a] # NotPending}

Init ==
  /\ clk = 0
  /\ live = {}
  /\ deadline = [a \in Alarms |-> NotPending]
  /\ running = NoAlarm

New(a) ==
  /\ a \notin live
  /\ live' = live \cup {a}
  /\ UNCHANGED <<clk, deadline, running>>

Unset(a) ==
  /\ a \in live
  /\ deadline' = [deadline EXCEPT ![a] = NotPending]
  /\ UNCHANGED <<clk, live, running>>

Destroy(a) ==
  /\ a \in live
  /\ a # running
  /\ live' = live \ {a}
  /\ deadline' = [deadline EXCEPT ![a] = NotPending]
  /\ UNCHANGED <<clk, running>>

Set(a, t) ==
  /\ a \in live
  /\ \/ deadline' = [deadline EXCEPT ![a] = t]
     \/ /\ a \notin Pending
        /\ Cardinality(Pending) = Capacity
        /\ UNCHANGED deadline
  /\ UNCHANGED <<clk, live, running>>

\* The callback of an earliest due alarm is called.
Dispatch(a) ==
  /\ running = NoAlarm
  /\ a \in Pending
  /\ deadline[a] <= clk
  /\ \A b \in Pending : deadline[a] <= deadline[b]
  /\ running' = a
  /\ UNCHANGED <<clk, live, deadline>>

Return ==
  /\ running # NoAlarm
  /\ running' = NoAlarm
  /\ UNCHANGED <<clk, live, deadline>>

NothingDue == \A a \in Pending : deadline[a] > clk

Execute(n) ==
  /\ running = NoAlarm
  /\ NothingDue
  /\ clk' = clk + n
  /\ UNCHANGED <<live, deadline, running>>

\* A reset does not wait for the deadlines that are due.
Reset ==
  /\ running = NoAlarm
  /\ clk' = ResetClk
  /\ UNCHANGED <<live, deadline, running>>

Next ==
  \/ \E a \in Alarms : New(a) \/ Destroy(a) \/ Unset(a) \/ Dispatch(a)
  \/ \E a \in Alarms, t \in Time : Set(a, t)
  \/ \E n \in 1 .. MaxCycles : Execute(n)
  \/ Return
  \/ Reset

Spec == Init /\ [][Next]_vars
==============================================================================
