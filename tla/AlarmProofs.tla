----------------------------- MODULE AlarmProofs -----------------------------
(***************************************************************************)
(* Proofs about module Alarm, for every set of alarms, every size of the   *)
(* pending array and every clock width.                                    *)
(***************************************************************************)
EXTENDS Alarm, TLAPS, FiniteSetTheorems

\* The inductive invariant: the types, the agreement of alarm->pending_idx
\* with the array, and the correctness of the cached earliest deadline.
IndInv == TypeOK /\ IndexConsistent /\ NextIsEarliest

\* The helper behind alarm_set and alarm_unset: after the scan of
\* alarm_context_update_next_pending over a non-empty array the cached
\* clock is a lower bound that the cached index attains.
LEMMA ScanFindsEarliest ==
  ASSUME NEW pclk, NEW n \in 1 .. MaxPending, pclk \in [Slots -> Time],
         UpdateNextPending(pclk, n)
  PROVE  /\ nextClk' \in Time
         /\ nextIdx' \in 0 .. n - 1
         /\ pclk[nextIdx'] = nextClk'
         /\ \A i \in 0 .. n - 1 : nextClk' <= pclk[i]
  BY ConstantsAssumption DEF UpdateNextPending, IsLastEarliest, Slots, Time

(* The context that alarm_context_new and alarm_context_init leave, with no *)
(* entry and no cached alarm, satisfies the inductive invariant.           *)
LEMMA InitIndInv == Init => IndInv
  BY ConstantsAssumption
     DEF Init, IndInv, TypeOK, IndexConsistent, NextIsEarliest, Used, Slots, Time, IsPending

\* alarm_unset of a pending alarm (the move of the last entry into the hole).
LEMMA RemoveKeepsIndInv ==
  ASSUME IndInv, NEW a \in live, Remove(a),
         live' = live \/ live' = live \ {a},
         clk' = clk, running' = running
  PROVE  IndInv' /\ ~ IsPending(a)'
<1> USE ConstantsAssumption DEF IndInv, TypeOK, Slots, Used, IsPending
<1>1. CASE pendingIdx[a] < 0
  BY <1>1 DEF Remove, arrayVars, IndexConsistent, NextIsEarliest, Time
<1>2. CASE pendingIdx[a] >= 0 /\ RemoveOnly(a)
  <2>1. num = 1 /\ pendingIdx[a] = 0 /\ pendingAlarm[0] = a
    BY <1>2 DEF RemoveOnly, IndexConsistent
  <2>2. \A b \in Alarms : b # a => pendingIdx[b] = -1
    BY <2>1 DEF IndexConsistent
  <2>3. TypeOK'
    BY <1>2 DEF RemoveOnly, Time
  <2>4. IndexConsistent' /\ ~ IsPending(a)'
    BY <1>2, <2>2 DEF RemoveOnly, IndexConsistent
  <2>5. NextIsEarliest'
    BY <1>2 DEF RemoveOnly, NextIsEarliest, Time
  <2> QED BY <2>3, <2>4, <2>5
<1>3. CASE pendingIdx[a] >= 0 /\ RemoveLastOfMany(a)
  <2> DEFINE idx == pendingIdx[a]
             last == num - 1
             pclk == [pendingClk EXCEPT ![idx] = pendingClk[last]]
             moved == pendingAlarm[last]
  <2>1. /\ num > 1 /\ idx \in 0 .. last /\ last \in 1 .. MaxPending - 1
        /\ pendingAlarm[idx] = a
        /\ moved \in live /\ moved \in Alarms /\ pendingIdx[moved] = last
    BY <1>3 DEF RemoveLastOfMany, IndexConsistent
  <2>2. /\ num' = last
        /\ pendingAlarm' = [pendingAlarm EXCEPT ![idx] = moved]
        /\ pendingClk' = pclk
        /\ pendingIdx' = [b \in Alarms |-> IF b = a THEN -1
                                           ELSE IF b = moved THEN idx
                                           ELSE pendingIdx[b]]
    BY <1>3 DEF RemoveLastOfMany
  <2>3. pclk \in [Slots -> Time]
    BY <2>1
  <2>4. /\ nextClk' \in Time /\ nextIdx' \in -1 .. MaxPending - 1
        /\ NextIsEarliest'
    <3>1. CASE nextIdx = idx
      <4>1. UpdateNextPending(pclk, last)
        BY <1>3, <3>1 DEF RemoveLastOfMany
      <4>2. last \in 1 .. MaxPending
        BY <2>1
      <4>3. /\ nextClk' \in Time /\ nextIdx' \in 0 .. last - 1
            /\ pclk[nextIdx'] = nextClk'
            /\ \A i \in 0 .. last - 1 : nextClk' <= pclk[i]
        <5> HIDE DEF pclk, last
        <5> QED BY <4>1, <4>2, <2>3, ScanFindsEarliest
      <4> QED
        BY <4>2, <4>3, <2>1, <2>2 DEF NextIsEarliest, Time
    <3>2. CASE nextIdx = last /\ nextIdx # idx
      <4>1. nextIdx' = idx /\ nextClk' = nextClk
        BY <1>3, <3>2 DEF RemoveLastOfMany
      <4>2. QED
        BY <4>1, <3>2, <2>1, <2>2 DEF NextIsEarliest, Time
    <3>3. CASE nextIdx # idx /\ nextIdx # last
      <4>1. nextIdx' = nextIdx /\ nextClk' = nextClk
        BY <1>3, <3>3 DEF RemoveLastOfMany
      <4>2. QED
        BY <4>1, <3>3, <2>1, <2>2 DEF NextIsEarliest, Time
    <3> QED BY <3>1, <3>2, <3>3
  <2>5. TypeOK'
    BY <2>1, <2>2, <2>3, <2>4
  <2>6. IndexConsistent' /\ ~ IsPending(a)'
    <3>1. ASSUME NEW i \in 0 .. last - 1
          PROVE  \E b \in live' : pendingAlarm'[i] = b /\ pendingIdx'[b] = i
      <4>1. CASE i = idx
        <5>1. moved # a /\ moved \in live'
          BY <4>1, <2>1
        <5> QED BY <5>1, <4>1, <2>1, <2>2
      <4>2. CASE i # idx
        <5>1. PICK b \in live : pendingAlarm[i] = b /\ pendingIdx[b] = i
          BY <2>1 DEF IndexConsistent
        <5>2. b # a /\ b # moved /\ b \in live' /\ b \in Alarms
          BY <5>1, <4>2, <2>1
        <5> QED BY <5>1, <5>2, <4>2, <2>1, <2>2
      <4> QED BY <4>1, <4>2
    <3>2. ASSUME NEW b \in Alarms, pendingIdx'[b] >= 0
          PROVE  /\ b \in live' /\ pendingIdx'[b] \in 0 .. last - 1
                 /\ pendingAlarm'[pendingIdx'[b]] = b
      <4>1. b # a
        BY <3>2, <2>2
      <4>2. CASE b = moved
        BY <4>1, <4>2, <2>1, <2>2
      <4>3. CASE b # moved
        <5>1. pendingIdx'[b] = pendingIdx[b]
          BY <4>1, <4>3, <2>2
        <5>2. b \in live /\ pendingIdx[b] \in 0 .. last /\ pendingAlarm[pendingIdx[b]] = b
          BY <5>1, <3>2, <2>1 DEF IndexConsistent
        <5>3. pendingIdx[b] # last /\ pendingIdx[b] # idx
          BY <5>2, <4>1, <4>3, <2>1
        <5> QED BY <5>1, <5>2, <5>3, <4>1, <2>1, <2>2
      <4> QED BY <4>2, <4>3
    <3>3. ~ IsPending(a)'
      BY <2>2
    <3> QED BY <3>1, <3>2, <3>3, <2>2 DEF IndexConsistent
  <2> QED BY <2>4, <2>5, <2>6
<1> QED BY <1>1, <1>2, <1>3 DEF Remove

\* alarm_set, when the alarm is not pending yet.
LEMMA AddKeepsIndInv ==
  ASSUME IndInv, NEW a \in live, NEW t \in Time, pendingIdx[a] < 0, AddEntry(a, t),
         clk' = clk, live' = live, running' = running
  PROVE  IndInv'
<1> USE ConstantsAssumption DEF IndInv, TypeOK, Slots, Used, IsPending
<1>1. TypeOK'
  BY DEF AddEntry, Time
<1>2. IndexConsistent'
  <2>1. ASSUME NEW i \in 0 .. num
        PROVE  \E b \in live' : pendingAlarm'[i] = b /\ pendingIdx'[b] = i
    <3>1. CASE i = num
      BY <3>1 DEF AddEntry
    <3>2. CASE i # num
      <4>1. PICK b \in live : pendingAlarm[i] = b /\ pendingIdx[b] = i
        BY <3>2 DEF IndexConsistent
      <4> QED BY <4>1, <3>2 DEF AddEntry
    <3> QED BY <3>1, <3>2
  <2>2. ASSUME NEW b \in Alarms, pendingIdx'[b] >= 0
        PROVE  /\ b \in live' /\ pendingIdx'[b] \in 0 .. num
               /\ pendingAlarm'[pendingIdx'[b]] = b
    BY <2>2 DEF AddEntry, IndexConsistent
  <2> QED BY <2>1, <2>2 DEF IndexConsistent, AddEntry
<1>3. NextIsEarliest'
  BY DEF AddEntry, NextIsEarliest, Time
<1> QED BY <1>1, <1>2, <1>3

\* alarm_set, when the alarm is pending already.
LEMMA ModifyKeepsIndInv ==
  ASSUME IndInv, NEW a \in live, NEW t \in Time, pendingIdx[a] >= 0, ModifyEntry(a, t),
         clk' = clk, live' = live, running' = running
  PROVE  IndInv'
<1> USE ConstantsAssumption DEF IndInv, TypeOK, Slots, Used, IsPending
<1> DEFINE idx == pendingIdx[a]
           pclk == [pendingClk EXCEPT ![idx] = t]
<1>1. /\ idx \in 0 .. num - 1 /\ pclk \in [Slots -> Time] /\ num \in 1 .. MaxPending
      /\ pendingClk' = pclk /\ num' = num
  BY DEF ModifyEntry, IndexConsistent
<1>2. nextClk' \in Time /\ nextIdx' \in -1 .. MaxPending - 1 /\ NextIsEarliest'
  <2>1. CASE nextClk > t \/ idx = nextIdx
    <3>1. UpdateNextPending(pclk, num)
      BY <2>1 DEF ModifyEntry
    <3>2. /\ nextClk' \in Time /\ nextIdx' \in 0 .. num - 1
          /\ pclk[nextIdx'] = nextClk'
          /\ \A i \in 0 .. num - 1 : nextClk' <= pclk[i]
      <4> HIDE DEF pclk
      <4> QED BY <3>1, <1>1, ScanFindsEarliest
    <3> QED BY <3>2, <1>1 DEF NextIsEarliest, Time
  <2>2. CASE ~ (nextClk > t \/ idx = nextIdx)
    <3>1. nextClk' = nextClk /\ nextIdx' = nextIdx
      BY <2>2 DEF ModifyEntry
    <3> QED BY <3>1, <2>2, <1>1 DEF NextIsEarliest, Time
  <2> QED BY <2>1, <2>2
<1>3. TypeOK' /\ IndexConsistent'
  BY <1>1, <1>2 DEF ModifyEntry, IndexConsistent
<1> QED BY <1>2, <1>3

(* No call on the context (alarm_new, alarm_set, alarm_unset,              *)
(* alarm_destroy, alarm_context_dispatch), no callback's return, no opcode *)
(* and no reset breaks the inductive invariant.                            *)
LEMMA NextKeepsIndInv == IndInv /\ [Next]_vars => IndInv'
<1> SUFFICES ASSUME IndInv, [Next]_vars PROVE IndInv'
  OBVIOUS
<1> USE ConstantsAssumption DEF Slots, Used, IsPending
<1>1. ASSUME NEW a \in Alarms, alarm_new(a) PROVE IndInv'
  <2>1. pendingIdx[a] = -1 /\ pendingIdx' = pendingIdx
    BY <1>1 DEF alarm_new, IndInv, TypeOK, IndexConsistent
  <2> QED BY <1>1, <2>1 DEF alarm_new, IndInv, TypeOK, IndexConsistent, NextIsEarliest, Time
<1>2. ASSUME NEW a \in Alarms, alarm_destroy(a) PROVE IndInv'
  BY <1>2, RemoveKeepsIndInv DEF alarm_destroy
<1>3. ASSUME NEW a \in Alarms, alarm_unset(a) PROVE IndInv'
  BY <1>3, RemoveKeepsIndInv DEF alarm_unset
<1>4. ASSUME NEW a \in Alarms, NEW t \in Time, alarm_set(a, t) PROVE IndInv'
  <2>1. CASE pendingIdx[a] < 0 /\ Refuse
    BY <1>4, <2>1 DEF alarm_set, Refuse, arrayVars, IndInv, TypeOK, IndexConsistent,
                      NextIsEarliest
  <2>2. CASE pendingIdx[a] < 0 /\ AddEntry(a, t)
    BY <1>4, <2>2, AddKeepsIndInv DEF alarm_set
  <2>3. CASE ~ (pendingIdx[a] < 0)
    <3>1. pendingIdx[a] >= 0
      BY <2>3 DEF IndInv, TypeOK
    <3> QED BY <1>4, <2>3, <3>1, ModifyKeepsIndInv DEF alarm_set
  <2> QED BY <1>4, <2>1, <2>2, <2>3 DEF alarm_set
<1>5. CASE alarm_context_dispatch
  <2>1. nextIdx \in Slots
    BY <1>5 DEF alarm_context_dispatch, IndInv, TypeOK, NextIsEarliest, Time
  <2> QED BY <1>5, <2>1 DEF alarm_context_dispatch, arrayVars, IndInv, TypeOK,
                      IndexConsistent, NextIsEarliest, Time
<1>6. CASE CallbackReturn
  BY <1>6 DEF CallbackReturn, arrayVars, IndInv, TypeOK, IndexConsistent, NextIsEarliest
<1>7. ASSUME NEW n \in 1 .. MaxCycles, Execute(n) PROVE IndInv'
  BY <1>7 DEF Execute, arrayVars, IndInv, TypeOK, IndexConsistent, NextIsEarliest, Time
<1>8. CASE cpu_reset
  BY <1>8 DEF cpu_reset, arrayVars, IndInv, TypeOK, IndexConsistent, NextIsEarliest, Time
<1>9. CASE UNCHANGED vars
  BY <1>9 DEF vars, IndInv, TypeOK, IndexConsistent, NextIsEarliest
<1> QED BY <1>1, <1>2, <1>3, <1>4, <1>5, <1>6, <1>7, <1>8, <1>9 DEF Next

\* The inductive invariant holds in every behaviour.
THEOREM Invariance == Spec => []IndInv
  BY InitIndInv, NextKeepsIndInv, PTL DEF Spec

\* The types of the context's fields, among them: num_pending_alarms never
\* exceeds the array and pending_idx never leaves it.
THEOREM TypeCorrect == Spec => []TypeOK
  BY Invariance, PTL DEF IndInv

\* alarm->pending_idx and pending_alarms[] always agree.
THEOREM IndexConsistency == Spec => []IndexConsistent
  BY Invariance, PTL DEF IndInv

\* next_pending_alarm_clk is always the earliest deadline and
\* next_pending_alarm_idx an entry that has it.
THEOREM EarliestIsCached == Spec => []NextIsEarliest
  BY Invariance, PTL DEF IndInv

------------------------------------------------------------------------------
(***************************************************************************)
(* Refinement: every step of the code is a step of AlarmSpec, or leaves    *)
(* the deadlines and the clock alone.                                      *)
(***************************************************************************)

(* What an alarm's deadline is: the clock in its own entry when            *)
(* pending_idx points at one, NotPending otherwise.                        *)
LEMMA DeadlineOfPending ==
  ASSUME IndInv
  PROVE  /\ DeadlineOf \in [Alarms -> Time \cup {-1}]
         /\ \A a \in Alarms : DeadlineOf[a] # -1 <=> IsPending(a)
         /\ Abstract!Pending = {a \in Alarms : IsPending(a)}
  BY ConstantsAssumption
     DEF IndInv, TypeOK, IndexConsistent, DeadlineOf, IsPending, Used, Slots, Time,
         Abstract!Pending, Abstract!NotPending

\* The pending alarms are as many as the entries in use.
LEMMA PendingCount ==
  ASSUME IndInv
  PROVE  Cardinality(Abstract!Pending) = num
<1> USE ConstantsAssumption DEF IndInv, TypeOK, Used, Slots, IsPending
<1> DEFINE P == {a \in Alarms : IsPending(a)}
           f == [i \in 1 .. num |-> pendingAlarm[i - 1]]
<1>1. f \in Bijection(1 .. num, P)
  <2>1. ASSUME NEW i \in 1 .. num PROVE f[i] \in P /\ pendingIdx[f[i]] = i - 1
    BY DEF IndexConsistent
  <2>2. f \in Injection(1 .. num, P)
    BY <2>1 DEF Injection, IsInjective
  <2>3. ASSUME NEW a \in P PROVE \E i \in 1 .. num : f[i] = a
    <3>1. pendingIdx[a] \in 0 .. num - 1 /\ pendingAlarm[pendingIdx[a]] = a
      BY DEF IndexConsistent
    <3>2. pendingIdx[a] + 1 \in 1 .. num /\ f[pendingIdx[a] + 1] = a
      BY <3>1
    <3> QED BY <3>2
  <2> QED BY <2>1, <2>2, <2>3 DEF Bijection, Surjection
<1>2. num \in Nat
  OBVIOUS
<1>3. Cardinality(P) = num
  <2> HIDE DEF P, f, IndInv, TypeOK
  <2> QED BY <1>1, <1>2, FS_CountingElements DEF ExistsBijection
<1> QED BY <1>3, DeadlineOfPending

(* An empty pending array (alarm_context_init) means that no alarm has a   *)
(* deadline.                                                               *)
LEMMA InitRefines == Init => Abstract!Init
  BY ConstantsAssumption
     DEF Init, Abstract!Init, DeadlineOf, IsPending, Abstract!NotPending

\* alarm_unset clears the deadline of its alarm and no other, although it
\* moves another entry.
LEMMA RemoveRefines ==
  ASSUME IndInv, NEW a \in live, Remove(a)
  PROVE  DeadlineOf' = [DeadlineOf EXCEPT ![a] = -1]
<1> USE ConstantsAssumption DEF IndInv, TypeOK, Slots, Used, IsPending
<1>1. CASE pendingIdx[a] < 0
  BY <1>1 DEF Remove, arrayVars, DeadlineOf
<1>2. CASE pendingIdx[a] >= 0 /\ RemoveOnly(a)
  <2>1. \A b \in Alarms : b # a => pendingIdx[b] = -1
    BY <1>2 DEF RemoveOnly, IndexConsistent
  <2>2. pendingIdx' = [pendingIdx EXCEPT ![a] = -1] /\ a \in Alarms
    BY <1>2 DEF RemoveOnly
  <2>3. \A b \in Alarms : pendingIdx'[b] = -1
    BY <2>1, <2>2
  <2>4. ASSUME NEW b \in Alarms
        PROVE  DeadlineOf'[b] = -1 /\ (b # a => DeadlineOf[b] = -1)
    BY <2>1, <2>3 DEF DeadlineOf
  <2> QED BY <2>2, <2>4 DEF DeadlineOf
<1>3. CASE pendingIdx[a] >= 0 /\ RemoveLastOfMany(a)
  <2> DEFINE idx == pendingIdx[a]
             last == num - 1
             moved == pendingAlarm[last]
  <2>1. /\ idx \in 0 .. last /\ last \in Slots /\ pendingAlarm[idx] = a
        /\ moved \in Alarms /\ pendingIdx[moved] = last
    <3>1. num > 1 /\ last \in 0 .. num - 1
      BY <1>3 DEF RemoveLastOfMany
    <3>2. a \in Alarms /\ idx \in 0 .. last /\ pendingAlarm[idx] = a
      BY <1>3 DEF IndexConsistent
    <3>3. PICK b \in live : pendingAlarm[last] = b /\ pendingIdx[b] = last
      BY <3>1 DEF IndexConsistent
    <3> QED BY <3>1, <3>2, <3>3
  <2>2. /\ pendingClk' = [pendingClk EXCEPT ![idx] = pendingClk[last]]
        /\ pendingIdx' = [b \in Alarms |-> IF b = a THEN -1
                                           ELSE IF b = moved THEN idx
                                           ELSE pendingIdx[b]]
    BY <1>3 DEF RemoveLastOfMany
  <2>3. ASSUME NEW b \in Alarms
        PROVE  DeadlineOf'[b] = IF b = a THEN -1 ELSE DeadlineOf[b]
    <3>1. CASE b = a
      BY <3>1, <2>2 DEF DeadlineOf
    <3>2. CASE b # a /\ b = moved
      BY <3>2, <2>1, <2>2 DEF DeadlineOf
    <3>3. CASE b # a /\ b # moved
      <4>1. pendingIdx'[b] = pendingIdx[b]
        BY <3>3, <2>2
      <4>2. pendingIdx[b] >= 0 => pendingIdx[b] # idx /\ pendingIdx[b] \in Slots
        BY <3>3, <2>1 DEF IndexConsistent
      <4> QED BY <3>3, <4>1, <4>2, <2>1, <2>2 DEF DeadlineOf
    <3> QED BY <3>1, <3>2, <3>3
  <2> QED BY <2>3 DEF DeadlineOf
<1> QED BY <1>1, <1>2, <1>3 DEF Remove

(* alarm_set, whether it refuses, adds an entry or modifies one, sets the  *)
(* deadline of its alarm and of no other, unless the array is full.        *)
LEMMA SetRefines ==
  ASSUME IndInv, NEW a \in Alarms, NEW t \in Time, alarm_set(a, t)
  PROVE  Abstract!Set(a, t)
<1> USE ConstantsAssumption DEF IndInv, TypeOK, Slots, Used, IsPending
<1>1. CASE pendingIdx[a] < 0 /\ Refuse
  <2>1. num = MaxPending /\ DeadlineOf' = DeadlineOf
    BY <1>1 DEF Refuse, arrayVars, DeadlineOf
  <2>2. a \notin Abstract!Pending
    BY <1>1, DeadlineOfPending
  <2>3. Cardinality(Abstract!Pending) = MaxPending
    BY <2>1, PendingCount
  <2>4. a \in live /\ UNCHANGED <<clk, live, running>>
    BY DEF alarm_set
  <2> HIDE DEF IndInv, TypeOK, Slots, Used, IsPending
  <2>5. UNCHANGED DeadlineOf
    BY <2>1
  <2> HIDE DEF Refuse, DeadlineOf
  <2> QED BY <2>2, <2>3, <2>4, <2>5 DEF Abstract!Set, Abstract!Cardinality, Cardinality
<1>2. CASE pendingIdx[a] < 0 /\ AddEntry(a, t)
  <2>1. \A b \in Alarms : pendingIdx[b] >= 0 => pendingIdx[b] \in 0 .. num - 1
    BY DEF IndexConsistent
  <2>2. ASSUME NEW b \in Alarms
        PROVE  DeadlineOf'[b] = IF b = a THEN t ELSE DeadlineOf[b]
    BY <1>2, <2>1 DEF AddEntry, DeadlineOf
  <2>3. DeadlineOf' = [DeadlineOf EXCEPT ![a] = t]
    BY <2>2 DEF DeadlineOf
  <2> QED BY <2>3 DEF alarm_set, Abstract!Set
<1>3. CASE ~ (pendingIdx[a] < 0)
  <2>1. pendingIdx[a] >= 0 /\ ModifyEntry(a, t)
    BY <1>3 DEF alarm_set
  <2>2. ASSUME NEW b \in Alarms
        PROVE  DeadlineOf'[b] = IF b = a THEN t ELSE DeadlineOf[b]
    <3>1. b # a /\ pendingIdx[b] >= 0 => pendingIdx[b] # pendingIdx[a]
      BY <2>1 DEF IndexConsistent
    <3> QED BY <2>1, <3>1 DEF ModifyEntry, DeadlineOf
  <2>3. DeadlineOf' = [DeadlineOf EXCEPT ![a] = t]
    BY <2>2 DEF DeadlineOf
  <2> QED BY <2>3 DEF alarm_set, Abstract!Set
<1> QED BY <1>1, <1>2, <1>3 DEF alarm_set

\* While the clock is before next_pending_alarm_clk no alarm is due.
LEMMA ProcessedNothingDue ==
  ASSUME IndInv, clk < nextClk
  PROVE  Abstract!NothingDue
<1> USE ConstantsAssumption DEF IndInv, TypeOK, Slots, Used, IsPending
<1> SUFFICES ASSUME NEW a \in Alarms, IsPending(a) PROVE DeadlineOf[a] > clk
  BY DeadlineOfPending DEF Abstract!NothingDue
<1>1. pendingIdx[a] \in 0 .. num - 1
  BY DEF IndexConsistent
<1> QED BY <1>1 DEF NextIsEarliest, DeadlineOf, Time

\* alarm_context_dispatch calls an earliest due alarm.
LEMMA DispatchRefines ==
  ASSUME IndInv, alarm_context_dispatch
  PROVE  \E a \in Alarms : Abstract!Dispatch(a)
<1> USE ConstantsAssumption DEF IndInv, TypeOK, Slots, Used, IsPending
<1>1. nextIdx \in 0 .. num - 1 /\ pendingClk[nextIdx] = nextClk
  BY DEF alarm_context_dispatch, NextIsEarliest, Time
<1>2. PICK a \in live : pendingAlarm[nextIdx] = a /\ pendingIdx[a] = nextIdx
  BY <1>1 DEF IndexConsistent
<1>3. a \in Alarms /\ IsPending(a) /\ DeadlineOf[a] = nextClk
  BY <1>1, <1>2 DEF DeadlineOf
<1>4. \A b \in Alarms : IsPending(b) => DeadlineOf[a] <= DeadlineOf[b]
  BY <1>3 DEF DeadlineOf, IndexConsistent, NextIsEarliest
<1>5. DeadlineOf' = DeadlineOf
  BY DEF alarm_context_dispatch, arrayVars, DeadlineOf
<1>6. Abstract!Dispatch(a)
  BY <1>2, <1>3, <1>4, <1>5, DeadlineOfPending
     DEF alarm_context_dispatch, Abstract!Dispatch
<1> QED BY <1>3, <1>6

(* Every step of the array implementation in alarm.c and alarm.h is a step *)
(* of the abstract alarms or leaves them alone.                            *)
LEMMA StepRefines == IndInv /\ [Next]_vars => [Abstract!Next]_(Abstract!vars)
<1> SUFFICES ASSUME IndInv, [Next]_vars PROVE [Abstract!Next]_(Abstract!vars)
  OBVIOUS
<1>1. ASSUME NEW a \in Alarms, alarm_new(a) PROVE Abstract!New(a)
  <2>1. pendingIdx' = pendingIdx
    BY <1>1 DEF alarm_new, IndInv, TypeOK, IndexConsistent, IsPending
  <2> QED BY <1>1, <2>1 DEF alarm_new, Abstract!New, DeadlineOf, IsPending
<1>2. ASSUME NEW a \in Alarms, alarm_destroy(a) PROVE Abstract!Destroy(a)
  BY <1>2, RemoveRefines DEF alarm_destroy, Abstract!Destroy, Abstract!NotPending
<1>3. ASSUME NEW a \in Alarms, alarm_unset(a) PROVE Abstract!Unset(a)
  BY <1>3, RemoveRefines DEF alarm_unset, Abstract!Unset, Abstract!NotPending
<1>4. ASSUME NEW a \in Alarms, NEW t \in Time, alarm_set(a, t) PROVE Abstract!Set(a, t)
  BY <1>4, SetRefines
<1>5. ASSUME alarm_context_dispatch PROVE \E a \in Alarms : Abstract!Dispatch(a)
  BY <1>5, DispatchRefines
<1>6. ASSUME CallbackReturn PROVE Abstract!Return
  BY <1>6 DEF CallbackReturn, arrayVars, Abstract!Return, DeadlineOf, IsPending
<1>7. ASSUME NEW n \in 1 .. MaxCycles, Execute(n) PROVE Abstract!Execute(n)
  BY <1>7, ProcessedNothingDue
     DEF Execute, arrayVars, Abstract!Execute, DeadlineOf, IsPending
<1>8. ASSUME cpu_reset PROVE Abstract!Reset
  BY <1>8
     DEF cpu_reset, arrayVars, Abstract!Reset, DeadlineOf, IsPending
<1>9. ASSUME UNCHANGED vars PROVE UNCHANGED Abstract!vars
  BY <1>9 DEF vars, Abstract!vars, DeadlineOf, IsPending
<1> QED BY <1>1, <1>2, <1>3, <1>4, <1>5, <1>6, <1>7, <1>8, <1>9
           DEF Next, Abstract!Next, Time, Abstract!Time

\* alarm.c and alarm.h implement AlarmSpec: no instruction starts while an
\* alarm is due, and the callbacks are called earliest deadline first, also
\* after resets that came while alarms were due.
THEOREM Refinement == Spec => ImplementsAlarmSpec
<1>1. Spec => []IndInv
  BY Invariance
<1> QED BY <1>1, InitRefines, StepRefines, PTL DEF Spec, ImplementsAlarmSpec, Abstract!Spec

\* The clock moves forward only when every pending deadline lies ahead, except
\* by a reset.
THEOREM NoOverrun == Spec => NoAlarmOverrun
<1>1. IndInv /\ [Next]_vars
        => [clk' > clk /\ ~cpu_reset => \A a \in Alarms :
              IsPending(a) => pendingClk[pendingIdx[a]] > clk]_vars
  <2> SUFFICES ASSUME IndInv, Next, clk' > clk, ~cpu_reset, NEW a \in Alarms, IsPending(a)
               PROVE  pendingClk[pendingIdx[a]] > clk
    OBVIOUS
  <2>1. clk \in Int
    BY ConstantsAssumption DEF IndInv, TypeOK
  <2>2. clk' # clk
    BY <2>1
  <2>3. clk < nextClk
    BY <2>2 DEF Next, alarm_new, alarm_destroy, alarm_unset, alarm_set,
                alarm_context_dispatch, CallbackReturn, Execute
  <2>4. pendingIdx[a] \in Used
    BY DEF IndInv, IndexConsistent
  <2> QED
    BY <2>1, <2>3, <2>4, ConstantsAssumption
       DEF IndInv, TypeOK, NextIsEarliest, Used, Slots, Time
<1> QED BY <1>1, Invariance, PTL DEF Spec, NoAlarmOverrun
==============================================================================
