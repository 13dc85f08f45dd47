---------------------------- MODULE KbdBufProofs ----------------------------
(***************************************************************************)
(* Proofs about module KbdBuf: whatever the sizes of the ring and of the   *)
(* Kernal's buffer, and however often the machine is reset, the characters *)
(* that were fed are read once and in order.                               *)
(***************************************************************************)
EXTENDS KbdBuf, SequenceTheorems, FiniteSetTheorems, WellFoundedInduction, TLAPS

\* The kth character of a ring.
At(ring, head, k) == ring[(head + k - 1) % QUEUE_SIZE]

\* How many of the first n keys of buffer s were fed.
FedIn(s, n) == Cardinality({k \in 1 .. n : s[k] # Typed})

Types ==
  /\ queue \in [0 .. QUEUE_SIZE - 1 -> Nat]
  /\ head_idx \in 0 .. QUEUE_SIZE - 1 /\ num_pending \in 0 .. QUEUE_SIZE
  /\ alarm_in \in Int /\ alarm_in >= NoAlarm
  /\ clk \in Nat /\ clk <= MaxClk
  /\ kernal \in Seq(Nat) /\ fed \in Seq(Nat) /\ read \in Seq(Nat)

\* The ring holds the latest characters of f, none of them a typed key.
RingOk(ring, head, num, f) ==
  /\ num <= Len(f)
  /\ \A k \in 1 .. num : /\ At(ring, head, k) # Typed
                         /\ At(ring, head, k) = f[Len(f) - num + k]

\* The alarm is set for the RETURN at the head of the ring.  Its time is after
\* the start of the Kernal, also if the clock was set back.
AlarmOk(ring, head, num) ==
  alarm_in # NoAlarm =>
    /\ num > 0 /\ At(ring, head, 1) = CR
    /\ clk + alarm_in >= BootCycles

\* There is room for the delayed RETURN unless the user has typed.
RoomInv ==
  \/ mixed
  \/ Len(kernal) <= buffer_size /\ (alarm_in # NoAlarm => Len(kernal) < buffer_size)

\* What was read, and what is in the Kernal's buffer once the Kernal is ready,
\* are the characters of f before those of the ring.
Delivered(num, f) ==
  /\ Len(read) <= Len(f) /\ \A k \in 1 .. Len(read) : read[k] = f[k]
  /\ ~Ready => Len(f) = Len(read) + num
  /\ Ready => /\ Len(f) = Len(read) + FedIn(kernal, Len(kernal)) + num
              /\ \A k \in 1 .. Len(kernal) :
                   kernal[k] # Typed => kernal[k] = f[Len(read) + FedIn(kernal, k)]

KbdInv ==
  /\ Types /\ RoomInv
  /\ RingOk(queue, head_idx, num_pending, fed)
  /\ AlarmOk(queue, head_idx, num_pending)
  /\ Delivered(num_pending, fed)

-----------------------------------------------------------------------------
(* Counting. *)

\* The count is a number, and zero for no keys.
LEMMA FedInNat ==
  ASSUME NEW s, NEW n \in Nat
  PROVE  /\ IsFiniteSet({k \in 1 .. n : s[k] # Typed})
         /\ FedIn(s, n) \in Nat /\ FedIn(s, 0) = 0
<1>1. {k \in 1 .. n : s[k] # Typed} \in SUBSET (1 .. n) /\ IsFiniteSet(1 .. n)
  BY FS_Interval
<1>2. IsFiniteSet({k \in 1 .. n : s[k] # Typed})
  BY <1>1, FS_Subset
<1>3. {k \in 1 .. 0 : s[k] # Typed} = {}
  OBVIOUS
<1> QED BY <1>2, <1>3, FS_CardinalityType, FS_EmptySet DEF FedIn

\* The next key counts if it was fed.
LEMMA FedInNext ==
  ASSUME NEW s, NEW n \in Nat
  PROVE  FedIn(s, n + 1) = FedIn(s, n) + (IF s[n + 1] # Typed THEN 1 ELSE 0)
<1> DEFINE S == {k \in 1 .. n : s[k] # Typed}
<1>1. IsFiniteSet(S) /\ FedIn(s, n) = Cardinality(S) /\ Cardinality(S) \in Nat
  BY FedInNat DEF FedIn
<1>2. n + 1 \notin S
  OBVIOUS
<1>3. CASE s[n + 1] # Typed
  <2>1. {k \in 1 .. n + 1 : s[k] # Typed} = S \cup {n + 1}
    BY <1>3
  <2> QED BY <1>1, <1>2, <1>3, <2>1, FS_AddElement DEF FedIn
<1>4. CASE s[n + 1] = Typed
  <2>1. {k \in 1 .. n + 1 : s[k] # Typed} = S
    BY <1>4
  <2> QED BY <1>1, <1>4, <2>1 DEF FedIn
<1> QED BY <1>3, <1>4

\* Only the first n keys matter.
LEMMA FedInSame ==
  ASSUME NEW s, NEW t, NEW n \in Nat, \A k \in 1 .. n : s[k] = t[k]
  PROVE  FedIn(s, n) = FedIn(t, n)
<1>1. {k \in 1 .. n : s[k] # Typed} = {k \in 1 .. n : t[k] # Typed}
  OBVIOUS
<1> QED BY <1>1 DEF FedIn

\* If all were fed, all count.
LEMMA FedInAll ==
  ASSUME NEW s, NEW n \in Nat, \A k \in 1 .. n : s[k] # Typed
  PROVE  FedIn(s, n) = n
<1>1. {k \in 1 .. n : s[k] # Typed} = 1 .. n
  OBVIOUS
<1>2. Cardinality(1 .. n) = n
  BY FS_Interval
<1> QED BY <1>1, <1>2 DEF FedIn

\* When the first key is taken away, it is no longer counted.
LEMMA FedInTail ==
  ASSUME NEW s \in Seq(Nat), s # <<>>, NEW n \in 0 .. Len(s) - 1
  PROVE  FedIn(s, n + 1) = FedIn(Tail(s), n) + (IF Head(s) # Typed THEN 1 ELSE 0)
<1> DEFINE S == {k \in 1 .. n : Tail(s)[k] # Typed}
           T == {k \in 2 .. n + 1 : s[k] # Typed}
           f == [k \in S |-> k + 1]
<1>0. Len(s) \in Nat /\ Len(Tail(s)) = Len(s) - 1 /\ Head(s) = s[1] /\ n \in Nat
  OBVIOUS
<1>1. \A k \in 1 .. n : Tail(s)[k] = s[k + 1]
  BY <1>0, HeadTailProperties
<1>2. IsFiniteSet(S) /\ FedIn(Tail(s), n) = Cardinality(S) /\ Cardinality(S) \in Nat
  BY <1>0, FedInNat DEF FedIn
<1>3. f \in Bijection(S, T)
  <2>1. \A k \in S : k + 1 \in T
    BY <1>0, <1>1
  <2>2. \A m \in T : m - 1 \in S /\ (m - 1) + 1 = m
    <3> TAKE m \in T
    <3>1. m - 1 \in 1 .. n /\ (m - 1) + 1 = m
      BY <1>0
    <3> QED BY <1>1, <3>1
  <2>3. f \in [S -> T] /\ \A k \in S : f[k] = k + 1
    BY <2>1
  <2> HIDE DEF f
  <2>4. \A a, b \in S : f[a] = f[b] => a = b
    BY <1>0, <2>3, SMTT(30)
  <2>5. \A m \in T : \E k \in S : f[k] = m
    BY <2>2, <2>3
  <2> HIDE DEF S, T
  <2>6. f \in Injection(S, T)
    BY <2>3, <2>4 DEF Injection, IsInjective
  <2>7. f \in Surjection(S, T)
    BY <2>3, <2>5 DEF Surjection
  <2> QED BY <2>6, <2>7 DEF Bijection
<1>4. ExistsBijection(S, T)
  BY <1>3 DEF ExistsBijection
<1>5. IsFiniteSet(T) /\ Cardinality(T) = Cardinality(S)
  BY <1>2, <1>4, FS_Bijection
<1>6. 1 \notin T
  BY <1>0
<1>7. CASE s[1] # Typed
  <2>1. {k \in 1 .. n + 1 : s[k] # Typed} = T \cup {1}
    BY <1>0, <1>7
  <2> QED BY <1>0, <1>2, <1>5, <1>6, <1>7, <2>1, FS_AddElement DEF FedIn
<1>8. CASE s[1] = Typed
  <2>1. \A k \in 1 .. n + 1 : k = 1 \/ k \in 2 .. n + 1
    BY <1>0
  <2>2. {k \in 1 .. n + 1 : s[k] # Typed} = T
    BY <1>0, <1>8, <2>1
  <2>3. FedIn(s, n + 1) = Cardinality(S)
    BY <1>5, <2>2 DEF FedIn
  <2> HIDE DEF S, T
  <2> QED BY <1>0, <1>2, <1>8, <2>3
<1> QED BY <1>7, <1>8

-----------------------------------------------------------------------------
(* The ring. *)

\* A place of the ring, k characters after place a.
LEMMA RingPlace ==
  ASSUME NEW n \in Nat \ {0}, NEW a \in 0 .. n - 1, NEW k \in 0 .. n
  PROVE  /\ (a + k) % n = IF a + k < n THEN a + k ELSE a + k - n
         /\ (a + k) % n \in 0 .. n - 1
BY SMT

\* A difference of places, reduced to the ring.
LEMMA RingBack ==
  ASSUME NEW n \in Nat \ {0}, NEW r \in 0 .. n - 1
  PROVE  r % n = r /\ (r - n) % n = r /\ (r - n - n) % n = r
<1>1. r % n = r
  BY SMT
<1>2. (r - n) % n = r
  BY SMT
<1>3. (r - n - n) % n = r
  BY SMT
<1> QED BY <1>1, <1>2, <1>3

\* The constants are numbers.
LEMMA Sizes ==
  /\ QUEUE_SIZE \in Nat \ {0} /\ buffer_size \in Nat /\ buffer_size > 0
  /\ kernal_init_cycles \in Nat /\ BootCycles \in Nat /\ ResetCycles \in Nat
  /\ Frame \in Nat /\ MaxClk \in Nat
  /\ ResetCycles < BootCycles /\ BootCycles <= kernal_init_cycles
  /\ kernal_init_cycles < MaxClk
BY KbdBufConstants

\* The places of a ring.
LEMMA Places ==
  ASSUME NEW head \in 0 .. QUEUE_SIZE - 1, NEW k \in 1 .. QUEUE_SIZE
  PROVE  /\ (head + k - 1) % QUEUE_SIZE \in 0 .. QUEUE_SIZE - 1
         /\ (head + k - 1) % QUEUE_SIZE = IF head + k - 1 < QUEUE_SIZE THEN head + k - 1
                                          ELSE head + k - 1 - QUEUE_SIZE
<1>1. k - 1 \in 0 .. QUEUE_SIZE /\ head + (k - 1) = head + k - 1
  BY Sizes
<1> QED BY <1>1, Sizes, RingPlace

\* removefromqueue: the ring without its first n characters.
LEMMA RingShift ==
  ASSUME NEW ring, NEW head \in 0 .. QUEUE_SIZE - 1, NEW n \in 0 .. QUEUE_SIZE
  PROVE  /\ (head + n) % QUEUE_SIZE \in 0 .. QUEUE_SIZE - 1
         /\ \A k \in 1 .. QUEUE_SIZE - n :
              At(ring, (head + n) % QUEUE_SIZE, k) = At(ring, head, n + k)
<1> DEFINE Q == QUEUE_SIZE
           h == (head + n) % Q
<1>1. Q \in Nat \ {0}
  BY Sizes
<1>2. h \in 0 .. Q - 1 /\ h = IF head + n < Q THEN head + n ELSE head + n - Q
  BY <1>1, RingPlace
<1> HIDE DEF h, Q
<1>3. ASSUME NEW k \in 1 .. Q - n
      PROVE  (h + k - 1) % Q = (head + (n + k) - 1) % Q
  <2>1. k \in 1 .. Q /\ n + k \in 1 .. Q
    BY <1>1
  <2>2. (h + k - 1) % Q = IF h + k - 1 < Q THEN h + k - 1 ELSE h + k - 1 - Q
    BY <1>2, <2>1, Places DEF Q
  <2>3. (head + (n + k) - 1) % Q = IF head + (n + k) - 1 < Q THEN head + (n + k) - 1
                                   ELSE head + (n + k) - 1 - Q
    BY <2>1, Places DEF Q
  <2> QED BY <1>1, <1>2, <2>1, <2>2, <2>3
<1> QED BY <1>2, <1>3 DEF At, h, Q

\* The ring after string_to_queue.
Filled(ring, head, num, string) ==
  [p \in 0 .. QUEUE_SIZE - 1 |->
     IF 1 + ((p - head - num) % QUEUE_SIZE) <= Len(string)
     THEN string[1 + ((p - head - num) % QUEUE_SIZE)] ELSE ring[p]]

\* string_to_queue: the string follows what is in the ring, which is not
\* written over.
LEMMA RingFilled ==
  ASSUME NEW ring \in [0 .. QUEUE_SIZE - 1 -> Nat], NEW head \in 0 .. QUEUE_SIZE - 1,
         NEW num \in 0 .. QUEUE_SIZE, NEW string \in Seq(Nat),
         num + Len(string) <= QUEUE_SIZE
  PROVE  LET new == Filled(ring, head, num, string)
         IN  /\ new \in [0 .. QUEUE_SIZE - 1 -> Nat]
             /\ \A k \in 1 .. num : At(new, head, k) = At(ring, head, k)
             /\ \A k \in 1 .. Len(string) : At(new, head, num + k) = string[k]
<1> DEFINE Q == QUEUE_SIZE
           new == Filled(ring, head, num, string)
           back(p) == (p - head - num) % Q
<1>1. Q \in Nat \ {0} /\ Len(string) \in Nat
  BY Sizes
<1> HIDE DEF Q
<1>2. ASSUME NEW k \in 1 .. Q, NEW p \in 0 .. Q - 1, p = (head + k - 1) % Q
      PROVE  back(p) = IF k > num THEN k - 1 - num ELSE k - 1 - num + Q
  <2>1. p = IF head + k - 1 < Q THEN head + k - 1 ELSE head + k - 1 - Q
    BY <1>2, Places DEF Q
  <2>2. p - head - num = IF head + k - 1 < Q THEN k - 1 - num ELSE k - 1 - num - Q
    BY <1>1, <2>1 DEF Q
  <2>3. CASE k > num
    <3>1. k - 1 - num \in 0 .. Q - 1
      BY <1>1, <2>3 DEF Q
    <3>2. (k - 1 - num) % Q = k - 1 - num /\ ((k - 1 - num) - Q) % Q = k - 1 - num
      BY <1>1, <3>1, RingBack
    <3> QED BY <2>2, <2>3, <3>2
  <2>4. CASE ~(k > num)
    <3>1. k - 1 - num + Q \in 0 .. Q - 1
      BY <1>1, <2>4 DEF Q
    <3>2. /\ ((k - 1 - num + Q) - Q) % Q = k - 1 - num + Q
          /\ ((k - 1 - num + Q) - Q - Q) % Q = k - 1 - num + Q
      BY <1>1, <3>1, RingBack
    <3>3. /\ (k - 1 - num + Q) - Q = k - 1 - num
          /\ (k - 1 - num + Q) - Q - Q = k - 1 - num - Q
      BY <1>1 DEF Q
    <3> QED BY <2>2, <2>4, <3>2, <3>3
  <2> QED BY <2>3, <2>4
<1>3. \A p \in 0 .. Q - 1 : back(p) \in Nat
  <2> TAKE p \in 0 .. Q - 1
  <2>1. p - head - num \in Int
    BY <1>1 DEF Q
  <2> QED BY <1>1, <2>1
<1> HIDE DEF back
<1>4. /\ DOMAIN new = 0 .. Q - 1
      /\ \A p \in 0 .. Q - 1 :
           new[p] = IF 1 + back(p) <= Len(string) THEN string[1 + back(p)] ELSE ring[p]
  BY DEF Q, back, Filled
<1>5. \A p \in 0 .. Q - 1 : new[p] \in Nat
  <2> TAKE p \in 0 .. Q - 1
  <2>1. ring[p] \in Nat
    BY DEF Q
  <2>2. 1 + back(p) <= Len(string) => string[1 + back(p)] \in Nat
    BY <1>1, <1>3
  <2> QED BY <1>4, <2>1, <2>2
<1>6. new \in [0 .. Q - 1 -> Nat]
  <2>1. new = [p \in 0 .. Q - 1 |-> new[p]]
    BY DEF Filled, Q
  <2> HIDE DEF new
  <2> QED BY <1>5, <2>1
<1> HIDE DEF new
<1>7. ASSUME NEW k \in 1 .. num
      PROVE  At(new, head, k) = At(ring, head, k)
  <2>1. k \in 1 .. Q
    BY <1>1 DEF Q
  <2>2. (head + k - 1) % Q \in 0 .. Q - 1
    BY <2>1, Places DEF Q
  <2>3. back((head + k - 1) % Q) = k - 1 - num + Q
    <3>1. ~(k > num)
      OBVIOUS
    <3> QED BY <1>2, <2>1, <2>2, <3>1
  <2>4. ~(1 + (k - 1 - num + Q) <= Len(string))
    BY <1>1 DEF Q
  <2> QED BY <1>4, <2>2, <2>3, <2>4 DEF At, Q
<1>8. ASSUME NEW k \in 1 .. Len(string)
      PROVE  At(new, head, num + k) = string[k]
  <2>1. num + k \in 1 .. Q /\ num + k > num /\ num + k - 1 - num = k - 1
    BY <1>1 DEF Q
  <2>2. (head + (num + k) - 1) % Q \in 0 .. Q - 1
    BY <2>1, Places DEF Q
  <2>3. back((head + (num + k) - 1) % Q) = k - 1
    BY <1>2, <2>1, <2>2
  <2>4. 1 + (k - 1) = k /\ k <= Len(string)
    BY <1>1
  <2> QED BY <1>4, <2>2, <2>3, <2>4 DEF At, Q
<1> QED BY <1>6, <1>7, <1>8 DEF Q, new

-----------------------------------------------------------------------------
(* kbdbuf_flush. *)

\* The natural numbers are well-founded, so that a set of them has a least one.
LEMMA LeastNumber ==
  ASSUME NEW T \in SUBSET Nat, T # {}
  PROVE  \E x \in T : \A y \in T : x <= y
<1> DEFINE R == {ss \in Nat \X Nat : ss[1] < ss[2]}
<1>1. IsWellFoundedOn(R, Nat)
  BY NatLessThanWellFounded DEF OpToRel
<1>2. \A x, y \in Nat : x < y => <<x, y>> \in R
  OBVIOUS
<1> HIDE DEF R
<1>3. PICK x \in T : \A y \in T : ~ (<<y, x>> \in R)
  BY <1>1, WFMin
<1>4. \A y \in T : ~ (y < x)
  BY <1>2, <1>3
<1>5. \A y \in T : x <= y
  BY <1>4
<1> QED BY <1>5

\* What was in order for the ring before the flush is in order after it.
LEMMA FlushKeeps ==
  ASSUME Types, RoomInv,
         NEW ring \in [0 .. QUEUE_SIZE - 1 -> Nat], NEW num \in 0 .. QUEUE_SIZE,
         NEW f \in Seq(Nat), NEW delayed,
         RingOk(ring, head_idx, num, f), AlarmOk(ring, head_idx, num), Delivered(num, f),
         kbdbuf_flush(ring, head_idx, num, delayed),
         queue' = ring, fed' = f, UNCHANGED <<clk, read, mixed>>
  PROVE  KbdInv'
<1>1. CASE ~Flushes(num, kernal)
  <2>1. head_idx' = head_idx /\ num_pending' = num /\ kernal' = kernal /\ alarm_in' = alarm_in
    BY <1>1 DEF kbdbuf_flush
  <2>2. Types'
    BY <2>1 DEF Types
  <2>3. RoomInv'
    BY <2>1 DEF RoomInv
  <2>4. RingOk(queue, head_idx, num_pending, fed)'
    BY <2>1 DEF RingOk, At
  <2>5. AlarmOk(queue, head_idx, num_pending)'
    BY <2>1 DEF AlarmOk, At
  <2>6. Delivered(num_pending, fed)'
    BY <2>1 DEF Delivered, Ready
  <2> QED BY <2>2, <2>3, <2>4, <2>5, <2>6 DEF KbdInv
<1>2. CASE Flushes(num, kernal)
  <2> DEFINE pending == Pending(ring, head_idx, num)
             n == IF num > buffer_size THEN buffer_size ELSE num
             stops == {k \in 1 .. n : delayed /\ pending[k] = CR}
             count == IF stops = {} THEN n
                      ELSE (CHOOSE k \in stops : \A j \in stops : k <= j) - 1
             chosen == SubSeq(pending, 1, count)
  <2>1. /\ kernal = <<>> /\ alarm_in = NoAlarm /\ clk >= kernal_init_cycles
        /\ Ready
    BY <1>2, Sizes DEF Flushes, Ready, Types
  <2>2. /\ kernal' = kernal \o chosen
        /\ head_idx' = (head_idx + count) % QUEUE_SIZE
        /\ num_pending' = num - count
        /\ IF stops = {} THEN alarm_in' = alarm_in
           ELSE \E random \in 1 .. Frame : alarm_in' = Frame + random
    BY <1>2 DEF kbdbuf_flush
  <2>3. /\ n \in Nat /\ n <= num /\ n <= buffer_size
        /\ head_idx \in 0 .. QUEUE_SIZE - 1 /\ num \in Nat /\ num <= QUEUE_SIZE
        /\ QUEUE_SIZE \in Nat
    BY Sizes DEF Types
  <2>4. /\ count \in 0 .. n
        /\ stops # {} => count < n /\ pending[count + 1] = CR
    <3> DEFINE first == CHOOSE k \in stops : \A j \in stops : k <= j
    <3>1. \A k \in stops : k \in 1 .. n /\ pending[k] = CR
      OBVIOUS
    <3>2. n \in Nat
      BY <2>3
    <3>3. CASE stops = {}
      BY <3>2, <3>3
    <3>4. CASE stops # {}
      <4>1. count = first - 1
        BY <3>4
      <4> HIDE DEF count, n, pending, stops
      <4>2. stops \in SUBSET Nat
        BY <3>1, <3>2
      <4>3. \E k \in stops : \A j \in stops : k <= j
        BY <3>4, <4>2, LeastNumber
      <4>4. first \in stops
        BY <4>3
      <4> HIDE DEF first
      <4>5. first \in 1 .. n /\ pending[first] = CR
        BY <3>1, <4>4
      <4>6. count + 1 = first /\ count \in 0 .. n /\ count < n
        BY <3>2, <4>1, <4>5
      <4> QED BY <4>5, <4>6
    <3> QED BY <3>3, <3>4
  <2> HIDE DEF count, stops, n
  <2>5. /\ pending \in Seq(Nat) /\ Len(pending) = num
        /\ \A k \in 1 .. num : pending[k] = At(ring, head_idx, k)
    <3>1. \A k \in 1 .. num : (head_idx + k - 1) % QUEUE_SIZE \in 0 .. QUEUE_SIZE - 1
      BY <2>3, Places
    <3>2. \A k \in 1 .. num : ring[(head_idx + k - 1) % QUEUE_SIZE] \in Nat
      BY <3>1
    <3>3. pending \in [1 .. num -> Nat]
      BY <3>2 DEF Pending
    <3>4. pending \in Seq(Nat) /\ Len(pending) = num
      BY <2>3, <3>3
    <3> QED BY <3>4 DEF Pending, At
  <2> HIDE DEF pending
  <2>6. /\ chosen \in Seq(Nat) /\ Len(chosen) = count
        /\ \A k \in 1 .. count : chosen[k] = pending[k]
    <3>1. CASE count = 0
      <4>1. chosen = <<>>
        BY <2>5, <3>1
      <4> QED BY <3>1, <4>1
    <3>2. CASE count # 0
      <4>1. 1 \in 1 .. Len(pending) + 1 /\ count \in 0 .. Len(pending) /\ 1 <= count
        BY <2>3, <2>4, <2>5, <3>2
      <4>2. count \in 1 .. Len(pending)
        BY <2>3, <2>4, <2>5, <3>2
      <4> QED BY <2>5, <4>1, <4>2
    <3> QED BY <3>1, <3>2
  <2> HIDE DEF chosen
  <2>7. kernal' = chosen
    BY <2>1, <2>2, <2>6
  <2>8. /\ kernal' \in Seq(Nat) /\ Len(kernal') = count /\ count \in Nat /\ count <= num
        /\ count <= n
        /\ \A k \in 1 .. count : kernal'[k] = At(ring, head_idx, k)
    BY <2>3, <2>4, <2>5, <2>6, <2>7
  <2>9. /\ head_idx' \in 0 .. QUEUE_SIZE - 1
        /\ num_pending' \in 0 .. QUEUE_SIZE /\ num_pending' \in Nat
        /\ \A k \in 1 .. num_pending' : At(ring, head_idx', k) = At(ring, head_idx, count + k)
    <3>1. /\ count \in 0 .. QUEUE_SIZE
          /\ \A k \in 1 .. num - count : k \in 1 .. QUEUE_SIZE - count
      BY <2>3, <2>8
    <3>2. /\ head_idx' \in 0 .. QUEUE_SIZE - 1
          /\ \A k \in 1 .. num - count : At(ring, head_idx', k) = At(ring, head_idx, count + k)
      BY <2>2, <2>3, <3>1, RingShift
    <3>3. num - count \in 0 .. QUEUE_SIZE /\ num - count \in Nat
      BY <2>3, <2>8
    <3> QED BY <2>2, <3>2, <3>3
  <2>10. RingOk(queue, head_idx, num_pending, fed)'
    <3>1. Len(f) \in Nat /\ num <= Len(f) /\ num_pending' <= Len(f)
      BY <2>2, <2>3, <2>8 DEF RingOk
    <3>2. ASSUME NEW k \in 1 .. num_pending'
          PROVE  /\ At(ring, head_idx', k) # Typed
                 /\ At(ring, head_idx', k) = f[Len(f) - num_pending' + k]
      <4>1. /\ count + k \in 1 .. num
            /\ Len(f) - num + (count + k) = Len(f) - num_pending' + k
        BY <2>2, <2>3, <2>8, <3>1
      <4> QED BY <2>9, <4>1 DEF RingOk
    <3> QED BY <3>1, <3>2 DEF RingOk, At
  <2>11. Delivered(num_pending, fed)'
    <3>1. /\ Len(f) \in Nat /\ Len(read) \in Nat /\ Len(read) <= Len(f)
          /\ \A k \in 1 .. Len(read) : read[k] = f[k]
      BY DEF Types, Delivered
    <3>2. Len(f) = Len(read) + num
      <4>1. Len(kernal) = 0 /\ FedIn(kernal, 0) = 0
        BY <2>1, FedInNat
      <4>2. Len(f) = Len(read) + FedIn(kernal, Len(kernal)) + num
        BY <2>1 DEF Delivered
      <4> QED BY <2>3, <3>1, <4>1, <4>2
    <3>3. \A k \in 1 .. count : kernal'[k] # Typed /\ kernal'[k] = f[Len(read) + k]
      <4> TAKE k \in 1 .. count
      <4>1. k \in 1 .. num /\ Len(f) - num + k = Len(read) + k
        BY <2>3, <2>8, <3>1, <3>2
      <4> QED BY <2>8, <4>1 DEF RingOk
    <3>4. \A k \in 0 .. count : FedIn(kernal', k) = k
      <4> TAKE k \in 0 .. count
      <4>1. k \in Nat /\ \A j \in 1 .. k : j \in 1 .. count
        BY <2>8
      <4> QED BY <3>3, <4>1, FedInAll
    <3>5. FedIn(kernal', count) = count
      BY <2>8, <3>4
    <3>6. Len(f) = Len(read) + count + num_pending'
      BY <2>2, <2>3, <2>8, <3>1, <3>2
    <3>7. \A k \in 1 .. count : FedIn(kernal', k) = k
      BY <2>8, <3>4
    <3>8. Ready'
      BY <2>1 DEF Ready
    <3> QED BY <2>8, <3>1, <3>3, <3>5, <3>6, <3>7, <3>8 DEF Delivered
  <2>12. CASE stops = {}
    <3>1. alarm_in' = NoAlarm
      BY <2>1, <2>2, <2>12
    <3>2. Types'
      BY <2>8, <2>9, <3>1 DEF Types, NoAlarm
    <3>3. RoomInv'
      BY <2>3, <2>8, <3>1, Sizes DEF RoomInv
    <3>4. AlarmOk(queue, head_idx, num_pending)'
      BY <3>1 DEF AlarmOk
    <3> QED BY <3>2, <3>3, <3>4, <2>10, <2>11 DEF KbdInv
  <2>13. CASE stops # {}
    <3>1. PICK random \in 1 .. Frame : alarm_in' = Frame + random
      BY <2>2, <2>13
    <3>2. alarm_in' \in Int /\ alarm_in' > 0
      BY <3>1, Sizes
    <3>3. count < n /\ pending[count + 1] = CR
      BY <2>4, <2>13
    <3>4. Types'
      BY <2>8, <2>9, <3>2 DEF Types, NoAlarm
    <3>5. RoomInv'
      <4>1. Len(kernal') < buffer_size
        BY <2>3, <2>8, <3>3, Sizes
      <4> QED BY <2>8, <4>1, Sizes DEF RoomInv
    <3>6. AlarmOk(queue, head_idx, num_pending)'
      <4>1. num_pending' > 0 /\ count + 1 \in 1 .. num
        BY <2>2, <2>3, <2>8, <3>3
      <4>2. At(ring, head_idx', 1) = CR
        <5>1. 1 \in 1 .. num_pending'
          BY <2>9, <4>1
        <5> QED BY <2>5, <2>9, <3>3, <4>1, <5>1
      <4>3. clk' + alarm_in' >= BootCycles
        <5>1. clk \in Nat /\ clk' = clk
          BY DEF Types
        <5>2. clk >= kernal_init_cycles
          BY <2>1
        <5> QED BY <3>2, <5>1, <5>2, Sizes
      <4> QED BY <4>1, <4>2, <4>3 DEF AlarmOk, At
    <3> QED BY <3>4, <3>5, <3>6, <2>10, <2>11 DEF KbdInv
  <2> QED BY <2>12, <2>13
<1> QED BY <1>1, <1>2

-----------------------------------------------------------------------------
(* The steps. *)

\* The count does not decrease, and a key that was fed is counted.
LEMMA FedInGrows ==
  ASSUME NEW s, NEW n \in Nat, NEW k \in 1 .. n
  PROVE  /\ FedIn(s, k) <= FedIn(s, n)
         /\ s[k] # Typed => FedIn(s, k) > 0
<1>1. {j \in 1 .. k : s[j] # Typed} \in SUBSET {j \in 1 .. n : s[j] # Typed}
  OBVIOUS
<1>2. FedIn(s, k) <= FedIn(s, n)
  BY <1>1, FedInNat, FS_Subset DEF FedIn
<1>3. k - 1 \in Nat /\ (k - 1) + 1 = k
  OBVIOUS
<1>4. FedIn(s, k - 1) \in Nat
  BY <1>3, FedInNat
<1>5. s[k] # Typed => FedIn(s, k) = FedIn(s, k - 1) + 1
  BY <1>3, FedInNext
<1>6. s[k] # Typed => FedIn(s, k) > 0
  BY <1>4, <1>5
<1> QED BY <1>2, <1>6

\* The type of the lengths.
LEMMA Lengths ==
  ASSUME Types
  PROVE  /\ Len(kernal) \in Nat /\ Len(fed) \in Nat /\ Len(read) \in Nat
         /\ num_pending \in Nat /\ num_pending <= QUEUE_SIZE
         /\ \A n \in Nat : FedIn(kernal, n) \in Nat
<1>1. Len(kernal) \in Nat /\ Len(fed) \in Nat /\ Len(read) \in Nat
  BY DEF Types
<1>2. num_pending \in Nat /\ num_pending <= QUEUE_SIZE
  BY Sizes DEF Types
<1> QED BY <1>1, <1>2, FedInNat

\* At the start nothing is fed.
LEMMA InitKbdInv == Init => KbdInv
<1> SUFFICES ASSUME Init PROVE KbdInv
  OBVIOUS
<1>1. Types
  BY Sizes DEF Init, Types, NoAlarm
<1>2. RoomInv
  BY Sizes DEF Init, RoomInv, NoAlarm
<1>3. RingOk(queue, head_idx, num_pending, fed)
  BY DEF Init, RingOk
<1>4. AlarmOk(queue, head_idx, num_pending)
  BY DEF Init, AlarmOk
<1>5. ~Ready
  BY Sizes DEF Init, Ready
<1>6. Delivered(num_pending, fed)
  BY <1>5 DEF Init, Delivered
<1> QED BY <1>1, <1>2, <1>3, <1>4, <1>6 DEF KbdInv

\* A step that changes none of this.
LEMMA QuietStep ==
  ASSUME KbdInv,
         UNCHANGED <<queue, head_idx, num_pending, alarm_in, clk, kernal, fed, read, mixed>>
  PROVE  KbdInv'
<1>1. Types' /\ RoomInv'
  BY DEF KbdInv, Types, RoomInv
<1>2. RingOk(queue, head_idx, num_pending, fed)' /\ AlarmOk(queue, head_idx, num_pending)'
  BY DEF KbdInv, RingOk, AlarmOk, At
<1>3. Delivered(num_pending, fed)'
  BY DEF KbdInv, Delivered, Ready
<1> QED BY <1>1, <1>2, <1>3 DEF KbdInv

\* string_to_queue, with the flush at its end.
LEMMA FeedKeeps ==
  ASSUME KbdInv, NEW string \in Strings, NEW runcmd \in BOOLEAN, kbdbuf_feed(string, runcmd)
  PROVE  KbdInv'
<1>1. /\ string_to_queue(string, runcmd)
      /\ UNCHANGED <<clk, read, mixed>>
  BY DEF kbdbuf_feed, timeVars
<1>2. CASE num_pending + Len(string) > QUEUE_SIZE
  <2>1. UNCHANGED <<queue, head_idx, num_pending, alarm_in, kernal, fed>>
    BY <1>1, <1>2 DEF string_to_queue, ringVars
  <2> QED BY <1>1, <2>1, QuietStep
<1>3. CASE ~(num_pending + Len(string) > QUEUE_SIZE)
  <2> DEFINE L == Len(string)
             num == num_pending + L
             f == fed \o string
  <2>1. string \in Seq(Nat) /\ L \in Nat /\ \A k \in 1 .. L : string[k] # Typed
    <3>1. PICK n \in 1 .. MaxLength : string \in [1 .. n -> Letters \union {CR}]
      BY DEF Strings
    <3>2. n \in Nat /\ \A c \in Letters \union {CR} : c \in Nat /\ c # Typed
      BY KbdBufConstants DEF CR, Typed
    <3>3. string \in [1 .. n -> Nat] /\ \A k \in 1 .. n : string[k] # Typed
      BY <3>1, <3>2
    <3>4. string \in Seq(Nat) /\ Len(string) = n
      BY <3>2, <3>3
    <3> QED BY <3>2, <3>3, <3>4
  <2>2. /\ queue' = Filled(queue, head_idx, num_pending, string)
        /\ fed' = f
        /\ kbdbuf_flush(queue', head_idx, num, runcmd)
    BY <1>1, <1>3 DEF string_to_queue, Filled
  <2>3. Types
    BY DEF KbdInv
  <2>4. /\ num \in 0 .. QUEUE_SIZE /\ num_pending + Len(string) <= QUEUE_SIZE
        /\ num \in Nat
    <3>1. num_pending \in Nat /\ QUEUE_SIZE \in Nat
      BY <2>3, Lengths, Sizes
    <3> QED BY <1>3, <2>1, <3>1
  <2>5. /\ queue' \in [0 .. QUEUE_SIZE - 1 -> Nat]
        /\ \A k \in 1 .. num_pending : At(queue', head_idx, k) = At(queue, head_idx, k)
        /\ \A k \in 1 .. L : At(queue', head_idx, num_pending + k) = string[k]
    <3>1. /\ queue \in [0 .. QUEUE_SIZE - 1 -> Nat] /\ head_idx \in 0 .. QUEUE_SIZE - 1
          /\ num_pending \in 0 .. QUEUE_SIZE
      BY <2>3 DEF Types
    <3>2. PICK new : new = queue'
      OBVIOUS
    <3>3. num_pending + Len(string) <= QUEUE_SIZE /\ string \in Seq(Nat)
      BY <2>1, <2>4
    <3> HIDE DEF num, f
    <3>4. /\ new \in [0 .. QUEUE_SIZE - 1 -> Nat]
          /\ \A k \in 1 .. num_pending : At(new, head_idx, k) = At(queue, head_idx, k)
          /\ \A k \in 1 .. Len(string) : At(new, head_idx, num_pending + k) = string[k]
      BY <2>2, <3>1, <3>2, <3>3, RingFilled
    <3> QED BY <3>2, <3>4
  <2>6. /\ f \in Seq(Nat) /\ Len(f) = Len(fed) + L /\ Len(fed) \in Nat
        /\ \A k \in 1 .. Len(fed) : f[k] = fed[k]
        /\ \A k \in 1 .. L : f[Len(fed) + k] = string[k]
    <3>1. fed \in Seq(Nat) /\ Len(fed) \in Nat
      BY <2>3, Lengths DEF Types
    <3> QED BY <2>1, <3>1
  <2> HIDE DEF f
  <2>7. RingOk(queue', head_idx, num, f)
    <3>1. num_pending <= Len(fed) /\ num_pending \in Nat
      BY <2>3, Lengths DEF KbdInv, RingOk
    <3>2. num <= Len(f)
      BY <2>1, <2>6, <3>1
    <3>3. ASSUME NEW k \in 1 .. num_pending
          PROVE  /\ At(queue', head_idx, k) # Typed
                 /\ At(queue', head_idx, k) = f[Len(f) - num + k]
      <4>1. Len(fed) - num_pending + k \in 1 .. Len(fed)
        BY <2>6, <3>1
      <4>2. Len(f) - num + k = Len(fed) - num_pending + k
        BY <2>1, <2>6, <3>1
      <4> QED BY <2>5, <2>6, <4>1, <4>2 DEF KbdInv, RingOk
    <3>4. ASSUME NEW k \in 1 .. L
          PROVE  /\ At(queue', head_idx, num_pending + k) # Typed
                 /\ At(queue', head_idx, num_pending + k) = f[Len(f) - num + (num_pending + k)]
      <4>1. Len(f) - num + (num_pending + k) = Len(fed) + k
        BY <2>1, <2>6, <3>1
      <4> QED BY <2>1, <2>5, <2>6, <4>1
    <3>5. ASSUME NEW k \in 1 .. num
          PROVE  /\ At(queue', head_idx, k) # Typed
                 /\ At(queue', head_idx, k) = f[Len(f) - num + k]
      <4>1. CASE k <= num_pending
        <5>1. k \in 1 .. num_pending
          BY <3>1, <4>1
        <5> QED BY <3>3, <5>1
      <4>2. CASE ~(k <= num_pending)
        <5>1. k - num_pending \in 1 .. L /\ num_pending + (k - num_pending) = k
          BY <2>1, <3>1, <4>2
        <5> QED BY <3>4, <5>1
      <4> QED BY <4>1, <4>2
    <3> QED BY <3>2, <3>5 DEF RingOk
  <2>8. AlarmOk(queue', head_idx, num)
    <3>1. ASSUME alarm_in # NoAlarm PROVE num > 0 /\ At(queue', head_idx, 1) = CR
      <4>1. num_pending > 0 /\ At(queue, head_idx, 1) = CR /\ num_pending \in Nat
        BY <2>3, <3>1, Lengths DEF KbdInv, AlarmOk
      <4>2. 1 \in 1 .. num_pending /\ num > 0
        BY <2>1, <4>1
      <4> QED BY <2>5, <4>1, <4>2
    <3> QED BY <3>1 DEF KbdInv, AlarmOk
  <2>9. Delivered(num, f)
    <3>1. /\ Len(read) \in Nat /\ Len(read) <= Len(fed)
          /\ num_pending \in Nat
          /\ Delivered(num_pending, fed)
      BY <2>3, Lengths DEF KbdInv, Delivered
    <3>2. Len(read) <= Len(f) /\ \A k \in 1 .. Len(read) : k \in 1 .. Len(fed)
      BY <2>1, <2>6, <3>1
    <3>3. \A k \in 1 .. Len(read) : read[k] = f[k]
      BY <2>6, <3>1, <3>2 DEF Delivered
    <3>4. ~Ready => Len(f) = Len(read) + num
      <4>1. Len(fed) = Len(read) + num_pending => Len(f) = Len(read) + num
        BY <2>1, <2>6, <3>1
      <4> QED BY <3>1, <4>1 DEF Delivered
    <3>5. ASSUME Ready
          PROVE  /\ Len(f) = Len(read) + FedIn(kernal, Len(kernal)) + num
                 /\ \A k \in 1 .. Len(kernal) :
                      kernal[k] # Typed => kernal[k] = f[Len(read) + FedIn(kernal, k)]
      <4>1. /\ Len(kernal) \in Nat /\ \A n \in Nat : FedIn(kernal, n) \in Nat
            /\ FedIn(kernal, Len(kernal)) \in Nat
        BY <2>3, Lengths
      <4>2. Len(fed) = Len(read) + FedIn(kernal, Len(kernal)) + num_pending
        BY <3>1, <3>5 DEF Delivered
      <4>3. Len(f) = Len(read) + FedIn(kernal, Len(kernal)) + num
        BY <2>1, <2>6, <3>1, <4>1, <4>2
      <4>4. ASSUME NEW k \in 1 .. Len(kernal), kernal[k] # Typed
            PROVE  kernal[k] = f[Len(read) + FedIn(kernal, k)]
        <5>1. /\ FedIn(kernal, k) <= FedIn(kernal, Len(kernal)) /\ FedIn(kernal, k) > 0
              /\ FedIn(kernal, k) \in Nat
          BY <4>1, <4>4, FedInGrows
        <5>2. Len(read) + FedIn(kernal, k) \in 1 .. Len(fed)
          <6>1. Len(read) \in Nat /\ num_pending \in Nat /\ Len(fed) \in Nat
            BY <2>6, <3>1
          <6>2. PICK a, b : a = FedIn(kernal, k) /\ b = FedIn(kernal, Len(kernal))
            OBVIOUS
          <6>3. a \in Nat /\ b \in Nat /\ a <= b /\ a > 0 /\ Len(fed) = Len(read) + b + num_pending
            BY <4>1, <4>2, <5>1, <6>2
          <6>4. Len(read) + a \in 1 .. Len(fed)
            BY <6>1, <6>3
          <6> QED BY <6>2, <6>4
        <5> QED BY <2>6, <3>1, <3>5, <4>4, <5>2 DEF Delivered
      <4> QED BY <4>3, <4>4
    <3> QED BY <3>2, <3>3, <3>4, <3>5 DEF Delivered
  <2> HIDE DEF num
  <2> QED
    BY <1>1, <2>2, <2>3, <2>4, <2>5, <2>6, <2>7, <2>8, <2>9, FlushKeeps DEF KbdInv
<1> QED BY <1>2, <1>3

\* The alarm writes the RETURN that is at the head of the ring.
LEMMA AlarmKeeps ==
  ASSUME KbdInv, kbdbuf_flush_alarm_triggered
  PROVE  KbdInv'
<1>1. /\ alarm_in = 0 /\ alarm_in' = NoAlarm
      /\ kernal' = Append(kernal, CR)
      /\ head_idx' = (head_idx + 1) % QUEUE_SIZE
      /\ num_pending' = num_pending - 1
      /\ UNCHANGED <<queue, clk, fed, read, mixed>>
  BY DEF kbdbuf_flush_alarm_triggered, timeVars
<1>2. Types /\ RoomInv
  BY DEF KbdInv
<1>3. /\ num_pending > 0 /\ At(queue, head_idx, 1) = CR /\ Ready
      /\ num_pending \in Nat /\ num_pending <= QUEUE_SIZE /\ QUEUE_SIZE \in Nat
  <2>1. alarm_in # NoAlarm
    BY <1>1 DEF NoAlarm
  <2>2. num_pending > 0 /\ At(queue, head_idx, 1) = CR /\ clk + alarm_in >= BootCycles
    BY <2>1 DEF KbdInv, AlarmOk
  <2>3. clk \in Nat /\ BootCycles \in Nat
    BY <1>2, Sizes DEF Types
  <2>4. clk >= BootCycles
    BY <1>1, <2>2, <2>3
  <2> QED BY <1>2, <2>2, <2>4, Lengths, Sizes DEF Ready
<1>4. /\ head_idx' \in 0 .. QUEUE_SIZE - 1
      /\ num_pending' \in 0 .. QUEUE_SIZE
      /\ \A k \in 1 .. num_pending' : At(queue, head_idx', k) = At(queue, head_idx, 1 + k)
  <2>1. /\ head_idx \in 0 .. QUEUE_SIZE - 1 /\ 1 \in 0 .. QUEUE_SIZE
        /\ \A k \in 1 .. num_pending - 1 : k \in 1 .. QUEUE_SIZE - 1
    BY <1>2, <1>3 DEF Types
  <2>2. num_pending' \in 0 .. QUEUE_SIZE
    BY <1>1, <1>3
  <2> QED BY <1>1, <2>1, <2>2, RingShift, SMTT(30)
<1>5. /\ kernal' \in Seq(Nat) /\ Len(kernal) \in Nat /\ Len(kernal') = Len(kernal) + 1
      /\ \A k \in 1 .. Len(kernal) : kernal'[k] = kernal[k]
      /\ kernal'[Len(kernal) + 1] = CR
  <2>1. kernal \in Seq(Nat) /\ CR \in Nat
    BY <1>2 DEF Types, CR
  <2> QED BY <1>1, <2>1
<1>6. Types'
  BY <1>1, <1>2, <1>4, <1>5 DEF Types, NoAlarm
<1>7. RoomInv'
  <2>1. CASE mixed
    BY <1>1, <2>1 DEF RoomInv
  <2>2. CASE ~mixed
    <3>1. Len(kernal) < buffer_size
      BY <1>1, <1>2, <2>2 DEF RoomInv, NoAlarm
    <3>2. Len(kernal') <= buffer_size
      BY <1>5, <3>1, Sizes
    <3> QED BY <1>1, <3>2 DEF RoomInv
  <2> QED BY <2>1, <2>2
<1>8. Len(fed) \in Nat /\ num_pending <= Len(fed)
  BY <1>2, Lengths DEF KbdInv, RingOk
<1>9. RingOk(queue, head_idx, num_pending, fed)'
  <2>1. num_pending' <= Len(fed)
    BY <1>1, <1>3, <1>8
  <2>2. ASSUME NEW k \in 1 .. num_pending'
        PROVE  /\ At(queue, head_idx', k) # Typed
               /\ At(queue, head_idx', k) = fed[Len(fed) - num_pending' + k]
    <3>1. /\ 1 + k \in 1 .. num_pending
          /\ Len(fed) - num_pending + (1 + k) = Len(fed) - num_pending' + k
      BY <1>1, <1>3, <1>8
    <3> QED BY <1>4, <3>1 DEF KbdInv, RingOk
  <2> QED BY <1>1, <2>1, <2>2 DEF RingOk, At
<1>10. AlarmOk(queue, head_idx, num_pending)'
  BY <1>1 DEF AlarmOk
<1>11. Delivered(num_pending, fed)'
  <2> DEFINE n == Len(kernal)
  <2>1. /\ Len(read) \in Nat /\ FedIn(kernal, n) \in Nat
        /\ Delivered(num_pending, fed)
    BY <1>2, <1>5, Lengths DEF KbdInv
  <2>2. Len(fed) = Len(read) + FedIn(kernal, n) + num_pending
    BY <1>3, <2>1 DEF Delivered
  <2>3. \A k \in 0 .. n : FedIn(kernal', k) = FedIn(kernal, k)
    <3> TAKE k \in 0 .. n
    <3>1. k \in Nat /\ \A j \in 1 .. k : j \in 1 .. n
      BY <1>5
    <3> QED BY <1>5, <3>1, FedInSame
  <2>4. FedIn(kernal', n + 1) = FedIn(kernal, n) + 1
    <3>1. kernal'[n + 1] # Typed
      BY <1>5 DEF CR, Typed
    <3>2. FedIn(kernal', n) = FedIn(kernal, n)
      BY <1>5, <2>3
    <3> QED BY <1>5, <3>1, <3>2, FedInNext
  <2>5. Len(fed) = Len(read) + FedIn(kernal', n + 1) + num_pending'
    BY <1>1, <1>3, <1>8, <2>1, <2>2, <2>4
  <2>6. ASSUME NEW k \in 1 .. n + 1, kernal'[k] # Typed
        PROVE  kernal'[k] = fed[Len(read) + FedIn(kernal', k)]
    <3>1. CASE k = n + 1
      <4>1. 1 \in 1 .. num_pending
        BY <1>3
      <4>2. CR = fed[Len(fed) - num_pending + 1]
        BY <1>3, <4>1 DEF KbdInv, RingOk
      <4>3. Len(fed) - num_pending + 1 = Len(read) + FedIn(kernal', n + 1)
        BY <1>3, <1>8, <2>1, <2>2, <2>4
      <4> QED BY <1>5, <3>1, <4>2, <4>3
    <3>2. CASE k # n + 1
      <4>1. k \in 1 .. n /\ k \in 0 .. n
        BY <1>5, <3>2
      <4> QED BY <1>3, <1>5, <2>1, <2>3, <2>6, <4>1 DEF Delivered
    <3> QED BY <3>1, <3>2
  <2>7. Ready' /\ read' = read /\ fed' = fed
    BY <1>1, <1>3 DEF Ready
  <2>8. Len(read) <= Len(fed) /\ \A k \in 1 .. Len(read) : read[k] = fed[k]
    BY <2>1 DEF Delivered
  <2> QED BY <1>5, <2>5, <2>6, <2>7, <2>8 DEF Delivered
<1> QED BY <1>6, <1>7, <1>9, <1>10, <1>11 DEF KbdInv

\* A cycle: the alarm comes nearer as the clock goes on, and the Kernal starts
\* with an empty buffer.
LEMMA CycleKeeps ==
  ASSUME KbdInv, Cycle
  PROVE  KbdInv'
<1>1. /\ alarm_in # 0
      /\ clk' = IF clk < MaxClk THEN clk + 1 ELSE clk
      /\ alarm_in' = IF alarm_in = NoAlarm THEN NoAlarm ELSE alarm_in - 1
      /\ kernal' = IF clk' = BootCycles /\ clk < BootCycles THEN <<>> ELSE kernal
      /\ UNCHANGED <<queue, head_idx, num_pending, fed, read, mixed>>
  BY DEF Cycle, ringVars
<1>2. Types /\ RoomInv
  BY DEF KbdInv
<1>3. /\ clk \in Nat /\ clk <= MaxClk /\ alarm_in \in Int /\ alarm_in >= -1
      /\ kernal \in Seq(Nat) /\ Len(kernal) \in Nat
  BY <1>2 DEF Types, NoAlarm
<1>4. clk' \in Nat /\ clk' <= MaxClk /\ clk <= clk'
  BY <1>1, <1>3, Sizes
<1>5. /\ alarm_in' \in Int /\ alarm_in' >= -1
      /\ alarm_in' # NoAlarm => alarm_in # NoAlarm /\ alarm_in' >= 0
  BY <1>1, <1>3 DEF NoAlarm
<1>6. kernal' \in Seq(Nat) /\ (kernal' = kernal \/ kernal' = <<>>)
  BY <1>1, <1>3
<1>7. Types'
  BY <1>1, <1>2, <1>4, <1>5, <1>6 DEF Types, NoAlarm
<1>8. RoomInv'
  <2>1. CASE kernal' = kernal
    BY <1>1, <1>2, <1>5, <2>1 DEF RoomInv
  <2>2. CASE kernal' = <<>>
    <3>1. Len(kernal') <= buffer_size /\ Len(kernal') < buffer_size
      BY <2>2, Sizes
    <3> QED BY <3>1 DEF RoomInv
  <2> QED BY <1>6, <2>1, <2>2
<1>9. RingOk(queue, head_idx, num_pending, fed)'
  BY <1>1 DEF KbdInv, RingOk, At
<1>10. AlarmOk(queue, head_idx, num_pending)'
  <2> SUFFICES ASSUME alarm_in' # NoAlarm
               PROVE  AlarmOk(queue, head_idx, num_pending)'
    BY DEF AlarmOk
  <2>1. /\ num_pending > 0 /\ At(queue, head_idx, 1) = CR
        /\ clk + alarm_in >= BootCycles
        /\ alarm_in # NoAlarm
    BY <1>5 DEF KbdInv, AlarmOk
  <2>2. clk' + alarm_in' >= BootCycles
    <3>1. alarm_in' = alarm_in - 1 /\ alarm_in' >= 0
      BY <1>1, <1>5, <2>1
    <3>2. CASE clk < MaxClk
      BY <1>1, <1>3, <2>1, <3>1, <3>2, Sizes
    <3>3. CASE ~(clk < MaxClk)
      BY <1>1, <1>3, <1>5, <3>1, <3>3, Sizes
    <3> QED BY <3>2, <3>3
  <2> QED BY <1>1, <2>1, <2>2 DEF AlarmOk, At
<1>11. Delivered(num_pending, fed)'
  <2>1. Delivered(num_pending, fed)
    BY DEF KbdInv
  <2>2. CASE clk' = BootCycles /\ clk < BootCycles
    <3>1. ~Ready /\ Ready' /\ kernal' = <<>>
      BY <1>1, <1>3, <2>2, Sizes DEF Ready
    <3>2. Len(fed) = Len(read) + num_pending
      BY <2>1, <3>1 DEF Delivered
    <3>3. Len(kernal') = 0 /\ FedIn(kernal', 0) = 0
      BY <3>1, FedInNat
    <3>4. Len(fed) = Len(read) + FedIn(kernal', Len(kernal')) + num_pending
      BY <1>2, <3>2, <3>3, Lengths
    <3>5. \A k \in 1 .. Len(kernal') : FALSE
      BY <3>3
    <3> QED BY <1>1, <2>1, <3>1, <3>4, <3>5 DEF Delivered
  <2>3. CASE ~(clk' = BootCycles /\ clk < BootCycles)
    <3>1. kernal' = kernal
      BY <1>1, <2>3
    <3>2. Ready' <=> Ready
      BY <1>1, <1>3, <2>3, Sizes DEF Ready
    <3> QED BY <1>1, <2>1, <3>1, <3>2 DEF Delivered
  <2> QED BY <2>2, <2>3
<1> QED BY <1>7, <1>8, <1>9, <1>10, <1>11 DEF KbdInv

\* The program reads the next character that was fed, or a typed key.
LEMMA GetInKeeps ==
  ASSUME KbdInv, GetIn
  PROVE  KbdInv'
<1>1. /\ Ready /\ kernal # <<>> /\ kernal' = Tail(kernal)
      /\ read' = IF Head(kernal) = Typed THEN read ELSE Append(read, Head(kernal))
      /\ UNCHANGED <<queue, head_idx, num_pending, alarm_in, clk, fed, mixed>>
  BY DEF GetIn, ringVars, timeVars
<1>2. Types /\ RoomInv
  BY DEF KbdInv
<1>3. /\ kernal \in Seq(Nat) /\ Len(kernal) \in Nat /\ Len(kernal) > 0
      /\ read \in Seq(Nat) /\ Len(read) \in Nat
  BY <1>1, <1>2 DEF Types
<1>4. /\ kernal' \in Seq(Nat) /\ Len(kernal') = Len(kernal) - 1 /\ Head(kernal) = kernal[1]
      /\ kernal[1] \in Nat
      /\ \A k \in 1 .. Len(kernal') : kernal'[k] = kernal[k + 1]
  BY <1>1, <1>3, HeadTailProperties
<1>5. read' \in Seq(Nat)
  BY <1>1, <1>3, <1>4
<1>6. Types'
  BY <1>1, <1>2, <1>4, <1>5 DEF Types
<1>7. RoomInv'
  <2>1. CASE mixed
    BY <1>1, <2>1 DEF RoomInv
  <2>2. CASE ~mixed
    <3>1. Len(kernal) <= buffer_size /\ (alarm_in # NoAlarm => Len(kernal) < buffer_size)
      BY <1>2, <2>2 DEF RoomInv
    <3>2. /\ Len(kernal) <= buffer_size => Len(kernal') <= buffer_size
          /\ Len(kernal) < buffer_size => Len(kernal') < buffer_size
      BY <1>3, <1>4, Sizes
    <3> QED BY <1>1, <3>1, <3>2 DEF RoomInv
  <2> QED BY <2>1, <2>2
<1>8. RingOk(queue, head_idx, num_pending, fed)' /\ AlarmOk(queue, head_idx, num_pending)'
  BY <1>1 DEF KbdInv, RingOk, AlarmOk, At
<1>9. Delivered(num_pending, fed)'
  <2> DEFINE n == Len(kernal)
             d == IF kernal[1] # Typed THEN 1 ELSE 0
  <2>1. /\ Len(read) <= Len(fed) /\ \A k \in 1 .. Len(read) : read[k] = fed[k]
        /\ Len(fed) = Len(read) + FedIn(kernal, n) + num_pending
        /\ \A k \in 1 .. n : kernal[k] # Typed => kernal[k] = fed[Len(read) + FedIn(kernal, k)]
    BY <1>1 DEF KbdInv, Delivered
  <2>2. \A k \in 0 .. n - 1 : FedIn(kernal, k + 1) = FedIn(kernal', k) + d
    BY <1>1, <1>3, <1>4, FedInTail
  <2>3. \A k \in Nat : FedIn(kernal, k) \in Nat /\ FedIn(kernal', k) \in Nat
    BY FedInNat
  <2>4. Len(read') = Len(read) + d
    BY <1>1, <1>3, <1>4
  <2>5. FedIn(kernal, n) = FedIn(kernal', n - 1) + d
    <3>1. n - 1 \in 0 .. n - 1 /\ (n - 1) + 1 = n
      BY <1>3
    <3> QED BY <2>2, <3>1
  <2>6. /\ Len(fed) \in Nat /\ num_pending \in Nat /\ d \in {0, 1} /\ n - 1 \in Nat
        /\ FedIn(kernal', n - 1) \in Nat
    <3>1. Len(fed) \in Nat /\ num_pending \in Nat
      BY <1>2, Lengths
    <3>2. n - 1 \in Nat
      BY <1>3
    <3>3. FedIn(kernal', n - 1) \in Nat
      BY <2>3, <3>2
    <3>4. d \in {0, 1}
      OBVIOUS
    <3> QED BY <3>1, <3>2, <3>3, <3>4
  <2>7. Len(fed) = Len(read') + FedIn(kernal', Len(kernal')) + num_pending
    <3>1. PICK a, b : a = FedIn(kernal', n - 1) /\ b = FedIn(kernal, n)
      OBVIOUS
    <3>2. /\ a \in Nat /\ b = a + d /\ Len(fed) = Len(read) + b + num_pending
          /\ d \in {0, 1} /\ num_pending \in Nat /\ Len(read') = Len(read) + d
      BY <2>1, <2>4, <2>5, <2>6, <3>1
    <3> HIDE DEF d
    <3>3. Len(fed) = Len(read') + a + num_pending
      BY <1>3, <3>2
    <3> QED BY <1>4, <3>1, <3>3
  <2>8. ASSUME NEW k \in 1 .. Len(kernal'), kernal'[k] # Typed
        PROVE  kernal'[k] = fed[Len(read') + FedIn(kernal', k)]
    <3>1. k + 1 \in 1 .. n /\ k \in 0 .. n - 1 /\ k \in Nat
      BY <1>3, <1>4
    <3>2. kernal'[k] = fed[Len(read) + FedIn(kernal, k + 1)]
      BY <1>4, <2>1, <2>8, <3>1
    <3>3. PICK a : a = FedIn(kernal', k)
      OBVIOUS
    <3>4. a \in Nat /\ FedIn(kernal, k + 1) = a + d
      BY <2>2, <2>3, <3>1, <3>3
    <3> HIDE DEF d
    <3>5. d \in {0, 1} /\ Len(read') = Len(read) + d
      BY <2>4, <2>6
    <3>6. Len(read) + (a + d) = Len(read') + a
      BY <1>3, <3>4, <3>5
    <3> QED BY <3>2, <3>3, <3>4, <3>6
  <2>9. Len(read') <= Len(fed)
    <3>1. FedIn(kernal', Len(kernal')) \in Nat
      BY <1>4, <2>6
    <3>2. Len(read') \in Nat
      BY <1>5
    <3> QED BY <2>6, <2>7, <3>1, <3>2
  <2>10. ASSUME NEW k \in 1 .. Len(read')
         PROVE  read'[k] = fed[k]
    <3>1. CASE kernal[1] = Typed
      BY <1>1, <1>4, <2>1, <3>1
    <3>2. CASE kernal[1] # Typed
      <4>1. read' = Append(read, kernal[1])
        BY <1>1, <1>4, <3>2
      <4>2. CASE k = Len(read) + 1
        <5>1. FedIn(kernal, 1) = 1
          <6>1. 0 \in Nat /\ 0 + 1 = 1
            OBVIOUS
          <6>2. FedIn(kernal, 0) = 0
            BY FedInNat, <6>1
          <6>3. FedIn(kernal, 0 + 1) = FedIn(kernal, 0) + 1
            BY <3>2, <6>1, FedInNext
          <6> QED BY <6>1, <6>2, <6>3
        <5>2. 1 \in 1 .. n
          BY <1>3
        <5>3. kernal[1] = fed[Len(read) + 1]
          BY <2>1, <3>2, <5>1, <5>2
        <5>4. read'[Len(read) + 1] = kernal[1]
          BY <1>3, <1>4, <4>1
        <5> QED BY <4>2, <5>3, <5>4
      <4>3. CASE k # Len(read) + 1
        <5>1. k \in 1 .. Len(read) /\ read'[k] = read[k]
          BY <1>3, <1>4, <4>1, <4>3, SMTT(30)
        <5> QED BY <2>1, <5>1
      <4> QED BY <4>2, <4>3
    <3> QED BY <3>1, <3>2
  <2>11. Ready' /\ fed' = fed /\ num_pending' = num_pending
    BY <1>1 DEF Ready
  <2> QED BY <2>7, <2>8, <2>9, <2>10, <2>11 DEF Delivered
<1> QED BY <1>6, <1>7, <1>8, <1>9 DEF KbdInv

\* A key that the user types goes behind what was fed.
LEMMA ScanKeyKeeps ==
  ASSUME KbdInv, ScanKey
  PROVE  KbdInv'
<1>1. /\ Ready /\ Len(kernal) < buffer_size /\ kernal' = Append(kernal, Typed)
      /\ mixed' = (mixed \/ alarm_in # NoAlarm)
      /\ UNCHANGED <<queue, head_idx, num_pending, alarm_in, clk, fed, read>>
  BY DEF ScanKey, ringVars, timeVars
<1>2. Types /\ RoomInv
  BY DEF KbdInv
<1>3. kernal \in Seq(Nat) /\ Len(kernal) \in Nat /\ Typed \in Nat
  BY <1>2 DEF Types, Typed
<1>4. /\ kernal' \in Seq(Nat) /\ Len(kernal') = Len(kernal) + 1
      /\ \A k \in 1 .. Len(kernal) : kernal'[k] = kernal[k]
      /\ kernal'[Len(kernal) + 1] = Typed
  BY <1>1, <1>3
<1>5. Types'
  BY <1>1, <1>2, <1>4 DEF Types
<1>6. RoomInv'
  <2>1. Len(kernal') <= buffer_size
    BY <1>1, <1>3, <1>4, Sizes
  <2> QED BY <1>1, <2>1 DEF RoomInv
<1>7. RingOk(queue, head_idx, num_pending, fed)' /\ AlarmOk(queue, head_idx, num_pending)'
  BY <1>1 DEF KbdInv, RingOk, AlarmOk, At
<1>8. Delivered(num_pending, fed)'
  <2> DEFINE n == Len(kernal)
  <2>1. /\ Len(read) <= Len(fed) /\ \A k \in 1 .. Len(read) : read[k] = fed[k]
        /\ Len(fed) = Len(read) + FedIn(kernal, n) + num_pending
        /\ \A k \in 1 .. n : kernal[k] # Typed => kernal[k] = fed[Len(read) + FedIn(kernal, k)]
    BY <1>1 DEF KbdInv, Delivered
  <2>2. \A k \in 0 .. n : FedIn(kernal', k) = FedIn(kernal, k)
    <3> TAKE k \in 0 .. n
    <3>1. k \in Nat /\ \A j \in 1 .. k : j \in 1 .. n
      BY <1>3
    <3> QED BY <1>4, <3>1, FedInSame
  <2>3. FedIn(kernal', n + 1) = FedIn(kernal, n)
    <3>1. n \in 0 .. n /\ n \in Nat
      BY <1>3
    <3>2. FedIn(kernal', n) = FedIn(kernal, n)
      BY <2>2, <3>1
    <3>3. FedIn(kernal, n) \in Nat
      BY <3>1, FedInNat
    <3>4. FedIn(kernal', n + 1) = FedIn(kernal', n) + 0
      BY <1>3, <1>4, FedInNext
    <3> QED BY <3>2, <3>3, <3>4
  <2>4. ASSUME NEW k \in 1 .. n + 1, kernal'[k] # Typed
        PROVE  kernal'[k] = fed[Len(read) + FedIn(kernal', k)]
    <3>1. k \in 1 .. n /\ k \in 0 .. n
      BY <1>3, <1>4, <2>4
    <3> QED BY <1>4, <2>1, <2>2, <2>4, <3>1
  <2>5. Ready' /\ read' = read /\ fed' = fed /\ num_pending' = num_pending
    BY <1>1 DEF Ready
  <2> QED BY <1>4, <2>1, <2>3, <2>4, <2>5 DEF Delivered
<1> QED BY <1>5, <1>6, <1>7, <1>8 DEF KbdInv

\* A reset: what is in the ring is still to be read, after the next start.
LEMMA ResetKeeps ==
  ASSUME KbdInv, cpu_reset
  PROVE  KbdInv'
<1>1. /\ clk' = ResetCycles
      /\ alarm_in' = IF alarm_in = NoAlarm THEN NoAlarm ELSE alarm_in + clk - ResetCycles
      /\ fed' = Pending(queue, head_idx, num_pending)
      /\ read' = <<>>
      /\ UNCHANGED <<queue, head_idx, num_pending, kernal, mixed>>
  BY DEF cpu_reset, ringVars
<1>2. Types /\ RoomInv
  BY DEF KbdInv
<1>3. /\ clk \in Nat /\ alarm_in \in Int
      /\ num_pending \in Nat /\ num_pending <= QUEUE_SIZE
      /\ queue \in [0 .. QUEUE_SIZE - 1 -> Nat] /\ head_idx \in 0 .. QUEUE_SIZE - 1
  BY <1>2, Lengths DEF Types
<1>4. /\ fed' \in Seq(Nat) /\ Len(fed') = num_pending
      /\ \A k \in 1 .. num_pending : fed'[k] = At(queue, head_idx, k)
  <2>1. \A k \in 1 .. num_pending : (head_idx + k - 1) % QUEUE_SIZE \in 0 .. QUEUE_SIZE - 1
    BY <1>3, Places, Sizes
  <2>2. \A k \in 1 .. num_pending : At(queue, head_idx, k) \in Nat
    BY <1>3, <2>1 DEF At
  <2>3. fed' = [k \in 1 .. num_pending |-> At(queue, head_idx, k)]
    BY <1>1 DEF Pending, At
  <2> QED BY <1>3, <2>2, <2>3
<1>5. /\ alarm_in' \in Int /\ alarm_in' >= -1
      /\ alarm_in' # NoAlarm => alarm_in # NoAlarm /\ clk' + alarm_in' = clk + alarm_in
  <2>1. CASE alarm_in = NoAlarm
    BY <1>1, <2>1 DEF NoAlarm
  <2>2. CASE alarm_in # NoAlarm
    <3>1. clk + alarm_in >= BootCycles
      BY <2>2 DEF KbdInv, AlarmOk
    <3>2. alarm_in' = alarm_in + clk - ResetCycles
      BY <1>1, <2>2
    <3> QED BY <1>1, <1>3, <2>2, <3>1, <3>2, Sizes
  <2> QED BY <2>1, <2>2
<1>6. Types'
  <2>1. read' \in Seq(Nat) /\ clk' \in Nat /\ clk' <= MaxClk
    BY <1>1, Sizes
  <2> QED BY <1>1, <1>2, <1>4, <1>5, <2>1 DEF Types, NoAlarm
<1>7. RoomInv'
  BY <1>1, <1>2, <1>5 DEF RoomInv
<1>8. RingOk(queue, head_idx, num_pending, fed)'
  <2>1. \A k \in 1 .. num_pending : Len(fed') - num_pending + k = k
    BY <1>3, <1>4
  <2>2. \A k \in 1 .. num_pending : At(queue, head_idx, k) # Typed
    BY DEF KbdInv, RingOk
  <2>3. num_pending <= Len(fed')
    BY <1>3, <1>4
  <2> QED BY <1>1, <1>4, <2>1, <2>2, <2>3 DEF RingOk, At
<1>9. AlarmOk(queue, head_idx, num_pending)'
  <2> SUFFICES ASSUME alarm_in' # NoAlarm
               PROVE  AlarmOk(queue, head_idx, num_pending)'
    BY DEF AlarmOk
  <2>1. /\ num_pending > 0 /\ At(queue, head_idx, 1) = CR
        /\ clk' + alarm_in' >= BootCycles
    BY <1>5 DEF KbdInv, AlarmOk
  <2> QED BY <1>1, <2>1 DEF AlarmOk, At
<1>10. Delivered(num_pending, fed)'
  <2>1. ~Ready'
    BY <1>1, Sizes DEF Ready
  <2>2. Len(read') = 0 /\ Len(fed') = Len(read') + num_pending /\ Len(read') <= Len(fed')
    BY <1>1, <1>3, <1>4
  <2>3. \A k \in 1 .. Len(read') : FALSE
    BY <2>2
  <2> QED BY <1>1, <2>1, <2>2, <2>3 DEF Delivered
<1> QED BY <1>6, <1>7, <1>8, <1>9, <1>10 DEF KbdInv

\* Every step keeps KbdInv.
LEMMA StepKeepsKbdInv ==
  ASSUME KbdInv, [Next]_vars
  PROVE  KbdInv'
<1>1. CASE Feed
  BY <1>1, FeedKeeps DEF Feed
<1>2. CASE vsync_do_vsync
  <2>1. /\ kbdbuf_flush(queue, head_idx, num_pending, use_kbdbuf_flush_alarm)
        /\ UNCHANGED <<queue, clk, fed, read, mixed>>
    BY <1>2 DEF vsync_do_vsync
  <2>2. /\ queue \in [0 .. QUEUE_SIZE - 1 -> Nat] /\ num_pending \in 0 .. QUEUE_SIZE
        /\ fed \in Seq(Nat)
    BY DEF KbdInv, Types
  <2> QED BY <2>1, <2>2, FlushKeeps DEF KbdInv
<1>3. CASE UNCHANGED vars
  <2>1. UNCHANGED <<queue, head_idx, num_pending, alarm_in, clk, kernal, fed, read, mixed>>
    BY <1>3 DEF vars, ringVars, timeVars
  <2> QED BY <2>1, QuietStep
<1> QED
  BY <1>1, <1>2, <1>3, AlarmKeeps, CycleKeeps, GetInKeeps, ScanKeyKeeps, ResetKeeps DEF Next

\* The characters that were fed are read once and in order, whatever the sizes
\* of the ring and the Kernal's buffer: none is lost by a full ring, by a flush,
\* by a reset or by the RETURN that the alarm writes later, also if the reset
\* has set the clock back meanwhile.
THEOREM FedIsRead == Spec => []KeysDelivered
<1>1. KbdInv /\ [Next]_vars => KbdInv'
  BY StepKeepsKbdInv
<1>2. KbdInv => KeysDelivered
  <2> SUFFICES ASSUME KbdInv PROVE KeysDelivered
    OBVIOUS
  <2>1. \A n : Fed(n) = FedIn(kernal, n)
    BY DEF Fed, FedIn
  <2>2. Types
    BY DEF KbdInv
  <2>3. DOMAIN read = 1 .. Len(read) /\ DOMAIN kernal = 1 .. Len(kernal)
    BY <2>2 DEF Types
  <2>4. /\ Len(read) \in Nat /\ num_pending \in Nat /\ FedIn(kernal, Len(kernal)) \in Nat
    BY <2>2, Lengths
  <2>5. Len(fed) = Len(read) + (IF Ready THEN Fed(Len(kernal)) ELSE 0) + num_pending
    <3>1. CASE Ready
      BY <2>1, <3>1 DEF KbdInv, Delivered
    <3>2. CASE ~Ready
      <4>1. Len(fed) = Len(read) + num_pending
        BY <3>2 DEF KbdInv, Delivered
      <4>2. Len(read) + 0 + num_pending = Len(read) + num_pending
        BY <2>4
      <4> QED BY <3>2, <4>1, <4>2
    <3> QED BY <3>1, <3>2
  <2>6. \A k \in DOMAIN read : read[k] = fed[k]
    BY <2>3 DEF KbdInv, Delivered
  <2>7. Ready => \A k \in DOMAIN kernal :
                   kernal[k] # Typed => kernal[k] = fed[Len(read) + Fed(k)]
    BY <2>1, <2>3 DEF KbdInv, Delivered
  <2>8. \A k \in 1 .. num_pending :
          Pending(queue, head_idx, num_pending)[k] = fed[Len(fed) - num_pending + k]
    <3>1. \A k \in 1 .. num_pending :
            Pending(queue, head_idx, num_pending)[k] = At(queue, head_idx, k)
      BY DEF Pending, At
    <3> QED BY <3>1 DEF KbdInv, RingOk
  <2>9. Len(kernal) <= buffer_size \/ mixed
    BY DEF KbdInv, RoomInv
  <2> QED BY <2>5, <2>6, <2>7, <2>8, <2>9 DEF KeysDelivered
<1> QED BY InitKbdInv, <1>1, <1>2, PTL DEF Spec
=============================================================================
