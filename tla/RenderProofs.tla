---------------------------- MODULE RenderProofs ----------------------------
(***************************************************************************)
(* Proofs about module Render, for any number of backbuffers, frames,      *)
(* redraws and resizes: no backbuffer is lost or in two places, and the    *)
(* screen shows whole frames, the fields apart, and never goes back.       *)
(***************************************************************************)
EXTENDS Render, SequenceTheorems, FiniteSetTheorems, TLAPS

\* The k-th backbuffer of the queue.
Slot(k) == render_queue[(render_queue_next + k - 1) % N]
Slots == 1..render_queue_length

QueueTypes ==
  /\ backbuffer_stack \in Seq(Backbuffers)
  /\ render_queue \in [0..N-1 -> Backbuffers \union {None}]
  /\ render_queue_next \in 0..N-1 /\ render_queue_length \in Nat
  /\ draws \in Backbuffers \union {None} /\ uploads \in Backbuffers \union {None}

\* Which thread holds a backbuffer when.
HolderInv ==
  /\ vice \in {"drawing", "drawn"} <=> draws # None
  /\ renderer # "uploading" => uploads = None
  /\ ui = "ended" => vice = "ended" /\ render_queue_length = 0

One(b) == IF b = None THEN 0 ELSE 1

InPool(b) == \E k \in 1..Len(backbuffer_stack) : backbuffer_stack[k] = b
InSlot(b) == \E k \in Slots : Slot(k) = b

\* The places hold N backbuffers in all, and each backbuffer is in one.
PlaceInv ==
  ui # "ended" =>
    /\ Len(backbuffer_stack) + render_queue_length + One(draws) + One(uploads) = N
    /\ \A k \in Slots : Slot(k) \in Backbuffers
    /\ \A b \in Backbuffers : InPool(b) \/ InSlot(b) \/ draws = b \/ uploads = b

PoolInv == QueueTypes /\ HolderInv /\ PlaceInv

-----------------------------------------------------------------------------
\* There is at least one backbuffer.
LEMMA SomeBackbuffers == N \in Nat \ {0}
BY RenderConstants, FS_CardinalityType, FS_EmptySet DEF N

\* A place of the ring, as sum or wrapped around.
LEMMA RingPlace ==
  ASSUME NEW n \in Nat \ {0}, NEW a \in 0..n-1, NEW k \in 0..n
  PROVE  /\ (a + k) % n = IF a + k < n THEN a + k ELSE a + k - n
         /\ (a + k) % n \in 0..n-1
BY SMT

\* A place of the ring is itself.
LEMMA RingPlaceSame ==
  ASSUME NEW n \in Nat \ {0}, NEW a \in 0..n-1
  PROVE  a % n = a
BY SMT

\* render_queue_enqueue_for_display adds a slot and keeps the others.
LEMMA EnqueueSlots ==
  ASSUME QueueTypes, NEW b \in Backbuffers, render_queue_length < N,
         render_queue_enqueue_for_display(b)
  PROVE  /\ render_queue' \in [0..N-1 -> Backbuffers \union {None}]
         /\ render_queue_length' = render_queue_length + 1
         /\ \A k : k = render_queue_length + 1 => Slot(k)' = b
         /\ \A k \in Slots : Slot(k)' = Slot(k)
<1> USE SomeBackbuffers DEF QueueTypes
<1> DEFINE at(k) == (render_queue_next + k - 1) % N
<1>1. \A k \in 1..N : /\ at(k) \in 0..N-1
                      /\ at(k) = IF render_queue_next + k - 1 < N THEN render_queue_next + k - 1
                                 ELSE render_queue_next + k - 1 - N
  <2> TAKE k \in 1..N
  <2>1. k - 1 \in 0..N /\ render_queue_next + (k - 1) = render_queue_next + k - 1
    OBVIOUS
  <2> QED
    BY <2>1, RingPlace
<1>2. render_queue_length + 1 \in 1..N /\ Slots \subseteq 1..N
  BY DEF Slots
<1>3. (render_queue_next + render_queue_length) % N = at(render_queue_length + 1)
  OBVIOUS
<1>4. /\ render_queue' = [render_queue EXCEPT ![at(render_queue_length + 1)] = b]
      /\ render_queue_length' = render_queue_length + 1
      /\ render_queue_next' = render_queue_next
  BY <1>3 DEF render_queue_enqueue_for_display
<1>5. \A k \in Slots : at(k) # at(render_queue_length + 1)
  BY <1>1, <1>2 DEF Slots
<1> HIDE DEF at
<1>6. \A k : Slot(k) = render_queue[at(k)] /\ Slot(k)' = render_queue'[at(k)]
  BY <1>4 DEF Slot, at
<1>7. render_queue' \in [0..N-1 -> Backbuffers \union {None}]
  BY <1>4
<1>8. ASSUME NEW k, k = render_queue_length + 1
      PROVE  Slot(k)' = b
  BY <1>1, <1>2, <1>4, <1>6, <1>8
<1>9. \A k \in Slots : Slot(k)' = Slot(k)
  BY <1>1, <1>2, <1>4, <1>5, <1>6
<1> QED
  BY <1>4, <1>7, <1>8, <1>9

\* render_queue_dequeue_for_display takes the first slot away.
LEMMA DequeueSlots ==
  ASSUME QueueTypes, render_queue_length \in 1..N,
         render_queue_dequeue_for_display, UNCHANGED render_queue
  PROVE  /\ render_queue_next' \in 0..N-1
         /\ render_queue_length' = render_queue_length - 1
         /\ Head4Display = Slot(1)
         /\ \A k \in 1..render_queue_length - 1 : Slot(k)' = Slot(k + 1)
<1> USE SomeBackbuffers DEF QueueTypes
<1>1. /\ render_queue_next' = (render_queue_next + 1) % N
      /\ render_queue_length' = render_queue_length - 1
  BY DEF render_queue_dequeue_for_display
<1>2. render_queue_next' \in 0..N-1
  BY <1>1, RingPlace
<1>3. Head4Display = Slot(1)
  <2>1. render_queue_next + 1 - 1 = render_queue_next
    OBVIOUS
  <2>2. render_queue_next % N = render_queue_next
    BY RingPlaceSame
  <2> QED
    BY <2>1, <2>2 DEF Head4Display, Slot
<1>4. ASSUME NEW k \in 1..render_queue_length - 1
      PROVE  Slot(k)' = Slot(k + 1)
  <2>1. k - 1 \in 0..N /\ k \in 0..N
    OBVIOUS
  <2>a. render_queue_next' = IF render_queue_next + 1 < N THEN render_queue_next + 1
                             ELSE render_queue_next + 1 - N
    <3>1. 1 \in 0..N
      OBVIOUS
    <3>2. (render_queue_next + 1) % N = IF render_queue_next + 1 < N THEN render_queue_next + 1
                                        ELSE render_queue_next + 1 - N
      BY <3>1, RingPlace
    <3> QED
      BY <1>1, <3>2
  <2>b. (render_queue_next' + (k - 1)) % N = IF render_queue_next' + (k - 1) < N THEN render_queue_next' + (k - 1)
                                             ELSE render_queue_next' + (k - 1) - N
    BY <1>2, <2>1, RingPlace
  <2>c. (render_queue_next + k) % N = IF render_queue_next + k < N THEN render_queue_next + k
                                      ELSE render_queue_next + k - N
    BY <2>1, RingPlace
  <2>2. (render_queue_next' + (k - 1)) % N = (render_queue_next + k) % N
    BY <1>2, <2>a, <2>b, <2>c
  <2>3. render_queue_next' + (k - 1) = render_queue_next' + k - 1
        /\ render_queue_next + k = render_queue_next + (k + 1) - 1
    BY <1>2
  <2> QED
    BY <2>2, <2>3 DEF Slot
<1> QED
  BY <1>1, <1>2, <1>3, <1>4

-----------------------------------------------------------------------------
(***************************************************************************)
(* No backbuffer is lost.                                                  *)
(***************************************************************************)

\* The pool of render_queue_create holds every backbuffer once.
LEMMA FullPool ==
  LET s == SetToSeq(Backbuffers)
  IN  /\ s \in Seq(Backbuffers) /\ Len(s) = N
      /\ \A b \in Backbuffers : \E k \in 1..N : s[k] = b
<1> DEFINE s == SetToSeq(Backbuffers)
<1>1. PICK f \in Bijection(1..N, Backbuffers) : TRUE
  BY RenderConstants, FS_CardinalityType DEF N, ExistsBijection
<1>2. f \in [1..N -> Backbuffers] /\ IsInjective(f)
  <2>1. f \in Injection(1..N, Backbuffers)
    BY <1>1 DEF Bijection
  <2> QED
    BY <2>1 DEF Injection
<1>3. s \in [1..N -> Backbuffers] /\ IsInjective(s)
  BY <1>2 DEF SetToSeq, N
<1> HIDE DEF s
<1>4. s \in Injection(1..N, Backbuffers)
  BY <1>3 DEF Injection
<1>5. Cardinality(1..N) = Cardinality(Backbuffers)
  BY SomeBackbuffers, FS_Interval DEF N
<1>6. s \in Surjection(1..N, Backbuffers)
  BY <1>4, <1>5, RenderConstants, FS_Injection
<1>7. \A b \in Backbuffers : \E k \in 1..N : s[k] = b
  BY <1>6 DEF Surjection
<1>8. s \in Seq(Backbuffers) /\ Len(s) = N
  BY <1>3, SomeBackbuffers
<1> QED
  BY <1>7, <1>8 DEF s

\* Init: every backbuffer is in the pool.
LEMMA InitPoolInv == Init => PoolInv
<1> SUFFICES ASSUME Init PROVE PoolInv
  OBVIOUS
<1>1. QueueTypes
  BY FullPool, SomeBackbuffers DEF Init, QueueTypes
<1>2. HolderInv
  BY DEF Init, HolderInv
<1>3. Slots = {} /\ One(draws) = 0 /\ One(uploads) = 0
  BY DEF Init, Slots, One
<1>4. PlaceInv
  BY <1>3, FullPool, SomeBackbuffers DEF Init, PlaceInv, InPool
<1> QED
  BY <1>1, <1>2, <1>4 DEF PoolInv

\* What leaves the queue, the pool and both holders alone.
LEMMA FrameKeepsPoolInv ==
  ASSUME PoolInv, UNCHANGED <<queueVars, draws, uploads>>, HolderInv',
         ui' = "ended" <=> ui = "ended"
  PROVE  PoolInv'
<1>1. /\ UNCHANGED <<backbuffer_stack, render_queue, render_queue_next, render_queue_length>>
      /\ UNCHANGED <<draws, uploads>>
  BY DEF queueVars
<1>2. QueueTypes'
  BY <1>1 DEF PoolInv, QueueTypes
<1>3. PlaceInv'
  BY <1>1 DEF PoolInv, PlaceInv, InPool, InSlot, Slots, Slot, One
<1> QED
  BY <1>2, <1>3 DEF PoolInv

\* render_queue_get_from_pool takes the backbuffer on top of the pool.
LEMMA GetKeepsPoolInv == PoolInv /\ render_queue_get_from_pool => PoolInv'
<1> SUFFICES ASSUME PoolInv, render_queue_get_from_pool PROVE PoolInv'
  OBVIOUS
<1>1. /\ backbuffer_stack # << >> /\ draws' = Last(backbuffer_stack)
      /\ backbuffer_stack' = Front(backbuffer_stack)
      /\ UNCHANGED <<render_queue, render_queue_next, render_queue_length, uploads, renderer, ui>>
      /\ vice = "idle" /\ vice' = "drawing"
  BY DEF render_queue_get_from_pool
<1>2. /\ backbuffer_stack \in Seq(Backbuffers) /\ Len(backbuffer_stack) \in Nat \ {0}
      /\ draws = None /\ ui # "ended"
  BY <1>1 DEF PoolInv, QueueTypes, HolderInv
<1>3. /\ draws' = backbuffer_stack[Len(backbuffer_stack)] /\ draws' \in Backbuffers
      /\ backbuffer_stack' \in Seq(Backbuffers)
      /\ Len(backbuffer_stack') = Len(backbuffer_stack) - 1
      /\ \A k \in 1..Len(backbuffer_stack) - 1 : backbuffer_stack'[k] = backbuffer_stack[k]
  <2>1. draws' = backbuffer_stack[Len(backbuffer_stack)]
    BY <1>1 DEF Last
  <2>2. backbuffer_stack' = SubSeq(backbuffer_stack, 1, Len(backbuffer_stack) - 1)
    BY <1>1 DEF Front
  <2>3. draws' \in Backbuffers
    BY <1>2, <2>1
  <2>4. backbuffer_stack' \in Seq(Backbuffers)
    BY <1>2, <2>2
  <2>5. Len(backbuffer_stack') = Len(backbuffer_stack) - 1
    <3> DEFINE m == Len(backbuffer_stack) - 1
    <3>1. m \in Nat /\ \A k \in 1..m : backbuffer_stack[k] \in Backbuffers
      BY <1>2
    <3> HIDE DEF m
    <3>2. Len(SubSeq(backbuffer_stack, 1, m)) = IF 1 <= m THEN m - 1 + 1 ELSE 0
      BY <3>1, SubSeqProperties
    <3>3. Len(SubSeq(backbuffer_stack, 1, m)) = m
      BY <3>1, <3>2
    <3> QED
      BY <2>2, <3>3 DEF m
  <2>6. \A k \in 1..Len(backbuffer_stack) - 1 : backbuffer_stack'[k] = backbuffer_stack[k]
    BY <1>2, <2>2
  <2> QED
    BY <2>1, <2>3, <2>4, <2>5, <2>6
<1>4. draws' # None
  BY <1>3, RenderConstants
<1>5. QueueTypes'
  BY <1>1, <1>3 DEF PoolInv, QueueTypes
<1>6. HolderInv'
  BY <1>1, <1>2, <1>4 DEF PoolInv, HolderInv
<1>7. /\ Len(backbuffer_stack) + render_queue_length + One(uploads) = N
      /\ \A k \in Slots : Slot(k) \in Backbuffers
      /\ \A b \in Backbuffers : InPool(b) \/ InSlot(b) \/ uploads = b
  BY <1>2, RenderConstants DEF PoolInv, PlaceInv, One, QueueTypes
<1>8. (Len(backbuffer_stack) + render_queue_length + One(draws) + One(uploads) = N)'
  BY <1>1, <1>2, <1>3, <1>4, <1>7 DEF One, PoolInv, QueueTypes
<1>9. (\A k \in Slots : Slot(k) \in Backbuffers)'
  BY <1>1, <1>7 DEF Slots, Slot
<1>10. ASSUME NEW b \in Backbuffers
       PROVE  (InPool(b) \/ InSlot(b) \/ draws = b \/ uploads = b)'
  <2>1. CASE InPool(b)
    BY <1>2, <1>3, <2>1 DEF InPool
  <2>2. CASE InSlot(b)
    BY <1>1, <2>2 DEF InSlot, Slots, Slot
  <2> QED
    BY <1>1, <1>7, <2>1, <2>2
<1>11. PlaceInv'
  BY <1>8, <1>9, <1>10 DEF PlaceInv
<1> QED
  BY <1>5, <1>6, <1>11 DEF PoolInv

\* The backbuffer that was drawn goes to the end of the queue.
LEMMA EnqueueKeepsPoolInv == PoolInv /\ Enqueue => PoolInv'
<1> SUFFICES ASSUME PoolInv, Enqueue PROVE PoolInv'
  OBVIOUS
<1>1. /\ render_queue_enqueue_for_display(draws)
      /\ UNCHANGED <<backbuffer_stack, render_queue_next, uploads, renderer, ui>>
      /\ vice = "drawn" /\ vice' = "idle" /\ draws' = None
  BY DEF Enqueue, render_queue_enqueue_for_display
<1>2. draws \in Backbuffers /\ ui # "ended" /\ QueueTypes
  BY <1>1 DEF PoolInv, QueueTypes, HolderInv
<1>3. One(draws) = 1 /\ One(draws)' = 0 /\ One(uploads) \in Nat /\ One(uploads)' = One(uploads)
  BY <1>1, <1>2, RenderConstants DEF One
<1>4. /\ Len(backbuffer_stack) + render_queue_length + 1 + One(uploads) = N
      /\ \A k \in Slots : Slot(k) \in Backbuffers
      /\ \A b \in Backbuffers : InPool(b) \/ InSlot(b) \/ draws = b \/ uploads = b
  BY <1>2, <1>3 DEF PoolInv, PlaceInv
<1>5. Len(backbuffer_stack) \in Nat /\ render_queue_length \in Nat /\ render_queue_length < N
  BY <1>2, <1>3, <1>4, SomeBackbuffers DEF QueueTypes
<1>6. /\ render_queue' \in [0..N-1 -> Backbuffers \union {None}]
      /\ render_queue_length' = render_queue_length + 1
      /\ \A k : k = render_queue_length + 1 => Slot(k)' = draws
      /\ \A k \in Slots : Slot(k)' = Slot(k)
  BY <1>1, <1>2, <1>5, EnqueueSlots
<1>7. QueueTypes'
  BY <1>1, <1>2, <1>5, <1>6 DEF QueueTypes
<1>8. HolderInv'
  BY <1>1, <1>2 DEF PoolInv, HolderInv
<1>9. (Len(backbuffer_stack) + render_queue_length + One(draws) + One(uploads) = N)'
  BY <1>1, <1>3, <1>4, <1>5, <1>6
<1>10. Slots' = Slots \union {render_queue_length + 1}
  BY <1>5, <1>6 DEF Slots
<1>11. (\A k \in Slots : Slot(k) \in Backbuffers)'
  BY <1>2, <1>4, <1>6, <1>10
<1>12. ASSUME NEW b \in Backbuffers
       PROVE  (InPool(b) \/ InSlot(b) \/ draws = b \/ uploads = b)'
  <2>1. CASE InPool(b)
    BY <1>1, <2>1 DEF InPool
  <2>2. CASE InSlot(b) \/ draws = b
    BY <1>6, <1>10, <2>2 DEF InSlot
  <2> QED
    BY <1>1, <1>4, <2>1, <2>2
<1>13. PlaceInv'
  BY <1>9, <1>11, <1>12 DEF PlaceInv
<1> QED
  BY <1>7, <1>8, <1>13 DEF PoolInv

\* render_queue_return_to_pool adds the backbuffer, if there is one.
LEMMA ReturnToPool ==
  ASSUME backbuffer_stack \in Seq(Backbuffers), NEW b \in Backbuffers \union {None},
         backbuffer_stack' = render_queue_return_to_pool(b)
  PROVE  /\ backbuffer_stack' \in Seq(Backbuffers)
         /\ Len(backbuffer_stack') = Len(backbuffer_stack) + One(b)
         /\ \A x \in Backbuffers : InPool(x) \/ x = b => InPool(x)'
<1>1. CASE b = None
  BY <1>1, RenderConstants DEF render_queue_return_to_pool, One, InPool
<1>2. CASE b \in Backbuffers
  <2>1. backbuffer_stack' = Append(backbuffer_stack, b) /\ One(b) = 1
    BY <1>2, RenderConstants DEF render_queue_return_to_pool, One
  <2>2. /\ backbuffer_stack' \in Seq(Backbuffers)
        /\ Len(backbuffer_stack') = Len(backbuffer_stack) + 1
        /\ backbuffer_stack'[Len(backbuffer_stack) + 1] = b
        /\ \A k \in 1..Len(backbuffer_stack) : backbuffer_stack'[k] = backbuffer_stack[k]
    BY <1>2, <2>1
  <2>3. Len(backbuffer_stack) \in Nat
    OBVIOUS
  <2> QED
    BY <2>1, <2>2, <2>3 DEF InPool
<1> QED
  BY <1>1, <1>2

\* render_queue_dequeue_for_display takes one backbuffer, if there is one.
LEMMA TakeFromQueue ==
  ASSUME PoolInv, render_queue_dequeue_for_display, UNCHANGED render_queue
  PROVE  /\ Head4Display \in Backbuffers \union {None}
         /\ render_queue_next' \in 0..N-1 /\ render_queue_length' \in Nat
         /\ render_queue_length = render_queue_length' + One(Head4Display)
         /\ \A k \in Slots' : k + 1 \in Slots /\ Slot(k)' = Slot(k + 1)
         /\ \A x \in Backbuffers : InSlot(x) => InSlot(x)' \/ x = Head4Display
<1>1. QueueTypes /\ render_queue_length \in Nat /\ One(None) = 0
  BY DEF PoolInv, QueueTypes, One
<1>2. CASE render_queue_length = 0
  <2>1. /\ Head4Display = None
        /\ UNCHANGED <<render_queue, render_queue_next, render_queue_length>>
    BY <1>2 DEF Head4Display, render_queue_dequeue_for_display
  <2>2. Slots = {} /\ Slots' = {}
    BY <1>2, <2>1 DEF Slots
  <2> QED
    BY <1>1, <1>2, <2>1, <2>2 DEF InSlot, QueueTypes
<1>3. CASE render_queue_length # 0
  <2>0. ui # "ended"
    BY <1>3 DEF PoolInv, HolderInv
  <2>1. /\ \A k \in Slots : Slot(k) \in Backbuffers
        /\ Len(backbuffer_stack) + render_queue_length + One(draws) + One(uploads) = N
    BY <2>0 DEF PoolInv, PlaceInv
  <2>2. Len(backbuffer_stack) \in Nat /\ One(draws) \in Nat /\ One(uploads) \in Nat
    BY <1>1 DEF QueueTypes, One
  <2>3. render_queue_length \in 1..N
    BY <1>1, <1>3, <2>1, <2>2, SomeBackbuffers
  <2>4. /\ render_queue_next' \in 0..N-1
        /\ render_queue_length' = render_queue_length - 1
        /\ Head4Display = Slot(1)
        /\ \A k \in 1..render_queue_length - 1 : Slot(k)' = Slot(k + 1)
    BY <1>1, <2>3, DequeueSlots
  <2>5. Head4Display \in Backbuffers
    BY <1>1, <1>3, <2>1, <2>4 DEF Slots
  <2>6. One(Head4Display) = 1
    BY <2>5, RenderConstants DEF One
  <2>7. \A k \in Slots' : k + 1 \in Slots /\ Slot(k)' = Slot(k + 1)
    BY <1>1, <1>3, <2>4 DEF Slots
  <2>8. ASSUME NEW x \in Backbuffers, InSlot(x), x # Head4Display
        PROVE  InSlot(x)'
    <3>1. PICK k \in Slots : Slot(k) = x
      BY <2>8 DEF InSlot
    <3>2. k # 1
      BY <2>4, <2>8, <3>1
    <3>3. k - 1 \in Slots' /\ k - 1 \in 1..render_queue_length - 1 /\ (k - 1) + 1 = k
      BY <1>1, <2>4, <3>2 DEF Slots
    <3>4. PICK j \in Slots' : j = k - 1 /\ j + 1 = k /\ j \in 1..render_queue_length - 1
      BY <3>3
    <3>5. Slot(j)' = x
      BY <2>4, <3>1, <3>4
    <3> QED
      BY <3>5 DEF InSlot
  <2>9. render_queue_length' \in Nat /\ render_queue_length = render_queue_length' + One(Head4Display)
    BY <1>1, <1>3, <2>4, <2>6
  <2>10. \A x \in Backbuffers : InSlot(x) => InSlot(x)' \/ x = Head4Display
    BY <2>8
  <2> HIDE DEF Slots
  <2> QED
    BY <2>4, <2>5, <2>7, <2>9, <2>10
<1> QED
  BY <1>2, <1>3

\* The frame that has no render thread goes back to the pool.
LEMMA NowhereKeepsPoolInv == PoolInv /\ EnqueueNowhere => PoolInv'
<1> SUFFICES ASSUME PoolInv, EnqueueNowhere PROVE PoolInv'
  OBVIOUS
<1>1. /\ backbuffer_stack' = render_queue_return_to_pool(draws)
      /\ UNCHANGED <<render_queue, render_queue_next, render_queue_length, uploads, renderer, ui>>
      /\ vice = "drawn" /\ vice' = "idle" /\ draws' = None
  BY DEF EnqueueNowhere
<1>2. QueueTypes /\ ui # "ended"
  BY <1>1 DEF PoolInv, HolderInv
<1>3. /\ backbuffer_stack' \in Seq(Backbuffers)
      /\ Len(backbuffer_stack') = Len(backbuffer_stack) + One(draws)
      /\ \A x \in Backbuffers : InPool(x) \/ x = draws => InPool(x)'
  BY <1>1, <1>2, ReturnToPool DEF QueueTypes
<1>4. QueueTypes'
  BY <1>1, <1>2, <1>3 DEF QueueTypes
<1>5. HolderInv'
  BY <1>1, <1>2 DEF PoolInv, HolderInv
<1>6. /\ Len(backbuffer_stack) \in Nat /\ render_queue_length \in Nat
      /\ One(draws) \in Nat /\ One(uploads) \in Nat /\ One(draws)' = 0 /\ One(uploads)' = One(uploads)
  BY <1>1, <1>2 DEF QueueTypes, One
<1>7. (Len(backbuffer_stack) + render_queue_length + One(draws) + One(uploads) = N)'
  BY <1>1, <1>2, <1>3, <1>6 DEF PoolInv, PlaceInv
<1>8. (\A k \in Slots : Slot(k) \in Backbuffers)'
  BY <1>1, <1>2 DEF PoolInv, PlaceInv, Slots, Slot
<1>9. \A x : InSlot(x) => InSlot(x)'
  BY <1>1 DEF InSlot, Slots, Slot
<1>10. (\A b \in Backbuffers : InPool(b) \/ InSlot(b) \/ draws = b \/ uploads = b)'
  BY <1>1, <1>2, <1>3, <1>9 DEF PoolInv, PlaceInv
<1> QED
  BY <1>4, <1>5, <1>7, <1>8, <1>10 DEF PoolInv, PlaceInv

\* A frame that is dropped while a resize goes on: from the queue to the pool.
LEMMA SkipKeepsPoolInv == PoolInv /\ RenderSkips => PoolInv'
<1> SUFFICES ASSUME PoolInv, RenderSkips PROVE PoolInv'
  OBVIOUS
<1>1. /\ backbuffer_stack' = render_queue_return_to_pool(Head4Display)
      /\ render_queue_dequeue_for_display
      /\ UNCHANGED <<render_queue, draws, uploads, vice, ui>>
      /\ renderer = "job" /\ renderer' = "idle"
  BY DEF RenderSkips
<1>2. QueueTypes /\ One(uploads)' = One(uploads) /\ One(draws)' = One(draws)
  BY <1>1 DEF PoolInv, One
<1>3. /\ Head4Display \in Backbuffers \union {None}
      /\ render_queue_next' \in 0..N-1 /\ render_queue_length' \in Nat
      /\ render_queue_length = render_queue_length' + One(Head4Display)
      /\ \A k \in Slots' : k + 1 \in Slots /\ Slot(k)' = Slot(k + 1)
      /\ \A x \in Backbuffers : InSlot(x) => InSlot(x)' \/ x = Head4Display
  BY <1>1, TakeFromQueue
<1>4. /\ backbuffer_stack' \in Seq(Backbuffers)
      /\ Len(backbuffer_stack') = Len(backbuffer_stack) + One(Head4Display)
      /\ \A x \in Backbuffers : InPool(x) \/ x = Head4Display => InPool(x)'
  BY <1>1, <1>2, <1>3, ReturnToPool DEF QueueTypes
<1>5. QueueTypes'
  BY <1>1, <1>2, <1>3, <1>4 DEF QueueTypes
<1>6. One(Head4Display) \in Nat /\ Len(backbuffer_stack) \in Nat /\ One(draws) \in Nat /\ One(uploads) \in Nat
  BY <1>2 DEF One, QueueTypes
<1>7. HolderInv'
  <2>1. render_queue_length = 0 => render_queue_length' = 0
    BY <1>3, <1>6
  <2> QED
    BY <1>1, <2>1 DEF PoolInv, HolderInv
<1>8. ASSUME ui # "ended"
      PROVE  (Len(backbuffer_stack) + render_queue_length + One(draws) + One(uploads) = N)'
  BY <1>2, <1>3, <1>4, <1>6, <1>8 DEF PoolInv, PlaceInv
<1>9. ASSUME ui # "ended"
      PROVE  (\A k \in Slots : Slot(k) \in Backbuffers)'
  BY <1>3, <1>9 DEF PoolInv, PlaceInv
<1>10. ASSUME ui # "ended", NEW b \in Backbuffers
       PROVE  (InPool(b) \/ InSlot(b) \/ draws = b \/ uploads = b)'
  BY <1>1, <1>3, <1>4, <1>10 DEF PoolInv, PlaceInv
<1> QED
  BY <1>1, <1>5, <1>7, <1>8, <1>9, <1>10 DEF PoolInv, PlaceInv

\* A frame that is to be shown: from the queue to the render thread.
LEMMA DequeueKeepsPoolInv == PoolInv /\ RenderDequeues => PoolInv'
<1> SUFFICES ASSUME PoolInv, RenderDequeues PROVE PoolInv'
  OBVIOUS
<1>1. /\ uploads' = Head4Display
      /\ render_queue_dequeue_for_display
      /\ UNCHANGED <<backbuffer_stack, render_queue, draws, vice, ui>>
      /\ renderer = "job" /\ renderer' = "uploading"
  BY DEF RenderDequeues
<1>2. QueueTypes /\ uploads = None
  BY <1>1 DEF PoolInv, HolderInv
<1>3. /\ Head4Display \in Backbuffers \union {None}
      /\ render_queue_next' \in 0..N-1 /\ render_queue_length' \in Nat
      /\ render_queue_length = render_queue_length' + One(Head4Display)
      /\ \A k \in Slots' : k + 1 \in Slots /\ Slot(k)' = Slot(k + 1)
      /\ \A x \in Backbuffers : InSlot(x) => InSlot(x)' \/ x = Head4Display
  BY <1>1, TakeFromQueue
<1>4. QueueTypes'
  BY <1>1, <1>2, <1>3 DEF QueueTypes
<1>5. /\ One(Head4Display) \in Nat /\ Len(backbuffer_stack) \in Nat /\ One(draws) \in Nat
      /\ One(uploads) = 0 /\ One(uploads)' = One(Head4Display) /\ One(draws)' = One(draws)
  BY <1>1, <1>2 DEF One, QueueTypes
<1>6. HolderInv'
  <2>1. render_queue_length = 0 => render_queue_length' = 0
    BY <1>3, <1>5
  <2> QED
    BY <1>1, <2>1 DEF PoolInv, HolderInv
<1>7. ASSUME ui # "ended"
      PROVE  (Len(backbuffer_stack) + render_queue_length + One(draws) + One(uploads) = N)'
  BY <1>1, <1>3, <1>5, <1>7 DEF PoolInv, PlaceInv
<1>8. ASSUME ui # "ended"
      PROVE  (\A k \in Slots : Slot(k) \in Backbuffers)'
  BY <1>3, <1>8 DEF PoolInv, PlaceInv
<1>9. ASSUME ui # "ended", NEW b \in Backbuffers
      PROVE  (InPool(b) \/ InSlot(b) \/ draws = b \/ uploads = b)'
  <2>1. InPool(b) => InPool(b)'
    BY <1>1 DEF InPool
  <2>2. b # None
    BY RenderConstants
  <2> QED
    BY <1>1, <1>2, <1>3, <1>9, <2>1, <2>2 DEF PoolInv, PlaceInv
<1> QED
  BY <1>1, <1>4, <1>6, <1>7, <1>8, <1>9 DEF PoolInv, PlaceInv

\* A frame that was uploaded: from the render thread to the pool.
LEMMA UploadKeepsPoolInv == PoolInv /\ RenderUploads => PoolInv'
<1> SUFFICES ASSUME PoolInv, RenderUploads PROVE PoolInv'
  OBVIOUS
<1>1. /\ backbuffer_stack' = render_queue_return_to_pool(uploads)
      /\ UNCHANGED <<render_queue, render_queue_next, render_queue_length, draws, vice, ui>>
      /\ renderer' = "presenting" /\ uploads' = None
  BY DEF RenderUploads
<1>2. QueueTypes
  BY DEF PoolInv
<1>3. /\ backbuffer_stack' \in Seq(Backbuffers)
      /\ Len(backbuffer_stack') = Len(backbuffer_stack) + One(uploads)
      /\ \A x \in Backbuffers : InPool(x) \/ x = uploads => InPool(x)'
  BY <1>1, <1>2, ReturnToPool DEF QueueTypes
<1>4. QueueTypes'
  BY <1>1, <1>2, <1>3 DEF QueueTypes
<1>5. HolderInv'
  BY <1>1 DEF PoolInv, HolderInv
<1>6. /\ Len(backbuffer_stack) \in Nat /\ render_queue_length \in Nat
      /\ One(draws) \in Nat /\ One(uploads) \in Nat /\ One(uploads)' = 0 /\ One(draws)' = One(draws)
  BY <1>1, <1>2 DEF QueueTypes, One
<1>7. ASSUME ui # "ended"
      PROVE  (Len(backbuffer_stack) + render_queue_length + One(draws) + One(uploads) = N)'
  BY <1>1, <1>3, <1>6, <1>7 DEF PoolInv, PlaceInv
<1>8. ASSUME ui # "ended"
      PROVE  (\A k \in Slots : Slot(k) \in Backbuffers)'
  BY <1>1, <1>8 DEF PoolInv, PlaceInv, Slots, Slot
<1>9. \A x : InSlot(x) => InSlot(x)'
  BY <1>1 DEF InSlot, Slots, Slot
<1>10. ASSUME ui # "ended", NEW b \in Backbuffers
       PROVE  (InPool(b) \/ InSlot(b) \/ draws = b \/ uploads = b)'
  BY <1>1, <1>3, <1>9, <1>10 DEF PoolInv, PlaceInv
<1> QED
  BY <1>1, <1>4, <1>5, <1>7, <1>8, <1>10 DEF PoolInv, PlaceInv

\* main_exit empties the pool and the queue; nothing holds a backbuffer then.
LEMMA DestroyKeepsPoolInv == PoolInv /\ vice_opengl_destroy_context => PoolInv'
<1> SUFFICES ASSUME PoolInv, vice_opengl_destroy_context PROVE PoolInv'
  OBVIOUS
<1>1. /\ backbuffer_stack' = << >> /\ render_queue_length' = 0
      /\ render_queue_next' = (render_queue_next + render_queue_length) % N
      /\ UNCHANGED <<render_queue, draws, uploads, vice, renderer>>
      /\ ui = "joined" /\ vice = "ended" /\ ui' = "ended"
  BY DEF vice_opengl_destroy_context
<1>2. QueueTypes'
  BY <1>1, SomeBackbuffers DEF PoolInv, QueueTypes
<1>3. HolderInv'
  BY <1>1 DEF PoolInv, HolderInv
<1> QED
  BY <1>1, <1>2, <1>3 DEF PoolInv, PlaceInv

\* Every step keeps each backbuffer in a place.
LEMMA StepKeepsPoolInv == PoolInv /\ [Next]_vars => PoolInv'
<1> SUFFICES ASSUME PoolInv, [Next]_vars PROVE PoolInv'
  OBVIOUS
<1> USE FrameKeepsPoolInv DEF HolderInv
<1>0. HolderInv
  BY DEF PoolInv
<1>1. CASE render_queue_get_from_pool
  BY <1>1, GetKeepsPoolInv
<1>2. CASE SkipFrame
  BY <1>0, <1>2 DEF SkipFrame, queueVars
<1>3. CASE video_canvas_render
  BY <1>0, <1>3 DEF video_canvas_render, queueVars
<1>4. CASE Enqueue
  BY <1>4, EnqueueKeepsPoolInv
<1>5. CASE EnqueueNowhere
  BY <1>5, NowhereKeepsPoolInv
<1>6. CASE ViceEnds
  BY <1>0, <1>6 DEF ViceEnds, queueVars
<1>7. CASE TakeJob
  BY <1>0, <1>7 DEF TakeJob, queueVars
<1>8. CASE RenderSkips
  BY <1>8, SkipKeepsPoolInv
<1>9. CASE RenderDequeues
  BY <1>9, DequeueKeepsPoolInv
<1>10. CASE RenderUploads
  BY <1>10, UploadKeepsPoolInv
<1>11. CASE RenderPresents
  BY <1>0, <1>11 DEF RenderPresents, queueVars
<1>12. CASE render_thread_create
  BY <1>0, <1>12 DEF render_thread_create, queueVars
<1>13. CASE vice_opengl_on_ui_frame_clock
  BY <1>0, <1>13 DEF vice_opengl_on_ui_frame_clock, queueVars
<1>14. CASE UpdateDisables
  BY <1>0, <1>14 DEF UpdateDisables, queueVars
<1>15. CASE Update
  BY <1>0, <1>15 DEF Update, UpdateLocks, UpdateUnlocks, UpdateEnables, queueVars
<1>16. CASE render_thread_initiate_shutdown
  BY <1>0, <1>16 DEF render_thread_initiate_shutdown, queueVars
<1>17. CASE render_thread_join
  BY <1>0, <1>17 DEF render_thread_join, queueVars
<1>18. CASE Joined
  BY <1>0, <1>18 DEF Joined, queueVars
<1>19. CASE vice_opengl_destroy_context
  BY <1>19, DestroyKeepsPoolInv
<1>20. CASE UNCHANGED vars
  BY <1>0, <1>20 DEF vars, queueVars
<1> QED
  BY <1>1, <1>2, <1>3, <1>4, <1>5, <1>6, <1>7, <1>8, <1>9, <1>10, <1>11, <1>12, <1>13,
     <1>14, <1>15, <1>16, <1>17, <1>18, <1>19, <1>20 DEF Next, Refresh, RenderJob, OpenGLWork, Exit

\* All places one after the other: the sequence that BackbuffersConserved
\* speaks of.
Everywhere == backbuffer_stack \o Queued \o Own(draws) \o Own(uploads)

\* The elements of a concatenation.
LEMMA ConcatIs ==
  ASSUME NEW s \in Seq(Backbuffers), NEW t \in Seq(Backbuffers)
  PROVE  /\ s \o t \in Seq(Backbuffers) /\ Len(s \o t) = Len(s) + Len(t)
         /\ \A k \in 1..Len(s) : (s \o t)[k] = s[k]
         /\ \A k \in 1..Len(t) : (s \o t)[Len(s) + k] = t[k]
<1>1. s \o t \in Seq(Backbuffers) /\ Len(s \o t) = Len(s) + Len(t)
  OBVIOUS
<1>2. \A k \in 1..Len(s) : (s \o t)[k] = s[k]
  OBVIOUS
<1>3. ASSUME NEW k \in 1..Len(t)
      PROVE  (s \o t)[Len(s) + k] = t[k]
  <2>1. Len(s) + k \in 1..Len(s) + Len(t) /\ ~ (Len(s) + k <= Len(s)) /\ (Len(s) + k) - Len(s) = k
    OBVIOUS
  <2> QED
    BY <2>1, ConcatProperties
<1> QED
  BY <1>1, <1>2, <1>3

\* Its elements, by place.
LEMMA EverywhereIs ==
  ASSUME PoolInv, ui # "ended"
  PROVE  /\ Everywhere \in Seq(Backbuffers)
         /\ Len(Everywhere) = N
         /\ \A k \in 1..Len(backbuffer_stack) : Everywhere[k] = backbuffer_stack[k]
         /\ \A k \in Slots : Everywhere[Len(backbuffer_stack) + k] = Slot(k)
         /\ draws # None => Everywhere[Len(backbuffer_stack) + render_queue_length + 1] = draws
         /\ uploads # None => Everywhere[N] = uploads
<1>1. QueueTypes /\ render_queue_length \in Nat
  BY DEF PoolInv, QueueTypes
<1>2. /\ Len(backbuffer_stack) + render_queue_length + One(draws) + One(uploads) = N
      /\ \A k \in Slots : Slot(k) \in Backbuffers
  BY DEF PoolInv, PlaceInv
<1>3. Queued \in Seq(Backbuffers) /\ Len(Queued) = render_queue_length /\ \A k \in Slots : Queued[k] = Slot(k)
  <2>1. Queued = [k \in Slots |-> Slot(k)]
    BY DEF Queued, Slots, Slot
  <2> HIDE DEF Queued
  <2> QED
    BY <1>1, <1>2, <2>1 DEF Slots
<1>4. ASSUME NEW b \in Backbuffers \union {None}
      PROVE  Own(b) \in Seq(Backbuffers) /\ Len(Own(b)) = One(b) /\ (b # None => Own(b)[1] = b)
  BY RenderConstants DEF Own, One
<1> DEFINE p == backbuffer_stack
           q == Queued
           d == Own(draws)
           u == Own(uploads)
<1>5. /\ p \in Seq(Backbuffers) /\ q \in Seq(Backbuffers) /\ d \in Seq(Backbuffers) /\ u \in Seq(Backbuffers)
      /\ Len(q) = render_queue_length /\ Len(d) = One(draws) /\ Len(u) = One(uploads)
      /\ Len(p) + Len(q) + Len(d) + Len(u) = N
      /\ draws # None => d[1] = draws /\ One(draws) = 1
      /\ uploads # None => u[1] = uploads /\ One(uploads) = 1
      /\ \A k \in Slots : q[k] = Slot(k)
      /\ Slots = 1..Len(q)
  BY <1>1, <1>2, <1>3, <1>4 DEF QueueTypes, One, Slots
<1>6. Everywhere = ((p \o q) \o d) \o u
  BY DEF Everywhere
<1> HIDE DEF p, q, d, u
<1>7. (p \o q) \in Seq(Backbuffers) /\ Len(p \o q) = Len(p) + Len(q)
      /\ (\A k \in 1..Len(p) : (p \o q)[k] = p[k])
      /\ (\A k \in 1..Len(q) : (p \o q)[Len(p) + k] = q[k])
  BY <1>5, ConcatIs
<1>8. PICK pq \in Seq(Backbuffers) : pq = p \o q
  BY <1>7
<1>9. (pq \o d) \in Seq(Backbuffers) /\ Len(pq \o d) = Len(pq) + Len(d)
      /\ (\A k \in 1..Len(pq) : (pq \o d)[k] = pq[k])
      /\ (\A k \in 1..Len(d) : (pq \o d)[Len(pq) + k] = d[k])
  BY <1>5, ConcatIs
<1>10. PICK pqd \in Seq(Backbuffers) : pqd = pq \o d
  BY <1>9
<1>11. (pqd \o u) \in Seq(Backbuffers) /\ Len(pqd \o u) = Len(pqd) + Len(u)
      /\ (\A k \in 1..Len(pqd) : (pqd \o u)[k] = pqd[k])
      /\ (\A k \in 1..Len(u) : (pqd \o u)[Len(pqd) + k] = u[k])
  BY <1>5, ConcatIs
<1>12. Everywhere = pqd \o u /\ Len(pq) = Len(p) + Len(q) /\ Len(pqd) = Len(p) + Len(q) + Len(d)
       /\ Len(p) \in Nat /\ Len(q) \in Nat /\ Len(d) \in Nat /\ Len(u) \in Nat
  BY <1>5, <1>6, <1>7, <1>8, <1>9, <1>10
<1>13. Everywhere \in Seq(Backbuffers) /\ Len(Everywhere) = N
  BY <1>5, <1>11, <1>12
<1>14. \A k \in 1..Len(p) : Everywhere[k] = p[k]
  BY <1>7, <1>8, <1>9, <1>10, <1>11, <1>12
<1>15. \A k \in Slots : Everywhere[Len(p) + k] = Slot(k)
  <2> TAKE k \in Slots
  <2>0. k \in 1..Len(q)
    BY <1>5
  <2>1. Len(p) + k \in 1..Len(pq) /\ Len(p) + k \in 1..Len(pqd)
    BY <1>12, <2>0
  <2> QED
    BY <1>5, <1>7, <1>8, <1>9, <1>10, <1>11, <1>12, <2>0, <2>1
<1>16. draws # None => Everywhere[Len(p) + Len(q) + 1] = draws
  <2> HAVE draws # None
  <2>1. 1 \in 1..Len(d) /\ Len(pq) + 1 \in 1..Len(pqd) /\ Len(p) + Len(q) + 1 = Len(pq) + 1
    BY <1>5, <1>12
  <2> QED
    BY <1>5, <1>9, <1>10, <1>11, <1>12, <2>1
<1>17. uploads # None => Everywhere[N] = uploads
  <2> HAVE uploads # None
  <2>1. 1 \in 1..Len(u) /\ N = Len(pqd) + 1
    BY <1>5, <1>12
  <2> QED
    BY <1>5, <1>11, <1>12, <2>1
<1> QED
  BY <1>5, <1>13, <1>14, <1>15, <1>16, <1>17 DEF p

\* Every backbuffer is among them.
LEMMA EverywhereCovers ==
  ASSUME PoolInv, ui # "ended", NEW b \in Backbuffers
  PROVE  \E k \in 1..N : Everywhere[k] = b
<1>a. QueueTypes /\ Len(backbuffer_stack) + render_queue_length + One(draws) + One(uploads) = N
  BY DEF PoolInv, PlaceInv
<1>0. Len(backbuffer_stack) \in Nat /\ render_queue_length \in Nat /\ One(draws) \in Nat /\ One(uploads) \in Nat
  BY <1>a DEF QueueTypes, One
<1>1. CASE InPool(b)
  <2>1. PICK k \in 1..Len(backbuffer_stack) : backbuffer_stack[k] = b
    BY <1>1 DEF InPool
  <2>2. k \in 1..N /\ Everywhere[k] = b
    BY <1>a, <1>0, <2>1, EverywhereIs
  <2> QED
    BY <2>2
<1>2. CASE InSlot(b)
  <2>1. PICK k \in Slots : Slot(k) = b
    BY <1>2 DEF InSlot
  <2>2. Everywhere[Len(backbuffer_stack) + k] = b
    BY <2>1, EverywhereIs
  <2>3. Len(backbuffer_stack) + k \in 1..N
    BY <1>a, <1>0 DEF Slots
  <2> QED
    BY <2>2, <2>3
<1>3. CASE draws = b
  <2>1. One(draws) = 1 /\ draws # None
    BY <1>3, RenderConstants DEF One
  <2>2. Everywhere[Len(backbuffer_stack) + render_queue_length + 1] = b
    BY <1>3, <2>1, EverywhereIs
  <2>3. Len(backbuffer_stack) + render_queue_length + 1 \in 1..N
    BY <1>a, <1>0, <2>1
  <2> QED
    BY <2>2, <2>3
<1>4. CASE uploads = b
  <2>1. uploads # None /\ N \in 1..N
    BY <1>4, RenderConstants, SomeBackbuffers
  <2> QED
    BY <1>4, <2>1, EverywhereIs
<1> QED
  BY <1>1, <1>2, <1>3, <1>4 DEF PoolInv, PlaceInv

\* Until main_exit every backbuffer is in exactly one place, for any number of
\* backbuffers, frames, redraws and resizes.
THEOREM BackbuffersNeverLost == Spec => []BackbuffersConserved
<1>1. PoolInv => BackbuffersConserved
  <2> SUFFICES ASSUME PoolInv, ui # "ended"
               PROVE  Len(Everywhere) = N /\ ToSet(Everywhere) = Backbuffers
    BY DEF BackbuffersConserved, Everywhere
  <2>1. Everywhere \in Seq(Backbuffers) /\ Len(Everywhere) = N
    BY EverywhereIs
  <2>2. ToSet(Everywhere) \subseteq Backbuffers
    BY <2>1 DEF ToSet
  <2>3. \A b \in Backbuffers : \E k \in 1..N : Everywhere[k] = b
    BY EverywhereCovers
  <2> QED
    BY <2>1, <2>2, <2>3 DEF ToSet
<1> QED
  BY <1>1, InitPoolInv, StepKeepsPoolInv, PTL DEF Spec

-----------------------------------------------------------------------------
(***************************************************************************)
(* The screen.                                                             *)
(***************************************************************************)
Images == [frame : Nat, field : {0, 1}, whole : BOOLEAN]

ScreenTypes ==
  /\ frames \in Nat
  /\ image \in [Backbuffers -> Images]
  /\ current_frame_texture \in Images /\ previous_frame_texture \in Images

\* The frames of the queue are whole, in order, and not older than the screen.
QueueInOrder ==
  /\ \A k \in Slots : /\ image[Slot(k)].whole = TRUE
                      /\ current_frame_texture.frame <= image[Slot(k)].frame
                      /\ image[Slot(k)].frame <= frames
  /\ \A j, k \in Slots : j < k => image[Slot(j)].frame < image[Slot(k)].frame

\* The frame that is uploaded is older than those of the queue.
UploadInOrder ==
  uploads # None =>
    /\ image[uploads].whole = TRUE
    /\ current_frame_texture.frame <= image[uploads].frame /\ image[uploads].frame <= frames
    /\ \A k \in Slots : image[uploads].frame < image[Slot(k)].frame

\* The frame that is drawn is newer than all others.
DrawInOrder ==
  /\ draws # None =>
       /\ image[draws].frame = frames
       /\ \A k \in Slots : image[Slot(k)].frame < frames
       /\ uploads # None => image[uploads].frame < frames
  /\ vice = "drawn" => image[draws].whole = TRUE

\* The textures are whole, and the previous one is of the other field.
TextureInv ==
  /\ current_frame_texture.whole = TRUE /\ previous_frame_texture.whole = TRUE
  /\ previous_frame_texture.frame <= current_frame_texture.frame
  /\ current_frame_texture.frame <= frames
  /\ current_interlace_field = current_frame_texture.field
  /\ previous_frame_texture.frame > 0 =>
       previous_frame_texture.field # current_frame_texture.field

ScreenInv == ScreenTypes /\ QueueInOrder /\ UploadInOrder /\ DrawInOrder /\ TextureInv

-----------------------------------------------------------------------------
\* The queue holds backbuffers, in every state.
LEMMA SlotsHeld == PoolInv => \A k \in Slots : Slot(k) \in Backbuffers
BY DEF PoolInv, HolderInv, PlaceInv, Slots

\* The backbuffer on top of the pool is neither queued nor uploaded: N
\* backbuffers in N places are all different.
LEMMA TopIsFree ==
  ASSUME PoolInv, ui # "ended", backbuffer_stack # << >>
  PROVE  /\ Last(backbuffer_stack) \in Backbuffers
         /\ \A k \in Slots : Slot(k) # Last(backbuffer_stack)
         /\ uploads # None => uploads # Last(backbuffer_stack)
<1>1. Everywhere \in Seq(Backbuffers) /\ Len(Everywhere) = N
  BY EverywhereIs
<1>2. Everywhere \in [1..N -> Backbuffers]
  BY <1>1
<1>3. Everywhere \in Surjection(1..N, Backbuffers)
  BY <1>2, EverywhereCovers DEF Surjection
<1>4. IsFiniteSet(1..N) /\ Cardinality(1..N) = Cardinality(Backbuffers)
  BY SomeBackbuffers, FS_Interval DEF N
<1>5. Everywhere \in Injection(1..N, Backbuffers)
  BY <1>3, <1>4, FS_SurjSameCardinalityImpliesInj
<1>6. \A i, j \in 1..N : Everywhere[i] = Everywhere[j] => i = j
  BY <1>2, <1>5 DEF Injection, IsInjective
<1>7. /\ QueueTypes
      /\ Len(backbuffer_stack) + render_queue_length + One(draws) + One(uploads) = N
  BY DEF PoolInv, PlaceInv
<1>8. /\ Len(backbuffer_stack) \in Nat \ {0} /\ render_queue_length \in Nat
      /\ One(draws) \in Nat /\ One(uploads) \in Nat
  BY <1>7 DEF QueueTypes, One
<1>9. Last(backbuffer_stack) = Everywhere[Len(backbuffer_stack)] /\ Len(backbuffer_stack) \in 1..N
  BY <1>7, <1>8, EverywhereIs DEF Last
<1>10. ASSUME NEW k \in Slots
       PROVE  Slot(k) # Last(backbuffer_stack)
  <2>1. Len(backbuffer_stack) + k \in 1..N /\ Len(backbuffer_stack) + k # Len(backbuffer_stack)
    BY <1>7, <1>8 DEF Slots
  <2>2. Slot(k) = Everywhere[Len(backbuffer_stack) + k]
    BY EverywhereIs
  <2> QED
    BY <1>6, <1>9, <2>1, <2>2
<1>11. ASSUME uploads # None
       PROVE  uploads # Last(backbuffer_stack)
  <2>1. One(uploads) = 1
    BY <1>11 DEF One
  <2>2. N \in 1..N /\ N # Len(backbuffer_stack)
    BY <1>7, <1>8, <2>1, SomeBackbuffers
  <2>3. uploads = Everywhere[N]
    BY <1>11, EverywhereIs
  <2> QED
    BY <1>6, <1>9, <2>2, <2>3
<1> QED
  BY <1>2, <1>9, <1>10, <1>11

\* Init: the screen is blank.
LEMMA InitScreenInv == Init => ScreenInv
BY DEF Init, ScreenInv, ScreenTypes, QueueInOrder, UploadInOrder, DrawInOrder, TextureInv,
       Images, Blank, Slots

\* What leaves the queue, the images, the holders and the textures alone.
LEMMA FrameKeepsScreenInv ==
  ASSUME ScreenInv, UNCHANGED <<queueVars, image, draws, uploads, textures, frames>>,
         vice' = "drawn" => vice = "drawn"
  PROVE  ScreenInv'
<1>1. /\ UNCHANGED <<render_queue, render_queue_next, render_queue_length, image, draws, uploads>>
      /\ UNCHANGED <<current_frame_texture, previous_frame_texture, current_interlace_field, frames>>
  BY DEF queueVars, textures
<1>2. Slots' = Slots /\ \A k : Slot(k)' = Slot(k)
  BY <1>1 DEF Slots, Slot
<1>3. ScreenTypes' /\ TextureInv'
  BY <1>1 DEF ScreenInv, ScreenTypes, TextureInv
<1>4. QueueInOrder'
  BY <1>1, <1>2 DEF ScreenInv, QueueInOrder
<1>5. UploadInOrder'
  BY <1>1, <1>2 DEF ScreenInv, UploadInOrder
<1>6. DrawInOrder'
  BY <1>1, <1>2 DEF ScreenInv, DrawInOrder
<1> QED
  BY <1>3, <1>4, <1>5, <1>6 DEF ScreenInv

\* A new frame is drawn into a backbuffer that nobody else has.
LEMMA GetKeepsScreenInv == PoolInv /\ ScreenInv /\ render_queue_get_from_pool => ScreenInv'
<1> SUFFICES ASSUME PoolInv, ScreenInv, render_queue_get_from_pool PROVE ScreenInv'
  OBVIOUS
<1>1. /\ backbuffer_stack # << >> /\ draws' = Last(backbuffer_stack)
      /\ UNCHANGED <<render_queue, render_queue_next, render_queue_length, uploads>>
      /\ UNCHANGED <<current_frame_texture, previous_frame_texture, current_interlace_field>>
      /\ vice = "idle" /\ vice' = "drawing" /\ frames' = frames + 1
  BY DEF render_queue_get_from_pool, textures
<1>2. PICK f \in {0, 1} :
        image' = [image EXCEPT ![draws'] = [frame |-> frames', field |-> f, whole |-> FALSE]]
  BY DEF render_queue_get_from_pool
<1>3. ui # "ended" /\ QueueTypes
  BY <1>1 DEF PoolInv, HolderInv
<1>4. /\ draws' \in Backbuffers
      /\ \A k \in Slots : Slot(k) # draws'
      /\ uploads # None => uploads # draws'
  BY <1>1, <1>3, TopIsFree
<1>5. Slots' = Slots /\ \A k : Slot(k)' = Slot(k)
  BY <1>1 DEF Slots, Slot
<1>6. frames \in Nat /\ image \in [Backbuffers -> Images] /\ frames' \in Nat
      /\ current_frame_texture.frame \in Nat /\ previous_frame_texture.frame \in Nat
  BY <1>1 DEF ScreenInv, ScreenTypes, Images
<1>7. /\ image'[draws'].frame = frames'
      /\ \A b \in Backbuffers \ {draws'} : image'[b] = image[b]
      /\ image' \in [Backbuffers -> Images]
  BY <1>2, <1>4, <1>6 DEF Images
<1>8. \A k \in Slots : image'[Slot(k)'] = image[Slot(k)] /\ image[Slot(k)].frame \in Nat
  BY <1>4, <1>5, <1>6, <1>7, SlotsHeld DEF Images
<1>9. uploads # None => image'[uploads] = image[uploads] /\ image[uploads].frame \in Nat
  BY <1>3, <1>4, <1>6, <1>7 DEF QueueTypes, Images
<1>10. ScreenTypes'
  BY <1>1, <1>6, <1>7 DEF ScreenInv, ScreenTypes
<1>11. TextureInv'
  BY <1>1, <1>6 DEF ScreenInv, TextureInv
<1>12. QueueInOrder'
  BY <1>1, <1>5, <1>6, <1>8 DEF ScreenInv, QueueInOrder
<1>13. UploadInOrder'
  BY <1>1, <1>5, <1>6, <1>8, <1>9 DEF ScreenInv, UploadInOrder
<1>14. DrawInOrder'
  <2>1. \A k \in Slots' : image'[Slot(k)'].frame < frames'
    BY <1>1, <1>5, <1>6, <1>8 DEF ScreenInv, QueueInOrder
  <2>2. uploads' # None => image'[uploads'].frame < frames'
    BY <1>1, <1>6, <1>9 DEF ScreenInv, UploadInOrder
  <2> QED
    BY <1>1, <1>7, <2>1, <2>2 DEF DrawInOrder
<1> QED
  BY <1>10, <1>11, <1>12, <1>13, <1>14 DEF ScreenInv

\* There is no backbuffer for a frame: the number of the next one is higher.
LEMMA SkipFrameKeepsScreenInv == PoolInv /\ ScreenInv /\ SkipFrame => ScreenInv'
<1> SUFFICES ASSUME PoolInv, ScreenInv, SkipFrame PROVE ScreenInv'
  OBVIOUS
<1>1. /\ UNCHANGED <<render_queue, render_queue_next, render_queue_length, uploads, draws, image>>
      /\ UNCHANGED <<current_frame_texture, previous_frame_texture, current_interlace_field>>
      /\ vice = "idle" /\ vice' = "idle" /\ frames' = frames + 1
  BY DEF SkipFrame, textures, queueVars
<1>2. draws = None /\ QueueTypes
  BY <1>1 DEF PoolInv, HolderInv
<1>3. Slots' = Slots /\ \A k : Slot(k)' = Slot(k)
  BY <1>1 DEF Slots, Slot
<1>4. frames \in Nat /\ image \in [Backbuffers -> Images]
      /\ current_frame_texture.frame \in Nat /\ previous_frame_texture.frame \in Nat
  BY DEF ScreenInv, ScreenTypes, Images
<1>5. /\ \A k \in Slots : image[Slot(k)].frame \in Nat
      /\ uploads # None => image[uploads].frame \in Nat
  BY <1>2, <1>4, SlotsHeld DEF Images, QueueTypes
<1>6. ScreenTypes'
  BY <1>1, <1>4 DEF ScreenInv, ScreenTypes
<1>7. TextureInv'
  BY <1>1, <1>4 DEF ScreenInv, TextureInv
<1>8. QueueInOrder'
  BY <1>1, <1>3, <1>4, <1>5 DEF ScreenInv, QueueInOrder
<1>9. UploadInOrder'
  BY <1>1, <1>3, <1>4, <1>5 DEF ScreenInv, UploadInOrder
<1>10. DrawInOrder'
  BY <1>1, <1>2 DEF DrawInOrder
<1> QED
  BY <1>6, <1>7, <1>8, <1>9, <1>10 DEF ScreenInv

\* video_canvas_render finishes the frame it draws.
LEMMA DrawKeepsScreenInv == PoolInv /\ ScreenInv /\ video_canvas_render => ScreenInv'
<1> SUFFICES ASSUME PoolInv, ScreenInv, video_canvas_render PROVE ScreenInv'
  OBVIOUS
<1>1. /\ UNCHANGED <<render_queue, render_queue_next, render_queue_length, uploads, draws, frames>>
      /\ UNCHANGED <<current_frame_texture, previous_frame_texture, current_interlace_field>>
      /\ image' = [image EXCEPT ![draws].whole = TRUE]
      /\ vice = "drawing"
  BY DEF video_canvas_render, textures, queueVars, counters
<1>2. draws \in Backbuffers /\ draws # None /\ QueueTypes
  BY <1>1 DEF PoolInv, HolderInv, QueueTypes
<1>3. Slots' = Slots /\ \A k : Slot(k)' = Slot(k)
  BY <1>1 DEF Slots, Slot
<1>4. image \in [Backbuffers -> Images]
  BY DEF ScreenInv, ScreenTypes
<1>5. image' \in [Backbuffers -> Images]
  BY <1>1, <1>2, <1>4 DEF Images
<1>6. /\ \A b \in Backbuffers : image'[b].frame = image[b].frame
      /\ \A b \in Backbuffers : image[b].whole = TRUE => image'[b].whole = TRUE
      /\ image'[draws].whole = TRUE
  BY <1>1, <1>2, <1>4 DEF Images
<1>7. ScreenTypes' /\ TextureInv'
  BY <1>1, <1>5 DEF ScreenInv, ScreenTypes, TextureInv
<1>8. QueueInOrder'
  BY <1>1, <1>3, <1>6, SlotsHeld DEF ScreenInv, QueueInOrder
<1>9. UploadInOrder'
  BY <1>1, <1>2, <1>3, <1>6, SlotsHeld DEF ScreenInv, UploadInOrder, QueueTypes
<1>10. DrawInOrder'
  BY <1>1, <1>2, <1>3, <1>6, SlotsHeld DEF ScreenInv, DrawInOrder, QueueTypes
<1> QED
  BY <1>7, <1>8, <1>9, <1>10 DEF ScreenInv

\* The newest frame goes to the end of the queue.
LEMMA EnqueueKeepsScreenInv == PoolInv /\ ScreenInv /\ Enqueue => ScreenInv'
<1> SUFFICES ASSUME PoolInv, ScreenInv, Enqueue PROVE ScreenInv'
  OBVIOUS
<1>1. /\ render_queue_enqueue_for_display(draws)
      /\ UNCHANGED <<image, uploads, frames>>
      /\ UNCHANGED <<current_frame_texture, previous_frame_texture, current_interlace_field>>
      /\ vice = "drawn" /\ vice' = "idle" /\ draws' = None
  BY DEF Enqueue, textures, counters
<1>2. draws \in Backbuffers /\ draws # None /\ ui # "ended" /\ QueueTypes
  BY <1>1 DEF PoolInv, HolderInv, QueueTypes
<1>3. Len(backbuffer_stack) \in Nat /\ render_queue_length \in Nat /\ One(draws) = 1 /\ One(uploads) \in Nat
  BY <1>2 DEF QueueTypes, One
<1>4. render_queue_length < N
  BY <1>2, <1>3, SomeBackbuffers DEF PoolInv, PlaceInv
<1>5. /\ render_queue_length' = render_queue_length + 1
      /\ \A k : k = render_queue_length + 1 => Slot(k)' = draws
      /\ \A k \in Slots : Slot(k)' = Slot(k)
  BY <1>1, <1>2, <1>4, EnqueueSlots
<1>6. Slots' = Slots \union {render_queue_length + 1} /\ \A k \in Slots : k < render_queue_length + 1
  BY <1>3, <1>5 DEF Slots
<1>7. frames \in Nat /\ image \in [Backbuffers -> Images] /\ current_frame_texture.frame \in Nat
  BY DEF ScreenInv, ScreenTypes, Images
<1>8. /\ image[draws].whole = TRUE /\ image[draws].frame = frames
      /\ \A k \in Slots : image[Slot(k)].frame < frames
      /\ uploads # None => image[uploads].frame < frames
  BY <1>1, <1>2 DEF ScreenInv, DrawInOrder
<1>9. ScreenTypes' /\ TextureInv'
  BY <1>1 DEF ScreenInv, ScreenTypes, TextureInv
<1>10. current_frame_texture.frame <= frames
  BY DEF ScreenInv, TextureInv
<1>11. (\A k \in Slots : /\ image[Slot(k)].whole = TRUE
                         /\ current_frame_texture.frame <= image[Slot(k)].frame
                         /\ image[Slot(k)].frame <= frames)'
  BY <1>1, <1>5, <1>6, <1>7, <1>8, <1>10 DEF ScreenInv, QueueInOrder
<1>12. ASSUME NEW j \in Slots', NEW k \in Slots', j < k
       PROVE  image'[Slot(j)'].frame < image'[Slot(k)'].frame
  <2>1. j \in Slots
    BY <1>3, <1>6, <1>12 DEF Slots
  <2> QED
    BY <1>1, <1>5, <1>6, <1>8, <1>12, <2>1 DEF ScreenInv, QueueInOrder
<1>13. QueueInOrder'
  BY <1>11, <1>12 DEF QueueInOrder
<1>14. UploadInOrder'
  BY <1>1, <1>5, <1>6, <1>8 DEF ScreenInv, UploadInOrder
<1>15. DrawInOrder'
  BY <1>1 DEF DrawInOrder
<1> QED
  BY <1>9, <1>13, <1>14, <1>15 DEF ScreenInv

\* A frame that is dropped before it got to the queue.
LEMMA NowhereKeepsScreenInv == ScreenInv /\ EnqueueNowhere => ScreenInv'
<1> SUFFICES ASSUME ScreenInv, EnqueueNowhere PROVE ScreenInv'
  OBVIOUS
<1>1. /\ UNCHANGED <<render_queue, render_queue_next, render_queue_length, image, uploads, frames>>
      /\ UNCHANGED <<current_frame_texture, previous_frame_texture, current_interlace_field>>
      /\ vice' = "idle" /\ draws' = None
  BY DEF EnqueueNowhere, textures, counters
<1>2. Slots' = Slots /\ \A k : Slot(k)' = Slot(k)
  BY <1>1 DEF Slots, Slot
<1>3. ScreenTypes' /\ TextureInv'
  BY <1>1 DEF ScreenInv, ScreenTypes, TextureInv
<1>4. QueueInOrder'
  BY <1>1, <1>2 DEF ScreenInv, QueueInOrder
<1>5. UploadInOrder'
  BY <1>1, <1>2 DEF ScreenInv, UploadInOrder
<1>6. DrawInOrder'
  BY <1>1 DEF DrawInOrder
<1> QED
  BY <1>3, <1>4, <1>5, <1>6 DEF ScreenInv

\* What is left in the queue when its first frame was taken.
LEMMA RestOfQueue ==
  ASSUME PoolInv, ScreenInv, render_queue_dequeue_for_display,
         UNCHANGED <<render_queue, image, frames, current_frame_texture>>
  PROVE  /\ QueueInOrder'
         /\ \A k \in Slots' : k + 1 \in Slots /\ Slot(k)' = Slot(k + 1)
         /\ Head4Display # None =>
              /\ 1 \in Slots /\ Head4Display = Slot(1)
              /\ \A k \in Slots' : image[Head4Display].frame < image'[Slot(k)'].frame
<1>1. \A k \in Slots' : k + 1 \in Slots /\ Slot(k)' = Slot(k + 1)
  BY TakeFromQueue
<1>2. \A k \in Slots' : k \in Nat
  BY TakeFromQueue DEF Slots
<1>3. (\A k \in Slots : /\ image[Slot(k)].whole = TRUE
                        /\ current_frame_texture.frame <= image[Slot(k)].frame
                        /\ image[Slot(k)].frame <= frames)'
  BY <1>1 DEF ScreenInv, QueueInOrder
<1>4. ASSUME NEW j \in Slots', NEW k \in Slots', j < k
      PROVE  image'[Slot(j)'].frame < image'[Slot(k)'].frame
  <2>1. j + 1 \in Slots /\ k + 1 \in Slots /\ Slot(j)' = Slot(j + 1) /\ Slot(k)' = Slot(k + 1)
    BY <1>1
  <2>2. j + 1 < k + 1
    BY <1>2, <1>4
  <2> QED
    BY <2>1, <2>2 DEF ScreenInv, QueueInOrder
<1>5. QueueInOrder'
  BY <1>3, <1>4 DEF QueueInOrder
<1>6. ASSUME Head4Display # None
      PROVE  /\ 1 \in Slots /\ Head4Display = Slot(1)
             /\ \A k \in Slots' : image[Head4Display].frame < image'[Slot(k)'].frame
  <2>1. QueueTypes /\ render_queue_length \in Nat \ {0}
    BY <1>6 DEF PoolInv, QueueTypes, Head4Display
  <2>2. 1 \in Slots
    BY <2>1 DEF Slots
  <2>3. Head4Display = Slot(1)
    <3>1. render_queue_next + 1 - 1 = render_queue_next /\ render_queue_next % N = render_queue_next
      BY <2>1, SomeBackbuffers, RingPlaceSame DEF QueueTypes
    <3> QED
      BY <2>1, <3>1 DEF Head4Display, Slot
  <2>4. ASSUME NEW k \in Slots'
        PROVE  image[Slot(1)].frame < image'[Slot(k)'].frame
    <3>1. k + 1 \in Slots /\ Slot(k)' = Slot(k + 1) /\ 1 < k + 1
      <4>1. k \in Nat /\ k > 0
        BY TakeFromQueue DEF Slots
      <4> QED
        BY <1>1, <4>1
    <3> QED
      BY <2>2, <3>1 DEF ScreenInv, QueueInOrder
  <2> QED
    BY <2>2, <2>3, <2>4
<1> QED
  BY <1>1, <1>5, <1>6

\* A frame is dropped from the queue.
LEMMA SkipKeepsScreenInv == PoolInv /\ ScreenInv /\ RenderSkips => ScreenInv'
<1> SUFFICES ASSUME PoolInv, ScreenInv, RenderSkips PROVE ScreenInv'
  OBVIOUS
<1>1. /\ render_queue_dequeue_for_display
      /\ UNCHANGED <<render_queue, image, draws, uploads, frames, vice>>
      /\ UNCHANGED <<current_frame_texture, previous_frame_texture, current_interlace_field>>
      /\ renderer = "job"
  BY DEF RenderSkips, textures, counters
<1>2. QueueInOrder' /\ \A k \in Slots' : k + 1 \in Slots /\ Slot(k)' = Slot(k + 1)
  BY <1>1, RestOfQueue
<1>3. uploads = None
  BY <1>1 DEF PoolInv, HolderInv
<1>4. ScreenTypes' /\ TextureInv'
  BY <1>1 DEF ScreenInv, ScreenTypes, TextureInv
<1>5. UploadInOrder'
  BY <1>1, <1>3 DEF UploadInOrder
<1>6. DrawInOrder'
  BY <1>1, <1>2 DEF ScreenInv, DrawInOrder
<1> QED
  BY <1>2, <1>4, <1>5, <1>6 DEF ScreenInv

\* The render thread takes the oldest frame of the queue.
LEMMA DequeueKeepsScreenInv == PoolInv /\ ScreenInv /\ RenderDequeues => ScreenInv'
<1> SUFFICES ASSUME PoolInv, ScreenInv, RenderDequeues PROVE ScreenInv'
  OBVIOUS
<1>1. /\ render_queue_dequeue_for_display /\ uploads' = Head4Display
      /\ UNCHANGED <<render_queue, image, draws, frames, vice>>
      /\ UNCHANGED <<current_frame_texture, previous_frame_texture, current_interlace_field>>
  BY DEF RenderDequeues, textures, counters
<1>2. /\ QueueInOrder'
      /\ \A k \in Slots' : k + 1 \in Slots /\ Slot(k)' = Slot(k + 1)
      /\ Head4Display # None =>
           /\ 1 \in Slots /\ Head4Display = Slot(1)
           /\ \A k \in Slots' : image[Head4Display].frame < image'[Slot(k)'].frame
  BY <1>1, RestOfQueue
<1>3. ScreenTypes' /\ TextureInv'
  BY <1>1 DEF ScreenInv, ScreenTypes, TextureInv
<1>4. UploadInOrder'
  BY <1>1, <1>2 DEF ScreenInv, QueueInOrder, UploadInOrder
<1>5. DrawInOrder'
  BY <1>1, <1>2 DEF ScreenInv, DrawInOrder
<1> QED
  BY <1>2, <1>3, <1>4, <1>5 DEF ScreenInv

\* What an upload does to the screen.
LEMMA UploadShows ==
  ASSUME PoolInv, ScreenInv, RenderUploads
  PROVE  /\ current_frame_texture' \in Images /\ previous_frame_texture' \in Images
         /\ TextureInv'
         /\ current_frame_texture'.frame >= current_frame_texture.frame
         /\ previous_frame_texture'.frame >= previous_frame_texture.frame
         /\ uploads # None => current_frame_texture' = image[uploads]
         /\ uploads = None => current_frame_texture' = current_frame_texture
<1>1. /\ frames \in Nat /\ image \in [Backbuffers -> Images] /\ frames' = frames
      /\ current_frame_texture \in Images /\ previous_frame_texture \in Images
  BY DEF ScreenInv, ScreenTypes, RenderUploads, counters
<1>2. current_frame_texture.frame \in Nat /\ previous_frame_texture.frame \in Nat
  BY <1>1 DEF Images
<1>3. CASE uploads = None
  <2>1. UNCHANGED <<current_frame_texture, previous_frame_texture, current_interlace_field>>
    BY <1>3 DEF RenderUploads, textures
  <2> QED
    BY <1>1, <1>2, <1>3, <2>1 DEF ScreenInv, TextureInv
<1>4. CASE uploads # None
  <2>1. PICK i : i = image[uploads]
    OBVIOUS
  <2>2. /\ i \in Images /\ i.whole = TRUE /\ i.frame \in Nat /\ i.field \in {0, 1}
        /\ current_frame_texture.frame <= i.frame /\ i.frame <= frames
    BY <1>1, <1>4, <2>1 DEF PoolInv, QueueTypes, ScreenInv, UploadInOrder, Images
  <2>3. /\ current_frame_texture' = i /\ current_interlace_field' = i.field
        /\ previous_frame_texture' = IF i.field = current_interlace_field
                                     THEN previous_frame_texture ELSE current_frame_texture
    BY <1>4, <2>1 DEF RenderUploads, update_frame_textures
  <2>4. TextureInv
    BY DEF ScreenInv
  <2>5. CASE i.field = current_interlace_field
    BY <1>1, <1>2, <1>4, <2>1, <2>2, <2>3, <2>4, <2>5 DEF TextureInv
  <2>6. CASE i.field # current_interlace_field
    BY <1>1, <1>2, <1>4, <2>1, <2>2, <2>3, <2>4, <2>6 DEF TextureInv
  <2> QED
    BY <2>5, <2>6
<1> QED
  BY <1>3, <1>4

\* The frame of the render thread gets on the screen.
LEMMA UploadKeepsScreenInv == PoolInv /\ ScreenInv /\ RenderUploads => ScreenInv'
<1> SUFFICES ASSUME PoolInv, ScreenInv, RenderUploads PROVE ScreenInv'
  OBVIOUS
<1>1. /\ UNCHANGED <<render_queue, render_queue_next, render_queue_length, image, draws, frames, vice>>
      /\ uploads' = None
  BY DEF RenderUploads, counters
<1>2. Slots' = Slots /\ \A k : Slot(k)' = Slot(k)
  BY <1>1 DEF Slots, Slot
<1>3. ScreenTypes' /\ TextureInv'
  BY <1>1, UploadShows DEF ScreenInv, ScreenTypes
<1>4. \A k \in Slots : current_frame_texture'.frame <= image[Slot(k)].frame
  <2> TAKE k \in Slots
  <2>1. image \in [Backbuffers -> Images] /\ Slot(k) \in Backbuffers
    BY SlotsHeld DEF ScreenInv, ScreenTypes
  <2>2. CASE uploads = None
    BY <2>2, UploadShows DEF ScreenInv, QueueInOrder
  <2>3. CASE uploads # None
    <3>1. image[uploads].frame < image[Slot(k)].frame /\ current_frame_texture' = image[uploads]
      BY <2>3, UploadShows DEF ScreenInv, UploadInOrder
    <3>2. image[uploads].frame \in Nat /\ image[Slot(k)].frame \in Nat
      BY <2>1, <2>3 DEF PoolInv, QueueTypes, Images
    <3> QED
      BY <3>1, <3>2
  <2> QED
    BY <2>2, <2>3
<1>5. QueueInOrder'
  BY <1>1, <1>2, <1>4 DEF ScreenInv, QueueInOrder
<1>6. UploadInOrder'
  BY <1>1 DEF UploadInOrder
<1>7. DrawInOrder'
  BY <1>1, <1>2 DEF ScreenInv, DrawInOrder
<1> QED
  BY <1>3, <1>5, <1>6, <1>7 DEF ScreenInv

\* main_exit: nothing is queued any more.
LEMMA DestroyKeepsScreenInv == ScreenInv /\ vice_opengl_destroy_context => ScreenInv'
<1> SUFFICES ASSUME ScreenInv, vice_opengl_destroy_context PROVE ScreenInv'
  OBVIOUS
<1>1. /\ UNCHANGED <<image, draws, uploads, frames, vice>> /\ render_queue_length' = 0
      /\ UNCHANGED <<current_frame_texture, previous_frame_texture, current_interlace_field>>
  BY DEF vice_opengl_destroy_context, textures, counters
<1>2. Slots' = {}
  BY <1>1 DEF Slots
<1>3. ScreenTypes' /\ TextureInv'
  BY <1>1 DEF ScreenInv, ScreenTypes, TextureInv
<1>4. QueueInOrder' /\ UploadInOrder' /\ DrawInOrder'
  BY <1>1, <1>2 DEF ScreenInv, QueueInOrder, UploadInOrder, DrawInOrder
<1> QED
  BY <1>3, <1>4 DEF ScreenInv

\* Every step keeps the frames in order.
LEMMA StepKeepsScreenInv == PoolInv /\ ScreenInv /\ [Next]_vars => ScreenInv'
<1> SUFFICES ASSUME PoolInv, ScreenInv, [Next]_vars PROVE ScreenInv'
  OBVIOUS
<1> USE FrameKeepsScreenInv DEF counters
<1>1. CASE render_queue_get_from_pool
  BY <1>1, GetKeepsScreenInv
<1>2. CASE SkipFrame
  BY <1>2, SkipFrameKeepsScreenInv
<1>3. CASE video_canvas_render
  BY <1>3, DrawKeepsScreenInv
<1>4. CASE Enqueue
  BY <1>4, EnqueueKeepsScreenInv
<1>5. CASE EnqueueNowhere
  BY <1>5, NowhereKeepsScreenInv
<1>6. CASE ViceEnds
  BY <1>6 DEF ViceEnds
<1>7. CASE TakeJob
  BY <1>7 DEF TakeJob
<1>8. CASE RenderSkips
  BY <1>8, SkipKeepsScreenInv
<1>9. CASE RenderDequeues
  BY <1>9, DequeueKeepsScreenInv
<1>10. CASE RenderUploads
  BY <1>10, UploadKeepsScreenInv
<1>11. CASE RenderPresents
  BY <1>11 DEF RenderPresents
<1>12. CASE render_thread_create
  BY <1>12 DEF render_thread_create
<1>13. CASE vice_opengl_on_ui_frame_clock
  BY <1>13 DEF vice_opengl_on_ui_frame_clock
<1>14. CASE UpdateDisables
  BY <1>14 DEF UpdateDisables
<1>15. CASE Update
  BY <1>15 DEF Update, UpdateLocks, UpdateUnlocks, UpdateEnables
<1>16. CASE render_thread_initiate_shutdown
  BY <1>16 DEF render_thread_initiate_shutdown
<1>17. CASE render_thread_join
  BY <1>17 DEF render_thread_join
<1>18. CASE Joined
  BY <1>18 DEF Joined
<1>19. CASE vice_opengl_destroy_context
  BY <1>19, DestroyKeepsScreenInv
<1>20. CASE UNCHANGED vars
  BY <1>20 DEF vars
<1> QED
  BY <1>1, <1>2, <1>3, <1>4, <1>5, <1>6, <1>7, <1>8, <1>9, <1>10, <1>11, <1>12, <1>13,
     <1>14, <1>15, <1>16, <1>17, <1>18, <1>19, <1>20 DEF Next, Refresh, RenderJob, OpenGLWork, Exit

\* What is on the screen is drawn to the end, and the textures of an interlaced
\* picture hold different fields.
THEOREM ScreenIsRight == Spec => []TexturesRight
<1>1. ScreenInv => TexturesRight
  BY DEF ScreenInv, TextureInv, TexturesRight
<1> QED
  BY <1>1, InitPoolInv, InitScreenInv, StepKeepsPoolInv, StepKeepsScreenInv, PTL DEF Spec

\* The screen never goes back to an earlier frame, whatever the three threads
\* do and however often frames are skipped, dropped or shown again.
THEOREM ScreenNeverGoesBack == Spec => ShownInOrder
<1> DEFINE Forward == /\ current_frame_texture'.frame >= current_frame_texture.frame
                      /\ previous_frame_texture'.frame >= previous_frame_texture.frame
<1>1. ASSUME PoolInv, ScreenInv, [Next]_vars
      PROVE  [Forward]_textures
  <2>1. CASE RenderUploads
    BY <1>1, <2>1, UploadShows
  <2>2. CASE UNCHANGED textures
    BY <2>2
  <2> QED
    BY <1>1, <2>1, <2>2 DEF Next, Refresh, RenderJob, OpenGLWork, Update, Exit, vars,
       render_queue_get_from_pool, SkipFrame, video_canvas_render, Enqueue, EnqueueNowhere, ViceEnds,
       TakeJob, RenderSkips, RenderDequeues, RenderPresents, render_thread_create,
       vice_opengl_on_ui_frame_clock, UpdateDisables, UpdateLocks, UpdateUnlocks, UpdateEnables,
       render_thread_initiate_shutdown, render_thread_join, Joined, vice_opengl_destroy_context
<1> QED
  BY <1>1, InitPoolInv, InitScreenInv, StepKeepsPoolInv, StepKeepsScreenInv, PTL
     DEF Spec, ShownInOrder
=============================================================================
