---------------------------- MODULE PauseProofs ----------------------------
(***************************************************************************)
(* Proofs about module Pause, for any number of user actions: the vsync    *)
(* callbacks are called once and in order, a pause takes hold, and a frame *)
(* advance emulates one frame.                                             *)
(***************************************************************************)
EXTENDS Pause, SequenceTheorems, TLAPS

\* Callback c still has to be called: it is in the rest of the queue that is
\* run, or in the one that collects.  (The queue that was run is emptied.)
Waits(c) ==
  \/ \E n \in i .. Len(executing_queue) : executing_queue[n] = c
  \/ \E n \in 1 .. Len(callback_queue) : callback_queue[n] = c

Running == pc \in {"callbacks", "sleep"}

QueueTypes ==
  /\ callback_queues \in [{0, 1} -> Seq(Nat)]
  /\ callback_queue_index \in {0, 1}
  /\ i \in Nat /\ i > 0
  /\ ran \in Seq(Nat) /\ shots \in Nat

\* The queue that is run is the pause loop's while that sleeps, and empty when
\* no queue is run.
QueuePlace ==
  /\ ~Running => executing_queue = <<>>
  /\ pc = "sleep" => i <= Len(executing_queue) /\ executing_queue[i] = pause_loop

\* The screenshots that were made and those that wait are all that were asked
\* for, and both queues are in order, the running one first.
QueueOrder ==
  /\ Len(ran) <= shots /\ \A n \in 1 .. Len(ran) : ran[n] = n
  /\ \A c \in Nat \ {pause_loop} : Waits(c) <=> Len(ran) < c /\ c <= shots
  /\ \A m, n \in i .. Len(executing_queue) :
       m < n /\ executing_queue[m] # pause_loop /\ executing_queue[n] # pause_loop
         => executing_queue[m] < executing_queue[n]
  /\ \A m, n \in 1 .. Len(callback_queue) :
       m < n /\ callback_queue[m] # pause_loop /\ callback_queue[n] # pause_loop
         => callback_queue[m] < callback_queue[n]
  /\ \A m \in i .. Len(executing_queue), n \in 1 .. Len(callback_queue) :
       executing_queue[m] # pause_loop /\ callback_queue[n] # pause_loop
         => executing_queue[m] < callback_queue[n]

QueueInv == QueueTypes /\ QueuePlace /\ QueueOrder

\* A pause has its loop queued, or has left it for the monitor, whose trap no
\* reset can drop before it is called.
HoldInv ==
  /\ armed \in Nat /\ batch \in Nat
  /\ is_paused => \/ Waits(pause_loop)
                  \/ batch # 0 /\ pc = "traps"
                  \/ armed # 0 /\ pc \in {"callbacks", "sleep", "execute", "cpu"}

\* After the frame the emulation stays paused and does not come back to the CPU
\* except on its way into the monitor.
FrameOver ==
  advanced = 1 =>
    /\ is_paused
    /\ \/ pc \in {"execute", "callbacks", "sleep"}
       \/ pc = "cpu" /\ armed # 0
       \/ pc = "traps" /\ batch # 0

\* Before the end of the frame it is remembered that a pause follows; unless
\* the user was hasty, the loop that was queued finds the pause switched off.
FrameAhead ==
  advanced = 0 =>
    /\ pause_pending
    /\ hasty \/ /\ reset = "no" /\ pc # "monitor"
                /\ pc \in {"execute", "callbacks", "sleep"} => ~is_paused
                /\ pc = "sleep" => ~calm

AdvanceInv ==
  /\ advanced \in {-1, 0, 1}
  /\ FrameOver /\ FrameAhead
  /\ pc = "reset" => reset = "pending"
  /\ pc = "monitor" /\ calm => ~is_paused
  /\ pc \in {"cpu", "execute", "callbacks", "sleep", "traps", "reset", "monitor",
             "monitor_pause", "monitor_sleep"}
-----------------------------------------------------------------------------
(* The two queues. *)

\* Both queues are sequences of callbacks.
LEMMA TwoQueues ==
  ASSUME QueueTypes
  PROVE  /\ callback_queue \in Seq(Nat) /\ executing_queue \in Seq(Nat)
         /\ callback_queue_index \in {0, 1} /\ 1 - callback_queue_index \in {0, 1}
         /\ callback_queue_index # 1 - callback_queue_index
BY DEF QueueTypes, callback_queue, executing_queue

\* vsync_on_vsync_do appends to the queue that collects.
LEMMA Enqueued ==
  ASSUME QueueTypes, NEW c \in Nat, vsync_on_vsync_do(c),
         UNCHANGED callback_queue_index
  PROVE  /\ callback_queues' \in [{0, 1} -> Seq(Nat)]
         /\ callback_queue' = Append(callback_queue, c)
         /\ executing_queue' = executing_queue
BY TwoQueues DEF QueueTypes, callback_queue, executing_queue, vsync_on_vsync_do

\* execute_vsync_callbacks exchanges the queues.
LEMMA Exchanged ==
  ASSUME QueueTypes, callback_queue_index' = 1 - callback_queue_index,
         UNCHANGED callback_queues
  PROVE  /\ callback_queue_index' \in {0, 1}
         /\ callback_queue' = executing_queue /\ executing_queue' = callback_queue
BY DEF QueueTypes, callback_queue, executing_queue

\* The queue that was run is emptied.
LEMMA Emptied ==
  ASSUME QueueTypes, QueueDone
  PROVE  /\ callback_queues' \in [{0, 1} -> Seq(Nat)]
         /\ callback_queue' = callback_queue /\ executing_queue' = <<>>
BY TwoQueues DEF QueueTypes, callback_queue, executing_queue, QueueDone

\* Nothing happens to the queues.
LEMMA Untouched ==
  ASSUME UNCHANGED queueVars
  PROVE  callback_queue' = callback_queue /\ executing_queue' = executing_queue
BY DEF queueVars, callback_queue, executing_queue

\* A pause loop that is called, queued, or both disturbs no screenshot.
LEMMA LoopKeepsOrder ==
  ASSUME QueueTypes, QueueOrder,
         \/ callback_queue' = callback_queue
         \/ callback_queue' = Append(callback_queue, pause_loop),
         executing_queue' = executing_queue,
         \/ i' = i
         \/ i' = i + 1 /\ i <= Len(executing_queue) /\ executing_queue[i] = pause_loop,
         ran' = ran, shots' = shots
  PROVE  QueueOrder'
<1> DEFINE q == callback_queue
           e == executing_queue
           q1 == callback_queue'
<1>1. q \in Seq(Nat) /\ e \in Seq(Nat) /\ i \in Nat /\ i > 0
  BY TwoQueues DEF QueueTypes
<1>2. /\ q1 \in Seq(Nat) /\ Len(q1) >= Len(q)
      /\ \A n \in 1 .. Len(q) : q1[n] = q[n]
      /\ \A n \in 1 .. Len(q1) : n > Len(q) => q1[n] = pause_loop
  <2>1. CASE q1 = q
    BY <1>1, <2>1
  <2>2. CASE q1 = Append(q, pause_loop)
    <3>1. pause_loop \in Nat
      BY DEF pause_loop
    <3>2. q1 \in Seq(Nat) /\ Len(q1) = Len(q) + 1 /\ q1[Len(q) + 1] = pause_loop
      BY <1>1, <2>2, <3>1
    <3>3. \A n \in 1 .. Len(q) : q1[n] = q[n]
      BY <1>1, <2>2
    <3>4. \A n \in 1 .. Len(q1) : n > Len(q) => n = Len(q) + 1
      BY <1>1, <3>2
    <3> QED BY <1>1, <3>2, <3>3, <3>4
  <2> QED BY <2>1, <2>2
<1>3. \A n \in i' .. Len(e) : n \in i .. Len(e)
  BY <1>1
<1>4. \A n \in 1 .. Len(q1) : q1[n] # pause_loop => n \in 1 .. Len(q) /\ q1[n] = q[n]
  BY <1>1, <1>2
<1>5. \A n \in i .. Len(e) : e[n] # pause_loop => n \in i' .. Len(e)
  BY <1>1
<1>6. \A c \in Nat \ {pause_loop} : Waits(c)' <=> Waits(c)
  <2> TAKE c \in Nat \ {pause_loop}
  <2>1. ASSUME Waits(c)' PROVE Waits(c)
    <3>1. CASE \E n \in i' .. Len(e) : e[n] = c
      BY <3>1, <1>3 DEF Waits
    <3>2. CASE \E n \in 1 .. Len(q1) : q1[n] = c
      BY <3>2, <1>4 DEF Waits
    <3> QED BY <3>1, <3>2, <2>1 DEF Waits
  <2>2. ASSUME Waits(c) PROVE Waits(c)'
    <3>1. CASE \E n \in i .. Len(e) : e[n] = c
      BY <3>1, <1>5 DEF Waits
    <3>2. CASE \E n \in 1 .. Len(q) : q[n] = c
      <4>1. PICK n \in 1 .. Len(q) : q[n] = c
        BY <3>2
      <4>2. n \in 1 .. Len(q1) /\ q1[n] = c
        BY <4>1, <1>1, <1>2
      <4> QED BY <4>2 DEF Waits
    <3> QED BY <3>1, <3>2, <2>2 DEF Waits
  <2> QED BY <2>1, <2>2
<1>7. /\ Len(ran') <= shots' /\ \A n \in 1 .. Len(ran') : ran'[n] = n
      /\ \A c \in Nat \ {pause_loop} : Waits(c)' <=> Len(ran') < c /\ c <= shots'
  BY <1>6 DEF QueueOrder
<1>8. \A m, n \in i' .. Len(e) :
        m < n /\ e[m] # pause_loop /\ e[n] # pause_loop => e[m] < e[n]
  BY <1>3 DEF QueueOrder
<1>9. \A m, n \in 1 .. Len(q1) :
        m < n /\ q1[m] # pause_loop /\ q1[n] # pause_loop => q1[m] < q1[n]
  BY <1>4 DEF QueueOrder
<1>10. \A m \in i' .. Len(e), n \in 1 .. Len(q1) :
         e[m] # pause_loop /\ q1[n] # pause_loop => e[m] < q1[n]
  BY <1>3, <1>4 DEF QueueOrder
<1> QED BY <1>7, <1>8, <1>9, <1>10 DEF QueueOrder

\* A screenshot that is asked for goes to the end.
LEMMA AskKeepsOrder ==
  ASSUME QueueTypes, QueueOrder,
         callback_queue' = Append(callback_queue, shots + 1),
         executing_queue' = executing_queue, i' = i,
         ran' = ran, shots' = shots + 1
  PROVE  QueueOrder'
<1> DEFINE q == callback_queue
           e == executing_queue
           q1 == callback_queue'
<1>1. /\ q \in Seq(Nat) /\ e \in Seq(Nat) /\ i \in Nat /\ i > 0 /\ shots \in Nat
      /\ ran \in Seq(Nat)
  BY TwoQueues DEF QueueTypes
<1>2. /\ q1 \in Seq(Nat) /\ Len(q1) = Len(q) + 1
      /\ \A n \in 1 .. Len(q) : q1[n] = q[n]
      /\ q1[Len(q1)] = shots + 1
  BY <1>1
<1> HIDE DEF q1
<1>21. \A n \in 1 .. Len(q1) : n # Len(q1) => n \in 1 .. Len(q) /\ q1[n] = q[n]
  BY <1>1, <1>2
<1> USE DEF q1
<1>3. \A c \in Nat \ {pause_loop} : Waits(c)' <=> (Waits(c) \/ c = shots + 1)
  <2> TAKE c \in Nat \ {pause_loop}
  <2>1. ASSUME Waits(c)' PROVE Waits(c) \/ c = shots + 1
    <3>1. CASE \E n \in i .. Len(e) : e[n] = c
      BY <3>1 DEF Waits
    <3>2. CASE \E n \in 1 .. Len(q1) : q1[n] = c
      <4>1. PICK n \in 1 .. Len(q1) : q1[n] = c
        BY <3>2
      <4>2. CASE n = Len(q1)
        BY <4>1, <4>2, <1>2
      <4>3. CASE n # Len(q1)
        <5>1. n \in 1 .. Len(q) /\ q[n] = c
          BY <4>1, <4>3, <1>1, <1>2
        <5> QED BY <5>1 DEF Waits
      <4> QED BY <4>2, <4>3
    <3> QED BY <3>1, <3>2, <2>1 DEF Waits
  <2>2. ASSUME Waits(c) PROVE Waits(c)'
    <3>1. CASE \E n \in i .. Len(e) : e[n] = c
      BY <3>1 DEF Waits
    <3>2. CASE \E n \in 1 .. Len(q) : q[n] = c
      <4>1. PICK n \in 1 .. Len(q) : q[n] = c
        BY <3>2
      <4>2. n \in 1 .. Len(q1) /\ q1[n] = c
        BY <4>1, <1>1, <1>2
      <4> QED BY <4>2 DEF Waits
    <3> QED BY <3>1, <3>2, <2>2 DEF Waits
  <2>3. ASSUME c = shots + 1 PROVE Waits(c)'
    <3>1. Len(q1) \in 1 .. Len(q1)
      BY <1>1, <1>2
    <3> QED BY <3>1, <1>2, <2>3 DEF Waits
  <2> QED BY <2>1, <2>2, <2>3
<1>4. /\ Len(ran') <= shots' /\ \A n \in 1 .. Len(ran') : ran'[n] = n
      /\ \A c \in Nat \ {pause_loop} : Waits(c)' <=> Len(ran') < c /\ c <= shots'
  <2>1. Len(ran) \in Nat /\ Len(ran) <= shots /\ \A n \in 1 .. Len(ran) : ran[n] = n
    BY <1>1 DEF QueueOrder
  <2>2. \A c \in Nat \ {pause_loop} :
          (Len(ran) < c /\ c <= shots) \/ c = shots + 1 <=> Len(ran) < c /\ c <= shots + 1
    BY <2>1, <1>1
  <2>3. \A c \in Nat \ {pause_loop} : Waits(c) <=> Len(ran) < c /\ c <= shots
    BY DEF QueueOrder
  <2>4. Len(ran') <= shots' /\ \A n \in 1 .. Len(ran') : ran'[n] = n
    BY <2>1, <1>1
  <2> QED BY <2>2, <2>3, <2>4, <1>3
<1>5. \A m \in i .. Len(e) : e[m] # pause_loop => e[m] <= shots
  <2> TAKE m \in i .. Len(e)
  <2> HAVE e[m] # pause_loop
  <2>1. e[m] \in Nat \ {pause_loop} /\ Waits(e[m])
    BY <1>1 DEF Waits
  <2> QED BY <2>1 DEF QueueOrder
<1>6. \A m \in 1 .. Len(q) : q[m] # pause_loop => q[m] <= shots
  <2> TAKE m \in 1 .. Len(q)
  <2> HAVE q[m] # pause_loop
  <2>1. q[m] \in Nat \ {pause_loop} /\ Waits(q[m])
    BY <1>1 DEF Waits
  <2> QED BY <2>1 DEF QueueOrder
<1>7. \A m, n \in 1 .. Len(q1) :
        m < n /\ q1[m] # pause_loop /\ q1[n] # pause_loop => q1[m] < q1[n]
  <2> TAKE m, n \in 1 .. Len(q1)
  <2> HAVE m < n /\ q1[m] # pause_loop /\ q1[n] # pause_loop
  <2>1. m \in 1 .. Len(q) /\ q1[m] = q[m] /\ q[m] \in Nat
    BY <1>1, <1>2
  <2>2. CASE n = Len(q1)
    BY <2>1, <2>2, <1>1, <1>2, <1>6
  <2>3. CASE n # Len(q1)
    <3>1. n \in 1 .. Len(q) /\ q1[n] = q[n]
      BY <2>3, <1>21
    <3> QED BY <2>1, <3>1 DEF QueueOrder
  <2> QED BY <2>2, <2>3
<1>8. \A m \in i .. Len(e), n \in 1 .. Len(q1) :
        e[m] # pause_loop /\ q1[n] # pause_loop => e[m] < q1[n]
  <2> TAKE m \in i .. Len(e), n \in 1 .. Len(q1)
  <2> HAVE e[m] # pause_loop /\ q1[n] # pause_loop
  <2>1. CASE n = Len(q1)
    <3>1. e[m] \in Nat
      BY <1>1
    <3> QED BY <2>1, <3>1, <1>1, <1>2, <1>5
  <2>2. CASE n # Len(q1)
    <3>1. n \in 1 .. Len(q) /\ q1[n] = q[n]
      BY <2>2, <1>21
    <3> QED BY <3>1 DEF QueueOrder
  <2> QED BY <2>1, <2>2
<1>9. \A m, n \in i .. Len(e) :
        m < n /\ e[m] # pause_loop /\ e[n] # pause_loop => e[m] < e[n]
  BY DEF QueueOrder
<1> QED BY <1>4, <1>7, <1>8, <1>9 DEF QueueOrder

\* The queue that was collected is run from its start.
LEMMA ExchangeKeepsOrder ==
  ASSUME QueueTypes, QueueOrder, executing_queue = <<>>,
         callback_queue' = executing_queue, executing_queue' = callback_queue,
         i' = 1, ran' = ran, shots' = shots
  PROVE  QueueOrder' /\ (Waits(pause_loop) => Waits(pause_loop)')
<1> DEFINE q == callback_queue
<1>1. q \in Seq(Nat) /\ i \in Nat /\ i > 0 /\ Len(callback_queue') = 0
  BY TwoQueues DEF QueueTypes
<1>2. \A n \in i .. Len(executing_queue) : FALSE
  BY <1>1
<1>3. \A n \in 1 .. Len(callback_queue') : FALSE
  BY <1>1
<1>4. \A c : Waits(c) <=> \E n \in 1 .. Len(q) : q[n] = c
  BY <1>2 DEF Waits
<1>5. \A c : Waits(c)' <=> \E n \in 1 .. Len(q) : q[n] = c
  BY <1>3 DEF Waits
<1>6. \A c : Waits(c)' <=> Waits(c)
  BY <1>4, <1>5
<1>7. /\ Len(ran') <= shots' /\ \A n \in 1 .. Len(ran') : ran'[n] = n
      /\ \A c \in Nat \ {pause_loop} : Waits(c)' <=> Len(ran') < c /\ c <= shots'
  BY <1>6 DEF QueueOrder
<1>8. \A m, n \in 1 .. Len(q) :
        m < n /\ q[m] # pause_loop /\ q[n] # pause_loop => q[m] < q[n]
  BY DEF QueueOrder
<1> QED BY <1>3, <1>6, <1>7, <1>8 DEF QueueOrder

\* The queue that was run is emptied when all of it was called.
LEMMA EmptyKeepsOrder ==
  ASSUME QueueTypes, QueueOrder, i > Len(executing_queue),
         callback_queue' = callback_queue, executing_queue' = <<>>,
         i' = i, ran' = ran, shots' = shots
  PROVE  QueueOrder' /\ (Waits(pause_loop) => Waits(pause_loop)')
<1> DEFINE q == callback_queue
<1>1. /\ q \in Seq(Nat) /\ executing_queue \in Seq(Nat) /\ i \in Nat /\ i > 0
      /\ Len(executing_queue') = 0
  BY TwoQueues DEF QueueTypes
<1>2. \A n \in i .. Len(executing_queue) : FALSE
  BY <1>1
<1>3. \A n \in i .. Len(executing_queue') : FALSE
  BY <1>1
<1>4. \A c : Waits(c) <=> \E n \in 1 .. Len(q) : q[n] = c
  BY <1>2 DEF Waits
<1>5. \A c : Waits(c)' <=> \E n \in 1 .. Len(q) : q[n] = c
  BY <1>3 DEF Waits
<1>6. \A c : Waits(c)' <=> Waits(c)
  BY <1>4, <1>5
<1>7. /\ Len(ran') <= shots' /\ \A n \in 1 .. Len(ran') : ran'[n] = n
      /\ \A c \in Nat \ {pause_loop} : Waits(c)' <=> Len(ran') < c /\ c <= shots'
  BY <1>6 DEF QueueOrder
<1>8. \A m, n \in 1 .. Len(q) :
        m < n /\ q[m] # pause_loop /\ q[n] # pause_loop => q[m] < q[n]
  BY DEF QueueOrder
<1> QED BY <1>3, <1>6, <1>7, <1>8 DEF QueueOrder

\* The screenshot that is called is the next one of those that were asked for.
LEMMA CallKeepsOrder ==
  ASSUME QueueTypes, QueueOrder, i <= Len(executing_queue),
         executing_queue[i] # pause_loop,
         callback_queue' = callback_queue, executing_queue' = executing_queue,
         i' = i + 1, ran' = Append(ran, executing_queue[i]), shots' = shots
  PROVE  QueueOrder' /\ (Waits(pause_loop) => Waits(pause_loop)')
<1> DEFINE q == callback_queue
           e == executing_queue
<1>1. /\ q \in Seq(Nat) /\ e \in Seq(Nat) /\ i \in Nat /\ i > 0 /\ shots \in Nat
      /\ ran \in Seq(Nat)
  BY TwoQueues DEF QueueTypes
<1>2. i \in i .. Len(e) /\ e[i] \in Nat \ {pause_loop}
  BY <1>1
<1>3. \A n \in i .. Len(e) : n = i \/ n \in i' .. Len(e)
  BY <1>1
<1>4. \A n \in i' .. Len(e) : n \in i .. Len(e) /\ i < n
  BY <1>1
<1>5. \A n \in i' .. Len(e) : e[n] # pause_loop => e[i] < e[n]
  BY <1>2, <1>4 DEF QueueOrder
<1>6. \A n \in 1 .. Len(q) : q[n] # pause_loop => e[i] < q[n]
  BY <1>2 DEF QueueOrder
<1>7. \A c \in Nat \ {pause_loop} : Waits(c) => c = e[i] \/ (e[i] < c /\ Waits(c)')
  <2> TAKE c \in Nat \ {pause_loop}
  <2> HAVE Waits(c)
  <2>1. CASE \E n \in i .. Len(e) : e[n] = c
    BY <2>1, <1>3, <1>5 DEF Waits
  <2>2. CASE \E n \in 1 .. Len(q) : q[n] = c
    BY <2>2, <1>6 DEF Waits
  <2> QED BY <2>1, <2>2 DEF Waits
<1>8. \A c \in Nat \ {pause_loop} : Waits(c)' => Waits(c) /\ e[i] < c
  <2> TAKE c \in Nat \ {pause_loop}
  <2> HAVE Waits(c)'
  <2>1. CASE \E n \in i' .. Len(e) : e[n] = c
    BY <2>1, <1>4, <1>5 DEF Waits
  <2>2. CASE \E n \in 1 .. Len(q) : q[n] = c
    BY <2>2, <1>6 DEF Waits
  <2> QED BY <2>1, <2>2 DEF Waits
<1>9. e[i] = Len(ran) + 1
  <2>1. Waits(e[i])
    BY <1>2 DEF Waits
  <2>2. Len(ran) < e[i] /\ e[i] <= shots
    BY <1>2, <2>1 DEF QueueOrder
  <2>3. Len(ran) \in Nat /\ Len(ran) + 1 \in Nat \ {pause_loop}
    BY <1>1 DEF pause_loop
  <2>4. Waits(Len(ran) + 1)
    <3>1. Len(ran) < Len(ran) + 1 /\ Len(ran) + 1 <= shots
      BY <1>1, <1>2, <2>2, <2>3
    <3> QED BY <2>3, <3>1 DEF QueueOrder
  <2>5. Len(ran) + 1 = e[i] \/ e[i] < Len(ran) + 1
    BY <2>3, <2>4, <1>7
  <2> QED BY <1>2, <2>2, <2>3, <2>5
<1>10. /\ Len(ran') <= shots' /\ \A n \in 1 .. Len(ran') : ran'[n] = n
       /\ \A c \in Nat \ {pause_loop} : Waits(c)' <=> Len(ran') < c /\ c <= shots'
  <2>1. Len(ran) \in Nat /\ Len(ran') = Len(ran) + 1
    BY <1>1, <1>2
  <2>2. Waits(e[i])
    BY <1>2 DEF Waits
  <2>3. Len(ran') <= shots'
    BY <1>2, <1>9, <2>1, <2>2 DEF QueueOrder
  <2>4. \A n \in 1 .. Len(ran) : ran[n] = n
    BY DEF QueueOrder
  <2>5. \A n \in 1 .. Len(ran') : ran'[n] = n
    BY <1>1, <1>2, <1>9, <2>1, <2>4
  <2>6. ASSUME NEW c \in Nat \ {pause_loop}
        PROVE  Waits(c)' <=> Len(ran') < c /\ c <= shots'
    <3>1. Waits(c) <=> Len(ran) < c /\ c <= shots
      BY DEF QueueOrder
    <3>2. Waits(c)' <=> Waits(c) /\ e[i] < c
      <4>1. e[i] < c => c # e[i]
        BY <1>2
      <4> QED BY <1>7, <1>8, <4>1
    <3>3. (Len(ran) < c /\ c <= shots) /\ Len(ran) + 1 < c <=> Len(ran) + 1 < c /\ c <= shots
      BY <1>1, <2>1
    <3> QED BY <1>9, <2>1, <3>1, <3>2, <3>3
  <2> QED BY <2>3, <2>5, <2>6
<1>11. \A m, n \in i' .. Len(e) :
         m < n /\ e[m] # pause_loop /\ e[n] # pause_loop => e[m] < e[n]
  BY <1>4 DEF QueueOrder
<1>12. \A m \in i' .. Len(e), n \in 1 .. Len(q) :
         e[m] # pause_loop /\ q[n] # pause_loop => e[m] < q[n]
  BY <1>4 DEF QueueOrder
<1>13. \A m, n \in 1 .. Len(q) :
         m < n /\ q[m] # pause_loop /\ q[n] # pause_loop => q[m] < q[n]
  BY DEF QueueOrder
<1>14. Waits(pause_loop) => Waits(pause_loop)'
  <2> HAVE Waits(pause_loop)
  <2>1. CASE \E n \in i .. Len(e) : e[n] = pause_loop
    BY <2>1, <1>3 DEF Waits
  <2>2. CASE \E n \in 1 .. Len(q) : q[n] = pause_loop
    BY <2>2 DEF Waits
  <2> QED BY <2>1, <2>2 DEF Waits
<1> QED BY <1>10, <1>11, <1>12, <1>13, <1>14 DEF QueueOrder

-----------------------------------------------------------------------------
(* The callbacks. *)

\* ui_pause_enable queues the loop, or leaves the queues alone.
LEMMA Enabled ==
  ASSUME QueueTypes, ui_pause_enable, UNCHANGED callback_queue_index
  PROVE  /\ callback_queues' \in [{0, 1} -> Seq(Nat)]
         /\ \/ is_paused /\ callback_queue' = callback_queue
            \/ callback_queue' = Append(callback_queue, pause_loop)
         /\ executing_queue' = executing_queue
<1>1. CASE is_paused
  <2>1. UNCHANGED queueVars
    BY <1>1 DEF ui_pause_enable, queueVars
  <2> QED BY <1>1, <2>1, Untouched DEF QueueTypes, queueVars
<1>2. CASE ~is_paused
  <2>1. vsync_on_vsync_do(pause_loop) /\ pause_loop \in Nat
    BY <1>2 DEF ui_pause_enable, pause_loop
  <2> QED BY <2>1, Enqueued
<1> QED BY <1>1, <1>2

\* Any callback that is queued waits, and no other one is lost.
LEMMA QueuedWaits ==
  ASSUME QueueTypes, NEW c \in Nat, callback_queue' = Append(callback_queue, c),
         executing_queue' = executing_queue, i' = i
  PROVE  Waits(c)' /\ \A d : Waits(d) => Waits(d)'
<1> DEFINE q == callback_queue
           q1 == callback_queue'
<1>1. q \in Seq(Nat)
  BY TwoQueues
<1>2. /\ Len(q) \in Nat /\ Len(q1) = Len(q) + 1 /\ q1[Len(q) + 1] = c
      /\ \A n \in 1 .. Len(q) : q1[n] = q[n]
  BY <1>1
<1>3. Len(q) + 1 \in 1 .. Len(q1)
  BY <1>2
<1>4. \A n \in 1 .. Len(q) : n \in 1 .. Len(q1) /\ q1[n] = q[n]
  BY <1>2
<1>5. Waits(c)'
  BY <1>2, <1>3 DEF Waits
<1>6. ASSUME NEW d, Waits(d) PROVE Waits(d)'
  <2>1. CASE \E n \in i .. Len(executing_queue) : executing_queue[n] = d
    BY <2>1 DEF Waits
  <2>2. CASE \E n \in 1 .. Len(q) : q[n] = d
    BY <2>2, <1>4 DEF Waits
  <2> QED BY <1>6, <2>1, <2>2 DEF Waits
<1> QED BY <1>5, <1>6

\* Where a callback waits says that nothing was touched.
LEMMA UntouchedWaits ==
  ASSUME callback_queue' = callback_queue, executing_queue' = executing_queue, i' = i
  PROVE  \A d : Waits(d)' <=> Waits(d)
BY DEF Waits

\* At the start nothing is queued.
LEMMA InitQueueInv == Init => QueueInv
<1> SUFFICES ASSUME Init PROVE QueueInv
  OBVIOUS
<1>1. QueueTypes
  BY DEF Init, QueueTypes
<1>2. callback_queue = <<>> /\ executing_queue = <<>>
  BY DEF Init, callback_queue, executing_queue
<1>3. QueuePlace
  BY <1>2 DEF Init, QueuePlace, Running
<1>4. i = 1 /\ ran = <<>> /\ shots = 0 /\ Len(callback_queue) = 0 /\ Len(executing_queue) = 0
  BY <1>2 DEF Init
<1>5. \A n \in 1 .. 0 : FALSE
  OBVIOUS
<1>6. \A c : ~Waits(c)
  BY <1>4, <1>5 DEF Waits
<1>7. \A c \in Nat \ {pause_loop} : ~(0 < c /\ c <= 0)
  OBVIOUS
<1>8. QueueOrder
  BY <1>4, <1>5, <1>6, <1>7 DEF QueueOrder
<1> QED BY <1>1, <1>3, <1>8 DEF QueueInv

\* A step that leaves the queues alone, or queues the loop, keeps QueueInv.
LEMMA QuietStep ==
  ASSUME QueueInv,
         callback_queues' \in [{0, 1} -> Seq(Nat)],
         \/ callback_queue' = callback_queue
         \/ callback_queue' = Append(callback_queue, pause_loop),
         executing_queue' = executing_queue,
         UNCHANGED <<callback_queue_index, i, ran, shots>>,
         pc' = pc \/ (~Running /\ ~Running')
  PROVE  QueueInv'
<1>1. QueueTypes'
  BY DEF QueueInv, QueueTypes
<1>2. QueueOrder'
  BY LoopKeepsOrder DEF QueueInv
<1>3. QueuePlace'
  <2>1. CASE pc' = pc
    BY <2>1 DEF QueueInv, QueuePlace, Running
  <2>2. CASE ~Running /\ ~Running'
    <3>1. pc' # "sleep"
      BY <2>2 DEF Running
    <3> QED BY <2>2, <3>1 DEF QueueInv, QueuePlace
  <2> QED BY <2>1, <2>2
<1> QED BY <1>1, <1>2, <1>3 DEF QueueInv

\* Every step keeps the queues in order.
LEMMA StepKeepsQueueInv ==
  ASSUME QueueInv, [Next]_vars
  PROVE  QueueInv'
<1>0. QueueTypes /\ QueuePlace /\ QueueOrder
  BY DEF QueueInv
<1>1. ASSUME UNCHANGED <<queueVars, i, ran, shots>>, pc' = pc \/ (~Running /\ ~Running')
      PROVE  QueueInv'
  <2>1. callback_queue' = callback_queue /\ executing_queue' = executing_queue
    BY <1>1, Untouched
  <2>2. callback_queues' \in [{0, 1} -> Seq(Nat)] /\ UNCHANGED callback_queue_index
    BY <1>0, <1>1 DEF QueueTypes, queueVars
  <2> QED BY <1>1, <2>1, <2>2, QuietStep
<1>2. ASSUME ui_pause_enable, UNCHANGED <<callback_queue_index, i, ran, shots>>,
             pc' = pc \/ (~Running /\ ~Running')
      PROVE  QueueInv'
  BY <1>0, <1>2, Enabled, QuietStep
<1>3. CASE NextQueue
  <2>1. ~Running
    BY <1>3 DEF NextQueue, Running
  <2>2. CASE callback_queue = <<>>
    <3>1. pc' = "cpu" /\ UNCHANGED <<queueVars, i, ran, shots>>
      BY <1>3, <2>2 DEF NextQueue, queueVars, userVars
    <3>2. ~Running'
      BY <3>1 DEF Running
    <3> QED BY <1>1, <2>1, <3>1, <3>2
  <2>3. CASE callback_queue # <<>>
    <3>1. /\ pc' = "callbacks" /\ i' = 1
          /\ callback_queue_index' = 1 - callback_queue_index
          /\ UNCHANGED <<callback_queues, ran, shots>>
      BY <1>3, <2>3 DEF NextQueue, userVars
    <3>2. /\ callback_queue_index' \in {0, 1}
          /\ callback_queue' = executing_queue /\ executing_queue' = callback_queue
      BY <1>0, <3>1, Exchanged
    <3>3. executing_queue = <<>>
      BY <1>0, <2>1 DEF QueuePlace
    <3>4. QueueTypes'
      BY <1>0, <3>1, <3>2 DEF QueueTypes
    <3>5. QueueOrder'
      BY <1>0, <3>1, <3>2, <3>3, ExchangeKeepsOrder
    <3>6. QueuePlace'
      BY <3>1 DEF QueuePlace, Running
    <3> QED BY <3>4, <3>5, <3>6 DEF QueueInv
  <2> QED BY <2>2, <2>3
<1>4. CASE CallScreenshot
  <2>1. /\ pc = "callbacks" /\ i <= Len(executing_queue)
        /\ executing_queue[i] # pause_loop
        /\ ran' = Append(ran, executing_queue[i]) /\ i' = i + 1
        /\ pc' = pc /\ UNCHANGED queueVars /\ UNCHANGED shots
    BY <1>4 DEF CallScreenshot, userVars
  <2>2. callback_queue' = callback_queue /\ executing_queue' = executing_queue
    BY <2>1, Untouched
  <2>3. executing_queue \in Seq(Nat) /\ i \in Nat /\ i > 0 /\ ran \in Seq(Nat)
    BY <1>0, TwoQueues DEF QueueTypes
  <2>4. executing_queue[i] \in Nat
    BY <2>1, <2>3
  <2>5. ran' \in Seq(Nat) /\ i' \in Nat /\ i' > 0
    BY <2>1, <2>3, <2>4
  <2>6. QueueTypes'
    BY <1>0, <2>1, <2>5 DEF QueueTypes, queueVars
  <2>7. QueueOrder'
    BY <1>0, <2>1, <2>2, CallKeepsOrder
  <2>8. QueuePlace'
    BY <2>1 DEF QueuePlace, Running
  <2> QED BY <2>6, <2>7, <2>8 DEF QueueInv
<1>5. CASE CallPauseLoop
  <2>1. /\ pc = "callbacks" /\ i <= Len(executing_queue)
        /\ executing_queue[i] = pause_loop
        /\ UNCHANGED queueVars /\ UNCHANGED <<ran, shots>>
    BY <1>5 DEF CallPauseLoop, userVars
  <2>2. \/ pc' = "callbacks" /\ i' = i + 1
        \/ pc' = "sleep" /\ i' = i
    BY <1>5 DEF CallPauseLoop, IterationEnds, IterationSleeps
  <2>3. callback_queue' = callback_queue /\ executing_queue' = executing_queue
    BY <2>1, Untouched
  <2>4. QueueTypes'
    BY <1>0, <2>1, <2>2 DEF QueueTypes, queueVars
  <2>5. QueueOrder'
    BY <1>0, <2>1, <2>2, <2>3, LoopKeepsOrder
  <2>6. QueuePlace'
    BY <2>1, <2>2, <2>3 DEF QueuePlace, Running
  <2> QED BY <2>4, <2>5, <2>6 DEF QueueInv
<1>6. CASE QueueDone
  <2>1. /\ pc' = "execute" /\ i > Len(executing_queue)
        /\ UNCHANGED <<callback_queue_index, i, ran, shots>>
    BY <1>6 DEF QueueDone, userVars
  <2>2. /\ callback_queues' \in [{0, 1} -> Seq(Nat)]
        /\ callback_queue' = callback_queue /\ executing_queue' = <<>>
    BY <1>0, <1>6, Emptied
  <2>3. QueueTypes'
    BY <1>0, <2>1, <2>2 DEF QueueTypes
  <2>4. QueueOrder'
    BY <1>0, <2>1, <2>2, EmptyKeepsOrder
  <2>5. QueuePlace'
    BY <2>1, <2>2 DEF QueuePlace
  <2> QED BY <2>3, <2>4, <2>5 DEF QueueInv
<1>7. CASE PauseLoopWakes
  <2>1. /\ pc = "sleep" /\ pc' = "callbacks" /\ i' = i + 1
        /\ UNCHANGED callback_queue_index /\ UNCHANGED <<ran, shots>>
    BY <1>7 DEF PauseLoopWakes
  <2>2. /\ callback_queues' \in [{0, 1} -> Seq(Nat)]
        /\ \/ callback_queue' = callback_queue
           \/ callback_queue' = Append(callback_queue, pause_loop)
        /\ executing_queue' = executing_queue
    <3>1. CASE is_paused
      <4>1. vsync_on_vsync_do(pause_loop) /\ pause_loop \in Nat
        BY <1>7, <3>1 DEF PauseLoopWakes, pause_loop
      <4> QED BY <1>0, <2>1, <4>1, Enqueued
    <3>2. CASE ~is_paused
      <4>1. UNCHANGED queueVars
        BY <1>7, <3>2 DEF PauseLoopWakes, queueVars
      <4> QED BY <1>0, <4>1, Untouched DEF QueueTypes, queueVars
    <3> QED BY <3>1, <3>2
  <2>3. i <= Len(executing_queue) /\ executing_queue[i] = pause_loop
    BY <1>0, <2>1 DEF QueuePlace
  <2>4. QueueTypes'
    BY <1>0, <2>1, <2>2 DEF QueueTypes
  <2>5. QueueOrder'
    BY <1>0, <2>1, <2>2, <2>3, LoopKeepsOrder
  <2>6. QueuePlace'
    BY <2>1 DEF QueuePlace, Running
  <2> QED BY <2>4, <2>5, <2>6 DEF QueueInv
<1>8. CASE vsync_do_vsync
  <2>1. /\ UNCHANGED <<callback_queue_index, i, ran, shots>>
        /\ ~Running /\ ~Running'
    BY <1>8 DEF vsync_do_vsync, Running
  <2>2. CASE pause_pending
    <3>1. ui_pause_enable
      BY <1>8, <2>2 DEF vsync_do_vsync
    <3> QED BY <1>2, <2>1, <3>1
  <2>3. CASE ~pause_pending
    <3>1. UNCHANGED queueVars
      BY <1>8, <2>3 DEF vsync_do_vsync, queueVars
    <3> QED BY <1>1, <2>1, <3>1
  <2> QED BY <2>2, <2>3
<1>9. CASE \/ interrupt_do_trap \/ TrapsDone \/ machine_reset \/ monitor_startup \/ mon_jump
           \/ MonitorPause \/ MonitorPauseWakes
  <2>1. UNCHANGED <<queueVars, i, ran, shots>>
    BY <1>9 DEF interrupt_do_trap, TrapsDone, machine_reset, monitor_startup, mon_jump,
                MonitorPause, MonitorPauseWakes, userVars
  <2>2. ~Running /\ ~Running'
    BY <1>9 DEF interrupt_do_trap, TrapsDone, machine_reset, monitor_startup, mon_jump,
                MonitorPause, MonitorPauseWakes, IterationEnds, IterationSleeps, Running
  <2> QED BY <1>1, <2>1, <2>2
<1>10. CASE mon_exit
  <2>1. /\ UNCHANGED <<callback_queue_index, i, ran, shots>>
        /\ ~Running /\ ~Running'
    BY <1>10 DEF mon_exit, Running, userVars
  <2>2. ui_pause_enable \/ UNCHANGED queueVars
    BY <1>10 DEF mon_exit, queueVars
  <2> QED BY <1>1, <1>2, <2>1, <2>2
<1>11. CASE pause_toggle_action \/ advance_frame_action
  <2>1. pc' = pc /\ UNCHANGED <<callback_queue_index, i, ran, shots>>
    BY <1>11 DEF pause_toggle_action, advance_frame_action
  <2>2. ui_pause_enable \/ UNCHANGED queueVars
    BY <1>11 DEF pause_toggle_action, advance_frame_action, queueVars
  <2> QED BY <1>1, <1>2, <2>1, <2>2
<1>12. CASE monitor_open_action \/ reset_soft_action
  <2>1. pc' = pc /\ UNCHANGED <<queueVars, i, ran, shots>>
    BY <1>12 DEF monitor_open_action, reset_soft_action
  <2> QED BY <1>1, <2>1
<1>13. CASE ui_media_auto_screenshot
  <2>1. /\ vsync_on_vsync_do(shots + 1) /\ shots' = shots + 1 /\ pc' = pc
        /\ UNCHANGED <<callback_queue_index, i, ran>>
    BY <1>13 DEF ui_media_auto_screenshot
  <2>2. shots + 1 \in Nat
    BY <1>0 DEF QueueTypes
  <2>3. /\ callback_queues' \in [{0, 1} -> Seq(Nat)]
        /\ callback_queue' = Append(callback_queue, shots + 1)
        /\ executing_queue' = executing_queue
    BY <1>0, <2>1, <2>2, Enqueued
  <2>4. QueueTypes'
    BY <1>0, <2>1, <2>2, <2>3 DEF QueueTypes
  <2>5. QueueOrder'
    BY <1>0, <2>1, <2>3, AskKeepsOrder
  <2>6. QueuePlace'
    BY <1>0, <2>1, <2>3 DEF QueuePlace, Running
  <2> QED BY <2>4, <2>5, <2>6 DEF QueueInv
<1>14. CASE UNCHANGED vars
  BY <1>1, <1>14 DEF vars, userVars
<1> QED
  BY <1>3, <1>4, <1>5, <1>6, <1>7, <1>8, <1>9, <1>10, <1>11, <1>12, <1>13, <1>14
  DEF Next, Vice, User

\* The order of the queues is the order of what is queued.
LEMMA OrderIsOnce ==
  ASSUME QueueInv
  PROVE  CallbacksOnce /\ (Waits(pause_loop) => pause_loop \in ToSet(Queued))
<1> DEFINE q == callback_queue
           e == executing_queue
           r == IF Running THEN SubSeq(e, i, Len(e)) ELSE <<>>
<1>1. /\ q \in Seq(Nat) /\ e \in Seq(Nat) /\ i \in Nat /\ i > 0 /\ shots \in Nat
      /\ ran \in Seq(Nat)
  BY TwoQueues DEF QueueInv, QueueTypes
<1>2. /\ r \in Seq(Nat)
      /\ \A k \in 1 .. Len(r) : i + k - 1 \in i .. Len(e) /\ r[k] = e[i + k - 1]
      /\ \A n \in i .. Len(e) : n - i + 1 \in 1 .. Len(r) /\ r[n - i + 1] = e[n]
  <2>1. CASE ~Running
    <3>1. e = <<>> /\ r = <<>>
      BY <2>1 DEF QueueInv, QueuePlace
    <3> QED BY <1>1, <3>1
  <2>2. CASE Running /\ i <= Len(e)
    <3>1. r = SubSeq(e, i, Len(e))
      BY <2>2
    <3>2. /\ r \in Seq(Nat) /\ Len(r) = Len(e) - i + 1
          /\ \A k \in 1 .. Len(e) - i + 1 : r[k] = e[i + k - 1]
      BY <1>1, <2>2, <3>1, SubSeqProperties
    <3> QED BY <1>1, <2>2, <3>2
  <2>3. CASE Running /\ i > Len(e)
    <3>1. r = SubSeq(e, i, Len(e))
      BY <2>3
    <3>2. r = <<>>
      BY <1>1, <2>3, <3>1
    <3> QED BY <1>1, <2>3, <3>2
  <2> QED BY <1>1, <2>1, <2>2, <2>3
<1>3. PICK s : s = r \o q
  OBVIOUS
<1>4. s = Queued
  BY <1>3 DEF Queued, Running
<1> HIDE DEF r
<1>5. /\ s \in Seq(Nat) /\ Len(s) = Len(r) + Len(q) /\ Len(r) \in Nat /\ Len(q) \in Nat
      /\ \A n \in 1 .. Len(s) : s[n] = IF n <= Len(r) THEN r[n] ELSE q[n - Len(r)]
  BY <1>1, <1>2, <1>3, ConcatProperties
<1>51. \A n \in 1 .. Len(r) : n \in 1 .. Len(s) /\ s[n] = r[n]
  BY <1>5
<1>52. \A n \in 1 .. Len(s) : n <= Len(r) => n \in 1 .. Len(r)
  BY <1>5
<1>6. \A c : Waits(c) <=> \E n \in 1 .. Len(s) : s[n] = c
  <2> TAKE c
  <2>1. ASSUME NEW n \in i .. Len(e), e[n] = c PROVE \E k \in 1 .. Len(s) : s[k] = c
    <3>1. n - i + 1 \in 1 .. Len(r) /\ r[n - i + 1] = c
      BY <1>2, <2>1
    <3>2. n - i + 1 \in 1 .. Len(s) /\ s[n - i + 1] = c
      BY <1>51, <3>1
    <3> QED BY <3>2
  <2>2. ASSUME NEW n \in 1 .. Len(q), q[n] = c PROVE \E k \in 1 .. Len(s) : s[k] = c
    <3>1. /\ Len(r) + n \in 1 .. Len(s) /\ ~(Len(r) + n <= Len(r))
          /\ (Len(r) + n) - Len(r) = n
      BY <1>1, <1>5
    <3>2. s[Len(r) + n] = c
      BY <1>5, <2>2, <3>1
    <3> QED BY <3>1, <3>2
  <2>3. ASSUME NEW n \in 1 .. Len(s), s[n] = c PROVE Waits(c)
    <3>1. CASE n <= Len(r)
      <4>1. n \in 1 .. Len(r) /\ r[n] = c
        BY <1>51, <1>52, <2>3, <3>1
      <4> QED BY <1>2, <4>1 DEF Waits
    <3>2. CASE ~(n <= Len(r))
      <4>1. n - Len(r) \in 1 .. Len(q) /\ q[n - Len(r)] = c
        BY <1>5, <2>3, <3>2
      <4> QED BY <4>1 DEF Waits
    <3> QED BY <3>1, <3>2
  <2> QED BY <2>1, <2>2, <2>3 DEF Waits
<1>7. ToSet(s) = {s[n] : n \in 1 .. Len(s)}
  <2>1. DOMAIN s = 1 .. Len(s)
    BY <1>5
  <2> QED BY <2>1, Zenon DEF ToSet
<1>8. ToSet(s) \ {pause_loop} = Len(ran) + 1 .. shots
  <2>1. Len(ran) \in Nat
    BY <1>1
  <2>2. ASSUME NEW c \in ToSet(s) \ {pause_loop} PROVE c \in Len(ran) + 1 .. shots
    <3>1. c \in Nat \ {pause_loop} /\ Waits(c)
      BY <1>5, <1>6, <1>7, <2>2
    <3>2. Len(ran) < c /\ c <= shots
      BY <3>1 DEF QueueInv, QueueOrder
    <3> QED BY <1>1, <2>1, <3>1, <3>2
  <2>3. ASSUME NEW c \in Len(ran) + 1 .. shots PROVE c \in ToSet(s) \ {pause_loop}
    <3>1. c \in Nat \ {pause_loop} /\ Len(ran) < c /\ c <= shots
      BY <1>1, <2>1, <2>3 DEF pause_loop
    <3>2. Waits(c)
      BY <3>1 DEF QueueInv, QueueOrder
    <3> QED BY <1>6, <1>7, <3>1, <3>2
  <2> QED BY <2>2, <2>3
<1>9. ASSUME NEW m \in 1 .. Len(s), NEW n \in 1 .. Len(s), m < n,
             s[m] # pause_loop, s[n] # pause_loop
      PROVE  s[m] < s[n]
  <2>1. CASE n <= Len(r)
    <3>1. m \in 1 .. Len(r) /\ n \in 1 .. Len(r) /\ s[m] = r[m] /\ s[n] = r[n]
      BY <1>5, <1>9, <2>1
    <3>2. /\ i + m - 1 \in i .. Len(e) /\ i + n - 1 \in i .. Len(e)
          /\ s[m] = e[i + m - 1] /\ s[n] = e[i + n - 1]
      BY <1>2, <3>1
    <3>3. i + m - 1 < i + n - 1
      BY <1>1, <1>9
    <3> QED BY <1>9, <3>2, <3>3 DEF QueueInv, QueueOrder
  <2>2. CASE m <= Len(r) /\ ~(n <= Len(r))
    <3>1. /\ m \in 1 .. Len(r) /\ n - Len(r) \in 1 .. Len(q)
          /\ s[m] = r[m] /\ s[n] = q[n - Len(r)]
      BY <1>5, <2>2
    <3>2. i + m - 1 \in i .. Len(e) /\ s[m] = e[i + m - 1]
      BY <1>2, <3>1
    <3> QED BY <1>9, <3>1, <3>2 DEF QueueInv, QueueOrder
  <2>3. CASE ~(m <= Len(r))
    <3>1. /\ m - Len(r) \in 1 .. Len(q) /\ n - Len(r) \in 1 .. Len(q)
          /\ m - Len(r) < n - Len(r)
          /\ s[m] = q[m - Len(r)] /\ s[n] = q[n - Len(r)]
      BY <1>5, <1>9, <2>3, SMTT(30)
    <3> QED BY <1>9, <3>1 DEF QueueInv, QueueOrder
  <2> QED BY <2>1, <2>2, <2>3, <1>5
<1>10. DOMAIN s = 1 .. Len(s) /\ DOMAIN ran = 1 .. Len(ran)
  BY <1>1, <1>5
<1>11. CallbacksOnce
  BY <1>4, <1>8, <1>9, <1>10 DEF CallbacksOnce, QueueInv, QueueOrder
<1>12. Waits(pause_loop) => pause_loop \in ToSet(s)
  BY <1>6, <1>7
<1> QED BY <1>4, <1>11, <1>12

\* A callback that vsync_on_vsync_do queued is called once, in the order of the
\* requests, also if it was queued while execute_vsync_callbacks ran.
THEOREM CalledOnceInOrder == Spec => []CallbacksOnce
<1>1. QueueInv /\ [Next]_vars => QueueInv'
  BY StepKeepsQueueInv
<1>2. QueueInv => CallbacksOnce
  BY OrderIsOnce
<1> QED BY InitQueueInv, <1>1, <1>2, PTL DEF Spec

-----------------------------------------------------------------------------
(* Pauses. *)

\* A step that does not touch the queues lets the loop wait.
LEMMA UntouchedLoopWaits ==
  ASSUME UNCHANGED queueVars, i' = i
  PROVE  Waits(pause_loop)' <=> Waits(pause_loop)
BY Untouched, UntouchedWaits

\* After ui_pause_enable the loop waits, unless the pause was on before.
LEMMA EnabledLoopWaits ==
  ASSUME QueueInv, ui_pause_enable, UNCHANGED <<callback_queue_index, i>>
  PROVE  /\ ~is_paused => Waits(pause_loop)'
         /\ Waits(pause_loop) => Waits(pause_loop)'
<1>1. QueueTypes /\ pause_loop \in Nat
  BY DEF QueueInv, pause_loop
<1>2. /\ \/ is_paused /\ callback_queue' = callback_queue
         \/ callback_queue' = Append(callback_queue, pause_loop)
      /\ executing_queue' = executing_queue
  BY <1>1, Enabled
<1>3. CASE is_paused /\ callback_queue' = callback_queue
  BY <1>2, <1>3, UntouchedWaits
<1>4. CASE callback_queue' = Append(callback_queue, pause_loop)
  BY <1>1, <1>2, <1>4, QueuedWaits
<1> QED BY <1>2, <1>3, <1>4

\* Every step keeps the loop of a pause queued, or the monitor armed.
LEMMA StepKeepsHoldInv ==
  ASSUME QueueInv, HoldInv, [Next]_vars
  PROVE  HoldInv'
<1> DEFINE W == Waits(pause_loop)
           Left == \/ batch # 0 /\ pc = "traps"
                   \/ armed # 0 /\ pc \in {"callbacks", "sleep", "execute", "cpu"}
<1>0. /\ QueueTypes /\ QueuePlace /\ QueueOrder
      /\ armed \in Nat /\ batch \in Nat
      /\ is_paused => W \/ Left
  BY DEF QueueInv, HoldInv
<1>1. ASSUME armed' \in Nat, batch' \in Nat, is_paused' => W' \/ Left'
      PROVE  HoldInv'
  BY <1>1 DEF HoldInv
<1>2. ASSUME UNCHANGED queueVars, i' = i
      PROVE  W' <=> W
  BY <1>2, UntouchedLoopWaits
<1>3. CASE NextQueue
  <2>1. /\ pc = "execute" /\ UNCHANGED <<armed, batch, is_paused>>
        /\ pc' \in {"callbacks", "cpu"}
    BY <1>3 DEF NextQueue, pauseVars
  <2>2. W => W'
    <3>1. CASE callback_queue = <<>>
      <4>1. UNCHANGED queueVars /\ i' = i
        BY <1>3, <3>1 DEF NextQueue, queueVars
      <4> QED BY <4>1, <1>2
    <3>2. CASE callback_queue # <<>>
      <4>1. /\ i' = 1 /\ callback_queue_index' = 1 - callback_queue_index
            /\ UNCHANGED <<callback_queues, ran, shots>>
        BY <1>3, <3>2 DEF NextQueue, userVars
      <4>2. callback_queue' = executing_queue /\ executing_queue' = callback_queue
        BY <1>0, <4>1, Exchanged
      <4>3. executing_queue = <<>>
        BY <1>0, <2>1 DEF QueuePlace, Running
      <4> QED BY <1>0, <4>1, <4>2, <4>3, ExchangeKeepsOrder
    <3> QED BY <3>1, <3>2
  <2>3. Left => Left'
    BY <2>1
  <2> QED BY <1>0, <1>1, <2>1, <2>2, <2>3
<1>4. CASE CallScreenshot
  <2>1. /\ i <= Len(executing_queue) /\ executing_queue[i] # pause_loop
        /\ ran' = Append(ran, executing_queue[i]) /\ i' = i + 1
        /\ pc' = pc /\ UNCHANGED queueVars /\ UNCHANGED <<shots, armed, batch, is_paused>>
    BY <1>4 DEF CallScreenshot, userVars, pauseVars, cpuVars
  <2>2. callback_queue' = callback_queue /\ executing_queue' = executing_queue
    BY <2>1, Untouched
  <2>3. W => W'
    BY <1>0, <2>1, <2>2, CallKeepsOrder
  <2>4. Left => Left'
    BY <2>1
  <2> QED BY <1>0, <1>1, <2>1, <2>3, <2>4
<1>5. CASE CallPauseLoop
  <2>1. pc = "callbacks" /\ UNCHANGED queueVars /\ UNCHANGED <<batch, is_paused>>
    BY <1>5 DEF CallPauseLoop
  <2>2. CASE ~is_paused
    <3>1. armed' = armed /\ ~is_paused'
      BY <1>5, <2>1, <2>2 DEF CallPauseLoop, IterationEnds, IterationSleeps
    <3> QED BY <1>0, <1>1, <2>1, <3>1
  <2>3. CASE is_paused /\ enter_monitor_while_paused
    <3>1. armed' = armed + 1 /\ pc' = "callbacks"
      BY <1>5, <2>3 DEF CallPauseLoop, IterationEnds, IterationSleeps
    <3>2. armed' \in Nat /\ armed' # 0
      BY <1>0, <3>1
    <3> QED BY <1>0, <1>1, <2>1, <3>1, <3>2
  <2>4. CASE is_paused /\ ~enter_monitor_while_paused
    <3>1. armed' = armed /\ pc' = "sleep" /\ i' = i
      BY <1>5, <2>4 DEF CallPauseLoop, IterationEnds, IterationSleeps
    <3>2. W' <=> W
      BY <1>2, <2>1, <3>1
    <3>3. Left => Left'
      BY <2>1, <3>1
    <3> QED BY <1>0, <1>1, <2>1, <3>1, <3>2, <3>3
  <2> QED BY <2>2, <2>3, <2>4
<1>6. CASE QueueDone
  <2>1. /\ pc = "callbacks" /\ pc' = "execute" /\ i > Len(executing_queue)
        /\ UNCHANGED <<i, ran, shots, armed, batch, is_paused>>
    BY <1>6 DEF QueueDone, userVars, pauseVars, cpuVars
  <2>2. callback_queue' = callback_queue /\ executing_queue' = <<>>
    BY <1>0, <1>6, Emptied
  <2>3. W => W'
    BY <1>0, <2>1, <2>2, EmptyKeepsOrder
  <2>4. Left => Left'
    BY <2>1
  <2> QED BY <1>0, <1>1, <2>1, <2>3, <2>4
<1>7. CASE PauseLoopWakes
  <2>1. /\ UNCHANGED <<callback_queue_index, is_paused, armed, batch>>
        /\ is_paused => vsync_on_vsync_do(pause_loop)
    BY <1>7 DEF PauseLoopWakes, pauseVars, cpuVars
  <2>2. is_paused => W'
    <3> HAVE is_paused
    <3>1. callback_queue' = Append(callback_queue, pause_loop) /\ pause_loop \in Nat
      <4>1. pause_loop \in Nat
        BY DEF pause_loop
      <4> QED BY <1>0, <2>1, <4>1, Enqueued
    <3>2. callback_queue \in Seq(Nat)
      BY <1>0, TwoQueues
    <3>3. Len(callback_queue') \in 1 .. Len(callback_queue')
      BY <3>1, <3>2
    <3>4. callback_queue'[Len(callback_queue')] = pause_loop
      BY <3>1, <3>2
    <3> QED BY <3>3, <3>4 DEF Waits
  <2> QED BY <1>0, <1>1, <2>1, <2>2
<1>8. CASE vsync_do_vsync
  <2>1. /\ pc = "cpu" /\ armed = 0 /\ pc' = "execute"
        /\ UNCHANGED <<callback_queue_index, i, armed, batch>>
    BY <1>8 DEF vsync_do_vsync, cpuVars
  <2>2. is_paused => W
    BY <1>0, <2>1
  <2>3. CASE pause_pending
    <3>1. ui_pause_enable
      BY <1>8, <2>3 DEF vsync_do_vsync
    <3>2. W'
      BY <2>1, <2>2, <3>1, EnabledLoopWaits
    <3> QED BY <1>0, <1>1, <2>1, <3>2
  <2>4. CASE ~pause_pending
    <3>1. UNCHANGED queueVars /\ UNCHANGED is_paused
      BY <1>8, <2>4 DEF vsync_do_vsync, queueVars
    <3> QED BY <1>0, <1>1, <1>2, <2>1, <2>2, <3>1
  <2> QED BY <2>3, <2>4
<1>9. CASE interrupt_do_trap
  <2>1. /\ pc = "cpu" /\ armed > 0 /\ batch' = armed /\ armed' = 0 /\ pc' = "traps"
        /\ UNCHANGED is_paused
    BY <1>9 DEF interrupt_do_trap, pauseVars
  <2>2. batch' # 0 /\ batch' \in Nat /\ armed' \in Nat
    BY <1>0, <2>1
  <2> QED BY <1>1, <2>1, <2>2
<1>10. CASE TrapsDone
  <2>1. /\ pc = "traps" /\ batch = 0 /\ UNCHANGED queueVars
        /\ UNCHANGED <<i, armed, batch, is_paused>>
    BY <1>10 DEF TrapsDone, pauseVars, cpuVars
  <2>2. is_paused => W
    BY <1>0, <2>1
  <2> QED BY <1>0, <1>1, <1>2, <2>1, <2>2
<1>11. CASE machine_reset
  <2>1. /\ pc = "reset" \/ (pc = "cpu" /\ armed = 0)
        /\ armed' = 0 /\ UNCHANGED queueVars /\ UNCHANGED <<i, batch, is_paused>>
    BY <1>11 DEF machine_reset, pauseVars
  <2>2. is_paused => W
    BY <1>0, <2>1
  <2> QED BY <1>0, <1>1, <1>2, <2>1, <2>2
<1>12. CASE monitor_startup
  <2>1. batch > 0 /\ batch' = batch - 1 /\ armed' = armed /\ is_paused' = FALSE
    BY <1>12 DEF monitor_startup
  <2>2. batch' \in Nat
    BY <1>0, <2>1
  <2> QED BY <1>0, <1>1, <2>1, <2>2
<1>13. CASE mon_exit
  <2>1. pc = "monitor" /\ UNCHANGED <<callback_queue_index, i, armed, batch>>
    BY <1>13 DEF mon_exit, cpuVars
  <2>2. is_paused => W
    BY <1>0, <2>1
  <2>3. CASE ui_pause_enable
    <3>1. W'
      BY <2>1, <2>2, <2>3, EnabledLoopWaits
    <3> QED BY <1>0, <1>1, <2>1, <3>1
  <2>4. CASE UNCHANGED <<callback_queues, is_paused>>
    <3>1. UNCHANGED queueVars
      BY <2>1, <2>4 DEF queueVars
    <3> QED BY <1>0, <1>1, <1>2, <2>1, <2>2, <2>4, <3>1
  <2> QED BY <1>13, <2>3, <2>4 DEF mon_exit
<1>14. CASE mon_jump
  <2>1. pc = "monitor" /\ UNCHANGED queueVars /\ UNCHANGED <<i, armed, batch, is_paused>>
    BY <1>14 DEF mon_jump, cpuVars, pauseVars
  <2>2. is_paused => W
    BY <1>0, <2>1
  <2> QED BY <1>0, <1>1, <1>2, <2>1, <2>2
<1>15. CASE MonitorPause
  <2>1. /\ pc = "monitor_pause" /\ UNCHANGED queueVars /\ UNCHANGED <<i, batch, is_paused>>
    BY <1>15 DEF MonitorPause
  <2>2. is_paused => W
    BY <1>0, <2>1
  <2>3. armed' = armed + 1 \/ armed' = armed
    BY <1>15 DEF MonitorPause, IterationEnds, IterationSleeps
  <2>4. armed' \in Nat
    BY <1>0, <2>3
  <2> QED BY <1>0, <1>1, <1>2, <2>1, <2>2, <2>4
<1>16. CASE MonitorPauseWakes
  <2>1. pc = "monitor_sleep" /\ UNCHANGED queueVars /\ UNCHANGED <<i, armed, batch, is_paused>>
    BY <1>16 DEF MonitorPauseWakes, cpuVars, pauseVars
  <2>2. is_paused => W
    BY <1>0, <2>1
  <2> QED BY <1>0, <1>1, <1>2, <2>1, <2>2
<1>17. CASE pause_toggle_action \/ advance_frame_action
  <2>1. UNCHANGED <<callback_queue_index, i, armed, batch>>
    BY <1>17 DEF pause_toggle_action, advance_frame_action, cpuVars
  <2>2. CASE is_paused
    <3>1. is_paused' = FALSE
      BY <1>17, <2>2 DEF pause_toggle_action, advance_frame_action
    <3> QED BY <1>0, <1>1, <2>1, <3>1
  <2>3. CASE ~is_paused
    <3>1. ui_pause_enable
      BY <1>17, <2>3 DEF pause_toggle_action, advance_frame_action
    <3>2. W'
      BY <2>1, <2>3, <3>1, EnabledLoopWaits
    <3> QED BY <1>0, <1>1, <2>1, <3>2
  <2> QED BY <2>2, <2>3
<1>18. CASE monitor_open_action
  <2>1. UNCHANGED queueVars /\ UNCHANGED <<pc, i, batch, is_paused>>
    BY <1>18 DEF monitor_open_action
  <2>2. armed' = armed \/ armed' = armed + 1
    BY <1>18 DEF monitor_open_action
  <2>3. armed' \in Nat /\ (armed # 0 => armed' # 0)
    BY <1>0, <2>2
  <2>4. Left => Left'
    BY <2>1, <2>3
  <2> QED BY <1>0, <1>1, <1>2, <2>1, <2>3, <2>4
<1>19. CASE reset_soft_action
  <2>1. UNCHANGED <<armed, batch>> /\ is_paused' = FALSE
    BY <1>19 DEF reset_soft_action
  <2> QED BY <1>0, <1>1, <2>1
<1>20. CASE ui_media_auto_screenshot
  <2>1. /\ vsync_on_vsync_do(shots + 1)
        /\ UNCHANGED <<pc, callback_queue_index, i, armed, batch, is_paused>>
    BY <1>20 DEF ui_media_auto_screenshot, pauseVars, cpuVars
  <2>2. shots + 1 \in Nat
    BY <1>0 DEF QueueTypes
  <2>3. /\ callback_queue' = Append(callback_queue, shots + 1)
        /\ executing_queue' = executing_queue
    BY <1>0, <2>1, <2>2, Enqueued
  <2>4. W => W'
    BY <1>0, <2>1, <2>2, <2>3, QueuedWaits
  <2>5. Left => Left'
    BY <2>1
  <2> QED BY <1>0, <1>1, <2>1, <2>4, <2>5
<1>21. CASE UNCHANGED vars
  <2>1. UNCHANGED queueVars /\ UNCHANGED <<pc, i, armed, batch, is_paused>>
    BY <1>21 DEF vars, pauseVars, cpuVars
  <2> QED BY <1>0, <1>1, <1>2, <2>1
<1> QED
  BY <1>3, <1>4, <1>5, <1>6, <1>7, <1>8, <1>9, <1>10, <1>11, <1>12, <1>13, <1>14,
     <1>15, <1>16, <1>17, <1>18, <1>19, <1>20, <1>21
  DEF Next, Vice, User

\* A paused emulation stops at the end of the frame: the pause loop is queued,
\* or a monitor trap is armed that neither a reset nor a trap before it can drop.
THEOREM PauseHolds == Spec => []PauseTakesHold
<1>1. Init => HoldInv
  BY DEF Init, HoldInv
<1>2. QueueInv /\ HoldInv /\ [Next]_vars => QueueInv' /\ HoldInv'
  BY StepKeepsQueueInv, StepKeepsHoldInv
<1>3. QueueInv /\ HoldInv => PauseTakesHold
  <2> SUFFICES ASSUME QueueInv, HoldInv, is_paused PROVE PauseTakesHold
    BY DEF PauseTakesHold
  <2>1. CASE Waits(pause_loop)
    BY <2>1, OrderIsOnce DEF PauseTakesHold
  <2>2. CASE batch # 0 \/ armed # 0
    <3>1. batch > 0 \/ armed > 0
      BY <2>2 DEF HoldInv
    <3> QED BY <3>1 DEF PauseTakesHold
  <2> QED BY <2>1, <2>2 DEF HoldInv
<1> QED BY InitQueueInv, <1>1, <1>2, <1>3, PTL DEF Spec

-----------------------------------------------------------------------------
(* The frame advance. *)

\* Between two queues of a pause there is only the way into the monitor.
LEMMA NothingQueuedArmed ==
  ASSUME QueueInv, HoldInv, is_paused, pc = "execute", callback_queue = <<>>
  PROVE  armed # 0
<1>1. executing_queue = <<>> /\ i \in Nat /\ i > 0
  BY DEF QueueInv, QueuePlace, QueueTypes, Running
<1>2. \A n \in i .. Len(executing_queue) : FALSE
  BY <1>1
<1>3. \A n \in 1 .. Len(callback_queue) : FALSE
  OBVIOUS
<1>4. ~Waits(pause_loop)
  BY <1>2, <1>3 DEF Waits
<1> QED BY <1>4 DEF HoldInv

\* Every step of the VICE thread keeps AdvanceInv.
LEMMA ViceKeepsAdvanceInv ==
  ASSUME QueueInv, HoldInv, AdvanceInv, Vice
  PROVE  AdvanceInv'
<1>0. armed \in Nat /\ batch \in Nat
  BY DEF HoldInv
<1>1. CASE NextQueue
  <2>1. /\ pc = "execute"
        /\ \/ pc' = "callbacks" /\ reset' = reset
           \/ /\ pc' = "cpu" /\ callback_queue = <<>>
              /\ reset' = IF reset = "hook" THEN "no" ELSE reset
        /\ UNCHANGED <<is_paused, pause_pending, armed, batch, calm, hasty, advanced>>
    BY <1>1 DEF NextQueue, pauseVars, userVars
  <2>2. is_paused /\ pc' = "cpu" => armed # 0
    BY <2>1, NothingQueuedArmed
  <2> QED BY <2>1, <2>2 DEF AdvanceInv, FrameOver, FrameAhead
<1>2. CASE CallScreenshot \/ QueueDone
  <2>1. /\ pc = "callbacks" /\ pc' \in {"callbacks", "execute"}
        /\ UNCHANGED <<is_paused, pause_pending, armed, batch, calm, hasty, advanced, reset>>
    BY <1>2 DEF CallScreenshot, QueueDone, pauseVars, userVars, cpuVars
  <2> QED BY <2>1 DEF AdvanceInv, FrameOver, FrameAhead
<1>3. CASE CallPauseLoop
  <2>1. /\ pc = "callbacks" /\ pc' \in {"callbacks", "sleep"}
        /\ pc' = "sleep" => is_paused
        /\ UNCHANGED <<is_paused, pause_pending, batch, calm, hasty, advanced, reset>>
    BY <1>3 DEF CallPauseLoop, IterationEnds, IterationSleeps, userVars
  <2> QED BY <2>1 DEF AdvanceInv, FrameOver, FrameAhead
<1>4. CASE PauseLoopWakes
  <2>1. /\ pc = "sleep" /\ pc' = "callbacks"
        /\ UNCHANGED <<is_paused, pause_pending, armed, batch, hasty, advanced, reset>>
    BY <1>4 DEF PauseLoopWakes, pauseVars, cpuVars
  <2> QED BY <2>1 DEF AdvanceInv, FrameOver, FrameAhead
<1>5. CASE vsync_do_vsync
  <2>1. /\ pc = "cpu" /\ armed = 0 /\ pc' = "execute"
        /\ pause_pending => is_paused'
        /\ advanced' = IF advanced \in {0, 1} THEN advanced + 1 ELSE advanced
    BY <1>5 DEF vsync_do_vsync, ui_pause_enable
  <2>2. advanced \in {-1, 0}
    BY <2>1 DEF AdvanceInv, FrameOver
  <2>3. advanced' \in {-1, 0, 1} /\ advanced' # 0 /\ (advanced' = 1 => advanced = 0)
    BY <2>1, <2>2
  <2>4. advanced' = 1 => is_paused'
    BY <2>1, <2>3 DEF AdvanceInv, FrameAhead
  <2> QED BY <2>1, <2>3, <2>4 DEF AdvanceInv, FrameOver, FrameAhead
<1>6. CASE interrupt_do_trap
  <2>1. /\ pc = "cpu" /\ armed > 0 /\ batch' = armed /\ pc' = "traps"
        /\ UNCHANGED <<is_paused, pause_pending, calm, hasty, advanced, reset>>
    BY <1>6 DEF interrupt_do_trap, pauseVars, userVars
  <2>2. batch' # 0
    BY <1>0, <2>1
  <2> QED BY <2>1, <2>2 DEF AdvanceInv, FrameOver, FrameAhead
<1>7. CASE TrapsDone
  <2>1. /\ pc = "traps" /\ batch = 0
        /\ pc' = IF reset = "pending" THEN "reset" ELSE "cpu"
        /\ UNCHANGED <<is_paused, pause_pending, armed, batch, calm, hasty, advanced, reset>>
    BY <1>7 DEF TrapsDone, pauseVars, userVars, cpuVars
  <2>2. advanced # 1
    BY <2>1 DEF AdvanceInv, FrameOver
  <2> QED BY <2>1, <2>2 DEF AdvanceInv, FrameOver, FrameAhead
<1>8. CASE machine_reset
  <2>1. /\ pc = "reset" \/ (pc = "cpu" /\ reset = "pending" /\ armed = 0)
        /\ pc' = "execute"
        /\ UNCHANGED <<is_paused, pause_pending, batch, calm, hasty, advanced>>
    BY <1>8 DEF machine_reset, pauseVars, userVars
  <2>2. reset = "pending" /\ advanced # 1
    BY <2>1 DEF AdvanceInv, FrameOver
  <2>3. advanced = 0 => hasty
    BY <2>2 DEF AdvanceInv, FrameAhead
  <2> QED BY <2>1, <2>2, <2>3 DEF AdvanceInv, FrameOver, FrameAhead
<1>9. CASE monitor_startup
  <2>1. pc' = "monitor" /\ advanced' = -1 /\ is_paused' = FALSE
    BY <1>9 DEF monitor_startup
  <2> QED BY <2>1 DEF AdvanceInv, FrameOver, FrameAhead
<1>10. CASE MonitorPause
  <2>1. /\ pc = "monitor_pause" /\ pc' \in {"traps", "monitor_sleep"}
        /\ UNCHANGED <<is_paused, pause_pending, batch, calm, hasty, advanced, reset>>
    BY <1>10 DEF MonitorPause, IterationEnds, IterationSleeps, userVars
  <2> QED BY <2>1 DEF AdvanceInv, FrameOver, FrameAhead
<1>11. CASE MonitorPauseWakes
  <2>1. /\ pc = "monitor_sleep" /\ pc' \in {"traps", "monitor_pause"}
        /\ UNCHANGED <<is_paused, pause_pending, batch, hasty, advanced, reset>>
    BY <1>11 DEF MonitorPauseWakes, pauseVars, cpuVars
  <2> QED BY <2>1 DEF AdvanceInv, FrameOver, FrameAhead
<1> QED
  BY <1>1, <1>2, <1>3, <1>4, <1>5, <1>6, <1>7, <1>8, <1>9, <1>10, <1>11 DEF Vice

\* Every action of the user keeps AdvanceInv.
LEMMA UserKeepsAdvanceInv ==
  ASSUME HoldInv, AdvanceInv, User
  PROVE  AdvanceInv'
<1>0. armed \in Nat /\ batch \in Nat
  BY DEF HoldInv
<1>1. ASSUME UserActs, pc' = pc
      PROVE  /\ pc \in {"cpu", "sleep", "monitor", "monitor_sleep"}
             /\ ~calm \/ (reset # "no" /\ pc # "monitor") => hasty'
             /\ hasty => hasty'
             /\ ~calm'
  BY <1>1 DEF UserActs
<1>2. CASE pause_toggle_action
  <2>1. UserActs /\ pc' = pc /\ advanced' = -1 /\ UNCHANGED reset
    BY <1>2 DEF pause_toggle_action, cpuVars
  <2> QED BY <1>1, <2>1 DEF AdvanceInv, FrameOver, FrameAhead
<1>3. CASE advance_frame_action
  <2>1. UserActs /\ UNCHANGED <<pc, armed, batch, reset>>
    BY <1>3 DEF advance_frame_action, cpuVars
  <2>2. CASE is_paused
    <3>1. is_paused' = FALSE /\ pause_pending' = TRUE /\ advanced' = 0
      BY <1>3, <2>2 DEF advance_frame_action
    <3>2. hasty' \/ (reset = "no" /\ pc # "monitor")
      BY <1>1, <2>1, <2>2 DEF AdvanceInv
    <3> QED BY <1>1, <2>1, <3>1, <3>2 DEF AdvanceInv, FrameOver, FrameAhead
  <2>3. CASE ~is_paused
    <3>1. is_paused' = TRUE /\ UNCHANGED <<pause_pending, advanced>>
      BY <1>3, <2>3 DEF advance_frame_action, ui_pause_enable
    <3>2. advanced # 1
      BY <2>3 DEF AdvanceInv, FrameOver
    <3>3. advanced = 0 => /\ pause_pending'
                          /\ hasty' \/ (reset = "no" /\ pc # "monitor" /\ pc # "sleep")
      BY <1>1, <2>1, <3>1 DEF AdvanceInv, FrameAhead
    <3> QED BY <1>1, <2>1, <3>1, <3>2, <3>3 DEF AdvanceInv, FrameOver, FrameAhead
  <2> QED BY <2>2, <2>3
<1>4. CASE monitor_open_action
  <2>1. /\ UserActs
        /\ UNCHANGED <<pc, batch, reset, is_paused, pause_pending, advanced>>
        /\ armed' = armed \/ armed' = armed + 1
    BY <1>4 DEF monitor_open_action
  <2>2. armed # 0 => armed' # 0
    BY <1>0, <2>1
  <2> QED BY <1>1, <2>1, <2>2 DEF AdvanceInv, FrameOver, FrameAhead
<1>5. CASE reset_soft_action
  <2>1. UserActs /\ pc' = pc /\ advanced' = -1
    BY <1>5 DEF reset_soft_action
  <2> QED BY <1>1, <2>1 DEF AdvanceInv, FrameOver, FrameAhead
<1>6. CASE ui_media_auto_screenshot
  <2>1. /\ UserActs
        /\ UNCHANGED <<pc, armed, batch, reset, is_paused, pause_pending, advanced>>
    BY <1>6 DEF ui_media_auto_screenshot, pauseVars, cpuVars
  <2> QED BY <1>1, <2>1 DEF AdvanceInv, FrameOver, FrameAhead
<1>7. CASE mon_exit \/ mon_jump
  <2>1. /\ pc = "monitor" /\ pc' \in {"traps", "monitor_pause"}
        /\ UNCHANGED <<pause_pending, reset, calm, hasty, advanced>>
    BY <1>7 DEF mon_exit, mon_jump, pauseVars, userVars, cpuVars
  <2>2. advanced # 1 /\ (advanced = 0 => hasty)
    BY <2>1 DEF AdvanceInv, FrameOver, FrameAhead
  <2> QED BY <2>1, <2>2 DEF AdvanceInv, FrameOver, FrameAhead
<1> QED BY <1>2, <1>3, <1>4, <1>5, <1>6, <1>7 DEF User

\* A frame advance emulates exactly one frame before the pause is on again: the
\* CPU never gets a second one, and the pause loop that was asleep does not find
\* the pause still on, unless the user acted before the VICE thread looked.
THEOREM OneFrame == Spec => []AdvancesOneFrame
<1>1. Init => HoldInv /\ AdvanceInv
  BY DEF Init, HoldInv, AdvanceInv, FrameOver, FrameAhead
<1>2. QueueInv /\ HoldInv /\ AdvanceInv /\ [Next]_vars => QueueInv' /\ HoldInv' /\ AdvanceInv'
  <2> SUFFICES ASSUME QueueInv, HoldInv, AdvanceInv, [Next]_vars
               PROVE  QueueInv' /\ HoldInv' /\ AdvanceInv'
    OBVIOUS
  <2>1. CASE UNCHANGED vars
    <3>1. AdvanceInv'
      BY <2>1 DEF vars, pauseVars, userVars, cpuVars, AdvanceInv, FrameOver, FrameAhead
    <3> QED BY <3>1, StepKeepsQueueInv, StepKeepsHoldInv
  <2>2. CASE Next
    BY <2>2, StepKeepsQueueInv, StepKeepsHoldInv, ViceKeepsAdvanceInv, UserKeepsAdvanceInv
    DEF Next
  <2> QED BY <2>1, <2>2
<1>3. AdvanceInv => AdvancesOneFrame
  BY DEF AdvanceInv, FrameAhead, AdvancesOneFrame
<1> QED BY InitQueueInv, <1>1, <1>2, <1>3, PTL DEF Spec
=============================================================================
