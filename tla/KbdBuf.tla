------------------------------- MODULE KbdBuf -------------------------------
(***************************************************************************)
(* The keyboard buffer (kbdbuf.c): strings that autostart, the clipboard   *)
(* or the command line feed wait in a ring of characters and are written   *)
(* into the buffer of the emulated Kernal, a bufferful at the end of a     *)
(* frame.  The RETURN of a run command is delayed by a random time: an     *)
(* alarm writes it.                                                        *)
(*                                                                         *)
(* Times are kept as differences, so that a behaviour need not end: clk    *)
(* stops at MaxClk, and alarm_in is kbdbuf_flush_alarm_time - maincpu_clk. *)
(***************************************************************************)
EXTENDS Integers, Sequences, FiniteSets

CONSTANTS QUEUE_SIZE,         \* 16384 in the code
          buffer_size,        \* size of the Kernal's buffer
          kernal_init_cycles, \* when the Kernal is known to be ready
          BootCycles,         \* when the Kernal really is ready
          Frame,              \* machine_get_cycles_per_frame()
          ResetCycles,        \* maincpu_clk after a reset
          Letters,            \* characters besides RETURN
          MaxLength,          \* bound: length of a string
          MaxClk,             \* bound: the clock counts up to here
          MaxFeeds,           \* bound: strings that are fed
          MaxResets,          \* bound: resets
          MaxKeys             \* bound: keys that the user types

ASSUME KbdBufConstants ==
  /\ {QUEUE_SIZE, buffer_size, kernal_init_cycles, BootCycles, Frame, ResetCycles,
      MaxClk, MaxFeeds, MaxResets, MaxKeys} \subseteq Nat
  /\ MaxLength \in Nat /\ Letters \subseteq Nat \ {0, 13}
  /\ buffer_size > 0 /\ Frame > 0 /\ QUEUE_SIZE > 0
  /\ ResetCycles < BootCycles /\ BootCycles <= kernal_init_cycles
  /\ kernal_init_cycles < MaxClk

CR == 13
Typed == 0  \* a key that the user types
NoAlarm == -1
Strings == UNION {[1 .. n -> Letters \union {CR}] : n \in 1 .. MaxLength}

VARIABLES queue, head_idx, num_pending,
          use_kbdbuf_flush_alarm,
          alarm_in,        \* cycles until the alarm, NoAlarm when time is 0
          clk,             \* maincpu_clk
          line,            \* cycles since the last vsync
          kernal,          \* the Kernal's buffer
          fed,             \* history: the strings that were accepted
          read,            \* history: what the program got of them
          mixed,           \* history: a key was typed while RETURN was delayed
          feeds, resets, keys \* history: how many there were so far

ringVars == <<queue, head_idx, num_pending>>
timeVars == <<clk, line>>
boundVars == <<feeds, resets, keys>>
vars == <<ringVars, use_kbdbuf_flush_alarm, alarm_in, timeVars, kernal, fed, read,
          mixed, boundVars>>

\* The Kernal has set up its buffer.
Ready == clk >= BootCycles

\* The characters of a ring, from its head on.
Pending(ring, head, num) == [k \in 1 .. num |-> ring[(head + k - 1) % QUEUE_SIZE]]

-----------------------------------------------------------------------------
\* Slip: the Kernal may still be starting.
FlushesAtOnce(num, buffer) == num > 0 /\ buffer = <<>> /\ alarm_in = NoAlarm

\* The conditions of kbdbuf_flush.
Flushes(num, buffer) ==
  /\ num > 0 /\ buffer = <<>>
  /\ clk >= kernal_init_cycles
  /\ alarm_in = NoAlarm

\* kbdbuf_flush: characters up to a RETURN that is to be delayed, for which the
\* alarm is set at least a frame later.
kbdbuf_flush(ring, head, num, delayed) ==
  LET pending == Pending(ring, head, num)
      n == IF num > buffer_size THEN buffer_size ELSE num
      stops == {k \in 1 .. n : delayed /\ pending[k] = CR}
      count == IF stops = {} THEN n ELSE (CHOOSE k \in stops : \A j \in stops : k <= j) - 1
  IN IF Flushes(num, kernal)
     THEN /\ kernal' = kernal \o SubSeq(pending, 1, count)
          /\ head_idx' = (head + count) % QUEUE_SIZE
          /\ num_pending' = num - count
          /\ IF stops = {} THEN UNCHANGED alarm_in
             ELSE \E random \in 1 .. Frame : alarm_in' = Frame + random
     ELSE head_idx' = head /\ num_pending' = num /\ UNCHANGED <<kernal, alarm_in>>

\* string_to_queue: refused if it does not fit, flushed at once if possible.
string_to_queue(string, delayed) ==
  LET ring == [p \in 0 .. QUEUE_SIZE - 1 |->
                 LET k == 1 + ((p - head_idx - num_pending) % QUEUE_SIZE)
                 IN IF k <= Len(string) THEN string[k] ELSE queue[p]]
  IN IF num_pending + Len(string) > QUEUE_SIZE
     THEN UNCHANGED <<ringVars, alarm_in, kernal, fed>>
     ELSE /\ queue' = ring
          /\ fed' = fed \o string
          /\ kbdbuf_flush(ring, head_idx, num_pending + Len(string), delayed)

\* kbdbuf_feed and kbdbuf_feed_runcmd: the flag is for the whole queue.
kbdbuf_feed(string, runcmd) ==
  /\ feeds < MaxFeeds /\ feeds' = feeds + 1
  /\ use_kbdbuf_flush_alarm' = runcmd
  /\ string_to_queue(string, runcmd)
  /\ UNCHANGED <<timeVars, read, mixed, resets, keys>>

\* The alarm writes a RETURN, and takes one character from the queue.
kbdbuf_flush_alarm_triggered ==
  /\ alarm_in = 0
  /\ alarm_in' = NoAlarm
  /\ kernal' = Append(kernal, CR)
  /\ head_idx' = (head_idx + 1) % QUEUE_SIZE
  /\ num_pending' = num_pending - 1
  /\ UNCHANGED <<queue, use_kbdbuf_flush_alarm, timeVars, fed, read, mixed, boundVars>>

\* Slip: the queue is flushed only when something is fed.
VsyncWithoutFlush ==
  /\ line = Frame /\ line' = 0
  /\ alarm_in # 0
  /\ UNCHANGED <<ringVars, use_kbdbuf_flush_alarm, alarm_in, clk, kernal, fed, read,
                 mixed, boundVars>>

\* The end of a frame.
vsync_do_vsync ==
  /\ line = Frame /\ line' = 0
  /\ alarm_in # 0
  /\ kbdbuf_flush(queue, head_idx, num_pending, use_kbdbuf_flush_alarm)
  /\ UNCHANGED <<queue, use_kbdbuf_flush_alarm, clk, fed, read, mixed, boundVars>>

-----------------------------------------------------------------------------
(* The emulated machine. *)

\* A cycle; the Kernal empties its buffer when it starts.
Cycle ==
  /\ line < Frame /\ line' = line + 1
  /\ alarm_in # 0
  /\ clk' = IF clk < MaxClk THEN clk + 1 ELSE clk
  /\ alarm_in' = IF alarm_in = NoAlarm THEN NoAlarm ELSE alarm_in - 1
  /\ kernal' = IF clk' = BootCycles /\ clk < BootCycles THEN <<>> ELSE kernal
  /\ UNCHANGED <<ringVars, use_kbdbuf_flush_alarm, fed, read, mixed, boundVars>>

\* The program reads a key.
GetIn ==
  /\ Ready /\ kernal # <<>>
  /\ kernal' = Tail(kernal)
  /\ read' = IF Head(kernal) = Typed THEN read ELSE Append(read, Head(kernal))
  /\ UNCHANGED <<ringVars, use_kbdbuf_flush_alarm, alarm_in, timeVars, fed, mixed,
                 boundVars>>

\* The Kernal scans the keyboard: a key of the user, unless its buffer is full.
ScanKey ==
  /\ Ready /\ Len(kernal) < buffer_size
  /\ keys < MaxKeys /\ keys' = keys + 1
  /\ kernal' = Append(kernal, Typed)
  /\ mixed' = (mixed \/ alarm_in # NoAlarm)
  /\ UNCHANGED <<ringVars, use_kbdbuf_flush_alarm, alarm_in, timeVars, fed, read,
                 feeds, resets>>

\* A reset sets the clock back; the queue and the alarm keep what they have, the
\* alarm also when it is due.  What was in the Kernal's buffer is gone with the
\* program.
cpu_reset ==
  /\ resets < MaxResets /\ resets' = resets + 1
  /\ clk' = ResetCycles
  /\ alarm_in' = IF alarm_in = NoAlarm THEN NoAlarm ELSE alarm_in + clk - ResetCycles
  /\ fed' = Pending(queue, head_idx, num_pending)
  /\ read' = <<>>
  /\ UNCHANGED <<ringVars, use_kbdbuf_flush_alarm, line, kernal, mixed, feeds, keys>>

-----------------------------------------------------------------------------
Init ==
  /\ queue = [p \in 0 .. QUEUE_SIZE - 1 |-> 0] /\ head_idx = 0 /\ num_pending = 0
  /\ use_kbdbuf_flush_alarm = FALSE /\ alarm_in = NoAlarm
  /\ clk = ResetCycles /\ line = 0
  /\ kernal = <<>> /\ fed = <<>> /\ read = <<>> /\ mixed = FALSE
  /\ feeds = 0 /\ resets = 0 /\ keys = 0

Feed == \E string \in Strings, runcmd \in BOOLEAN : kbdbuf_feed(string, runcmd)

Next ==
  \/ Feed \/ kbdbuf_flush_alarm_triggered \/ vsync_do_vsync
  \/ Cycle \/ GetIn \/ ScanKey \/ cpu_reset

\* The emulation runs, and the program reads its keys.
Spec ==
  /\ Init /\ [][Next]_vars
  /\ WF_vars(Cycle \/ vsync_do_vsync \/ kbdbuf_flush_alarm_triggered)
  /\ WF_vars(GetIn)

-----------------------------------------------------------------------------
\* How many of the first n keys in the Kernal's buffer were fed.
Fed(n) == Cardinality({k \in 1 .. n : kernal[k] # Typed})

\* The program gets the characters that were fed, all of them, once and in
\* order: they are read, in the Kernal's buffer or in the queue; none is written
\* while the Kernal starts, which would lose it, and the Kernal's buffer never
\* overruns, unless the user types while a RETURN is delayed.
KeysDelivered ==
  /\ Len(fed) = Len(read) + (IF Ready THEN Fed(Len(kernal)) ELSE 0) + num_pending
  /\ \A k \in DOMAIN read : read[k] = fed[k]
  /\ Ready => \A k \in DOMAIN kernal :
                kernal[k] # Typed => kernal[k] = fed[Len(read) + Fed(k)]
  /\ \A k \in 1 .. num_pending :
       Pending(queue, head_idx, num_pending)[k] = fed[Len(fed) - num_pending + k]
  /\ Len(kernal) <= buffer_size \/ mixed

\* What is fed gets to the program, however often the machine is reset.
KeysArrive == num_pending > 0 ~> num_pending = 0
=============================================================================
