------------------------------- MODULE Pause -------------------------------
(***************************************************************************)
(* Pausing (ui_pause_* of arch/gtk3/ui.c, arch/gtk3/vsyncarch.c) on top of *)
(* the callback queue of vsync.c, with the monitor (monitor.c), which      *)
(* pauses by a loop of its own.                                            *)
(*                                                                         *)
(* A pause is a callback that sleeps, with the main lock given to the UI,  *)
(* and queues itself again: execute_vsync_callbacks does not end while the *)
(* pause lasts.  The UI thread acts while the VICE thread runs opcodes     *)
(* (which yields now and then), sleeps, or waits in the monitor.           *)
(*                                                                         *)
(* A callback is the pause_loop or the number of a screenshot.             *)
(***************************************************************************)
EXTENDS Integers, Sequences, SequencesExt

CONSTANTS MaxActions, \* bound: actions of the user
          MaxShots    \* bound: screenshots that wait for a vsync

ASSUME PauseConstants ==
  /\ MaxActions \in Nat /\ MaxShots \in Nat

VARIABLES
  pc,               \* where the VICE thread is
  callback_queues,  \* the two queues
  callback_queue_index, \* the one that collects
  i,                \* the callback to call next, of the other one
  is_paused, pause_pending, enter_monitor_while_paused,
  should_pause_on_exit_mon,
  armed,            \* monitor traps that are queued
  batch,            \* monitor traps that interrupt_do_trap still has to call
  reset,            \* no reset, a pending one, or one whose callbacks are run ("hook")
  calm,             \* history: the VICE thread has looked since the last action
  hasty,            \* history: the user once acted before it had looked
  advanced,         \* history: frames since the frame advance, -1 without one
  actions,          \* history: what the user did so far
  shots, ran        \* history: screenshots asked for, screenshots made

queueVars == <<callback_queues, callback_queue_index>>
pauseVars == <<is_paused, pause_pending, enter_monitor_while_paused>>
cpuVars == <<armed, batch, reset>>
userVars == <<calm, hasty, actions, shots>>
vars == <<pc, queueVars, i, pauseVars, should_pause_on_exit_mon, cpuVars,
          userVars, advanced, ran>>

pause_loop == 0

callback_queue == callback_queues[callback_queue_index]
executing_queue == callback_queues[1 - callback_queue_index]

-----------------------------------------------------------------------------
(* vsync.c *)

vsync_on_vsync_do(callback) ==
  callback_queues' =
    [callback_queues EXCEPT ![callback_queue_index] = Append(@, callback)]

ui_pause_enable ==
  /\ is_paused' = TRUE
  /\ IF is_paused THEN UNCHANGED callback_queues ELSE vsync_on_vsync_do(pause_loop)

\* execute_vsync_callbacks: the queue that was collected is run, the other
\* collects.  After those of a reset interrupt_ack_reset follows.
NextQueue ==
  /\ pc = "execute"
  /\ IF callback_queue # <<>>
     THEN /\ pc' = "callbacks"
          /\ callback_queue_index' = 1 - callback_queue_index
          /\ i' = 1
          /\ UNCHANGED reset
     ELSE /\ pc' = "cpu"
          /\ reset' = IF reset = "hook" THEN "no" ELSE reset
          /\ UNCHANGED <<callback_queue_index, i>>
  /\ UNCHANGED <<callback_queues, pauseVars, should_pause_on_exit_mon, armed, batch,
                 userVars, advanced, ran>>

CallScreenshot ==
  /\ pc = "callbacks" /\ i <= Len(executing_queue)
  /\ executing_queue[i] # pause_loop
  /\ ran' = Append(ran, executing_queue[i])
  /\ i' = i + 1
  /\ UNCHANGED <<pc, queueVars, pauseVars, should_pause_on_exit_mon, cpuVars,
                 userVars, advanced>>

\* Slip: the queue that was run is not emptied.
QueueDoneKeepsQueue ==
  /\ pc = "callbacks" /\ i > Len(executing_queue)
  /\ pc' = "execute"
  /\ UNCHANGED <<queueVars, i, pauseVars, should_pause_on_exit_mon, cpuVars,
                 userVars, advanced, ran>>

QueueDone ==
  /\ pc = "callbacks" /\ i > Len(executing_queue)
  /\ callback_queues' = [callback_queues EXCEPT ![1 - callback_queue_index] = <<>>]
  /\ pc' = "execute"
  /\ UNCHANGED <<callback_queue_index, i, pauseVars, should_pause_on_exit_mon, cpuVars,
                 userVars, advanced, ran>>

-----------------------------------------------------------------------------
(* ui_pause_loop_iteration, called by pause_loop and by monitor_startup. *)

\* The iteration ends at once, at the program point done.
IterationEnds(done) ==
  /\ ~is_paused \/ enter_monitor_while_paused
  /\ enter_monitor_while_paused' = (enter_monitor_while_paused /\ ~is_paused)
  /\ armed' = IF is_paused THEN armed + 1 ELSE armed
  /\ pc' = done

\* The iteration sleeps; the UI has the lock.
IterationSleeps(asleep) ==
  /\ is_paused /\ ~enter_monitor_while_paused
  /\ pc' = asleep
  /\ UNCHANGED <<enter_monitor_while_paused, armed>>

\* Slip: the loop goes on when the trap is queued.
PauseLoopGoesOn ==
  /\ pc = "callbacks" /\ i <= Len(executing_queue)
  /\ executing_queue[i] = pause_loop
  /\ \/ ~is_paused /\ i' = i + 1 /\ UNCHANGED <<pc, enter_monitor_while_paused, armed>>
     \/ /\ is_paused /\ enter_monitor_while_paused
        /\ enter_monitor_while_paused' = FALSE
        /\ armed' = armed + 1
        /\ pc' = "sleep" /\ UNCHANGED i
     \/ IterationSleeps("sleep") /\ UNCHANGED i
  /\ UNCHANGED <<queueVars, is_paused, pause_pending, should_pause_on_exit_mon,
                 batch, reset, userVars, advanced, ran>>

CallPauseLoop ==
  /\ pc = "callbacks" /\ i <= Len(executing_queue)
  /\ executing_queue[i] = pause_loop
  /\ \/ IterationEnds("callbacks") /\ i' = i + 1
     \/ IterationSleeps("sleep") /\ UNCHANGED i
  /\ UNCHANGED <<queueVars, is_paused, pause_pending, should_pause_on_exit_mon,
                 batch, reset, userVars, advanced, ran>>

\* Slip: the loop ends when the UI had its turn.
PauseLoopRunsOnce ==
  /\ pc = "sleep"
  /\ UNCHANGED callback_queues
  /\ pc' = "callbacks" /\ i' = i + 1
  /\ calm' = TRUE
  /\ UNCHANGED <<callback_queue_index, pauseVars, should_pause_on_exit_mon,
                 cpuVars, hasty, actions, shots, advanced, ran>>

\* pause_loop after the sleep: still paused, schedule another run.
PauseLoopWakes ==
  /\ pc = "sleep"
  /\ IF is_paused THEN vsync_on_vsync_do(pause_loop) ELSE UNCHANGED callback_queues
  /\ pc' = "callbacks" /\ i' = i + 1
  /\ calm' = TRUE
  /\ UNCHANGED <<callback_queue_index, pauseVars, should_pause_on_exit_mon,
                 cpuVars, hasty, actions, shots, advanced, ran>>

-----------------------------------------------------------------------------
(* The CPU: frames, traps and resets. *)

\* Slip: the frame is over, and nobody pauses again.
FrameForgetsPause ==
  /\ pc = "cpu" /\ armed = 0 /\ reset = "no"
  /\ pause_pending' = FALSE
  /\ advanced' = IF advanced \in {0, 1} THEN advanced + 1 ELSE advanced
  /\ pc' = "execute"
  /\ calm' = TRUE
  /\ UNCHANGED <<queueVars, i, is_paused, enter_monitor_while_paused,
                 should_pause_on_exit_mon, cpuVars, hasty, actions, shots, ran>>

\* The opcodes of a frame, then vsync_do_vsync up to the callbacks: a frame
\* that was asked for is over (vsyncarch_postsync).
vsync_do_vsync ==
  /\ pc = "cpu" /\ armed = 0 /\ reset = "no"
  /\ IF pause_pending THEN ui_pause_enable ELSE UNCHANGED <<callback_queues, is_paused>>
  /\ pause_pending' = FALSE
  /\ advanced' = IF advanced \in {0, 1} THEN advanced + 1 ELSE advanced
  /\ pc' = "execute"
  /\ calm' = TRUE
  /\ UNCHANGED <<callback_queue_index, i, enter_monitor_while_paused,
                 should_pause_on_exit_mon, cpuVars, hasty, actions, shots, ran>>

interrupt_do_trap ==
  /\ pc = "cpu" /\ armed > 0
  /\ batch' = armed /\ armed' = 0
  /\ pc' = "traps"
  /\ UNCHANGED <<queueVars, i, pauseVars, should_pause_on_exit_mon, reset,
                 userVars, advanced, ran>>

TrapsDone ==
  /\ pc = "traps" /\ batch = 0
  /\ pc' = IF reset = "pending" THEN "reset" ELSE "cpu"
  /\ UNCHANGED <<queueVars, i, pauseVars, should_pause_on_exit_mon, cpuVars,
                 userVars, advanced, ran>>

\* cpu_reset drops the traps; vsync_reset_hook runs the callbacks.
machine_reset ==
  /\ pc = "reset" \/ (pc = "cpu" /\ reset = "pending" /\ armed = 0)
  /\ reset' = "hook" /\ armed' = 0
  /\ pc' = "execute"
  /\ UNCHANGED <<queueVars, i, pauseVars, should_pause_on_exit_mon, batch,
                 userVars, advanced, ran>>

-----------------------------------------------------------------------------
(* The monitor. *)

\* monitor_startup, called by monitor_trap: a pause is suspended.
monitor_startup ==
  /\ pc = "traps" /\ batch > 0
  /\ batch' = batch - 1
  /\ should_pause_on_exit_mon' = (should_pause_on_exit_mon \/ is_paused)
  /\ is_paused' = FALSE
  /\ pc' = "monitor"
  /\ calm' = TRUE
  /\ advanced' = -1
  /\ UNCHANGED <<queueVars, i, pause_pending, enter_monitor_while_paused, armed,
                 reset, hasty, actions, shots, ran>>

\* mon_go, mon_exit and the end of monitor_startup.
mon_exit ==
  /\ pc = "monitor"
  /\ IF should_pause_on_exit_mon \/ is_paused
     THEN pc' = "monitor_pause" /\ ui_pause_enable
     ELSE pc' = "traps" /\ UNCHANGED <<callback_queues, is_paused>>
  /\ should_pause_on_exit_mon' = FALSE
  /\ UNCHANGED <<callback_queue_index, i, pause_pending,
                 enter_monitor_while_paused, cpuVars, userVars, advanced, ran>>

\* mon_jump and the commands that execute opcodes: no pause now.
mon_jump ==
  /\ pc = "monitor"
  /\ pc' = "traps"
  /\ UNCHANGED <<queueVars, i, pauseVars, should_pause_on_exit_mon, cpuVars,
                 userVars, advanced, ran>>

\* while (ui_pause_loop_iteration()): this loop runs no callbacks.
MonitorPause ==
  /\ pc = "monitor_pause"
  /\ IterationEnds("traps") \/ IterationSleeps("monitor_sleep")
  /\ UNCHANGED <<queueVars, i, is_paused, pause_pending, should_pause_on_exit_mon,
                 batch, reset, userVars, advanced, ran>>

MonitorPauseWakes ==
  /\ pc = "monitor_sleep"
  /\ pc' = IF is_paused THEN "monitor_pause" ELSE "traps"
  /\ calm' = TRUE
  /\ UNCHANGED <<queueVars, i, pauseVars, should_pause_on_exit_mon, cpuVars,
                 hasty, actions, shots, advanced, ran>>

-----------------------------------------------------------------------------
(* The user. *)

UserActs ==
  /\ pc \in {"cpu", "sleep", "monitor", "monitor_sleep"}
  /\ actions < MaxActions
  /\ hasty' = (hasty \/ ~calm \/ armed > 0 \/ (reset # "no" /\ pc # "monitor"))
  /\ actions' = actions + 1
  /\ calm' = FALSE

pause_toggle_action ==
  /\ UserActs
  /\ IF is_paused THEN is_paused' = FALSE /\ UNCHANGED callback_queues
                  ELSE ui_pause_enable
  /\ advanced' = -1
  /\ UNCHANGED <<pc, callback_queue_index, i, pause_pending,
                 enter_monitor_while_paused, should_pause_on_exit_mon, cpuVars,
                 shots, ran>>

\* vsyncarch_advance_frame if paused, pause otherwise.
advance_frame_action ==
  /\ UserActs
  /\ IF is_paused
     THEN /\ is_paused' = FALSE /\ pause_pending' = TRUE
          /\ advanced' = 0
          /\ UNCHANGED callback_queues
     ELSE ui_pause_enable /\ UNCHANGED <<pause_pending, advanced>>
  /\ UNCHANGED <<pc, callback_queue_index, i, enter_monitor_while_paused,
                 should_pause_on_exit_mon, cpuVars, shots, ran>>

\* monitor_startup_trap does nothing inside the monitor.
monitor_open_action ==
  /\ UserActs
  /\ enter_monitor_while_paused' = (enter_monitor_while_paused \/ is_paused)
  /\ armed' = IF is_paused \/ pc = "monitor" THEN armed ELSE armed + 1
  /\ UNCHANGED <<pc, queueVars, i, is_paused, pause_pending,
                 should_pause_on_exit_mon, batch, reset, shots, advanced, ran>>

\* A request in the middle of a reset is acknowledged together with it.
reset_soft_action ==
  /\ UserActs
  /\ reset' = IF reset = "hook" THEN "hook" ELSE "pending"
  /\ is_paused' = FALSE
  /\ advanced' = -1
  /\ UNCHANGED <<pc, queueVars, i, pause_pending, enter_monitor_while_paused,
                 should_pause_on_exit_mon, armed, batch, shots, ran>>

\* Inside the monitor the screenshot is taken at once.
ui_media_auto_screenshot ==
  /\ UserActs
  /\ pc # "monitor"
  /\ shots < MaxShots
  /\ shots' = shots + 1
  /\ vsync_on_vsync_do(shots + 1)
  /\ UNCHANGED <<pc, callback_queue_index, i, pauseVars, should_pause_on_exit_mon,
                 cpuVars, advanced, ran>>

-----------------------------------------------------------------------------
Init ==
  /\ pc = "cpu"
  /\ callback_queues = [q \in {0, 1} |-> <<>>] /\ callback_queue_index = 0 /\ i = 1
  /\ is_paused = FALSE /\ pause_pending = FALSE
  /\ enter_monitor_while_paused = FALSE /\ should_pause_on_exit_mon = FALSE
  /\ armed = 0 /\ batch = 0 /\ reset = "no"
  /\ calm = TRUE /\ hasty = FALSE /\ advanced = -1 /\ actions = 0 /\ shots = 0 /\ ran = <<>>

\* What the VICE thread does by itself.
Vice ==
  \/ NextQueue \/ CallScreenshot \/ CallPauseLoop \/ QueueDone \/ PauseLoopWakes
  \/ vsync_do_vsync \/ interrupt_do_trap \/ TrapsDone \/ machine_reset
  \/ monitor_startup \/ MonitorPause \/ MonitorPauseWakes

User ==
  \/ pause_toggle_action \/ advance_frame_action \/ monitor_open_action
  \/ reset_soft_action \/ ui_media_auto_screenshot
  \/ mon_exit \/ mon_jump

Next == Vice \/ User

\* The VICE thread is scheduled again and again.
Spec == Init /\ [][Next]_vars /\ WF_vars(Vice)

-----------------------------------------------------------------------------
\* What is queued: the rest of the queue that is run, then what was collected.
Queued ==
  (IF pc \in {"callbacks", "sleep"} THEN SubSeq(executing_queue, i, Len(executing_queue))
   ELSE <<>>) \o callback_queue

\* A callback is called once, in the order in which the callbacks were queued,
\* also those that were queued while the queue was run.
CallbacksOnce ==
  /\ Len(ran) <= shots /\ \A n \in DOMAIN ran : ran[n] = n
  /\ ToSet(Queued) \ {pause_loop} = Len(ran) + 1 .. shots
  /\ \A m, n \in DOMAIN Queued :
       m < n /\ Queued[m] # pause_loop /\ Queued[n] # pause_loop => Queued[m] < Queued[n]

\* A paused emulation is stopped at the end of the frame at the latest: the
\* pause loop is queued, unless the pause leads into the monitor or out of it.
PauseTakesHold ==
  is_paused => \/ pause_loop \in ToSet(Queued)
               \/ armed > 0 \/ batch > 0
               \/ pc = "monitor_sleep" \/ pc = "monitor_pause"

\* A frame advance emulates one frame, neither none nor two, and pauses again,
\* unless the user is faster than the pause loop.
AdvancesOneFrame ==
  /\ advanced # 2
  /\ pc = "sleep" /\ is_paused /\ ~hasty => advanced # 0

PauseLoops == Len(SelectSeq(Queued, LAMBDA c : c = pause_loop))

\* The monitor that was asked for in a pause is opened, as long as only one
\* pause loop is queued, no reset is pending and the user leaves it the time.
MonitorOpens ==
  enter_monitor_while_paused /\ PauseLoops <= 1 /\ reset # "pending" ~> pc = "monitor" \/ hasty

\* "Exit pause loop to enter monitor if needed" (ui_pause_loop_iteration):
\* the monitor that was asked for in a pause is opened.
MonitorAlwaysOpens ==
  enter_monitor_while_paused ~> pc = "monitor" \/ hasty
=============================================================================
