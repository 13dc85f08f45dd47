------------------------------ MODULE MainLock ------------------------------
(***************************************************************************)
(* The main lock of VICE (mainlock.c), which the emulation thread (the     *)
(* VICE thread) owns except where it yields, and which the handlers of the *)
(* user interface obtain before they touch emulator data; and the shutdown *)
(* of both threads (archdep_exit.c, gtk3main.c, main.c).                   *)
(*                                                                         *)
(* Every step is one pthread call, or a section of internal_lock in which  *)
(* no other thread can take part.  A condition wait gives up internal_lock *)
(* and blocks in one step and takes internal_lock again when it is woken.  *)
(* main_lock is a normal mutex: as glibc does it, an unlock by a thread    *)
(* that does not own it frees it all the same.                             *)
(***************************************************************************)
EXTENDS Integers

CONSTANTS MaxDepth,   \* bound: how deep handlers obtain the lock (1: no nesting)
          MaxSpurious, \* bound: condition waits that return without a signal
          ViceExits   \* TRUE: the VICE thread may call archdep_vice_exit

ASSUME MainLockConstants ==
  /\ MaxDepth \in Nat \ {0}
  /\ MaxSpurious \in Nat
  /\ ViceExits \in BOOLEAN

VARIABLES v,          \* where the VICE thread is
          ui,         \* where the UI thread is
          mainOwner,  \* who holds main_lock
          internal,   \* who holds internal_lock
          uiWaiting,  \* ui_is_waiting
          keepalive,  \* vice_thread_keepalive
          running,    \* vice_thread_is_running
          depth,      \* main_lock_obtain_depth
          exiting,    \* how far the UI thread is in actually_exit
          exitQueued, \* exit_on_main_thread is a pending GTK timeout
          wakeups     \* history: spurious wakeups so far

lockVars == <<v, ui, mainOwner, internal, uiWaiting, keepalive, running, depth,
              exiting, exitQueued, wakeups>>

Threads == {"none", "vice", "ui"}

LockTypeOK ==
  /\ v \in {"start", "first", "run", "yield", "signal", "wait", "blocked", "woken",
            "leave", "resume", "consider", "wakeUi", "unlock", "gone",
            "initiate", "returned"}
  /\ ui \in {"idle", "obtain", "wait", "woken", "lock", "tell", "in", "released",
             "shutdown", "join", "done"}
  /\ mainOwner \in Threads /\ internal \in Threads
  /\ uiWaiting \in BOOLEAN /\ keepalive \in BOOLEAN /\ running \in BOOLEAN
  /\ depth \in 0 .. MaxDepth
  /\ exiting \in BOOLEAN /\ exitQueued \in BOOLEAN
  /\ wakeups \in 0 .. MaxSpurious

LockInit ==
  /\ v = "start" /\ ui = "idle"
  /\ mainOwner = "none" /\ internal = "none"
  /\ uiWaiting = FALSE /\ keepalive = TRUE /\ running = FALSE
  /\ depth = 0
  /\ exiting = FALSE /\ exitQueued = FALSE /\ wakeups = 0

------------------------------------------------------------------------------
(***************************************************************************)
(* pthread primitives.                                                     *)
(***************************************************************************)
LockMain(t) == mainOwner = "none" /\ mainOwner' = t
UnlockMain == mainOwner' = "none"
SignalUiWaiting == ui' = IF ui = "wait" THEN "woken" ELSE ui
SignalUiHasLock == v' = IF v = "blocked" THEN "woken" ELSE v

------------------------------------------------------------------------------
(***************************************************************************)
(* The VICE thread.                                                        *)
(***************************************************************************)
mainlock_set_vice_thread ==
  /\ v = "start" /\ internal = "none"
  /\ running' = TRUE
  /\ v' = "first"
  /\ UNCHANGED <<ui, mainOwner, internal, uiWaiting, keepalive, depth, exiting, exitQueued, wakeups>>

FirstLock ==
  /\ v = "first"
  /\ LockMain("vice")
  /\ v' = "run"
  /\ UNCHANGED <<ui, internal, uiWaiting, keepalive, running, depth, exiting, exitQueued, wakeups>>

\* mainlock_yield_begin: the lock is free from here on.
YieldUnlock ==
  /\ v = "run"
  /\ UnlockMain
  /\ v' = "yield"
  /\ UNCHANGED <<ui, internal, uiWaiting, keepalive, running, depth, exiting, exitQueued, wakeups>>

\* Slip: a waiting UI thread is not looked for.
YieldTestIgnoresUi ==
  /\ v = "yield" /\ internal = "none"
  /\ internal' = "vice"
  /\ v' = "leave"
  /\ UNCHANGED <<ui, mainOwner, uiWaiting, keepalive, running, depth, exiting, exitQueued, wakeups>>

YieldTest ==
  /\ v = "yield" /\ internal = "none"
  /\ internal' = "vice"
  /\ v' = IF uiWaiting THEN "signal" ELSE "leave"
  /\ UNCHANGED <<ui, mainOwner, uiWaiting, keepalive, running, depth, exiting, exitQueued, wakeups>>

YieldSignal ==
  /\ v = "signal"
  /\ SignalUiWaiting
  /\ v' = "wait"
  /\ UNCHANGED <<mainOwner, internal, uiWaiting, keepalive, running, depth, exiting, exitQueued, wakeups>>

YieldWait ==
  /\ v = "wait"
  /\ internal' = "none"
  /\ v' = "blocked"
  /\ UNCHANGED <<ui, mainOwner, uiWaiting, keepalive, running, depth, exiting, exitQueued, wakeups>>

YieldWoken ==
  /\ v = "woken" /\ internal = "none"
  /\ internal' = "vice"
  /\ v' = "leave"
  /\ UNCHANGED <<ui, mainOwner, uiWaiting, keepalive, running, depth, exiting, exitQueued, wakeups>>

YieldLeave ==
  /\ v = "leave"
  /\ internal' = "none"
  /\ v' = "resume"
  /\ UNCHANGED <<ui, mainOwner, uiWaiting, keepalive, running, depth, exiting, exitQueued, wakeups>>

\* Slip: the VICE thread goes on without the lock.
YieldEndWithoutLock ==
  /\ v = "resume"
  /\ v' = "consider"
  /\ UNCHANGED <<ui, mainOwner, internal, uiWaiting, keepalive, running, depth, exiting, exitQueued, wakeups>>

\* mainlock_yield_end, after the sleep of mainlock_yield_and_sleep.
mainlock_yield_end ==
  /\ v = "resume"
  /\ LockMain("vice")
  /\ v' = "consider"
  /\ UNCHANGED <<ui, internal, uiWaiting, keepalive, running, depth, exiting, exitQueued, wakeups>>

consider_exit ==
  /\ v = "consider" /\ internal = "none"
  /\ IF keepalive
     THEN v' = "run" /\ UNCHANGED <<internal, running>>
     ELSE v' = "wakeUi" /\ internal' = "vice" /\ running' = FALSE
  /\ UNCHANGED <<ui, mainOwner, uiWaiting, keepalive, depth, exiting, exitQueued, wakeups>>

\* Slip: the exiting thread leaves a waiting UI thread alone.
ExitForgetsUi ==
  /\ v = "wakeUi"
  /\ internal' = "none"
  /\ v' = "unlock"
  /\ UNCHANGED <<ui, mainOwner, uiWaiting, keepalive, running, depth, exiting, exitQueued, wakeups>>

ExitWakesUi ==
  /\ v = "wakeUi"
  /\ IF uiWaiting THEN SignalUiWaiting ELSE UNCHANGED ui
  /\ internal' = "none"
  /\ v' = "unlock"
  /\ UNCHANGED <<mainOwner, uiWaiting, keepalive, running, depth, exiting, exitQueued, wakeups>>

ExitUnlocks ==
  /\ v = "unlock"
  /\ UnlockMain
  /\ v' = "gone"
  /\ UNCHANGED <<ui, internal, uiWaiting, keepalive, running, depth, exiting, exitQueued, wakeups>>

\* archdep_vice_exit on the VICE thread: the exit handling is queued for the
\* UI thread, then the thread shuts itself down.
archdep_vice_exit ==
  /\ ViceExits
  /\ v = "run"
  /\ exitQueued' = TRUE
  /\ v' = "initiate"
  /\ UNCHANGED <<ui, mainOwner, internal, uiWaiting, keepalive, running, depth, exiting, wakeups>>

\* mainlock_initiate_shutdown returns at once if it was called before, and
\* archdep_vice_exit comes to its assert(false).
InitiateOnVice ==
  /\ v = "initiate" /\ internal = "none"
  /\ IF keepalive
     THEN keepalive' = FALSE /\ v' = "consider"
     ELSE v' = "returned" /\ UNCHANGED keepalive
  /\ UNCHANGED <<ui, mainOwner, internal, uiWaiting, running, depth, exiting, exitQueued, wakeups>>

------------------------------------------------------------------------------
(***************************************************************************)
(* The UI thread.  A handler runs between vice_gtk3_lock and               *)
(* vice_gtk3_unlock; it may obtain and release the lock inside.            *)
(***************************************************************************)
Obtain ==
  /\ depth' = depth + 1
  /\ ui' = IF depth > 0 THEN "in" ELSE "obtain"

vice_gtk3_lock ==
  /\ ui = "idle" \/ (ui = "in" /\ depth < MaxDepth)
  /\ Obtain
  /\ UNCHANGED <<v, mainOwner, internal, uiWaiting, keepalive, running, exiting, exitQueued, wakeups>>

ObtainTest ==
  /\ ui = "obtain" /\ internal = "none"
  /\ IF running
     THEN uiWaiting' = TRUE /\ ui' = "wait"
     ELSE ui' = "lock" /\ UNCHANGED uiWaiting
  /\ UNCHANGED <<v, mainOwner, internal, keepalive, running, depth, exiting, exitQueued, wakeups>>

\* Slip: ui_is_waiting stays set.
ObtainWokenStillWaiting ==
  /\ ui = "woken" /\ internal = "none"
  /\ ui' = "lock"
  /\ UNCHANGED <<v, mainOwner, internal, uiWaiting, keepalive, running, depth, exiting, exitQueued, wakeups>>

ObtainWoken ==
  /\ ui = "woken" /\ internal = "none"
  /\ uiWaiting' = FALSE
  /\ ui' = "lock"
  /\ UNCHANGED <<v, mainOwner, internal, keepalive, running, depth, exiting, exitQueued, wakeups>>

ObtainLock ==
  /\ ui = "lock"
  /\ LockMain("ui")
  /\ ui' = "tell"
  /\ UNCHANGED <<v, internal, uiWaiting, keepalive, running, depth, exiting, exitQueued, wakeups>>

\* Slip: ui_has_lock_cond is not signalled.
ObtainTellsNobody ==
  /\ ui = "tell"
  /\ ui' = "in"
  /\ UNCHANGED <<v, mainOwner, internal, uiWaiting, keepalive, running, depth, exiting, exitQueued, wakeups>>

ObtainTell ==
  /\ ui = "tell"
  /\ SignalUiHasLock
  /\ ui' = "in"
  /\ UNCHANGED <<mainOwner, internal, uiWaiting, keepalive, running, depth, exiting, exitQueued, wakeups>>

mainlock_release ==
  /\ ui = "in"
  /\ UnlockMain
  /\ ui' = "released"
  /\ UNCHANGED <<v, internal, uiWaiting, keepalive, running, depth, exiting, exitQueued, wakeups>>

\* After its outermost release ui_exit returns to main_exit; a handler
\* returns to the GTK main loop.
ReleaseCounts ==
  /\ ui = "released"
  /\ depth' = depth - 1
  /\ ui' = IF depth > 1 THEN "in" ELSE IF exiting THEN "shutdown" ELSE "idle"
  /\ UNCHANGED <<v, mainOwner, internal, uiWaiting, keepalive, running, exiting, exitQueued, wakeups>>

\* actually_exit, main_exit and ui_exit up to mainlock_obtain; the user quits
\* or the VICE thread asked for it.  is_exiting lets only the first one in.
actually_exit ==
  /\ ui = "idle" /\ ~ exiting
  /\ exiting' = TRUE
  /\ Obtain
  /\ UNCHANGED <<v, mainOwner, internal, uiWaiting, keepalive, running, exitQueued, wakeups>>

\* Slip: the VICE thread is joined but not told to end.
JoinWithoutInitiate ==
  /\ ui = "shutdown" /\ internal = "none"
  /\ ui' = "join"
  /\ UNCHANGED <<v, mainOwner, internal, uiWaiting, keepalive, running, depth, exiting, exitQueued, wakeups>>

\* vice_thread_shutdown: mainlock_initiate_shutdown and pthread_join.
vice_thread_shutdown ==
  /\ ui = "shutdown" /\ internal = "none"
  /\ keepalive' = FALSE
  /\ ui' = "join"
  /\ UNCHANGED <<v, mainOwner, internal, uiWaiting, running, depth, exiting, exitQueued, wakeups>>

JoinReturns ==
  /\ ui = "join" /\ v = "gone"
  /\ ui' = "done"
  /\ UNCHANGED <<v, mainOwner, internal, uiWaiting, keepalive, running, depth, exiting, exitQueued, wakeups>>

SpuriousWakeup ==
  /\ wakeups < MaxSpurious
  /\ wakeups' = wakeups + 1
  /\ \/ ui = "wait" /\ ui' = "woken" /\ UNCHANGED v
     \/ v = "blocked" /\ v' = "woken" /\ UNCHANGED ui
  /\ UNCHANGED <<mainOwner, internal, uiWaiting, keepalive, running, depth, exiting, exitQueued>>

------------------------------------------------------------------------------
ViceYields ==
  YieldUnlock \/ YieldTest \/ YieldSignal \/ YieldWait \/ YieldWoken \/ YieldLeave
    \/ mainlock_yield_end

ViceLeaves == consider_exit \/ ExitWakesUi \/ ExitUnlocks \/ InitiateOnVice

ViceSteps == mainlock_set_vice_thread \/ FirstLock \/ ViceYields \/ ViceLeaves

UiSteps ==
  ObtainTest \/ ObtainWoken \/ ObtainLock \/ ObtainTell \/ mainlock_release
    \/ ReleaseCounts \/ vice_thread_shutdown \/ JoinReturns

LockNext ==
  ViceSteps \/ UiSteps \/ archdep_vice_exit \/ vice_gtk3_lock \/ actually_exit
    \/ SpuriousWakeup

LockSpec == LockInit /\ [][LockNext]_lockVars

(***************************************************************************)
(* The VICE thread goes on to the next yield and every handler returns.    *)
(* Nothing makes handlers run or anybody quit, but GTK serves a queued     *)
(* timeout among the other events.  internal_lock is held for a few        *)
(* instructions and then left alone for the time of a frame, so a thread   *)
(* that keeps trying gets it.  A VICE thread that wants main_lock needs no *)
(* such luck; a UI thread needs it only when it did not take part in the   *)
(* handshake (it saw no running VICE thread, or woke without a signal),    *)
(* and gets it because main_lock is free while the VICE thread sleeps out  *)
(* a frame.                                                                *)
(***************************************************************************)
LockFairness ==
  /\ WF_lockVars(ViceSteps)
  /\ WF_lockVars(UiSteps)
  /\ SF_lockVars(ObtainTest \/ ObtainWoken \/ vice_thread_shutdown)
  /\ SF_lockVars(ObtainLock)
  /\ SF_lockVars(exitQueued /\ actually_exit)

LockFairSpec == LockSpec /\ LockFairness

------------------------------------------------------------------------------
(***************************************************************************)
(* Properties.                                                             *)
(***************************************************************************)
ViceInside == v \in {"run", "consider", "wakeUi", "unlock", "initiate", "returned"}
UiInside == ui \in {"tell", "in"}

\* A handler of the user interface and the emulation never work on emulator
\* data at the same time.
MutualExclusion == ~ (ViceInside /\ UiInside)

\* While the VICE thread blocks in mainlock_yield_begin the UI thread is on
\* its way to the lock and has still to signal ui_has_lock_cond: the waits of
\* the two threads cannot miss each other's signals.
HandshakeOwed == v = "blocked" => ui \in {"woken", "lock", "tell"}

\* The UI thread waits on ui_waiting_cond only as long as a VICE thread exists
\* that will signal it: exiting, the thread wakes it before it is gone.
NoOrphanedWait == ui = "wait" => running \/ v = "wakeUi"

\* A handler that waits for the lock gets it.
UiServed == ui = "wait" ~> ui = "in"

\* The VICE thread, having yielded, runs again or exits, however often handlers
\* take the lock: it needs no fair mutex.
ViceResumes == v \in {"blocked", "resume"} ~> v \in {"run", "gone"}

\* Whoever asks for it, the program ends; `returned' is the failed assertion
\* of archdep_vice_exit.
ProgramEnds == exiting \/ exitQueued ~> ui = "done" \/ v = "returned"
==============================================================================
