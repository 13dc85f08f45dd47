------------------------------- MODULE Render -------------------------------
(***************************************************************************)
(* The way of a frame to the screen in the GTK3 user interface with the    *)
(* OpenGL renderer (render_queue.c, render_thread.c, opengl_renderer.c).   *)
(* The VICE thread takes a backbuffer from a pool, draws into it without   *)
(* any lock and enqueues it with a render job.  The render thread, a       *)
(* GThreadPool of one thread, dequeues a backbuffer for every render job,  *)
(* uploads it to a texture and gives it back to the pool.  The UI thread   *)
(* pushes more render jobs while the emulation is paused, stops rendering  *)
(* for the time of a resize (on macOS) and shuts the render thread down.   *)
(*                                                                         *)
(* canvas->lock is held over more than one step only by the render thread, *)
(* which waits for render_lock with it; all other sections that it guards  *)
(* are one action each.                                                    *)
(***************************************************************************)
EXTENDS Integers, Sequences, SequencesExt, FiniteSets

CONSTANTS Backbuffers, \* RENDER_QUEUE_MAX_BACKBUFFERS of them
          None,        \* NULL
          MaxFrames,   \* bound: emulated frames
          MaxRedraws,  \* bound: render jobs of the UI's frame clock
          MaxUpdates   \* bound: resizes

ASSUME RenderConstants ==
  /\ IsFiniteSet(Backbuffers) /\ Backbuffers # {} /\ None \notin Backbuffers
  /\ MaxFrames \in Nat /\ MaxRedraws \in Nat /\ MaxUpdates \in Nat

N == Cardinality(Backbuffers)

VARIABLES
  backbuffer_stack, render_queue, render_queue_next, render_queue_length,
  image,         \* what a backbuffer or texture holds: frame, field, drawn to the end?
  vice, draws,   \* the VICE thread, and the backbuffer it draws into
  jobs,          \* the jobs of the GThreadPool
  renderer, uploads, \* the render thread, and the backbuffer it uploads
  render_thread, \* the context has a render thread
  is_shutdown_initiated, is_shut_down, render_skip,
  ui,            \* the UI thread
  current_frame_texture, previous_frame_texture, current_interlace_field,
  frames, redraws, updates, \* history: counters, each with its bound
  skipped        \* history: the frames that render_skip dropped

queueVars == <<backbuffer_stack, render_queue, render_queue_next, render_queue_length>>
textures == <<current_frame_texture, previous_frame_texture, current_interlace_field>>
threadVars == <<render_thread, is_shutdown_initiated, is_shut_down>>
counters == <<frames, redraws, updates>>
vars == <<queueVars, image, vice, draws, jobs, renderer, uploads, threadVars,
          render_skip, ui, textures, counters, skipped>>

Image == [frame : 0..MaxFrames, field : {0, 1}, whole : BOOLEAN]
Blank == [frame |-> 0, field |-> 0, whole |-> TRUE]

TypeOK ==
  /\ backbuffer_stack \in Seq(Backbuffers) /\ Len(backbuffer_stack) <= N
  /\ render_queue \in [0..N-1 -> Backbuffers \union {None}]
  /\ render_queue_next \in 0..N-1 /\ render_queue_length \in 0..N
  /\ image \in [Backbuffers -> Image]
  /\ vice \in {"idle", "drawing", "drawn", "ended"} /\ draws \in Backbuffers \union {None}
  /\ jobs \in Seq({"init", "render", "shutdown"})
  /\ renderer \in {"idle", "job", "uploading", "presenting"}
  /\ uploads \in Backbuffers \union {None}
  /\ render_thread \in BOOLEAN /\ is_shutdown_initiated \in BOOLEAN
  /\ is_shut_down \in BOOLEAN /\ render_skip \in BOOLEAN
  /\ ui \in {"starting", "running", "update", "updating", "updated",
             "join", "joining", "joined", "ended"}
  /\ current_frame_texture \in Image /\ previous_frame_texture \in Image
  /\ current_interlace_field \in {0, 1}
  /\ frames \in 0..MaxFrames /\ redraws \in 0..MaxRedraws /\ updates \in 0..MaxUpdates
  /\ skipped \subseteq 1..MaxFrames

Init ==
  /\ backbuffer_stack = SetToSeq(Backbuffers)
  /\ render_queue = [i \in 0..N-1 |-> None]
  /\ render_queue_next = 0 /\ render_queue_length = 0
  /\ image = [b \in Backbuffers |-> Blank]
  /\ vice = "idle" /\ draws = None
  /\ jobs = << >> /\ renderer = "idle" /\ uploads = None
  /\ render_thread = FALSE /\ is_shutdown_initiated = FALSE /\ is_shut_down = FALSE
  /\ render_skip = FALSE /\ ui = "starting"
  /\ current_frame_texture = Blank /\ previous_frame_texture = Blank
  /\ current_interlace_field = 0
  /\ frames = 0 /\ redraws = 0 /\ updates = 0 /\ skipped = {}

\* Slip: the first resize never releases render_lock.
RenderLockKept == renderer # "presenting" /\ (updates = 0 \/ ui = "update")

\* canvas->lock and render_lock are free.
CanvasFree == renderer # "uploading"
RenderFree == renderer # "presenting" /\ ui # "updating"

------------------------------------------------------------------------------
(***************************************************************************)
(* The render queue.                                                       *)
(***************************************************************************)

\* Slip: the newest frame is put before the ones that wait.
EnqueueAtFront(b) ==
  /\ render_queue_next' = (render_queue_next + N - 1) % N
  /\ render_queue' = [render_queue EXCEPT ![render_queue_next'] = b]
  /\ render_queue_length' = render_queue_length + 1
  /\ UNCHANGED backbuffer_stack

render_queue_enqueue_for_display(b) ==
  /\ render_queue' =
       [render_queue EXCEPT ![(render_queue_next + render_queue_length) % N] = b]
  /\ render_queue_length' = render_queue_length + 1
  /\ UNCHANGED <<backbuffer_stack, render_queue_next>>

\* The head of the queue, or NULL.
Head4Display ==
  IF render_queue_length = 0 THEN None ELSE render_queue[render_queue_next]

render_queue_dequeue_for_display ==
  IF render_queue_length = 0 THEN UNCHANGED <<render_queue_next, render_queue_length>>
  ELSE /\ render_queue_next' = (render_queue_next + 1) % N
       /\ render_queue_length' = render_queue_length - 1

\* The pool with b back in it, if b is not NULL.
render_queue_return_to_pool(b) ==
  IF b = None THEN backbuffer_stack ELSE Append(backbuffer_stack, b)

\* The backbuffers that wait for display, in order.
Queued == [i \in 1..render_queue_length |-> render_queue[(render_queue_next + i - 1) % N]]

------------------------------------------------------------------------------
(***************************************************************************)
(* Jobs of the render thread.                                              *)
(***************************************************************************)

render_thread_push_job(job) ==
  jobs' = IF is_shutdown_initiated THEN jobs ELSE Append(jobs, job)

\* on_widget_realized: the window is there and gets its render thread.
render_thread_create ==
  /\ ui = "starting" /\ CanvasFree
  /\ render_thread' = TRUE /\ ui' = "running"
  /\ jobs' = <<"init">>
  /\ UNCHANGED <<queueVars, image, vice, draws, renderer, uploads, textures, counters,
                 is_shutdown_initiated, is_shut_down, render_skip, skipped>>

------------------------------------------------------------------------------
(***************************************************************************)
(* The VICE thread: vice_opengl_refresh_rect.                              *)
(***************************************************************************)

\* A frame is over and a backbuffer is free to draw it.  The chip chooses
\* the field that the frame belongs to.
render_queue_get_from_pool ==
  /\ vice = "idle" /\ frames < MaxFrames /\ CanvasFree
  /\ backbuffer_stack # << >>
  /\ draws' = Last(backbuffer_stack) /\ backbuffer_stack' = Front(backbuffer_stack)
  /\ frames' = frames + 1
  /\ \E f \in {0, 1} :
       image' = [image EXCEPT ![draws'] = [frame |-> frames', field |-> f, whole |-> FALSE]]
  /\ vice' = "drawing"
  /\ UNCHANGED <<render_queue, render_queue_next, render_queue_length, jobs, renderer,
                 uploads, threadVars, render_skip, ui, textures, redraws, updates, skipped>>

\* There is none: the frame is not drawn.
SkipFrame ==
  /\ vice = "idle" /\ frames < MaxFrames /\ CanvasFree
  /\ backbuffer_stack = << >>
  /\ frames' = frames + 1
  /\ UNCHANGED <<queueVars, image, vice, draws, jobs, renderer, uploads, threadVars,
                 render_skip, ui, textures, redraws, updates, skipped>>

\* video_canvas_render draws, holding no lock.
video_canvas_render ==
  /\ vice = "drawing" /\ vice' = "drawn"
  /\ image' = [image EXCEPT ![draws].whole = TRUE]
  /\ UNCHANGED <<queueVars, draws, jobs, renderer, uploads, threadVars, render_skip, ui,
                 textures, counters, skipped>>

\* The frame is enqueued, with a job to display it.
Enqueue ==
  /\ vice = "drawn" /\ CanvasFree /\ render_thread
  /\ render_queue_enqueue_for_display(draws)
  /\ render_thread_push_job("render")
  /\ vice' = "idle" /\ draws' = None
  /\ UNCHANGED <<image, renderer, uploads, threadVars, render_skip, ui, textures,
                 counters, skipped>>

\* No render thread yet: the frame is dropped.
EnqueueNowhere ==
  /\ vice = "drawn" /\ CanvasFree /\ ~ render_thread
  /\ backbuffer_stack' = render_queue_return_to_pool(draws)
  /\ vice' = "idle" /\ draws' = None
  /\ UNCHANGED <<render_queue, render_queue_next, render_queue_length, image, jobs,
                 renderer, uploads, threadVars, render_skip, ui, textures, counters, skipped>>

\* The thread ends between two frames, at the yield of the main lock.
ViceEnds ==
  /\ vice = "idle" /\ vice' = "ended"
  /\ UNCHANGED <<queueVars, image, draws, jobs, renderer, uploads, threadVars,
                 render_skip, ui, textures, counters, skipped>>

------------------------------------------------------------------------------
(***************************************************************************)
(* The render thread: render.                                              *)
(***************************************************************************)

\* The pool's thread takes a job; the init and shutdown jobs only set up and
\* clean up the thread.
TakeJob ==
  /\ renderer = "idle" /\ jobs # << >>
  /\ renderer' = IF Head(jobs) = "render" THEN "job" ELSE "idle"
  /\ jobs' = Tail(jobs)
  /\ UNCHANGED <<queueVars, image, vice, draws, uploads, threadVars, render_skip, ui,
                 textures, counters, skipped>>

\* Slip: a frame that is dropped does not go back to the pool.
RenderSkipsAndKeeps ==
  /\ renderer = "job" /\ render_skip
  /\ render_queue_dequeue_for_display
  /\ skipped' = skipped \union
                  (IF Head4Display = None THEN {} ELSE {image[Head4Display].frame})
  /\ renderer' = "idle"
  /\ UNCHANGED <<backbuffer_stack, render_queue, image, vice, draws, jobs, uploads,
                 threadVars, render_skip, ui, textures, counters>>

\* The job drops its frame while a resize goes on.
RenderSkips ==
  /\ renderer = "job" /\ render_skip
  /\ render_queue_dequeue_for_display
  /\ backbuffer_stack' = render_queue_return_to_pool(Head4Display)
  /\ skipped' = skipped \union
                  (IF Head4Display = None THEN {} ELSE {image[Head4Display].frame})
  /\ renderer' = "idle"
  /\ UNCHANGED <<render_queue, image, vice, draws, jobs, uploads, threadVars, render_skip,
                 ui, textures, counters>>

\* The job has canvas->lock and goes for render_lock.
RenderDequeues ==
  /\ renderer = "job" /\ ~ render_skip
  /\ render_queue_dequeue_for_display
  /\ uploads' = Head4Display /\ renderer' = "uploading"
  /\ UNCHANGED <<backbuffer_stack, render_queue, image, vice, draws, jobs, threadVars,
                 render_skip, ui, textures, counters, skipped>>

\* Slip: every frame moves the current texture to the previous one.
SwapTextures(i) ==
  /\ current_frame_texture' = i
  /\ current_interlace_field' = i.field
  /\ previous_frame_texture' = current_frame_texture

\* The frame becomes the current texture; a frame of the other field leaves
\* the last one in the previous texture.
update_frame_textures(i) ==
  /\ current_frame_texture' = i
  /\ current_interlace_field' = i.field
  /\ previous_frame_texture' = IF i.field = current_interlace_field
                               THEN previous_frame_texture ELSE current_frame_texture

RenderUploads ==
  /\ renderer = "uploading" /\ RenderFree
  /\ IF uploads = None THEN UNCHANGED textures ELSE update_frame_textures(image[uploads])
  /\ backbuffer_stack' = render_queue_return_to_pool(uploads)
  /\ uploads' = None /\ renderer' = "presenting"
  /\ UNCHANGED <<render_queue, render_queue_next, render_queue_length, image, vice, draws,
                 jobs, threadVars, render_skip, ui, counters, skipped>>

\* The textures are drawn; render_lock is released.
RenderPresents ==
  /\ renderer = "presenting" /\ renderer' = "idle"
  /\ UNCHANGED <<queueVars, image, vice, draws, jobs, uploads, threadVars, render_skip, ui,
                 textures, counters, skipped>>

------------------------------------------------------------------------------
(***************************************************************************)
(* The UI thread.                                                          *)
(***************************************************************************)

\* The frame clock ticks while the emulation is paused, jammed or in the
\* monitor: the textures are to be drawn again.
vice_opengl_on_ui_frame_clock ==
  /\ ui = "running" /\ CanvasFree /\ redraws < MaxRedraws
  /\ redraws' = redraws + 1
  /\ render_thread_push_job("render")
  /\ UNCHANGED <<queueVars, image, vice, draws, renderer, uploads, threadVars, render_skip,
                 ui, textures, frames, updates, skipped>>

\* The update method of the native view (macOS) disables rendering ...
UpdateDisables ==
  /\ ui = "running" /\ CanvasFree /\ updates < MaxUpdates
  /\ render_skip' = TRUE /\ updates' = updates + 1 /\ ui' = "update"
  /\ UNCHANGED <<queueVars, image, vice, draws, jobs, renderer, uploads, threadVars,
                 textures, frames, redraws, skipped>>

\* ... and resizes the native view under render_lock ...
UpdateLocks ==
  /\ ui = "update" /\ RenderFree
  /\ ui' = "updating"
  /\ UNCHANGED <<queueVars, image, vice, draws, jobs, renderer, uploads, threadVars,
                 render_skip, textures, counters, skipped>>

UpdateUnlocks ==
  /\ ui = "updating" /\ ui' = "updated"
  /\ UNCHANGED <<queueVars, image, vice, draws, jobs, renderer, uploads, threadVars,
                 render_skip, textures, counters, skipped>>

\* ... and enables rendering again.
UpdateEnables ==
  /\ ui = "updated" /\ CanvasFree
  /\ render_skip' = FALSE /\ ui' = "running"
  /\ UNCHANGED <<queueVars, image, vice, draws, jobs, renderer, uploads, threadVars,
                 textures, counters, skipped>>

\* main_exit: the render thread, if there is one, gets its last job.
render_thread_initiate_shutdown ==
  /\ ui \in {"starting", "running"}
  /\ IF render_thread
     THEN is_shutdown_initiated' = TRUE /\ jobs' = Append(jobs, "shutdown") /\ ui' = "join"
     ELSE UNCHANGED <<is_shutdown_initiated, jobs>> /\ ui' = "joined"
  /\ UNCHANGED <<queueVars, image, vice, draws, renderer, uploads, render_thread,
                 is_shut_down, render_skip, textures, counters, skipped>>

\* g_thread_pool_free: the jobs that were not begun are dropped ...
render_thread_join ==
  /\ ui = "join" /\ ui' = "joining" /\ jobs' = << >>
  /\ UNCHANGED <<queueVars, image, vice, draws, renderer, uploads, threadVars, render_skip,
                 textures, counters, skipped>>

\* Slip: the join waits until every frame of the queue was displayed.
JoinedWhenQueueEmpty ==
  /\ ui = "joining" /\ renderer = "idle" /\ render_queue_length = 0
  /\ ui' = "joined" /\ is_shut_down' = TRUE
  /\ UNCHANGED <<queueVars, image, vice, draws, jobs, renderer, uploads, render_thread,
                 is_shutdown_initiated, render_skip, textures, counters, skipped>>

\* ... and the one that runs is waited for.
Joined ==
  /\ ui = "joining" /\ renderer = "idle"
  /\ ui' = "joined" /\ is_shut_down' = TRUE
  /\ UNCHANGED <<queueVars, image, vice, draws, jobs, renderer, uploads, render_thread,
                 is_shutdown_initiated, render_skip, textures, counters, skipped>>

\* The VICE thread is joined as well; render_queue_destroy frees the pool and
\* what is still queued.
vice_opengl_destroy_context ==
  /\ ui = "joined" /\ vice = "ended"
  /\ backbuffer_stack' = << >> /\ render_queue_length' = 0
  /\ render_queue_next' = (render_queue_next + render_queue_length) % N
  /\ ui' = "ended"
  /\ UNCHANGED <<render_queue, image, vice, draws, jobs, renderer, uploads, threadVars,
                 render_skip, textures, counters, skipped>>

------------------------------------------------------------------------------

Refresh == video_canvas_render \/ Enqueue \/ EnqueueNowhere
OpenGLWork == RenderUploads \/ RenderPresents
RenderJob == TakeJob \/ RenderSkips \/ RenderDequeues \/ OpenGLWork
Update == UpdateLocks \/ UpdateUnlocks \/ UpdateEnables
Exit == render_thread_join \/ Joined \/ vice_opengl_destroy_context

Next ==
  \/ render_queue_get_from_pool \/ SkipFrame \/ Refresh \/ ViceEnds
  \/ RenderJob
  \/ render_thread_create \/ vice_opengl_on_ui_frame_clock
  \/ UpdateDisables \/ Update
  \/ render_thread_initiate_shutdown \/ Exit

Spec == Init /\ [][Next]_vars

\* All three threads get to run, and vice_thread_shutdown ends the VICE thread.
\* While the UI thread is blocked in the join nothing is assumed of OpenGL:
\* its calls may never end.
FairSpec ==
  /\ Spec
  /\ WF_vars(Refresh) /\ WF_vars(Update) /\ WF_vars(Exit)
  /\ WF_vars(TakeJob \/ RenderSkips \/ RenderDequeues)
  /\ WF_vars(ui # "joining" /\ OpenGLWork)
  /\ WF_vars(ui = "joined" /\ ViceEnds)

------------------------------------------------------------------------------
(***************************************************************************)
(* Properties.                                                             *)
(***************************************************************************)

Own(b) == IF b = None THEN << >> ELSE <<b>>

\* Until the queue is destroyed every backbuffer is in exactly one place: in
\* the pool, in the queue, or with the thread that draws or uploads it.  So
\* none is lost, none is drawn and shown at a time, and the assertions of
\* render_queue.c on the lengths hold.
BackbuffersConserved ==
  ui # "ended" =>
    LET all == backbuffer_stack \o Queued \o Own(draws) \o Own(uploads)
    IN  Len(all) = N /\ ToSet(all) = Backbuffers

\* What is on the screen is drawn to the end, and in interlaced mode the two
\* textures hold different fields.
TexturesRight ==
  /\ current_frame_texture.whole /\ previous_frame_texture.whole
  /\ previous_frame_texture.frame > 0 =>
       previous_frame_texture.field # current_frame_texture.field

\* The screen never goes back to an earlier frame, of either field.
ShownInOrder ==
  [][/\ current_frame_texture'.frame >= current_frame_texture.frame
     /\ previous_frame_texture'.frame >= previous_frame_texture.frame]_textures

InQueue(n) == \E i \in DOMAIN Queued : image[Queued[i]].frame = n

\* A frame in the queue gets on the screen, unless a resize drops it or the
\* program ends.
FramesShown ==
  \A n \in 1..MaxFrames :
    InQueue(n) ~> current_frame_texture.frame >= n \/ n \in skipped \/ is_shutdown_initiated

\* The job that the join waits for is in OpenGL, and stays there.
OpenGLHangs == <>[](ui = "joining" /\ renderer \in {"uploading", "presenting"})

\* The UI thread, the render thread and the VICE thread never wait for each
\* other for ever: a resize and main_exit, once begun, get to their end.  The
\* one exception is the one that the comments of archdep_exit.c and
\* render_thread_join speak of: the UI thread is blocked in g_thread_pool_free,
\* and an OpenGL call of the render thread does not end while it is.
UiGetsOn ==
  OpenGLHangs \/ (ui \notin {"starting", "running"} ~> ui \in {"running", "ended"})

\* main_exit ends, whatever the render thread does: not so (see OpenGLHangs).
ExitEnds == is_shutdown_initiated ~> ui = "ended"
==============================================================================
