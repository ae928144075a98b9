------------------------- MODULE AnalyzerPipeline -------------------------
(***************************************************************************)
(* The lifecycle of the analyzer's GStreamer pipeline (analyzer/main.py,   *)
(* pipeline_lifecycle.py, the /start, /stop and settings handlers of       *)
(* server.py, the flag and pipeline_state of state.py).                    *)
(*                                                                         *)
(* Threads: the HTTP handler threads (ThreadingHTTPServer, one per         *)
(* request), the main thread (restores the settings, loads the VLM, then   *)
(* starts the pipeline if analysis was active) and the watchdog.  Each     *)
(* pipeline also has a streaming thread of its own, which calls            *)
(* on_new_sample.  A step of the model is a piece of code between two      *)
(* points where another thread can be noticed: a lock, a read or a write   *)
(* of app_state, a call into GStreamer.                                    *)
(*                                                                         *)
(* Pipeline objects are model values that are used again once nothing      *)
(* plays them, so that there is no bound on the number of (re)starts.      *)
(***************************************************************************)

CONSTANTS
  Handlers,     \* HTTP handler threads
  Main,         \* the main thread
  Watchdog,     \* the watchdog thread
  Pipelines,    \* identities of pipeline objects
  None,         \* Python's None, and a lock nobody holds
  SaveMayFail   \* whether settings.save can meet an OSError

Threads == Handlers \cup {Main, Watchdog}

ASSUME ThreadsAssumption ==
  /\ Main # Watchdog
  /\ Main \notin Handlers
  /\ Watchdog \notin Handlers
  /\ None \notin Threads
  /\ None \notin Pipelines
  /\ SaveMayFail \in BOOLEAN

VARIABLES
  active,       \* app_state.analysis_active
  saved,        \* analysis_active in the settings file; survives a restart
  refs,         \* PipelineLifecycle._refs is published (VLM loaded)
  pipe,         \* _pipeline
  playing,      \* the pipeline objects whose streaming threads run
  callback,     \* where each pipeline's on_new_sample is
  startLock,    \* holder of _start_lock
  pipeLock,     \* holder of _pipeline_lock
  pc,           \* where each thread is
  op,           \* the request a handler thread serves
  snapshot,     \* the flag persist_settings has read and not yet written
  disturbed,    \* history: the last persist_settings began while another one
                \* was about to write, or has failed to write
  old,          \* the pipeline a thread has detached (local variable old)
  pipelineState,\* app_state.pipeline_state
  buildFailed   \* history: the last launch raised instead of playing

flagVars == <<active, saved, disturbed>>
lockVars == <<startLock, pipeLock>>
gstVars  == <<pipe, playing, buildFailed>>
vars == <<flagVars, refs, gstVars, callback, lockVars, pc, op, snapshot, old,
          pipelineState>>

Ops == {"start", "stop", "settings"}

\* Inside `with _start_lock`, and inside the `with _pipeline_lock` that builds.
StartSection == {"detach", "nullOld", "checkActive", "clear", "launch", "markStart"}
BuildSection == {"clear", "launch", "markStart"}
StopSection  == {"detachStop", "nullStop", "markStop"}
Locations == {"idle", "readFlag", "saveFlag", "request", "lockStart", "failed",
              "loading", "ensure", "stall"} \cup StartSection \cup StopSection

PipelineStates == {"idle", "starting", "restarting", "streaming", "stalled"}

TypeOK ==
  /\ active \in BOOLEAN
  /\ saved \in BOOLEAN
  /\ refs \in BOOLEAN
  /\ pipe \in Pipelines \cup {None}
  /\ playing \in SUBSET Pipelines
  /\ callback \in [Pipelines -> {"idle", "pushed", "shown"}]
  /\ startLock \in Threads \cup {None}
  /\ pipeLock \in Threads \cup {None}
  /\ pc \in [Threads -> Locations]
  /\ op \in [Handlers -> Ops]
  /\ snapshot \in [Handlers -> BOOLEAN]
  /\ disturbed \in BOOLEAN
  /\ old \in [Threads -> Pipelines \cup {None}]
  /\ pipelineState \in PipelineStates
  /\ buildFailed \in BOOLEAN
-----------------------------------------------------------------------------
\* main() after settings.load(): the flag is what the settings file says, the
\* HTTP server runs, and the main thread is busy loading the VLM.
Boot(flag) ==
  /\ active = flag
  /\ saved = flag
  /\ refs = FALSE
  /\ pipe = None
  /\ playing = {}
  /\ callback = [p \in Pipelines |-> "idle"]
  /\ startLock = None
  /\ pipeLock = None
  /\ pc = [t \in Threads |-> IF t = Main THEN "loading" ELSE "idle"]
  /\ op = [h \in Handlers |-> "settings"]
  /\ snapshot = [h \in Handlers |-> FALSE]
  /\ disturbed = FALSE
  /\ old = [t \in Threads |-> None]
  /\ pipelineState = "idle"
  /\ buildFailed = FALSE

Init == \E flag \in BOOLEAN : Boot(flag)

Goto(t, to) == pc' = [pc EXCEPT ![t] = to]

\* Whoever calls start_pipeline goes back to what it did before: a handler
\* answers, the watchdog sleeps, main enters the GLib loop.
Return(t) == Goto(t, "idle")
-----------------------------------------------------------------------------
\* Mutant of Request: /stop forgets persist_settings.
Request_StopNotPersisted(h, o) ==
  /\ pc[h] = "idle"
  /\ op' = [op EXCEPT ![h] = o]
  /\ active' = IF o = "settings" THEN active ELSE o = "start"
  /\ Goto(h, IF o = "stop" THEN "detachStop" ELSE "readFlag")
  /\ UNCHANGED <<saved, disturbed, refs, gstVars, callback, lockVars, snapshot, old,
                 pipelineState>>

\* _handle_start, _handle_stop, _handle_prompt, _handle_presets: the first
\* write of app_state.  Then every one of them calls persist_settings.
Request(h, o) ==
  /\ pc[h] = "idle"
  /\ op' = [op EXCEPT ![h] = o]
  /\ active' = IF o = "settings" THEN active ELSE o = "start"
  /\ Goto(h, "readFlag")
  /\ UNCHANGED <<saved, disturbed, refs, gstVars, callback, lockVars, snapshot, old,
                 pipelineState>>

\* persist_settings reads the flag outside the lock of settings.save ...
ReadFlag(h) ==
  /\ pc[h] = "readFlag"
  /\ snapshot' = [snapshot EXCEPT ![h] = active]
  /\ disturbed' = \E g \in Handlers \ {h} : pc[g] = "saveFlag"
  /\ Goto(h, "saveFlag")
  /\ UNCHANGED <<active, saved, refs, gstVars, callback, lockVars, op, old, pipelineState>>

\* /start goes on to start_analysis, /stop to stop_analysis, the others answer.
AfterSave(o) ==
  IF o = "start" THEN "request" ELSE IF o = "stop" THEN "detachStop" ELSE "idle"

\* ... which replaces the file, or logs an OSError and leaves the old one.
SaveFlag(h) ==
  /\ pc[h] = "saveFlag"
  /\ \/ saved' = snapshot[h] /\ UNCHANGED disturbed
     \/ SaveMayFail /\ disturbed' = TRUE /\ UNCHANGED saved
  /\ Goto(h, AfterSave(op[h]))
  /\ UNCHANGED <<active, refs, gstVars, callback, lockVars, op, snapshot, old, pipelineState>>

\* request_start: before the VLM is loaded a /start only records the flag.
RequestStart(h) ==
  /\ pc[h] = "request"
  /\ Goto(h, IF refs THEN "lockStart" ELSE "idle")
  /\ UNCHANGED <<flagVars, refs, gstVars, callback, lockVars, op, snapshot, old, pipelineState>>
-----------------------------------------------------------------------------
\* main(): the VLM is loaded, set_refs publishes, worker and watchdog start.
SetRefs ==
  /\ pc[Main] = "loading"
  /\ refs' = TRUE
  /\ Goto(Main, "ensure")
  /\ UNCHANGED <<flagVars, gstVars, callback, lockVars, op, snapshot, old, pipelineState>>

\* Mutant of EnsureStarted: the restored flag is not acted upon.
EnsureStarted_NeverResumes ==
  /\ pc[Main] = "ensure"
  /\ pipelineState' = "idle"
  /\ Return(Main)
  /\ UNCHANGED <<flagVars, refs, gstVars, callback, lockVars, op, snapshot, old>>

\* ensure_startup_started
EnsureStarted ==
  /\ pc[Main] = "ensure"
  /\ \/ /\ active
        /\ Goto(Main, "lockStart")
        /\ UNCHANGED pipelineState
     \/ /\ ~active
        /\ pipelineState' = "idle"
        /\ Return(Main)
  /\ UNCHANGED <<flagVars, refs, gstVars, callback, lockVars, op, snapshot, old>>

\* watchdog_worker: a pipeline exists and its last frame is too old.  Time is
\* not modelled: any existing pipeline may be found timed out.
WatchdogTimeout ==
  /\ pc[Watchdog] = "idle"
  /\ refs
  /\ pipeLock = None
  /\ pipe # None
  /\ Goto(Watchdog, "stall")
  /\ UNCHANGED <<flagVars, refs, gstVars, callback, lockVars, op, snapshot, old, pipelineState>>

\* handle_watchdog_timeout
MarkStalled ==
  /\ pc[Watchdog] = "stall"
  /\ pipelineState' = "stalled"
  /\ Goto(Watchdog, "lockStart")
  /\ UNCHANGED <<flagVars, refs, gstVars, callback, lockVars, op, snapshot, old>>
-----------------------------------------------------------------------------
(***************************************************************************)
(* start_pipeline                                                          *)
(***************************************************************************)
LockStart(t) ==
  /\ pc[t] = "lockStart"
  /\ startLock = None
  /\ startLock' = t
  /\ Goto(t, "detach")
  /\ UNCHANGED <<flagVars, refs, gstVars, callback, pipeLock, op, snapshot, old, pipelineState>>

\* Mutants of Detach: the reference is dropped without set_state(NULL), and
\* _pipeline_lock is kept while the old pipeline is set to NULL.
Detach_Drops(t) ==
  /\ pc[t] = "detach"
  /\ pipeLock = None
  /\ old' = [old EXCEPT ![t] = pipe]
  /\ pipe' = None
  /\ Goto(t, "checkActive")
  /\ UNCHANGED <<flagVars, refs, playing, buildFailed, callback, lockVars, op, snapshot,
                 pipelineState>>

Detach_KeepsLock(t) ==
  /\ pc[t] = "detach"
  /\ pipeLock = None
  /\ pipeLock' = IF pipe = None THEN None ELSE t
  /\ old' = [old EXCEPT ![t] = pipe]
  /\ pipe' = None
  /\ Goto(t, IF pipe = None THEN "checkActive" ELSE "nullOld")
  /\ UNCHANGED <<flagVars, refs, playing, buildFailed, callback, startLock, op, snapshot,
                 pipelineState>>

Detach(t) ==
  /\ pc[t] = "detach"
  /\ pipeLock = None
  /\ old' = [old EXCEPT ![t] = pipe]
  /\ pipe' = None
  /\ Goto(t, IF pipe = None THEN "checkActive" ELSE "nullOld")
  /\ UNCHANGED <<flagVars, refs, playing, buildFailed, callback, lockVars, op, snapshot,
                 pipelineState>>

\* old.set_state(NULL) returns once the streaming thread has left the callback.
NullOld(t) ==
  /\ pc[t] = "nullOld"
  /\ callback[old[t]] = "idle"
  /\ playing' = playing \ {old[t]}
  /\ Goto(t, "checkActive")
  /\ UNCHANGED <<flagVars, refs, pipe, buildFailed, callback, lockVars, op, snapshot, old,
                 pipelineState>>

\* Mutant of CheckActive: the restart does not look at the flag.
CheckActive_NoGuard(t) ==
  /\ pc[t] = "checkActive"
  /\ pipeLock = None
  /\ pipeLock' = t
  /\ Goto(t, "clear")
  /\ UNCHANGED <<flagVars, refs, gstVars, callback, startLock, op, snapshot, old, pipelineState>>

\* Under _pipeline_lock: stop wins, or the lock is kept for the build.
CheckActive(t) ==
  /\ pc[t] = "checkActive"
  /\ pipeLock = None
  /\ \/ /\ active
        /\ pipeLock' = t
        /\ Goto(t, "clear")
        /\ UNCHANGED <<startLock, old>>
     \/ /\ ~active
        /\ startLock' = None
        /\ old' = [old EXCEPT ![t] = None]
        /\ Return(t)
        /\ UNCHANGED pipeLock
  /\ UNCHANGED <<flagVars, refs, gstVars, callback, op, snapshot, pipelineState>>

\* ring.clear() and the drain of infer_q; AnalyzerInference has the queues.
Clear(t) ==
  /\ pc[t] = "clear"
  /\ Goto(t, "launch")
  /\ UNCHANGED <<flagVars, refs, gstVars, callback, lockVars, op, snapshot, old, pipelineState>>

\* Gst.parse_launch, connect, set_state(PLAYING)
Launch(t, p) ==
  /\ pc[t] = "launch"
  /\ p \notin playing
  /\ pipe' = p
  /\ playing' = playing \cup {p}
  /\ buildFailed' = FALSE
  /\ Goto(t, "markStart")
  /\ UNCHANGED <<flagVars, refs, callback, lockVars, op, snapshot, old, pipelineState>>

\* Gst.parse_launch raises: both locks are released by the exception.
LaunchFails(t) ==
  /\ pc[t] = "launch"
  /\ buildFailed' = TRUE
  /\ startLock' = None
  /\ pipeLock' = None
  /\ old' = [old EXCEPT ![t] = None]
  /\ Goto(t, "failed")
  /\ UNCHANGED <<flagVars, refs, pipe, playing, callback, op, snapshot, pipelineState>>

MarkStarting(t) ==
  /\ pc[t] = "markStart"
  /\ pipelineState' = IF old[t] # None THEN "restarting" ELSE "starting"
  /\ startLock' = None
  /\ pipeLock' = None
  /\ old' = [old EXCEPT ![t] = None]
  /\ Return(t)
  /\ UNCHANGED <<flagVars, refs, gstVars, callback, op, snapshot>>

\* The exception handlers of the three callers: idle / start_failed.
MarkFailed(t) ==
  /\ pc[t] = "failed"
  /\ pipelineState' = "idle"
  /\ Return(t)
  /\ UNCHANGED <<flagVars, refs, gstVars, callback, lockVars, op, snapshot, old>>
-----------------------------------------------------------------------------
(***************************************************************************)
(* stop_analysis                                                           *)
(***************************************************************************)
\* Mutant of DetachStop: a stale stop tears down a newer start's pipeline.
DetachStop_NoGuard(h) ==
  /\ pc[h] = "detachStop"
  /\ pipeLock = None
  /\ old' = [old EXCEPT ![h] = pipe]
  /\ pipe' = None
  /\ Goto(h, IF pipe = None THEN "markStop" ELSE "nullStop")
  /\ UNCHANGED <<flagVars, refs, playing, buildFailed, callback, lockVars, op, snapshot,
                 pipelineState>>

DetachStop(h) ==
  /\ pc[h] = "detachStop"
  /\ pipeLock = None
  /\ \/ /\ active                       \* a newer start owns the pipeline
        /\ Return(h)
        /\ UNCHANGED <<pipe, old>>
     \/ /\ ~active
        /\ old' = [old EXCEPT ![h] = pipe]
        /\ pipe' = None
        /\ Goto(h, IF pipe = None THEN "markStop" ELSE "nullStop")
  /\ UNCHANGED <<flagVars, refs, playing, buildFailed, callback, lockVars, op, snapshot,
                 pipelineState>>

NullStop(h) ==
  /\ pc[h] = "nullStop"
  /\ callback[old[h]] = "idle"
  /\ playing' = playing \ {old[h]}
  /\ Goto(h, "markStop")
  /\ UNCHANGED <<flagVars, refs, pipe, buildFailed, callback, lockVars, op, snapshot, old,
                 pipelineState>>

\* mark_waiting_for_start
MarkStopped(h) ==
  /\ pc[h] = "markStop"
  /\ pipelineState' = "idle"
  /\ old' = [old EXCEPT ![h] = None]
  /\ Return(h)
  /\ UNCHANGED <<flagVars, refs, gstVars, callback, lockVars, op, snapshot>>
-----------------------------------------------------------------------------
(***************************************************************************)
(* on_new_sample, on the streaming thread of a playing pipeline            *)
(***************************************************************************)
PushFrame(p) ==
  /\ p \in playing
  /\ callback[p] = "idle"
  /\ callback' = [callback EXCEPT ![p] = "pushed"]
  /\ UNCHANGED <<flagVars, refs, gstVars, lockVars, pc, op, snapshot, old, pipelineState>>

\* Mutant of UpdateFrame: every frame shows the pipeline as streaming.
UpdateFrame_NoGuard(p) ==
  /\ callback[p] = "pushed"
  /\ callback' = [callback EXCEPT ![p] = "shown"]
  /\ pipelineState' = "streaming"
  /\ UNCHANGED <<flagVars, refs, gstVars, lockVars, pc, op, snapshot, old>>

\* app_state.update_frame: ignored while analysis is not active.
UpdateFrame(p) ==
  /\ callback[p] = "pushed"
  /\ callback' = [callback EXCEPT ![p] = "shown"]
  /\ pipelineState' = IF active THEN "streaming" ELSE pipelineState
  /\ UNCHANGED <<flagVars, refs, gstVars, lockVars, pc, op, snapshot, old>>

SignalFrame(p) ==
  /\ callback[p] = "shown"
  /\ callback' = [callback EXCEPT ![p] = "idle"]
  /\ UNCHANGED <<flagVars, refs, gstVars, lockVars, pc, op, snapshot, old, pipelineState>>

-----------------------------------------------------------------------------
\* The process dies (a crash, a SIGKILL, an exit for the container's restart
\* policy) and comes up again with what the settings file says.
Restart ==
  /\ saved' = saved
  /\ active' = saved
  /\ refs' = FALSE
  /\ pipe' = None
  /\ playing' = {}
  /\ callback' = [p \in Pipelines |-> "idle"]
  /\ startLock' = None
  /\ pipeLock' = None
  /\ pc' = [t \in Threads |-> IF t = Main THEN "loading" ELSE "idle"]
  /\ op' = [h \in Handlers |-> "settings"]
  /\ snapshot' = [h \in Handlers |-> FALSE]
  /\ disturbed' = FALSE
  /\ old' = [t \in Threads |-> None]
  /\ pipelineState' = "idle"
  /\ buildFailed' = FALSE

\* The steps a thread takes on its own once it has begun something, except
\* the ones that call into GStreamer and may take arbitrarily long.
Handling(h) ==
  \/ ReadFlag(h) \/ SaveFlag(h) \/ RequestStart(h)
  \/ DetachStop(h) \/ MarkStopped(h)

Starting(t) ==
  \/ LockStart(t) \/ Detach(t) \/ CheckActive(t) \/ Clear(t)
  \/ (\E p \in Pipelines : Launch(t, p)) \/ LaunchFails(t)
  \/ MarkStarting(t) \/ MarkFailed(t)

Streaming(p) == PushFrame(p) \/ UpdateFrame(p) \/ SignalFrame(p)

Step ==
  \/ \E h \in Handlers, o \in Ops : Request(h, o)
  \/ \E h \in Handlers : Handling(h) \/ NullStop(h)
  \/ SetRefs \/ EnsureStarted \/ WatchdogTimeout \/ MarkStalled
  \/ \E t \in Threads : Starting(t) \/ NullOld(t)
  \/ \E p \in Pipelines : Streaming(p)

Next == Step \/ Restart

Spec == Init /\ [][Next]_vars

(***************************************************************************)
(* Fairness, for behaviours in which the process stays up.  A thread that  *)
(* can take its next step again and again takes it: SF rather than WF      *)
(* because the next step may be the acquisition of a lock that others hold *)
(* in between.  The user's requests, the watchdog's timeout and the frames *)
(* of a camera are not fair: they may never come.                          *)
(***************************************************************************)
ThreadFairness ==
  /\ \A h \in Handlers : SF_vars(Handling(h))
  /\ \A t \in Threads : SF_vars(Starting(t))
  /\ WF_vars(SetRefs)
  /\ WF_vars(EnsureStarted)
  /\ WF_vars(MarkStalled)

\* set_state(NULL) returns: the streaming thread finishes its callback, and
\* GStreamer hands it no further buffer.
NullFairness ==
  /\ \A p \in Pipelines : WF_vars(UpdateFrame(p)) /\ WF_vars(SignalFrame(p))
  /\ \A h \in Handlers : SF_vars(NullStop(h))
  /\ \A t \in Threads : SF_vars(NullOld(t))

\* On a broken pipeline set_state(NULL) may hang for ever: NullFairness is a
\* premise of the properties that need it and no part of the specification.
FairSpec == Init /\ [][Step]_vars /\ ThreadFairness
-----------------------------------------------------------------------------
(***************************************************************************)
(* Properties                                                              *)
(***************************************************************************)

\* No request is being served, no (re)start runs, and main is past startup.
Quiet == \A t \in Threads : pc[t] = "idle"

Nulling(t) == pc[t] \in {"nullOld", "nullStop"}

\* A handler that has dropped the flag and has not yet detached the pipeline.
StopPending(h) == op[h] = "stop" /\ pc[h] \in {"readFlag", "saveFlag", "detachStop"}

\* A thread that will still reach the active check of start_pipeline or is
\* past it and about to build.
StartPending(t) ==
  \/ pc[t] \in {"loading", "ensure", "request", "stall", "lockStart"}
  \/ pc[t] \in StartSection \ {"markStart"}
  \/ t \in Handlers /\ op[t] = "start" /\ pc[t] \in {"readFlag", "saveFlag"}

\* A pipeline object that plays is the current one, or some thread holds it
\* and is about to set it to NULL; the current one plays.  A pipeline that
\* start_pipeline and stop_analysis both lost track of would hold the NVDEC
\* session and feed the ring for the rest of the process.
NoLeakedPipeline ==
  playing = ({pipe} \ {None}) \cup {old[t] : t \in {u \in Threads : Nulling(u)}}

\* "Latest flag wins", downwards: whatever starts, stops, watchdog restarts
\* and failed builds were interleaved, once all of them have returned and the
\* flag is down, no pipeline exists or plays.
StopWins == Quiet /\ ~active => pipe = None /\ playing = {}

\* "Latest flag wins", upwards: once all calls have returned and the flag is
\* up, exactly the current pipeline plays, unless the last build failed.  In
\* particular no stale stop has torn down a newer start's pipeline, and a
\* /start that came while the VLM was loading has been honoured.
StartWins == Quiet /\ active /\ ~buildFailed => pipe # None /\ playing = {pipe}

\* A frame straggling in, or a restart that lost the race, never leaves a
\* stopped analyzer displayed as starting, restarting or streaming.
StoppedNotShownRunning == Quiet /\ ~active => pipelineState \in {"idle", "stalled"}

\* The settings file says what the flag says, once all calls have returned:
\* after a restart the analyzer resumes iff analysis was running (FR-014).
\* Two overlapping requests violate it: persist_settings reads the flag
\* outside the lock of settings.save, and the older value may be written last.
PersistedFlagAgrees == Quiet => saved = active

\* What persist_settings does guarantee, whatever overlapped or failed before:
\* a call that begins while no other one is about to write, and that does
\* write, leaves the file in agreement with the flag until the next such
\* overlap or failure, across restarts of the process too.
UndisturbedSaveAgrees == Quiet /\ ~disturbed => saved = active

\* If the flag stays down and set_state(NULL) returns, the pipeline is torn
\* down for good.
EventuallyStopped ==
  NullFairness /\ <>[]~active => <>[](pipe = None /\ playing = {})

\* If the flag stays up and set_state(NULL) returns, a pipeline keeps being
\* there, or the build failed and is reported: no lock, detach or skipped
\* start loses the request.
EventuallyRunning ==
  NullFairness /\ <>[]active => []<>(pipe # None \/ buildFailed)

\* /stop gets past _pipeline_lock even when some set_state(NULL) hangs: the
\* lock is never held across it (the 2026-08-27 starvation of /stop).
StopNotStarved ==
  \A h \in Handlers : pc[h] = "detachStop" ~> pc[h] # "detachStop"
=============================================================================
