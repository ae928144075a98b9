# Babycat: TLA+ specifications

Babycat watches a camera on an edge device: a *streamer* redistributes the
camera's stream, an *analyzer* extracts frames and has a vision-language model
(VLM) judge them, a *recorder* keeps a short segment buffer and turns events
into clips, and a *router* authenticates the clients and fans their requests out.
This directory holds TLA+ models of that code, the TLC configurations that check
them on small instances, and TLAPS proofs of their main properties. Every
definition is a translation of the code named for it in `PROJECT.json` ("map").

## 1. Inventory

| Part | State | Operations | Talks to |
|---|---|---|---|
| analyzer: pipeline lifecycle (`analyzer/main.py`, `pipeline_lifecycle.py`, `server.py`, `state.py`, `settings.py`) | active flag, persisted flag, `_pipeline`, `_start_lock`, `_pipeline_lock`, `pipeline_state` | `/start`, `/stop`, `/prompt`, `/presets`, startup restore, watchdog restart | GStreamer, settings file, router |
| analyzer: ring, queue, inference worker (`main.py`, `state.py`) | `RingBuffer`, `infer_queue` (1), failure count, displayed judgment | `on_new_sample`, `inference_worker` | pipeline, VLM child, recorder |
| analyzer: VLM child, model switch (`vlm_worker.py`, `holder.py`, `main.py`) | child process, connection, `holder.name`, pending request, `vlm_state` | `infer`, `switch`, rollback, respawn | inference worker, `/vlm/switch` |
| analyzer: presets and labels (`settings.py`) | presets, labels | validation, `resolve_preset` | inference worker |
| analyzer: SSE (`state.py`, `server.py`) | one wake-up queue (1) per client | subscribe, push, snapshot | router monitor |
| analyzer: notifications (`notify.py`) | none (a thread per post) | `notify_event`, `notify_inference` | recorder |
| recorder: segment buffer (`segments.py`, `main.py`, `state_store.py`, `status.py`) | worker generations and their stop events, buffer flag, persisted flag, status | `/buffer/start`, `/buffer/stop`, restore, worker loop | GStreamer, router |
| recorder: events, clips, history (`finalize.py`, `clip_storage.py`, `events_db.py`, `rollover.py`) | cooldown anchor, clip files and sidecars, counter, history rows | `/notify`, assembly, pruning, deletions | segment buffer, analyzer, router |
| recorder: hardware, diagnostics | sensor readings | `/status` | router monitor |
| router: sessions (`auth.py`, `database.py`) | password hash, single session, refresh token, failure counter | login, refresh, logout, password change | clients |
| router: live view, fan-out, proxy (`main.py`, `proxy.py`) | registered WHEP sessions | admission and sweep, `/analysis/*`, `/streaming/*` | streamer, analyzer, recorder |
| router: monitoring merge (`monitor.py`) | last known state of each service | SSE relay, polling | all |
| streamer: profiles, redistribution (`camera.py`, `main.py`) | stored and applied profile, streaming flag | start, stop, startup apply, supervision | MediaMTX |
| streamer: PTZ (`ptz.py`) | position, presets, patrol thread | move, poll, patrol | camera |
| clients, tools | user interface | | router |

What is hard in this code: the analyzer is a process of many threads (one per
HTTP request, main, watchdog, inference worker, a GStreamer streaming thread per
pipeline) that share one flag and one pipeline reference; GStreamer calls block for
unknown times; stops, starts, watchdog restarts, failing builds and process
restarts overlap. The recorder's worker generations overlap in the same way. In
both the flag is also written to a file that decides what a restarted process does.
The router serialises sessions but fans operations out to three services without
a transaction. Finalizers, pruning and the user's deletions share clip files, a
counter and a database without a common lock, and a crash can come between any two
of them. The streamer's restore retries in the background while requests change what
it restores, and its supervisor restarts MediaMTX, which forgets its source.
`PROJECT.json` lists the hazards, each at its line.

What makes the parts correct:

- lifecycle: no pipeline object is lost, the latest flag wins in both directions,
  a hanging teardown starves nobody, a restart resumes what was running;
- inference: only the current pipeline's frames are judged, a stop discards what
  is in flight, inference goes on as long as frames come;
- segment buffer: one encoder at a time, no start swallowed, every stop obeyed, the
  flags and the worker agree;
- model switch: the displayed model is the loaded one, the last request wins;
- events: every accepted event ends in one history row, clip counter, files,
  sidecars and rows stay in step, a clip holds what was recorded of its window;
- sessions: one session at a time, a rotated refresh token is worth nothing, no
  live view survives its session;
- fan-out: an undisturbed operation answered 200 leaves the components consistent;
- streamer: the source and the PTZ target are those of the applied profile, a stop
  is final, an active stream comes back after every fault.

## 2. Modules

`AnalyzerPipeline` — the lifecycle. Variables: the flag and its persisted copy,
`_pipeline`, the playing pipelines, the two locks, `pc`, the local variables that
live across a step (`op`, `snapshot`, `old`), the callback position of each
pipeline, `pipeline_state`, and the history variable `disturbed`, that the last save of
the flag overlapped another one or failed. A step is the code between two points where another
thread can be noticed: lock acquisition, a read or write of `app_state` (whose
methods are atomic under its lock), a GStreamer call. `start_pipeline` is
`LockStart, Detach, NullOld, CheckActive, Clear, Launch | LaunchFails,
MarkStarting | MarkFailed`; `stop_analysis` is `DetachStop, NullStop,
MarkStopped`; a request is `Request, ReadFlag, SaveFlag` followed by one of those.
`Restart` is a crash with reboot at any point.
`set_state(NULL)` is modelled by what the code relies on: it returns only when
the pipeline's streaming thread is outside its callback, and no callback begins
afterwards. Time is abstracted: the watchdog may find any existing pipeline timed
out. Pipeline objects are reused once nothing plays them, so the number of
restarts is unbounded.

`AnalyzerInference` — EXTENDS `AnalyzerPipeline` and strengthens its steps with
their effect on the ring, the queue and the displayed judgment; the steps of
`inference_worker` are added. A frame is the pipeline that extracted it. The
history variables `stopSeen` and `lateStop` record a stop during an inference and one
between the recheck of the flag and `update_inference`. What is judged
(text, keywords, labels) is left out. `MIN_INFER_INTERVAL` is the free choice between
`DropSignal` and `PassGate`.

`SegmentRecorder` — the buffer. Worker generations are numbered; generation `w`
joins `w - 1`. `_worker` is `Join, Loop, Build, ReportRunning, (Watch, Poll)*,
Teardown, Pause, Backoff, Done`. A restart begins again with generation 1. The
history variable `ioFailed` records that an OSError ended a request before the
recorder was told, or a worker thread silently (`Dies`).

`SegmentWindow` — the footage. The clock is a variable, counted in ticks of a
fraction of a second, because a segment's name keeps only the second in which it was
opened: `Stamp`. `Start, FirstSegment, Rotate, Purge, Ends` are the worker and
splitmuxsink; a gap is the time between `Ends` and the next `FirstSegment`.
`Select(a)` is the finalizer of an event with anchor `a`, at any moment after its
window, however late the judgment and the finalizer are; `Selected` and `EndOf` are
`select_segments_for_window`.
Selection only reads, so one finalizer at any moment stands for all; its wait and the
pruning of clips, which touch no segment, are part of `Select`. `recorded` is a
history variable: the ticks that were encoded. A file opened twice in one second
replaces the first one, and `recorded` loses its ticks. The volume of the segments is
a tmpfs; a restart of the container, which empties it, is left out.

`EventClips` — what happens to an accepted event. One finalizer per event, named
after its time: `Notify` (`accept_event`), `ListBefore, CheckSpace, (PruneUnlink,
PruneUncount, PruneSidecar)*, PruneRows` (`_prune_with_history` and
`ensure_clip_capacity`), `RecordRollover | RecordDirect`, `StatClip, WriteSidecar,
CountAdded, InsertEvent | InsertRaises`; `CaptureRaises` is an exception anywhere in
the capture. The user's deletions (`UserUnlink, UserUncount, DeleteEvent,
DeleteEvents`) and a restart come between any two of these. Whether there is space
and whether ffmpeg works are free choices. History variables name the excuses the
properties admit: clips deleted before their own row existed (`early`), removals cut
short (`torn`), clips pruned by a finalizer whose first listing did not have them
(`unlisted`), clips the user deleted (`userGone`). Clips below `MIN_CLIP_SIZE` are
left out: nothing counts them.

`SingleSession` and `Sessions` — the abstract promise about an account (the
credentials of at most one login are honoured; an ended login never is again) and the
router's implementation of it. A request thread moves through one action per commit,
HTTP call or lock-protected block: `Login, (ReadFailures, RecordFailure) |
ResetFailures, RevokeAll, Bump, Issue, Sweep, CloseView*, Respond`; `Rotate, Mint`;
`Logout`; `ChangePassword`; `WhepOpen, WhepCreated | WhepRefused, Register, Recheck`;
`WhepClose`. A token is its claims. The epoch, refresh tokens, failure counter and
WHEP registry are in the database and survive `Restart`; MediaMTX's views survive it
too, streams relayed by the router do not. `Account == INSTANCE SingleSession WITH
honoured <- Current, last <- logins`, where `Current` is the set of logins some
credential of which would be accepted now, is the refinement mapping.

`StreamerRuntime` — `op` is whoever holds `_runtime_lock` and how far it is:
`StreamingStart, PatchOk | PatchFails, ConfigurePtz, SaveApplied, LoadPresets`;
`StreamingStop, ClearConfig, PatchOk | PatchFails`; `RestoreAttempt, PatchOk |
PatchFails, ConfigurePtz`. `StartupApply, RestoreCheck, RestoreLeave` are the rest of
the restore thread with its single-flight lock, `SupervisorPopen, MediaMTXExits,
SupervisorSpawns` the supervision of MediaMTX. `PollAsks` and `PollAnswers` are the
two ends of a PTZ request that no lock protects; `SavePreset` and `SetPatrol` change
memory, `SaveSetting` the applied slot, at every moment of a start; the history variable
`raced` names the settings whose last save an overlapping start has overwritten. A
profile is identified with the camera it names and a position with the camera it was
read from.

`Operations` — the router's fan-out over the persisted flags of the three services:
`Begin, Precheck, (Leg | LegFails)*, Answer`, while services go down and come back. A
failing leg may have changed the flag all the same (a late answer). The
history variable `clean` says that the last fan-out was answered 200 and met no other
request.

How they fit together: `AnalyzerInference` extends `AnalyzerPipeline`; `Operations` sees
of streamer, analyzer and recorder the flag that `StreamerRuntime`,
`AnalyzerPipeline` and `SegmentRecorder` act upon and persist; `NotifyRecorder` of
`AnalyzerInference` is the sending side of `Notify` in `EventClips`; the segments
`RecordRollover` finds or does not find are the subject of `SegmentWindow`.

`VlmSwitch` — the child process and the model switch. One thread owns the child
(main until the first model is loaded, then the inference worker), so its position
`pc` is one value; `/vlm/switch` requests and the child's death come at any moment.
`_spawn` is `Spawn, LoadReady | SpawnRaises`, called for one of four purposes
(startup, switch, rollback, respawn) that decide where it returns to;
`_perform_switch` is `Announce, ShowTarget, Kill`, the load, then `Rename, Ready` or
`RollBack, Kill`, the load, `ShowPrev, Ready`; an inference is `Infer, Send` and
`Answered | AnswersError | TransportFails | RespawnFails`. `live` counts the children
that exist whether or not `_proc` still refers to them, `unanswered` the answers
still to come over the connection. History variables: `asked`, the last accepted
request, and `settled`, what excuses the worker from performing it. The kill of a
child (SIGTERM, then SIGKILL) is taken to work: `_hard_stop` gives up on a child
that survives SIGKILL, and the next model would then be loaded beside it. What
starts an inference is left to `AnalyzerInference`; `Wait` chooses freely.

`MC*` modules extend a specification for TLC and add the symmetry sets where they are sound.
`*Proofs` modules hold the theorems.
Definitions named `X_Suffix` are mutants: `X` with a plausible bug, used to show
that a property notices it.

## 3. Runs

| Run | Checks | Instance |
|---|---|---|
| `pipeline_safety` | `NoLeakedPipeline`, `StopWins`, `StartWins`, `StoppedNotShownRunning`, `UndisturbedSaveAgrees` | 2 handlers, main, watchdog, 3 pipelines, failing saves and builds, restarts |
| `pipeline_liveness` | `EventuallyStopped`, `EventuallyRunning` if `set_state(NULL)` returns, `StopNotStarved` even if it never does | 1 handler, 2 pipelines, fair threads |
| `infer` | `StoppedShowsNothing`, `SamplesFromCurrentPipeline`, `JudgmentsKeepComing` | 1 handler, watchdog restarts, 2 pipelines, ring 1, 1 frame, 1 failure, SIGTERM restarts |
| `segment` | `OneEncoder`, `OldGenerationsStopping`, `EncoderNotShownDisabled`, `FlagsAgree`, `EventuallyRecording`, `EventuallyDisabled` | 1 handler, 4 generations, I/O failures, restarts |
| `segment_window` | `WindowKept`, `ClipRecent` | a second of 2 ticks, window 2 + 2, segments up to 3 ticks, selection at any time after the window, 2 pipelines, 14 ticks |
| `vlm_switch` | `OneModelLoaded`, `ReadyTruthful`, `JudgedByNamedModel`, `AnswerToThisJob`, `OnlyBackSwitchLost`, `SwitchEnds` | 3 models, 3 failures, the child dies, loads and rollbacks fail, restarts |
| `sessions` | `TypeOK` (it bounds the failure counter by the lockout threshold), `OneLogin` (the refinement), `LogoutByOwner`, `StaleViewsOwed`, `ReplacedViewsClose` | 2 requests, 1 view, threshold 2, 3 epochs, 2 refresh tokens, 1 restart |
| `clips` | `CooldownKept`, `CounterAccounts`, `SidecarsPaired`, `PrunedRowsGone`, `EventRecorded` | event times 2, 3, 4, cooldown 2, an old clip, 1 restart |
| `streamer` | `StoppedDetached`, `ServesApplied`, `SettingsPersisted`, `StreamReconnects` | 2 cameras, one with PTZ, 1 preset slot, 1 fault, 1 restart, `/ptz` requests at every moment |
| `operations` | `CleanMeansConsistent` | 2 requests, 2 faults |
| `infer_stop` | `NoJudgmentAfterStop`, expected to be violated | 1 handler, 2 pipelines, ring 2 |
| `streamer_presets` | `PresetsOfCamera`, expected to be violated | 2 PTZ cameras |

The type invariants of the other modules are proved (section 4) and not run again.

Why the bounds are enough. Two handlers with main and the watchdog give every
pair of overlapping operations, and two stops or two starts at once next to a
watchdog restart. At most one start builds at a time, so a third pipeline object
is needed only while two old ones are being torn down. In `infer` the ring holds one
frame, which can be one of the previous pipeline or of the current one: that is what
`SamplesFromCurrentPipeline` tells apart, and `FreshSamples` (section 4) proves it for
any ring and any number of frames; one handler makes every stop and start meet every step
of the worker. `MaxGen` bounds the generations created by one process (a restart begins
again); four allow a chain of three joins; one handler suffices for `FlagsAgree` and
liveness, and the proofs cover the other properties for any number of handlers. Three
models are the one running, the one being loaded and a third one asked for meanwhile.
Two requests at a time give every pair of session operations, three epochs a session,
its replacement and the end of that; a view is opened under the first or second and
swept by the second or third. Event times 2, 3 and 4 with a cooldown of 2 give a
rejected event and two finalizers at work at once, with the old clip for both to
prune. In `streamer` one fault and one restart let MediaMTX exit, or a PATCH fail, while
the restore that follows the restart is under way; the theorems hold for any number
of both. With window 2 + 2 the retention is 8 of the 14 ticks: files
are purged, a gap fits in, and the window can lie before, in and after it; a longer
clock (17 ticks) finds nothing else.

Fairness. `ThreadFairness`: a thread that can go on does; strong fairness,
because its next step may need a lock that others take in between (Python's
locks are not fair, but each holder of these two leaves after finitely many steps
and requests do not come at every instant). `NullFairness`, that `set_state(NULL)`
returns, is a premise of `EventuallyStopped` and `EventuallyRunning` only. Requests,
watchdog timeouts, faults and restarts are not fair anywhere. In `infer` the
camera delivers frames to a playing pipeline, an inference ends (`INFER_TIMEOUT`), and
now and then the interval has elapsed when a signal is taken. In `segment` threads run
on, and so does GStreamer; the two liveness properties assume that restarts end. In
`vlm_switch` the child's owner runs on: every wait of its has a timeout
(`LOAD_TIMEOUT`, `INFER_TIMEOUT`, `STOP_GRACE`, 5 s on the queue). In `sessions` a
request that has begun goes on (its HTTP calls have timeouts) and chunks keep coming to
a relayed stream: `/state` has one at least every poll, and a `/stream` without frames
delivers nothing. In `clips` a finalizer goes on: the post window, ffmpeg's timeout and
the database's `busy_timeout` bound its waits. In `streamer` the holder of
`_runtime_lock`, the restore thread (whose retries are spaced by sleeps), the supervisor
and a `/ptz` request's write go on.

Deadlock checking is off in `sessions` and `clips` (the bounds on epochs, tokens and
event times run out) and `segment_window` (the clock does).

### Where code and documentation disagree

Two runs expect a violation; `PROJECT.json` ("findings") quotes the comments.

- `infer_stop`: `main.py:327-329`, SDD 7.3 and FR-051 say that a judgment finishing after
  a stop surfaces nowhere. The worker looks at the flag only after the inference
  (`main.py:330`): a stop and a start during one inference go unnoticed, and the judgment
  of before the stop is displayed, recorded and notified in the new analysis.
- `streamer_presets`: `camera.py` says that a different connection target invalidates the
  stored coordinates, but `ptz.configure` keeps `_current`, the position last read from
  the previous camera (`ptz.py:45`), and a preset saved before the first poll of the new
  camera stores it.

Others met while modelling. Where a property is named, TLC refutes it under the constants
given, or without the disjunct named; they are why the properties that are run have the
form they have:

- `AnalyzerPipeline.PersistedFlagAgrees` with two handlers: FR-014 has a restarted
  analyzer resume iff analysis was running, but the flag is read outside the lock that
  orders the writes of the settings file, so two overlapping requests (a stop and a
  settings save, say) can leave the older flag in it (`server.py:61`). What
  `UndisturbedSaveAgrees` adds is that nothing but such an overlap or a failed write has
  this effect, and that the next save that meets neither ends it.
- A stop between the worker's recheck of the flag and `update_inference` (`main.py:358`)
  leaves the judgment displayed, which SDD 7.3 rules out as well; `StoppedShowsNothing`,
  refuted without `lateStop`, says that no other stop does.
- `AnalyzerInference.SamplesFromCurrentPipeline` with two handlers: a stop tears its
  pipeline down outside `_start_lock`; a start meanwhile clears the ring, and a frame of
  the old pipeline enters it afterwards (`main.py:546`).
- `SegmentRecorder.FlagsAgree` with two handlers: concurrent `/buffer/start` and
  `/buffer/stop` interleave their three steps (`recorder/main.py:131`).
- `Sessions.LogoutEndsSession` (FR-003): a logout identified by the access token alone
  leaves the login's refresh token active; the next refresh continues the session.
- `Sessions.StaleViewsOwed` with `Aging = TRUE`: purging forgets a view older than a day
  that MediaMTX still serves, and the next replacement does not close it.
- Login failures counted in parallel read the same counter and write the same
  successor (`auth.py:188`): more than the threshold of attempts fit in before a lockout.
- `EventClips.HistoryKept`: a pruning takes every row whose clip disappeared between its
  two listings, also one the user deleted meanwhile, whose history was to stay
  (`recorder/main.py:356`).
- `EventClips.PrunedRowsGone` without `unlisted`: a pruning deletes the rows of the clips
  that differ between two listings of `_prune_with_history`, but `ensure_clip_capacity`
  prunes from a third one. A clip that another finalizer published and recorded between
  the first and the third is removed and keeps its row, though nothing failed;
  `finalize.py:127`, FR-033 and SDD 5.5 say that pruning takes the rows along.
- `StreamerRuntime.SettingsPersisted` without `raced`: `camera.py:47` says that every
  read-merge-write is serialised, but `streaming_start` reads the slot and writes it back
  after waiting for MediaMTX (`camera.py:163-181`), with no lock in between. A preset or
  patrol change saved meanwhile is overwritten, and memory and slot disagree until the
  next save of that setting. Presets that reach the disk between the read and the write
  are lost from both places: `LoadPresets` then loads the old ones into memory, and the two
  agree again.
- `StreamerRuntime.ServesApplied` without `~refused`: when MediaMTX has applied a PATCH
  and its answer is lost or late, the start fails before PTZ is configured. The stream then
  comes from the new camera while PTZ drives the old one, until the next request or exit;
  `camera.py:373-376` says that they never point at different cameras.
- `StreamerRuntime.ServesApplied` with `Stalls = TRUE`: a restore thread that stalls,
  after its last statement and before releasing its single-flight lock, for longer than
  the supervisor's back-off makes the next restore give up (`camera.py:218`).
- `SegmentWindow.WindowKept` without `now - k < Reach`: the window is anchored on the
  frame's time because judgments lag the scene (`finalize.py:162-167`; SDD 7.2 (5) has it
  hold regardless of the inference's speed), but the retention (`settings.py:43`) pays for
  segment length and delay with two segments of slack. A judgment may lag up to
  `VLM_INFER_TIMEOUT`, and what exceeds the slack is purged before it is selected: the
  whole window is only kept if `now - WindowEnd + MaxSpan <= 2 * Second + 2` at the
  selection. `Reach` is the age up to which footage is still there, to the tick.
- `resolve_preset` says "start >= end wraps midnight"; a preset with start = end matches
  no time at all (`settings.py:114`).
- An analysis start that passes its precheck while a streaming stop is on its way leaves
  analysis running without streaming until the next stop (FR-050); hence `clean` in
  `CleanMeansConsistent`.
- A stop's last `mark_waiting_for_start` can overwrite a newer start's mark until the
  next frame (`main.py:548`); a watchdog timeout racing a stop leaves `stalled` displayed
  with no pipeline (which is why `StoppedNotShownRunning` admits it).
- A request to switch back to the model that is being replaced is answered "queued" and
  dropped (`main.py:138`, because `holder.name` is still the old one), although
  `holder.py:41-42` says of an accepted request that "the inference worker will perform
  the switch shortly"; `OnlyBackSwitchLost` says that no other request is lost.
- After a failed rollback `vlm_state` stays "error" and the target stays displayed,
  although later inferences respawn the previous model (`main.py:239-241`); hence
  `ReadyTruthful` speaks of "ready" only.
- The worker that gives up sends SIGTERM to its own process (`main.py:321`); as PID 1 of
  its container, without a handler, that process does not end and nothing replaces the
  worker. `SigtermRestart` has no fairness, so that both cases are in the run, and
  `JudgmentsKeepComing` admits the worker that has given up.

## 4. Proofs

Every safety property that a passing run checks is also a theorem, for arbitrary sets
of threads, requests, pipelines, models, cameras, events and views, any ring size, any
number of generations, any times and any value of the bounds. The assumptions are the
named ASSUMEs: threads are distinct from each other and from `None`, sizes are
positive, `Requests` (`Sessions`) and the event times (`EventClips`) are finite because
the bounds on epochs and the clip counter count them, `None` is no camera and no
Boolean.  In each module the property is derived
from an inductive invariant that says what a reader of the code would answer to "and
why can that not happen in between?".

- `AnalyzerProofs`, first part: `TypeCorrect`, `NoLeak`, `StopWinsAlways`,
  `StartWinsAlways`, `StoppedDisplay`. The properties speak of quiet states; the
  inductive invariant `IInv` says who is still going to act: lock ownership by
  position (`Locks`), sole ownership of a detached pipeline (`Owned`), `_pipeline`
  being None from detach to launch (`Launched`), and that a pipeline with the flag
  down has a stop on its way (`StopComing`), a flag up without pipeline a start
  (`StartComing`), a running display with the flag down a stop that has not
  marked yet (`IdleComing`). `NoLockCycle`, from `Locks`: `_pipeline_lock` is never
  held across `set_state(NULL)` and is free whenever the holder of `_start_lock` wants
  it, the safety part of `StopNotStarved`. `UndisturbedSaves`: unless the last save was
  disturbed, the file is behind the flag only inside `persist_settings`, whose snapshot
  is the flag (`Persisted`), for any number of overlapping requests.
- `AnalyzerProofs`, second part: `ImplementsPipeline` (the analyzer with its worker
  implements the lifecycle; every added step stutters on it), so
  `LifecycleHolds`; `InferTypeCorrect`; `StoppedDisplaysNothing`,
  from the invariant that a worker about to show with the flag down has met a late
  stop (`InFlight`); `FreshSamples`, an action property: while a stop sets its pipeline
  to NULL nobody builds
  (`StopHolds`: the flag is down, and a builder would hold `_pipeline_lock`), so from the
  clear to the launch nothing plays and afterwards only the new pipeline does
  (`NothingElsePlays`), and the ring holds its frames only (`RingCurrent`).
- `SegmentRecorderProofs`: `TypeCorrect`, `EncoderExclusive`,
  `NoUnreachableGeneration`, `StatusTruthful`. A join speaks only of the generation
  just before; the strengthening `Chain` says that once a generation is past its
  join all earlier ones are dead. `FlagsDoAgree` adds what a request leaves half done
  (`Agree`), that a thread winds down only when told to (`Obeys`) and that none is told
  before it exists (`Unborn`).
- `SegmentWindowProofs`: `TypeCorrect`, `WindowIsKept`, `ClipIsRecent`. The argument
  follows a recorded tick: its file is named less than a second before its first tick
  and is at most `MaxSpan` long (`Shape`), so that a purge takes it only when the tick
  is older than the retention less a second and a segment (`Covered`); a file with a
  later name begins where this one has ended (`Ordered`), so that the end `EndOf` infers
  is at most a second early. Windows of at most a second promise nothing, and for the
  others the retention outlasts the open file (`Writing`). `ClipIsRecent` needs that a
  file is opened at most a purge period after the last purge (`Purged`).
  `WindowAssumption` bounds neither the segments nor the delay: how late a selection
  may be for a tick of a given age is in `Reach`, which is what the proof of `Covered`
  spends, to the tick.
- `VlmSwitchProofs`: `TypeCorrect`, `OneModel`, `ReadyShown`, `NamedModel`,
  `OwnAnswer`, `RequestPerformed`. The strengthening says that a live child is the one
  in `_proc` and that none lives when the next is spawned (`Tracked`), which model is
  loaded for whom (`Names`), what is displayed meanwhile (`Shown`), that an answer is only
  outstanding while it is waited for (`Fresh`) and where the last accepted request is:
  pending, being performed or done (`Carried`). `SpawnRaisesChild` is the lemma all
  failing loads share.
- `SessionsProofs`: `TypeCorrect` (with the lockout threshold), `SessionRefinement`, the
  step simulation behind `OneLogin`, `LogoutByOwnerHolds` and `StaleViewsAreOwed`. Whoever
  bumps the epoch or mints a token is alone under `SESSION_LOCK` (`Locks`); outside of it
  every active refresh token and every access token of the account's epoch belong to the
  latest login (`Latest`), clients hold only tokens that were minted (`Given`), and no
  claim is ahead of the account's epoch (`Claims`). Every request step is then a new
  login, an end or a stutter of `SingleSession`. For the views: each is in the registry
  or in some request's hands (`Hands`, `Accounted`), so that a bump makes it one that the
  coming sweep closes. `Room` only says that the bounds leave room for what is on its way.
- `StreamerRuntimeProofs`: `TypeCorrect`, `StoppedStaysDetached`, `AppliedIsServed`,
  `SettingsArePersisted`. The restore reads the flag again under `_runtime_lock` (`Flag`,
  `Lock`); a patched source is still there or MediaMTX has exited since (`Fresh`); an
  active stream is served or a restore is on its way or is going to be spawned (`Owed`),
  and a restore thread about to release the single-flight lock leaves no stream behind
  (`Left`). `Kept` is where the settings are between memory, the
  slot, a start and a `/ptz` request, as far as no start has overwritten them.
- `EventClipsProofs`: `TypeCorrect`, `CooldownIsKept`, `CounterIsExact`,
  `SidecarsArePaired`, `PrunedRowsAreGone`. No accepted event is after the persisted
  anchor (`Gate`); a clip is published by its own finalizer, once (`Owns`), a victim and a
  first listing exist only while its finalizer prunes (`Works`), and a sidecar whose clip
  is gone belongs to a deletion that knows the clip (`Paired`). A clip that a pruning
  removes is in its first listing, or is `unlisted`. The counter's steps come
  down to the cardinality of a set with one element more or less (`Grow`, `Shrink`).
- `OperationsProofs`: `ConsistentAfterClean`. The property speaks of moments without a
  request; meanwhile a request that met no other one is the only one (`Alone`), the legs
  it has behind it stand (`Applied`), and before any request is past its precheck, or
  when the only one is a streaming start, consistency is undisturbed (`Untouched`,
  `Streaming`).

Four theorems have a hypothesis on the constants, the one under which the run checks the
property and without which TLC refutes it (section 3): one request at a time
(`OneHandler`, `Sequential`) for `FreshSamples` and `FlagsDoAgree`; no views older than a
day (`~Aging`) for `StaleViewsAreOwed`; no restore thread that stalls at its end
(`~Stalls`) for `AppliedIsServed`. Where a property names its excuse by its cause instead
(`disturbed`, `lateStop`, `raced`, `unlisted`, `Reach`), the theorem has no hypothesis, and
says that the cause is the only one.

Only model-checked: the liveness properties, which rest on fairness (the prover has no
ENABLED): `EventuallyStopped`, `EventuallyRunning`, `StopNotStarved`,
`JudgmentsKeepComing`, `EventuallyRecording`, `EventuallyDisabled`, `SwitchEnds`,
`ReplacedViewsClose`, `EventRecorded`, `StreamReconnects`. Induction over data and
RECURSIVE operators are out of the prover's reach as well; the modules use none.

## 5. Not modelled, and the plan

Left out, and why:

- `resolve_preset` and the keyword and label match: pure functions of strings and the
  time of day, which the repository's unit tests call directly.
- SSE of the analyzer: one coalescing wake-up queue per client, with a timeout of 1 s
  that sends the snapshot anyway; a lost wake-up costs a second.
- The router's monitoring merge: two collector threads replace whole snapshots under one
  lock; nothing else depends on what they hold.
- The inference history (append-only, pruned by age) and the clients' stored documents
  (one SQL statement each).
- PTZ moves and the patrol's movements: they act on the camera only; the patrol switch
  and the position are modelled.
- The escalation of the watchdog's timeout (time is abstracted there), and a VLM child
  that survives SIGKILL.
- A leg of the router's fan-out that waits for its component's lock and acts only after
  the router has answered 502 (`proxy.py:59`, `camera.py:190`): in `Operations` a late
  effect precedes the answer or never comes.
- An `OSError` of the streamer's `_write_json` (`camera.py:61-65`, `camera.py:174`): after
  the PATCH it leaves the source at the new camera and the slot at the old one.
- Image conversion, JSON and JPEG formatting, log texts, sensors and diagnostics;
  MediaMTX, GStreamer and NanoLLM beyond what the code relies on; the clients.

Next: what the liveness properties rest on and can be stated without fairness, as
invariants like `LocksFree`: that a waiting generation's predecessor can go on
(`EventuallyRecording`), and that an unserved request has an owner (`SwitchEnds`,
`EventRecorded`).
