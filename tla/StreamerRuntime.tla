-------------------------- MODULE StreamerRuntime --------------------------
(***************************************************************************)
(* The streamer: the registered and the applied camera profile, the        *)
(* streaming start and stop requests, the restore that reconnects after a  *)
(* restart, the supervised MediaMTX child whose source they patch, and     *)
(* the PTZ target, position, presets and patrol setting that follow the    *)
(* camera (streamer/camera.py, streamer/main.py, streamer/ptz.py).         *)
(*                                                                         *)
(* A profile is identified with the camera (the ip) it names; a position   *)
(* is identified with the camera it was read from.  Whoever holds          *)
(* _runtime_lock is in "op"; the files are replaced atomically, so the     *)
(* steps of an operation are its reads, its PATCH and its writes.          *)
(***************************************************************************)
EXTENDS Naturals

CONSTANTS
  Cameras,      \* the profiles that can be registered
  PtzCameras,   \* those with an onvif_port
  Slots,        \* preset slots (PRESET_SLOTS)
  None,         \* absent: no profile, no position, no PTZ target
  MaxFaults,    \* bound: child exits, refused PATCHes, lost replies
  MaxRestarts,  \* bound: restarts of the streamer itself
  Stalls        \* may a thread stall, between two statements that follow
                \* a reply, for longer than the supervisor's back-off?

ASSUME StreamerAssumption ==
  /\ PtzCameras \subseteq Cameras
  /\ None \notin Cameras \cup BOOLEAN
  /\ MaxFaults \in Nat
  /\ MaxRestarts \in Nat
  /\ Stalls \in BOOLEAN

VARIABLES
  registered,  \* cam_profile.json
  applied,     \* cam_applied.json
  source,      \* MediaMTX: the source of path "live"
  mtx,         \* the MediaMTX child: "up" or "down"
  sup,         \* the supervisor: "popen", "wait" or "sleep"
  spawned,     \* startup_apply threads not yet past their trylock
  restore,     \* the thread holding _startup_apply_running
  op,          \* the operation holding _runtime_lock
  target,      \* _ONVIF_URL
  current,     \* _current
  poll,        \* the camera whose GetStatus answer is on its way
  presets,     \* _presets
  patrol,      \* _patrol["enabled"]
  saving,      \* the /ptz request between its memory and its disk write
  raced,       \* kinds of setting whose last save a start that overlapped it
               \* has overwritten (history variable)
  refused,     \* the last streaming request failed (history variable)
  faults,
  restarts

disk == <<registered, applied>>
child == <<source, mtx, sup>>
threads == <<spawned, restore>>
ptz == <<target, current, poll>>
settings == <<presets, patrol>>
vars == <<registered, applied, source, mtx, sup, spawned, restore, op, target,
          current, poll, presets, patrol, saving, raced, refused, faults,
          restarts>>

Detached == "publisher"
Idle == [kind |-> "none"]
NoPresets == [s \in Slots |-> None]
MaybeCamera == Cameras \cup {None}
Presets == [Slots -> MaybeCamera]

\* The PTZ target a profile asks for.
PtzOf(c) == IF c \in PtzCameras THEN c ELSE None

TypeOK ==
  /\ registered \in MaybeCamera
  /\ applied \in [active : BOOLEAN, profile : MaybeCamera,
                  presets : Presets, patrol : BOOLEAN \cup {None}]
  /\ source \in Cameras \cup {Detached}
  /\ mtx \in {"up", "down"}
  /\ sup \in {"popen", "wait", "sleep"}
  /\ spawned \in Nat
  /\ restore \in {"none", "check", "loop", "leave"}
  /\ op \in {Idle}
        \cup [kind : {"start"}, pc : {"patch", "ptz", "save", "load"},
              config : Cameras, presets : Presets,
              patrol : BOOLEAN \cup {None}]
        \cup [kind : {"restore"}, pc : {"patch", "ptz"}, config : Cameras]
        \cup [kind : {"stop"}, pc : {"clear", "patch"}]
  /\ target \in PtzCameras \cup {None}
  /\ current \in MaybeCamera
  /\ poll \in MaybeCamera
  /\ presets \in Presets
  /\ patrol \in BOOLEAN
  /\ saving \in {Idle} \cup [kind : {"presets"}, value : Presets]
                 \cup [kind : {"patrol"}, value : BOOLEAN]
  /\ raced \subseteq {"presets", "patrol"}
  /\ refused \in BOOLEAN
  /\ faults \in 0 .. MaxFaults
  /\ restarts \in 0 .. MaxRestarts

\* Empty volume, no camera yet; lifespan has started its threads.
Init ==
  /\ registered = None
  /\ applied = [active |-> FALSE, profile |-> None, presets |-> NoPresets,
                patrol |-> None]
  /\ source = Detached /\ mtx = "down" /\ sup = "popen"
  /\ spawned = 1 /\ restore = "none"
  /\ op = Idle
  /\ target = None /\ current = None /\ poll = None
  /\ presets = NoPresets /\ patrol = FALSE
  /\ saving = Idle /\ raced = {}
  /\ refused = FALSE /\ faults = 0 /\ restarts = 0

Fault == faults < MaxFaults /\ faults' = faults + 1

-----------------------------------------------------------------------------
(* Requests.  POST /profile and POST /ptz are coroutines without an await  *)
(* after the body is read: the event loop serves them one at a time.       *)

\* register(): merges and replaces the registered profile, nothing else.
Register(c) ==
  /\ saving = Idle
  /\ registered' = c
  /\ UNCHANGED <<applied, child, threads, op, ptz, settings, saving, raced,
                 refused, faults, restarts>>

\* streaming_start(), up to the PATCH: the registered profile, and what of
\* the applied slot survives.  Presets of another camera are dropped.
StreamingStart ==
  /\ op = Idle
  /\ registered # None
  /\ op' = [kind |-> "start", pc |-> "patch", config |-> registered,
            presets |-> IF applied.profile = registered THEN applied.presets
                                                        ELSE NoPresets,
            patrol |-> applied.patrol]
  /\ UNCHANGED <<disk, child, threads, ptz, settings, saving, raced, refused,
                 faults, restarts>>

\* streaming_stop(): the flag drops first, whatever happens afterwards.
StreamingStop ==
  /\ op = Idle
  /\ applied' = [applied EXCEPT !.active = FALSE]
  /\ op' = [kind |-> "stop", pc |-> "clear"]
  /\ UNCHANGED <<registered, child, threads, ptz, settings, saving, raced,
                 refused, faults, restarts>>

\* ... then the PTZ target and the position go.
ClearConfig ==
  /\ op.kind = "stop" /\ op.pc = "clear"
  /\ target' = None /\ current' = None
  /\ op' = [op EXCEPT !.pc = "patch"]
  /\ UNCHANGED <<disk, child, threads, poll, settings, saving, raced, refused,
                 faults, restarts>>

-----------------------------------------------------------------------------
(* _patch_source and what depends on its answer.                           *)

AtPatch == op.kind # "none" /\ op.pc = "patch"
Wanted == IF op.kind = "stop" THEN Detached ELSE op.config

\* 200.  A stop is over; a start or a restore goes on to the PTZ target.
PatchOk ==
  /\ AtPatch
  /\ mtx = "up"
  /\ source' = Wanted
  /\ op' = IF op.kind = "stop" THEN Idle ELSE [op EXCEPT !.pc = "ptz"]
  /\ refused' = (refused /\ op.kind # "stop")
  /\ UNCHANGED <<disk, mtx, sup, threads, ptz, settings, saving, raced, faults,
                 restarts>>

\* Mutant: a restore that fails once gives up.
PatchFails_NoRetry ==
  /\ AtPatch
  /\ \/ mtx = "down" /\ UNCHANGED <<source, faults>>
     \/ mtx = "up" /\ Fault /\ source' \in {source, Wanted}
  /\ op' = Idle
  /\ refused' = (refused \/ op.kind # "restore")
  /\ restore' = IF op.kind = "restore" THEN "leave" ELSE restore
  /\ UNCHANGED <<disk, mtx, sup, spawned, ptz, settings, saving, raced,
                 restarts>>

\* No 200: nobody listens, MediaMTX refuses, or it has applied the source
\* and the answer misses the 5 s timeout.  A request is answered 502, a
\* restore sleeps and tries again.
PatchFails ==
  /\ AtPatch
  /\ \/ mtx = "down" /\ UNCHANGED <<source, faults>>
     \/ mtx = "up" /\ Fault /\ source' \in {source, Wanted}
  /\ op' = Idle
  /\ refused' = (refused \/ op.kind # "restore")
  /\ UNCHANGED <<disk, mtx, sup, threads, ptz, settings, saving, raced,
                 restarts>>

\* Mutant: a restore reconnects the source and forgets the PTZ target.
ConfigurePtz_StartOnly ==
  /\ op.kind \in {"start", "restore"} /\ op.pc = "ptz"
  /\ IF op.kind = "start"
       THEN /\ target' = PtzOf(op.config)
            /\ op' = [op EXCEPT !.pc = "save"]
            /\ UNCHANGED restore
       ELSE op' = Idle /\ restore' = "leave" /\ UNCHANGED target
  /\ UNCHANGED <<disk, child, spawned, current, poll, settings, saving, raced,
                 refused, faults, restarts>>

\* _configure_ptz: the target follows the source; without an onvif_port it
\* is cleared together with the position.  configure() keeps the position.
\* A restore is over with that.
ConfigurePtz ==
  /\ op.kind \in {"start", "restore"} /\ op.pc = "ptz"
  /\ target' = PtzOf(op.config)
  /\ current' = IF PtzOf(op.config) = None THEN None ELSE current
  /\ IF op.kind = "start"
       THEN op' = [op EXCEPT !.pc = "save"] /\ UNCHANGED restore
       ELSE op' = Idle /\ restore' = "leave"
  /\ UNCHANGED <<disk, child, spawned, poll, settings, saving, raced, refused,
                 faults, restarts>>

\* Mutant: the promotion writes the default patrol setting.
SaveApplied_ResetsPatrol ==
  /\ op.kind = "start" /\ op.pc = "save"
  /\ applied' = [active |-> TRUE, profile |-> op.config,
                 presets |-> op.presets, patrol |-> FALSE]
  /\ op' = [op EXCEPT !.pc = "load"]
  /\ UNCHANGED <<registered, child, threads, ptz, settings, saving, raced,
                 refused, faults, restarts>>

\* The applied slot becomes what the start has connected.  A patrol switch
\* that was saved since the start read the slot is overwritten.  (An OSError
\* of _write_json, here or in any other write, is not modelled: it would leave
\* the source at the new camera and the slot at the old one.)
SaveApplied ==
  /\ op.kind = "start" /\ op.pc = "save"
  /\ applied' = [active |-> TRUE, profile |-> op.config,
                 presets |-> op.presets,
                 patrol |-> IF op.patrol = None THEN patrol ELSE op.patrol]
  /\ raced' = IF op.patrol \in {None, applied.patrol} THEN raced
                                                     ELSE raced \cup {"patrol"}
  /\ op' = [op EXCEPT !.pc = "load"]
  /\ UNCHANGED <<registered, child, threads, ptz, settings, saving, refused,
                 faults, restarts>>

\* ptz.load_presets, and the 200 of the start.  Presets whose save is under
\* way, or was completed since SaveApplied, are overwritten in memory.
LoadPresets ==
  /\ op.kind = "start" /\ op.pc = "load"
  /\ presets' = op.presets
  /\ raced' = IF saving.kind # "presets" /\ op.presets = applied.presets
                THEN raced \ {"presets"} ELSE raced \cup {"presets"}
  /\ op' = Idle
  /\ refused' = FALSE
  /\ UNCHANGED <<disk, child, threads, ptz, patrol, saving, faults, restarts>>

-----------------------------------------------------------------------------
(* The restore (startup_apply) and the supervisor.                         *)

\* A spawned thread that finds another one at work is over.
StartupApply ==
  /\ spawned > 0
  /\ spawned' = spawned - 1
  /\ restore' = IF restore = "none" THEN "check" ELSE restore
  /\ UNCHANGED <<disk, child, op, ptz, settings, saving, raced, refused,
                 faults, restarts>>

\* The flag is read without _runtime_lock.
RestoreCheck ==
  /\ restore = "check"
  /\ restore' = IF applied.active THEN "loop" ELSE "leave"
  /\ UNCHANGED <<disk, child, spawned, op, ptz, settings, saving, raced,
                 refused, faults, restarts>>

\* Mutant: the attempt trusts the flag read before the lock.
RestoreAttempt_StaleFlag ==
  /\ restore = "loop"
  /\ op = Idle
  /\ applied.profile # None
  /\ op' = [kind |-> "restore", pc |-> "patch", config |-> applied.profile]
  /\ UNCHANGED <<disk, child, threads, ptz, settings, saving, raced, refused,
                 faults, restarts>>

\* An attempt takes _runtime_lock and reads the applied slot again.
RestoreAttempt ==
  /\ restore = "loop"
  /\ op = Idle
  /\ IF applied.active /\ applied.profile # None
       THEN /\ op' = [kind |-> "restore", pc |-> "patch",
                      config |-> applied.profile]
            /\ UNCHANGED restore
       ELSE restore' = "leave" /\ UNCHANGED op
  /\ UNCHANGED <<disk, child, spawned, ptz, settings, saving, raced, refused,
                 faults, restarts>>

\* finally: _startup_apply_running is released.
RestoreLeave ==
  /\ restore = "leave"
  /\ restore' = "none"
  /\ UNCHANGED <<disk, child, spawned, op, ptz, settings, saving, raced,
                 refused, faults, restarts>>

\* Popen: a fresh MediaMTX has the source of mediamtx.yml.
SupervisorPopen ==
  /\ sup = "popen"
  /\ sup' = "wait" /\ mtx' = "up" /\ source' = Detached
  /\ refused' = FALSE
  /\ UNCHANGED <<disk, threads, op, ptz, settings, saving, raced, faults,
                 restarts>>

\* The child exits and the source set at run time is gone with it.
MediaMTXExits ==
  /\ mtx = "up"
  /\ Fault
  /\ mtx' = "down" /\ source' = Detached /\ sup' = "sleep"
  /\ UNCHANGED <<disk, threads, op, ptz, settings, saving, raced, refused,
                 restarts>>

\* After a reply: only local statements remain until the flag is on disk or
\* the single-flight lock is free.
Settling ==
  \/ restore = "leave"
  \/ op.kind \in {"start", "restore"} /\ op.pc # "patch"

\* The back-off is over: the restore thread is started before the child.
SupervisorSpawns ==
  /\ sup = "sleep"
  /\ Stalls \/ ~Settling
  /\ sup' = "popen"
  /\ spawned' = spawned + 1
  /\ UNCHANGED <<disk, source, mtx, restore, op, ptz, settings, saving, raced,
                 refused, faults, restarts>>

-----------------------------------------------------------------------------
(* PTZ: the 2 s poll, the presets and the patrol setting.                  *)

\* _issue_request and _post: nothing without a target, otherwise a request
\* to the URL of the moment, with no lock held while it is under way.
IssueRequest == target # None /\ poll' = target

\* get_status asks ...
PollAsks ==
  /\ poll = None
  /\ IssueRequest
  /\ UNCHANGED <<disk, child, threads, op, target, current, settings, saving,
                 raced, refused, faults, restarts>>

\* ... and up to 3 s later poll_once stores the answer, if there is one.
PollAnswers ==
  /\ poll # None
  /\ poll' = None
  /\ current' \in {current, poll}
  /\ UNCHANGED <<disk, child, threads, op, target, settings, saving, raced,
                 refused, faults, restarts>>

\* POST /ptz save: the position goes into the slot in memory ...
SavePreset(s) ==
  /\ saving = Idle
  /\ current # None
  /\ presets' = [presets EXCEPT ![s] = current]
  /\ saving' = [kind |-> "presets", value |-> presets']
  /\ UNCHANGED <<disk, child, threads, op, ptz, patrol, raced, refused, faults,
                 restarts>>

\* POST /ptz patrol: the switch in memory ...
SetPatrol(b) ==
  /\ saving = Idle
  /\ patrol' = b
  /\ saving' = [kind |-> "patrol", value |-> b]
  /\ UNCHANGED <<disk, child, threads, op, ptz, presets, raced, refused,
                 faults, restarts>>

\* ... and save_presets / save_patrol merge it into the applied slot, under
\* _config_lock only: a start may be anywhere between its read of the slot
\* and its end.
SaveSetting ==
  /\ saving # Idle
  /\ IF saving.kind = "presets"
       THEN /\ applied' = [applied EXCEPT !.presets = saving.value]
            /\ raced' = IF presets = saving.value THEN raced \ {"presets"}
                                                  ELSE raced
       ELSE /\ applied' = [applied EXCEPT !.patrol = saving.value]
            /\ raced' = raced \ {"patrol"}
  /\ saving' = Idle
  /\ UNCHANGED <<registered, child, threads, op, ptz, settings, refused,
                 faults, restarts>>

\* The container restarts: memory is lost, lifespan loads presets and patrol
\* and starts the supervisor and a restore.
Restart ==
  /\ restarts < MaxRestarts
  /\ restarts' = restarts + 1
  /\ source' = Detached /\ mtx' = "down" /\ sup' = "popen"
  /\ spawned' = 1 /\ restore' = "none"
  /\ op' = Idle /\ saving' = Idle /\ raced' = {}
  /\ target' = None /\ current' = None /\ poll' = None
  /\ presets' = applied.presets
  /\ patrol' = (applied.patrol = TRUE)
  /\ refused' = FALSE
  /\ UNCHANGED <<disk, faults>>

-----------------------------------------------------------------------------

Requests ==
  \/ \E c \in Cameras : Register(c)
  \/ StreamingStart
  \/ StreamingStop
  \/ \E s \in Slots : SavePreset(s)
  \/ \E b \in BOOLEAN : SetPatrol(b)

Operation ==
  ClearConfig \/ PatchOk \/ PatchFails \/ ConfigurePtz \/ SaveApplied
    \/ LoadPresets

RestoreThread ==
  StartupApply \/ RestoreCheck \/ RestoreAttempt \/ RestoreLeave

Supervisor == SupervisorPopen \/ SupervisorSpawns

Next ==
  \/ Requests
  \/ Operation
  \/ RestoreThread
  \/ Supervisor
  \/ MediaMTXExits
  \/ PollAsks
  \/ PollAnswers
  \/ SaveSetting
  \/ Restart

Spec == Init /\ [][Next]_vars

\* Threads that can run do run, and the supervisor wakes from its sleep;
\* requests, exits of the child and answers of the camera are not owed.
FairSpec ==
  /\ Spec
  /\ WF_vars(Operation)
  /\ WF_vars(RestoreThread)
  /\ WF_vars(Supervisor)
  /\ WF_vars(SaveSetting)

-----------------------------------------------------------------------------
(* Properties.                                                             *)

Quiet == op = Idle /\ saving = Idle

\* Once a stop has been answered 200, nothing (no restore that is still
\* retrying, no restart of MediaMTX or of the streamer) attaches the camera
\* again until the next start: with the flag down and no failed request
\* since, the source is detached and PTZ has no target.
StoppedDetached ==
  ~applied.active /\ op = Idle /\ ~refused => source = Detached /\ target = None

\* When streaming is on, the last request succeeded and no restore is
\* pending, MediaMTX pulls the applied profile's camera and PTZ drives that
\* same camera: start, stop, restore, child exits and restarts in any order
\* leave neither the source nor the PTZ target behind.  ~refused is there
\* because a PATCH that MediaMTX has applied and not answered in time leaves
\* the source at the new camera and the PTZ target at the old one until the
\* next request or exit, which camera.py:373-376 says never happens ("the
\* stream and the PTZ target never point at different cameras"): without
\* ~refused TLC refutes the property.
ServesApplied ==
  (/\ applied.active /\ op = Idle /\ ~refused
   /\ mtx = "up" /\ spawned = 0 /\ restore = "none")
    => /\ source = applied.profile
       /\ target = PtzOf(applied.profile)

\* The presets and the patrol switch in memory are those in the applied slot
\* whenever nothing is under way, each unless a start that overlapped its last
\* save has overwritten it: no promotion, camera change, crash or restart
\* drives the two apart, and a disagreement that such a start has caused ends
\* with the next save of that setting.  camera.py:47 claims that "every
\* read-merge-write cycle" is serialised, but _config_lock is free between
\* streaming_start's read of the slot and its write: without raced TLC refutes
\* the property.  It is about agreement only: presets that reach the disk
\* between that read and that write are gone from both places.
SettingsPersisted ==
  Quiet =>
    /\ "presets" \notin raced => presets = applied.presets
    /\ "patrol" \notin raced => patrol = (applied.patrol = TRUE)

\* An active stream is reconnected after every exit of MediaMTX and every
\* restart of the streamer, once the faults end: the single-flight guard,
\* the unlocked flag check and the retries never drop the last restore.
StreamReconnects ==
  []<>(applied.active /\ ~refused => mtx = "up" /\ source = applied.profile)

\* The stored presets are positions of the camera the applied slot names
\* (camera.py: "a different connection target invalidates the stored
\* coordinates").
PresetsOfCamera ==
  Quiet => \A s \in Slots : applied.presets[s] \in {None, applied.profile}

=============================================================================
