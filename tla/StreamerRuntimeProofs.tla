---------------------- MODULE StreamerRuntimeProofs -----------------------
(***************************************************************************)
(* Proofs, for any cameras, preset slots and bounds, that a stopped stream *)
(* stays detached, that an active one is served from the camera its PTZ    *)
(* target names, and that the settings in memory are those on disk.        *)
(*                                                                         *)
(* A stop holds because the restore reads the flag again under             *)
(* _runtime_lock (Flag).  A served stream rests on the order of spawn and  *)
(* Popen in the supervisor: an active stream is served, or somebody who    *)
(* will find it unserved is on the way (Owed), and a restore thread never  *)
(* holds the single-flight lock past that point (Left).                    *)
(***************************************************************************)
EXTENDS StreamerRuntime, TLAPS

(* An operation between the 200 of its PATCH and its end. *)
Patched == op.kind \in {"start", "restore"} /\ op.pc # "patch"

(* What the flag on disk says, relative to the operation that holds
   _runtime_lock: only streaming_stop clears it and only a start sets it, so
   that a restore that found it set works under a set flag. *)
Flag ==
  /\ op.kind = "restore" => applied.active
  /\ op.kind = "start" /\ op.pc = "load" => applied.active
  /\ op.kind = "stop" => ~applied.active
  /\ op.kind = "stop" /\ op.pc = "patch" => target = None
  /\ ~applied.active /\ (op = Idle \/ (op.kind = "start" /\ op.pc = "patch"))
       => target = None
  /\ ~applied.active /\ op = Idle /\ ~refused => source = Detached

(* The supervisor waits for a child that runs. *)
Child == mtx = "up" <=> sup = "wait"

(* What an operation holds is what the applied slot says, or will say. *)
Lock ==
  /\ applied.active => applied.profile # None
  /\ op.kind = "restore" => restore = "loop" /\ op.config = applied.profile
  /\ op.kind = "start" /\ op.pc = "load" => op.config = applied.profile
  /\ op.kind = "start" /\ op.pc \in {"save", "load"}
       => target = PtzOf(op.config)

Base == TypeOK /\ Flag /\ Child /\ Lock

Served ==
  mtx = "up" /\ source = applied.profile /\ target = PtzOf(applied.profile)
Pending == spawned > 0 \/ restore \in {"check", "loop"}
Answered == ~refused \/ sup = "popen"

(* A patched source is still there, or the child has exited since and its
   successor has not been asked for. *)
Fresh == Patched => (mtx = "up" /\ source = op.config) \/ sup = "sleep"

(* An active stream is served, or a restore is on its way, or is going to be
   spawned. *)
Owed ==
  applied.active /\ ~Patched /\ Answered => Served \/ Pending \/ sup = "sleep"

(* A restore thread does not leave a stream behind that needs it. *)
Left ==
  restore = "leave" /\ applied.active /\ ~Patched /\ Answered
    => Served \/ sup = "sleep"

(* The settings in memory, on disk and in the hands of a request, as far as no
   start has overwritten them. *)
Kept ==
  /\ saving.kind = "presets" /\ saving.value # presets => "presets" \in raced
  /\ saving.kind = "patrol" => saving.value = patrol
  /\ saving.kind # "presets" /\ ~(op.kind = "start" /\ op.pc = "load")
        /\ "presets" \notin raced => presets = applied.presets
  /\ saving.kind # "patrol" /\ "patrol" \notin raced
       => patrol = (applied.patrol = TRUE)
-----------------------------------------------------------------------------
LEMMA ChildStep ==
    ASSUME Child, [Next]_vars
    PROVE  Child'
BY DEF Child, Next, Requests, Operation, RestoreThread, Supervisor, Register,
   StreamingStart, StreamingStop, SavePreset, SetPatrol, ClearConfig, PatchOk,
   PatchFails, ConfigurePtz, SaveApplied, LoadPresets, StartupApply,
   RestoreCheck, RestoreAttempt, RestoreLeave, SupervisorPopen,
   SupervisorSpawns, MediaMTXExits, PollAsks, PollAnswers, SaveSetting,
   Restart,
   child, vars

LEMMA TypeStep ==
    ASSUME TypeOK, [Next]_vars
    PROVE  TypeOK'
<1>1. CASE \E c \in Cameras : Register(c)
  BY <1>1, StreamerAssumption DEF TypeOK, Presets, MaybeCamera, NoPresets,
     Idle, Detached, Register, child, threads, ptz, settings
<1>2. CASE StreamingStart
  BY <1>2, StreamerAssumption DEF TypeOK, Presets, MaybeCamera, NoPresets,
     Idle, Detached, StreamingStart, disk, child, threads, ptz, settings
<1>3. CASE StreamingStop
  <2>1. applied' \in [active : BOOLEAN, profile : MaybeCamera,
                      presets : Presets, patrol : BOOLEAN \cup {None}]
    BY <1>3 DEF TypeOK, StreamingStop
  <2> QED
    BY <1>3, <2>1 DEF TypeOK, Idle, StreamingStop, child, threads, ptz,
       settings
<1>4. CASE \E s \in Slots : SavePreset(s)
  BY <1>4, StreamerAssumption DEF TypeOK, Presets, MaybeCamera, NoPresets,
     Idle, Detached, SavePreset, disk, child, threads, ptz
<1>5. CASE \E b \in BOOLEAN : SetPatrol(b)
  BY <1>5, StreamerAssumption DEF TypeOK, Presets, MaybeCamera, NoPresets,
     Idle, Detached, SetPatrol, disk, child, threads, ptz
<1>6. CASE ClearConfig
  BY <1>6, StreamerAssumption DEF TypeOK, Presets, MaybeCamera, NoPresets,
     Idle, Detached, ClearConfig, disk, child, threads, settings
<1>7. CASE PatchOk
  BY <1>7, StreamerAssumption DEF TypeOK, Presets, MaybeCamera, NoPresets,
     Idle, Detached, PatchOk, AtPatch, Wanted, disk, threads, ptz, settings
<1>8. CASE PatchFails
  BY <1>8, StreamerAssumption DEF TypeOK, Presets, MaybeCamera, NoPresets,
     Idle, Detached, PatchFails, AtPatch, Wanted, Fault, disk, threads, ptz,
     settings
<1>9. CASE ConfigurePtz
  <2>1. target' \in PtzCameras \cup {None} /\ current' \in MaybeCamera
    BY <1>9 DEF TypeOK, MaybeCamera, ConfigurePtz, PtzOf
  <2>2. CASE op.kind = "start"
    BY <1>9, <2>1, <2>2 DEF TypeOK, Idle, ConfigurePtz, disk, child, settings
  <2>3. CASE op.kind = "restore"
    BY <1>9, <2>1, <2>3 DEF TypeOK, Idle, ConfigurePtz, disk, child, settings
  <2> QED BY <1>9, <2>2, <2>3 DEF ConfigurePtz
<1>10. CASE SaveApplied
  BY <1>10, StreamerAssumption DEF TypeOK, Presets, MaybeCamera, NoPresets,
     Idle, Detached, SaveApplied, child, threads, ptz, settings
<1>11. CASE LoadPresets
  <2>1. presets' \in Presets /\ op' = Idle
    BY <1>11 DEF TypeOK, Idle, LoadPresets
  <2>2. refused' \in BOOLEAN
    BY <1>11 DEF LoadPresets
  <2> QED
    BY <1>11, <2>1, <2>2 DEF TypeOK, LoadPresets, disk, child, threads, ptz
<1>12. CASE StartupApply
  BY <1>12, StreamerAssumption DEF TypeOK, Presets, MaybeCamera, NoPresets,
     Idle, Detached, StartupApply, disk, child, ptz, settings
<1>13. CASE RestoreCheck
  BY <1>13, StreamerAssumption DEF TypeOK, Presets, MaybeCamera, NoPresets,
     Idle, Detached, RestoreCheck, disk, child, ptz, settings
<1>14. CASE RestoreAttempt
  BY <1>14, StreamerAssumption DEF TypeOK, Presets, MaybeCamera, NoPresets,
     Idle, Detached, RestoreAttempt, disk, child, ptz, settings
<1>15. CASE RestoreLeave
  BY <1>15, StreamerAssumption DEF TypeOK, Presets, MaybeCamera, NoPresets,
     Idle, Detached, RestoreLeave, disk, child, ptz, settings
<1>16. CASE SupervisorPopen
  <2>1. refused' \in BOOLEAN
    BY <1>16 DEF SupervisorPopen
  <2>2. source' \in Cameras \cup {Detached} /\ mtx' = "up" /\ sup' = "wait"
    BY <1>16 DEF SupervisorPopen
  <2> QED
    BY <1>16, <2>1, <2>2 DEF TypeOK, SupervisorPopen, disk, threads, ptz,
       settings
<1>17. CASE SupervisorSpawns
  BY <1>17, StreamerAssumption DEF TypeOK, Presets, MaybeCamera, NoPresets,
     Idle, Detached, SupervisorSpawns, disk, ptz, settings
<1>18. CASE MediaMTXExits
  BY <1>18, StreamerAssumption DEF TypeOK, Presets, MaybeCamera, NoPresets,
     Idle, Detached, MediaMTXExits, Fault, disk, threads, ptz, settings
<1>19. CASE PollAsks
  BY <1>19, StreamerAssumption DEF TypeOK, Presets, MaybeCamera, NoPresets,
     Idle, Detached, PollAsks, IssueRequest, disk, child, threads, settings
<1>20. CASE PollAnswers
  BY <1>20, StreamerAssumption DEF TypeOK, Presets, MaybeCamera, NoPresets,
     Idle, Detached, PollAnswers, disk, child, threads, settings
<1>21. CASE SaveSetting
  BY <1>21, StreamerAssumption DEF TypeOK, Presets, MaybeCamera, NoPresets,
     Idle, Detached, SaveSetting, child, threads, ptz, settings
<1>22. CASE Restart
  <2>1. patrol' \in BOOLEAN /\ refused' \in BOOLEAN
    BY <1>22 DEF Restart
  <2>2. restarts' \in 0 .. MaxRestarts /\ faults' \in 0 .. MaxFaults
    BY <1>22, StreamerAssumption DEF TypeOK, Restart
  <2>3. presets' \in Presets
    BY <1>22 DEF TypeOK, Restart
  <2>4. spawned' \in Nat
    BY <1>22 DEF Restart
  <2> QED
    BY <1>22, <2>1, <2>2, <2>3, <2>4 DEF TypeOK, MaybeCamera, Idle, Restart,
       disk
<1>23. CASE UNCHANGED vars
  BY <1>23 DEF TypeOK, Presets, MaybeCamera, NoPresets, Idle, Detached, vars
<1> QED BY <1>1, <1>2, <1>3, <1>4, <1>5, <1>6, <1>7, <1>8, <1>9, <1>10,
   <1>11, <1>12, <1>13, <1>14, <1>15, <1>16, <1>17, <1>18, <1>19, <1>20,
   <1>21, <1>22, <1>23 DEF Next, Requests, Operation, RestoreThread,
   Supervisor

LEMMA FlagStep ==
    ASSUME TypeOK, Flag, [Next]_vars
    PROVE  Flag'
<1>1. CASE \E c \in Cameras : Register(c)
  BY <1>1, StreamerAssumption DEF TypeOK, Flag, Idle, Detached, Register,
     child, threads, ptz, settings
<1>2. CASE StreamingStart
  BY <1>2, StreamerAssumption DEF TypeOK, Flag, Idle, Detached,
     StreamingStart, disk, child, threads, ptz, settings
<1>3. CASE StreamingStop
  BY <1>3, StreamerAssumption DEF TypeOK, Flag, Idle, Detached,
     StreamingStop, child, threads, ptz, settings
<1>4. CASE \E s \in Slots : SavePreset(s)
  BY <1>4, StreamerAssumption DEF TypeOK, Flag, Idle, Detached, SavePreset,
     disk, child, threads, ptz
<1>5. CASE \E b \in BOOLEAN : SetPatrol(b)
  BY <1>5, StreamerAssumption DEF TypeOK, Flag, Idle, Detached, SetPatrol,
     disk, child, threads, ptz
<1>6. CASE ClearConfig
  BY <1>6, StreamerAssumption DEF TypeOK, Flag, Idle, Detached, ClearConfig,
     disk, child, threads, settings
<1>7. CASE PatchOk
  BY <1>7, StreamerAssumption DEF TypeOK, Flag, Idle, Detached, PatchOk,
     AtPatch, Wanted, disk, threads, ptz, settings
<1>8. CASE PatchFails
  BY <1>8, StreamerAssumption DEF TypeOK, Flag, Idle, Detached, PatchFails,
     AtPatch, Wanted, Fault, disk, threads, ptz, settings
<1>9. CASE ConfigurePtz
  BY <1>9, StreamerAssumption DEF TypeOK, Flag, Idle, Detached,
     ConfigurePtz, disk, child, settings
<1>10. CASE SaveApplied
  BY <1>10, StreamerAssumption DEF TypeOK, Flag, Idle, Detached,
     SaveApplied, child, threads, ptz, settings
<1>11. CASE LoadPresets
  BY <1>11, StreamerAssumption DEF TypeOK, Flag, Idle, Detached,
     LoadPresets, disk, child, threads, ptz
<1>12. CASE StartupApply
  BY <1>12, StreamerAssumption DEF TypeOK, Flag, Idle, Detached,
     StartupApply, disk, child, ptz, settings
<1>13. CASE RestoreCheck
  BY <1>13, StreamerAssumption DEF TypeOK, Flag, Idle, Detached,
     RestoreCheck, disk, child, ptz, settings
<1>14. CASE RestoreAttempt
  BY <1>14, StreamerAssumption DEF TypeOK, Flag, Idle, Detached,
     RestoreAttempt, disk, child, ptz, settings
<1>15. CASE RestoreLeave
  BY <1>15, StreamerAssumption DEF TypeOK, Flag, Idle, Detached,
     RestoreLeave, disk, child, ptz, settings
<1>16. CASE SupervisorPopen
  BY <1>16, StreamerAssumption DEF TypeOK, Flag, Idle, Detached,
     SupervisorPopen, disk, threads, ptz, settings
<1>17. CASE SupervisorSpawns
  BY <1>17, StreamerAssumption DEF TypeOK, Flag, Idle, Detached,
     SupervisorSpawns, disk, ptz, settings
<1>18. CASE MediaMTXExits
  BY <1>18, StreamerAssumption DEF TypeOK, Flag, Idle, Detached,
     MediaMTXExits, Fault, disk, threads, ptz, settings
<1>19. CASE PollAsks
  BY <1>19, StreamerAssumption DEF TypeOK, Flag, Idle, Detached, PollAsks,
     IssueRequest, disk, child, threads, settings
<1>20. CASE PollAnswers
  BY <1>20, StreamerAssumption DEF TypeOK, Flag, Idle, Detached,
     PollAnswers, disk, child, threads, settings
<1>21. CASE SaveSetting
  BY <1>21, StreamerAssumption DEF TypeOK, Flag, Idle, Detached,
     SaveSetting, child, threads, ptz, settings
<1>22. CASE Restart
  BY <1>22, StreamerAssumption DEF TypeOK, Flag, Idle, Detached, Restart,
     disk
<1>23. CASE UNCHANGED vars
  BY <1>23 DEF TypeOK, Flag, Idle, Detached, vars
<1> QED BY <1>1, <1>2, <1>3, <1>4, <1>5, <1>6, <1>7, <1>8, <1>9, <1>10,
   <1>11, <1>12, <1>13, <1>14, <1>15, <1>16, <1>17, <1>18, <1>19, <1>20,
   <1>21, <1>22, <1>23 DEF Next, Requests, Operation, RestoreThread,
   Supervisor

LEMMA LockStep ==
    ASSUME TypeOK, Flag, Lock, [Next]_vars
    PROVE  Lock'
<1>1. CASE \E c \in Cameras : Register(c)
  BY <1>1, StreamerAssumption DEF TypeOK, Lock, Flag, Idle, PtzOf, Register,
     child, threads, ptz, settings
<1>2. CASE StreamingStart
  BY <1>2, StreamerAssumption DEF TypeOK, Lock, Flag, Idle, PtzOf,
     StreamingStart, disk, child, threads, ptz, settings
<1>3. CASE StreamingStop
  BY <1>3, StreamerAssumption DEF TypeOK, Lock, Flag, Idle, PtzOf,
     StreamingStop, child, threads, ptz, settings
<1>4. CASE \E s \in Slots : SavePreset(s)
  BY <1>4, StreamerAssumption DEF TypeOK, Lock, Flag, Idle, PtzOf,
     SavePreset, disk, child, threads, ptz
<1>5. CASE \E b \in BOOLEAN : SetPatrol(b)
  BY <1>5, StreamerAssumption DEF TypeOK, Lock, Flag, Idle, PtzOf,
     SetPatrol, disk, child, threads, ptz
<1>6. CASE ClearConfig
  BY <1>6, StreamerAssumption DEF TypeOK, Lock, Flag, Idle, PtzOf,
     ClearConfig, disk, child, threads, settings
<1>7. CASE PatchOk
  BY <1>7, StreamerAssumption DEF TypeOK, Lock, Flag, Idle, PtzOf, PatchOk,
     AtPatch, Wanted, disk, threads, ptz, settings
<1>8. CASE PatchFails
  BY <1>8, StreamerAssumption DEF TypeOK, Lock, Flag, Idle, PtzOf,
     PatchFails, AtPatch, Wanted, Fault, disk, threads, ptz, settings
<1>9. CASE ConfigurePtz
  BY <1>9, StreamerAssumption DEF TypeOK, Lock, Flag, Idle, PtzOf,
     ConfigurePtz, disk, child, settings
<1>10. CASE SaveApplied
  BY <1>10, StreamerAssumption DEF TypeOK, Lock, Flag, Idle, PtzOf,
     SaveApplied, child, threads, ptz, settings
<1>11. CASE LoadPresets
  BY <1>11, StreamerAssumption DEF TypeOK, Lock, Flag, Idle, PtzOf,
     LoadPresets, disk, child, threads, ptz
<1>12. CASE StartupApply
  BY <1>12, StreamerAssumption DEF TypeOK, Lock, Flag, Idle, PtzOf,
     StartupApply, disk, child, ptz, settings
<1>13. CASE RestoreCheck
  BY <1>13, StreamerAssumption DEF TypeOK, Lock, Flag, Idle, PtzOf,
     RestoreCheck, disk, child, ptz, settings
<1>14. CASE RestoreAttempt
  BY <1>14, StreamerAssumption DEF TypeOK, Lock, Flag, Idle, PtzOf,
     RestoreAttempt, disk, child, ptz, settings
<1>15. CASE RestoreLeave
  BY <1>15, StreamerAssumption DEF TypeOK, Lock, Flag, Idle, PtzOf,
     RestoreLeave, disk, child, ptz, settings
<1>16. CASE SupervisorPopen
  BY <1>16, StreamerAssumption DEF TypeOK, Lock, Flag, Idle, PtzOf,
     SupervisorPopen, disk, threads, ptz, settings
<1>17. CASE SupervisorSpawns
  BY <1>17, StreamerAssumption DEF TypeOK, Lock, Flag, Idle, PtzOf,
     SupervisorSpawns, disk, ptz, settings
<1>18. CASE MediaMTXExits
  BY <1>18, StreamerAssumption DEF TypeOK, Lock, Flag, Idle, PtzOf,
     MediaMTXExits, Fault, disk, threads, ptz, settings
<1>19. CASE PollAsks
  BY <1>19, StreamerAssumption DEF TypeOK, Lock, Flag, Idle, PtzOf,
     PollAsks, IssueRequest, disk, child, threads, settings
<1>20. CASE PollAnswers
  BY <1>20, StreamerAssumption DEF TypeOK, Lock, Flag, Idle, PtzOf,
     PollAnswers, disk, child, threads, settings
<1>21. CASE SaveSetting
  BY <1>21, StreamerAssumption DEF TypeOK, Lock, Flag, Idle, PtzOf,
     SaveSetting, child, threads, ptz, settings
<1>22. CASE Restart
  BY <1>22, StreamerAssumption DEF TypeOK, Lock, Flag, Idle, PtzOf, Restart,
     disk
<1>23. CASE UNCHANGED vars
  BY <1>23 DEF TypeOK, Lock, Flag, Idle, PtzOf, vars
<1> QED BY <1>1, <1>2, <1>3, <1>4, <1>5, <1>6, <1>7, <1>8, <1>9, <1>10,
   <1>11, <1>12, <1>13, <1>14, <1>15, <1>16, <1>17, <1>18, <1>19, <1>20,
   <1>21, <1>22, <1>23 DEF Next, Requests, Operation, RestoreThread,
   Supervisor

LEMMA FreshStep ==
    ASSUME ~Stalls, Base, Fresh, [Next]_vars
    PROVE  Fresh'
<1>1. CASE \E c \in Cameras : Register(c)
  BY <1>1, StreamerAssumption DEF Base, TypeOK, Lock, Child, Fresh, Patched,
     Idle, Detached, Settling, Register, child, threads, ptz, settings
<1>2. CASE StreamingStart
  BY <1>2, StreamerAssumption DEF Base, TypeOK, Lock, Child, Fresh, Patched,
     Idle, Detached, Settling, StreamingStart, disk, child, threads, ptz,
     settings
<1>3. CASE StreamingStop
  BY <1>3, StreamerAssumption DEF Base, TypeOK, Lock, Child, Fresh, Patched,
     Idle, Detached, Settling, StreamingStop, child, threads, ptz, settings
<1>4. CASE \E s \in Slots : SavePreset(s)
  BY <1>4, StreamerAssumption DEF Base, TypeOK, Lock, Child, Fresh, Patched,
     Idle, Detached, Settling, SavePreset, disk, child, threads,
     ptz
<1>5. CASE \E b \in BOOLEAN : SetPatrol(b)
  BY <1>5, StreamerAssumption DEF Base, TypeOK, Lock, Child, Fresh, Patched,
     Idle, Detached, Settling, SetPatrol, disk, child, threads,
     ptz
<1>6. CASE ClearConfig
  BY <1>6, StreamerAssumption DEF Base, TypeOK, Lock, Child, Fresh, Patched,
     Idle, Detached, Settling, ClearConfig, disk, child, threads, settings
<1>7. CASE PatchOk
  BY <1>7, StreamerAssumption DEF Base, TypeOK, Lock, Child, Fresh, Patched,
     Idle, Detached, Settling, PatchOk, AtPatch, Wanted, disk, threads, ptz,
     settings
<1>8. CASE PatchFails
  BY <1>8, StreamerAssumption DEF Base, TypeOK, Lock, Child, Fresh, Patched,
     Idle, Detached, Settling, PatchFails, AtPatch, Wanted, Fault, disk,
     threads, ptz, settings
<1>9. CASE ConfigurePtz
  BY <1>9, StreamerAssumption DEF Base, TypeOK, Lock, Child, Fresh, Patched,
     Idle, Detached, Settling, ConfigurePtz, disk, child, settings
<1>10. CASE SaveApplied
  BY <1>10, StreamerAssumption DEF Base, TypeOK, Lock, Child, Fresh,
     Patched, Idle, Detached, Settling, SaveApplied, child, threads, ptz,
     settings
<1>11. CASE LoadPresets
  BY <1>11, StreamerAssumption DEF Base, TypeOK, Lock, Child, Fresh,
     Patched, Idle, Detached, Settling, LoadPresets, disk, child, threads,
     ptz
<1>12. CASE StartupApply
  BY <1>12, StreamerAssumption DEF Base, TypeOK, Lock, Child, Fresh,
     Patched, Idle, Detached, Settling, StartupApply, disk, child, ptz,
     settings
<1>13. CASE RestoreCheck
  BY <1>13, StreamerAssumption DEF Base, TypeOK, Lock, Child, Fresh,
     Patched, Idle, Detached, Settling, RestoreCheck, disk, child, ptz,
     settings
<1>14. CASE RestoreAttempt
  BY <1>14, StreamerAssumption DEF Base, TypeOK, Lock, Child, Fresh,
     Patched, Idle, Detached, Settling, RestoreAttempt, disk, child, ptz,
     settings
<1>15. CASE RestoreLeave
  BY <1>15, StreamerAssumption DEF Base, TypeOK, Lock, Child, Fresh,
     Patched, Idle, Detached, Settling, RestoreLeave, disk, child, ptz,
     settings
<1>16. CASE SupervisorPopen
  BY <1>16, StreamerAssumption DEF Base, TypeOK, Lock, Child, Fresh,
     Patched, Idle, Detached, Settling, SupervisorPopen, disk, threads, ptz,
     settings
<1>17. CASE SupervisorSpawns
  BY <1>17, StreamerAssumption DEF Base, TypeOK, Lock, Child, Fresh,
     Patched, Idle, Detached, Settling, SupervisorSpawns, disk, ptz,
     settings
<1>18. CASE MediaMTXExits
  BY <1>18, StreamerAssumption DEF Base, TypeOK, Lock, Child, Fresh,
     Patched, Idle, Detached, Settling, MediaMTXExits, Fault, disk, threads,
     ptz, settings
<1>19. CASE PollAsks
  BY <1>19, StreamerAssumption DEF Base, TypeOK, Lock, Child, Fresh,
     Patched, Idle, Detached, Settling, PollAsks, IssueRequest, disk, child,
     threads, settings
<1>20. CASE PollAnswers
  BY <1>20, StreamerAssumption DEF Base, TypeOK, Lock, Child, Fresh,
     Patched, Idle, Detached, Settling, PollAnswers, disk, child, threads,
     settings
<1>21. CASE SaveSetting
  BY <1>21, StreamerAssumption DEF Base, TypeOK, Lock, Child, Fresh,
     Patched, Idle, Detached, Settling, SaveSetting, child, threads, ptz,
     settings
<1>22. CASE Restart
  BY <1>22, StreamerAssumption DEF Base, TypeOK, Lock, Child, Fresh,
     Patched, Idle, Detached, Settling, Restart, disk
<1>23. CASE UNCHANGED vars
  BY <1>23 DEF Base, TypeOK, Lock, Child, Fresh, Patched, Idle, Detached,
     Settling, vars
<1> QED BY <1>1, <1>2, <1>3, <1>4, <1>5, <1>6, <1>7, <1>8, <1>9, <1>10,
   <1>11, <1>12, <1>13, <1>14, <1>15, <1>16, <1>17, <1>18, <1>19, <1>20,
   <1>21, <1>22, <1>23 DEF Next, Requests, Operation, RestoreThread,
   Supervisor

LEMMA OwedStep ==
    ASSUME ~Stalls, Base, Fresh, Owed, Left, [Next]_vars
    PROVE  Owed'
<1>1. CASE \E c \in Cameras : Register(c)
  BY <1>1, StreamerAssumption DEF Base, TypeOK, Lock, Flag, Child, Fresh,
     Owed, Left, Served, Pending, Answered, Patched, Idle, Settling, PtzOf,
     Register, child, threads, ptz, settings
<1>2. CASE StreamingStart
  BY <1>2, StreamerAssumption DEF Base, TypeOK, Lock, Flag, Child, Fresh,
     Owed, Left, Served, Pending, Answered, Patched, Idle, Settling, PtzOf,
     StreamingStart, disk, child, threads, ptz, settings
<1>3. CASE StreamingStop
  BY <1>3, StreamerAssumption DEF Base, TypeOK, Lock, Flag, Child, Fresh,
     Owed, Left, Served, Pending, Answered, Patched, Idle, Settling, PtzOf,
     StreamingStop, child, threads, ptz, settings
<1>4. CASE \E s \in Slots : SavePreset(s)
  BY <1>4, StreamerAssumption DEF Base, TypeOK, Lock, Flag, Child, Fresh,
     Owed, Left, Served, Pending, Answered, Patched, Idle, Settling, PtzOf,
     SavePreset, disk, child, threads, ptz
<1>5. CASE \E b \in BOOLEAN : SetPatrol(b)
  BY <1>5, StreamerAssumption DEF Base, TypeOK, Lock, Flag, Child, Fresh,
     Owed, Left, Served, Pending, Answered, Patched, Idle, Settling, PtzOf,
     SetPatrol, disk, child, threads, ptz
<1>6. CASE ClearConfig
  BY <1>6, StreamerAssumption DEF Base, TypeOK, Lock, Flag, Child, Fresh,
     Owed, Left, Served, Pending, Answered, Patched, Idle, Settling, PtzOf,
     ClearConfig, disk, child, threads, settings
<1>7. CASE PatchOk
  BY <1>7, StreamerAssumption DEF Base, TypeOK, Lock, Flag, Child, Fresh,
     Owed, Left, Served, Pending, Answered, Patched, Idle, Settling, PtzOf,
     PatchOk, AtPatch, Wanted, disk, threads, ptz, settings
<1>8. CASE PatchFails
  BY <1>8, StreamerAssumption DEF Base, TypeOK, Lock, Flag, Child, Fresh,
     Owed, Left, Served, Pending, Answered, Patched, Idle, Settling, PtzOf,
     PatchFails, AtPatch, Wanted, Fault, disk, threads, ptz, settings
<1>9. CASE ConfigurePtz
  BY <1>9, StreamerAssumption DEF Base, TypeOK, Lock, Flag, Child, Fresh,
     Owed, Left, Served, Pending, Answered, Patched, Idle, Settling, PtzOf,
     ConfigurePtz, disk, child, settings
<1>10. CASE SaveApplied
  BY <1>10, StreamerAssumption DEF Base, TypeOK, Lock, Flag, Child, Fresh,
     Owed, Left, Served, Pending, Answered, Patched, Idle, Settling, PtzOf,
     SaveApplied, child, threads, ptz, settings
<1>11. CASE LoadPresets
  BY <1>11, StreamerAssumption DEF Base, TypeOK, Lock, Flag, Child, Fresh,
     Owed, Left, Served, Pending, Answered, Patched, Idle, Settling, PtzOf,
     LoadPresets, disk, child, threads, ptz
<1>12. CASE StartupApply
  BY <1>12, StreamerAssumption DEF Base, TypeOK, Lock, Flag, Child, Fresh,
     Owed, Left, Served, Pending, Answered, Patched, Idle, Settling, PtzOf,
     StartupApply, disk, child, ptz, settings
<1>13. CASE RestoreCheck
  BY <1>13, StreamerAssumption DEF Base, TypeOK, Lock, Flag, Child, Fresh,
     Owed, Left, Served, Pending, Answered, Patched, Idle, Settling, PtzOf,
     RestoreCheck, disk, child, ptz, settings
<1>14. CASE RestoreAttempt
  BY <1>14, StreamerAssumption DEF Base, TypeOK, Lock, Flag, Child, Fresh,
     Owed, Left, Served, Pending, Answered, Patched, Idle, Settling, PtzOf,
     RestoreAttempt, disk, child, ptz, settings
<1>15. CASE RestoreLeave
  BY <1>15, StreamerAssumption DEF Base, TypeOK, Lock, Flag, Child, Fresh,
     Owed, Left, Served, Pending, Answered, Patched, Idle, Settling, PtzOf,
     RestoreLeave, disk, child, ptz, settings
<1>16. CASE SupervisorPopen
  BY <1>16, StreamerAssumption DEF Base, TypeOK, Lock, Flag, Child, Fresh,
     Owed, Left, Served, Pending, Answered, Patched, Idle, Settling, PtzOf,
     SupervisorPopen, disk, threads, ptz, settings
<1>17. CASE SupervisorSpawns
  BY <1>17, StreamerAssumption DEF Base, TypeOK, Lock, Flag, Child, Fresh,
     Owed, Left, Served, Pending, Answered, Patched, Idle, Settling, PtzOf,
     SupervisorSpawns, disk, ptz, settings
<1>18. CASE MediaMTXExits
  BY <1>18, StreamerAssumption DEF Base, TypeOK, Lock, Flag, Child, Fresh,
     Owed, Left, Served, Pending, Answered, Patched, Idle, Settling, PtzOf,
     MediaMTXExits, Fault, disk, threads, ptz, settings
<1>19. CASE PollAsks
  BY <1>19, StreamerAssumption DEF Base, TypeOK, Lock, Flag, Child, Fresh,
     Owed, Left, Served, Pending, Answered, Patched, Idle, Settling, PtzOf,
     PollAsks, IssueRequest, disk, child, threads, settings
<1>20. CASE PollAnswers
  BY <1>20, StreamerAssumption DEF Base, TypeOK, Lock, Flag, Child, Fresh,
     Owed, Left, Served, Pending, Answered, Patched, Idle, Settling, PtzOf,
     PollAnswers, disk, child, threads, settings
<1>21. CASE SaveSetting
  BY <1>21, StreamerAssumption DEF Base, TypeOK, Lock, Flag, Child, Fresh,
     Owed, Left, Served, Pending, Answered, Patched, Idle, Settling, PtzOf,
     SaveSetting, child, threads, ptz, settings
<1>22. CASE Restart
  BY <1>22, StreamerAssumption DEF Base, TypeOK, Lock, Flag, Child, Fresh,
     Owed, Left, Served, Pending, Answered, Patched, Idle, Settling, PtzOf,
     Restart, disk
<1>23. CASE UNCHANGED vars
  BY <1>23 DEF Base, TypeOK, Lock, Flag, Child, Fresh, Owed, Left, Served,
     Pending, Answered, Patched, Idle, Settling, PtzOf, vars
<1> QED BY <1>1, <1>2, <1>3, <1>4, <1>5, <1>6, <1>7, <1>8, <1>9, <1>10,
   <1>11, <1>12, <1>13, <1>14, <1>15, <1>16, <1>17, <1>18, <1>19, <1>20,
   <1>21, <1>22, <1>23 DEF Next, Requests, Operation, RestoreThread,
   Supervisor

LEMMA LeftStep ==
    ASSUME ~Stalls, Base, Fresh, Owed, Left, [Next]_vars
    PROVE  Left'
<1>1. CASE \E c \in Cameras : Register(c)
  BY <1>1, StreamerAssumption DEF Base, TypeOK, Lock, Flag, Child, Fresh,
     Owed, Left, Served, Pending, Answered, Patched, Idle, Settling, PtzOf,
     Register, child, threads, ptz, settings
<1>2. CASE StreamingStart
  BY <1>2, StreamerAssumption DEF Base, TypeOK, Lock, Flag, Child, Fresh,
     Owed, Left, Served, Pending, Answered, Patched, Idle, Settling, PtzOf,
     StreamingStart, disk, child, threads, ptz, settings
<1>3. CASE StreamingStop
  BY <1>3, StreamerAssumption DEF Base, TypeOK, Lock, Flag, Child, Fresh,
     Owed, Left, Served, Pending, Answered, Patched, Idle, Settling, PtzOf,
     StreamingStop, child, threads, ptz, settings
<1>4. CASE \E s \in Slots : SavePreset(s)
  BY <1>4, StreamerAssumption DEF Base, TypeOK, Lock, Flag, Child, Fresh,
     Owed, Left, Served, Pending, Answered, Patched, Idle, Settling, PtzOf,
     SavePreset, disk, child, threads, ptz
<1>5. CASE \E b \in BOOLEAN : SetPatrol(b)
  BY <1>5, StreamerAssumption DEF Base, TypeOK, Lock, Flag, Child, Fresh,
     Owed, Left, Served, Pending, Answered, Patched, Idle, Settling, PtzOf,
     SetPatrol, disk, child, threads, ptz
<1>6. CASE ClearConfig
  BY <1>6, StreamerAssumption DEF Base, TypeOK, Lock, Flag, Child, Fresh,
     Owed, Left, Served, Pending, Answered, Patched, Idle, Settling, PtzOf,
     ClearConfig, disk, child, threads, settings
<1>7. CASE PatchOk
  BY <1>7, StreamerAssumption DEF Base, TypeOK, Lock, Flag, Child, Fresh,
     Owed, Left, Served, Pending, Answered, Patched, Idle, Settling, PtzOf,
     PatchOk, AtPatch, Wanted, disk, threads, ptz, settings
<1>8. CASE PatchFails
  BY <1>8, StreamerAssumption DEF Base, TypeOK, Lock, Flag, Child, Fresh,
     Owed, Left, Served, Pending, Answered, Patched, Idle, Settling, PtzOf,
     PatchFails, AtPatch, Wanted, Fault, disk, threads, ptz, settings
<1>9. CASE ConfigurePtz
  BY <1>9, StreamerAssumption DEF Base, TypeOK, Lock, Flag, Child, Fresh,
     Owed, Left, Served, Pending, Answered, Patched, Idle, Settling, PtzOf,
     ConfigurePtz, disk, child, settings
<1>10. CASE SaveApplied
  BY <1>10, StreamerAssumption DEF Base, TypeOK, Lock, Flag, Child, Fresh,
     Owed, Left, Served, Pending, Answered, Patched, Idle, Settling, PtzOf,
     SaveApplied, child, threads, ptz, settings
<1>11. CASE LoadPresets
  BY <1>11, StreamerAssumption DEF Base, TypeOK, Lock, Flag, Child, Fresh,
     Owed, Left, Served, Pending, Answered, Patched, Idle, Settling, PtzOf,
     LoadPresets, disk, child, threads, ptz
<1>12. CASE StartupApply
  BY <1>12, StreamerAssumption DEF Base, TypeOK, Lock, Flag, Child, Fresh,
     Owed, Left, Served, Pending, Answered, Patched, Idle, Settling, PtzOf,
     StartupApply, disk, child, ptz, settings
<1>13. CASE RestoreCheck
  BY <1>13, StreamerAssumption DEF Base, TypeOK, Lock, Flag, Child, Fresh,
     Owed, Left, Served, Pending, Answered, Patched, Idle, Settling, PtzOf,
     RestoreCheck, disk, child, ptz, settings
<1>14. CASE RestoreAttempt
  BY <1>14, StreamerAssumption DEF Base, TypeOK, Lock, Flag, Child, Fresh,
     Owed, Left, Served, Pending, Answered, Patched, Idle, Settling, PtzOf,
     RestoreAttempt, disk, child, ptz, settings
<1>15. CASE RestoreLeave
  BY <1>15, StreamerAssumption DEF Base, TypeOK, Lock, Flag, Child, Fresh,
     Owed, Left, Served, Pending, Answered, Patched, Idle, Settling, PtzOf,
     RestoreLeave, disk, child, ptz, settings
<1>16. CASE SupervisorPopen
  BY <1>16, StreamerAssumption DEF Base, TypeOK, Lock, Flag, Child, Fresh,
     Owed, Left, Served, Pending, Answered, Patched, Idle, Settling, PtzOf,
     SupervisorPopen, disk, threads, ptz, settings
<1>17. CASE SupervisorSpawns
  BY <1>17, StreamerAssumption DEF Base, TypeOK, Lock, Flag, Child, Fresh,
     Owed, Left, Served, Pending, Answered, Patched, Idle, Settling, PtzOf,
     SupervisorSpawns, disk, ptz, settings
<1>18. CASE MediaMTXExits
  BY <1>18, StreamerAssumption DEF Base, TypeOK, Lock, Flag, Child, Fresh,
     Owed, Left, Served, Pending, Answered, Patched, Idle, Settling, PtzOf,
     MediaMTXExits, Fault, disk, threads, ptz, settings
<1>19. CASE PollAsks
  BY <1>19, StreamerAssumption DEF Base, TypeOK, Lock, Flag, Child, Fresh,
     Owed, Left, Served, Pending, Answered, Patched, Idle, Settling, PtzOf,
     PollAsks, IssueRequest, disk, child, threads, settings
<1>20. CASE PollAnswers
  BY <1>20, StreamerAssumption DEF Base, TypeOK, Lock, Flag, Child, Fresh,
     Owed, Left, Served, Pending, Answered, Patched, Idle, Settling, PtzOf,
     PollAnswers, disk, child, threads, settings
<1>21. CASE SaveSetting
  BY <1>21, StreamerAssumption DEF Base, TypeOK, Lock, Flag, Child, Fresh,
     Owed, Left, Served, Pending, Answered, Patched, Idle, Settling, PtzOf,
     SaveSetting, child, threads, ptz, settings
<1>22. CASE Restart
  BY <1>22, StreamerAssumption DEF Base, TypeOK, Lock, Flag, Child, Fresh,
     Owed, Left, Served, Pending, Answered, Patched, Idle, Settling, PtzOf,
     Restart, disk
<1>23. CASE UNCHANGED vars
  BY <1>23 DEF Base, TypeOK, Lock, Flag, Child, Fresh, Owed, Left, Served,
     Pending, Answered, Patched, Idle, Settling, PtzOf, vars
<1> QED BY <1>1, <1>2, <1>3, <1>4, <1>5, <1>6, <1>7, <1>8, <1>9, <1>10,
   <1>11, <1>12, <1>13, <1>14, <1>15, <1>16, <1>17, <1>18, <1>19, <1>20,
   <1>21, <1>22, <1>23 DEF Next, Requests, Operation, RestoreThread,
   Supervisor

LEMMA KeptStep ==
    ASSUME TypeOK, Kept, [Next]_vars
    PROVE  Kept'
<1>1. CASE \E c \in Cameras : Register(c)
  BY <1>1, StreamerAssumption DEF TypeOK, Kept, Idle, Presets, MaybeCamera,
     NoPresets, Register, child, threads, ptz, settings
<1>2. CASE StreamingStart
  BY <1>2, StreamerAssumption DEF TypeOK, Kept, Idle, Presets, MaybeCamera,
     NoPresets, StreamingStart, disk, child, threads, ptz, settings
<1>3. CASE StreamingStop
  BY <1>3, StreamerAssumption DEF TypeOK, Kept, Idle, Presets, MaybeCamera,
     NoPresets, StreamingStop, child, threads, ptz, settings
<1>4. CASE \E s \in Slots : SavePreset(s)
  BY <1>4, StreamerAssumption DEF TypeOK, Kept, Idle, Presets, MaybeCamera,
     NoPresets, SavePreset, disk, child, threads, ptz
<1>5. CASE \E b \in BOOLEAN : SetPatrol(b)
  BY <1>5, StreamerAssumption DEF TypeOK, Kept, Idle, Presets, MaybeCamera,
     NoPresets, SetPatrol, disk, child, threads, ptz
<1>6. CASE ClearConfig
  BY <1>6, StreamerAssumption DEF TypeOK, Kept, Idle, Presets, MaybeCamera,
     NoPresets, ClearConfig, disk, child, threads, settings
<1>7. CASE PatchOk
  BY <1>7, StreamerAssumption DEF TypeOK, Kept, Idle, Presets, MaybeCamera,
     NoPresets, PatchOk, AtPatch, Wanted, disk, threads, ptz, settings
<1>8. CASE PatchFails
  BY <1>8, StreamerAssumption DEF TypeOK, Kept, Idle, Presets, MaybeCamera,
     NoPresets, PatchFails, AtPatch, Wanted, Fault, disk, threads, ptz,
     settings
<1>9. CASE ConfigurePtz
  BY <1>9, StreamerAssumption DEF TypeOK, Kept, Idle, Presets, MaybeCamera,
     NoPresets, ConfigurePtz, disk, child, settings
<1>10. CASE SaveApplied
  <2>1. /\ saving' = saving /\ presets' = presets /\ patrol' = patrol
        /\ raced' = IF op.patrol \in {None, applied.patrol} THEN raced
                                                           ELSE raced \cup {"patrol"}
        /\ op'.kind = "start" /\ op'.pc = "load"
        /\ applied'.patrol = IF op.patrol = None THEN patrol ELSE op.patrol
    BY <1>10 DEF TypeOK, SaveApplied, settings, Idle
  <2>2. (patrol = TRUE) = patrol
    BY DEF TypeOK
  <2>3. saving.kind # "patrol" /\ "patrol" \notin raced'
          => patrol = (applied'.patrol = TRUE)
    <3>1. CASE op.patrol = None
      BY <2>1, <2>2, <3>1
    <3>2. CASE op.patrol # None
      BY <2>1, <3>2 DEF Kept
    <3> QED BY <3>1, <3>2
  <2> QED
    BY <2>1, <2>3 DEF Kept
<1>11. CASE LoadPresets
  BY <1>11, StreamerAssumption DEF TypeOK, Kept, Idle, Presets, MaybeCamera,
     NoPresets, LoadPresets, disk, child, threads, ptz
<1>12. CASE StartupApply
  BY <1>12, StreamerAssumption DEF TypeOK, Kept, Idle, Presets, MaybeCamera,
     NoPresets, StartupApply, disk, child, ptz, settings
<1>13. CASE RestoreCheck
  BY <1>13, StreamerAssumption DEF TypeOK, Kept, Idle, Presets, MaybeCamera,
     NoPresets, RestoreCheck, disk, child, ptz, settings
<1>14. CASE RestoreAttempt
  BY <1>14, StreamerAssumption DEF TypeOK, Kept, Idle, Presets, MaybeCamera,
     NoPresets, RestoreAttempt, disk, child, ptz, settings
<1>15. CASE RestoreLeave
  BY <1>15, StreamerAssumption DEF TypeOK, Kept, Idle, Presets, MaybeCamera,
     NoPresets, RestoreLeave, disk, child, ptz, settings
<1>16. CASE SupervisorPopen
  BY <1>16, StreamerAssumption DEF TypeOK, Kept, Idle, Presets, MaybeCamera,
     NoPresets, SupervisorPopen, disk, threads, ptz, settings
<1>17. CASE SupervisorSpawns
  BY <1>17, StreamerAssumption DEF TypeOK, Kept, Idle, Presets, MaybeCamera,
     NoPresets, SupervisorSpawns, disk, ptz, settings
<1>18. CASE MediaMTXExits
  BY <1>18, StreamerAssumption DEF TypeOK, Kept, Idle, Presets, MaybeCamera,
     NoPresets, MediaMTXExits, Fault, disk, threads, ptz, settings
<1>19. CASE PollAsks
  BY <1>19, StreamerAssumption DEF TypeOK, Kept, Idle, Presets, MaybeCamera,
     NoPresets, PollAsks, IssueRequest, disk, child, threads, settings
<1>20. CASE PollAnswers
  BY <1>20, StreamerAssumption DEF TypeOK, Kept, Idle, Presets, MaybeCamera,
     NoPresets, PollAnswers, disk, child, threads, settings
<1>21. CASE SaveSetting
  BY <1>21, StreamerAssumption DEF TypeOK, Kept, Idle, Presets, MaybeCamera,
     NoPresets, SaveSetting, child, threads, ptz, settings
<1>22. CASE Restart
  BY <1>22, StreamerAssumption DEF TypeOK, Kept, Idle, Presets, MaybeCamera,
     NoPresets, Restart, disk
<1>23. CASE UNCHANGED vars
  BY <1>23 DEF TypeOK, Kept, Idle, Presets, MaybeCamera, NoPresets, vars
<1> QED BY <1>1, <1>2, <1>3, <1>4, <1>5, <1>6, <1>7, <1>8, <1>9, <1>10,
   <1>11, <1>12, <1>13, <1>14, <1>15, <1>16, <1>17, <1>18, <1>19, <1>20,
   <1>21, <1>22, <1>23 DEF Next, Requests, Operation, RestoreThread,
   Supervisor
-----------------------------------------------------------------------------
LEMMA InitBase == Init => Base
<1> SUFFICES ASSUME Init PROVE Base
  OBVIOUS
<1>1. /\ faults \in 0 .. MaxFaults /\ restarts \in 0 .. MaxRestarts
      /\ spawned \in Nat
  BY StreamerAssumption DEF Init
<1>2. patrol \in BOOLEAN /\ refused \in BOOLEAN
  BY DEF Init
<1>3. applied \in [active : BOOLEAN, profile : MaybeCamera,
                   presets : Presets, patrol : BOOLEAN \cup {None}]
  BY DEF Init, MaybeCamera, Presets, NoPresets
<1>4. TypeOK
  BY <1>1, <1>2, <1>3 DEF Init, TypeOK, MaybeCamera, Presets, NoPresets
<1>5. Flag /\ Child /\ Lock
  BY DEF Init, Flag, Child, Lock, Idle
<1> QED BY <1>4, <1>5 DEF Base

LEMMA SpecBase == Spec => []Base
<1>1. Base /\ [Next]_vars => Base'
  BY TypeStep, FlagStep, ChildStep, LockStep DEF Base
<1> QED BY <1>1, InitBase, PTL DEF Spec

(***************************************************************************)
(* Every behaviour of the streamer is well-typed.                          *)
(***************************************************************************)
THEOREM TypeCorrect == Spec => []TypeOK
<1>1. Base => TypeOK
  BY DEF Base
<1> QED BY <1>1, SpecBase, PTL

(***************************************************************************)
(* After a stop that was answered 200 neither a restore that is still      *)
(* retrying nor a restart of MediaMTX or of the streamer attaches the      *)
(* camera again: while the flag is down and no request has failed since,   *)
(* the source is detached and PTZ has no target.                           *)
(***************************************************************************)
THEOREM StoppedStaysDetached == Spec => []StoppedDetached
<1>1. Base => StoppedDetached
  BY DEF Base, Flag, StoppedDetached
<1> QED BY <1>1, SpecBase, PTL

(***************************************************************************)
(* As long as no thread stalls between two local statements for longer     *)
(* than the supervisor's back-off: with streaming on, the last request     *)
(* successful and no restore pending, MediaMTX pulls the applied camera    *)
(* and PTZ drives that same camera, after any number of starts, stops,     *)
(* restores, exits of the child and restarts.                              *)
(***************************************************************************)
THEOREM AppliedIsServed == ~Stalls => (Spec => []ServesApplied)
<1> SUFFICES ASSUME ~Stalls
             PROVE  Spec => []ServesApplied
  OBVIOUS
<1> DEFINE Inv == Base /\ Fresh /\ Owed /\ Left
<1>1. Init => Inv
  BY InitBase DEF Init, Fresh, Owed, Left, Patched, Idle, Pending
<1>2. Inv /\ [Next]_vars => Inv'
  <2>1. Base /\ [Next]_vars => Base'
    BY TypeStep, FlagStep, ChildStep, LockStep DEF Base
  <2> QED BY <2>1, FreshStep, OwedStep, LeftStep
<1>3. Inv => ServesApplied
  BY DEF Base, TypeOK, Child, Owed, Served, Pending, Answered, Patched,
     ServesApplied, Idle
<1> HIDE DEF Inv
<1> QED BY <1>1, <1>2, <1>3, PTL DEF Spec

(***************************************************************************)
(* The presets and the patrol switch in memory are those in the applied    *)
(* slot whenever nothing is under way, each unless a start that overlapped *)
(* its last save has overwritten it: save_presets, save_patrol, a          *)
(* promotion, a camera change and a restart do not drive them apart, and   *)
(* an overlap with a start is the only thing that does.                    *)
(***************************************************************************)
THEOREM SettingsArePersisted == Spec => []SettingsPersisted
<1> DEFINE Inv == TypeOK /\ Kept
<1>1. Init => Inv
  <2>1. Init => TypeOK
    BY InitBase DEF Base
  <2>2. Init => patrol = (applied.patrol = TRUE)
    <3> SUFFICES ASSUME Init PROVE patrol = (applied.patrol = TRUE)
      OBVIOUS
    <3>1. applied.patrol = None /\ patrol = FALSE
      BY DEF Init
    <3>2. None # TRUE
      BY StreamerAssumption
    <3> QED BY <3>1, <3>2
  <2>3. Init => Kept
    BY <2>2 DEF Init, Kept, Idle
  <2> QED BY <2>1, <2>3
<1>2. Inv /\ [Next]_vars => Inv'
  BY TypeStep, KeptStep
<1>3. Inv => SettingsPersisted
  BY DEF Kept, SettingsPersisted, Quiet, Idle
<1> HIDE DEF Inv
<1> QED BY <1>1, <1>2, <1>3, PTL DEF Spec
=============================================================================
