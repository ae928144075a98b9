----------------------------- MODULE VlmSwitch -----------------------------
(***************************************************************************)
(* The analyzer's VLM child process and the switch between models          *)
(* (analyzer/vlm_worker.py, holder.py; ModelHolder, _precompile_all,       *)
(* _perform_switch, the loop of inference_worker and the startup in        *)
(* main.py).                                                               *)
(*                                                                         *)
(* One thread (main until the first model is loaded, the inference worker  *)
(* afterwards) owns the child; HTTP handlers only leave a request in the   *)
(* holder; the child may die at any time.  What an inference is about is   *)
(* not modelled, only whether it is answered.                              *)
(***************************************************************************)
EXTENDS Naturals

CONSTANTS
  Models,            \* VLM_MODELS
  Default,           \* MODEL_ID, the first of them
  None,              \* no model, no child, no request
  MaxInferFailures   \* MAX_CONSECUTIVE_INFER_FAILURES

ASSUME ModelsAssumption ==
  /\ Default \in Models
  /\ None \notin Models
  /\ MaxInferFailures \in Nat \ {0}

VARIABLES
  available,   \* holder._available_models
  published,   \* holder._holder is set
  name,        \* ModelHolder.name
  request,     \* ModelHolder._switch_to
  vlmState,    \* app_state.vlm_state
  shownModel,  \* app_state.vlm_current_model
  current,     \* VlmProcess._current
  proc,        \* VlmProcess._proc: the model the child was started for
  conn,        \* VlmProcess._conn is not None
  alive,       \* the child of _proc has not exited
  live,        \* how many children exist, whether or not _proc knows them
  unanswered,  \* jobs sent over _conn whose answer has not been read
  pc,          \* where the owner of the child is
  purpose,     \* what the load in progress is for
  loading,     \* the model it loads
  failures,    \* consecutive inference failures
  asked,       \* history: the model of the last accepted /vlm/switch
  settled      \* history: what excuses the worker from running `asked`

holderVars == <<available, published, name, request, asked>>
shownVars == <<vlmState, shownModel>>
childVars == <<current, proc, conn, alive, live, unanswered>>
vars == <<holderVars, shownVars, childVars, pc, purpose, loading, failures, settled>>

Purposes == {"startup", "switch", "rollback", "respawn"}

TypeOK ==
  /\ available \in SUBSET Models
  /\ published \in BOOLEAN
  /\ name \in Models
  /\ request \in Models \cup {None}
  /\ vlmState \in {"initializing", "downloading", "compiling", "loading", "ready", "switching",
                   "error"}
  /\ shownModel \in Models
  /\ current \in Models \cup {None}
  /\ proc \in Models \cup {None}
  /\ conn \in BOOLEAN
  /\ alive \in BOOLEAN
  /\ live \in Nat
  /\ unanswered \in Nat
  /\ pc \in {"precompile", "spawn", "load", "publish", "top", "announce", "showTarget", "kill",
             "failed", "showPrev", "rename", "ready", "wait", "infer", "send", "recv", "exited"}
  /\ purpose \in Purposes
  /\ loading \in Models
  /\ failures \in 0..MaxInferFailures
  /\ asked \in Models
  /\ settled \in {"asked", "failed", "back"}
-----------------------------------------------------------------------------
(***************************************************************************)
(* VlmProcess: stop, _spawn and what the child does                        *)
(***************************************************************************)

\* stop(): the connection is closed and the child killed.
ChildStopped ==
  /\ proc' = None
  /\ conn' = FALSE
  /\ alive' = FALSE
  /\ live' = IF alive THEN live - 1 ELSE live
  /\ unanswered' = 0
  /\ UNCHANGED current

\* Mutant of LoadFailed: the child of a failed load is left to itself.
LoadFailed_KeepsChild ==
  /\ proc' = None
  /\ conn' = FALSE
  /\ alive' = FALSE
  /\ unanswered' = 0
  /\ UNCHANGED <<live, current>>

\* Any failure of _connect or of the first message, the load's timeout
\* included: _spawn stops the child and raises.
LoadFailed == ChildStopped

\* _spawn raises, called for p: the load fails, or Popen already does, which
\* is outside the try and leaves everything as it was.
SpawnRaises(p) ==
  /\ purpose = p
  /\ \/ pc = "spawn" /\ UNCHANGED childVars
     \/ pc = "load" /\ LoadFailed

\* The child dies: out of memory, a crash in native code.
ChildDies ==
  /\ alive
  /\ alive' = FALSE
  /\ live' = live - 1
  /\ UNCHANGED <<holderVars, shownVars, current, proc, conn, unanswered, pc, purpose, loading,
                 failures, settled>>

\* subprocess.Popen
Spawn ==
  /\ pc = "spawn"
  /\ proc' = loading
  /\ conn' = FALSE
  /\ alive' = TRUE
  /\ live' = live + 1
  /\ unanswered' = 0
  /\ pc' = "load"
  /\ UNCHANGED <<holderVars, shownVars, current, purpose, loading, failures, settled>>

\* Where each caller of _spawn goes on.
AfterLoad ==
  [startup |-> "publish", switch |-> "rename", rollback |-> "showPrev", respawn |-> "send"]

\* The child has reported ready; it may have died right after that.
LoadReady ==
  /\ pc = "load"
  /\ conn' = TRUE
  /\ current' = loading
  /\ pc' = AfterLoad[purpose]
  /\ UNCHANGED <<holderVars, shownVars, proc, alive, live, unanswered, purpose, loading, failures,
                 settled>>
-----------------------------------------------------------------------------
(***************************************************************************)
(* main(): precompilation and the first load                               *)
(***************************************************************************)
Init ==
  /\ available = {}
  /\ published = FALSE
  /\ name = Default
  /\ request = None
  /\ vlmState = "initializing"
  /\ shownModel = Default
  /\ current = None
  /\ proc = None
  /\ conn = FALSE
  /\ alive = FALSE
  /\ live = 0
  /\ unanswered = 0
  /\ pc = "precompile"
  /\ purpose = "startup"
  /\ loading = Default
  /\ failures = 0
  /\ asked = Default
  /\ settled = "asked"

\* _precompile_all downloads or compiles a model that has no cache yet.
Precompile(m) ==
  /\ pc = "precompile"
  /\ shownModel' = m
  /\ vlmState' \in {"downloading", "compiling"}
  /\ UNCHANGED <<holderVars, childVars, pc, purpose, loading, failures, settled>>

\* It returns the models whose cache is complete; the default is one of them.
Precompiled(ms) ==
  /\ pc = "precompile"
  /\ Default \in ms
  /\ available' = ms
  /\ shownModel' = Default
  /\ vlmState' = "loading"
  /\ pc' = "spawn"
  /\ UNCHANGED <<published, name, request, asked, childVars, purpose, loading, failures, settled>>

\* set_vlm_state("ready"), set_holder, and the worker starts.
Publish ==
  /\ pc = "publish"
  /\ vlmState' = "ready"
  /\ published' = TRUE
  /\ pc' = "top"
  /\ UNCHANGED <<available, name, request, asked, shownModel, childVars, purpose, loading,
                 failures, settled>>

\* The default model cannot be compiled or loaded: main raises.
StartupFails ==
  /\ \/ pc = "precompile" /\ UNCHANGED childVars
     \/ SpawnRaises("startup")
  /\ vlmState' = "error"
  /\ pc' = "exited"
  /\ UNCHANGED <<holderVars, shownModel, purpose, loading, failures, settled>>
-----------------------------------------------------------------------------
(***************************************************************************)
(* /vlm/switch                                                             *)
(***************************************************************************)
\* Mutant of QueueSwitch: a pending request is not replaced.
QueueSwitch_KeepsFirst(m) ==
  /\ request' = IF request = None /\ m # name THEN m ELSE request
  /\ settled' = IF m = name /\ request = None /\ loading # m THEN "back" ELSE "asked"

\* ModelHolder.request_switch: a request replaces a pending one; without one,
\* the model that has the name now is taken for the active one.
QueueSwitch(m) ==
  \/ /\ m = name /\ request = None
     /\ settled' = IF loading = m THEN "asked" ELSE "back"
     /\ UNCHANGED request
  \/ /\ m # name \/ request # None
     /\ request' = m
     /\ settled' = "asked"

\* holder.request_switch; a request that is refused changes nothing.
RequestSwitch(m) ==
  /\ published
  /\ m \in available
  /\ QueueSwitch(m)
  /\ asked' = m
  /\ UNCHANGED <<available, published, name, shownVars, childVars, pc, purpose, loading, failures>>
-----------------------------------------------------------------------------
(***************************************************************************)
(* inference_worker: the top of the loop and _perform_switch               *)
(***************************************************************************)
Top ==
  /\ pc = "top"
  /\ request' = None
  /\ \/ /\ request \in Models \ {name}
        /\ purpose' = "switch"
        /\ loading' = request
        /\ pc' = "announce"
     \/ /\ request \notin Models \ {name}
        /\ pc' = "wait"
        /\ UNCHANGED <<purpose, loading>>
  /\ UNCHANGED <<available, published, name, asked, shownVars, childVars, failures, settled>>

Announce ==
  /\ pc = "announce"
  /\ vlmState' = "switching"
  /\ pc' = "showTarget"
  /\ UNCHANGED <<holderVars, shownModel, childVars, purpose, loading, failures, settled>>

ShowTarget ==
  /\ pc = "showTarget"
  /\ shownModel' = loading
  /\ pc' = "kill"
  /\ UNCHANGED <<holderVars, vlmState, childVars, purpose, loading, failures, settled>>

\* switch(): the old child is killed before the new one is spawned.
Kill ==
  /\ pc = "kill"
  /\ ChildStopped
  /\ pc' = "spawn"
  /\ UNCHANGED <<holderVars, shownVars, purpose, loading, failures, settled>>

\* The target does not load.
SwitchFails ==
  /\ SpawnRaises("switch")
  /\ pc' = "failed"
  /\ UNCHANGED <<holderVars, shownVars, purpose, loading, failures, settled>>

\* The error is shown and the previous model loaded again.  A request that
\* has come meanwhile is still pending.
RollBack ==
  /\ pc = "failed"
  /\ vlmState' = "error"
  /\ purpose' = "rollback"
  /\ loading' = name
  /\ settled' = IF request = None THEN "failed" ELSE settled
  /\ pc' = "kill"
  /\ UNCHANGED <<holderVars, shownModel, childVars, failures>>

\* Mutant of ShowPrev: the display keeps the target.
ShowPrev_KeepsTarget ==
  /\ pc = "showPrev"
  /\ pc' = "ready"
  /\ UNCHANGED <<holderVars, shownVars, childVars, purpose, loading, failures, settled>>

ShowPrev ==
  /\ pc = "showPrev"
  /\ shownModel' = name
  /\ pc' = "ready"
  /\ UNCHANGED <<holderVars, vlmState, childVars, purpose, loading, failures, settled>>

\* The rollback fails too: the error stays shown.
RollBackFails ==
  /\ SpawnRaises("rollback")
  /\ pc' = "wait"
  /\ UNCHANGED <<holderVars, shownVars, purpose, loading, failures, settled>>

\* Mutant of Rename: holder.name is not updated.
Rename_Forgotten ==
  /\ pc = "rename"
  /\ pc' = "ready"
  /\ UNCHANGED <<holderVars, shownVars, childVars, purpose, loading, failures, settled>>

\* holder.name = target
Rename ==
  /\ pc = "rename"
  /\ name' = loading
  /\ pc' = "ready"
  /\ UNCHANGED <<available, published, request, asked, shownVars, childVars, purpose, loading,
                 failures, settled>>

\* Mutant of Ready: the state is not set.
Ready_NotShown ==
  /\ pc = "ready"
  /\ pc' = "wait"
  /\ UNCHANGED <<holderVars, shownVars, childVars, purpose, loading, failures, settled>>

Ready ==
  /\ pc = "ready"
  /\ vlmState' = "ready"
  /\ pc' = "wait"
  /\ UNCHANGED <<holderVars, shownModel, childVars, purpose, loading, failures, settled>>
-----------------------------------------------------------------------------
(***************************************************************************)
(* inference_worker: the inference                                         *)
(***************************************************************************)
\* infer_queue.get: a timeout, a signal that is dropped, or an inference.
Wait ==
  /\ pc = "wait"
  /\ pc' \in {"top", "infer"}
  /\ UNCHANGED <<holderVars, shownVars, childVars, purpose, loading, failures, settled>>

\* infer(): a child that is not alive and connected is spawned anew.
Infer ==
  /\ pc = "infer"
  /\ \/ /\ conn /\ proc # None /\ alive
        /\ pc' = "send"
        /\ UNCHANGED <<purpose, loading>>
     \/ /\ ~(conn /\ proc # None /\ alive)
        /\ purpose' = "respawn"
        /\ loading' = current
        /\ pc' = "spawn"
  /\ UNCHANGED <<holderVars, shownVars, childVars, failures, settled>>

Send ==
  /\ pc = "send"
  /\ unanswered' = unanswered + 1
  /\ pc' = "recv"
  /\ UNCHANGED <<holderVars, shownVars, current, proc, conn, alive, live, purpose, loading,
                 failures, settled>>

\* One message is read off the connection; the child may have died since.
ReadAnswer ==
  /\ pc = "recv"
  /\ unanswered' = unanswered - 1
  /\ UNCHANGED <<current, proc, conn, alive, live>>

\* It is a result.
Answered ==
  /\ ReadAnswer
  /\ failures' = 0
  /\ pc' = "top"
  /\ UNCHANGED <<holderVars, shownVars, purpose, loading, settled>>

\* Counting a failure; at the limit the error is shown and the worker ends.
Failed ==
  /\ failures' = failures + 1
  /\ \/ /\ failures + 1 < MaxInferFailures
        /\ pc' = "top"
        /\ UNCHANGED vlmState
     \/ /\ failures + 1 >= MaxInferFailures
        /\ pc' = "exited"
        /\ vlmState' = "error"
  /\ UNCHANGED <<holderVars, shownModel, purpose, loading, settled>>

\* It is an error: the child is kept.
AnswersError ==
  /\ ReadAnswer
  /\ Failed

\* Mutant of TransportFails: a timeout keeps the child and its connection.
TransportFails_KeepsChild ==
  /\ pc \in {"send", "recv"}
  /\ UNCHANGED childVars
  /\ Failed

\* A timeout or a broken connection: the child is dropped, and with it an
\* answer that would come late.
TransportFails ==
  /\ pc \in {"send", "recv"}
  /\ ChildStopped
  /\ Failed

RespawnFails ==
  /\ SpawnRaises("respawn")
  /\ Failed

\* The process ends, with it its children, and the container starts it again.
Restart ==
  /\ available' = {}
  /\ published' = FALSE
  /\ name' = Default
  /\ request' = None
  /\ vlmState' = "initializing"
  /\ shownModel' = Default
  /\ current' = None
  /\ proc' = None
  /\ conn' = FALSE
  /\ alive' = FALSE
  /\ live' = 0
  /\ unanswered' = 0
  /\ pc' = "precompile"
  /\ purpose' = "startup"
  /\ loading' = Default
  /\ failures' = 0
  /\ asked' = Default
  /\ settled' = "asked"
-----------------------------------------------------------------------------
Owner ==
  \/ (\E ms \in SUBSET Models : Precompiled(ms)) \/ StartupFails \/ Publish
  \/ Spawn \/ LoadReady
  \/ Top \/ Announce \/ ShowTarget \/ Kill \/ SwitchFails \/ RollBack \/ ShowPrev
  \/ RollBackFails \/ Rename \/ Ready
  \/ Wait \/ Infer \/ Send \/ Answered \/ AnswersError \/ TransportFails \/ RespawnFails

Next ==
  \/ Owner
  \/ \E m \in Models : Precompile(m) \/ RequestSwitch(m)
  \/ ChildDies
  \/ Restart

Spec == Init /\ [][Next]_vars

\* The owner runs on: Popen, the kill (SIGKILL after STOP_GRACE), a load
\* (LOAD_TIMEOUT) and an inference (INFER_TIMEOUT) are all bounded in time.
FairSpec == Spec /\ WF_vars(Owner)
-----------------------------------------------------------------------------
(***************************************************************************)
(* Properties                                                              *)
(***************************************************************************)

\* NFR-023: two models are never in memory at once, whichever of the callers
\* of _spawn (startup, switch, rollback, respawn) runs and however a load or
\* an inference ends.
OneModelLoaded == live <= 1

\* "ready" is shown with the model that is loaded, and the holder agrees.
ReadyTruthful == vlmState = "ready" => shownModel = name /\ current = name

\* The history records a judgment under holder.name (notify_inference): an
\* inference is only ever sent to, and answered by, a child of that model.
JudgedByNamedModel == pc \in {"send", "recv"} => proc = name

\* The answer read next is that of the job just sent, whatever timeouts,
\* error answers and respawns came before: no late answer is on the way.
AnswerToThisJob == pc = "recv" => unanswered = 1

\* An accepted request is performed, unless its load failed: when the worker
\* is back at its queue with no request pending, the model is the one asked
\* for last.  The one exception is a request to go back to the model that is
\* being replaced at that moment, which is dropped as "already active".
OnlyBackSwitchLost == pc = "wait" /\ request = None /\ settled = "asked" => name = asked

\* A switch ends: "switching" does not stay shown.
SwitchEnds == vlmState = "switching" ~> vlmState # "switching"
=============================================================================
