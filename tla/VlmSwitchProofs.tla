-------------------------- MODULE VlmSwitchProofs --------------------------
(***************************************************************************)
(* Proofs, for any set of models and any failure limit, of the safety      *)
(* properties of VlmSwitch.                                                *)
(*                                                                         *)
(* That two models are never loaded needs that every caller of _spawn      *)
(* reaches it without a live child (Tracked): switch and rollback kill     *)
(* first, a respawn relies on conn being there whenever a child lives.     *)
(* That the names agree needs what is being loaded for whom (Names) and    *)
(* what is displayed meanwhile (Shown).  That no late answer is read needs *)
(* that every way an inference ends empties the connection (Fresh).  That  *)
(* no other request is lost needs where the last one is (Carried).         *)
(***************************************************************************)
EXTENDS VlmSwitch, TLAPS

\* A live child is the one in _proc, connected unless it is still loading,
\* and there is none when the next one is spawned.
Tracked ==
  /\ live = IF alive THEN 1 ELSE 0
  /\ alive => proc # None
  /\ alive /\ pc # "load" => conn
  /\ pc \in {"precompile", "spawn"} => ~alive

\* _current is the holder's model, except between the load of a target and
\* the renaming; a connected child runs _current.
Names ==
  /\ pc = "rename" => current = loading
  /\ pc # "rename" => current \in {None, name}
  /\ current = None => pc \in {"precompile", "spawn", "load", "exited"} /\ purpose = "startup"
  /\ conn => proc = current
  /\ pc \in {"send", "recv"} => conn
  /\ pc = "load" => proc = loading /\ ~conn
  /\ pc \in {"kill", "spawn", "load"} /\ purpose # "switch" => loading = name
  /\ pc = "kill" => purpose \in {"switch", "rollback"}
  /\ pc = "precompile" => purpose = "startup" /\ loading = Default /\ name = Default
  /\ pc \in {"announce", "showTarget", "rename", "failed"} => purpose = "switch"

\* While a model is being replaced "ready" is not shown, and the target is;
\* before "ready" is shown the right model is.
Shown ==
  /\ pc \in {"precompile", "publish", "showTarget", "kill", "failed", "showPrev", "rename",
             "ready", "exited"} => vlmState # "ready"
  /\ pc \in {"spawn", "load"} /\ purpose # "respawn" => vlmState # "ready"
  /\ pc \in {"kill", "spawn", "load", "rename"} /\ purpose = "switch" => shownModel = loading
  /\ pc \in {"spawn", "load"} /\ purpose = "startup" => shownModel = name
  /\ pc \in {"publish", "ready"} => shownModel = name
  /\ vlmState = "ready" => shownModel = name

\* A worker that goes on is below the failure limit.
Counted == failures = MaxInferFailures => pc = "exited"

\* An answer is only outstanding while it is waited for.
Fresh ==
  /\ pc = "recv" => unanswered = 1
  /\ pc # "recv" => unanswered = 0

IInv ==
  /\ TypeOK
  /\ Counted
  /\ Tracked
  /\ Names
  /\ Shown
  /\ Fresh

\* What is left of the child when _spawn has raised: nothing alive.
ChildGone ==
  /\ current' = current
  /\ proc' \in {proc, None}
  /\ conn' \in BOOLEAN
  /\ conn' => proc' = current
  /\ alive' = FALSE
  /\ live' = 0
  /\ unanswered' = 0

USE ModelsAssumption DEF Purposes, vars, holderVars, shownVars, childVars

\* The initial state.
LEMMA InitIInv == Init => IInv
  <1> SUFFICES ASSUME Init PROVE IInv
    OBVIOUS
  <1> USE DEF Init
  <1>1. TypeOK
    <2>1. failures \in 0..MaxInferFailures
      OBVIOUS
    <2> QED
      BY <2>1 DEF TypeOK
  <1>2. Counted
    BY DEF Counted
  <1>3. Tracked
    BY DEF Tracked
  <1>4. Names
    BY DEF Names
  <1>5. Shown
    BY DEF Shown
  <1>6. Fresh
    BY DEF Fresh
  <1> QED
    BY <1>1, <1>2, <1>3, <1>4, <1>5, <1>6 DEF IInv

\* _spawn leaves no child behind when it raises, Popen's failure included.
LEMMA SpawnRaisesChild ==
  ASSUME IInv, NEW p, SpawnRaises(p)
  PROVE  /\ pc \in {"spawn", "load"}
         /\ purpose = p
         /\ ChildGone
  <1>1. CASE pc = "spawn" /\ UNCHANGED childVars
    BY <1>1 DEF SpawnRaises, ChildGone, IInv, TypeOK, Tracked, Names, Fresh
  <1>2. CASE pc = "load" /\ LoadFailed
    <2>1. live' = 0
      BY <1>2 DEF LoadFailed, ChildStopped, IInv, TypeOK, Tracked
    <2> QED
      BY <1>2, <2>1 DEF SpawnRaises, LoadFailed, ChildStopped, ChildGone
  <1> QED
    BY <1>1, <1>2 DEF SpawnRaises

\* A failed startup leaves no child behind.
LEMMA StartupFailsIInv ==
  ASSUME IInv, StartupFails, SpawnRaises("startup")
  PROVE  IInv'
  <1>0. /\ pc \in {"spawn", "load"}
        /\ purpose = "startup"
        /\ ChildGone
    BY SpawnRaisesChild DEF StartupFails
  <1> USE DEF StartupFails
  <1>1. TypeOK'
    BY <1>0 DEF ChildGone, IInv, TypeOK
  <1>2. Counted'
    BY <1>0 DEF IInv, TypeOK, Counted
  <1>3. Tracked'
    BY <1>0 DEF ChildGone, Tracked
  <1>4. Names'
    BY <1>0 DEF ChildGone, IInv, TypeOK, Names
  <1>5. Shown'
    BY <1>0 DEF IInv, TypeOK, Names, Shown
  <1>6. Fresh'
    BY <1>0 DEF ChildGone, Fresh
  <1> QED
    BY <1>1, <1>2, <1>3, <1>4, <1>5, <1>6 DEF IInv

\* Every caller of _spawn reaches it without a child.
LEMMA SpawnIInv ==
  ASSUME IInv, Spawn
  PROVE  IInv'
  <1> USE DEF Spawn
  <1>1. TypeOK'
    <2>1. live' \in Nat
      BY DEF IInv, TypeOK, Tracked
    <2>2. failures' \in 0..MaxInferFailures
      BY DEF IInv, TypeOK, Counted
    <2> QED
      BY <2>1, <2>2 DEF IInv, TypeOK
  <1>2. Counted'
    BY DEF IInv, TypeOK, Counted
  <1>3. Tracked'
    BY DEF IInv, TypeOK, Tracked, Names
  <1>4. Names'
    BY DEF IInv, TypeOK, Names
  <1>5. Shown'
    BY DEF IInv, TypeOK, Names, Shown
  <1>6. Fresh'
    BY DEF IInv, TypeOK, Fresh
  <1> QED
    BY <1>1, <1>2, <1>3, <1>4, <1>5, <1>6 DEF IInv

\* A load that succeeds, for each of the callers of _spawn.
LEMMA LoadReadyIInv ==
  ASSUME IInv, LoadReady
  PROVE  IInv'
  <1> USE DEF LoadReady, AfterLoad
  <1>1. TypeOK'
    BY DEF IInv, TypeOK, Counted, Tracked
  <1>2. Counted'
    BY DEF IInv, TypeOK, Counted
  <1>3. Tracked'
    BY DEF IInv, TypeOK, Tracked, Names
  <1>4. Names'
    BY DEF IInv, TypeOK, Names
  <1>5. Shown'
    BY DEF IInv, TypeOK, Names, Shown
  <1>6. Fresh'
    BY DEF IInv, TypeOK, Fresh
  <1> QED
    BY <1>1, <1>2, <1>3, <1>4, <1>5, <1>6 DEF IInv

\* The kill that precedes a switch and a rollback.
LEMMA KillIInv ==
  ASSUME IInv, Kill
  PROVE  IInv'
  <1> USE DEF Kill, ChildStopped
  <1>1. TypeOK'
    <2>1. live' \in Nat
      BY DEF IInv, TypeOK, Tracked
    <2>2. failures' \in 0..MaxInferFailures
      BY DEF IInv, TypeOK, Counted
    <2> QED
      BY <2>1, <2>2 DEF IInv, TypeOK
  <1>2. Counted'
    BY DEF IInv, TypeOK, Counted
  <1>3. Tracked'
    BY DEF IInv, TypeOK, Tracked, Names
  <1>4. Names'
    BY DEF IInv, TypeOK, Names
  <1>5. Shown'
    BY DEF IInv, TypeOK, Names, Shown
  <1>6. Fresh'
    BY DEF IInv, TypeOK, Fresh
  <1> QED
    BY <1>1, <1>2, <1>3, <1>4, <1>5, <1>6 DEF IInv

\* A failed load leaves no child behind.
LEMMA SwitchFailsIInv ==
  ASSUME IInv, SwitchFails
  PROVE  IInv'
  <1>0. /\ pc \in {"spawn", "load"}
        /\ purpose = "switch"
        /\ ChildGone
    BY SpawnRaisesChild DEF SwitchFails
  <1> USE DEF SwitchFails
  <1>1. TypeOK'
    BY <1>0 DEF ChildGone, IInv, TypeOK
  <1>2. Counted'
    BY <1>0 DEF IInv, TypeOK, Counted
  <1>3. Tracked'
    BY <1>0 DEF ChildGone, Tracked
  <1>4. Names'
    BY <1>0 DEF ChildGone, IInv, TypeOK, Names
  <1>5. Shown'
    BY <1>0 DEF IInv, TypeOK, Names, Shown
  <1>6. Fresh'
    BY <1>0 DEF ChildGone, Fresh
  <1> QED
    BY <1>1, <1>2, <1>3, <1>4, <1>5, <1>6 DEF IInv

\* So does the load of a failed rollback.
LEMMA RollBackFailsIInv ==
  ASSUME IInv, RollBackFails
  PROVE  IInv'
  <1>0. /\ pc \in {"spawn", "load"}
        /\ purpose = "rollback"
        /\ ChildGone
    BY SpawnRaisesChild DEF RollBackFails
  <1> USE DEF RollBackFails
  <1>1. TypeOK'
    BY <1>0 DEF ChildGone, IInv, TypeOK
  <1>2. Counted'
    BY <1>0 DEF IInv, TypeOK, Counted
  <1>3. Tracked'
    BY <1>0 DEF ChildGone, Tracked
  <1>4. Names'
    BY <1>0 DEF ChildGone, IInv, TypeOK, Names
  <1>5. Shown'
    BY <1>0 DEF IInv, TypeOK, Names, Shown
  <1>6. Fresh'
    BY <1>0 DEF ChildGone, Fresh
  <1> QED
    BY <1>1, <1>2, <1>3, <1>4, <1>5, <1>6 DEF IInv

\* A child that is missing or not connected is spawned anew.
LEMMA InferIInv ==
  ASSUME IInv, Infer
  PROVE  IInv'
  <1> USE DEF Infer
  <1>1. TypeOK'
    BY DEF IInv, TypeOK, Counted, Tracked, Names, Shown
  <1>2. Counted'
    BY DEF IInv, TypeOK, Counted, Tracked, Names, Shown
  <1>3. Tracked'
    BY DEF IInv, TypeOK, Counted, Tracked, Names, Shown
  <1>4. Names'
    BY DEF IInv, TypeOK, Counted, Tracked, Names, Shown
  <1>5. Shown'
    BY DEF IInv, TypeOK, Counted, Tracked, Names, Shown
  <1>6. Fresh'
    BY DEF IInv, TypeOK, Fresh
  <1> QED
    BY <1>1, <1>2, <1>3, <1>4, <1>5, <1>6 DEF IInv

\* The child answers with an error and is kept.
LEMMA AnswersErrorIInv ==
  ASSUME IInv, AnswersError
  PROVE  IInv'
  <1> USE DEF AnswersError, ReadAnswer, Failed
  <1>1. TypeOK'
    <2>1. live' \in Nat
      BY DEF IInv, TypeOK, Tracked
    <2>2. failures' \in 0..MaxInferFailures
      BY DEF IInv, TypeOK, Counted
    <2>3. /\ pc' \in {"top", "exited"}
          /\ vlmState' \in {vlmState, "error"}
          /\ proc' \in {proc, None}
      OBVIOUS
    <2>4. conn' \in BOOLEAN /\ alive' \in BOOLEAN /\ unanswered' \in Nat
      BY DEF IInv, TypeOK, Fresh
    <2>5. UNCHANGED <<holderVars, shownModel, current, purpose, loading, settled>>
      OBVIOUS
    <2> HIDE DEF AnswersError, ReadAnswer, Failed
    <2> QED
      BY <2>1, <2>2, <2>3, <2>4, <2>5 DEF IInv, TypeOK
  <1>2. Counted'
    BY DEF IInv, TypeOK, Counted
  <1>3. Tracked'
    BY DEF IInv, TypeOK, Tracked, Names
  <1>4. Names'
    BY DEF IInv, TypeOK, Names
  <1>5. Shown'
    BY DEF IInv, TypeOK, Names, Shown
  <1>6. Fresh'
    BY DEF IInv, TypeOK, Fresh
  <1> QED
    BY <1>1, <1>2, <1>3, <1>4, <1>5, <1>6 DEF IInv

\* No answer: the child is dropped.
LEMMA TransportFailsIInv ==
  ASSUME IInv, TransportFails
  PROVE  IInv'
  <1> USE DEF TransportFails, Failed, ChildStopped
  <1>1. TypeOK'
    <2>1. live' \in Nat
      BY DEF IInv, TypeOK, Tracked
    <2>2. failures' \in 0..MaxInferFailures
      BY DEF IInv, TypeOK, Counted
    <2>3. /\ pc' \in {"top", "exited"}
          /\ vlmState' \in {vlmState, "error"}
          /\ proc' \in {proc, None}
      OBVIOUS
    <2>4. conn' \in BOOLEAN /\ alive' \in BOOLEAN /\ unanswered' \in Nat
      BY DEF IInv, TypeOK
    <2>5. UNCHANGED <<holderVars, shownModel, current, purpose, loading, settled>>
      OBVIOUS
    <2> HIDE DEF TransportFails, Failed, ChildStopped
    <2> QED
      BY <2>1, <2>2, <2>3, <2>4, <2>5 DEF IInv, TypeOK
  <1>2. Counted'
    BY DEF IInv, TypeOK, Counted
  <1>3. Tracked'
    BY DEF IInv, TypeOK, Tracked, Names
  <1>4. Names'
    BY DEF IInv, TypeOK, Names
  <1>5. Shown'
    BY DEF IInv, TypeOK, Names, Shown
  <1>6. Fresh'
    BY DEF IInv, TypeOK, Fresh
  <1> QED
    BY <1>1, <1>2, <1>3, <1>4, <1>5, <1>6 DEF IInv

\* No child could be spawned for the job.
LEMMA RespawnFailsIInv ==
  ASSUME IInv, RespawnFails
  PROVE  IInv'
  <1>0. /\ pc \in {"spawn", "load"}
        /\ purpose = "respawn"
        /\ ChildGone
    BY SpawnRaisesChild DEF RespawnFails
  <1> USE DEF RespawnFails, Failed
  <1>1. TypeOK'
    <2>1. failures' \in 0..MaxInferFailures
      BY <1>0 DEF IInv, TypeOK, Counted
    <2>2. /\ pc' \in {"top", "exited"}
          /\ vlmState' \in {vlmState, "error"}
          /\ UNCHANGED <<holderVars, shownModel, purpose, loading, settled>>
      OBVIOUS
    <2> HIDE DEF RespawnFails, Failed
    <2> QED
      BY <1>0, <2>1, <2>2 DEF ChildGone, IInv, TypeOK
  <1>2. Counted'
    BY <1>0 DEF IInv, TypeOK, Counted
  <1>3. Tracked'
    BY <1>0 DEF ChildGone, Tracked
  <1>4. Names'
    BY <1>0 DEF ChildGone, IInv, TypeOK, Names
  <1>5. Shown'
    BY <1>0 DEF IInv, TypeOK, Names, Shown
  <1>6. Fresh'
    BY <1>0 DEF ChildGone, Fresh
  <1> QED
    BY <1>1, <1>2, <1>3, <1>4, <1>5, <1>6 DEF IInv

\* The child dies on its own.
LEMMA ChildDiesIInv ==
  ASSUME IInv, ChildDies
  PROVE  IInv'
  <1> USE DEF ChildDies
  <1>1. TypeOK'
    <2>1. live' \in Nat
      BY DEF IInv, TypeOK, Tracked
    <2>2. failures' \in 0..MaxInferFailures
      BY DEF IInv, TypeOK, Counted
    <2>3. alive' \in BOOLEAN
      OBVIOUS
    <2>4. UNCHANGED <<holderVars, shownVars, current, proc, conn, unanswered, pc,
                   purpose, loading, settled>>
      OBVIOUS
    <2> HIDE DEF ChildDies
    <2> QED
      BY <2>1, <2>2, <2>3, <2>4 DEF IInv, TypeOK
  <1>2. Counted'
    BY DEF IInv, TypeOK, Counted
  <1>3. Tracked'
    BY DEF IInv, TypeOK, Tracked, Names
  <1>4. Names'
    BY DEF IInv, TypeOK, Names
  <1>5. Shown'
    BY DEF IInv, TypeOK, Names, Shown
  <1>6. Fresh'
    BY DEF IInv, TypeOK, Fresh
  <1> QED
    BY <1>1, <1>2, <1>3, <1>4, <1>5, <1>6 DEF IInv

\* A restart of the process.
LEMMA RestartIInv ==
  ASSUME IInv, Restart
  PROVE  IInv'
  <1> USE DEF Restart
  <1>1. TypeOK'
    <2>1. live' \in Nat
      BY DEF IInv, TypeOK, Tracked
    <2>2. failures' \in 0..MaxInferFailures
      BY DEF IInv, TypeOK, Counted
    <2> QED
      BY <2>1, <2>2 DEF IInv, TypeOK
  <1>2. Counted'
    BY DEF IInv, TypeOK, Counted
  <1>3. Tracked'
    BY DEF IInv, TypeOK, Tracked, Names
  <1>4. Names'
    BY DEF IInv, TypeOK, Names
  <1>5. Shown'
    BY DEF IInv, TypeOK, Names, Shown
  <1>6. Fresh'
    BY DEF IInv, TypeOK, Fresh
  <1> QED
    BY <1>1, <1>2, <1>3, <1>4, <1>5, <1>6 DEF IInv

\* Every step preserves the inductive invariant.  The actions that have no
\* lemma of their own only move the owner along or change what is shown.
LEMMA NextIInv == IInv /\ [Next]_vars => IInv'
  <1> SUFFICES ASSUME IInv, [Next]_vars PROVE IInv'
    OBVIOUS
  <1> USE DEF IInv, TypeOK, Counted, Tracked, Names, Shown, Fresh
  <1>1. CASE UNCHANGED vars
    BY <1>1
  <1>2. CASE StartupFails
    <2>1. CASE SpawnRaises("startup")
      BY <1>2, <2>1, StartupFailsIInv
    <2>2. CASE pc = "precompile" /\ UNCHANGED childVars
      BY <1>2, <2>2 DEF StartupFails
    <2> QED
      BY <1>2, <2>1, <2>2 DEF StartupFails
  <1>3. ASSUME NEW ms \in SUBSET Models, Precompiled(ms) PROVE IInv'
    BY <1>3 DEF Precompiled
  <1>4. CASE Publish
    BY <1>4 DEF Publish
  <1>5. CASE Top
    BY <1>5 DEF Top
  <1>6. CASE Announce
    BY <1>6 DEF Announce
  <1>7. CASE ShowTarget
    BY <1>7 DEF ShowTarget
  <1>8. CASE RollBack
    BY <1>8 DEF RollBack
  <1>9. CASE ShowPrev
    BY <1>9 DEF ShowPrev
  <1>10. CASE Rename
    BY <1>10 DEF Rename
  <1>11. CASE Ready
    BY <1>11 DEF Ready
  <1>12. CASE Wait
    BY <1>12 DEF Wait
  <1>13. CASE Answered
    BY <1>13 DEF Answered, ReadAnswer
  <1>14. CASE Send
    BY <1>14 DEF Send
  <1>15. ASSUME NEW m \in Models, Precompile(m) PROVE IInv'
    BY <1>15 DEF Precompile
  <1>16. ASSUME NEW m \in Models, RequestSwitch(m) PROVE IInv'
    BY <1>16 DEF RequestSwitch, QueueSwitch
  <1> HIDE DEF IInv, TypeOK, Counted, Tracked, Names, Shown, Fresh
  <1> QED
    BY <1>1, <1>2, <1>3, <1>4, <1>5, <1>6, <1>7, <1>8, <1>9, <1>10, <1>11, <1>12, <1>13,
       <1>14, <1>15, <1>16, SpawnIInv, LoadReadyIInv, KillIInv, SwitchFailsIInv,
       RollBackFailsIInv, InferIInv, AnswersErrorIInv, TransportFailsIInv,
       RespawnFailsIInv, ChildDiesIInv, RestartIInv DEF Next, Owner

\* The types of the state, the failure limit of inference_worker included.
THEOREM TypeCorrect == Spec => []TypeOK
  <1>1. IInv => TypeOK
    BY DEF IInv
  <1> QED
    BY <1>1, InitIInv, NextIInv, PTL DEF Spec

\* _spawn and its callers (start, switch, infer): two models are never in
\* memory at once, for any set of models (NFR-023).
THEOREM OneModel == Spec => []OneModelLoaded
  <1>1. IInv => OneModelLoaded
    BY DEF IInv, Tracked, OneModelLoaded
  <1> QED
    BY <1>1, InitIInv, NextIInv, PTL DEF Spec

\* _perform_switch: "ready" is shown with the model that is loaded, whatever
\* switches and rollbacks have failed before.
THEOREM ReadyShown == Spec => []ReadyTruthful
  <1>1. IInv => ReadyTruthful
    BY DEF IInv, TypeOK, Names, Shown, ReadyTruthful
  <1> QED
    BY <1>1, InitIInv, NextIInv, PTL DEF Spec

\* infer and holder.name: a judgment is recorded under the name of the model
\* that gave it.
THEOREM NamedModel == Spec => []JudgedByNamedModel
  <1>1. IInv => JudgedByNamedModel
    BY DEF IInv, TypeOK, Names, JudgedByNamedModel
  <1> QED
    BY <1>1, InitIInv, NextIInv, PTL DEF Spec

\* infer and stop: no late answer of an earlier job is taken for this one's.
THEOREM OwnAnswer == Spec => []AnswerToThisJob
  <1>1. IInv => AnswerToThisJob
    BY DEF IInv, Fresh, AnswerToThisJob
  <1> QED
    BY <1>1, InitIInv, NextIInv, PTL DEF Spec

\* A switch is under way, up to the renaming or the rollback.
Switching ==
  /\ pc \in {"announce", "showTarget", "kill", "spawn", "load", "failed", "rename"}
  /\ purpose = "switch"

\* Where the last accepted request is: pending, being performed, or done.
Carried ==
  settled = "asked" =>
    /\ request # None => asked = request
    /\ request = None /\ Switching => asked = loading
    /\ request = None /\ ~Switching => asked = name

\* Every step keeps track of the last accepted request.
LEMMA NextCarried ==
  ASSUME IInv, Carried, [Next]_vars
  PROVE  Carried'
  <1> USE DEF Carried, Switching
  <1>0. /\ pc \in {"announce", "showTarget", "rename", "failed"} => purpose = "switch"
        /\ pc = "kill" => purpose \in {"switch", "rollback"}
        /\ request \in Models \cup {None} /\ purpose \in Purposes
    BY DEF IInv, TypeOK, Names
  <1>1. CASE UNCHANGED vars
    BY <1>1
  <1>2. CASE StartupFails
    BY <1>0, <1>2 DEF StartupFails, SpawnRaises
  <1>3. ASSUME NEW ms \in SUBSET Models, Precompiled(ms) PROVE Carried'
    BY <1>3 DEF Precompiled, IInv, Names
  <1>4. CASE Publish
    BY <1>4 DEF Publish
  <1>5. CASE Top
    BY <1>0, <1>5 DEF Top
  <1>6. CASE Announce \/ ShowTarget \/ Kill \/ Spawn \/ SwitchFails
    BY <1>0, <1>6 DEF Announce, ShowTarget, Kill, Spawn, SwitchFails, SpawnRaises
  <1>7. CASE LoadReady
    BY <1>0, <1>7 DEF LoadReady, AfterLoad
  <1>8. CASE RollBack
    BY <1>0, <1>8 DEF RollBack
  <1>9. CASE RollBackFails \/ ShowPrev \/ Ready \/ Wait \/ Send
    BY <1>9 DEF RollBackFails, SpawnRaises, ShowPrev, Ready, Wait, Send
  <1>10. CASE Rename
    BY <1>0, <1>10 DEF Rename
  <1>11. CASE Infer
    BY <1>11 DEF Infer
  <1>12. CASE Answered
    BY <1>12 DEF Answered, ReadAnswer
  <1>13. CASE AnswersError \/ TransportFails
    BY <1>13 DEF AnswersError, TransportFails, ReadAnswer, Failed
  <1>14. CASE RespawnFails
    BY <1>14 DEF RespawnFails, SpawnRaises, Failed
  <1>15. ASSUME NEW m \in Models, Precompile(m) PROVE Carried'
    BY <1>15 DEF Precompile
  <1>16. ASSUME NEW m \in Models, RequestSwitch(m) PROVE Carried'
    BY <1>16 DEF RequestSwitch, QueueSwitch
  <1>17. CASE ChildDies
    BY <1>17 DEF ChildDies
  <1>18. CASE Restart
    BY <1>18 DEF Restart
  <1> HIDE DEF Carried, Switching
  <1> QED
    BY <1>1, <1>2, <1>3, <1>4, <1>5, <1>6, <1>7, <1>8, <1>9, <1>10, <1>11, <1>12, <1>13,
       <1>14, <1>15, <1>16, <1>17, <1>18 DEF Next, Owner

\* request_switch, pop_request and _perform_switch: the last accepted request
\* is performed, whatever requests, failed loads and rollbacks came between,
\* unless its own load failed or it asked for the model being replaced.
THEOREM RequestPerformed == Spec => []OnlyBackSwitchLost
  <1>1. Init => IInv /\ Carried
    BY InitIInv DEF Init, Carried, Switching
  <1>2. IInv /\ Carried /\ [Next]_vars => IInv' /\ Carried'
    BY NextIInv, NextCarried
  <1>3. Carried => OnlyBackSwitchLost
    BY DEF Carried, Switching, OnlyBackSwitchLost
  <1> QED
    BY <1>1, <1>2, <1>3, PTL DEF Spec
=============================================================================
