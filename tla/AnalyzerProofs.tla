-------------------------- MODULE AnalyzerProofs ---------------------------
(***************************************************************************)
(* Proofs, for any set of handler threads and of pipeline objects and any  *)
(* sizes of ring and samples, of the safety properties of AnalyzerPipeline *)
(* and AnalyzerInference.                                                  *)
(*                                                                         *)
(* First part: the lifecycle.  "Latest flag wins" (StopWins, StartWins)    *)
(* speaks of quiet states only.  What makes it inductive is who is still   *)
(* going to act: while the flag is down and a pipeline exists or is being  *)
(* built, some stop has not reached its detach yet (StopComing); while the *)
(* flag is up and there is no pipeline, some start has not reached its     *)
(* build yet (StartComing).  Both rest on _pipeline_lock being held from   *)
(* the active check to the end of the build (Locks).                       *)
(*                                                                         *)
(* Second part: AnalyzerInference implements AnalyzerPipeline.  Adding the *)
(* ring, the queue and the inference worker allows no pipeline behaviour   *)
(* that the lifecycle module does not already have; what is proved of the  *)
(* lifecycle therefore holds of the whole analyzer.  In addition, the      *)
(* types of the new variables, what a stopped analyzer displays, and which *)
(* frames an inference is given.                                           *)
(***************************************************************************)
EXTENDS AnalyzerInference, SequenceTheorems, TLAPS

\* Who holds the two locks is told by where the threads are.
Locks ==
  \A t \in Threads : /\ pc[t] \in StartSection <=> startLock = t
                     /\ pc[t] \in BuildSection <=> pipeLock = t

\* A thread that sets a pipeline to NULL is the only one to hold it.
Owned ==
  \A t \in Threads : Nulling(t) =>
    /\ old[t] \in Pipelines
    /\ old[t] # pipe
    /\ \A u \in Threads : Nulling(u) /\ old[u] = old[t] => u = t

\* Until the refs are published main is still loading the VLM.
Loading == ~refs => pc[Main] = "loading"

\* From the detach to the launch _pipeline stays None, and the launched one
\* stays in it until it has been marked: nobody else (re)starts in between.
Launched ==
  \A t \in Threads :
    /\ pc[t] \in {"nullOld", "checkActive", "clear", "launch"} => pipe = None
    /\ pc[t] = "markStart" => pipe # None

Building == \E t \in Threads : pc[t] \in {"clear", "launch"}

StopComing == ~active /\ (pipe # None \/ Building) => \E h \in Handlers : StopPending(h)

StartComing == active /\ pipe = None /\ ~buildFailed => \E t \in Threads : StartPending(t)

\* A stop that has not marked the pipeline idle yet.
Stopping(h) == StopPending(h) \/ pc[h] \in {"nullStop", "markStop"}

IdleComing ==
  ~active /\ pipelineState \notin {"idle", "stalled"} => \E h \in Handlers : Stopping(h)

IInv ==
  /\ TypeOK
  /\ Locks
  /\ Owned
  /\ NoLeakedPipeline
  /\ Loading
  /\ Launched
  /\ StopComing
  /\ StartComing
  /\ IdleComing

USE ThreadsAssumption

\* Types hold initially.
LEMMA TypeInit == Init => TypeOK
  BY DEF Init, Boot, TypeOK, Threads, Ops, Locations, StartSection, StopSection, PipelineStates

\* Every step keeps the types.
LEMMA TypeNext == TypeOK /\ [Next]_vars => TypeOK'
  <1> SUFFICES ASSUME TypeOK, [Next]_vars PROVE TypeOK'
    OBVIOUS
  <1> USE DEF TypeOK, Threads, Ops, Locations, StartSection, StopSection, PipelineStates,
              Goto, Return, flagVars, lockVars, gstVars
  <1>1. ASSUME NEW h \in Handlers, NEW o \in Ops, Request(h, o) PROVE TypeOK'
    <2>1. active' \in BOOLEAN /\ saved' \in BOOLEAN /\ disturbed' \in BOOLEAN
      BY <1>1 DEF Request
    <2>2. pc' \in [Threads -> Locations] /\ op' \in [Handlers -> Ops]
      BY <1>1 DEF Request
    <2> QED
      BY <1>1, <2>1, <2>2 DEF Request
  <1>2. ASSUME NEW h \in Handlers, Handling(h) \/ NullStop(h) PROVE TypeOK'
    <2>1. CASE ReadFlag(h)
      BY <2>1 DEF ReadFlag
    <2>2. CASE SaveFlag(h)
      <3>1. saved' \in BOOLEAN /\ disturbed' \in BOOLEAN
        BY <2>2 DEF SaveFlag
      <3>2. pc' \in [Threads -> Locations]
        BY <2>2 DEF SaveFlag, AfterSave
      <3> QED
        BY <2>2, <3>1, <3>2 DEF SaveFlag
    <2>3. CASE RequestStart(h)
      BY <2>3 DEF RequestStart
    <2>4. CASE DetachStop(h)
      BY <2>4 DEF DetachStop
    <2>5. CASE NullStop(h)
      BY <2>5 DEF NullStop
    <2>6. CASE MarkStopped(h)
      BY <2>6 DEF MarkStopped
    <2> QED
      BY <1>2, <2>1, <2>2, <2>3, <2>4, <2>5, <2>6 DEF Handling
  <1>3. CASE SetRefs
    BY <1>3 DEF SetRefs
  <1>4. CASE EnsureStarted
    BY <1>4 DEF EnsureStarted
  <1>5. CASE WatchdogTimeout
    BY <1>5 DEF WatchdogTimeout
  <1>6. CASE MarkStalled
    BY <1>6 DEF MarkStalled
  <1>7. ASSUME NEW t \in Threads, Starting(t) \/ NullOld(t) PROVE TypeOK'
    <2>1. CASE LockStart(t)
      BY <2>1 DEF LockStart
    <2>2. CASE Detach(t)
      BY <2>2 DEF Detach
    <2>3. CASE NullOld(t)
      BY <2>3 DEF NullOld
    <2>4. CASE CheckActive(t)
      BY <2>4 DEF CheckActive
    <2>5. CASE Clear(t)
      BY <2>5 DEF Clear
    <2>6. ASSUME NEW p \in Pipelines, Launch(t, p) PROVE TypeOK'
      BY <2>6 DEF Launch
    <2>7. CASE LaunchFails(t)
      BY <2>7 DEF LaunchFails
    <2>8. CASE MarkStarting(t)
      BY <2>8 DEF MarkStarting
    <2>9. CASE MarkFailed(t)
      BY <2>9 DEF MarkFailed
    <2> QED
      BY <1>7, <2>1, <2>2, <2>3, <2>4, <2>5, <2>6, <2>7, <2>8, <2>9 DEF Starting
  <1>8. ASSUME NEW p \in Pipelines, Streaming(p) PROVE TypeOK'
    BY <1>8 DEF Streaming, PushFrame, UpdateFrame, SignalFrame
  <1>9. CASE Restart
    BY <1>9 DEF Restart
  <1>10. CASE UNCHANGED vars
    BY <1>10 DEF vars
  <1> QED
    BY <1>1, <1>2, <1>3, <1>4, <1>5, <1>6, <1>7, <1>8, <1>9, <1>10 DEF Next, Step

\* The initial states satisfy the inductive invariant.
LEMMA InitIInv == Init => IInv
  <1> SUFFICES ASSUME Init PROVE IInv
    OBVIOUS
  <1>1. TypeOK
    BY TypeInit
  <1>2. \A t \in Threads : pc[t] = IF t = Main THEN "loading" ELSE "idle"
    BY DEF Init, Boot
  <1>3. /\ startLock = None /\ pipeLock = None /\ pipe = None /\ playing = {}
        /\ pipelineState = "idle" /\ Main \in Threads
    BY DEF Init, Boot, Threads
  <1>4. Locks
    BY <1>2, <1>3 DEF Locks, StartSection, BuildSection
  <1>5. Owned /\ NoLeakedPipeline
    BY <1>2, <1>3 DEF Owned, Nulling, NoLeakedPipeline
  <1>6. Loading /\ Launched /\ IdleComing
    BY <1>2, <1>3 DEF Loading, Launched, IdleComing
  <1>7. StopComing /\ StartComing
    BY <1>2, <1>3 DEF StopComing, Building, StartComing, StartPending
  <1> QED
    BY <1>1, <1>4, <1>5, <1>6, <1>7 DEF IInv

\* A process restart re-establishes it.
LEMMA RestartIInv == ASSUME TypeOK', Restart PROVE IInv'
  BY DEF Restart, IInv, Locks, Owned, Nulling, NoLeakedPipeline, Loading, Launched, StopComing,
         Building, StartComing, StartPending, IdleComing, Threads, StartSection, BuildSection

\* A new request: the flag it writes makes it a pending start or stop itself.
LEMMA RequestIInv ==
  ASSUME IInv, TypeOK', NEW h \in Handlers, NEW o \in Ops, Request(h, o) PROVE IInv'
  <1> USE DEF IInv, TypeOK, Threads, Ops, StartSection, BuildSection, flagVars, gstVars, lockVars,
              Request, Goto
  <1>1. Locks' /\ Loading' /\ Launched'
    BY DEF Locks, Loading, Launched
  <1>2. Owned' /\ NoLeakedPipeline'
    BY DEF Owned, Nulling, NoLeakedPipeline
  <1>3. StopComing'
    BY DEF StopComing, Building, StopPending
  <1>4. StartComing'
    BY DEF StartComing, StartPending
  <1>5. IdleComing'
    BY DEF IdleComing, Stopping, StopPending
  <1> QED
    BY <1>1, <1>2, <1>3, <1>4, <1>5

\* persist_settings and request_start.
LEMMA PersistIInv ==
  ASSUME IInv, TypeOK', NEW h \in Handlers, ReadFlag(h) \/ SaveFlag(h) \/ RequestStart(h)
  PROVE  IInv'
  <1> USE DEF IInv, TypeOK, Threads, Ops, StartSection, BuildSection, flagVars, gstVars, lockVars,
              Goto, AfterSave, Locks, Owned, Nulling, NoLeakedPipeline, Loading, Launched,
              StopComing, Building, StopPending, StartComing, StartPending, IdleComing, Stopping
  <1>1. CASE ReadFlag(h)
    BY <1>1 DEF ReadFlag
  <1>2. CASE SaveFlag(h)
    BY <1>2 DEF SaveFlag
  \* A start that finds no refs leaves main, still loading, to act on the flag.
  <1>3. CASE RequestStart(h)
    BY <1>3 DEF RequestStart
  <1> QED
    BY <1>1, <1>2, <1>3

\* stop_analysis.
LEMMA StopIInv ==
  ASSUME IInv, TypeOK', NEW h \in Handlers, DetachStop(h) \/ NullStop(h) \/ MarkStopped(h)
  PROVE  IInv'
  <1> USE DEF IInv, TypeOK, Threads, StartSection, BuildSection, flagVars, gstVars, lockVars,
              Goto, Return
  <1>1. CASE DetachStop(h)
    <2> USE <1>1 DEF DetachStop
    <2>1. Locks' /\ Loading' /\ Launched'
      BY DEF Locks, Loading, Launched
    <2>2. Owned' /\ NoLeakedPipeline'
      BY DEF Owned, Nulling, NoLeakedPipeline
    \* _pipeline_lock is free, so nobody is building.
    <2>3. StopComing'
      BY DEF StopComing, Building, Locks
    <2>4. StartComing' /\ IdleComing'
      BY DEF StartComing, StartPending, IdleComing, Stopping, StopPending
    <2> QED
      BY <2>1, <2>2, <2>3, <2>4
  <1>2. CASE NullStop(h)
    <2> USE <1>2 DEF NullStop
    <2>1. Owned' /\ NoLeakedPipeline'
      BY DEF Owned, Nulling, NoLeakedPipeline
    <2> QED
      BY <2>1 DEF Locks, Loading, Launched, StopComing, Building, StopPending, StartComing,
                  StartPending, IdleComing, Stopping
  <1>3. CASE MarkStopped(h)
    BY <1>3 DEF MarkStopped, Locks, Owned, Nulling, NoLeakedPipeline, Loading, Launched,
                StopComing, Building, StopPending, StartComing, StartPending, IdleComing, Stopping
  <1> QED
    BY <1>1, <1>2, <1>3

\* What main and the watchdog do before they call start_pipeline.
LEMMA CallerIInv ==
  ASSUME IInv, TypeOK', SetRefs \/ EnsureStarted \/ WatchdogTimeout \/ MarkStalled PROVE IInv'
  <1> USE DEF IInv, TypeOK, Threads, StartSection, BuildSection, flagVars, gstVars, lockVars,
              Goto, Return, Locks, Owned, Nulling, NoLeakedPipeline, Loading, Launched,
              StopComing, Building, StopPending, StartComing, StartPending, IdleComing, Stopping
  <1>1. CASE SetRefs
    BY <1>1 DEF SetRefs
  <1>2. CASE EnsureStarted
    BY <1>2 DEF EnsureStarted
  <1>3. CASE WatchdogTimeout
    BY <1>3 DEF WatchdogTimeout
  <1>4. CASE MarkStalled
    BY <1>4 DEF MarkStalled
  <1> QED
    BY <1>1, <1>2, <1>3, <1>4

\* start_pipeline up to the launch.
LEMMA PrepareIInv ==
  ASSUME IInv, TypeOK', NEW t \in Threads,
         LockStart(t) \/ Detach(t) \/ NullOld(t) \/ CheckActive(t) \/ Clear(t)
  PROVE  IInv'
  <1> USE DEF IInv, TypeOK, Threads, StartSection, BuildSection, flagVars, gstVars, lockVars,
              Goto, Return
  <1>1. CASE LockStart(t)
    BY <1>1 DEF LockStart, Locks, Owned, Nulling, NoLeakedPipeline, Loading, Launched,
                StopComing, Building, StopPending, StartComing, StartPending, IdleComing, Stopping
  <1>2. CASE Detach(t)
    <2> USE <1>2 DEF Detach
    <2>1. Locks' /\ Loading' /\ Launched'
      BY DEF Locks, Loading, Launched
    <2>2. Owned' /\ NoLeakedPipeline'
      BY DEF Owned, Nulling, NoLeakedPipeline
    <2>3. StopComing' /\ StartComing' /\ IdleComing'
      BY DEF StopComing, Building, StopPending, StartComing, StartPending, IdleComing, Stopping
    <2> QED
      BY <2>1, <2>2, <2>3
  <1>3. CASE NullOld(t)
    <2> USE <1>3 DEF NullOld
    <2>1. Owned' /\ NoLeakedPipeline'
      BY DEF Owned, Nulling, NoLeakedPipeline
    <2> QED
      BY <2>1 DEF Locks, Loading, Launched, StopComing, Building, StopPending, StartComing,
                  StartPending, IdleComing, Stopping
  \* Building begins only with the flag up; a skipped start leaves it down.
  <1>4. CASE CheckActive(t)
    <2> USE <1>4 DEF CheckActive
    <2>1. Locks' /\ Loading' /\ Launched'
      BY DEF Locks, Loading, Launched
    <2>2. Owned' /\ NoLeakedPipeline'
      BY DEF Owned, Nulling, NoLeakedPipeline
    <2>3. StopComing' /\ StartComing' /\ IdleComing'
      BY DEF StopComing, Building, StopPending, StartComing, StartPending, IdleComing, Stopping
    <2> QED
      BY <2>1, <2>2, <2>3
  <1>5. CASE Clear(t)
    BY <1>5 DEF Clear, Locks, Owned, Nulling, NoLeakedPipeline, Loading, Launched,
                StopComing, Building, StopPending, StartComing, StartPending, IdleComing, Stopping
  <1> QED
    BY <1>1, <1>2, <1>3, <1>4, <1>5

\* A launch replaces no pipeline: _pipeline is None, and the object is new.
LEMMA LaunchIInv ==
  ASSUME IInv, TypeOK', NEW t \in Threads, NEW p \in Pipelines, Launch(t, p) PROVE IInv'
  <1> USE DEF IInv, TypeOK, Threads, StartSection, BuildSection, flagVars, gstVars, lockVars,
              Goto, Launch
  <1>1. Locks' /\ Loading' /\ Launched'
    BY DEF Locks, Loading, Launched
  <1>2. pipe = None
    BY DEF Launched
  <1>3. \A u \in Threads : Nulling(u)' <=> Nulling(u)
    BY DEF Nulling
  <1>4. NoLeakedPipeline'
    BY <1>2, <1>3 DEF NoLeakedPipeline
  <1>5. \A u \in Threads : Nulling(u) => old[u] # p
    BY DEF NoLeakedPipeline, Owned
  <1>6. Owned'
    BY <1>3, <1>5 DEF Owned
  <1>7. StopComing' /\ StartComing' /\ IdleComing'
    BY DEF StopComing, Building, StopPending, StartComing, StartPending, IdleComing, Stopping
  <1> QED
    BY <1>1, <1>4, <1>6, <1>7

\* The end of start_pipeline, and of a failed one.
LEMMA FinishIInv ==
  ASSUME IInv, TypeOK', NEW t \in Threads, LaunchFails(t) \/ MarkStarting(t) \/ MarkFailed(t)
  PROVE  IInv'
  <1> USE DEF IInv, TypeOK, Threads, StartSection, BuildSection, flagVars, gstVars, lockVars,
              Goto, Return, Locks, Owned, Nulling, NoLeakedPipeline, Loading, Launched,
              StopComing, Building, StopPending, StartComing, StartPending, IdleComing, Stopping
  <1>1. CASE LaunchFails(t)
    BY <1>1 DEF LaunchFails
  \* A pipeline marked as starting with the flag down has a stop coming.
  <1>2. CASE MarkStarting(t)
    BY <1>2 DEF MarkStarting
  <1>3. CASE MarkFailed(t)
    BY <1>3 DEF MarkFailed
  <1> QED
    BY <1>1, <1>2, <1>3

\* on_new_sample.
LEMMA FrameIInv ==
  ASSUME IInv, TypeOK', NEW p \in Pipelines, Streaming(p) PROVE IInv'
  BY DEF IInv, Streaming, PushFrame, UpdateFrame, SignalFrame, flagVars, gstVars, lockVars, Locks,
         Owned, Nulling, NoLeakedPipeline, Loading, Launched, StopComing, Building, StopPending,
         StartComing, StartPending, IdleComing, Stopping

\* Every step keeps the invariant.
LEMMA NextIInv == IInv /\ [Next]_vars => IInv'
  <1> SUFFICES ASSUME IInv, [Next]_vars PROVE IInv'
    OBVIOUS
  <1>1. TypeOK'
    BY TypeNext DEF IInv
  <1>2. ASSUME NEW h \in Handlers, NEW o \in Ops, Request(h, o) PROVE IInv'
    BY <1>1, <1>2, RequestIInv
  <1>3. ASSUME NEW h \in Handlers, Handling(h) \/ NullStop(h) PROVE IInv'
    BY <1>1, <1>3, PersistIInv, StopIInv DEF Handling
  <1>4. CASE SetRefs \/ EnsureStarted \/ WatchdogTimeout \/ MarkStalled
    BY <1>1, <1>4, CallerIInv
  <1>5. ASSUME NEW t \in Threads, Starting(t) \/ NullOld(t) PROVE IInv'
    BY <1>1, <1>5, PrepareIInv, LaunchIInv, FinishIInv DEF Starting
  <1>6. ASSUME NEW p \in Pipelines, Streaming(p) PROVE IInv'
    BY <1>1, <1>6, FrameIInv
  <1>7. CASE Restart
    BY <1>1, <1>7, RestartIInv
  <1>8. CASE UNCHANGED vars
    BY <1>1, <1>8 DEF IInv, vars, flagVars, gstVars, lockVars, Locks, Owned, Nulling,
                      NoLeakedPipeline, Loading, Launched, StopComing, Building, StopPending,
                      StartComing, StartPending, IdleComing, Stopping
  <1> QED
    BY <1>2, <1>3, <1>4, <1>5, <1>6, <1>7, <1>8 DEF Next, Step

\* In a quiet state nobody is coming any more.
LEMMA QuietFacts ==
  ASSUME IInv
  PROVE  StopWins /\ StartWins /\ StoppedNotShownRunning
  <1> SUFFICES ASSUME Quiet PROVE StopWins /\ StartWins /\ StoppedNotShownRunning
    BY DEF StopWins, StartWins, StoppedNotShownRunning
  <1>1. \A t \in Threads : ~Nulling(t) /\ ~StartPending(t)
    BY DEF Quiet, Nulling, StartPending, StartSection
  <1>2. \A h \in Handlers : ~StopPending(h) /\ ~Stopping(h)
    BY DEF Quiet, StopPending, Stopping, Threads
  <1>3. playing = {pipe} \ {None}
    BY <1>1 DEF IInv, NoLeakedPipeline
  <1>4. StopWins
    BY <1>2, <1>3 DEF StopWins, IInv, StopComing
  <1>5. StartWins
    BY <1>1, <1>3 DEF StartWins, IInv, StartComing
  <1>6. StoppedNotShownRunning
    BY <1>2 DEF StoppedNotShownRunning, IInv, IdleComing
  <1> QED
    BY <1>4, <1>5, <1>6

\* The inductive invariant holds in every behaviour.
LEMMA Invariance == Spec => []IInv
  BY InitIInv, NextIInv, PTL DEF Spec

\* The types of the lifecycle's state hold in every behaviour.
THEOREM TypeCorrect == Spec => []TypeOK
  <1>1. IInv => TypeOK
    BY DEF IInv
  <1> QED
    BY <1>1, Invariance, PTL

\* start_pipeline and stop_analysis never lose track of a playing pipeline.
THEOREM NoLeak == Spec => []NoLeakedPipeline
  <1>1. IInv => NoLeakedPipeline
    BY DEF IInv
  <1> QED
    BY <1>1, Invariance, PTL

\* After all calls have returned, a lowered flag means that nothing plays.
THEOREM StopWinsAlways == Spec => []StopWins
  BY QuietFacts, Invariance, PTL

\* After all calls have returned, a raised flag means that the current
\* pipeline, and nothing else, plays, unless its build failed.
THEOREM StartWinsAlways == Spec => []StartWins
  BY QuietFacts, Invariance, PTL

\* After all calls have returned, a stopped analyzer is not displayed as
\* starting, restarting or streaming.
THEOREM StoppedDisplay == Spec => []StoppedNotShownRunning
  BY QuietFacts, Invariance, PTL

\* Neither lock can be waited for in a circle: _pipeline_lock is held only by
\* a builder, who waits for no lock and is outside set_state(NULL), and it is
\* free whenever the holder of _start_lock wants it.
LocksFree ==
  /\ pipeLock # None => pc[pipeLock] \in BuildSection /\ ~Nulling(pipeLock)
  /\ \A t \in Threads : pc[t] \in {"detach", "checkActive"} => startLock = t /\ pipeLock = None

\* start_pipeline, stop_analysis: a set_state(NULL) that hangs keeps nobody
\* from _pipeline_lock, and start_pipeline never waits for the second of its
\* two locks.  This is the safety part of StopNotStarved.
THEOREM NoLockCycle == Spec => []LocksFree
  <1>1. IInv => LocksFree
    <2> SUFFICES ASSUME IInv PROVE LocksFree
      OBVIOUS
    <2>1. pipeLock \in Threads \cup {None} /\ startLock \in Threads \cup {None} /\ Locks
      BY DEF IInv, TypeOK
    <2>2. pipeLock # None => pc[pipeLock] \in BuildSection /\ ~Nulling(pipeLock)
      BY <2>1 DEF Locks, BuildSection, Nulling
    <2>3. ASSUME NEW t \in Threads, pc[t] \in {"detach", "checkActive"}
          PROVE  startLock = t /\ pipeLock = None
      <3>1. startLock = t
        BY <2>1, <2>3 DEF Locks, StartSection
      <3>2. ASSUME pipeLock # None PROVE FALSE
        <4>1. pipeLock \in Threads /\ pc[pipeLock] \in StartSection
          BY <2>1, <2>2, <3>2 DEF BuildSection, StartSection
        <4>2. pipeLock = t
          BY <2>1, <3>1, <4>1 DEF Locks
        <4> QED
          BY <2>2, <2>3, <3>2, <4>2 DEF BuildSection
      <3> QED
        BY <3>1, <3>2
    <2> QED
      BY <2>2, <2>3 DEF LocksFree
  <1> QED
    BY <1>1, Invariance, PTL

-----------------------------------------------------------------------------
\* Unless the last persist_settings was disturbed, at most one handler is about
\* to write; what it is about to write is the flag, and what the file says is
\* the flag, unless some handler has changed the flag and not read it yet (or,
\* for the file, not written it yet).
Persisted ==
  ~disturbed =>
    /\ \A g, h \in Handlers : pc[g] = "saveFlag" /\ pc[h] = "saveFlag" => g = h
    /\ \/ \E h \in Handlers : pc[h] = "readFlag"
       \/ \A h \in Handlers : pc[h] = "saveFlag" => snapshot[h] = active
    /\ \/ \E h \in Handlers : pc[h] \in {"readFlag", "saveFlag"}
       \/ saved = active

\* Main, the watchdog, a (re)start and a frame leave flag, file and snapshots
\* alone and bring no thread into persist_settings or out of it.
LEMMA PersistedKept ==
  ASSUME Persisted, UNCHANGED <<active, saved, snapshot, disturbed>>,
         \A h \in Handlers : /\ pc[h] \in {"readFlag", "saveFlag"} => pc'[h] = pc[h]
                             /\ pc'[h] = "saveFlag" => pc[h] = "saveFlag"
  PROVE  Persisted'
  BY DEF Persisted

\* The two steps of persist_settings.
LEMMA SavePersisted ==
  ASSUME TypeOK, Persisted, NEW h \in Handlers, ReadFlag(h) \/ SaveFlag(h) PROVE Persisted'
  <1>0. /\ pc \in [Threads -> Locations] /\ snapshot \in [Handlers -> BOOLEAN]
        /\ op \in [Handlers -> Ops] /\ h \in Threads /\ \A g \in Handlers : g \in Threads
    BY DEF TypeOK, Threads
  <1>1. \A g \in Handlers : g # h => pc'[g] = pc[g]
    BY <1>0 DEF ReadFlag, SaveFlag, Goto
  <1>2. CASE ReadFlag(h)
    <2>1. /\ pc'[h] = "saveFlag" /\ snapshot'[h] = active /\ active' = active
          /\ disturbed' = \E g \in Handlers \ {h} : pc[g] = "saveFlag"
      BY <1>0, <1>2 DEF ReadFlag, Goto
    <2> QED
      BY <2>1, <1>1 DEF Persisted
  <1>3. CASE SaveFlag(h)
    <2>1. /\ pc[h] = "saveFlag" /\ pc'[h] \notin {"readFlag", "saveFlag"}
          /\ active' = active /\ snapshot' = snapshot
          /\ (saved' = snapshot[h] /\ disturbed' = disturbed) \/ disturbed'
      BY <1>0, <1>3 DEF SaveFlag, Goto, AfterSave
    <2>2. CASE disturbed'
      BY <2>2 DEF Persisted
    <2>3. CASE ~disturbed'
      <3>1. ~disturbed /\ saved' = snapshot[h]
        BY <2>1, <2>3
      <3>2. CASE \E g \in Handlers : pc[g] = "readFlag"
        <4>1. \E g \in Handlers : pc'[g] = "readFlag"
          BY <3>2, <2>1, <1>1
        <4> QED
          BY <3>1, <4>1, <2>1, <1>1 DEF Persisted
      <3>3. CASE ~\E g \in Handlers : pc[g] = "readFlag"
        <4>1. saved' = active'
          BY <3>1, <3>3, <2>1 DEF Persisted
        <4>2. \A g \in Handlers : pc'[g] # "saveFlag"
          BY <3>1, <2>1, <1>1 DEF Persisted
        <4> QED
          BY <4>1, <4>2 DEF Persisted
      <3> QED
        BY <3>2, <3>3
    <2> QED
      BY <2>2, <2>3
  <1> QED
    BY <1>2, <1>3

\* Every step keeps the file in agreement with the flag, as far as that goes.
LEMMA NextPersisted ==
  ASSUME TypeOK, Persisted, [Next]_vars PROVE Persisted'
  <1>0. /\ pc \in [Threads -> Locations]
        /\ Main \in Threads /\ Watchdog \in Threads
        /\ \A h \in Handlers : h \in Threads
    BY DEF TypeOK, Threads
  <1>1. ASSUME NEW h \in Handlers, NEW o \in Ops, Request(h, o) PROVE Persisted'
    <2>1. /\ pc'[h] = "readFlag" /\ disturbed' = disturbed
          /\ \A g \in Handlers : g # h => pc'[g] = pc[g]
      BY <1>0, <1>1 DEF Request, Goto
    <2> QED
      BY <2>1, <1>1 DEF Persisted
  <1>2. ASSUME NEW h \in Handlers, Handling(h) \/ NullStop(h) PROVE Persisted'
    <2>1. CASE ReadFlag(h) \/ SaveFlag(h)
      BY <2>1, SavePersisted
    <2>2. CASE RequestStart(h) \/ DetachStop(h) \/ MarkStopped(h) \/ NullStop(h)
      <3>1. UNCHANGED <<active, saved, snapshot, disturbed>>
        BY <2>2 DEF RequestStart, DetachStop, MarkStopped, NullStop, flagVars
      <3>2. /\ pc[h] \notin {"readFlag", "saveFlag"} /\ pc'[h] # "saveFlag"
            /\ \A g \in Handlers : g # h => pc'[g] = pc[g]
        BY <1>0, <2>2 DEF RequestStart, DetachStop, MarkStopped, NullStop, Goto, Return
      <3> QED
        BY <3>1, <3>2, PersistedKept
    <2> QED
      BY <1>2, <2>1, <2>2 DEF Handling
  <1>3. CASE SetRefs \/ EnsureStarted \/ WatchdogTimeout \/ MarkStalled
    <2>1. UNCHANGED <<active, saved, snapshot, disturbed>>
      BY <1>3 DEF SetRefs, EnsureStarted, WatchdogTimeout, MarkStalled, flagVars
    <2>2. \A g \in Handlers : pc'[g] = pc[g]
      BY <1>0, <1>3 DEF SetRefs, EnsureStarted, WatchdogTimeout, MarkStalled, Goto, Return
    <2> QED
      BY <2>1, <2>2, PersistedKept
  <1>4. ASSUME NEW t \in Threads, Starting(t) \/ NullOld(t) PROVE Persisted'
    <2> USE DEF Starting, LockStart, Detach, CheckActive, Clear, Launch, LaunchFails,
                MarkStarting, MarkFailed, NullOld
    <2>1. UNCHANGED <<active, saved, snapshot, disturbed>>
      BY <1>4 DEF flagVars
    <2>2. /\ pc[t] \notin {"readFlag", "saveFlag"} /\ pc'[t] # "saveFlag"
          /\ \A g \in Handlers : g # t => pc'[g] = pc[g]
      BY <1>0, <1>4 DEF Goto, Return
    <2> QED
      BY <2>1, <2>2, PersistedKept
  <1>5. ASSUME NEW p \in Pipelines, Streaming(p) PROVE Persisted'
    BY <1>5, PersistedKept DEF Streaming, PushFrame, UpdateFrame, SignalFrame, flagVars
  <1>6. CASE Restart
    BY <1>0, <1>6 DEF Restart, Persisted
  <1>7. CASE UNCHANGED vars
    BY <1>7, PersistedKept DEF vars, flagVars
  <1> QED
    BY <1>1, <1>2, <1>3, <1>4, <1>5, <1>6, <1>7 DEF Next, Step

\* persist_settings, for any number of overlapping requests and any failures:
\* the settings file agrees with the flag whenever all calls have returned,
\* except from a call that began while another was about to write, or a failed
\* write, up to the next call that meets neither.
THEOREM UndisturbedSaves == Spec => []UndisturbedSaveAgrees
  <1>1. Init => Persisted
    BY DEF Init, Boot, Persisted, Threads
  <1>2. TypeOK /\ Persisted /\ [Next]_vars => Persisted'
    BY NextPersisted
  <1>3. Persisted => UndisturbedSaveAgrees
    BY DEF Persisted, UndisturbedSaveAgrees, Quiet, Threads
  <1> QED
    BY <1>1, <1>2, <1>3, TypeCorrect, PTL DEF Spec

-----------------------------------------------------------------------------
USE InferenceAssumption

\* Every step of the analyzer is a step of the lifecycle or leaves it alone.
LEMMA StepSimulation == ASSUME [InferNext]_allVars PROVE [Next]_vars
  <1>1. CASE UNCHANGED allVars
    BY <1>1 DEF allVars
  <1>2. ASSUME NEW h \in Handlers, NEW o \in Ops, RequestAndClear(h, o) PROVE [Next]_vars
    BY <1>2 DEF RequestAndClear, Next, Step
  <1>3. ASSUME NEW h \in Handlers, Untouched(Handling(h) \/ NullStop(h)) PROVE [Next]_vars
    BY <1>3 DEF Untouched, Next, Step
  <1>4. CASE Untouched(SetRefs \/ EnsureStarted \/ WatchdogTimeout \/ MarkStalled)
    BY <1>4 DEF Untouched, Next, Step
  <1>5. ASSUME NEW t \in Threads, StartingInfer(t) \/ Untouched(NullOld(t)) PROVE [Next]_vars
    BY <1>5 DEF StartingInfer, ClearRing, LaunchFresh, Untouched, Starting, Next, Step
  <1>6. ASSUME NEW p \in Pipelines, PushRing(p) \/ Untouched(UpdateFrame(p)) \/ SignalWorker(p)
        PROVE [Next]_vars
    BY <1>6 DEF PushRing, SignalWorker, Untouched, Streaming, Next, Step
  <1>7. CASE WorkerStep
    BY <1>7 DEF WorkerStep, TakeSignal, DropSignal, PassGate, TakeSamples, InferOk, InferFails,
                Recheck, UpdateInference, NotifyRecorder
  <1>8. CASE SigtermRestart \/ RestartAll
    BY <1>8 DEF SigtermRestart, RestartAll, Next
  <1> QED
    BY <1>1, <1>2, <1>3, <1>4, <1>5, <1>6, <1>7, <1>8 DEF InferNext, InferStep

\* The analyzer with its inference worker implements the lifecycle: neither
\* the ring, the queue nor the worker adds a step to start_pipeline,
\* stop_analysis or the watchdog.
THEOREM ImplementsPipeline == InferSpec => Spec
  <1>1. InferInit => Init
    BY DEF InferInit
  <1>2. [InferNext]_allVars => [Next]_vars
    BY StepSimulation
  <1> QED
    BY <1>1, <1>2, PTL DEF InferSpec, Spec

\* In the analyzer with its inference worker, too, no pipeline object is lost
\* track of and the latest flag wins (start_pipeline, stop_analysis).
THEOREM LifecycleHolds == InferSpec => [](NoLeakedPipeline /\ StopWins /\ StartWins)
  BY ImplementsPipeline, NoLeak, StopWinsAlways, StartWinsAlways, PTL

-----------------------------------------------------------------------------
\* The ring after clear(), and the samples between two inferences.
LEMMA NoFramesType ==
  NoFrames \in Seq(Pipelines) /\ Len(NoFrames) <= RingSize /\ Len(NoFrames) <= NFrames
  <1>1. NoFrames \in Seq(Pipelines) /\ Len(NoFrames) = 0
    BY EmptySeq DEF NoFrames
  <1> QED
    BY <1>1

\* What Latest returns is a suffix of at most n elements.
LEMMA LatestType ==
  ASSUME NEW S, NEW s \in Seq(S), NEW n \in Nat \ {0}
  PROVE  /\ Latest(s, n) \in Seq(S)
         /\ Len(Latest(s, n)) <= n
         /\ s # NoFrames => Latest(s, n) # NoFrames
  <1>1. CASE Len(s) <= n
    BY <1>1 DEF Latest
  <1>2. CASE ~(Len(s) <= n)
    <2> DEFINE m == Len(s) - n + 1
    <2>1. m \in 1..Len(s) /\ Len(s) \in Nat
      BY <1>2
    <2>2. Latest(s, n) = SubSeq(s, m, Len(s))
      BY <1>2 DEF Latest
    <2>3. \A i \in m..Len(s) : s[i] \in S
      BY <2>1
    <2>4. SubSeq(s, m, Len(s)) \in Seq(S) /\ Len(SubSeq(s, m, Len(s))) = Len(s) - m + 1
      <3> HIDE DEF m
      <3> QED
        BY <2>1, <2>3, SubSeqProperties
    <2>5. Len(SubSeq(s, m, Len(s))) = n /\ n # 0
      BY <2>1, <2>4
    <2>6. Len(NoFrames) = 0
      BY EmptySeq DEF NoFrames
    <2> HIDE DEF m
    <2> QED
      BY <2>2, <2>4, <2>5, <2>6
  <1> QED
    BY <1>1, <1>2

\* A judgment about to be shown while the flag is down passed the recheck
\* before the stop came.
InFlight == worker = "show" /\ ~active => lateStop

\* The worker has its failures below the limit while it runs.
Counting == worker # "exited" => failures < MaxInferFailures

InferIInv == TypeOK /\ InferTypeOK /\ Counting /\ InFlight /\ StoppedShowsNothing

LEMMA InferInitIInv == InferInit => InferIInv
  <1> SUFFICES ASSUME InferInit PROVE InferIInv
    OBVIOUS
  <1>1. TypeOK
    BY TypeInit DEF InferInit
  <1>2. failures \in 0..MaxInferFailures
    BY DEF InferInit
  <1>3. InferTypeOK
    BY <1>2, NoFramesType DEF InferInit, InferTypeOK
  <1>4. Counting /\ InFlight /\ StoppedShowsNothing
    BY DEF InferInit, Counting, InFlight, StoppedShowsNothing
  <1> QED
    BY <1>1, <1>3, <1>4 DEF InferIInv

\* Steps that leave the worker's variables alone and do not lower the flag.
LEMMA UntouchedIInv ==
  ASSUME InferIInv, TypeOK', UNCHANGED inferVars, active' = active PROVE InferIInv'
  BY DEF InferIInv, InferTypeOK, Counting, InFlight, inferVars, stopVars, StoppedShowsNothing

\* Only a request and a restart change the flag.
LEMMA FlagKept ==
  /\ \A h \in Handlers : Handling(h) \/ NullStop(h) => active' = active
  /\ SetRefs \/ EnsureStarted \/ WatchdogTimeout \/ MarkStalled => active' = active
  /\ \A t \in Threads : Starting(t) \/ NullOld(t) => active' = active
  /\ \A p \in Pipelines : Streaming(p) => active' = active
  BY DEF Handling, ReadFlag, SaveFlag, RequestStart, DetachStop, MarkStopped, NullStop, SetRefs,
         EnsureStarted, WatchdogTimeout, MarkStalled, Starting, LockStart, Detach, CheckActive,
         Clear, Launch, LaunchFails, MarkStarting, MarkFailed, NullOld, Streaming, PushFrame,
         UpdateFrame, SignalFrame, flagVars

\* The steps of inference_worker.
LEMMA WorkerIInv == ASSUME InferIInv, TypeOK', WorkerStep PROVE InferIInv'
  <1> USE DEF InferIInv, InferTypeOK, Counting, InFlight, stopVars, StoppedShowsNothing,
              WorkerGoto, EndInference
  <1>0. active' = active
    BY DEF WorkerStep, TakeSignal, DropSignal, PassGate, TakeSamples, InferOk, InferFails,
           Recheck, UpdateInference, NotifyRecorder, vars, flagVars
  <1>1. CASE TakeSignal \/ DropSignal \/ PassGate
    <2>1. /\ UNCHANGED <<ring, samples, failures, shown, stopSeen, lateStop>>
          /\ queued' \in BOOLEAN /\ worker' \in {"gate", "wait", "sample"}
          /\ worker # "exited"
      BY <1>1 DEF TakeSignal, DropSignal, PassGate, stopVars
    <2> QED
      BY <1>0, <2>1
  <1>2. CASE TakeSamples
    <2>1. CASE ring = NoFrames
      BY <1>2, <2>1, <1>0 DEF TakeSamples
    <2>2. CASE ring # NoFrames
      <3>1. /\ Latest(ring, NFrames) \in Seq(Pipelines)
            /\ Len(Latest(ring, NFrames)) <= NFrames
            /\ Latest(ring, NFrames) # NoFrames
        BY <2>2, LatestType
      <3> QED
        BY <1>2, <2>2, <3>1, <1>0 DEF TakeSamples
    <2> QED
      BY <2>1, <2>2
  <1>3. CASE InferOk
    BY <1>3, <1>0, NoFramesType DEF InferOk, stopVars
  <1>4. CASE InferFails
    <2>1. /\ failures' \in 0..MaxInferFailures
          /\ worker' # "exited" => failures' < MaxInferFailures
      BY <1>4 DEF InferFails
    <2> QED
      BY <1>4, <1>0, <2>1, NoFramesType DEF InferFails
  <1>5. CASE Recheck
    BY <1>5, <1>0, NoFramesType DEF Recheck
  <1>6. CASE UpdateInference
    BY <1>6, <1>0 DEF UpdateInference
  <1>7. CASE NotifyRecorder
    BY <1>7, <1>0, NoFramesType DEF NotifyRecorder
  <1> QED
    BY <1>1, <1>2, <1>3, <1>4, <1>5, <1>6, <1>7 DEF WorkerStep

\* Every step preserves the invariant.
LEMMA InferNextIInv == InferIInv /\ [InferNext]_allVars => InferIInv'
  <1> SUFFICES ASSUME InferIInv, [InferNext]_allVars PROVE InferIInv'
    OBVIOUS
  <1>0. TypeOK'
    BY StepSimulation, TypeNext DEF InferIInv
  <1>1. CASE UNCHANGED allVars
    BY <1>0, <1>1, UntouchedIInv DEF allVars, vars, flagVars
  <1>2. ASSUME NEW h \in Handlers, NEW o \in Ops, RequestAndClear(h, o) PROVE InferIInv'
    BY <1>0, <1>2 DEF RequestAndClear, Request, InferIInv, InferTypeOK, Counting,
       InFlight, stopVars, StoppedShowsNothing, Ops
  <1>3. ASSUME NEW h \in Handlers, Untouched(Handling(h) \/ NullStop(h)) PROVE InferIInv'
    BY <1>0, <1>3, FlagKept, UntouchedIInv DEF Untouched
  <1>4. CASE Untouched(SetRefs \/ EnsureStarted \/ WatchdogTimeout \/ MarkStalled)
    BY <1>0, <1>4, FlagKept, UntouchedIInv DEF Untouched
  <1>5. ASSUME NEW t \in Threads, StartingInfer(t) \/ Untouched(NullOld(t)) PROVE InferIInv'
    <2>1. active' = active
      BY <1>5, FlagKept DEF StartingInfer, ClearRing, LaunchFresh, Untouched, Starting
    <2>2. CASE ClearRing(t)
      BY <1>0, <2>1, <2>2, NoFramesType DEF ClearRing, InferIInv, InferTypeOK, Counting,
         InFlight, stopVars, StoppedShowsNothing
    <2>3. CASE UNCHANGED inferVars
      BY <1>0, <2>1, <2>3, UntouchedIInv
    <2> QED
      BY <1>5, <2>2, <2>3 DEF StartingInfer, LaunchFresh, Untouched
  <1>6. ASSUME NEW p \in Pipelines, PushRing(p) \/ Untouched(UpdateFrame(p)) \/ SignalWorker(p)
        PROVE InferIInv'
    <2>1. active' = active
      BY <1>6, FlagKept DEF PushRing, SignalWorker, Untouched, Streaming
    <2>2. CASE PushRing(p)
      <3>1. Append(ring, p) \in Seq(Pipelines)
        BY DEF InferIInv, InferTypeOK
      <3>2. /\ Latest(Append(ring, p), RingSize) \in Seq(Pipelines)
            /\ Len(Latest(Append(ring, p), RingSize)) <= RingSize
        BY <3>1, LatestType
      <3> QED
        BY <1>0, <2>1, <2>2, <3>2 DEF PushRing, InferIInv, InferTypeOK, Counting,
           InFlight, stopVars, StoppedShowsNothing
    <2>3. CASE Untouched(UpdateFrame(p))
      BY <1>0, <2>1, <2>3, UntouchedIInv DEF Untouched
    <2>4. CASE SignalWorker(p)
      BY <1>0, <2>1, <2>4 DEF SignalWorker, InferIInv, InferTypeOK, Counting, InFlight,
         stopVars, StoppedShowsNothing
    <2> QED
      BY <1>6, <2>2, <2>3, <2>4
  <1>7. CASE WorkerStep
    BY <1>0, <1>7, WorkerIInv
  <1>8. CASE SigtermRestart \/ RestartAll
    <2>1. RestartAll
      BY <1>8 DEF SigtermRestart
    <2>2. failures' \in 0..MaxInferFailures /\ failures' < MaxInferFailures
      BY <2>1 DEF RestartAll
    <2>3. InferTypeOK'
      BY <2>1, <2>2, NoFramesType DEF RestartAll, InferTypeOK
    <2>4. InFlight' /\ Counting' /\ StoppedShowsNothing'
      BY <2>1, <2>2 DEF RestartAll, InFlight, Counting, StoppedShowsNothing
    <2> QED
      BY <1>0, <2>3, <2>4 DEF InferIInv
  <1> QED
    BY <1>1, <1>2, <1>3, <1>4, <1>5, <1>6, <1>7, <1>8 DEF InferNext, InferStep

\* The ring never outgrows RING_SIZE, an inference never gets more than
\* N_FRAMES frames and the failure count never passes its limit.
THEOREM InferTypeCorrect == InferSpec => []InferTypeOK
  <1>1. InferIInv => InferTypeOK
    BY DEF InferIInv
  <1> QED
    BY <1>1, InferInitIInv, InferNextIInv, PTL DEF InferSpec

\* set_analysis_active, inference_worker: a stopped analyzer displays no
\* judgment, for any overlapping requests, unless the stop came between the
\* recheck of the flag and update_inference.
THEOREM StoppedDisplaysNothing == InferSpec => []StoppedShowsNothing
  <1>1. InferIInv => StoppedShowsNothing
    BY DEF InferIInv
  <1> QED
    BY <1>1, InferInitIInv, InferNextIInv, PTL DEF InferSpec

-----------------------------------------------------------------------------
\* What Latest returns consists of elements of the sequence.
LEMMA LatestFrames ==
  ASSUME NEW S, NEW s \in Seq(S), NEW n \in Nat \ {0}
  PROVE  Frames(Latest(s, n)) \subseteq Frames(s)
  <1>1. CASE Len(s) <= n
    BY <1>1 DEF Latest
  <1>2. CASE ~(Len(s) <= n)
    <2> DEFINE m == Len(s) - n + 1
    <2>1. m \in 1..Len(s) /\ Len(s) \in Nat /\ DOMAIN s = 1..Len(s)
      BY <1>2
    <2>2. Latest(s, n) = SubSeq(s, m, Len(s))
      BY <1>2 DEF Latest
    <2> HIDE DEF m
    <2>3. /\ SubSeq(s, m, Len(s)) \in Seq(S)
          /\ Len(SubSeq(s, m, Len(s))) = Len(s) - m + 1
          /\ \A i \in 1..(Len(s) - m + 1) : SubSeq(s, m, Len(s))[i] = s[m + i - 1]
      BY <2>1, SubSeqProperties
    <2>4. DOMAIN SubSeq(s, m, Len(s)) = 1..(Len(s) - m + 1)
      BY <2>3
    <2>5. \A i \in 1..(Len(s) - m + 1) : m + i - 1 \in 1..Len(s)
      BY <2>1
    <2>6. \A i \in DOMAIN SubSeq(s, m, Len(s)) : SubSeq(s, m, Len(s))[i] \in Frames(s)
      BY <2>1, <2>3, <2>4, <2>5 DEF Frames
    <2> QED
      BY <2>2, <2>6 DEF Frames
  <1> QED
    BY <1>1, <1>2

\* A ring that is not empty has a frame.
LEMMA SomeFrame ==
  ASSUME NEW S, NEW s \in Seq(S), s # NoFrames PROVE Frames(s) # {}
  <1>1. Len(s) # 0 /\ Len(s) \in Nat /\ DOMAIN s = 1..Len(s)
    BY EmptySeq DEF NoFrames
  <1>2. 1 \in DOMAIN s
    BY <1>1
  <1> QED
    BY <1>2 DEF Frames

\* A frame is appended to what the ring holds.
LEMMA PushedFrames ==
  ASSUME NEW S, NEW s \in Seq(S), NEW p \in S
  PROVE  Frames(Append(s, p)) \subseteq Frames(s) \cup {p}
  <1>1. /\ Append(s, p) \in Seq(S) /\ Len(Append(s, p)) = Len(s) + 1
        /\ \A i \in 1..Len(s) : Append(s, p)[i] = s[i]
        /\ Append(s, p)[Len(s) + 1] = p
    BY AppendProperties
  <1>2. /\ DOMAIN Append(s, p) = 1..(Len(s) + 1) /\ DOMAIN s = 1..Len(s)
        /\ Len(s) \in Nat
    BY <1>1
  <1>3. ASSUME NEW i \in DOMAIN Append(s, p) PROVE Append(s, p)[i] \in Frames(s) \cup {p}
    <2>1. i \in 1..Len(s) \/ i = Len(s) + 1
      BY <1>2
    <2> QED
      BY <1>1, <1>2, <2>1 DEF Frames
  <1> QED
    BY <1>3 DEF Frames

\* One handler thread at a time: the requests of one client, one by one.
OneHandler == \A g, h \in Handlers : g = h

\* A stop between its detach and the end of set_state(NULL): nobody builds
\* meanwhile, and nobody will, as no other handler raises the flag.
StopHolds ==
  \A u \in Threads : pc[u] = "nullStop" =>
    /\ u \in Handlers /\ ~active /\ pipe = None
    /\ \A t \in Threads : pc[t] \notin BuildSection

\* From the clear to the launch nothing plays, so the ring stays empty; then
\* only the current pipeline feeds it.
RingCurrent ==
  /\ \A t \in Threads : pc[t] = "launch" => ring = NoFrames
  /\ pipe # None => Frames(ring) \subseteq {pipe}

\* While a thread builds, nothing plays; once a pipeline is in place, nothing
\* else does.
LEMMA NothingElsePlays ==
  ASSUME IInv, StopHolds
  PROVE  /\ (\E t \in Threads : pc[t] = "launch") => playing = {}
         /\ pipe # None => playing = {pipe}
  <1>1. ASSUME NEW t \in Threads, pc[t] = "launch" PROVE playing = {}
    <2>1. ASSUME NEW u \in Threads PROVE ~Nulling(u)
      BY <1>1 DEF IInv, Locks, StartSection, BuildSection, StopHolds, Nulling
    <2>2. pipe = None
      BY <1>1 DEF IInv, Launched
    <2> QED
      BY <2>1, <2>2 DEF IInv, NoLeakedPipeline
  <1>2. ASSUME pipe # None PROVE playing = {pipe}
    <2>1. ASSUME NEW u \in Threads PROVE ~Nulling(u)
      BY <1>2 DEF IInv, Launched, StopHolds, Nulling
    <2> QED
      BY <1>2, <2>1 DEF IInv, NoLeakedPipeline
  <1> QED
    BY <1>1, <1>2

\* A stop keeps everybody from building: the builder holds _pipeline_lock from
\* the active check on, and the detach waits for it.
LEMMA NextStopHolds ==
  ASSUME OneHandler, IInv, StopHolds, [Next]_vars PROVE StopHolds'
  <1>0. /\ pc \in [Threads -> Locations] /\ Main \in Threads /\ Watchdog \in Threads
        /\ Main \notin Handlers /\ Watchdog \notin Handlers
        /\ \A h \in Handlers : h \in Threads
    BY DEF IInv, TypeOK, Threads
  <1> USE DEF BuildSection
  <1>1. ASSUME NEW h \in Handlers, NEW o \in Ops, Request(h, o) PROVE StopHolds'
    <2>1. \A u \in Threads : pc[u] # "nullStop"
      BY <1>1 DEF StopHolds, OneHandler, Request
    <2>2. \A u \in Threads : pc'[u] # "nullStop"
      BY <1>0, <1>1, <2>1 DEF Request, Goto
    <2> QED
      BY <2>2 DEF StopHolds
  <1>2. ASSUME NEW h \in Handlers, Handling(h) \/ NullStop(h) PROVE StopHolds'
    <2>1. CASE DetachStop(h)
      <3>1. \A t \in Threads : pc[t] \notin BuildSection
        BY <2>1 DEF DetachStop, IInv, Locks
      <3>2. CASE active
        <4>1. /\ active' = active /\ pipe' = pipe /\ pc'[h] = "idle"
              /\ \A u \in Threads : u # h => pc'[u] = pc[u]
          BY <1>0, <2>1, <3>2 DEF DetachStop, Return, Goto, flagVars
        <4> QED
          BY <4>1, <3>2 DEF StopHolds
      <3>3. CASE ~active
        <4>1. /\ active' = active /\ pipe' = None /\ pc'[h] \in {"markStop", "nullStop"}
              /\ \A u \in Threads : u # h => pc'[u] = pc[u]
          BY <1>0, <2>1, <3>3 DEF DetachStop, Goto, flagVars
        <4> QED
          BY <4>1, <3>1, <3>3, <1>2 DEF StopHolds
      <3> QED
        BY <3>2, <3>3
    <2>2. CASE ReadFlag(h) \/ SaveFlag(h) \/ RequestStart(h) \/ MarkStopped(h) \/ NullStop(h)
      <3>1. /\ active' = active /\ pipe' = pipe
            /\ pc'[h] \notin BuildSection \cup {"nullStop"}
            /\ \A u \in Threads : u # h => pc'[u] = pc[u]
        BY <1>0, <2>2 DEF ReadFlag, SaveFlag, RequestStart, MarkStopped, NullStop, AfterSave,
                          Return, Goto, flagVars, gstVars
      <3> QED
        BY <3>1 DEF StopHolds
    <2> QED
      BY <1>2, <2>1, <2>2 DEF Handling
  <1>3. CASE SetRefs \/ EnsureStarted \/ WatchdogTimeout \/ MarkStalled
    <2>1. /\ active' = active /\ pipe' = pipe
          /\ \A u \in Threads : pc'[u] = pc[u] \/ pc'[u] \notin BuildSection \cup {"nullStop"}
      BY <1>0, <1>3 DEF SetRefs, EnsureStarted, WatchdogTimeout, MarkStalled, Return, Goto,
                        flagVars, gstVars
    <2> QED
      BY <2>1 DEF StopHolds
  <1>4. ASSUME NEW t \in Threads, Starting(t) \/ NullOld(t) PROVE StopHolds'
    <2>1. CASE CheckActive(t)
      <3>1. CASE active
        <4>1. \A u \in Threads : pc[u] # "nullStop"
          BY <3>1 DEF StopHolds
        <4>2. \A u \in Threads : pc'[u] # "nullStop"
          BY <1>0, <2>1, <3>1, <4>1 DEF CheckActive, Goto
        <4> QED
          BY <4>2 DEF StopHolds
      <3>2. CASE ~active
        <4>1. /\ active' = active /\ pipe' = pipe /\ pc'[t] = "idle"
              /\ \A u \in Threads : u # t => pc'[u] = pc[u]
          BY <1>0, <2>1, <3>2 DEF CheckActive, Return, Goto, flagVars, gstVars
        <4> QED
          BY <4>1 DEF StopHolds
      <3> QED
        BY <3>1, <3>2
    <2>2. CASE Clear(t) \/ (\E p \in Pipelines : Launch(t, p)) \/ LaunchFails(t) \/ MarkStarting(t)
      <3>1. pc[t] \in BuildSection
        BY <2>2 DEF Clear, Launch, LaunchFails, MarkStarting
      <3>2. \A u \in Threads : pc[u] # "nullStop"
        BY <3>1 DEF StopHolds
      <3>3. \A u \in Threads : pc'[u] # "nullStop"
        BY <1>0, <2>2, <3>2 DEF Clear, Launch, LaunchFails, MarkStarting, Return, Goto
      <3> QED
        BY <3>3 DEF StopHolds
    <2>3. CASE LockStart(t) \/ Detach(t) \/ MarkFailed(t) \/ NullOld(t)
      <3>1. /\ active' = active /\ pipe' \in {pipe, None}
            /\ pc'[t] \notin BuildSection \cup {"nullStop"}
            /\ \A u \in Threads : u # t => pc'[u] = pc[u]
        BY <1>0, <2>3 DEF LockStart, Detach, MarkFailed, NullOld, Return, Goto, flagVars, gstVars
      <3> QED
        BY <3>1 DEF StopHolds
    <2> QED
      BY <1>4, <2>1, <2>2, <2>3 DEF Starting
  <1>5. ASSUME NEW p \in Pipelines, Streaming(p) PROVE StopHolds'
    BY <1>5 DEF Streaming, PushFrame, UpdateFrame, SignalFrame, flagVars, gstVars, StopHolds
  <1>6. CASE Restart
    BY <1>0, <1>6 DEF Restart, StopHolds
  <1>7. CASE UNCHANGED vars
    BY <1>7 DEF vars, flagVars, gstVars, StopHolds
  <1> QED
    BY <1>1, <1>2, <1>3, <1>4, <1>5, <1>6, <1>7 DEF Next, Step

\* Steps that leave the ring alone, install no pipeline and clear nothing.
LEMMA RingKept ==
  ASSUME RingCurrent, ring' = ring, pipe' \in {pipe, None},
         \A t \in Threads : pc'[t] = "launch" => pc[t] = "launch"
  PROVE  RingCurrent'
  BY DEF RingCurrent

\* Every step keeps foreign frames out of the ring.
LEMMA NextRing ==
  ASSUME IInv, InferTypeOK, StopHolds, RingCurrent, [InferNext]_allVars PROVE RingCurrent'
  <1>0. /\ pc \in [Threads -> Locations] /\ Main \in Threads /\ Watchdog \in Threads
        /\ \A h \in Handlers : h \in Threads
    BY DEF IInv, TypeOK, Threads
  <1>e. Frames(NoFrames) = {}
    BY DEF Frames, NoFrames
  <1>1. CASE UNCHANGED allVars
    BY <1>1, RingKept DEF allVars, vars, inferVars, gstVars
  <1>2. ASSUME NEW h \in Handlers, NEW o \in Ops, RequestAndClear(h, o) PROVE RingCurrent'
    <2>1. \A t \in Threads : pc'[t] = "launch" => pc[t] = "launch"
      BY <1>0, <1>2 DEF RequestAndClear, Request, Goto
    <2> QED
      BY <1>2, <2>1, RingKept DEF RequestAndClear, Request, gstVars
  <1>3. ASSUME NEW h \in Handlers, Untouched(Handling(h) \/ NullStop(h)) PROVE RingCurrent'
    <2> USE DEF Handling, ReadFlag, SaveFlag, RequestStart, DetachStop, MarkStopped, NullStop
    <2>1. \A t \in Threads : pc'[t] = "launch" => pc[t] = "launch"
      BY <1>0, <1>3 DEF Untouched, AfterSave, Return, Goto
    <2>2. pipe' \in {pipe, None} /\ ring' = ring
      BY <1>3 DEF Untouched, inferVars, gstVars
    <2> QED
      BY <2>1, <2>2, RingKept
  <1>4. CASE Untouched(SetRefs \/ EnsureStarted \/ WatchdogTimeout \/ MarkStalled)
    <2> USE DEF SetRefs, EnsureStarted, WatchdogTimeout, MarkStalled
    <2>1. \A t \in Threads : pc'[t] = "launch" => pc[t] = "launch"
      BY <1>0, <1>4 DEF Untouched, Return, Goto
    <2>2. pipe' = pipe /\ ring' = ring
      BY <1>4 DEF Untouched, inferVars, gstVars
    <2> QED
      BY <2>1, <2>2, RingKept
  <1>5. ASSUME NEW t \in Threads, StartingInfer(t) \/ Untouched(NullOld(t)) PROVE RingCurrent'
    <2>1. CASE ClearRing(t)
      <3>1. pipe = None /\ pipe' = pipe /\ ring' = NoFrames
        BY <2>1 DEF ClearRing, Clear, gstVars, IInv, Launched
      <3> QED
        BY <3>1, <1>e DEF RingCurrent
    <2>2. ASSUME NEW p \in Pipelines, LaunchFresh(t, p) PROVE RingCurrent'
      <3>1. ring' = ring /\ ring = NoFrames
        BY <2>2 DEF LaunchFresh, Launch, inferVars, RingCurrent
      <3> QED
        BY <3>1, <1>e DEF RingCurrent
    <2>3. CASE Untouched(LockStart(t) \/ Detach(t) \/ CheckActive(t))
               \/ Untouched(LaunchFails(t) \/ MarkStarting(t) \/ MarkFailed(t))
               \/ Untouched(NullOld(t))
      <3> USE DEF LockStart, Detach, CheckActive, LaunchFails, MarkStarting, MarkFailed, NullOld
      <3>1. \A u \in Threads : pc'[u] = "launch" => pc[u] = "launch"
        BY <1>0, <2>3 DEF Untouched, Return, Goto
      <3>2. pipe' \in {pipe, None} /\ ring' = ring
        BY <2>3 DEF Untouched, inferVars, gstVars
      <3> QED
        BY <3>1, <3>2, RingKept
    <2> QED
      BY <1>5, <2>1, <2>2, <2>3 DEF StartingInfer
  <1>6. ASSUME NEW p \in Pipelines, PushRing(p) \/ Untouched(UpdateFrame(p)) \/ SignalWorker(p)
        PROVE RingCurrent'
    <2>1. CASE PushRing(p)
      <3>1. /\ ring' = Latest(Append(ring, p), RingSize)
            /\ p \in playing /\ pipe' = pipe /\ pc' = pc
        BY <2>1 DEF PushRing, PushFrame, gstVars
      <3>2. ring \in Seq(Pipelines) /\ Append(ring, p) \in Seq(Pipelines)
        BY DEF InferTypeOK
      <3>3. Frames(ring') \subseteq Frames(ring) \cup {p}
        BY <3>1, <3>2, LatestFrames, PushedFrames
      <3>4. \A t \in Threads : pc[t] # "launch"
        BY <3>1, NothingElsePlays
      <3>5. pipe # None => p = pipe
        BY <3>1, NothingElsePlays
      <3> QED
        BY <3>1, <3>3, <3>4, <3>5 DEF RingCurrent
    <2>2. CASE Untouched(UpdateFrame(p)) \/ SignalWorker(p)
      BY <2>2, RingKept DEF Untouched, SignalWorker, UpdateFrame, SignalFrame, inferVars, gstVars
    <2> QED
      BY <1>6, <2>1, <2>2
  <1>7. CASE WorkerStep
    <2>1. pc' = pc /\ pipe' = pipe /\ ring' = ring
      BY <1>7 DEF WorkerStep, TakeSignal, DropSignal, PassGate, TakeSamples, InferOk, InferFails,
                  Recheck, UpdateInference, NotifyRecorder, vars, gstVars
    <2> QED
      BY <2>1, RingKept
  <1>8. CASE SigtermRestart \/ RestartAll
    BY <1>8, <1>e DEF SigtermRestart, RestartAll, Restart, RingCurrent
  <1> QED
    BY <1>1, <1>2, <1>3, <1>4, <1>5, <1>6, <1>7, <1>8 DEF InferNext, InferStep

\* An inference that begins takes its samples from a ring that is not empty.
LEMMA BeginsWithSamples ==
  ASSUME InferTypeOK, RingCurrent, [InferNext]_allVars, BeginsInference, pipe # None
  PROVE  Frames(samples') = {pipe}
  <1>1. ASSUME worker' = worker PROVE FALSE
    BY <1>1 DEF BeginsInference
  <1>2. TakeSamples
    <2>1. CASE WorkerStep
      BY <2>1 DEF WorkerStep, TakeSignal, DropSignal, PassGate, InferOk, InferFails, Recheck,
                  UpdateInference, NotifyRecorder, BeginsInference, WorkerGoto
    <2>2. CASE SigtermRestart \/ RestartAll
      BY <2>2 DEF SigtermRestart, RestartAll, BeginsInference
    <2>3. CASE UNCHANGED inferVars
      BY <1>1, <2>3 DEF inferVars
    <2>4. ASSUME NEW h \in Handlers, NEW o \in Ops, RequestAndClear(h, o) PROVE FALSE
      BY <1>1, <2>4 DEF RequestAndClear
    <2>5. ASSUME NEW t \in Threads, ClearRing(t) PROVE FALSE
      BY <1>1, <2>5 DEF ClearRing
    <2>6. ASSUME NEW p \in Pipelines, PushRing(p) \/ SignalWorker(p) PROVE FALSE
      BY <1>1, <2>6 DEF PushRing, SignalWorker
    <2> QED
      BY <2>1, <2>2, <2>3, <2>4, <2>5, <2>6
         DEF InferNext, InferStep, Untouched, StartingInfer, LaunchFresh, allVars
  <1>3. ring # NoFrames /\ samples' = Latest(ring, NFrames)
    BY <1>2 DEF TakeSamples, BeginsInference, WorkerGoto
  <1>4. ring \in Seq(Pipelines) /\ Frames(ring) \subseteq {pipe}
    BY DEF InferTypeOK, RingCurrent
  <1>5. Latest(ring, NFrames) \in Seq(Pipelines) /\ Latest(ring, NFrames) # NoFrames
    BY <1>3, <1>4, LatestType
  <1>6. Frames(Latest(ring, NFrames)) \subseteq Frames(ring)
    BY <1>4, LatestFrames
  <1>7. Frames(Latest(ring, NFrames)) # {}
    BY <1>5, SomeFrame
  <1> QED
    BY <1>3, <1>4, <1>6, <1>7

\* start_pipeline, stop_analysis, inference_worker: with one request handled at
\* a time, an inference that begins while a pipeline is in place sees frames of
\* that pipeline only, whatever the watchdog, the startup and the streaming
\* threads do.  (With two, the set_state(NULL) of a stop may still be running
\* when a start has cleared the ring.)
THEOREM FreshSamples == OneHandler => (InferSpec => SamplesFromCurrentPipeline)
  <1> SUFFICES ASSUME OneHandler PROVE InferSpec => SamplesFromCurrentPipeline
    OBVIOUS
  <1>1. InferInit => StopHolds /\ RingCurrent
    BY DEF InferInit, Init, Boot, StopHolds, RingCurrent
  <1>2. IInv /\ StopHolds /\ [InferNext]_allVars => StopHolds'
    BY NextStopHolds, StepSimulation
  <1>3. IInv /\ InferTypeOK /\ StopHolds /\ RingCurrent /\ [InferNext]_allVars => RingCurrent'
    BY NextRing
  <1>4. InferTypeOK /\ RingCurrent /\ [InferNext]_allVars
          => [BeginsInference /\ pipe # None => Frames(samples') = {pipe}]_allVars
    BY BeginsWithSamples
  <1> QED
    BY <1>1, <1>2, <1>3, <1>4, Invariance, ImplementsPipeline, InferTypeCorrect, PTL
       DEF InferSpec, SamplesFromCurrentPipeline
=============================================================================
