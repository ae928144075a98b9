------------------------- MODULE AnalyzerInference -------------------------
(***************************************************************************)
(* The analyzer with its frame ring, its inference queue and the inference *)
(* worker (analyzer/main.py: RingBuffer, make_frame_callback,              *)
(* inference_worker; the judgment shown by state.py).  Every step of       *)
(* AnalyzerPipeline is kept, with its effect on the ring, the queue and    *)
(* the judgment added; the worker's steps are new.                         *)
(*                                                                         *)
(* A frame is the pipeline that extracted it.  The text of a judgment, the *)
(* prompt and the keywords are not modelled here.                          *)
(***************************************************************************)
EXTENDS AnalyzerPipeline, Naturals, Sequences

CONSTANTS
  RingSize,            \* RING_SIZE
  NFrames,             \* N_FRAMES
  MaxInferFailures     \* MAX_CONSECUTIVE_INFER_FAILURES

ASSUME InferenceAssumption ==
  /\ RingSize \in Nat \ {0}
  /\ NFrames \in 1..RingSize
  /\ MaxInferFailures \in Nat \ {0}

VARIABLES
  ring,       \* RingBuffer._buf, oldest frame first
  queued,     \* infer_queue (maxsize 1) holds a signal
  worker,     \* where the inference worker is
  samples,    \* the frames of the inference in progress
  failures,   \* consecutive inference failures
  shown,      \* app_state.infer_raw is not empty
  stopSeen,   \* history: a /stop came before the inference in progress ended
  lateStop    \* history: the last /stop came between the recheck of the flag
              \* and update_inference

stopVars == <<stopSeen, lateStop>>
inferVars == <<ring, queued, worker, samples, failures, shown, stopVars>>
allVars == <<vars, inferVars>>

InferTypeOK ==
  /\ ring \in Seq(Pipelines) /\ Len(ring) <= RingSize
  /\ queued \in BOOLEAN
  /\ worker \in {"wait", "gate", "sample", "infer", "recheck", "show", "notify", "exited"}
  /\ samples \in Seq(Pipelines) /\ Len(samples) <= NFrames
  /\ failures \in 0..MaxInferFailures
  /\ shown \in BOOLEAN
  /\ stopSeen \in BOOLEAN
  /\ lateStop \in BOOLEAN

NoFrames == <<>>

\* The last n elements of s, all of them if it has fewer.
Latest(s, n) == IF Len(s) <= n THEN s ELSE SubSeq(s, Len(s) - n + 1, Len(s))

Frames(s) == {s[i] : i \in DOMAIN s}

InferInit ==
  /\ Init
  /\ ring = NoFrames
  /\ queued = FALSE
  /\ worker = "wait"
  /\ samples = NoFrames
  /\ failures = 0
  /\ shown = FALSE
  /\ stopSeen = FALSE
  /\ lateStop = FALSE
-----------------------------------------------------------------------------
(***************************************************************************)
(* Steps of AnalyzerPipeline that touch the ring, the queue or the judgment*)
(***************************************************************************)

\* set_analysis_active(False) also clears the last judgment.
RequestAndClear(h, o) ==
  /\ Request(h, o)
  /\ shown' = (shown /\ o # "stop")
  /\ stopSeen' = (stopSeen \/ (o = "stop" /\ worker = "infer"))
  /\ lateStop' = (IF o = "settings" THEN lateStop ELSE o = "stop" /\ worker = "show")
  /\ UNCHANGED <<ring, queued, worker, samples, failures>>

\* Mutant of ClearRing: only the signal is drained.
ClearRing_KeepsFrames(t) ==
  /\ Clear(t)
  /\ queued' = FALSE
  /\ UNCHANGED <<ring, worker, samples, failures, shown, stopVars>>

\* ring.clear() and infer_q.get_nowait()
ClearRing(t) ==
  /\ Clear(t)
  /\ ring' = NoFrames
  /\ queued' = FALSE
  /\ UNCHANGED <<worker, samples, failures, shown, stopVars>>

\* A new pipeline object is not one whose frames are still around.
LaunchFresh(t, p) ==
  /\ Launch(t, p)
  /\ p \notin Frames(ring) \cup Frames(samples)
  /\ UNCHANGED inferVars

PushRing(p) ==
  /\ PushFrame(p)
  /\ ring' = Latest(Append(ring, p), RingSize)
  /\ UNCHANGED <<queued, worker, samples, failures, shown, stopVars>>

\* Mutant of SignalWorker: the signal is put only until the ring is full.
SignalWorker_WhileFilling(p) ==
  /\ SignalFrame(p)
  /\ queued' = (queued \/ Len(ring) < RingSize)
  /\ UNCHANGED <<ring, worker, samples, failures, shown, stopVars>>

\* put_nowait; a full queue already holds a signal.
SignalWorker(p) ==
  /\ SignalFrame(p)
  /\ queued' = TRUE
  /\ UNCHANGED <<ring, worker, samples, failures, shown, stopVars>>

RestartAll ==
  /\ Restart
  /\ ring' = NoFrames
  /\ queued' = FALSE
  /\ worker' = "wait"
  /\ samples' = NoFrames
  /\ failures' = 0
  /\ shown' = FALSE
  /\ stopSeen' = FALSE
  /\ lateStop' = FALSE
-----------------------------------------------------------------------------
(***************************************************************************)
(* inference_worker                                                        *)
(***************************************************************************)
WorkerGoto(to) == worker' = to

\* The worker goes back to its queue; what it knows of the iteration is gone.
EndInference == samples' = NoFrames /\ stopSeen' = FALSE /\ UNCHANGED lateStop

\* infer_queue.get; the worker thread exists once set_refs has run.
TakeSignal ==
  /\ worker = "wait"
  /\ refs
  /\ queued
  /\ queued' = FALSE
  /\ WorkerGoto("gate")
  /\ UNCHANGED <<vars, ring, samples, failures, shown, stopVars>>

\* A signal that survived a stop, or one inside MIN_INFER_INTERVAL, is dropped.
DropSignal ==
  /\ worker = "gate"
  /\ WorkerGoto("wait")
  /\ UNCHANGED <<vars, ring, queued, samples, failures, shown, stopVars>>

PassGate ==
  /\ worker = "gate"
  /\ active
  /\ WorkerGoto("sample")
  /\ UNCHANGED <<vars, ring, queued, samples, failures, shown, stopVars>>

\* ring.latest_samples, then the inference call with what was sampled.
TakeSamples ==
  /\ worker = "sample"
  /\ \/ /\ ring = NoFrames
        /\ WorkerGoto("wait")
        /\ UNCHANGED samples
     \/ /\ ring # NoFrames
        /\ samples' = Latest(ring, NFrames)
        /\ WorkerGoto("infer")
  /\ UNCHANGED <<vars, ring, queued, failures, shown, stopVars>>

\* The frames are not looked at again after the inference.
InferOk ==
  /\ worker = "infer"
  /\ failures' = 0
  /\ samples' = NoFrames
  /\ WorkerGoto("recheck")
  /\ UNCHANGED <<vars, ring, queued, shown, stopVars>>

\* At the limit the worker signals its own process and returns.
InferFails ==
  /\ worker = "infer"
  /\ failures' = failures + 1
  /\ EndInference
  /\ WorkerGoto(IF failures + 1 >= MaxInferFailures THEN "exited" ELSE "wait")
  /\ UNCHANGED <<vars, ring, queued, shown>>

\* Mutant of Recheck: the flag is read only before the inference.
Recheck_NoGuard ==
  /\ worker = "recheck"
  /\ WorkerGoto("show")
  /\ UNCHANGED <<vars, ring, queued, samples, failures, shown, stopVars>>

\* Stop discards in-flight work.
Recheck ==
  /\ worker = "recheck"
  /\ \/ /\ active
        /\ WorkerGoto("show")
        /\ UNCHANGED <<samples, stopVars>>
     \/ /\ ~active
        /\ WorkerGoto("wait")
        /\ EndInference
  /\ UNCHANGED <<vars, ring, queued, failures, shown>>

\* app_state.update_inference
UpdateInference ==
  /\ worker = "show"
  /\ shown' = TRUE
  /\ WorkerGoto("notify")
  /\ UNCHANGED <<vars, ring, queued, samples, failures, stopVars>>

\* The threads of notify_event and notify_inference are started.
NotifyRecorder ==
  /\ worker = "notify"
  /\ EndInference
  /\ WorkerGoto("wait")
  /\ UNCHANGED <<vars, ring, queued, failures, shown>>

\* The SIGTERM of a worker that gave up takes the process down, or does not
\* (PID 1 of a container ignores it without a handler): no fairness.
SigtermRestart ==
  /\ worker = "exited"
  /\ RestartAll
-----------------------------------------------------------------------------
Untouched(step) == step /\ UNCHANGED inferVars

StartingInfer(t) ==
  \/ Untouched(LockStart(t) \/ Detach(t) \/ CheckActive(t))
  \/ ClearRing(t)
  \/ \E p \in Pipelines : LaunchFresh(t, p)
  \/ Untouched(LaunchFails(t) \/ MarkStarting(t) \/ MarkFailed(t))

WorkerStep ==
  \/ TakeSignal \/ DropSignal \/ PassGate \/ TakeSamples
  \/ InferOk \/ InferFails \/ Recheck \/ UpdateInference \/ NotifyRecorder

InferStep ==
  \/ \E h \in Handlers, o \in Ops : RequestAndClear(h, o)
  \/ \E h \in Handlers : Untouched(Handling(h) \/ NullStop(h))
  \/ Untouched(SetRefs \/ EnsureStarted \/ WatchdogTimeout \/ MarkStalled)
  \/ \E t \in Threads : StartingInfer(t) \/ Untouched(NullOld(t))
  \/ \E p \in Pipelines : PushRing(p) \/ Untouched(UpdateFrame(p)) \/ SignalWorker(p)
  \/ WorkerStep
  \/ SigtermRestart

InferNext == InferStep \/ RestartAll

InferSpec == InferInit /\ [][InferNext]_allVars

(***************************************************************************)
(* Fairness: the camera delivers frames to a playing pipeline, a callback  *)
(* and the worker run on, an inference ends (INFER_TIMEOUT), and from time *)
(* to time MIN_INFER_INTERVAL has elapsed when a signal is taken.          *)
(***************************************************************************)
InferFairness ==
  /\ \A p \in Pipelines :
       WF_allVars(PushRing(p) \/ Untouched(UpdateFrame(p)) \/ SignalWorker(p))
  /\ WF_allVars(WorkerStep)
  /\ SF_allVars(PassGate)

InferFairSpec == InferInit /\ [][InferStep]_allVars /\ InferFairness
-----------------------------------------------------------------------------
(***************************************************************************)
(* Properties                                                              *)
(***************************************************************************)

BeginsInference == worker = "sample" /\ worker' = "infer"
SurfacesJudgment == worker = "show" /\ worker' = "notify"

\* "Inference sees only frames this pipeline extracted": when an inference
\* begins while a pipeline exists, every frame it is given comes from that
\* pipeline, never from an older moment or an older camera.
SamplesFromCurrentPipeline ==
  [][BeginsInference /\ pipe # None => Frames(samples') = {pipe}]_allVars

\* "A judgment that finishes after /stop surfaces nowhere": no judgment is
\* shown and recorded if a /stop came while its inference was running.  The
\* worker only looks whether the flag is down when the inference has ended: a
\* stop and a start during one inference violate it, and a judgment of before
\* the stop surfaces in the analysis that was started after it.
NoJudgmentAfterStop == [][SurfacesJudgment => ~stopSeen]_allVars

\* A stop also clears the last judgment, and it stays cleared: a stopped
\* analyzer displays none, whatever signals, frames and inferences the stop
\* met, unless it came just between the worker's recheck of the flag and
\* update_inference.
StoppedShowsNothing == ~active /\ shown => lateStop

\* With a pipeline in place, analysis active and frames coming, judgments keep
\* coming: no interleaving of put_nowait, drain and get loses the last signal.
\* Otherwise the worker has given up.
JudgmentsKeepComing ==
  \A p \in Pipelines :
    (<>[](pipe = p /\ active)) => ([]<>(worker = "recheck") \/ <>[](worker = "exited"))
=============================================================================
