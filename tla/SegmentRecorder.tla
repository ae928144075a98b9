-------------------------- MODULE SegmentRecorder --------------------------
(***************************************************************************)
(* The recorder's pre-event segment buffer (recorder/segments.py), the     *)
(* /buffer/start and /buffer/stop endpoints and the restore at startup     *)
(* (recorder/main.py), the persisted flag (state_store.py) and the status  *)
(* it reports (status.py).                                                 *)
(*                                                                         *)
(* SegmentRecorder.start() creates a new generation of the worker thread   *)
(* whenever the latest one is stopping or dead; generation w has its own   *)
(* stop event and joins generation w - 1 before it touches the encoder.    *)
(* Generations are numbered; gen is the one self._thread and self._stop    *)
(* refer to, 0 while there is none.                                        *)
(***************************************************************************)
EXTENDS Naturals, FiniteSets

CONSTANTS
  Handlers,    \* the server's threads for /buffer/start and /buffer/stop
  MaxGen,      \* bound: generations created between two process starts
  IOMayFail    \* whether writing the state file or making the directory can fail

ASSUME SegmentAssumption ==
  /\ MaxGen \in Nat \ {0}
  /\ IOMayFail \in BOOLEAN

VARIABLES
  bufferActive,  \* status.buffer_active
  saved,         \* buffer_active in the state file; survives a restart
  segState,      \* status.segment_recorder_state
  gen,           \* the latest generation: self._thread, self._stop
  stop,          \* the stop event of each generation
  worker,        \* where each generation's thread is
  pc,            \* where each handler is
  op,            \* the request it serves
  ioFailed       \* history: a save or a worker thread was lost to an OSError

vars == <<bufferActive, saved, segState, gen, stop, worker, pc, op, ioFailed>>

Gens == 1..MaxGen

WorkerLocations ==
  {"none", "join", "loop", "build", "playing", "watch", "poll", "teardown", "pause", "backoff",
   "done", "dead"}

TypeOK ==
  /\ bufferActive \in BOOLEAN
  /\ saved \in BOOLEAN
  /\ segState \in {"disabled", "running", "error"}
  /\ gen \in 0..MaxGen
  /\ stop \in [Gens -> BOOLEAN]
  /\ worker \in [Gens -> WorkerLocations]
  /\ pc \in [Handlers -> {"idle", "save", "call"}]
  /\ op \in [Handlers -> {"start", "stop"}]
  /\ ioFailed \in BOOLEAN

\* The thread exists and has not returned.
Alive(w) == worker[w] \notin {"none", "dead"}

\* The generation's pipeline holds the encoder: PLAYING, not yet NULL.
Encoding(w) == worker[w] \in {"playing", "watch", "poll", "teardown"}

\* Mutants of NeedsGeneration: start() is not idempotent; a start is swallowed
\* by a generation that is winding down.
NeedsGeneration_Always == TRUE
NeedsGeneration_IgnoresStopping == gen # 0 => ~Alive(gen)

\* start() has something to do: there is no live generation that is not stopping.
NeedsGeneration == gen # 0 => ~Alive(gen) \/ stop[gen]
-----------------------------------------------------------------------------
\* lifespan: the flag of the state file is restored, and acted upon.
Init ==
  /\ saved \in BOOLEAN
  /\ bufferActive = saved
  /\ segState = "disabled"
  /\ gen = IF saved THEN 1 ELSE 0
  /\ stop = [w \in Gens |-> FALSE]
  /\ worker = [w \in Gens |-> IF saved /\ w = 1 THEN "join" ELSE "none"]
  /\ pc = [h \in Handlers |-> "idle"]
  /\ op = [h \in Handlers |-> "stop"]
  /\ ioFailed = FALSE

Restart ==
  /\ saved' = saved
  /\ bufferActive' = saved
  /\ segState' = "disabled"
  /\ gen' = IF saved THEN 1 ELSE 0
  /\ stop' = [w \in Gens |-> FALSE]
  /\ worker' = [w \in Gens |-> IF saved /\ w = 1 THEN "join" ELSE "none"]
  /\ pc' = [h \in Handlers |-> "idle"]
  /\ op' = [h \in Handlers |-> "stop"]
  /\ ioFailed' = FALSE
-----------------------------------------------------------------------------
StartsInFlight == Cardinality({h \in Handlers : pc[h] # "idle" /\ op[h] = "start"})

\* buffer_start, buffer_stop: status.set_buffer_active.  Starts beyond the
\* bound on generations are not requested.
Request(h, o) ==
  /\ pc[h] = "idle"
  /\ o = "start" => gen + StartsInFlight < MaxGen
  /\ bufferActive' = (o = "start")
  /\ pc' = [pc EXCEPT ![h] = "save"]
  /\ op' = [op EXCEPT ![h] = o]
  /\ UNCHANGED <<saved, segState, gen, stop, worker, ioFailed>>

\* state_store.update: merge and replace under its lock; an OSError is not
\* caught and the request ends there with a 500.
Save(h) ==
  /\ pc[h] = "save"
  /\ \/ /\ saved' = (op[h] = "start")
        /\ pc' = [pc EXCEPT ![h] = "call"]
        /\ UNCHANGED ioFailed
     \/ /\ IOMayFail
        /\ ioFailed' = TRUE
        /\ pc' = [pc EXCEPT ![h] = "idle"]
        /\ UNCHANGED saved
  /\ UNCHANGED <<bufferActive, segState, gen, stop, worker, op>>

\* SegmentRecorder.start
Start(h) ==
  /\ pc[h] = "call"
  /\ op[h] = "start"
  /\ pc' = [pc EXCEPT ![h] = "idle"]
  /\ \/ /\ ~NeedsGeneration
        /\ UNCHANGED <<gen, worker>>
     \/ /\ NeedsGeneration
        /\ gen < MaxGen
        /\ gen' = gen + 1
        /\ worker' = [worker EXCEPT ![gen + 1] = "join"]
  /\ UNCHANGED <<bufferActive, saved, segState, stop, op, ioFailed>>

\* SegmentRecorder.stop
Stop(h) ==
  /\ pc[h] = "call"
  /\ op[h] = "stop"
  /\ pc' = [pc EXCEPT ![h] = "idle"]
  /\ stop' = [w \in Gens |-> stop[w] \/ w = gen]
  /\ UNCHANGED <<bufferActive, saved, segState, gen, worker, op, ioFailed>>
-----------------------------------------------------------------------------
(***************************************************************************)
(* SegmentRecorder._worker and _watch                                      *)
(***************************************************************************)
Goto(w, to) == worker' = [worker EXCEPT ![w] = to]

\* An exception that nothing catches ends the thread silently.
Dies(w) == IOMayFail /\ Goto(w, "dead") /\ ioFailed' = TRUE

\* Mutant of Join: the previous generation is not joined.
Join_NoWait(w) ==
  /\ worker[w] = "join"
  /\ Goto(w, "loop")
  /\ UNCHANGED <<bufferActive, saved, segState, gen, stop, pc, op, ioFailed>>

\* previous.join(), then ensure_segment_dir, whose OSError ends the thread.
Join(w) ==
  /\ worker[w] = "join"
  /\ w # 1 => worker[w - 1] = "dead"
  /\ \/ Goto(w, "loop") /\ UNCHANGED ioFailed
     \/ Dies(w)
  /\ UNCHANGED <<bufferActive, saved, segState, gen, stop, pc, op>>

\* while not stop.is_set(): purge_old_segments, which is outside the try: an
\* OSError of the directory listing ends the thread.
Loop(w) ==
  /\ worker[w] = "loop"
  /\ \/ stop[w] /\ Goto(w, "done") /\ UNCHANGED ioFailed
     \/ ~stop[w] /\ Goto(w, "build") /\ UNCHANGED ioFailed
     \/ ~stop[w] /\ Dies(w)
  /\ UNCHANGED <<bufferActive, saved, segState, gen, stop, pc, op>>

\* parse_launch and PLAYING; an unbuildable pipeline is reported.
Build(w) ==
  /\ worker[w] = "build"
  /\ \/ Goto(w, "playing") /\ UNCHANGED segState
     \/ Goto(w, "pause") /\ segState' = "error"
  /\ UNCHANGED <<bufferActive, saved, gen, stop, pc, op, ioFailed>>

\* The status after PLAYING; listing the segments for it may fail.
ReportRunning(w) ==
  /\ worker[w] = "playing"
  /\ \/ Goto(w, "watch") /\ segState' = "running"
     \/ IOMayFail /\ Goto(w, "teardown") /\ segState' = "error"
  /\ UNCHANGED <<bufferActive, saved, gen, stop, pc, op, ioFailed>>

\* Mutant of Watch: only an error ends the watch.
Watch_IgnoresStop(w) ==
  /\ worker[w] = "watch"
  /\ Goto(w, "poll")
  /\ UNCHANGED <<bufferActive, saved, segState, gen, stop, pc, op, ioFailed>>

\* _watch: while not stop.is_set(), wait for a message of the bus.
Watch(w) ==
  /\ worker[w] = "watch"
  /\ Goto(w, IF stop[w] THEN "teardown" ELSE "poll")
  /\ UNCHANGED <<bufferActive, saved, segState, gen, stop, pc, op, ioFailed>>

\* The rest of an iteration, up to a second later: the encoder runs on; or an
\* ERROR, an EOS, a stall or an exception ends the watch.
Poll(w) ==
  /\ worker[w] = "poll"
  /\ \/ segState' = "running" /\ Goto(w, "watch")
     \/ segState' = "error" /\ Goto(w, "teardown")
  /\ UNCHANGED <<bufferActive, saved, gen, stop, pc, op, ioFailed>>

\* finally: set_state(NULL)
Teardown(w) ==
  /\ worker[w] = "teardown"
  /\ Goto(w, "pause")
  /\ UNCHANGED <<bufferActive, saved, segState, gen, stop, pc, op, ioFailed>>

Pause(w) ==
  /\ worker[w] = "pause"
  /\ Goto(w, IF stop[w] THEN "done" ELSE "backoff")
  /\ UNCHANGED <<bufferActive, saved, segState, gen, stop, pc, op, ioFailed>>

\* Mutant of Backoff: stop.wait() without the timeout.
Backoff_NoTimeout(w) ==
  /\ worker[w] = "backoff"
  /\ stop[w]
  /\ Goto(w, "loop")
  /\ UNCHANGED <<bufferActive, saved, segState, gen, stop, pc, op, ioFailed>>

\* stop.wait(backoff) returns: the time is over or the event is set.
Backoff(w) ==
  /\ worker[w] = "backoff"
  /\ Goto(w, "loop")
  /\ UNCHANGED <<bufferActive, saved, segState, gen, stop, pc, op, ioFailed>>

Done(w) ==
  /\ worker[w] = "done"
  /\ segState' = "disabled"
  /\ Goto(w, "dead")
  /\ UNCHANGED <<bufferActive, saved, gen, stop, pc, op, ioFailed>>

Work(w) ==
  \/ Join(w) \/ Loop(w) \/ Build(w) \/ ReportRunning(w) \/ Watch(w) \/ Poll(w) \/ Teardown(w)
  \/ Pause(w) \/ Backoff(w) \/ Done(w)

Handle(h) == Save(h) \/ Start(h) \/ Stop(h)

Step ==
  \/ \E h \in Handlers, o \in {"start", "stop"} : Request(h, o)
  \/ \E h \in Handlers : Handle(h)
  \/ \E w \in Gens : Work(w)

Next == Step \/ Restart

Spec == Init /\ [][Next]_vars

(***************************************************************************)
(* Fairness: threads run on, set_state(NULL) returns, a backoff ends.      *)
(* Requests may never come.                                                *)
(***************************************************************************)
FairSpec ==
  /\ Spec
  /\ \A h \in Handlers : WF_vars(Handle(h))
  /\ \A w \in Gens : WF_vars(Work(w))
-----------------------------------------------------------------------------
(***************************************************************************)
(* Properties                                                              *)
(***************************************************************************)
Quiet == \A h \in Handlers : pc[h] = "idle"

\* A live generation that nobody has told to stop.
Wanted == gen # 0 /\ Alive(gen) /\ ~stop[gen]

\* "Two encoders never run at once", however starts and stops overlap with
\* generations that wind down slowly.
OneEncoder == \A v, w \in Gens : Encoding(v) /\ Encoding(w) => v = w

\* Every generation but the latest has been told to stop or is gone: there is
\* never one that stop() can no longer reach and later ones would join for ever.
OldGenerationsStopping == \A w \in Gens : w < gen => stop[w] \/ worker[w] = "dead"

\* Once a generation has reported its encoder, and until the encoder is NULL,
\* the status does not say "disabled": an older generation's last status
\* update never hides a newer recorder.
EncoderNotShownDisabled ==
  \A w \in Gens : worker[w] \in {"watch", "poll", "teardown"} => segState # "disabled"

\* Once all requests have returned, the flag shown, the flag restored after a
\* restart and what the recorder does are the same, unless an OSError ended a
\* request or a worker thread half way.
FlagsAgree ==
  Quiet /\ ~ioFailed => bufferActive = saved /\ (bufferActive <=> Wanted)

\* The process does not restart again and again.
RestartsEnd == <>[][Step]_vars

\* A start is never swallowed by a generation that is winding down: what is
\* wanted for good has the latest generation encode, or try to, again and again.
EventuallyRecording ==
  RestartsEnd /\ (<>[]Wanted) =>
    []<>(\E w \in Gens : w = gen /\ worker[w] \in {"build", "poll"})

\* A stop is obeyed: if nothing is wanted any more every encoder stops for
\* good and, unless a thread died silently, the status says so.
EventuallyDisabled ==
  RestartsEnd /\ (<>[]~Wanted) =>
    <>[](/\ segState = "disabled" \/ ioFailed
         /\ \A w \in Gens : ~Alive(w))
=============================================================================
