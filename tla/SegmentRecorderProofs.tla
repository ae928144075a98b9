----------------------- MODULE SegmentRecorderProofs -----------------------
(***************************************************************************)
(* Proofs, for any set of handlers and any number of generations, of the   *)
(* safety properties of SegmentRecorder.                                   *)
(*                                                                         *)
(* OneEncoder is not inductive: that two generations do not encode rests   *)
(* on the join, and the join only speaks of the generation just before.    *)
(* The strengthening is that once a generation has got past its join, all  *)
(* the earlier ones are dead (Chain).                                      *)
(***************************************************************************)
EXTENDS SegmentRecorder, TLAPS

\* Past its join: the thread runs, or has run.
Joined(w) == worker[w] \notin {"none", "join"}

\* The generations that exist are 1..gen.
Numbered == \A w \in Gens : worker[w] # "none" => w <= gen
Exist == \A w \in Gens : w <= gen => worker[w] # "none"

\* All generations before one that is past its join are dead.
Chain == \A v, w \in Gens : v < w /\ Joined(w) => worker[v] = "dead"

IInv ==
  /\ TypeOK
  /\ Numbered
  /\ Exist
  /\ Chain
  /\ OldGenerationsStopping
  /\ EncoderNotShownDisabled

USE SegmentAssumption

\* The initial states satisfy the inductive invariant.
LEMMA InitIInv == Init => IInv
  <1> SUFFICES ASSUME Init PROVE IInv
    OBVIOUS
  <1>0. ioFailed \in BOOLEAN /\ stop \in [Gens -> BOOLEAN]
    BY DEF Init
  <1>1. TypeOK
    BY <1>0 DEF Init, TypeOK, Gens, WorkerLocations
  <1>2. Numbered /\ Exist /\ Chain /\ OldGenerationsStopping /\ EncoderNotShownDisabled
    BY DEF Init, Numbered, Exist, Chain, Joined, OldGenerationsStopping,
           EncoderNotShownDisabled, Gens
  <1> QED
    BY <1>1, <1>2 DEF IInv

\* A process restart re-establishes it.
LEMMA RestartIInv == ASSUME TypeOK, Restart PROVE IInv'
  <1>0. ioFailed' \in BOOLEAN /\ stop' \in [Gens -> BOOLEAN]
    BY DEF Restart
  <1>1. TypeOK'
    BY <1>0 DEF Restart, TypeOK, Gens, WorkerLocations
  <1>2. /\ Numbered' /\ Exist' /\ Chain'
        /\ OldGenerationsStopping' /\ EncoderNotShownDisabled'
    BY DEF Restart, TypeOK, Numbered, Exist, Chain, Joined, OldGenerationsStopping,
           EncoderNotShownDisabled, Gens
  <1> QED
    BY <1>1, <1>2 DEF IInv

\* A step of a generation's thread keeps the invariant.
LEMMA WorkIInv == ASSUME IInv, NEW w \in Gens, Work(w) PROVE IInv'
  <1> USE DEF IInv, TypeOK, Gens, WorkerLocations, Goto, Dies
  <1>1. /\ worker' \in [Gens -> WorkerLocations]
        /\ \A v \in Gens : v # w => worker'[v] = worker[v]
        /\ worker[w] \notin {"none", "dead"} /\ worker'[w] \notin {"none", "join"}
        /\ UNCHANGED <<bufferActive, saved, gen, stop, pc, op>>
    BY DEF Work, Join, Loop, Build, ReportRunning, Watch, Poll, Teardown, Pause, Backoff, Done
  <1>2. TypeOK'
    BY <1>1 DEF Work, Join, Loop, Build, ReportRunning, Watch, Poll, Teardown, Pause, Backoff, Done
  <1>3. Numbered' /\ Exist'
    BY <1>1 DEF Numbered, Exist
  \* A join is the only step that adds to the premise of Chain.
  <1>4. \A v \in Gens : v < w => worker[v] = "dead"
    <2>1. CASE Joined(w)
      BY <2>1 DEF Chain
    <2>2. CASE ~Joined(w)
      <3>1. Join(w)
        BY <2>2 DEF Joined, Work, Join, Loop, Build, ReportRunning, Watch, Poll, Teardown, Pause,
                    Backoff, Done
      <3>2. CASE w = 1
        BY <3>2
      <3>3. CASE w # 1
        <4>1. w - 1 \in Gens /\ worker[w - 1] = "dead"
          BY <3>1, <3>3 DEF Join
        <4>2. \A v \in Gens : v < w => v = w - 1 \/ v < w - 1
          OBVIOUS
        <4> QED
          BY <4>1, <4>2 DEF Chain, Joined
      <3> QED
        BY <3>2, <3>3
    <2> QED
      BY <2>1, <2>2
  <1>5. \A v \in Gens : w < v => ~Joined(v)
    BY <1>1 DEF Chain
  <1>6. Chain'
    BY <1>1, <1>4, <1>5 DEF Chain, Joined
  <1>7. OldGenerationsStopping'
    BY <1>1 DEF OldGenerationsStopping
  <1>8. EncoderNotShownDisabled'
    <2>1. \A v \in Gens : v # w => ~Encoding(v)
      BY <1>4, <1>5 DEF Encoding, Joined
    <2>2. worker'[w] \in {"watch", "poll", "teardown"} => segState' # "disabled"
      BY DEF EncoderNotShownDisabled, Encoding,
             Work, Join, Loop, Build, ReportRunning, Watch, Poll, Teardown, Pause, Backoff, Done
    <2> QED
      BY <1>1, <2>1, <2>2 DEF EncoderNotShownDisabled, Encoding
  <1> QED
    BY <1>2, <1>3, <1>6, <1>7, <1>8

\* SegmentRecorder.start keeps the invariant: the generation it adds is the
\* last of the chain, and the one before it is dead or stopping.
LEMMA StartIInv == ASSUME IInv, NEW h \in Handlers, Start(h) PROVE IInv'
  <1> USE DEF IInv, TypeOK, Gens, WorkerLocations, Start
  <1>1. CASE UNCHANGED <<gen, worker>>
    BY <1>1 DEF Numbered, Exist, Chain, Joined, OldGenerationsStopping, EncoderNotShownDisabled,
                Encoding
  <1>2. CASE /\ NeedsGeneration
             /\ gen < MaxGen
             /\ gen' = gen + 1
             /\ worker' = [worker EXCEPT ![gen + 1] = "join"]
    <2>1. TypeOK'
      BY <1>2
    <2>2. gen + 1 \in Gens /\ worker[gen + 1] = "none"
      BY <1>2 DEF Numbered
    <2>3. Numbered' /\ Exist'
      BY <1>2, <2>2 DEF Numbered, Exist
    <2>4. Chain'
      BY <1>2, <2>2 DEF Chain, Joined, Numbered
    <2>5. gen # 0 => stop[gen] \/ worker[gen] = "dead"
      BY <1>2 DEF NeedsGeneration, Alive, Exist
    <2>6. OldGenerationsStopping'
      BY <1>2, <2>2, <2>5 DEF OldGenerationsStopping
    <2>7. EncoderNotShownDisabled'
      BY <1>2, <2>2 DEF EncoderNotShownDisabled, Encoding
    <2> QED
      BY <2>1, <2>3, <2>4, <2>6, <2>7
  <1> QED
    BY <1>1, <1>2

\* The other steps of a request leave the generations' threads alone.
LEMMA HandlerIInv ==
  ASSUME IInv, NEW h \in Handlers,
         (\E o \in {"start", "stop"} : Request(h, o)) \/ Save(h) \/ Stop(h)
  PROVE  IInv'
  BY DEF IInv, TypeOK, Gens, WorkerLocations, Request, Save, Stop, Numbered, Exist, Chain, Joined,
         OldGenerationsStopping, EncoderNotShownDisabled, Encoding

\* Every step keeps the invariant.
LEMMA NextIInv == IInv /\ [Next]_vars => IInv'
  <1> SUFFICES ASSUME IInv, [Next]_vars PROVE IInv'
    OBVIOUS
  <1>1. CASE Restart
    BY <1>1, RestartIInv DEF IInv
  <1>2. ASSUME NEW h \in Handlers, Start(h) PROVE IInv'
    BY <1>2, StartIInv
  <1>3. ASSUME NEW h \in Handlers,
               (\E o \in {"start", "stop"} : Request(h, o)) \/ Save(h) \/ Stop(h)
        PROVE  IInv'
    BY <1>3, HandlerIInv
  <1>4. ASSUME NEW w \in Gens, Work(w) PROVE IInv'
    BY <1>4, WorkIInv
  <1>5. CASE UNCHANGED vars
    BY <1>5 DEF vars, IInv, TypeOK, Numbered, Exist, Chain, Joined, OldGenerationsStopping,
                EncoderNotShownDisabled, Encoding
  <1> QED
    BY <1>1, <1>2, <1>3, <1>4, <1>5 DEF Next, Step, Handle

\* The invariant excludes two encoders.
LEMMA IInvOneEncoder == IInv => OneEncoder
  <1> SUFFICES ASSUME IInv, NEW v \in Gens, NEW w \in Gens, Encoding(v), Encoding(w)
               PROVE  v = w
    BY DEF OneEncoder
  <1>1. Joined(v) /\ Joined(w) /\ worker[v] # "dead" /\ worker[w] # "dead"
    BY DEF Encoding, Joined
  <1>2. ~(v < w) /\ ~(w < v)
    BY <1>1 DEF IInv, Chain
  <1> QED
    BY <1>2 DEF Gens

\* The types of the recorder's state hold in every behaviour.
THEOREM TypeCorrect == Spec => []TypeOK
  BY InitIInv, NextIInv, PTL DEF Spec, IInv

\* Two encoders never run at once (SegmentRecorder.start, _worker), for any
\* number of concurrent requests, generations and process restarts.
THEOREM EncoderExclusive == Spec => []OneEncoder
  BY InitIInv, NextIInv, IInvOneEncoder, PTL DEF Spec

\* Every generation but the latest has been told to stop or is dead.
THEOREM NoUnreachableGeneration == Spec => []OldGenerationsStopping
  BY InitIInv, NextIInv, PTL DEF Spec, IInv

\* No status update of an old generation hides a running encoder.
THEOREM StatusTruthful == Spec => []EncoderNotShownDisabled
  BY InitIInv, NextIInv, PTL DEF Spec, IInv

(***************************************************************************)
(* FlagsAgree needs that requests do not overlap (with two handlers it is  *)
(* false).  What a request leaves half done is then known from where it is *)
(* (Agree), a thread winds down only when told to (Obeys), and no          *)
(* generation is told to stop before it exists (Unborn).                   *)
(***************************************************************************)
Sequential == \A g, h \in Handlers : g = h

Obeys == \A w \in Gens : worker[w] = "done" => stop[w]
Unborn == \A w \in Gens : w > gen => ~stop[w]

Agree ==
  ~ioFailed =>
    /\ \A h \in Handlers : pc[h] # "idle" => bufferActive = (op[h] = "start")
    /\ \A h \in Handlers : pc[h] = "call" => saved = (op[h] = "start")
    /\ Quiet => bufferActive = saved /\ (bufferActive <=> Wanted)

FInv == IInv /\ Obeys /\ Unborn /\ Agree

\* A step of a thread neither makes a generation wanted nor, without an
\* OSError, unwanted.
LEMMA WorkWanted ==
  ASSUME IInv, Obeys, NEW w \in Gens, Work(w)
  PROVE  /\ Obeys'
         /\ ~ioFailed' => ~ioFailed /\ (Wanted' <=> Wanted)
         /\ UNCHANGED <<bufferActive, saved, gen, stop, pc, op>>
  <1> USE DEF Goto, Dies
  <1>1. UNCHANGED <<bufferActive, saved, gen, stop, pc, op>>
    BY DEF Work, Join, Loop, Build, ReportRunning, Watch, Poll, Teardown, Pause, Backoff, Done
  <1>2. /\ worker \in [Gens -> WorkerLocations] /\ gen \in 0..MaxGen
        /\ stop \in [Gens -> BOOLEAN] /\ ioFailed \in BOOLEAN
    BY DEF IInv, TypeOK
  <1>3. /\ \A v \in Gens : v # w => worker'[v] = worker[v]
        /\ worker[w] \notin {"none", "dead"} /\ worker'[w] # "none"
        /\ worker'[w] = "done" => stop[w]
    BY <1>2 DEF Work, Join, Loop, Build, ReportRunning, Watch, Poll, Teardown, Pause, Backoff, Done
  <1>4. ioFailed => ioFailed'
    BY <1>2 DEF Work, Join, Loop, Build, ReportRunning, Watch, Poll, Teardown, Pause, Backoff, Done
  <1>5. worker'[w] = "dead" => worker[w] = "done" \/ ioFailed'
    BY <1>2 DEF Work, Join, Loop, Build, ReportRunning, Watch, Poll, Teardown, Pause, Backoff, Done
  <1>6. Obeys'
    BY <1>1, <1>3 DEF Obeys
  <1>7. ~ioFailed' => (Wanted' <=> Wanted)
    BY <1>1, <1>2, <1>3, <1>5 DEF Wanted, Alive, Obeys, Gens
  <1> QED
    BY <1>1, <1>4, <1>6, <1>7

LEMMA WorkFInv == ASSUME FInv, NEW w \in Gens, Work(w) PROVE FInv'
  <1>1. /\ Obeys'
        /\ ~ioFailed' => ~ioFailed /\ (Wanted' <=> Wanted)
        /\ UNCHANGED <<bufferActive, saved, gen, stop, pc, op>>
    BY WorkWanted DEF FInv
  <1>2. Agree'
    BY <1>1 DEF FInv, Agree, Quiet
  <1>3. Unborn'
    BY <1>1 DEF FInv, Unborn
  <1> QED
    BY <1>1, <1>2, <1>3, WorkIInv DEF FInv

\* A request that is alone leaves the flags and the recorder in agreement.
LEMMA HandlerFInv ==
  ASSUME Sequential, FInv, NEW h \in Handlers,
         (\E o \in {"start", "stop"} : Request(h, o)) \/ Handle(h)
  PROVE  FInv'
  <1> USE DEF FInv
  <1>1. /\ pc \in [Handlers -> {"idle", "save", "call"}]
        /\ op \in [Handlers -> {"start", "stop"}]
        /\ gen \in 0..MaxGen /\ stop \in [Gens -> BOOLEAN]
        /\ worker \in [Gens -> WorkerLocations]
    BY DEF IInv, TypeOK
  <1>2. \A g \in Handlers : g = h
    BY DEF Sequential
  <1>3. CASE \E o \in {"start", "stop"} : Request(h, o)
    <2>1. PICK o \in {"start", "stop"} : Request(h, o)
      BY <1>3
    <2>2. /\ pc'[h] = "save" /\ op'[h] = o /\ bufferActive' = (o = "start")
          /\ UNCHANGED <<saved, segState, gen, stop, worker, ioFailed>>
      BY <1>1, <2>1 DEF Request
    <2>3. Agree'
      BY <1>2, <2>2 DEF Agree, Quiet
    <2>4. Obeys' /\ Unborn'
      BY <2>2 DEF Obeys, Unborn
    <2> QED
      BY <1>3, <2>3, <2>4, HandlerIInv
  <1>4. CASE Save(h)
    <2>1. Obeys' /\ Unborn'
      BY <1>4 DEF Save, Obeys, Unborn
    <2>2. CASE saved' = (op[h] = "start") /\ pc'[h] = "call" /\ UNCHANGED ioFailed
      <3>1. bufferActive' = bufferActive /\ op' = op /\ pc[h] = "save"
        BY <1>4 DEF Save
      <3>2. Agree'
        BY <1>2, <2>2, <3>1 DEF Agree, Quiet
      <3> QED
        BY <1>4, <2>1, <3>2, HandlerIInv
    <2>3. CASE ioFailed' = TRUE
      BY <1>4, <2>1, <2>3, HandlerIInv DEF Agree
    <2> QED
      BY <1>1, <1>4, <2>2, <2>3 DEF Save
  <1>5. CASE Start(h)
    <2>1. /\ pc[h] = "call" /\ op[h] = "start" /\ pc'[h] = "idle"
          /\ UNCHANGED <<bufferActive, saved, segState, stop, op, ioFailed>>
      BY <1>1, <1>5 DEF Start
    <2>2. Wanted' /\ Obeys' /\ Unborn'
      <3>1. CASE ~NeedsGeneration /\ UNCHANGED <<gen, worker>>
        BY <1>1, <2>1, <3>1 DEF NeedsGeneration, Wanted, Alive, Obeys, Unborn
      <3>2. CASE /\ NeedsGeneration
                 /\ gen < MaxGen
                 /\ gen' = gen + 1
                 /\ worker' = [worker EXCEPT ![gen + 1] = "join"]
        <4>1. gen + 1 \in Gens /\ gen' # 0
          BY <1>1, <3>2 DEF Gens
        <4>2. worker'[gen'] = "join" /\ ~stop'[gen']
          BY <1>1, <2>1, <3>2, <4>1 DEF Unborn
        <4>3. Wanted'
          BY <4>1, <4>2 DEF Wanted, Alive
        <4>4. Obeys'
          BY <1>1, <2>1, <3>2, <4>1 DEF Obeys
        <4>5. Unborn'
          BY <1>1, <2>1, <3>2 DEF Unborn, Gens
        <4> QED
          BY <4>3, <4>4, <4>5
      <3> QED
        BY <1>5, <3>1, <3>2 DEF Start
    <2>3. Agree'
      <3>1. ~ioFailed => bufferActive /\ saved
        BY <2>1 DEF Agree
      <3>2. ~ioFailed => bufferActive = saved /\ (bufferActive <=> Wanted')
        BY <2>2, <3>1 DEF IInv, TypeOK
      <3>3. \A g \in Handlers : pc'[g] = "idle"
        BY <1>2, <2>1
      <3> QED
        BY <2>1, <3>2, <3>3 DEF Agree
    <2> QED
      BY <1>5, <2>2, <2>3, StartIInv
  <1>6. CASE Stop(h)
    <2>1. /\ pc[h] = "call" /\ op[h] = "stop" /\ pc'[h] = "idle"
          /\ stop' = [w \in Gens |-> stop[w] \/ w = gen]
          /\ UNCHANGED <<bufferActive, saved, segState, gen, worker, op, ioFailed>>
      BY <1>1, <1>6 DEF Stop
    <2>2. ~Wanted'
      <3>1. CASE gen = 0
        BY <2>1, <3>1 DEF Wanted
      <3>2. CASE gen \in Gens
        BY <2>1, <3>2 DEF Wanted
      <3> QED
        BY <1>1, <3>1, <3>2 DEF Gens
    <2>3. Obeys' /\ Unborn'
      BY <1>1, <2>1 DEF Obeys, Unborn, Gens
    <2>4. Agree'
      <3>1. ~ioFailed => ~bufferActive /\ ~saved
        BY <2>1 DEF Agree
      <3>2. ~ioFailed => bufferActive = saved /\ (bufferActive <=> Wanted')
        BY <2>2, <3>1 DEF IInv, TypeOK
      <3>3. \A g \in Handlers : pc'[g] = "idle"
        BY <1>2, <2>1
      <3> QED
        BY <2>1, <3>2, <3>3 DEF Agree
    <2> QED
      BY <1>6, <2>3, <2>4, HandlerIInv
  <1> QED
    BY <1>3, <1>4, <1>5, <1>6 DEF Handle

\* When requests do not overlap, the flag shown, the flag restored after a
\* restart and what the recorder does agree once a request has returned,
\* unless an OSError ended a request or a thread half way.
THEOREM FlagsDoAgree == Sequential => (Spec => []FlagsAgree)
  <1> SUFFICES ASSUME Sequential PROVE Spec => []FlagsAgree
    OBVIOUS
  <1>1. Init => FInv
    <2> SUFFICES ASSUME Init PROVE FInv
      OBVIOUS
    <2>1. Obeys /\ Unborn
      BY DEF Init, Obeys, Unborn
    <2>2. bufferActive = saved /\ (bufferActive <=> Wanted)
      BY DEF Init, Wanted, Alive, Gens
    <2>3. Agree
      BY <2>2 DEF Init, Agree
    <2> QED
      BY <2>1, <2>3, InitIInv DEF FInv
  <1>2. FInv /\ [Next]_vars => FInv'
    <2> SUFFICES ASSUME FInv, [Next]_vars PROVE FInv'
      OBVIOUS
    <2>1. CASE Restart
      <3>1. Obeys' /\ Unborn'
        BY <2>1 DEF Restart, Obeys, Unborn
      <3>2. bufferActive' = saved' /\ (bufferActive' <=> Wanted')
        BY <2>1 DEF Restart, Wanted, Alive, Gens
      <3>3. Agree'
        BY <2>1, <3>2 DEF Restart, Agree
      <3> QED
        BY <2>1, <3>1, <3>3, RestartIInv DEF FInv, IInv
    <2>2. CASE Step
      BY <2>2, HandlerFInv, WorkFInv DEF Step
    <2>3. CASE UNCHANGED vars
      <3>1. IInv'
        BY <2>3, NextIInv DEF FInv
      <3>2. Obeys' /\ Unborn' /\ Agree'
        BY <2>3 DEF FInv, Obeys, Unborn, Agree, Quiet, Wanted, Alive, vars
      <3> QED
        BY <3>1, <3>2 DEF FInv
    <2> QED
      BY <2>1, <2>2, <2>3 DEF Next
  <1>3. FInv => FlagsAgree
    BY DEF FInv, Agree, FlagsAgree
  <1> QED
    BY <1>1, <1>2, <1>3, PTL DEF Spec
=============================================================================
