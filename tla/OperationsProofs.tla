-------------------------- MODULE OperationsProofs --------------------------
(***************************************************************************)
(* CleanMeansConsistent for any number of requests and faults.             *)
(*                                                                         *)
(* The property speaks of moments when no request is in flight; the        *)
(* strengthening says what holds meanwhile.  A request that met no other   *)
(* one is the only one in flight (Alone), so that the legs it has behind   *)
(* it still stand when it is answered (Applied); and until some request is *)
(* past its precheck, or when the only one is a streaming start, what was  *)
(* consistent stays so (Untouched, Streaming).                             *)
(***************************************************************************)
EXTENDS Operations, TLAPS

Consistent ==
  /\ "analyzer" \in active <=> "recorder" \in active
  /\ "analyzer" \in active => "streamer" \in active

\* A request that met no other one is the only one.
Alone ==
  \A r \in alone : ~Idle(r) /\ (\A q \in Requests : q # r => Idle(q))

\* Nothing has been sent before the precheck of an analysis start is over.
Unsent ==
  \A r \in Requests :
    /\ pc[r] = "precheck" => /\ kind[r] = "analysis_start"
                             /\ legs[r] = Targets("analysis_start")
    /\ pc[r] # "legs" => r \notin failed

\* The legs that an undisturbed request without a failure has behind it are
\* in effect, and so is the precheck of an analysis start.
Applied ==
  \A r \in alone : pc[r] = "legs" /\ r \notin failed
    => /\ \A c \in Targets(kind[r]) \ legs[r] :
            c \in active <=> Starts(kind[r])
       /\ kind[r] = "analysis_start" => "streamer" \in active

\* Without a request past its precheck nothing has disturbed the consistency.
Untouched == clean /\ (\A r \in Requests : pc[r] # "legs") => Consistent

\* A streaming start on its own does not disturb it either.
Streaming ==
  \A r \in alone : pc[r] = "legs" /\ kind[r] = "streaming_start"
    => legs[r] \subseteq {"streamer"} /\ (clean => Consistent)

IInv == TypeOK /\ Alone /\ Unsent /\ Applied /\ Untouched /\ Streaming

LEMMA InitIInv == Init => IInv
<1> SUFFICES ASSUME Init PROVE IInv
  OBVIOUS
<1>1. TypeOK
  BY OperationsAssumption DEF Init, TypeOK, Kinds
<1>2. Alone /\ Unsent /\ Applied /\ Untouched /\ Streaming
  BY DEF Init, Alone, Unsent, Applied, Untouched, Streaming, Consistent
<1> QED BY <1>1, <1>2 DEF IInv

LEMMA TargetsType ==
  ASSUME NEW k \in Kinds
  PROVE  Targets(k) \in SUBSET Components
BY DEF Targets, Kinds, Components, Analysis

LEMMA FinishType ==
  ASSUME TypeOK, NEW r \in Requests, Finish(r)
  PROVE  /\ pc' \in [Requests -> {"idle", "precheck", "legs"}]
         /\ kind' \in [Requests -> Kinds]
         /\ legs' \in [Requests -> SUBSET Components]
         /\ failed' \subseteq Requests /\ alone' \subseteq Requests
BY DEF TypeOK, Finish, Kinds

LEMMA BeginIInv ==
  ASSUME IInv, NEW r \in Requests, NEW k \in Kinds, Begin(r, k)
  PROVE  IInv'
<1>1. TypeOK'
  BY TargetsType DEF IInv, TypeOK, Begin
<1>2. Alone'
  BY DEF IInv, TypeOK, Begin, Alone, Idle, NoneInFlight
<1>3. Unsent'
  BY DEF IInv, TypeOK, Begin, Unsent, Idle
<1>4. Applied'
  BY DEF IInv, TypeOK, Begin, Applied
<1>5. Untouched' /\ Streaming'
  BY DEF IInv, TypeOK, Begin, Untouched, Streaming, Unsent, Consistent, Idle,
         NoneInFlight, Targets
<1> QED BY <1>1, <1>2, <1>3, <1>4, <1>5 DEF IInv

LEMMA PrecheckIInv ==
  ASSUME IInv, NEW r \in Requests, Precheck(r)
  PROVE  IInv'
<1>1. TypeOK'
  <2>1. faults' \in 0 .. MaxFaults
    BY OperationsAssumption DEF IInv, TypeOK, Precheck, Fault
  <2> QED BY <2>1, FinishType DEF IInv, TypeOK, Precheck
<1>2. Alone' /\ Unsent'
  BY DEF IInv, TypeOK, Precheck, Finish, Alone, Unsent, Idle
<1>3. Applied'
  BY DEF IInv, TypeOK, Precheck, Finish, Applied, Unsent
<1>4. Untouched' /\ Streaming'
  BY DEF IInv, TypeOK, Precheck, Finish, Untouched, Streaming, Unsent,
         Consistent
<1> QED BY <1>1, <1>2, <1>3, <1>4 DEF IInv

LEMMA LegIInv ==
  ASSUME IInv, NEW r \in Requests, NEW c \in Components, Leg(r, c)
  PROVE  IInv'
<1>1. TypeOK'
  BY DEF IInv, TypeOK, Leg, Delivered
<1>2. Alone' /\ Unsent'
  BY DEF IInv, TypeOK, Leg, AtLeg, Alone, Unsent, Idle
<1>3. Applied'
  <2> SUFFICES ASSUME NEW s \in alone', pc'[s] = "legs", s \notin failed'
               PROVE  /\ \A d \in Targets(kind'[s]) \ legs'[s] :
                           d \in active' <=> Starts(kind'[s])
                      /\ kind'[s] = "analysis_start" => "streamer" \in active'
    BY DEF Applied
  <2>1. s = r /\ r \in alone /\ kind' = kind /\ legs'[r] = legs[r] \ {c}
    BY DEF IInv, TypeOK, Leg, AtLeg, Alone, Idle
  <2>2. \A d \in Targets(kind[r]) \ legs[r] : d \in active <=> Starts(kind[r])
    BY <2>1 DEF IInv, Leg, AtLeg, Applied
  <2>3. \A d \in Targets(kind[r]) \ legs'[r] :
           d \in active' <=> Starts(kind[r])
    BY <2>1, <2>2 DEF Leg, Delivered
  <2>4. kind[r] = "analysis_start" => "streamer" \in active'
    BY <2>1 DEF IInv, Leg, AtLeg, Applied, Delivered, Starts
  <2> QED BY <2>1, <2>3, <2>4
<1>4. Untouched' /\ Streaming'
  BY DEF IInv, TypeOK, Leg, AtLeg, Delivered, Alone, Untouched, Streaming,
         Consistent, Idle, Starts
<1> QED BY <1>1, <1>2, <1>3, <1>4 DEF IInv

LEMMA LegFailsIInv ==
  ASSUME IInv, NEW r \in Requests, NEW c \in Components, LegFails(r, c)
  PROVE  IInv'
<1>1. TypeOK'
  <2>1. faults' \in 0 .. MaxFaults
    BY OperationsAssumption DEF IInv, TypeOK, LegFails, Fault
  <2>2. active' \subseteq Components
    BY DEF IInv, TypeOK, LegFails, Delivered
  <2> QED BY <2>1, <2>2 DEF IInv, TypeOK, LegFails
<1>2. Alone' /\ Unsent'
  BY DEF IInv, TypeOK, LegFails, AtLeg, Alone, Unsent, Idle
<1>3. Applied'
  BY DEF IInv, TypeOK, LegFails, AtLeg, Alone, Applied, Idle
<1>4. Untouched' /\ Streaming'
  BY DEF IInv, TypeOK, LegFails, AtLeg, Delivered, Alone, Untouched,
         Streaming, Consistent, Idle, Starts
<1> QED BY <1>1, <1>2, <1>3, <1>4 DEF IInv

LEMMA AnswerIInv ==
  ASSUME IInv, NEW r \in Requests, Answer(r)
  PROVE  IInv'
<1>1. TypeOK'
  BY FinishType DEF IInv, TypeOK, Answer
<1>2. Alone' /\ Unsent'
  BY DEF IInv, TypeOK, Answer, Finish, Alone, Unsent, Idle
<1>3. Applied'
  BY DEF IInv, TypeOK, Answer, Finish, Applied
<1>4. ASSUME clean' PROVE Consistent
  BY <1>4 DEF IInv, TypeOK, Answer, Applied, Streaming, Consistent, Targets,
              Starts, Kinds, Components, Analysis
<1>5. Untouched' /\ Streaming'
  BY <1>4 DEF IInv, TypeOK, Answer, Finish, Untouched, Streaming, Alone,
              Consistent, Idle
<1> QED BY <1>1, <1>2, <1>3, <1>5 DEF IInv

LEMMA NextIInv == IInv /\ [Next]_vars => IInv'
<1> SUFFICES ASSUME IInv, [Next]_vars PROVE IInv'
  OBVIOUS
<1>1. ASSUME NEW c \in Components, GoDown(c) \/ ComeUp(c) PROVE IInv'
  <2>1. faults' \in 0 .. MaxFaults
    BY <1>1, OperationsAssumption DEF IInv, TypeOK, GoDown, ComeUp, Fault
  <2> QED
    BY <1>1, <2>1 DEF IInv, TypeOK, Alone, Unsent, Applied, Untouched,
                      Streaming, Consistent, GoDown, ComeUp, requests, Idle
<1>2. CASE UNCHANGED vars
  BY <1>2 DEF IInv, TypeOK, Alone, Unsent, Applied, Untouched, Streaming,
              Consistent, Idle, vars, requests
<1> QED
  BY <1>1, <1>2, BeginIInv, PrecheckIInv, LegIInv, LegFailsIInv, AnswerIInv
     DEF Next, Serve

\* An undisturbed fan-out answered 200 leaves analyzer and recorder in the
\* same state and no analysis without streaming: _fan_out and the four
\* operations, for any number of requests, outages and late answers.
THEOREM ConsistentAfterClean == Spec => []CleanMeansConsistent
<1>1. IInv => CleanMeansConsistent
  BY DEF IInv, Untouched, Consistent, CleanMeansConsistent, NoneInFlight, Idle
<1> QED BY InitIInv, NextIInv, <1>1, PTL DEF Spec
=============================================================================
