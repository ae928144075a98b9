----------------------------- MODULE Operations -----------------------------
(***************************************************************************)
(* The router's streaming and analysis operations, each fanned out to the  *)
(* components it concerns (router/main.py, router/proxy.py).               *)
(*                                                                         *)
(* A component is its persisted active flag (StreamerRuntime,              *)
(* AnalyzerPipeline and SegmentRecorder say what it does with it).  A leg  *)
(* may fail before it has set the flag, or after, when the component fails *)
(* later on or its answer misses the 10 s timeout.  A restarting component *)
(* keeps its flag, which is on disk.                                       *)
(***************************************************************************)
EXTENDS Naturals

CONSTANTS
  Requests,   \* requests the router serves at the same time
  MaxFaults   \* bound: outages of a component and lost answers

ASSUME OperationsAssumption == MaxFaults \in Nat

Components == {"streamer", "analyzer", "recorder"}
Analysis == {"analyzer", "recorder"}
Kinds == {"streaming_start", "streaming_stop", "analysis_start",
          "analysis_stop"}

VARIABLES
  active,  \* components whose persisted active flag is up
  up,      \* components whose container answers
  pc,      \* per request: idle, at the precheck, or sending its legs
  kind,    \* per request: the operation
  legs,    \* per request: the components that have not answered yet
  failed,  \* requests a leg of which failed
  alone,   \* requests that met no other one so far (history)
  clean,   \* the last fan-out met no failure and no other request (history)
  faults

requests == <<pc, kind, legs, failed, alone>>
vars == <<active, up, requests, clean, faults>>

Idle(r) == pc[r] = "idle"
NoneInFlight == \A r \in Requests : Idle(r)

\* _fan_out's targets.
Targets(k) ==
  CASE k = "streaming_start" -> {"streamer"}
    [] k = "streaming_stop" -> Components
    [] OTHER -> Analysis

Starts(k) == k \in {"streaming_start", "analysis_start"}

TypeOK ==
  /\ active \subseteq Components /\ up \subseteq Components
  /\ pc \in [Requests -> {"idle", "precheck", "legs"}]
  /\ kind \in [Requests -> Kinds]
  /\ legs \in [Requests -> SUBSET Components]
  /\ failed \subseteq Requests /\ alone \subseteq Requests
  /\ clean \in BOOLEAN
  /\ faults \in 0 .. MaxFaults

\* First start of the appliance.
Init ==
  /\ active = {} /\ up = Components
  /\ pc = [r \in Requests |-> "idle"]
  /\ kind = [r \in Requests |-> "analysis_stop"]
  /\ legs = [r \in Requests |-> {}]
  /\ failed = {} /\ alone = {}
  /\ clean = TRUE
  /\ faults = 0

Fault == faults < MaxFaults /\ faults' = faults + 1

\* The response; what the request was about is forgotten.
Finish(r) ==
  /\ pc' = [pc EXCEPT ![r] = "idle"]
  /\ kind' = [kind EXCEPT ![r] = "analysis_stop"]
  /\ legs' = [legs EXCEPT ![r] = {}]
  /\ failed' = failed \ {r} /\ alone' = alone \ {r}

-----------------------------------------------------------------------------

\* A request arrives.  Only an analysis start looks at the streamer first.
Begin(r, k) ==
  /\ Idle(r)
  /\ pc' = [pc EXCEPT ![r] =
              IF k = "analysis_start" THEN "precheck" ELSE "legs"]
  /\ kind' = [kind EXCEPT ![r] = k]
  /\ legs' = [legs EXCEPT ![r] = Targets(k)]
  /\ alone' = IF NoneInFlight THEN {r} ELSE {}
  /\ UNCHANGED <<active, up, failed, clean, faults>>

\* _streaming_active: unreachable is 502, inactive is 409.
Precheck(r) ==
  /\ pc[r] = "precheck"
  /\ \/ /\ "streamer" \in active \cap up
        /\ pc' = [pc EXCEPT ![r] = "legs"]
        /\ UNCHANGED <<kind, legs, failed, alone, faults>>
     \/ /\ \/ "streamer" \notin active \cap up /\ UNCHANGED faults
           \/ Fault
        /\ Finish(r)
  /\ UNCHANGED <<active, up, clean>>

AtLeg(r, c) == pc[r] = "legs" /\ c \in legs[r]

\* What a delivered leg does to its component.
Delivered(r, c) == IF Starts(kind[r]) THEN active \cup {c} ELSE active \ {c}

\* One leg, in parallel with the others, is delivered and answered.
Leg(r, c) ==
  /\ AtLeg(r, c)
  /\ c \in up
  /\ active' = Delivered(r, c)
  /\ legs' = [legs EXCEPT ![r] = @ \ {c}]
  /\ UNCHANGED <<up, pc, kind, failed, alone, clean, faults>>

\* Mutant: a connection failure is logged and not counted.
LegFails_Swallowed(r, c) ==
  /\ AtLeg(r, c)
  /\ \/ c \notin up /\ UNCHANGED <<active, faults>>
     \/ c \in up /\ Fault /\ active' \in {active, Delivered(r, c)}
  /\ legs' = [legs EXCEPT ![r] = @ \ {c}]
  /\ UNCHANGED <<up, pc, kind, failed, alone, clean>>

\* One leg fails: no connection, an error status, or an answer that misses
\* the timeout; the flag may have changed all the same.  (A leg that waits for
\* the component's lock may act even after the router has answered 502; here
\* it acts before, or never.)
LegFails(r, c) ==
  /\ AtLeg(r, c)
  /\ \/ c \notin up /\ UNCHANGED <<active, faults>>
     \/ c \in up /\ Fault /\ active' \in {active, Delivered(r, c)}
  /\ legs' = [legs EXCEPT ![r] = @ \ {c}]
  /\ failed' = failed \cup {r}
  /\ UNCHANGED <<up, pc, kind, alone, clean>>

\* All legs are back: 200, or 502 naming the failures.
Answer(r) ==
  /\ pc[r] = "legs" /\ legs[r] = {}
  /\ clean' = (/\ r \in alone
               /\ IF kind[r] = "streaming_start" THEN clean
                  ELSE r \notin failed)
  /\ Finish(r)
  /\ UNCHANGED <<active, up, faults>>

\* A component's container goes away and comes back.
GoDown(c) ==
  /\ c \in up /\ Fault
  /\ up' = up \ {c}
  /\ UNCHANGED <<active, requests, clean>>

ComeUp(c) ==
  /\ c \notin up
  /\ up' = up \cup {c}
  /\ UNCHANGED <<active, requests, clean, faults>>

-----------------------------------------------------------------------------

Serve(r) ==
  \/ Precheck(r)
  \/ \E c \in Components : Leg(r, c) \/ LegFails(r, c)
  \/ Answer(r)

Next ==
  \/ \E r \in Requests, k \in Kinds : Begin(r, k)
  \/ \E r \in Requests : Serve(r)
  \/ \E c \in Components : GoDown(c) \/ ComeUp(c)

Spec == Init /\ [][Next]_vars

-----------------------------------------------------------------------------
(* Properties.                                                             *)

\* After a start or a stop of the analysis, or a stop of the streaming, that
\* was answered 200 and met no other request, analyzer and recorder are in
\* the same state and no analysis runs without streaming, whatever partial
\* failures and races came before: re-requesting repairs them (SDD 6.1).
CleanMeansConsistent ==
  NoneInFlight /\ clean
    => /\ "analyzer" \in active <=> "recorder" \in active
       /\ "analyzer" \in active => "streamer" \in active

=============================================================================
