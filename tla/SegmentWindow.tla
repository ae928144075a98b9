--------------------------- MODULE SegmentWindow ---------------------------
(***************************************************************************)
(* The footage of a clip: the recorder's rolling segments (segments.py),   *)
(* their retention and the selection of those that overlap an event's      *)
(* window (rollover.py), and the finalizer that waits for the window to    *)
(* end before it selects (finalize.py).                                    *)
(*                                                                         *)
(* Time is counted in ticks, Second of them to a second, because a file is *)
(* named after the second in which it was opened and nothing else says     *)
(* when its footage begins or ends. Tick k stands for the footage of       *)
(* [k, k + 1). Selection only reads, so the finalizer of one event at any  *)
(* moment stands for all of them.                                          *)
(***************************************************************************)
EXTENDS Integers

CONSTANTS
    Second,       \* ticks in a second, which is SEGMENT_TIME as well
    Pre, Post,    \* TRIGGER_PRE_EVENT_SEC, TRIGGER_POST_EVENT_SEC in ticks
    MaxSpan,      \* longest segment that the camera's frame rate produces
    PurgePeriod,  \* longest time between two purges of a running worker
    None,         \* no open segment
    MaxStarts,    \* bound: pipelines started
    Horizon       \* bound: the clock

(* Mutant: retention covers the window alone. *)
Retention_NoSlack == Pre + Post

(* SEGMENT_RETENTION, in whole seconds. *)
Retention ==
    ((Pre + Post + 2 * Second + Second - 1) \div Second) * Second

ASSUME WindowAssumption ==
    /\ Second \in Nat \ {0} /\ Pre \in Nat /\ Post \in Nat
    /\ MaxSpan \in Nat /\ MaxSpan >= Second
    /\ PurgePeriod \in Nat \ {0}
    /\ MaxStarts \in Nat /\ Horizon \in Nat
    /\ None \notin Nat

VARIABLES
    now,       \* the clock
    mode,      \* the worker: "off", "connecting" or "recording"
    starts,    \* pipelines started so far
    segs,      \* the .ts files: name, first tick and end of their footage
    open,      \* name of the file being written
    purgedAt,  \* time of the last purge
    fin,       \* the finalizer and the anchor of its event
    chosen,    \* the segments it selected
    recorded   \* history: ticks encoded and not overwritten

vars == <<now, mode, starts, segs, open, purgedAt, fin, chosen, recorded>>

Times == 0 .. Horizon
Segments == [name : Times, from : Times, to : Times]
NoEvent == [pc |-> "none", anchor |-> 0]

TypeOK ==
    /\ now \in Times /\ purgedAt \in Times
    /\ mode \in {"off", "connecting", "recording"} /\ starts \in 0 .. MaxStarts
    /\ segs \subseteq Segments /\ chosen \subseteq Segments
    /\ open \in Times \cup {None}
    /\ fin \in [pc : {"none", "assemble", "direct", "done"}, anchor : Times]
    /\ recorded \subseteq Times

Init ==
    /\ now = 0 /\ purgedAt = 0
    /\ mode = "off" /\ starts = 0 /\ segs = {} /\ open = None
    /\ fin = NoEvent /\ chosen = {} /\ recorded = {}

-----------------------------------------------------------------------------
(* segment_path_for_time and parse_segment_start: what a name keeps. *)
Stamp(t) == t - (t % Second)

Footage(s) == s.from .. (s.to - 1)

WindowStart == fin.anchor - Pre
WindowEnd == fin.anchor + Post

(* Files whose name says they were opened within the retention. *)
Retained == {s \in segs : s.name + Retention >= now}

(* The open file grows with the clock; rotation and purge come no later than
   their limits. Nothing is asked of the time after a selection. *)
Tick ==
    /\ now < Horizon /\ fin.pc = "none"
    /\ mode = "recording" =>
         \A s \in segs : s.name = open => now - s.from < MaxSpan
    /\ mode # "off" => now - purgedAt < PurgePeriod
    /\ now' = now + 1
    /\ segs' = {IF s.name = open THEN [s EXCEPT !.to = now + 1] ELSE s :
                  s \in segs}
    /\ recorded' = IF mode = "recording" THEN recorded \cup {now} ELSE recorded
    /\ UNCHANGED <<mode, starts, open, purgedAt, fin, chosen>>

-----------------------------------------------------------------------------
(* The head of the worker's loop: purge, then a pipeline that connects. *)
Start ==
    /\ mode = "off" /\ starts < MaxStarts
    /\ mode' = "connecting" /\ starts' = starts + 1
    /\ segs' = Retained /\ purgedAt' = now
    /\ UNCHANGED <<now, open, fin, chosen, recorded>>

(* A new file, in place of one that was opened in the same second. *)
OpenSegment ==
    /\ open' = Stamp(now)
    /\ segs' = {s \in segs : s.name # Stamp(now)}
                 \cup {[name |-> Stamp(now), from |-> now, to |-> now]}
    /\ recorded' = recorded \ UNION {Footage(s) :
                                      s \in {r \in segs : r.name = Stamp(now)}}
    /\ UNCHANGED <<now, starts, purgedAt, fin, chosen>>

FirstSegment ==
    /\ mode = "connecting" /\ mode' = "recording"
    /\ OpenSegment

(* splitmuxsink asks for the next name at the first keyframe after a second
   of footage. *)
Rotate ==
    /\ mode = "recording"
    /\ \E s \in segs : s.name = open /\ now - s.from >= Second
    /\ OpenSegment
    /\ UNCHANGED mode

(* _watch purges every time it has looked at the bus. *)
Purge ==
    /\ mode # "off" /\ purgedAt # now
    /\ segs' = Retained /\ purgedAt' = now
    /\ UNCHANGED <<now, mode, starts, open, fin, chosen, recorded>>

(* A stop, an error or a stall ends the pipeline; nothing purges meanwhile. *)
Ends ==
    /\ mode # "off"
    /\ mode' = "off" /\ open' = None
    /\ UNCHANGED <<now, starts, segs, purgedAt, fin, chosen, recorded>>

-----------------------------------------------------------------------------
(* Mutant: a leftover segment lasts until now. *)
EndOf_Unbounded(s) ==
    LET later == {r.name : r \in {q \in segs : q.name > s.name}}
    IN  IF later # {} THEN CHOOSE n \in later : \A m \in later : n <= m
        ELSE now

(* A segment ends where the next one starts; the last one is bounded by the
   clock and by the retention. *)
EndOf(s) ==
    LET later == {r.name : r \in {q \in segs : q.name > s.name}}
    IN  IF later # {} THEN CHOOSE n \in later : \A m \in later : n <= m
        ELSE IF now < s.name + Retention THEN now ELSE s.name + Retention

(* select_segments_for_window *)
Selected(windowStart, windowEnd) ==
    {s \in segs : EndOf(s) > windowStart /\ s.name < windowEnd}

(* The finalizer of an event whose last frame was captured at a, once the
   window is over, the judgment has come and room has been made: at any time
   after the window. What comes before (the wait and the pruning of clips)
   touches no segment. Without a segment the event is recorded directly. *)
Select(a) ==
    /\ fin.pc = "none"
    /\ Pre <= a /\ a + Post <= now
    /\ chosen' = Selected(a - Pre, a + Post)
    /\ fin' = [anchor |-> a, pc |-> IF chosen' = {} THEN "direct" ELSE "assemble"]
    /\ UNCHANGED <<now, mode, starts, segs, open, purgedAt, recorded>>

(* ffmpeg concatenates; a file purged in the meantime, an error or a timeout
   leads to direct recording. *)
Assemble(works) ==
    /\ fin.pc = "assemble"
    /\ works => \A s \in chosen : \E r \in segs : r.name = s.name
    /\ fin' = [fin EXCEPT !.pc = IF works THEN "done" ELSE "direct"]
    /\ chosen' = IF works THEN {} ELSE chosen
    /\ UNCHANGED <<now, mode, starts, segs, open, purgedAt, recorded>>

(* _record_direct_clip, from now on and from the stream. *)
RecordDirect ==
    /\ fin.pc = "direct"
    /\ fin' = [fin EXCEPT !.pc = "done"] /\ chosen' = {}
    /\ UNCHANGED <<now, mode, starts, segs, open, purgedAt, recorded>>

-----------------------------------------------------------------------------
Worker == Start \/ FirstSegment \/ Rotate \/ Purge \/ Ends

Finalizer ==
    \/ \E a \in Times : Select(a)
    \/ \E works \in BOOLEAN : Assemble(works)
    \/ RecordDirect

Next == Tick \/ Worker \/ Finalizer

Spec == Init /\ [][Next]_vars

-----------------------------------------------------------------------------
Selecting == fin.pc \in {"assemble", "direct"}

(* The age up to which footage is sure to be in a file: the window and two
   segments of slack, less the file's own length and the second its name
   may be early. *)
Reach == Pre + Post + 2 * Second - (MaxSpan + Second - 3)

(***************************************************************************)
(* Whatever was recorded of an event's window and is within reach of the   *)
(* retention at the selection is in the segments selected for its clip, up *)
(* to the first second, which is the cut resolution: no purge, rotation or *)
(* gap in the recording takes more away, however it interleaves with the   *)
(* finalizer. The selection may be late by any time, because the judgment  *)
(* is. finalize.py:162 and SDD 7.2 (5) promise the window whatever the     *)
(* inference takes; that needs now - WindowEnd + MaxSpan <= 2 * Second + 2 *)
(* and TLC refutes it for a later selection, which finds the beginning of  *)
(* its window purged. What is kept then is what this property says.        *)
(***************************************************************************)
WindowKept ==
    Selecting =>
        \A k \in recorded :
            WindowStart + Second <= k /\ k < WindowEnd /\ now - k < Reach =>
                \E s \in chosen : k \in Footage(s)

(***************************************************************************)
(* No footage much older than the event joins its clip: a segment left by  *)
(* a stopped recorder, or from before a gap, is selected only if it is     *)
(* younger than the retention and a purge period.                          *)
(***************************************************************************)
ClipRecent ==
    Selecting =>
        \A s \in chosen : s.name + Retention + PurgePeriod > WindowStart
=============================================================================
