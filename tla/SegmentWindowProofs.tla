------------------------ MODULE SegmentWindowProofs ------------------------
(***************************************************************************)
(* Proofs, for every length of second, window, segment and purge period    *)
(* and a selection at any time, that the segments selected for an event    *)
(* hold what was recorded of its window and is within reach of the         *)
(* retention, and nothing much older.                                      *)
(*                                                                         *)
(* The argument follows a recorded tick.  The file that holds it is named  *)
(* less than a second before its first tick and is at most MaxSpan long    *)
(* (Shape), so a purge takes it only when the tick is older than the       *)
(* retention less a second and a segment (Covered).  A later file begins   *)
(* where this one has ended (Ordered), so its name, which the selection    *)
(* takes for the end of this one, is at most a second early: the           *)
(* resolution of the cut.  When segments are so long that the open file    *)
(* itself may be purged, no tick is within reach (Wide).                   *)
(***************************************************************************)
EXTENDS SegmentWindow, NaturalsInduction, WellFoundedInduction, TLAPS

(* The retention is sure to outlast the file being written. *)
Wide == Retention > Second + MaxSpan - 2

(* A name is the second of the first tick; no file is longer than MaxSpan. *)
Shape ==
    \A s \in segs : /\ s.name = Stamp(s.from)
                    /\ s.from <= s.to /\ s.to <= now
                    /\ s.to - s.from <= MaxSpan

(* A file with a later name begins where an earlier one has ended. *)
Ordered == \A r, s \in segs : r.name > s.name => s.to <= r.from

(* The file being written is the last one, it is there and up to date. *)
Writing ==
    /\ mode # "recording" => open = None
    /\ mode = "recording" => \A s \in segs : s.name <= open
    /\ mode = "recording" /\ Wide => \E s \in segs : s.name = open /\ s.to = now

(* No file is older than the retention was at the last purge, and while the
   worker runs that was not long ago: a file opened after a gap finds only
   files that were young then. *)
Purged ==
    /\ purgedAt <= now
    /\ mode # "off" => now - purgedAt <= PurgePeriod
    /\ \A s \in segs : s.name + Retention >= purgedAt
    /\ \A r, s \in segs : r.name > s.name => r.from <= s.name + Retention + PurgePeriod

(* What was recorded is in some file until the retention is over. *)
Covered ==
    Wide => \A k \in recorded :
              k + Retention > now + Second + MaxSpan - 3 =>
                \E s \in segs : k \in Footage(s)

IInv ==
    /\ TypeOK /\ Shape /\ Ordered /\ Writing /\ Purged /\ Covered
    /\ WindowKept /\ ClipRecent

-----------------------------------------------------------------------------
(* The constants are numbers. *)
LEMMA Numbers ==
    /\ Second \in Nat /\ Second >= 1 /\ Pre \in Nat /\ Post \in Nat
    /\ MaxSpan \in Nat /\ PurgePeriod \in Nat /\ PurgePeriod >= 1
    /\ Horizon \in Nat /\ MaxStarts \in Nat /\ None \notin Nat
BY WindowAssumption

(* SEGMENT_RETENTION: rounded up to whole seconds. *)
LEMMA RetentionSpan == Retention \in Nat /\ Retention >= Pre + Post + 2 * Second
<1> DEFINE n == Pre + Post + 2 * Second + Second - 1
           q == n \div Second
<1>1. n \in Nat /\ Second \in Nat /\ Second >= 1
  BY Numbers
<1> HIDE DEF n
<1>2. q \in Nat /\ q * Second <= n /\ n < q * Second + Second
  BY <1>1
<1>3. Retention = q * Second
  BY DEF Retention, n
<1> HIDE DEF q
<1>4. q * Second \in Nat
  BY <1>1, <1>2
<1> QED BY <1>1, <1>2, <1>3, <1>4, Numbers DEF n

(* parse_segment_start: a name is less than a second early. *)
LEMMA StampSpan ==
    ASSUME NEW t \in Nat
    PROVE  Stamp(t) \in Nat /\ Stamp(t) <= t /\ t < Stamp(t) + Second
<1>1. Second \in Nat /\ Second >= 1
  BY Numbers
<1>2. t % Second \in Nat /\ t % Second < Second /\ t % Second <= t
  BY <1>1
<1> QED BY <1>1, <1>2 DEF Stamp

(* segment_path_for_time: names come in the order of their files. *)
LEMMA StampOrder ==
    ASSUME NEW t \in Nat, NEW u \in Nat, t <= u
    PROVE  Stamp(t) <= Stamp(u)
<1> DEFINE p == t \div Second
           q == u \div Second
<1>1. Second \in Nat /\ Second >= 1
  BY Numbers
<1>2. /\ p \in Nat /\ t = Second * p + (t % Second) /\ (t % Second) \in 0 .. (Second - 1)
      /\ q \in Nat /\ u = Second * q + (u % Second) /\ (u % Second) \in 0 .. (Second - 1)
  BY <1>1
<1> HIDE DEF p, q
<1>3. Stamp(t) = Second * p /\ Stamp(u) = Second * q
  BY <1>1, <1>2 DEF Stamp
<1>4. p <= q
  <2> SUFFICES ASSUME q + 1 <= p PROVE FALSE
    BY <1>2
  <2>1. Second * (q + 1) <= Second * p
    BY <1>1, <1>2
  <2>2. Second * (q + 1) = Second * q + Second
    BY <1>1, <1>2
  <2> QED BY <1>1, <1>2, <2>1, <2>2
<1> QED BY <1>1, <1>2, <1>3, <1>4

(* A nonempty set of names has a first one, which EndOf looks for. *)
LEMMA FirstName ==
    ASSUME NEW S, S \subseteq Nat, S # {}
    PROVE  \E x \in S : \A y \in S : x <= y
<1> DEFINE R == {ss \in Nat \X Nat : ss[1] < ss[2]}
<1>1. IsWellFoundedOn(R, Nat)
  BY NatLessThanWellFounded DEF OpToRel
<1>2. PICK x \in S : \A y \in S : ~ (<<y, x>> \in R)
  BY <1>1, WFMin
<1>3. \A y \in S : ~ (y < x)
  BY <1>2
<1> QED BY <1>3

(* What the types say of the numbers. *)
LEMMA Types ==
    ASSUME TypeOK
    PROVE  /\ now \in Nat /\ purgedAt \in Nat /\ now <= Horizon
           /\ open \in Nat \cup {None} /\ fin.anchor \in Nat
           /\ \A k \in recorded : k \in Nat
           /\ \A s \in segs : s.name \in Nat /\ s.from \in Nat /\ s.to \in Nat
BY Numbers DEF TypeOK, Times, Segments

(* Types are kept by every step. *)
LEMMA NextTypes == ASSUME TypeOK, [Next]_vars PROVE TypeOK'
<1> USE DEF TypeOK
<1>0. /\ now \in Nat /\ now <= Horizon /\ Horizon \in Nat /\ None \notin Nat
      /\ Times \subseteq Nat
  BY Types, Numbers DEF Times
<1>1. CASE Tick
  <2>1. now' \in Times
    BY <1>0, <1>1 DEF Tick, Times
  <2>2. ASSUME NEW s \in segs
        PROVE  (IF s.name = open THEN [s EXCEPT !.to = now + 1] ELSE s) \in Segments
    BY <1>1, <2>1 DEF Tick, Segments
  <2>3. segs' \subseteq Segments
    BY <1>1, <2>2 DEF Tick
  <2> QED BY <1>1, <2>1, <2>3 DEF Tick
<1>2. ASSUME OpenSegment, mode' \in {"off", "connecting", "recording"} PROVE TypeOK'
  <2>1. Stamp(now) \in Times
    BY <1>0, StampSpan DEF Times
  <2>2. [name |-> Stamp(now), from |-> now, to |-> now] \in Segments
    BY <2>1 DEF Segments
  <2> QED BY <1>2, <2>1, <2>2 DEF OpenSegment
<1>3. CASE Worker
  <2>1. CASE Start
    <3>1. starts + 1 \in 0 .. MaxStarts
      BY <2>1, Numbers DEF Start
    <3> QED BY <2>1, <3>1 DEF Start, Retained
  <2>2. CASE FirstSegment \/ Rotate
    BY <1>2, <2>2 DEF FirstSegment, Rotate
  <2>3. CASE Purge
    BY <2>3 DEF Purge, Retained
  <2>4. CASE Ends
    BY <2>4 DEF Ends
  <2> QED BY <1>3, <2>1, <2>2, <2>3, <2>4 DEF Worker
<1>4. CASE Finalizer
  <2>1. ASSUME NEW a \in Times, Select(a) PROVE TypeOK'
    BY <2>1 DEF Select, Selected
  <2>2. ASSUME NEW works \in BOOLEAN, Assemble(works) PROVE TypeOK'
    BY <2>2 DEF Assemble
  <2>3. CASE RecordDirect
    BY <2>3 DEF RecordDirect
  <2> QED BY <1>4, <2>1, <2>2, <2>3 DEF Finalizer
<1>5. CASE UNCHANGED vars
  BY <1>5 DEF vars
<1> QED BY <1>1, <1>3, <1>4, <1>5 DEF Next

-----------------------------------------------------------------------------
(* The clock: the open file grows, everything else only gets older. *)
LEMMA TickIInv == ASSUME IInv, TypeOK', Tick PROVE IInv'
<1> DEFINE Grown(s) == IF s.name = open THEN [s EXCEPT !.to = now + 1] ELSE s
<1>0. /\ now \in Nat /\ purgedAt \in Nat /\ open \in Nat \cup {None}
      /\ \A s \in segs : s.name \in Nat /\ s.from \in Nat /\ s.to \in Nat
      /\ \A k \in recorded : k \in Nat
  BY Types DEF IInv
<1>1. /\ now' = now + 1 /\ mode' = mode /\ open' = open /\ purgedAt' = purgedAt
      /\ segs' = {Grown(s) : s \in segs}
      /\ recorded' = IF mode = "recording" THEN recorded \cup {now} ELSE recorded
      /\ fin' = fin /\ fin.pc = "none"
  BY DEF Tick
<1>2. \A s \in segs : /\ Grown(s).name = s.name /\ Grown(s).from = s.from
                      /\ Grown(s).to = IF s.name = open THEN now + 1 ELSE s.to
  BY DEF IInv, TypeOK, Segments
<1> HIDE DEF Grown
<1>3. \A s \in segs : s.name = open => mode = "recording" /\ now - s.from < MaxSpan
  BY <1>0, Numbers DEF IInv, Writing, Tick
<1>4. Shape'
  BY <1>0, <1>1, <1>2, <1>3, Numbers DEF IInv, Shape, Stamp
<1>5. Ordered'
  BY <1>0, <1>1, <1>2, <1>3 DEF IInv, Ordered, Writing
<1>6. Writing'
  BY <1>0, <1>1, <1>2 DEF IInv, Writing
<1>7. Purged'
  <2>1. mode # "off" => now - purgedAt < PurgePeriod
    BY DEF Tick
  <2> QED BY <1>0, <1>1, <1>2, <2>1, Numbers DEF IInv, Purged, Retention
<1>8. Covered'
  <2> SUFFICES ASSUME Wide, NEW k \in recorded',
                      k + Retention > now' + Second + MaxSpan - 3
               PROVE  \E s \in segs' : k \in Footage(s)
    BY DEF Covered, Retention, Wide
  <2>1. CASE k \in recorded
    <3>1. k + Retention > now + Second + MaxSpan - 3
      BY <1>0, <1>1, <2>1, RetentionSpan, Numbers
    <3>2. PICK s \in segs : k \in Footage(s)
      BY <2>1, <3>1 DEF IInv, Covered
    <3>3. s.to <= now
      BY DEF IInv, Shape
    <3>4. k \in Footage(Grown(s))
      BY <1>0, <1>2, <3>2, <3>3 DEF Footage
    <3> QED BY <1>1, <3>4
  <2>2. CASE k \notin recorded
    <3>1. k = now /\ mode = "recording"
      BY <1>1, <2>2
    <3>2. PICK s \in segs : s.name = open /\ s.to = now
      BY <3>1 DEF IInv, Writing
    <3>3. s.from <= s.to
      BY DEF IInv, Shape
    <3>4. k \in Footage(Grown(s))
      BY <1>0, <1>2, <3>1, <3>2, <3>3 DEF Footage
    <3> QED BY <1>1, <3>4
  <2> QED BY <2>1, <2>2
<1>9. WindowKept' /\ ClipRecent'
  BY <1>1 DEF WindowKept, ClipRecent, Selecting
<1> QED BY <1>4, <1>5, <1>6, <1>7, <1>8, <1>9 DEF IInv

(* A selection that was made stays right: footage may only disappear. *)
LEMMA ChosenKept ==
    ASSUME WindowKept, ClipRecent, UNCHANGED <<now, fin, chosen>>, recorded' \subseteq recorded
    PROVE  WindowKept' /\ ClipRecent'
BY DEF WindowKept, ClipRecent, Selecting, WindowStart, WindowEnd, Retention, Reach,
       Footage

(* FirstSegment, Rotate: the new file comes after all others, in place of one
   that has the name of the same second. *)
LEMMA OpenIInv ==
    ASSUME IInv, TypeOK', OpenSegment, mode # "off", mode' = "recording"
    PROVE  IInv'
<1> DEFINE new == [name |-> Stamp(now), from |-> now, to |-> now]
<1>0. /\ now \in Nat /\ purgedAt \in Nat /\ Stamp(now) \in Nat
      /\ \A s \in segs : s.name \in Nat /\ s.from \in Nat /\ s.to \in Nat
      /\ \A k \in recorded : k \in Nat
  BY Types, StampSpan DEF IInv
<1>1. /\ now' = now /\ open' = Stamp(now) /\ purgedAt' = purgedAt
      /\ segs' = {s \in segs : s.name # Stamp(now)} \cup {new}
      /\ UNCHANGED <<fin, chosen>>
  BY DEF OpenSegment
<1>2. new.name = Stamp(now) /\ new.from = now /\ new.to = now
  OBVIOUS
<1> HIDE DEF new
<1>3. Stamp(now) <= now /\ now < Stamp(now) + Second
  BY <1>0, StampSpan
<1>4. \A s \in segs : s.name <= Stamp(now) /\ s.to <= now /\ s.name = Stamp(s.from)
  BY <1>0, StampOrder DEF IInv, Shape
<1>5. Shape'
  BY <1>0, <1>1, <1>2, Numbers DEF IInv, Shape, Stamp
<1>6. Ordered'
  BY <1>0, <1>1, <1>2, <1>4 DEF IInv, Ordered
<1>7. Writing'
  BY <1>0, <1>1, <1>2, <1>4 DEF Writing
<1>8. Purged'
  <2>1. /\ now - purgedAt <= PurgePeriod /\ purgedAt <= now
        /\ \A s \in segs : s.name + Retention >= purgedAt
        /\ \A r, s \in segs : r.name > s.name => r.from <= s.name + Retention + PurgePeriod
    BY DEF IInv, Purged
  <2>2. new.name + Retention >= purgedAt
    BY <1>0, <1>2, <1>3, <2>1, RetentionSpan, Numbers
  <2>3. \A s \in segs : now <= s.name + Retention + PurgePeriod
    BY <1>0, <2>1, RetentionSpan, Numbers
  <2>4. \A s \in segs : ~(s.name > new.name)
    BY <1>0, <1>2, <1>4
  <2>5. Retention' = Retention /\ ~(new.name > new.name)
    BY <1>0, <1>2 DEF Retention
  <2> QED BY <1>1, <1>2, <2>1, <2>2, <2>3, <2>4, <2>5 DEF Purged
<1>9. recorded' \subseteq recorded
  BY DEF OpenSegment
<1>10. Covered'
  <2> SUFFICES ASSUME Wide, NEW k \in recorded',
                      k + Retention > now + Second + MaxSpan - 3
               PROVE  \E s \in segs' : k \in Footage(s)
    BY <1>1 DEF Covered, Retention, Wide
  <2>1. PICK s \in segs : k \in Footage(s)
    BY <1>9 DEF IInv, Covered
  <2>2. s.name # Stamp(now)
    BY <2>1 DEF OpenSegment
  <2> QED BY <1>1, <2>1, <2>2
<1>11. WindowKept' /\ ClipRecent'
  BY <1>1, <1>9, ChosenKept DEF IInv
<1> QED BY <1>5, <1>6, <1>7, <1>8, <1>10, <1>11 DEF IInv

(* Start, Purge: what is dropped is beyond the retention. *)
LEMMA RetainIInv ==
    ASSUME IInv, TypeOK', segs' = Retained, purgedAt' = now,
           mode' # "off", mode' = "recording" <=> mode = "recording",
           UNCHANGED <<now, open, fin, chosen, recorded>>
    PROVE  IInv'
<1>0. /\ now \in Nat /\ open \in Nat \cup {None}
      /\ \A s \in segs : s.name \in Nat /\ s.from \in Nat /\ s.to \in Nat
      /\ \A k \in recorded : k \in Nat
  BY Types DEF IInv
<1>1. \A s : s \in segs' <=> s \in segs /\ s.name + Retention >= now
  BY DEF Retained
<1>2. \A s \in segs : /\ s.name = Stamp(s.from) /\ s.from <= s.to /\ s.to <= now
                      /\ s.to - s.from <= MaxSpan /\ s.from < s.name + Second
  BY <1>0, StampSpan DEF IInv, Shape
<1>3. Shape' /\ Ordered'
  BY <1>1 DEF IInv, Shape, Ordered, Stamp
<1>4. Writing'
  <2>1. ASSUME Wide, NEW s \in segs, s.to = now PROVE s \in segs'
    <3>1. Retention > Second + MaxSpan - 2
      BY <2>1 DEF Wide
    <3>2. now <= s.name + Second - 1 + MaxSpan
      BY <1>0, <1>2, <2>1, Numbers
    <3> QED BY <1>0, <1>1, <3>1, <3>2, RetentionSpan, Numbers
  <2> QED BY <1>1, <2>1 DEF IInv, Writing, Wide
<1>5. Purged'
  <2>1. Retention' = Retention /\ now - now <= PurgePeriod
    BY <1>0, Numbers DEF Retention
  <2> QED BY <1>0, <1>1, <2>1 DEF IInv, Purged
<1>6. Covered'
  <2> SUFFICES ASSUME Wide, NEW k \in recorded,
                      k + Retention > now + Second + MaxSpan - 3
               PROVE  \E s \in segs' : k \in Footage(s)
    BY DEF Covered, Retention, Wide
  <2>1. PICK s \in segs : k \in Footage(s)
    BY DEF IInv, Covered
  <2>2. k < s.to
    BY <1>0, <2>1 DEF Footage
  <2>3. s.name + Retention >= now
    BY <1>0, <1>2, <2>2, RetentionSpan, Numbers
  <2> QED BY <1>1, <2>1, <2>3
<1>7. WindowKept' /\ ClipRecent'
  BY ChosenKept DEF IInv
<1> QED BY <1>3, <1>4, <1>5, <1>6, <1>7 DEF IInv

-----------------------------------------------------------------------------
(* EndOf: the name of a later file, or the clock and the retention. *)
LEMMA EndOfCases ==
    ASSUME TypeOK, NEW s \in segs
    PROVE  \/ \E r \in segs : r.name > s.name /\ EndOf(s) = r.name
           \/ EndOf(s) = IF now < s.name + Retention THEN now ELSE s.name + Retention
<1> DEFINE later == {r.name : r \in {q \in segs : q.name > s.name}}
<1>1. CASE later = {}
  BY <1>1 DEF EndOf
<1>2. CASE later # {}
  <2>1. later \subseteq Nat
    BY Types
  <2>2. EndOf(s) = CHOOSE n \in later : \A m \in later : n <= m
    BY <1>2 DEF EndOf
  <2>3. \E n \in later : \A m \in later : n <= m
    <3> HIDE DEF later
    <3> QED BY <1>2, <2>1, FirstName
  <2>4. EndOf(s) \in later
    <3> HIDE DEF later
    <3> QED BY <2>2, <2>3
  <2> QED BY <2>4
<1> QED BY <1>1, <1>2

(* What a selection chooses is right at that moment. *)
LEMMA SelectIInv == ASSUME IInv, TypeOK', NEW a \in Times, Select(a) PROVE IInv'
<1>0. /\ now \in Nat /\ a \in Nat
      /\ \A s \in segs : s.name \in Nat /\ s.from \in Nat /\ s.to \in Nat
      /\ \A k \in recorded : k \in Nat
  BY Types, Numbers DEF IInv, Times
<1>1. /\ Pre <= a /\ a + Post <= now
      /\ chosen' = {s \in segs : EndOf(s) > a - Pre /\ s.name < a + Post}
      /\ fin'.anchor = a
      /\ UNCHANGED <<now, mode, starts, segs, open, purgedAt, recorded>>
  BY DEF Select, Selected
<1>2. \A s \in segs : /\ s.name = Stamp(s.from) /\ s.from <= s.to /\ s.to <= now
                      /\ s.to - s.from <= MaxSpan
                      /\ s.name <= s.from /\ s.from < s.name + Second
  BY <1>0, StampSpan DEF IInv, Shape
<1>3. WindowStart' = a - Pre /\ WindowEnd' = a + Post
  BY <1>1 DEF WindowStart, WindowEnd
<1>4. Shape' /\ Ordered' /\ Writing' /\ Purged' /\ Covered'
  BY <1>1 DEF IInv, Shape, Ordered, Writing, Purged, Covered, Footage, Stamp, Retention, Wide
<1>5. WindowKept'
  <2> SUFFICES ASSUME NEW k \in recorded, a - Pre + Second <= k, k < a + Post,
                      now - k < Reach
               PROVE  \E s \in chosen' : k \in Footage(s)
    BY <1>1, <1>3 DEF WindowKept, Footage, Reach
  <2>1. k + Retention > now + Second + MaxSpan - 3
    BY <1>0, <1>1, RetentionSpan, Numbers DEF Reach
  <2>2. Wide
    BY <1>0, <1>1, <2>1, RetentionSpan, Numbers DEF Wide
  <2>3. PICK s \in segs : k \in Footage(s)
    BY <2>2, <2>1 DEF IInv, Covered
  <2>4. s.from <= k /\ k < s.to
    BY <1>0, <2>3 DEF Footage
  <2>5. s.name < a + Post
    BY <1>0, <1>2, <2>4, Numbers
  <2>6. EndOf(s) > a - Pre
    \* A later file begins where this one has ended, and its name is less than
    \* a second before that.
    <3>1. ASSUME NEW r \in segs, r.name > s.name PROVE r.name > a - Pre
      <4>1. s.to <= r.from
        BY <3>1 DEF IInv, Ordered
      <4> QED BY <1>0, <1>2, <2>4, <4>1, Numbers
    <3>2. now > a - Pre
      BY <1>0, <1>2, <2>4, Numbers
    <3>3. s.name + Retention > a - Pre
      <4>1. k <= s.name + Second + MaxSpan - 2
        BY <1>0, <1>2, <2>4, Numbers
      <4> QED BY <1>0, <1>1, <2>1, <4>1, RetentionSpan, Numbers
    <3> QED BY <3>1, <3>2, <3>3, EndOfCases DEF IInv
  <2> QED BY <1>1, <2>3, <2>5, <2>6
<1>6. ClipRecent'
  <2> SUFFICES ASSUME NEW s \in segs, EndOf(s) > a - Pre
               PROVE  s.name + Retention + PurgePeriod > a - Pre
    BY <1>1, <1>3 DEF ClipRecent, Retention
  <2>1. ASSUME NEW r \in segs, r.name > s.name, EndOf(s) = r.name
        PROVE  s.name + Retention + PurgePeriod > a - Pre
    <3>1. r.from <= s.name + Retention + PurgePeriod
      BY <2>1 DEF IInv, Purged
    <3> QED BY <1>0, <1>2, <2>1, <3>1, RetentionSpan, Numbers
  <2>2. ASSUME EndOf(s) = IF now < s.name + Retention THEN now ELSE s.name + Retention
        PROVE  s.name + Retention + PurgePeriod > a - Pre
    BY <1>0, <2>2, RetentionSpan, Numbers
  <2> QED BY <2>1, <2>2, EndOfCases DEF IInv
<1> QED BY <1>4, <1>5, <1>6 DEF IInv

(* Every step keeps the invariant. *)
LEMMA NextIInv == IInv /\ [Next]_vars => IInv'
<1> SUFFICES ASSUME IInv, [Next]_vars PROVE IInv'
  OBVIOUS
<1>0. TypeOK'
  BY NextTypes DEF IInv
<1>1. CASE Tick
  BY <1>0, <1>1, TickIInv
<1>2. CASE Worker
  <2>1. CASE Start
    BY <1>0, <2>1, RetainIInv DEF Start
  <2>2. CASE FirstSegment
    BY <1>0, <2>2, OpenIInv DEF FirstSegment
  <2>3. CASE Rotate
    BY <1>0, <2>3, OpenIInv DEF Rotate
  <2>4. CASE Purge
    BY <1>0, <2>4, RetainIInv DEF Purge
  <2>5. CASE Ends
    <3>1. WindowKept' /\ ClipRecent'
      BY <2>5, ChosenKept DEF Ends, IInv
    <3> QED BY <1>0, <2>5, <3>1 DEF Ends, IInv, Shape, Ordered, Writing, Purged, Covered, Footage,
                                    Stamp, Retention, Wide
  <2> QED BY <1>2, <2>1, <2>2, <2>3, <2>4, <2>5 DEF Worker
<1>3. CASE Finalizer
  <2>1. ASSUME NEW a \in Times, Select(a) PROVE IInv'
    BY <1>0, <2>1, SelectIInv
  <2>2. ASSUME UNCHANGED <<now, mode, starts, segs, open, purgedAt, recorded>>,
               Selecting' => Selecting /\ chosen' = chosen /\ fin'.anchor = fin.anchor
        PROVE  IInv'
    BY <1>0, <2>2 DEF IInv, Shape, Ordered, Writing, Purged, Covered, Footage, Stamp, Retention,
                      Wide, WindowKept, ClipRecent, WindowStart, WindowEnd
  <2>3. ASSUME NEW works \in BOOLEAN, Assemble(works) PROVE IInv'
    <3>1. Selecting' => Selecting /\ chosen' = chosen /\ fin'.anchor = fin.anchor
      BY <2>3 DEF Assemble, Selecting, IInv, TypeOK
    <3> QED BY <2>2, <2>3, <3>1 DEF Assemble
  <2>4. CASE RecordDirect
    <3>1. ~Selecting'
      BY <2>4 DEF RecordDirect, Selecting, IInv, TypeOK
    <3> QED BY <2>2, <2>4, <3>1 DEF RecordDirect
  <2> QED BY <1>3, <2>1, <2>3, <2>4 DEF Finalizer
<1>4. CASE UNCHANGED vars
  BY <1>4 DEF vars, IInv, TypeOK, Shape, Ordered, Writing, Purged, Covered, Footage, Stamp,
              Retention, Wide, WindowKept, ClipRecent, Selecting, WindowStart, WindowEnd
<1> QED BY <1>1, <1>2, <1>3, <1>4 DEF Next

(* A recorder that has recorded nothing satisfies it. *)
LEMMA InitIInv == Init => IInv
<1> SUFFICES ASSUME Init PROVE IInv
  OBVIOUS
<1>1. TypeOK
  BY Numbers DEF Init, TypeOK, Times, NoEvent
<1>2. Shape /\ Ordered /\ Writing /\ Covered
  BY DEF Init, Shape, Ordered, Writing, Covered
<1>3. Purged
  BY DEF Init, Purged
<1>4. WindowKept /\ ClipRecent
  BY DEF Init, WindowKept, ClipRecent, Selecting, NoEvent
<1> QED BY <1>1, <1>2, <1>3, <1>4 DEF IInv

(* It holds in every behaviour. *)
LEMMA Invariance == Spec => []IInv
BY InitIInv, NextIInv, PTL DEF Spec

(* The clock, the files and the finalizer keep their types. *)
THEOREM TypeCorrect == Spec => []TypeOK
<1>1. IInv => TypeOK
  BY DEF IInv
<1> QED BY <1>1, Invariance, PTL

(* rollover.py, segments.py, finalize.py: whatever was recorded of an event's
   window and is within reach of the retention when the finalizer selects, up
   to the first second of the window, is in the segments selected for its
   clip: for every window, segment length, lateness of the judgment, rotation,
   purge, gap and restart of the worker. *)
THEOREM WindowIsKept == Spec => []WindowKept
<1>1. IInv => WindowKept
  BY DEF IInv
<1> QED BY <1>1, Invariance, PTL

(* No selected segment is older than the retention and a purge period before
   the window. *)
THEOREM ClipIsRecent == Spec => []ClipRecent
<1>1. IInv => ClipRecent
  BY DEF IInv
<1> QED BY <1>1, Invariance, PTL
=============================================================================
