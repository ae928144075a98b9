-------------------------- MODULE EventClipsProofs --------------------------
(***************************************************************************)
(* Proofs, for any finite set of events and any cooldown, that the         *)
(* recorder's clip files, sidecars, counter, history rows and cooldown     *)
(* stay in step.                                                           *)
(*                                                                         *)
(* All of it rests on a clip being published by one finalizer, once        *)
(* (Owns), and on what a pruning knows of the clips it takes: its victim   *)
(* and its deletions exist only while it prunes (Works), and a sidecar     *)
(* whose clip is gone is the victim of one (Paired), so that an exception  *)
(* or a restart in between is noticed as torn.                             *)
(***************************************************************************)
EXTENDS EventClips, FiniteSetTheorems, WellFoundedInduction, TLAPS

(* No accepted event lies after the persisted anchor, which is never ahead of
   the one in memory. *)
Gate ==
    /\ saved <= anchor
    /\ \A s \in accepted : s <= saved
    /\ CooldownKept

(* A clip is published by its own finalizer, once, and is there until that
   one is done with it, unless it was deleted early. *)
Owns ==
    \A t \in Times :
        /\ t \in clips => pc[t] \in Publishing \cup {"insert", "done"}
        /\ pc[t] \in Publishing \cup {"insert"} => t \in clips \cup early

(* A finalizer has a victim, or has deleted something, only while it prunes. *)
Works ==
    \A t \in Times :
        /\ victim[t] # None => pc[t] \in {"uncount", "settle"}
        /\ t \in pruned => pc[t] \in {"prune", "uncount", "settle"}

(* A sidecar without its clip has a deletion at work on it. *)
Paired ==
    \A c \in sidecars :
        \/ c \in clips \cup early \cup torn \cup {user}
        \/ \E t \in Times : victim[t] = c

IInv ==
    TypeOK /\ Gate /\ Owns /\ Works /\ Paired /\ PrunedRowsGone /\ CounterAccounts

(* PruneUnlink with the clip it considers. *)
Unlink(t, c) ==
    /\ pc[t] = "prune"
    /\ queue' = [queue EXCEPT ![t] = @ \ {c}]
    /\ victim' = [victim EXCEPT ![t] = c]
    /\ pruned' = pruned \cup {t}
    /\ clips' = clips \ {c}
    /\ IF c \in clips
       THEN /\ NoteEarly(c)
            /\ unlisted' = IF c \in before[t] THEN unlisted
                           ELSE unlisted \cup {c}
            /\ Goto(t, "uncount")
       ELSE Goto(t, "settle") /\ UNCHANGED <<early, unlisted>>
    /\ UNCHANGED <<sidecars, count, rows, anchorVars, direct, before, user,
                   accepted, recorded, cut, torn, userGone, restarts>>

-----------------------------------------------------------------------------
LEMMA ClipNames == Clips \subseteq Nat /\ None \notin Clips
<1>1. Times \subseteq Nat /\ None \notin Nat /\ 0 \in Nat
  BY ClipAssumption
<1> QED BY <1>1 DEF Clips

(* A set of clips has an oldest one. *)
LEMMA Least ==
    ASSUME NEW S, S \subseteq Nat, S # {}
    PROVE  \E x \in S : \A y \in S : x <= y
<1> DEFINE R == {ss \in Nat \X Nat : ss[1] < ss[2]}
<1>1. IsWellFoundedOn(R, Nat)
  BY NatLessThanWellFounded DEF OpToRel
<1>2. PICK x \in S : \A y \in S : ~ (<<y, x>> \in R)
  BY <1>1, WFMin
<1>3. \A y \in S : ~ (y < x)
  BY <1>2
<1> QED BY <1>3

LEMMA UnlinkChosen ==
    ASSUME TypeOK, NEW t \in Times, PruneUnlink(t)
    PROVE  \E c \in queue[t] : Unlink(t, c)
<1> DEFINE c == CHOOSE x \in queue[t] : \A y \in queue[t] : x <= y
<1>1. queue[t] \subseteq Nat /\ queue[t] # {}
  <2>1. queue[t] \subseteq Clips /\ queue[t] # {}
    BY DEF TypeOK, PruneUnlink
  <2> QED BY <2>1, ClipNames
<1>2. \E x \in queue[t] : \A y \in queue[t] : x <= y
  BY <1>1, Least
<1>3. c \in queue[t]
  BY <1>2
<1>4. Unlink(t, c)
  BY DEF PruneUnlink, Unlink
<1> QED BY <1>3, <1>4

LEMMA Grow ==
    ASSUME NEW S, IsFiniteSet(S), NEW x, x \notin S
    PROVE  Cardinality(S \cup {x}) = Cardinality(S) + 1
BY FS_AddElement

LEMMA Shrink ==
    ASSUME NEW S, IsFiniteSet(S), NEW x \in S
    PROVE  Cardinality(S \ {x}) = Cardinality(S) - 1
BY FS_RemoveElement

(* What the counter is compared with is finite. *)
LEMMA Counted ==
    ASSUME TypeOK
    PROVE  /\ IsFiniteSet(clips) /\ Cardinality(clips) \in Nat
           /\ IsFiniteSet(Uncounted) /\ Cardinality(Uncounted) \in Nat
           /\ IsFiniteSet(Unlinked) /\ Cardinality(Unlinked) \in Nat
<1>1. IsFiniteSet(Clips)
  BY ClipAssumption, FS_AddElement, FS_EmptySet, FS_Union, FS_Singleton
     DEF Clips
<1>2. IsFiniteSet(clips) /\ IsFiniteSet(Uncounted) /\ IsFiniteSet(Unlinked)
  BY <1>1, ClipAssumption, FS_Subset DEF TypeOK, Uncounted, Unlinked
<1> QED BY <1>2, FS_CardinalityType

(* A clip that is unlinked but not uncounted is still in the counter. *)
LEMMA StillCounted ==
    ASSUME TypeOK, Owns, CounterAccounts, early = {},
           Unlinked # {} \/ user # None
    PROVE  count # 0
<1>1. Uncounted \subseteq clips
  BY DEF Owns, Uncounted
<1>2. Cardinality(Uncounted) <= Cardinality(clips)
  BY <1>1, Counted, FS_Subset
<1>3. Unlinked # {} => Cardinality(Unlinked) # 0
  BY Counted, FS_EmptySet
<1> QED BY <1>2, <1>3, Counted DEF CounterAccounts, TypeOK
-----------------------------------------------------------------------------

LEMMA StepCases ==
    ASSUME TypeOK, [Next]_vars
    PROVE  \/ \E t \in Times, b \in BOOLEAN : Notify(t, b)
           \/ \E t \in Times : ListBefore(t)
           \/ \E t \in Times, b \in BOOLEAN : CheckSpace(t, b)
           \/ \E t \in Times : \E c \in queue[t] : Unlink(t, c)
           \/ \E t \in Times : PruneUncount(t)
           \/ \E t \in Times, b \in BOOLEAN : PruneSidecar(t, b)
           \/ \E t \in Times, b \in BOOLEAN : PruneRows(t, b)
           \/ \E t \in Times : CaptureRaises(t)
           \/ \E t \in Times, b \in BOOLEAN : Capture(t, b)
           \/ \E t \in Times : StatClip(t)
           \/ \E t \in Times, b \in BOOLEAN : WriteSidecar(t, b)
           \/ \E t \in Times : CountAdded(t)
           \/ \E t \in Times : InsertEvent(t)
           \/ \E t \in Times : InsertRaises(t)
           \/ \E c \in Clips : UserUnlink(c)
           \/ UserUncount
           \/ (\E r \in rows : DeleteEvent(r)) \/ DeleteEvents
           \/ Restart
           \/ UNCHANGED vars
<1>1. ASSUME NEW t \in Times, Finalize(t)
      PROVE  \/ \E b \in BOOLEAN : Capture(t, b)
             \/ \E c \in queue[t] : Unlink(t, c)
             \/ ListBefore(t) \/ PruneUncount(t) \/ CaptureRaises(t)
             \/ StatClip(t) \/ CountAdded(t) \/ InsertEvent(t) \/ InsertRaises(t)
             \/ \E b \in BOOLEAN : \/ CheckSpace(t, b) \/ PruneSidecar(t, b)
                                   \/ PruneRows(t, b) \/ WriteSidecar(t, b)
  BY <1>1, UnlinkChosen DEF Finalize, RecordRollover, RecordDirect
<1> QED BY <1>1 DEF Next, UserDeletes

LEMMA TypeStep ==
    ASSUME TypeOK, [Next]_vars
    PROVE  TypeOK'
<1>1. CASE \E t \in Times, b \in BOOLEAN : Notify(t, b)
  <2> PICK t \in Times, b \in BOOLEAN : Notify(t, b)
    BY <1>1
  <2>1. pc' \in [Times -> Stages] /\ accepted' \subseteq Times
    BY DEF TypeOK, Stages, Capturing, Notify, Goto
  <2>2. anchor' \in Clips /\ saved' \in Clips
    BY DEF TypeOK, Clips, Notify
  <2> QED
    BY <2>1, <2>2 DEF TypeOK, Notify, fileVars, pruneVars
<1>2. CASE \E t \in Times : ListBefore(t)
  <2> PICK t \in Times : ListBefore(t)
    BY <1>2
  <2> QED
    BY ClipAssumption DEF TypeOK, Clips, Stages, Capturing, Publishing,
       ListBefore, Goto, fileVars, anchorVars, histVars
<1>3. CASE \E t \in Times, b \in BOOLEAN : CheckSpace(t, b)
  <2> PICK t \in Times, b \in BOOLEAN : CheckSpace(t, b)
    BY <1>3
  <2>1. queue' \in [Times -> SUBSET Clips] /\ pc' \in [Times -> Stages]
    BY DEF TypeOK, Stages, Capturing, CheckSpace, Goto
  <2> QED
    BY <2>1 DEF TypeOK, CheckSpace, fileVars, anchorVars, histVars
<1>4. CASE \E t \in Times : \E c \in queue[t] : Unlink(t, c)
  <2> PICK t \in Times : \E c \in queue[t] : Unlink(t, c)
    BY <1>4
  <2> PICK c \in queue[t] : Unlink(t, c)
    OBVIOUS
  <2>1. c \in Clips
    BY DEF TypeOK
  <2>2. /\ queue' \in [Times -> SUBSET Clips] /\ pruned' \subseteq Times
        /\ victim' \in [Times -> Clips \cup {None}]
    BY <2>1 DEF TypeOK, Unlink
  <2>3. /\ early' \subseteq Clips /\ unlisted' \subseteq Clips
        /\ pc' \in [Times -> Stages]
    BY <2>1 DEF TypeOK, Stages, Capturing, Unlink, NoteEarly, Goto
  <2> QED
    BY <2>2, <2>3 DEF TypeOK, Unlink, anchorVars
<1>5. CASE \E t \in Times : PruneUncount(t)
  <2> PICK t \in Times : PruneUncount(t)
    BY <1>5
  <2> QED
    BY ClipAssumption DEF TypeOK, Clips, Stages, Capturing, Publishing,
       PruneUncount, CountRemoved, Goto, anchorVars, pruneVars, histVars
<1>6. CASE \E t \in Times, b \in BOOLEAN : PruneSidecar(t, b)
  <2> PICK t \in Times, b \in BOOLEAN : PruneSidecar(t, b)
    BY <1>6
  <2> QED
    BY ClipAssumption DEF TypeOK, Clips, Stages, Capturing, Publishing,
       PruneSidecar, Goto, anchorVars, histVars
<1>7. CASE \E t \in Times, b \in BOOLEAN : PruneRows(t, b)
  <2> PICK t \in Times, b \in BOOLEAN : PruneRows(t, b)
    BY <1>7
  <2> QED
    BY ClipAssumption DEF TypeOK, Clips, Stages, Capturing, Publishing,
       PruneRows, RowsWithout, NoClip, Goto, anchorVars, histVars
<1>8. CASE \E t \in Times : CaptureRaises(t)
  <2> PICK t \in Times : CaptureRaises(t)
    BY <1>8
  <2> QED
    BY ClipAssumption DEF TypeOK, Clips, Stages, Capturing, Publishing,
       CaptureRaises, Goto, fileVars, anchorVars
<1>9. CASE \E t \in Times, b \in BOOLEAN : Capture(t, b)
  <2> PICK t \in Times, b \in BOOLEAN : Capture(t, b)
    BY <1>9
  <2> QED
    BY ClipAssumption DEF TypeOK, Clips, Stages, Capturing, Publishing,
       Capture, NoClip, Goto, anchorVars, histVars
<1>10. CASE \E t \in Times : StatClip(t)
  <2> PICK t \in Times : StatClip(t)
    BY <1>10
  <2> QED
    BY ClipAssumption DEF TypeOK, Clips, Stages, Capturing, Publishing,
       StatClip, Goto, fileVars, anchorVars, pruneVars, histVars
<1>11. CASE \E t \in Times, b \in BOOLEAN : WriteSidecar(t, b)
  <2> PICK t \in Times, b \in BOOLEAN : WriteSidecar(t, b)
    BY <1>11
  <2> QED
    BY ClipAssumption DEF TypeOK, Clips, Stages, Capturing, Publishing,
       WriteSidecar, Goto, anchorVars, pruneVars, histVars
<1>12. CASE \E t \in Times : CountAdded(t)
  <2> PICK t \in Times : CountAdded(t)
    BY <1>12
  <2> QED
    BY ClipAssumption DEF TypeOK, Clips, Stages, Capturing, Publishing,
       CountAdded, Goto, anchorVars, pruneVars, histVars
<1>13. CASE \E t \in Times : InsertEvent(t)
  <2> PICK t \in Times : InsertEvent(t)
    BY <1>13
  <2>1. <<t, pc[t] = "insert">> \in Clips \X BOOLEAN
    BY DEF Clips
  <2>2. rows' \subseteq Clips \X BOOLEAN
    BY <2>1 DEF TypeOK, InsertEvent
  <2>3. recorded' \subseteq Times /\ pc' \in [Times -> Stages]
    BY DEF TypeOK, Stages, InsertEvent, Goto
  <2> QED
    BY <2>2, <2>3 DEF TypeOK, InsertEvent, anchorVars, pruneVars
<1>14. CASE \E t \in Times : InsertRaises(t)
  <2> PICK t \in Times : InsertRaises(t)
    BY <1>14
  <2> QED
    BY ClipAssumption DEF TypeOK, Clips, Stages, Capturing, Publishing,
       InsertRaises, Goto, fileVars, anchorVars, pruneVars
<1>15. CASE \E c \in Clips : UserUnlink(c)
  BY <1>15, ClipAssumption DEF TypeOK, Clips, Stages, Capturing, Publishing,
     UserUnlink, NoteEarly, Unfinished, anchorVars, pruneVars
<1>16. CASE UserUncount
  BY <1>16, ClipAssumption DEF TypeOK, Clips, Stages, Capturing, Publishing,
     UserUncount, CountRemoved, anchorVars, pruneVars, histVars
<1>17. CASE (\E r \in rows : DeleteEvent(r)) \/ DeleteEvents
  BY <1>17, ClipAssumption DEF TypeOK, Clips, Stages, Capturing, Publishing,
     DeleteEvent, DeleteEvents, anchorVars, pruneVars, histVars
<1>18. CASE Restart
  <2>1. count' \in Nat /\ restarts' \in 0..MaxRestarts
    BY <1>18, Counted, ClipAssumption DEF TypeOK, Restart, Recount
  <2>2. /\ pc' \in [Times -> Stages] /\ cut' \subseteq Times
        /\ before' \in [Times -> SUBSET Clips]
        /\ queue' \in [Times -> SUBSET Clips]
        /\ victim' \in [Times -> Clips \cup {None}]
    BY <1>18 DEF TypeOK, Stages, Restart
  <2>3. torn' \subseteq Clips
    BY <1>18 DEF TypeOK, Restart
  <2> QED
    BY <1>18, <2>1, <2>2, <2>3 DEF TypeOK, Restart
<1>19. CASE UNCHANGED vars
  BY <1>19 DEF TypeOK, Clips, Stages, Capturing, Publishing, vars, fileVars,
     anchorVars, pruneVars, histVars
<1> QED BY <1>1, <1>2, <1>3, <1>4, <1>5, <1>6, <1>7, <1>8, <1>9, <1>10,
   <1>11, <1>12, <1>13, <1>14, <1>15, <1>16, <1>17, <1>18, <1>19, StepCases

LEMMA GateStep ==
    ASSUME TypeOK, Gate, [Next]_vars
    PROVE  Gate'
<1>0. saved \in Nat /\ anchor \in Nat /\ accepted \subseteq Nat
  BY ClipAssumption DEF TypeOK, Clips
<1>1. CASE \E t \in Times, b \in BOOLEAN : Notify(t, b)
  <2> PICK t \in Times, b \in BOOLEAN : Notify(t, b)
    BY <1>1
  <2>1. t \in Nat /\ Cooldown \in Nat /\ t >= anchor + Cooldown /\ anchor' = t
    BY ClipAssumption DEF Notify
  <2>2. \A s \in accepted : s <= anchor /\ s + Cooldown <= t
    BY <1>0, <2>1, ClipAssumption DEF Gate
  <2>3. CASE b
    <3>1. saved' = t /\ accepted' = accepted \cup {t}
      BY <2>3 DEF Notify
    <3>2. \A s \in accepted' : s <= saved'
      BY <1>0, <2>1, <2>2, <3>1
    <3>3. ASSUME NEW r \in accepted', NEW s \in accepted', r < s
          PROVE  s - r >= Cooldown
      <4>1. CASE r \in accepted /\ s \in accepted
        BY <3>3, <4>1 DEF Gate, CooldownKept
      <4>2. CASE r \in accepted /\ s = t
        BY <1>0, <2>1, <2>2, <4>2
      <4>3. CASE r = t /\ s \in accepted
        BY <1>0, <2>1, <2>2, <3>3, <4>3
      <4> QED BY <3>1, <3>3, <4>1, <4>2, <4>3, <2>1
    <3> QED BY <2>1, <3>1, <3>2, <3>3 DEF Gate, CooldownKept
  <2>4. CASE ~b
    <3>1. saved' = saved /\ accepted' = accepted
      BY <2>4 DEF Notify
    <3>2. saved' <= anchor'
      BY <1>0, <2>1, <3>1, ClipAssumption DEF Gate
    <3> QED BY <3>1, <3>2 DEF Gate, CooldownKept
  <2> QED BY <2>3, <2>4
<1>2. CASE \E t \in Times : ListBefore(t)
  <2> PICK t \in Times : ListBefore(t)
    BY <1>2
  <2> QED
    BY <1>0, ClipAssumption DEF Gate, CooldownKept, ListBefore, Goto,
       fileVars, anchorVars, histVars
<1>3. CASE \E t \in Times, b \in BOOLEAN : CheckSpace(t, b)
  <2> PICK t \in Times, b \in BOOLEAN : CheckSpace(t, b)
    BY <1>3
  <2> QED
    BY <1>0, ClipAssumption DEF Gate, CooldownKept, CheckSpace, Goto,
       fileVars, anchorVars, histVars
<1>4. CASE \E t \in Times : \E c \in queue[t] : Unlink(t, c)
  <2> PICK t \in Times : \E c \in queue[t] : Unlink(t, c)
    BY <1>4
  <2> PICK c \in queue[t] : Unlink(t, c)
    OBVIOUS
  <2> QED
    BY <1>0, ClipAssumption DEF Gate, CooldownKept, Unlink, NoteEarly,
       Unfinished, Goto, anchorVars
<1>5. CASE \E t \in Times : PruneUncount(t)
  <2> PICK t \in Times : PruneUncount(t)
    BY <1>5
  <2> QED
    BY <1>0, ClipAssumption DEF Gate, CooldownKept, PruneUncount,
       CountRemoved, Goto, anchorVars, pruneVars, histVars
<1>6. CASE \E t \in Times, b \in BOOLEAN : PruneSidecar(t, b)
  <2> PICK t \in Times, b \in BOOLEAN : PruneSidecar(t, b)
    BY <1>6
  <2> QED
    BY <1>0, ClipAssumption DEF Gate, CooldownKept, PruneSidecar, Goto,
       anchorVars, histVars
<1>7. CASE \E t \in Times, b \in BOOLEAN : PruneRows(t, b)
  <2> PICK t \in Times, b \in BOOLEAN : PruneRows(t, b)
    BY <1>7
  <2> QED
    BY <1>0, ClipAssumption DEF Gate, CooldownKept, PruneRows, RowsWithout,
       NoClip, Goto, anchorVars, histVars
<1>8. CASE \E t \in Times : CaptureRaises(t)
  <2> PICK t \in Times : CaptureRaises(t)
    BY <1>8
  <2> QED
    BY <1>0, ClipAssumption DEF Gate, CooldownKept, CaptureRaises, Goto,
       fileVars, anchorVars
<1>9. CASE \E t \in Times, b \in BOOLEAN : Capture(t, b)
  <2> PICK t \in Times, b \in BOOLEAN : Capture(t, b)
    BY <1>9
  <2> QED
    BY <1>0, ClipAssumption DEF Gate, CooldownKept, Capture, NoClip, Goto,
       anchorVars, histVars
<1>10. CASE \E t \in Times : StatClip(t)
  <2> PICK t \in Times : StatClip(t)
    BY <1>10
  <2> QED
    BY <1>0, ClipAssumption DEF Gate, CooldownKept, StatClip, Goto,
       fileVars, anchorVars, pruneVars, histVars
<1>11. CASE \E t \in Times, b \in BOOLEAN : WriteSidecar(t, b)
  <2> PICK t \in Times, b \in BOOLEAN : WriteSidecar(t, b)
    BY <1>11
  <2> QED
    BY <1>0, ClipAssumption DEF Gate, CooldownKept, WriteSidecar, Goto,
       anchorVars, pruneVars, histVars
<1>12. CASE \E t \in Times : CountAdded(t)
  <2> PICK t \in Times : CountAdded(t)
    BY <1>12
  <2> QED
    BY <1>0, ClipAssumption DEF Gate, CooldownKept, CountAdded, Goto,
       anchorVars, pruneVars, histVars
<1>13. CASE \E t \in Times : InsertEvent(t)
  <2> PICK t \in Times : InsertEvent(t)
    BY <1>13
  <2> QED
    BY <1>0, ClipAssumption DEF Gate, CooldownKept, InsertEvent, Goto,
       anchorVars, pruneVars
<1>14. CASE \E t \in Times : InsertRaises(t)
  <2> PICK t \in Times : InsertRaises(t)
    BY <1>14
  <2> QED
    BY <1>0, ClipAssumption DEF Gate, CooldownKept, InsertRaises, Goto,
       fileVars, anchorVars, pruneVars
<1>15. CASE \E c \in Clips : UserUnlink(c)
  BY <1>15, <1>0, ClipAssumption DEF Gate, CooldownKept, UserUnlink,
     NoteEarly, Unfinished, anchorVars, pruneVars
<1>16. CASE UserUncount
  BY <1>16, <1>0, ClipAssumption DEF Gate, CooldownKept, UserUncount,
     CountRemoved, anchorVars, pruneVars, histVars
<1>17. CASE (\E r \in rows : DeleteEvent(r)) \/ DeleteEvents
  BY <1>17, <1>0, ClipAssumption DEF Gate, CooldownKept, DeleteEvent,
     DeleteEvents, anchorVars, pruneVars, histVars
<1>18. CASE Restart
  <2>1. anchor' = saved /\ saved' = saved /\ accepted' = accepted
    BY <1>18 DEF Restart
  <2> QED BY <1>0, <2>1 DEF Gate, CooldownKept
<1>19. CASE UNCHANGED vars
  BY <1>19 DEF Gate, CooldownKept, vars, fileVars, anchorVars, pruneVars,
     histVars
<1> QED BY <1>1, <1>2, <1>3, <1>4, <1>5, <1>6, <1>7, <1>8, <1>9, <1>10,
   <1>11, <1>12, <1>13, <1>14, <1>15, <1>16, <1>17, <1>18, <1>19, StepCases

LEMMA OwnsStep ==
    ASSUME TypeOK, Owns, [Next]_vars
    PROVE  Owns'
<1>0. pc \in [Times -> Stages]
  BY ClipAssumption DEF TypeOK, Clips
<1>1. CASE \E t \in Times, b \in BOOLEAN : Notify(t, b)
  <2> PICK t \in Times, b \in BOOLEAN : Notify(t, b)
    BY <1>1
  <2> QED
    BY <1>0 DEF Owns, Capturing, Publishing, Notify, Goto, fileVars,
       pruneVars
<1>2. CASE \E t \in Times : ListBefore(t)
  <2> PICK t \in Times : ListBefore(t)
    BY <1>2
  <2> QED
    BY <1>0 DEF Owns, Capturing, Publishing, ListBefore, Goto, fileVars,
       anchorVars, histVars
<1>3. CASE \E t \in Times, b \in BOOLEAN : CheckSpace(t, b)
  <2> PICK t \in Times, b \in BOOLEAN : CheckSpace(t, b)
    BY <1>3
  <2> QED
    BY <1>0 DEF Owns, Capturing, Publishing, CheckSpace, Goto, fileVars,
       anchorVars, histVars
<1>4. CASE \E t \in Times : \E c \in queue[t] : Unlink(t, c)
  <2> PICK t \in Times : \E c \in queue[t] : Unlink(t, c)
    BY <1>4
  <2> PICK c \in queue[t] : Unlink(t, c)
    OBVIOUS
  <2> QED
    BY <1>0 DEF Owns, Capturing, Publishing, Unlink, NoteEarly, Unfinished,
       Goto, anchorVars
<1>5. CASE \E t \in Times : PruneUncount(t)
  <2> PICK t \in Times : PruneUncount(t)
    BY <1>5
  <2> QED
    BY <1>0 DEF Owns, Capturing, Publishing, PruneUncount, CountRemoved,
       Goto, anchorVars, pruneVars, histVars
<1>6. CASE \E t \in Times, b \in BOOLEAN : PruneSidecar(t, b)
  <2> PICK t \in Times, b \in BOOLEAN : PruneSidecar(t, b)
    BY <1>6
  <2> QED
    BY <1>0 DEF Owns, Capturing, Publishing, PruneSidecar, Goto, anchorVars,
       histVars
<1>7. CASE \E t \in Times, b \in BOOLEAN : PruneRows(t, b)
  <2> PICK t \in Times, b \in BOOLEAN : PruneRows(t, b)
    BY <1>7
  <2> QED
    BY <1>0 DEF Owns, Capturing, Publishing, PruneRows, RowsWithout, NoClip,
       Goto, anchorVars, histVars
<1>8. CASE \E t \in Times : CaptureRaises(t)
  <2> PICK t \in Times : CaptureRaises(t)
    BY <1>8
  <2> QED
    BY <1>0 DEF Owns, Capturing, Publishing, CaptureRaises, Goto, fileVars,
       anchorVars
<1>9. CASE \E t \in Times, b \in BOOLEAN : Capture(t, b)
  <2> PICK t \in Times, b \in BOOLEAN : Capture(t, b)
    BY <1>9
  <2> QED
    BY <1>0 DEF Owns, Capturing, Publishing, Capture, NoClip, Goto,
       anchorVars, histVars
<1>10. CASE \E t \in Times : StatClip(t)
  <2> PICK t \in Times : StatClip(t)
    BY <1>10
  <2> QED
    BY <1>0 DEF Owns, Capturing, Publishing, StatClip, Goto, fileVars,
       anchorVars, pruneVars, histVars
<1>11. CASE \E t \in Times, b \in BOOLEAN : WriteSidecar(t, b)
  <2> PICK t \in Times, b \in BOOLEAN : WriteSidecar(t, b)
    BY <1>11
  <2> QED
    BY <1>0 DEF Owns, Capturing, Publishing, WriteSidecar, Goto, anchorVars,
       pruneVars, histVars
<1>12. CASE \E t \in Times : CountAdded(t)
  <2> PICK t \in Times : CountAdded(t)
    BY <1>12
  <2> QED
    BY <1>0 DEF Owns, Capturing, Publishing, CountAdded, Goto, anchorVars,
       pruneVars, histVars
<1>13. CASE \E t \in Times : InsertEvent(t)
  <2> PICK t \in Times : InsertEvent(t)
    BY <1>13
  <2> QED
    BY <1>0 DEF Owns, Capturing, Publishing, InsertEvent, Goto, anchorVars,
       pruneVars
<1>14. CASE \E t \in Times : InsertRaises(t)
  <2> PICK t \in Times : InsertRaises(t)
    BY <1>14
  <2> QED
    BY <1>0 DEF Owns, Capturing, Publishing, InsertRaises, Goto, fileVars,
       anchorVars, pruneVars
<1>15. CASE \E c \in Clips : UserUnlink(c)
  BY <1>15, <1>0 DEF Owns, Capturing, Publishing, UserUnlink, NoteEarly,
     Unfinished, anchorVars, pruneVars
<1>16. CASE UserUncount
  BY <1>16, <1>0 DEF Owns, Capturing, Publishing, UserUncount, CountRemoved,
     anchorVars, pruneVars, histVars
<1>17. CASE (\E r \in rows : DeleteEvent(r)) \/ DeleteEvents
  BY <1>17, <1>0 DEF Owns, Capturing, Publishing, DeleteEvent, DeleteEvents,
     anchorVars, pruneVars, histVars
<1>18. CASE Restart
  BY <1>18, <1>0 DEF Owns, Capturing, Publishing, Restart, Recount
<1>19. CASE UNCHANGED vars
  BY <1>19 DEF Owns, Capturing, Publishing, vars, fileVars, anchorVars,
     pruneVars, histVars
<1> QED BY <1>1, <1>2, <1>3, <1>4, <1>5, <1>6, <1>7, <1>8, <1>9, <1>10,
   <1>11, <1>12, <1>13, <1>14, <1>15, <1>16, <1>17, <1>18, <1>19, StepCases

LEMMA WorksStep ==
    ASSUME TypeOK, Works, [Next]_vars
    PROVE  Works'
<1>0. pc \in [Times -> Stages] /\ victim \in [Times -> Clips \cup {None}]
  BY ClipAssumption DEF TypeOK, Clips
<1>1. CASE \E t \in Times, b \in BOOLEAN : Notify(t, b)
  <2> PICK t \in Times, b \in BOOLEAN : Notify(t, b)
    BY <1>1
  <2> QED
    BY <1>0 DEF Works, Notify, Goto, fileVars, pruneVars
<1>2. CASE \E t \in Times : ListBefore(t)
  <2> PICK t \in Times : ListBefore(t)
    BY <1>2
  <2> QED
    BY <1>0 DEF Works, ListBefore, Goto, fileVars, anchorVars, histVars
<1>3. CASE \E t \in Times, b \in BOOLEAN : CheckSpace(t, b)
  <2> PICK t \in Times, b \in BOOLEAN : CheckSpace(t, b)
    BY <1>3
  <2> QED
    BY <1>0 DEF Works, CheckSpace, Goto, fileVars, anchorVars, histVars
<1>4. CASE \E t \in Times : \E c \in queue[t] : Unlink(t, c)
  <2> PICK t \in Times : \E c \in queue[t] : Unlink(t, c)
    BY <1>4
  <2> PICK c \in queue[t] : Unlink(t, c)
    OBVIOUS
  <2> QED
    BY <1>0 DEF Works, Unlink, NoteEarly, Unfinished, Goto, anchorVars
<1>5. CASE \E t \in Times : PruneUncount(t)
  <2> PICK t \in Times : PruneUncount(t)
    BY <1>5
  <2> QED
    BY <1>0 DEF Works, PruneUncount, CountRemoved, Goto, anchorVars,
       pruneVars, histVars
<1>6. CASE \E t \in Times, b \in BOOLEAN : PruneSidecar(t, b)
  <2> PICK t \in Times, b \in BOOLEAN : PruneSidecar(t, b)
    BY <1>6
  <2> QED
    BY <1>0 DEF Works, PruneSidecar, Goto, anchorVars, histVars
<1>7. CASE \E t \in Times, b \in BOOLEAN : PruneRows(t, b)
  <2> PICK t \in Times, b \in BOOLEAN : PruneRows(t, b)
    BY <1>7
  <2> QED
    BY <1>0 DEF Works, PruneRows, RowsWithout, NoClip, Goto, anchorVars,
       histVars
<1>8. CASE \E t \in Times : CaptureRaises(t)
  <2> PICK t \in Times : CaptureRaises(t)
    BY <1>8
  <2> QED
    BY <1>0 DEF Works, CaptureRaises, Goto, fileVars, anchorVars
<1>9. CASE \E t \in Times, b \in BOOLEAN : Capture(t, b)
  <2> PICK t \in Times, b \in BOOLEAN : Capture(t, b)
    BY <1>9
  <2> QED
    BY <1>0 DEF Works, Capture, NoClip, Goto, anchorVars, histVars
<1>10. CASE \E t \in Times : StatClip(t)
  <2> PICK t \in Times : StatClip(t)
    BY <1>10
  <2> QED
    BY <1>0 DEF Works, StatClip, Goto, fileVars, anchorVars, pruneVars,
       histVars
<1>11. CASE \E t \in Times, b \in BOOLEAN : WriteSidecar(t, b)
  <2> PICK t \in Times, b \in BOOLEAN : WriteSidecar(t, b)
    BY <1>11
  <2> QED
    BY <1>0 DEF Works, WriteSidecar, Goto, anchorVars, pruneVars, histVars
<1>12. CASE \E t \in Times : CountAdded(t)
  <2> PICK t \in Times : CountAdded(t)
    BY <1>12
  <2> QED
    BY <1>0 DEF Works, CountAdded, Goto, anchorVars, pruneVars, histVars
<1>13. CASE \E t \in Times : InsertEvent(t)
  <2> PICK t \in Times : InsertEvent(t)
    BY <1>13
  <2> QED
    BY <1>0 DEF Works, InsertEvent, Goto, anchorVars, pruneVars
<1>14. CASE \E t \in Times : InsertRaises(t)
  <2> PICK t \in Times : InsertRaises(t)
    BY <1>14
  <2> QED
    BY <1>0 DEF Works, InsertRaises, Goto, fileVars, anchorVars, pruneVars
<1>15. CASE \E c \in Clips : UserUnlink(c)
  BY <1>15, <1>0 DEF Works, UserUnlink, NoteEarly, Unfinished, anchorVars,
     pruneVars
<1>16. CASE UserUncount
  BY <1>16, <1>0 DEF Works, UserUncount, CountRemoved, anchorVars,
     pruneVars, histVars
<1>17. CASE (\E r \in rows : DeleteEvent(r)) \/ DeleteEvents
  BY <1>17, <1>0 DEF Works, DeleteEvent, DeleteEvents, anchorVars,
     pruneVars, histVars
<1>18. CASE Restart
  BY <1>18, <1>0 DEF Works, Restart, Recount
<1>19. CASE UNCHANGED vars
  BY <1>19 DEF Works, vars, fileVars, anchorVars, pruneVars, histVars
<1> QED BY <1>1, <1>2, <1>3, <1>4, <1>5, <1>6, <1>7, <1>8, <1>9, <1>10,
   <1>11, <1>12, <1>13, <1>14, <1>15, <1>16, <1>17, <1>18, <1>19, StepCases

LEMMA PairedStep ==
    ASSUME TypeOK, Owns, Works, Paired, [Next]_vars
    PROVE  Paired'
<1>0. /\ victim \in [Times -> Clips \cup {None}] /\ pruned \subseteq Times
      /\ before \in [Times -> SUBSET Clips] /\ pc \in [Times -> Stages]
  BY ClipAssumption DEF TypeOK, Clips
<1>1. CASE \E t \in Times, b \in BOOLEAN : Notify(t, b)
  <2> PICK t \in Times, b \in BOOLEAN : Notify(t, b)
    BY <1>1
  <2> QED
    BY <1>0 DEF Owns, Works, Paired, Publishing, Notify, Goto, fileVars,
       pruneVars
<1>2. CASE \E t \in Times : ListBefore(t)
  <2> PICK t \in Times : ListBefore(t)
    BY <1>2
  <2> QED
    BY <1>0 DEF Owns, Works, Paired, Publishing, ListBefore, Goto, fileVars,
       anchorVars, histVars
<1>3. CASE \E t \in Times, b \in BOOLEAN : CheckSpace(t, b)
  <2> PICK t \in Times, b \in BOOLEAN : CheckSpace(t, b)
    BY <1>3
  <2> QED
    BY <1>0 DEF Owns, Works, Paired, Publishing, CheckSpace, Goto, fileVars,
       anchorVars, histVars
<1>4. CASE \E t \in Times : \E c \in queue[t] : Unlink(t, c)
  <2> PICK t \in Times : \E c \in queue[t] : Unlink(t, c)
    BY <1>4
  <2> PICK c \in queue[t] : Unlink(t, c)
    OBVIOUS
  <2>1. victim[t] = None
    BY DEF Works, Unlink
  <2>2. \A s \in Times : s # t => victim'[s] = victim[s]
    BY <1>0 DEF Unlink
  <2>3. /\ victim'[t] = c /\ sidecars' = sidecars /\ user' = user
        /\ clips' = clips \ {c} /\ early \subseteq early' /\ torn' = torn
    BY <1>0 DEF Unlink, NoteEarly
  <2> SUFFICES ASSUME NEW x \in sidecars
               PROVE  \/ x \in clips' \cup early' \cup torn' \cup {user'}
                      \/ \E s \in Times : victim'[s] = x
    BY <2>3 DEF Paired
  <2>4. CASE x = c /\ c \in clips
    BY <2>3, <2>4
  <2>5. CASE x # c /\ x \in clips
    BY <2>3, <2>5
  <2>6. CASE x \in early \cup torn \cup {user}
    BY <2>3, <2>6
  <2>7. CASE \E s \in Times : victim[s] = x
    <3>1. PICK s \in Times : victim[s] = x
      BY <2>7
    <3>2. x # None
      BY ClipNames DEF TypeOK
    <3>3. s # t
      BY <2>1, <3>1, <3>2
    <3> QED BY <2>2, <3>1, <3>3
  <2> QED BY <2>4, <2>5, <2>6, <2>7 DEF Paired
<1>5. CASE \E t \in Times : PruneUncount(t)
  <2> PICK t \in Times : PruneUncount(t)
    BY <1>5
  <2> QED
    BY <1>0 DEF Owns, Works, Paired, Publishing, PruneUncount, CountRemoved,
       Goto, anchorVars, pruneVars, histVars
<1>6. CASE \E t \in Times, b \in BOOLEAN : PruneSidecar(t, b)
  <2> PICK t \in Times, b \in BOOLEAN : PruneSidecar(t, b)
    BY <1>6
  <2> QED
    BY <1>0 DEF Owns, Works, Paired, Publishing, PruneSidecar, Goto,
       anchorVars, histVars
<1>7. CASE \E t \in Times, b \in BOOLEAN : PruneRows(t, b)
  <2> PICK t \in Times, b \in BOOLEAN : PruneRows(t, b)
    BY <1>7
  <2> QED
    BY <1>0 DEF Paired, PruneRows, histVars
<1>8. CASE \E t \in Times : CaptureRaises(t)
  <2> PICK t \in Times : CaptureRaises(t)
    BY <1>8
  <2> QED
    BY <1>0 DEF Owns, Works, Paired, Publishing, CaptureRaises, Goto,
       fileVars, anchorVars
<1>9. CASE \E t \in Times, b \in BOOLEAN : Capture(t, b)
  <2> PICK t \in Times, b \in BOOLEAN : Capture(t, b)
    BY <1>9
  <2> QED
    BY <1>0 DEF Owns, Works, Paired, Publishing, Capture, NoClip, Goto,
       anchorVars, histVars
<1>10. CASE \E t \in Times : StatClip(t)
  <2> PICK t \in Times : StatClip(t)
    BY <1>10
  <2> QED
    BY <1>0 DEF Owns, Works, Paired, Publishing, StatClip, Goto, fileVars,
       anchorVars, pruneVars, histVars
<1>11. CASE \E t \in Times, b \in BOOLEAN : WriteSidecar(t, b)
  <2> PICK t \in Times, b \in BOOLEAN : WriteSidecar(t, b)
    BY <1>11
  <2> QED
    BY <1>0 DEF Owns, Works, Paired, Publishing, WriteSidecar, Goto,
       anchorVars, pruneVars, histVars
<1>12. CASE \E t \in Times : CountAdded(t)
  <2> PICK t \in Times : CountAdded(t)
    BY <1>12
  <2> QED
    BY <1>0 DEF Owns, Works, Paired, Publishing, CountAdded, Goto,
       anchorVars, pruneVars, histVars
<1>13. CASE \E t \in Times : InsertEvent(t)
  <2> PICK t \in Times : InsertEvent(t)
    BY <1>13
  <2> QED
    BY <1>0 DEF Owns, Works, Paired, Publishing, InsertEvent, Goto,
       anchorVars, pruneVars
<1>14. CASE \E t \in Times : InsertRaises(t)
  <2> PICK t \in Times : InsertRaises(t)
    BY <1>14
  <2> QED
    BY <1>0 DEF Owns, Works, Paired, Publishing, InsertRaises, Goto,
       fileVars, anchorVars, pruneVars
<1>15. CASE \E c \in Clips : UserUnlink(c)
  <2> PICK c \in Clips : UserUnlink(c)
    BY <1>15
  <2>1. /\ sidecars' = sidecars /\ user' = c /\ clips' = clips \ {c}
        /\ early \subseteq early' /\ torn' = torn /\ user = None
        /\ pruned' = pruned /\ victim' = victim /\ before' = before
    BY DEF UserUnlink, NoteEarly, pruneVars
  <2>2. None \notin sidecars
    BY ClipNames DEF TypeOK
  <2> QED BY <2>1, <2>2 DEF Paired
<1>16. CASE UserUncount
  BY <1>16, <1>0 DEF Owns, Works, Paired, Publishing, UserUncount,
     CountRemoved, anchorVars, pruneVars, histVars
<1>17. CASE (\E r \in rows : DeleteEvent(r)) \/ DeleteEvents
  BY <1>17, <1>0 DEF Owns, Works, Paired, Publishing, DeleteEvent,
     DeleteEvents, anchorVars, pruneVars, histVars
<1>18. CASE Restart
  BY <1>18, <1>0 DEF Owns, Works, Paired, Publishing, Restart, Recount
<1>19. CASE UNCHANGED vars
  BY <1>19 DEF Owns, Works, Paired, Publishing, vars, fileVars, anchorVars,
     pruneVars, histVars
<1> QED BY <1>1, <1>2, <1>3, <1>4, <1>5, <1>6, <1>7, <1>8, <1>9, <1>10,
   <1>11, <1>12, <1>13, <1>14, <1>15, <1>16, <1>17, <1>18, <1>19, StepCases

LEMMA RowsStep ==
    ASSUME TypeOK, Owns, Works, PrunedRowsGone, [Next]_vars
    PROVE  PrunedRowsGone'
<1>0. /\ before \in [Times -> SUBSET Clips] /\ pruned \subseteq Times
      /\ pc \in [Times -> Stages]
  BY ClipAssumption DEF TypeOK, Clips
<1>1. CASE \E t \in Times, b \in BOOLEAN : Notify(t, b)
  <2> PICK t \in Times, b \in BOOLEAN : Notify(t, b)
    BY <1>1
  <2> QED
    BY <1>0 DEF Owns, Works, PrunedRowsGone, Publishing, Notify, Goto,
       fileVars, pruneVars
<1>2. CASE \E t \in Times : ListBefore(t)
  <2> PICK t \in Times : ListBefore(t)
    BY <1>2
  <2> QED
    BY <1>0 DEF Owns, Works, PrunedRowsGone, Publishing, ListBefore, Goto,
       fileVars, anchorVars, histVars
<1>3. CASE \E t \in Times, b \in BOOLEAN : CheckSpace(t, b)
  <2> PICK t \in Times, b \in BOOLEAN : CheckSpace(t, b)
    BY <1>3
  <2> QED
    BY <1>0 DEF Owns, Works, PrunedRowsGone, Publishing, CheckSpace, Goto,
       fileVars, anchorVars, histVars
<1>4. CASE \E t \in Times : \E c \in queue[t] : Unlink(t, c)
  <2> PICK t \in Times : \E c \in queue[t] : Unlink(t, c)
    BY <1>4
  <2> PICK c \in queue[t] : Unlink(t, c)
    OBVIOUS
  <2>1. /\ t \in pruned' /\ pruned \subseteq pruned' /\ rows' = rows
        /\ before' = before /\ userGone' = userGone
        /\ clips' = clips \ {c} /\ early \subseteq early'
        /\ torn' = torn /\ unlisted \subseteq unlisted'
        /\ c \in clips => c \in before[t] \/ c \in unlisted'
    BY DEF Unlink, NoteEarly
  <2> QED BY <1>0, <2>1 DEF PrunedRowsGone
<1>5. CASE \E t \in Times : PruneUncount(t)
  <2> PICK t \in Times : PruneUncount(t)
    BY <1>5
  <2> QED
    BY <1>0 DEF Owns, Works, PrunedRowsGone, Publishing, PruneUncount,
       CountRemoved, Goto, anchorVars, pruneVars, histVars
<1>6. CASE \E t \in Times, b \in BOOLEAN : PruneSidecar(t, b)
  <2> PICK t \in Times, b \in BOOLEAN : PruneSidecar(t, b)
    BY <1>6
  <2> QED
    BY <1>0 DEF Owns, Works, PrunedRowsGone, Publishing, PruneSidecar, Goto,
       anchorVars, histVars
<1>7. CASE \E t \in Times, b \in BOOLEAN : PruneRows(t, b)
  <2> PICK t \in Times, b \in BOOLEAN : PruneRows(t, b)
    BY <1>7
  <2> QED
    <3>1. /\ clips' = clips /\ userGone' = userGone /\ early' = early
          /\ torn' = torn /\ unlisted' = unlisted /\ pruned' = pruned \ {t}
          /\ rows' = IF t \in pruned THEN RowsWithout(before[t] \ clips)
                     ELSE rows
          /\ \A s \in Times \ {t} : before'[s] = before[s]
      BY <1>0 DEF PruneRows, histVars
    <3> SUFFICES ASSUME NEW c \in Clips, <<c, TRUE>> \in rows', c \notin clips,
                        c \notin userGone \cup early \cup torn \cup unlisted
                 PROVE  \E s \in pruned' : c \in before'[s]
      BY <3>1 DEF PrunedRowsGone
    <3>2. <<c, TRUE>> \in rows /\ (t \in pruned => c \notin before[t])
      BY <3>1 DEF RowsWithout
    <3>3. PICK s \in pruned : c \in before[s]
      BY <3>2 DEF PrunedRowsGone
    <3>4. s # t /\ s \in Times
      BY <1>0, <3>2, <3>3
    <3> QED BY <3>1, <3>3, <3>4
<1>8. CASE \E t \in Times : CaptureRaises(t)
  <2> PICK t \in Times : CaptureRaises(t)
    BY <1>8
  <2> QED
    <3>1. /\ clips' = clips /\ rows' = rows /\ userGone' = userGone
          /\ early' = early /\ unlisted' = unlisted /\ torn \subseteq torn'
          /\ t \in pruned => before[t] \ clips \subseteq torn'
          /\ pruned' = pruned \ {t}
          /\ \A s \in Times \ {t} : before'[s] = before[s]
      BY <1>0 DEF CaptureRaises, fileVars
    <3> SUFFICES ASSUME NEW c \in Clips, c \notin clips, c \notin torn',
                        NEW s \in pruned, c \in before[s]
                 PROVE  \E r \in pruned' : c \in before'[r]
      BY <3>1 DEF PrunedRowsGone
    <3>2. s # t /\ s \in Times
      BY <1>0, <3>1
    <3> QED BY <3>1, <3>2
<1>9. CASE \E t \in Times, b \in BOOLEAN : Capture(t, b)
  <2> PICK t \in Times, b \in BOOLEAN : Capture(t, b)
    BY <1>9
  <2> QED
    BY <1>0 DEF Owns, Works, PrunedRowsGone, Publishing, Capture, NoClip,
       Goto, anchorVars, histVars
<1>10. CASE \E t \in Times : StatClip(t)
  <2> PICK t \in Times : StatClip(t)
    BY <1>10
  <2> QED
    BY <1>0 DEF Owns, Works, PrunedRowsGone, Publishing, StatClip, Goto,
       fileVars, anchorVars, pruneVars, histVars
<1>11. CASE \E t \in Times, b \in BOOLEAN : WriteSidecar(t, b)
  <2> PICK t \in Times, b \in BOOLEAN : WriteSidecar(t, b)
    BY <1>11
  <2> QED
    BY <1>0 DEF Owns, Works, PrunedRowsGone, Publishing, WriteSidecar, Goto,
       anchorVars, pruneVars, histVars
<1>12. CASE \E t \in Times : CountAdded(t)
  <2> PICK t \in Times : CountAdded(t)
    BY <1>12
  <2> QED
    BY <1>0 DEF Owns, Works, PrunedRowsGone, Publishing, CountAdded, Goto,
       anchorVars, pruneVars, histVars
<1>13. CASE \E t \in Times : InsertEvent(t)
  <2> PICK t \in Times : InsertEvent(t)
    BY <1>13
  <2> QED
    BY <1>0 DEF Owns, Works, PrunedRowsGone, Publishing, InsertEvent, Goto,
       anchorVars, pruneVars
<1>14. CASE \E t \in Times : InsertRaises(t)
  <2> PICK t \in Times : InsertRaises(t)
    BY <1>14
  <2> QED
    BY <1>0 DEF Owns, Works, PrunedRowsGone, Publishing, InsertRaises, Goto,
       fileVars, anchorVars, pruneVars
<1>15. CASE \E c \in Clips : UserUnlink(c)
  BY <1>15, <1>0 DEF Owns, Works, PrunedRowsGone, Publishing, UserUnlink,
     NoteEarly, Unfinished, anchorVars, pruneVars
<1>16. CASE UserUncount
  BY <1>16, <1>0 DEF Owns, Works, PrunedRowsGone, Publishing, UserUncount,
     CountRemoved, anchorVars, pruneVars, histVars
<1>17. CASE (\E r \in rows : DeleteEvent(r)) \/ DeleteEvents
  BY <1>17, <1>0 DEF Owns, Works, PrunedRowsGone, Publishing, DeleteEvent,
     DeleteEvents, anchorVars, pruneVars, histVars
<1>18. CASE Restart
  <2> SUFFICES ASSUME NEW c \in Clips, <<c, TRUE>> \in rows, c \notin clips
               PROVE  c \in userGone \cup early \cup torn' \cup unlisted
    BY <1>18 DEF PrunedRowsGone, Restart
  <2>1. CASE \E t \in pruned : c \in before[t]
    BY <1>18, <2>1 DEF Restart
  <2>2. CASE c \in userGone \cup early \cup torn \cup unlisted
    BY <1>18, <2>2 DEF Restart
  <2> QED BY <2>1, <2>2 DEF PrunedRowsGone
<1>19. CASE UNCHANGED vars
  BY <1>19 DEF Owns, Works, PrunedRowsGone, Publishing, vars, fileVars,
     anchorVars, pruneVars, histVars
<1> QED BY <1>1, <1>2, <1>3, <1>4, <1>5, <1>6, <1>7, <1>8, <1>9, <1>10,
   <1>11, <1>12, <1>13, <1>14, <1>15, <1>16, <1>17, <1>18, <1>19, StepCases

LEMMA CountStep ==
    ASSUME TypeOK, Owns, CounterAccounts, [Next]_vars
    PROVE  CounterAccounts'
<1>1. CASE \E t \in Times, b \in BOOLEAN : Notify(t, b)
  <2>1. Uncounted' = Uncounted /\ Unlinked' = Unlinked
    BY <1>1 DEF TypeOK, Uncounted, Unlinked, Publishing, Notify, Goto,
       fileVars, pruneVars
  <2>2. /\ clips' = clips /\ count' = count /\ user' = user
        /\ early' = early
    BY <1>1 DEF Notify, Goto, fileVars, pruneVars
  <2> QED BY <2>1, <2>2 DEF CounterAccounts
<1>2. CASE \E t \in Times : ListBefore(t)
  <2>1. Uncounted' = Uncounted /\ Unlinked' = Unlinked
    BY <1>2 DEF TypeOK, Uncounted, Unlinked, Publishing, ListBefore, Goto,
       fileVars, anchorVars, histVars
  <2>2. /\ clips' = clips /\ count' = count /\ user' = user
        /\ early' = early
    BY <1>2 DEF ListBefore, Goto, fileVars, anchorVars, histVars
  <2> QED BY <2>1, <2>2 DEF CounterAccounts
<1>3. CASE \E t \in Times, b \in BOOLEAN : CheckSpace(t, b)
  <2>1. Uncounted' = Uncounted /\ Unlinked' = Unlinked
    BY <1>3 DEF TypeOK, Uncounted, Unlinked, Publishing, CheckSpace, Goto,
       fileVars, anchorVars, histVars
  <2>2. /\ clips' = clips /\ count' = count /\ user' = user
        /\ early' = early
    BY <1>3 DEF CheckSpace, Goto, fileVars, anchorVars, histVars
  <2> QED BY <2>1, <2>2 DEF CounterAccounts
<1>4. CASE \E t \in Times : \E c \in queue[t] : Unlink(t, c)
  <2>1. PICK t \in Times : \E c \in queue[t] : Unlink(t, c)
    BY <1>4
  <2>. PICK c \in queue[t] : Unlink(t, c)
    BY <2>1
  <2>2. /\ Uncounted' = Uncounted /\ count' = count /\ user' = user
        /\ clips' = clips \ {c} /\ t \notin Unlinked
    BY DEF TypeOK, Uncounted, Unlinked, Publishing, Unlink, Goto
  <2>3. CASE c \in clips
    <3>1. Unlinked' = Unlinked \cup {t} /\ early \subseteq early'
      BY <2>3 DEF TypeOK, Unlinked, Unlink, NoteEarly, Goto
    <3>2. Cardinality(Unlinked') = Cardinality(Unlinked) + 1
      BY <2>2, <3>1, Counted, Grow
    <3>3. Cardinality(clips') = Cardinality(clips) - 1
      BY <2>2, <2>3, Counted, Shrink
    <3> QED BY <2>2, <3>1, <3>2, <3>3, Counted DEF CounterAccounts, TypeOK
  <2>4. CASE c \notin clips
    <3>1. Unlinked' = Unlinked /\ early' = early /\ clips' = clips
      BY <2>2, <2>4 DEF TypeOK, Unlinked, Unlink, Goto
    <3> QED BY <2>2, <3>1 DEF CounterAccounts
  <2> QED BY <2>3, <2>4
<1>5. CASE \E t \in Times : PruneUncount(t)
  <2>1. PICK t \in Times : PruneUncount(t)
    BY <1>5
  <2>2. /\ Uncounted' = Uncounted /\ user' = user /\ clips' = clips
        /\ t \in Unlinked /\ Unlinked' = Unlinked \ {t} /\ early' = early
    BY <2>1 DEF TypeOK, Uncounted, Unlinked, Publishing, PruneUncount, Goto,
       pruneVars, histVars
  <2>3. early = {} => count' = count - 1
    BY <2>1, <2>2, StillCounted DEF PruneUncount, CountRemoved
  <2>4. Cardinality(Unlinked') = Cardinality(Unlinked) - 1
    BY <2>2, Counted, Shrink
  <2> QED BY <2>2, <2>3, <2>4, Counted DEF CounterAccounts, TypeOK
<1>6. CASE \E t \in Times, b \in BOOLEAN : PruneSidecar(t, b)
  <2>1. Uncounted' = Uncounted /\ Unlinked' = Unlinked
    BY <1>6 DEF TypeOK, Uncounted, Unlinked, Publishing, PruneSidecar, Goto,
       anchorVars, histVars
  <2>2. /\ clips' = clips /\ count' = count /\ user' = user
        /\ early' = early
    BY <1>6 DEF PruneSidecar, Goto, anchorVars, histVars
  <2> QED BY <2>1, <2>2 DEF CounterAccounts
<1>7. CASE \E t \in Times, b \in BOOLEAN : PruneRows(t, b)
  <2>1. Uncounted' = Uncounted /\ Unlinked' = Unlinked
    BY <1>7 DEF TypeOK, Uncounted, Unlinked, Publishing, PruneRows,
       RowsWithout, NoClip, Goto, anchorVars, histVars
  <2>2. /\ clips' = clips /\ count' = count /\ user' = user
        /\ early' = early
    BY <1>7 DEF PruneRows, RowsWithout, NoClip, Goto, anchorVars, histVars
  <2> QED BY <2>1, <2>2 DEF CounterAccounts
<1>8. CASE \E t \in Times : CaptureRaises(t)
  <2>1. Uncounted' = Uncounted /\ Unlinked' = Unlinked
    BY <1>8 DEF TypeOK, Uncounted, Unlinked, Publishing, CaptureRaises,
       Goto, fileVars, anchorVars
  <2>2. /\ clips' = clips /\ count' = count /\ user' = user
        /\ early' = early
    BY <1>8 DEF CaptureRaises, Goto, fileVars, anchorVars
  <2> QED BY <2>1, <2>2 DEF CounterAccounts
<1>9. CASE \E t \in Times, b \in BOOLEAN : Capture(t, b)
  <2>1. PICK t \in Times, b \in BOOLEAN : Capture(t, b)
    BY <1>9
  <2>2. /\ Unlinked' = Unlinked /\ user' = user /\ count' = count
        /\ early' = early /\ t \notin Uncounted /\ t \notin clips
    BY <2>1 DEF TypeOK, Owns, Uncounted, Unlinked, Publishing, Capture, NoClip,
       Goto, histVars
  <2>3. CASE b
    <3>1. Uncounted' = Uncounted \cup {t} /\ clips' = clips \cup {t}
      BY <2>1, <2>3 DEF TypeOK, Uncounted, Publishing, Capture, Goto
    <3>2. /\ Cardinality(Uncounted') = Cardinality(Uncounted) + 1
          /\ Cardinality(clips') = Cardinality(clips) + 1
      BY <2>2, <3>1, Counted, Grow
    <3> QED BY <2>2, <3>2, Counted DEF CounterAccounts, TypeOK
  <2>4. CASE ~b
    <3>1. Uncounted' = Uncounted /\ clips' = clips
      BY <2>1, <2>4 DEF TypeOK, Uncounted, Publishing, Capture, NoClip, Goto
    <3> QED BY <2>2, <3>1 DEF CounterAccounts
  <2> QED BY <2>3, <2>4
<1>10. CASE \E t \in Times : StatClip(t)
  <2>1. PICK t \in Times : StatClip(t)
    BY <1>10
  <2>2. /\ Unlinked' = Unlinked /\ user' = user /\ count' = count
        /\ early' = early /\ clips' = clips
    BY <2>1 DEF TypeOK, Unlinked, StatClip, Goto, histVars, fileVars
  <2>3. early = {} => Uncounted' = Uncounted
    BY <2>1 DEF TypeOK, Owns, Uncounted, Publishing, StatClip, Goto
  <2> QED BY <2>2, <2>3 DEF CounterAccounts
<1>11. CASE \E t \in Times, b \in BOOLEAN : WriteSidecar(t, b)
  <2>1. Uncounted' = Uncounted /\ Unlinked' = Unlinked
    BY <1>11 DEF TypeOK, Uncounted, Unlinked, Publishing, WriteSidecar,
       Goto, anchorVars, pruneVars, histVars
  <2>2. /\ clips' = clips /\ count' = count /\ user' = user
        /\ early' = early
    BY <1>11 DEF WriteSidecar, Goto, anchorVars, pruneVars, histVars
  <2> QED BY <2>1, <2>2 DEF CounterAccounts
<1>12. CASE \E t \in Times : CountAdded(t)
  <2>1. PICK t \in Times : CountAdded(t)
    BY <1>12
  <2>2. /\ Unlinked' = Unlinked /\ user' = user /\ count' = count + 1
        /\ early' = early /\ clips' = clips
        /\ t \in Uncounted /\ Uncounted' = Uncounted \ {t}
    BY <2>1 DEF TypeOK, Uncounted, Unlinked, Publishing, CountAdded, Goto,
       histVars
  <2>3. Cardinality(Uncounted') = Cardinality(Uncounted) - 1
    BY <2>2, Counted, Shrink
  <2> QED BY <2>2, <2>3, Counted DEF CounterAccounts, TypeOK
<1>13. CASE \E t \in Times : InsertEvent(t)
  <2>1. Uncounted' = Uncounted /\ Unlinked' = Unlinked
    BY <1>13 DEF TypeOK, Uncounted, Unlinked, Publishing, InsertEvent, Goto,
       anchorVars, pruneVars
  <2>2. /\ clips' = clips /\ count' = count /\ user' = user
        /\ early' = early
    BY <1>13 DEF InsertEvent, Goto, anchorVars, pruneVars
  <2> QED BY <2>1, <2>2 DEF CounterAccounts
<1>14. CASE \E t \in Times : InsertRaises(t)
  <2>1. Uncounted' = Uncounted /\ Unlinked' = Unlinked
    BY <1>14 DEF TypeOK, Uncounted, Unlinked, Publishing, InsertRaises,
       Goto, fileVars, anchorVars, pruneVars
  <2>2. /\ clips' = clips /\ count' = count /\ user' = user
        /\ early' = early
    BY <1>14 DEF InsertRaises, Goto, fileVars, anchorVars, pruneVars
  <2> QED BY <2>1, <2>2 DEF CounterAccounts
<1>15. CASE \E c \in Clips : UserUnlink(c)
  <2>1. PICK c \in Clips : UserUnlink(c)
    BY <1>15
  <2>2. /\ Unlinked' = Unlinked /\ Uncounted' = Uncounted /\ count' = count
        /\ early \subseteq early' /\ c \in clips /\ clips' = clips \ {c}
    BY <2>1 DEF Uncounted, Unlinked, UserUnlink, NoteEarly
  <2>3. user = None /\ user' # None
    BY <2>1, ClipAssumption DEF UserUnlink, Clips
  <2>4. Cardinality(clips') = Cardinality(clips) - 1
    BY <2>2, Counted, Shrink
  <2> QED BY <2>2, <2>3, <2>4, Counted DEF CounterAccounts, TypeOK
<1>16. CASE UserUncount
  <2>1. /\ Unlinked' = Unlinked /\ Uncounted' = Uncounted /\ clips' = clips
        /\ early' = early /\ user # None /\ user' = None
    BY <1>16 DEF Uncounted, Unlinked, UserUncount, histVars
  <2>2. early = {} => count' = count - 1
    BY <1>16, <2>1, StillCounted DEF UserUncount, CountRemoved
  <2> QED BY <2>1, <2>2, Counted DEF CounterAccounts, TypeOK
<1>17. CASE (\E r \in rows : DeleteEvent(r)) \/ DeleteEvents
  <2>1. Uncounted' = Uncounted /\ Unlinked' = Unlinked
    BY <1>17 DEF TypeOK, Uncounted, Unlinked, Publishing, DeleteEvent,
       DeleteEvents, anchorVars, pruneVars, histVars
  <2>2. /\ clips' = clips /\ count' = count /\ user' = user
        /\ early' = early
    BY <1>17 DEF DeleteEvent, DeleteEvents, anchorVars, pruneVars, histVars
  <2> QED BY <2>1, <2>2 DEF CounterAccounts
<1>18. CASE Restart
  <2>1. Uncounted' = {} /\ Unlinked' = {} /\ Cardinality({}) = 0
    BY <1>18, FS_EmptySet DEF Uncounted, Unlinked, Publishing, Restart
  <2>2. count' = Cardinality(clips) /\ clips' = clips /\ user' = None
    BY <1>18 DEF Restart, Recount
  <2> QED BY <2>1, <2>2, Counted DEF CounterAccounts
<1>19. CASE UNCHANGED vars
  BY <1>19 DEF CounterAccounts, Uncounted, Unlinked, vars, fileVars,
     anchorVars, pruneVars, histVars
<1> QED BY <1>1, <1>2, <1>3, <1>4, <1>5, <1>6, <1>7, <1>8, <1>9, <1>10,
   <1>11, <1>12, <1>13, <1>14, <1>15, <1>16, <1>17, <1>18, <1>19, StepCases
-----------------------------------------------------------------------------
LEMMA InitIInv == Init => IInv
<1> SUFFICES ASSUME Init PROVE IInv
  OBVIOUS
<1>1. clips \subseteq {0} /\ clips \subseteq Clips
  BY DEF Init, Clips
<1>2. IsFiniteSet(clips) /\ count \in Nat
  BY <1>1, FS_Singleton, FS_Subset, FS_CardinalityType DEF Init
<1>3. rows \subseteq Clips \X BOOLEAN
  <2>1. \A c \in clips : <<c, TRUE>> \in Clips \X BOOLEAN
    BY <1>1
  <2> QED BY <2>1 DEF Init
<1>4. restarts \in 0..MaxRestarts /\ anchor \in Clips /\ saved \in Clips
  BY ClipAssumption DEF Init, Clips
<1>5. TypeOK
  BY <1>1, <1>2, <1>3, <1>4 DEF Init, TypeOK, Stages
<1>6. Gate
  BY DEF Init, Gate, CooldownKept
<1>7. Owns /\ Works
  BY <1>1, ClipAssumption DEF Init, Owns, Works, Publishing
<1>8. Paired /\ PrunedRowsGone
  BY DEF Init, Paired, PrunedRowsGone
<1>9. CounterAccounts
  <2>1. Uncounted = {} /\ Unlinked = {} /\ Cardinality({}) = 0
    BY FS_EmptySet DEF Init, Uncounted, Unlinked, Publishing
  <2> QED BY <1>2, <2>1 DEF Init, CounterAccounts
<1> QED BY <1>5, <1>6, <1>7, <1>8, <1>9 DEF IInv

LEMMA SpecIInv == Spec => []IInv
<1>1. IInv /\ [Next]_vars => IInv'
  BY TypeStep, GateStep, OwnsStep, WorksStep, PairedStep, RowsStep, CountStep
     DEF IInv
<1> QED BY <1>1, InitIInv, PTL DEF Spec

(***************************************************************************)
(* Every behaviour of the recorder's finalisation is well-typed; the       *)
(* counter never goes below zero.                                          *)
(***************************************************************************)
THEOREM TypeCorrect == Spec => []TypeOK
<1>1. IInv => TypeOK
  BY DEF IInv
<1> QED BY <1>1, SpecIInv, PTL

(***************************************************************************)
(* accept_event's cooldown holds for any cooldown and any event times,     *)
(* across restarts and failed writes of the state file: two accepted       *)
(* events lie at least a cooldown apart.                                   *)
(***************************************************************************)
THEOREM CooldownIsKept == Spec => []CooldownKept
<1>1. IInv => CooldownKept
  BY DEF IInv, Gate
<1> QED BY <1>1, SpecIInv, PTL

(***************************************************************************)
(* The clip counter accounts for every clip file while any number of       *)
(* finalizers publish and prune and the user deletes, as long as no clip   *)
(* is deleted before its own finalizer is done with it.                    *)
(***************************************************************************)
THEOREM CounterIsExact == Spec => []CounterAccounts
<1>1. IInv => CounterAccounts
  BY DEF IInv
<1> QED BY <1>1, SpecIInv, PTL

(***************************************************************************)
(* delete_clip_pair and the user's deletions remove clip and sidecar as a  *)
(* pair: a sidecar without its clip has a deletion at work on it, or was   *)
(* cut short, or belongs to a clip deleted while it was being finished.    *)
(***************************************************************************)
THEOREM SidecarsArePaired == Spec => []SidecarsPaired
<1>1. IInv => SidecarsPaired
  BY DEF IInv, TypeOK, Paired, SidecarsPaired
<1> QED BY <1>1, SpecIInv, PTL

(***************************************************************************)
(* _prune_with_history takes the rows along: a row names a missing clip    *)
(* only if the user deleted that clip, a pruning is still at work or was   *)
(* cut short, the clip went before its row existed, or the pruning that    *)
(* took it had not listed it. The last case leaves a row behind without    *)
(* any failure; the theorem is that there is no other.                     *)
(***************************************************************************)
THEOREM PrunedRowsAreGone == Spec => []PrunedRowsGone
<1>1. IInv => PrunedRowsGone
  BY DEF IInv
<1> QED BY <1>1, SpecIInv, PTL
=============================================================================
