----------------------------- MODULE EventClips -----------------------------
(***************************************************************************)
(* The recorder's event finalisation (finalize.py), clip storage           *)
(* (clip_storage.py), history (events_db.py) and the user's deletions      *)
(* (main.py): clip files, sidecars, the in-memory clip counter, the        *)
(* history rows and the persisted cooldown anchor.                         *)
(*                                                                         *)
(* An event is its event_time t; its clip is named after it. Every         *)
(* accepted event has a finalizer thread of its own, and two of them       *)
(* overlap when the cooldown is shorter than a finalisation. Clip 0 stands *)
(* for a clip left by earlier operation. A clip being written has a .part  *)
(* name that nothing lists, so it appears here when it is published.       *)
(***************************************************************************)
EXTENDS Naturals, FiniteSets

CONSTANTS
    Times,        \* event times that occur (bound), in units of the clock
    None,         \* no clip
    Cooldown,     \* TRIGGER_COOLDOWN
    MaxRestarts   \* bound: recorder restarts

ASSUME ClipAssumption ==
    /\ Times \subseteq Nat \ {0} /\ IsFiniteSet(Times)
    /\ MaxRestarts \in Nat
    /\ Cooldown \in Nat \ {0}
    /\ None \notin Nat

Clips == {0} \cup Times

VARIABLES
    clips,      \* published .mp4 files
    sidecars,   \* .json files
    count,      \* _clip_count
    rows,       \* events table: <<event, TRUE if it names its clip>>
    anchor,     \* _trigger_last_save
    saved,      \* last_event_accepted_at in the state file
    pc,         \* finalizer of event t
    direct,     \* events whose capture fell back to direct recording
    before,     \* listing _prune_with_history took first
    queue,      \* clips ensure_clip_capacity has still to consider
    victim,     \* clip whose file is unlinked but not yet uncounted
    pruned,     \* finalizers that deleted at least one file in this pruning
    user,       \* clip the user's deletion has unlinked but not uncounted
    accepted, recorded, cut,  \* history: events accepted, inserted, given up
    early,      \* history: clips deleted before their own row was inserted
    torn,       \* history: clips whose removal was cut short
    unlisted,   \* history: clips pruned by a finalizer that had not listed them
    userGone,   \* history: clips the user deleted
    restarts

fileVars == <<clips, sidecars, count, rows>>
anchorVars == <<anchor, saved>>
pruneVars == <<before, queue, victim, pruned>>
histVars == <<accepted, recorded, cut, early, torn, unlisted, userGone>>
vars == <<fileVars, anchorVars, pc, direct, pruneVars, user, histVars, restarts>>

Capturing == {"list", "check", "prune", "uncount", "settle", "record"}
Publishing == {"stat", "sidecar", "count"}
Stages == {"none", "insert", "clipless", "done"} \cup Capturing \cup Publishing

TypeOK ==
    /\ clips \subseteq Clips /\ sidecars \subseteq Clips
    /\ count \in Nat
    /\ rows \subseteq Clips \X BOOLEAN
    /\ anchor \in Clips /\ saved \in Clips
    /\ pc \in [Times -> Stages]
    /\ direct \subseteq Times /\ pruned \subseteq Times
    /\ before \in [Times -> SUBSET Clips] /\ queue \in [Times -> SUBSET Clips]
    /\ victim \in [Times -> Clips \cup {None}] /\ user \in Clips \cup {None}
    /\ accepted \subseteq Times /\ recorded \subseteq Times /\ cut \subseteq Times
    /\ early \subseteq Clips /\ torn \subseteq Clips
    /\ unlisted \subseteq Clips /\ userGone \subseteq Clips
    /\ restarts \in 0..MaxRestarts

Init ==
    /\ clips \in SUBSET {0} /\ sidecars = clips
    /\ count = Cardinality(clips)
    /\ rows = {<<c, TRUE>> : c \in clips}
    /\ anchor = 0 /\ saved = 0
    /\ pc = [t \in Times |-> "none"] /\ direct = {}
    /\ before = [t \in Times |-> {}] /\ queue = [t \in Times |-> {}]
    /\ victim = [t \in Times |-> None] /\ pruned = {}
    /\ user = None
    /\ accepted = {} /\ recorded = {} /\ cut = {}
    /\ early = {} /\ torn = {} /\ unlisted = {} /\ userGone = {}
    /\ restarts = 0

-----------------------------------------------------------------------------
Goto(t, stage) == pc' = [pc EXCEPT ![t] = stage]

(* count_removed_clip never goes below zero. *)
CountRemoved == count' = IF count = 0 THEN 0 ELSE count - 1

(* The row of the event that owns clip c is still to come. *)
Unfinished(c) == c \in Times /\ pc[c] \in Publishing \cup {"insert"}
NoteEarly(c) == early' = IF Unfinished(c) THEN early \cup {c} ELSE early

(* Mutant: the anchor is kept in memory only. *)
Notify_NotPersisted(t, stored) ==
    /\ pc[t] = "none" /\ stored
    /\ t >= anchor + Cooldown
    /\ anchor' = t
    /\ accepted' = accepted \cup {t}
    /\ Goto(t, "list")
    /\ UNCHANGED <<fileVars, saved, direct, pruneVars, user, recorded, cut,
                   early, torn, unlisted, userGone, restarts>>

(* accept_event: the cooldown gate. The anchor in memory moves before the
   state file is written; when the write fails no finalizer is started. *)
Notify(t, stored) ==
    /\ pc[t] = "none"
    /\ t >= anchor + Cooldown
    /\ anchor' = t
    /\ IF stored
       THEN saved' = t /\ accepted' = accepted \cup {t} /\ Goto(t, "list")
       ELSE Goto(t, "done") /\ UNCHANGED <<saved, accepted>>
    /\ UNCHANGED <<fileVars, direct, pruneVars, user, recorded, cut, early,
                   torn, unlisted, userGone, restarts>>

(* A capture path returned None: rollover falls back to direct recording,
   direct recording gives up. *)
NoClip(t) ==
    IF t \in direct
    THEN Goto(t, "clipless") /\ UNCHANGED direct
    ELSE Goto(t, "list") /\ direct' = direct \cup {t}

(* The listing _prune_with_history compares against later. *)
ListBefore(t) ==
    /\ pc[t] = "list"
    /\ before' = [before EXCEPT ![t] = clips]
    /\ Goto(t, "check")
    /\ UNCHANGED <<fileVars, anchorVars, direct, queue, victim, pruned, user,
                   histVars, restarts>>

(* ensure_clip_capacity: enough space, or a listing to prune from. *)
CheckSpace(t, enough) ==
    /\ pc[t] = "check"
    /\ IF enough
       THEN Goto(t, "record") /\ UNCHANGED queue
       ELSE Goto(t, "prune") /\ queue' = [queue EXCEPT ![t] = clips]
    /\ UNCHANGED <<fileVars, anchorVars, direct, before, victim, pruned, user,
                   histVars, restarts>>

(* Mutant: a clip that is already gone is uncounted again. *)
PruneUnlink_Unchecked(t) ==
    /\ pc[t] = "prune" /\ queue[t] # {}
    /\ LET c == CHOOSE x \in queue[t] : \A y \in queue[t] : x <= y IN
       /\ queue' = [queue EXCEPT ![t] = @ \ {c}]
       /\ victim' = [victim EXCEPT ![t] = c]
       /\ pruned' = pruned \cup {t}
       /\ clips' = clips \ {c}
       /\ NoteEarly(c)
       /\ Goto(t, "uncount")
    /\ UNCHANGED <<sidecars, count, rows, anchorVars, direct, before, user,
                   accepted, recorded, cut, torn, unlisted, userGone, restarts>>

(* delete_clip_pair, oldest clip first: the file goes. A file that someone
   else removed meanwhile is passed over. The clips come from a listing later
   than before[t]: one that was published in between goes all the same, and
   unlisted remembers that PruneRows will not find it. *)
PruneUnlink(t) ==
    /\ pc[t] = "prune" /\ queue[t] # {}
    /\ LET c == CHOOSE x \in queue[t] : \A y \in queue[t] : x <= y IN
       /\ queue' = [queue EXCEPT ![t] = @ \ {c}]
       /\ victim' = [victim EXCEPT ![t] = c]
       /\ pruned' = pruned \cup {t}
       /\ clips' = clips \ {c}
       /\ IF c \in clips
          THEN /\ NoteEarly(c)
               /\ unlisted' = IF c \in before[t] THEN unlisted
                              ELSE unlisted \cup {c}
               /\ Goto(t, "uncount")
          ELSE Goto(t, "settle") /\ UNCHANGED <<early, unlisted>>
    /\ UNCHANGED <<sidecars, count, rows, anchorVars, direct, before, user,
                   accepted, recorded, cut, torn, userGone, restarts>>

(* ... then its count ... *)
PruneUncount(t) ==
    /\ pc[t] = "uncount"
    /\ CountRemoved
    /\ Goto(t, "settle")
    /\ UNCHANGED <<clips, sidecars, rows, anchorVars, direct, pruneVars, user,
                   histVars, restarts>>

(* ... and its sidecar; the loop ends when the target is reached. *)
PruneSidecar(t, reached) ==
    /\ pc[t] = "settle"
    /\ sidecars' = sidecars \ {victim[t]}
    /\ victim' = [victim EXCEPT ![t] = None]
    /\ Goto(t, "prune")
    /\ queue' = IF reached THEN [queue EXCEPT ![t] = {}] ELSE queue
    /\ UNCHANGED <<clips, count, rows, anchorVars, direct, before, pruned, user,
                   histVars, restarts>>

(* Mutant: the rows go only when the pruning made enough room. *)
PruneRows_OnlyWhenOk(t, ok) ==
    /\ pc[t] = "prune" /\ queue[t] = {}
    /\ rows' = IF t \in pruned /\ ok
               THEN {r \in rows : ~(r[2] /\ r[1] \in before[t] \ clips)}
               ELSE rows
    /\ before' = [before EXCEPT ![t] = {}]
    /\ pruned' = pruned \ {t}
    /\ IF ok THEN Goto(t, "record") /\ UNCHANGED direct ELSE NoClip(t)
    /\ UNCHANGED <<clips, sidecars, count, anchorVars, queue, victim, user,
                   histVars, restarts>>

(* delete_events_for_clips *)
RowsWithout(removed) == {r \in rows : ~(r[2] /\ r[1] \in removed)}

(* The second listing: rows of every clip of the first that has gone since. *)
PruneRows(t, ok) ==
    /\ pc[t] = "prune" /\ queue[t] = {}
    /\ rows' = IF t \in pruned THEN RowsWithout(before[t] \ clips) ELSE rows
    /\ before' = [before EXCEPT ![t] = {}]
    /\ pruned' = pruned \ {t}
    /\ IF ok THEN Goto(t, "record") /\ UNCHANGED direct ELSE NoClip(t)
    /\ UNCHANGED <<clips, sidecars, count, anchorVars, queue, victim, user,
                   histVars, restarts>>

(* Mutant: the exception ends the thread. *)
CaptureRaises_Ends(t) ==
    /\ pc[t] \in {"list", "check", "prune", "record"}
    /\ Goto(t, "done")
    /\ UNCHANGED <<fileVars, anchorVars, direct, pruneVars, user, histVars,
                   restarts>>

(* An exception of the capture path (a file gone between exists and unlink or
   during a listing, any OSError): the event goes on without a clip. *)
CaptureRaises(t) ==
    /\ pc[t] \in {"list", "check", "prune", "settle", "record"}
    /\ torn' = torn \cup (IF t \in pruned THEN before[t] \ clips ELSE {})
                    \cup ({victim[t]} \ {None})
    /\ before' = [before EXCEPT ![t] = {}]
    /\ queue' = [queue EXCEPT ![t] = {}]
    /\ victim' = [victim EXCEPT ![t] = None]
    /\ pruned' = pruned \ {t}
    /\ Goto(t, "clipless")
    /\ UNCHANGED <<fileVars, anchorVars, direct, user, accepted, recorded, cut,
                   early, unlisted, userGone, restarts>>

(* ffmpeg runs: no segments, a failure or a timeout return None; otherwise
   the .part file is renamed to its final name. *)
Capture(t, works) ==
    /\ pc[t] = "record"
    /\ IF works
       THEN Goto(t, "stat") /\ clips' = clips \cup {t} /\ UNCHANGED direct
       ELSE NoClip(t) /\ UNCHANGED clips
    /\ before' = [before EXCEPT ![t] = {}]
    /\ UNCHANGED <<sidecars, count, rows, anchorVars, queue, victim, pruned,
                   user, histVars, restarts>>

(* From the rollover segments, or forward from the live stream. *)
RecordRollover(t, works) == t \notin direct /\ Capture(t, works)
RecordDirect(t, works) == t \in direct /\ Capture(t, works)

(* out_path.stat() raises when the clip has been deleted already. *)
StatClip(t) ==
    /\ pc[t] = "stat"
    /\ Goto(t, IF t \in clips THEN "sidecar" ELSE "clipless")
    /\ UNCHANGED <<fileVars, anchorVars, direct, pruneVars, user, histVars,
                   restarts>>

(* _write_sidecar: a failure is only logged. *)
WriteSidecar(t, works) ==
    /\ pc[t] = "sidecar"
    /\ sidecars' = IF works THEN sidecars \cup {t} ELSE sidecars
    /\ Goto(t, "count")
    /\ UNCHANGED <<clips, count, rows, anchorVars, direct, pruneVars, user,
                   histVars, restarts>>

CountAdded(t) ==
    /\ pc[t] = "count"
    /\ count' = count + 1
    /\ Goto(t, "insert")
    /\ UNCHANGED <<clips, sidecars, rows, anchorVars, direct, pruneVars, user,
                   histVars, restarts>>

(* insert_event, with the clip's name or without. *)
InsertEvent(t) ==
    /\ pc[t] \in {"insert", "clipless"}
    /\ rows' = rows \cup {<<t, pc[t] = "insert">>}
    /\ recorded' = recorded \cup {t}
    /\ Goto(t, "done")
    /\ UNCHANGED <<clips, sidecars, count, anchorVars, direct, pruneVars, user,
                   accepted, cut, early, torn, unlisted, userGone, restarts>>

(* The database stays locked past busy_timeout: the thread ends. *)
InsertRaises(t) ==
    /\ pc[t] \in {"insert", "clipless"}
    /\ cut' = cut \cup {t}
    /\ Goto(t, "done")
    /\ UNCHANGED <<fileVars, anchorVars, direct, pruneVars, user, accepted,
                   recorded, early, torn, unlisted, userGone, restarts>>

(* Mutant: the sidecar stays behind. *)
UserUncount_KeepsSidecar ==
    /\ user # None
    /\ CountRemoved
    /\ user' = None
    /\ UNCHANGED <<clips, sidecars, rows, anchorVars, pc, direct, pruneVars,
                   histVars, restarts>>

-----------------------------------------------------------------------------
(* delete_clips and delete_all_clips, per clip: the file, then the count and
   the sidecar. The history stays. *)
UserUnlink(c) ==
    /\ user = None /\ c \in clips
    /\ clips' = clips \ {c}
    /\ user' = c
    /\ userGone' = userGone \cup {c}
    /\ NoteEarly(c)
    /\ UNCHANGED <<sidecars, count, rows, anchorVars, pc, direct, pruneVars,
                   accepted, recorded, cut, torn, unlisted, restarts>>

UserUncount ==
    /\ user # None
    /\ CountRemoved
    /\ sidecars' = sidecars \ {user}
    /\ user' = None
    /\ UNCHANGED <<clips, rows, anchorVars, pc, direct, pruneVars, histVars,
                   restarts>>

DeleteEvent(r) ==
    /\ r \in rows /\ rows' = rows \ {r}
    /\ UNCHANGED <<clips, sidecars, count, anchorVars, pc, direct, pruneVars,
                   user, histVars, restarts>>

DeleteEvents ==
    /\ rows # {} /\ rows' = {}
    /\ UNCHANGED <<clips, sidecars, count, anchorVars, pc, direct, pruneVars,
                   user, histVars, restarts>>

(* recount_clips *)
Recount == count' = Cardinality(clips)

(* The process ends: finalizers and deletions in flight are gone. Startup
   sweeps unfinished files, recounts and loads the anchor. *)
Restart ==
    /\ restarts < MaxRestarts /\ restarts' = restarts + 1
    /\ anchor' = saved
    /\ Recount
    /\ pc' = [t \in Times |-> IF pc[t] = "none" THEN "none" ELSE "done"]
    /\ cut' = cut \cup {t \in Times : pc[t] \notin {"none", "done"}}
    /\ torn' = torn \cup (sidecars \ clips)
                    \cup UNION {before[t] \ clips : t \in pruned}
    /\ before' = [t \in Times |-> {}] /\ queue' = [t \in Times |-> {}]
    /\ victim' = [t \in Times |-> None] /\ pruned' = {}
    /\ user' = None
    /\ UNCHANGED <<clips, sidecars, rows, saved, direct, accepted, recorded,
                   early, unlisted, userGone>>

Finalize(t) ==
    \/ ListBefore(t) \/ PruneUnlink(t) \/ PruneUncount(t)
    \/ CaptureRaises(t) \/ StatClip(t) \/ CountAdded(t)
    \/ InsertEvent(t) \/ InsertRaises(t)
    \/ \E b \in BOOLEAN : \/ CheckSpace(t, b) \/ PruneSidecar(t, b)
                          \/ PruneRows(t, b) \/ WriteSidecar(t, b)
                          \/ RecordRollover(t, b) \/ RecordDirect(t, b)

UserDeletes ==
    \/ \E c \in Clips : UserUnlink(c)
    \/ UserUncount
    \/ (\E r \in rows : DeleteEvent(r)) \/ DeleteEvents

Next ==
    \/ \E t \in Times : Finalize(t) \/ (\E b \in BOOLEAN : Notify(t, b))
    \/ UserDeletes \/ Restart

Spec == Init /\ [][Next]_vars

(* Every wait of a finalizer is bounded: the post window, ffmpeg's timeout,
   the database's busy_timeout. *)
FairSpec == Spec /\ \A t \in Times : WF_vars(Finalize(t))

-----------------------------------------------------------------------------
(***************************************************************************)
(* Accepted events lie at least a cooldown apart, also across restarts and *)
(* failed writes of the state file.                                        *)
(***************************************************************************)
CooldownKept ==
    \A s, t \in accepted : s < t => t - s >= Cooldown

(* Clips whose file and count are, for the moment, out of step. *)
Uncounted == {t \in Times : pc[t] \in Publishing}
Unlinked == {t \in Times : pc[t] = "uncount"}

(***************************************************************************)
(* The counter the clients poll accounts for every clip file, however      *)
(* finalizers, pruning and the user's deletions interleave, as long as no  *)
(* clip is deleted before its own finalizer is done with it.               *)
(***************************************************************************)
CounterAccounts ==
    early = {} =>
        count + Cardinality(Uncounted)
          = Cardinality(clips) + Cardinality(Unlinked) + (IF user = None THEN 0 ELSE 1)

(***************************************************************************)
(* Clip and sidecar are removed as a pair: a sidecar without its clip has  *)
(* a deletion at work on it, or was cut short, or belongs to a clip that   *)
(* was deleted while it was being finished.                                *)
(***************************************************************************)
SidecarsPaired ==
    sidecars \subseteq clips \cup early \cup torn \cup {user}
                       \cup {victim[t] : t \in Times}

(***************************************************************************)
(* Pruning takes the history rows along: a row names a missing clip only   *)
(* if the user deleted that clip, a pruning is still at work or was cut    *)
(* short, the clip went before its row existed, or the pruning that took   *)
(* it had not listed it (unlisted). The last case is no failure, and the   *)
(* comment at finalize.py:127 does not have it: _prune_with_history        *)
(* compares two listings of its own, ensure_clip_capacity prunes from a    *)
(* third, and a clip another finalizer published and recorded between      *)
(* them is removed while its row stays. Without that disjunct TLC refutes  *)
(* the property; with it, it says that this is the only such case.         *)
(***************************************************************************)
PrunedRowsGone ==
    \A c \in Clips : <<c, TRUE>> \in rows /\ c \notin clips =>
        \/ c \in userGone \cup early \cup torn \cup unlisted
        \/ \E t \in pruned : c \in before[t]

(***************************************************************************)
(* Every accepted event gets its history row, with or without a clip,      *)
(* unless the process or the database fails it: among finitely many events *)
(* none stays outstanding.                                                 *)
(***************************************************************************)
EventRecorded == []<>(accepted \subseteq recorded \cup cut)

(***************************************************************************)
(* A clip the user deleted keeps its history row: pruning removes only     *)
(* rows of clips that pruning removed.                                     *)
(***************************************************************************)
HistoryKept ==
    [][\A t \in Times, c \in Clips :
          pc[t] = "prune" /\ pc'[t] # "prune" /\ c \in userGone
             /\ <<c, TRUE>> \in rows => <<c, TRUE>> \in rows']_vars
=============================================================================
