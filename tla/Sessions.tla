------------------------------ MODULE Sessions ------------------------------
(***************************************************************************)
(* The router's account session: login with lockout, refresh rotation,     *)
(* logout and password change (auth.py, main.py), and the live views       *)
(* (WHEP sessions and relayed streams) that have to end with the session   *)
(* that opened them.                                                       *)
(*                                                                         *)
(* One account. A request runs on a worker thread h \in Requests, one      *)
(* action per commit, HTTP call or lock-protected block. The database      *)
(* (epoch, refresh tokens, failure counter, WHEP registry) survives a      *)
(* restart of the router; MediaMTX keeps its views on its own.             *)
(* An access token is its epoch claim: require_auth accepts it as long as  *)
(* the account still has that epoch.                                       *)
(***************************************************************************)
EXTENDS Naturals, Sequences, FiniteSets

CONSTANTS
    Requests,     \* concurrent request handlers
    Views,        \* WHEP session paths that MediaMTX can hand out
    Threshold,    \* _LOCKOUT_THRESHOLD
    Aging,        \* TRUE: a live view may outlive _WHEP_SESSION_MAX_AGE
    MaxEpoch,     \* bound: epoch bumps
    MaxTokens,    \* bound: refresh tokens issued
    MaxRestarts,  \* bound: router restarts
    Free          \* SESSION_LOCK is not held

ASSUME SessionAssumption ==
    /\ Threshold \in Nat \ {0}
    /\ Aging \in BOOLEAN
    /\ MaxEpoch \in Nat /\ MaxTokens \in Nat /\ MaxRestarts \in Nat
    /\ Free \notin Requests /\ IsFiniteSet(Requests)

VARIABLES
    epoch,       \* users.token_epoch
    active,      \* refresh_tokens with revoked = 0
    owner,       \* owner[t]: the login refresh token t descends from
    minted,      \* <<epoch, login>>: access tokens created
    logins,      \* successful logins so far
    access,      \* epoch of the newest access token a client was given
    knownT,      \* refresh tokens clients were given
    failed,      \* users.failed_count
    locked,      \* users.locked_until lies ahead
    lock,        \* holder of SESSION_LOCK
    registry,    \* rows of whep_sessions
    open,        \* views MediaMTX serves
    viewEpoch,   \* epoch of the session that opened a view, 0: never opened
    lost,        \* views a failed DELETE or a restart left open
    relayed,     \* views that are streams relayed by the router itself
    restarts,
    pc, kind,    \* per request: position and endpoint
    num,         \* per request: epoch claim, minted epoch or failures read
    tok,         \* per request: refresh token presented or issued, 0: none
    todo         \* per request: views it holds outside the registry

tokenVars == <<epoch, active, owner, minted, logins>>
clientVars == <<access, knownT>>
limitVars == <<failed, locked>>
viewVars == <<registry, open, viewEpoch, lost, relayed>>
vars == <<tokenVars, clientVars, limitVars, lock, viewVars, restarts,
          pc, kind, num, tok, todo>>

Kinds == {"none", "login", "keep", "refresh", "logout", "change", "whep"}
Stages == {"idle", "verified", "failing", "counting", "lock", "bump", "issue",
           "mint", "sweep", "closing", "relay", "register", "recheck"}

TypeOK ==
    /\ epoch \in 0..MaxEpoch
    /\ owner \in Seq(Nat) /\ Len(owner) <= MaxTokens
    /\ active \subseteq DOMAIN owner /\ knownT \subseteq DOMAIN owner
    /\ logins \in 0..MaxEpoch
    /\ minted \subseteq (1..MaxEpoch) \X (1..MaxEpoch)
    /\ access \in 0..MaxEpoch
    /\ failed \in 0..(Threshold - 1) /\ locked \in BOOLEAN
    /\ lock \in Requests \cup {Free}
    /\ registry \subseteq Views
    /\ open \subseteq Views /\ lost \subseteq Views /\ relayed \subseteq Views
    /\ viewEpoch \in [Views -> 0..MaxEpoch]
    /\ restarts \in 0..MaxRestarts
    /\ pc \in [Requests -> Stages] /\ kind \in [Requests -> Kinds]
    /\ num \in [Requests -> Nat] /\ tok \in [Requests -> 0..MaxTokens]
    /\ todo \in [Requests -> SUBSET Views]

Init ==
    /\ epoch = 0 /\ active = {} /\ owner = <<>> /\ minted = {} /\ logins = 0
    /\ access = 0 /\ knownT = {}
    /\ failed = 0 /\ locked = FALSE
    /\ lock = Free
    /\ registry = {} /\ open = {} /\ lost = {} /\ relayed = {}
    /\ viewEpoch = [v \in Views |-> 0]
    /\ restarts = 0
    /\ pc = [h \in Requests |-> "idle"]
    /\ kind = [h \in Requests |-> "none"]
    /\ num = [h \in Requests |-> 0]
    /\ tok = [h \in Requests |-> 0]
    /\ todo = [h \in Requests |-> {}]

-----------------------------------------------------------------------------
Goto(h, stage) == pc' = [pc EXCEPT ![h] = stage]
Begin(h, k, stage) ==
    Goto(h, stage) /\ kind' = [kind EXCEPT ![h] = k]
Finish(h) ==
    /\ Goto(h, "idle")
    /\ kind' = [kind EXCEPT ![h] = "none"]
    /\ num' = [num EXCEPT ![h] = 0]
    /\ tok' = [tok EXCEPT ![h] = 0]
    /\ todo' = [todo EXCEPT ![h] = {}]

(* Bounds: every request that may still bump or issue has room to do so. *)
RoomToBump ==
    epoch + Cardinality({h \in Requests :
                           pc[h] \in {"verified", "lock", "bump"}}) < MaxEpoch
RoomToIssue ==
    Len(owner) + Cardinality({h \in Requests : kind[h] = "keep"}) < MaxTokens

(* purge_expired: revoked tokens are as good as absent; WHEP rows older than
   a day go, whether or not MediaMTX still serves their view. *)
Purge ==
    \E old \in SUBSET {v \in registry : Aging \/ v \notin open} :
        registry' = registry \ old

(* The refresh token of login s that issue_refresh_token inserts. *)
IssueToken(h, s) ==
    /\ owner' = Append(owner, s)
    /\ tok' = [tok EXCEPT ![h] = Len(owner) + 1]

(* create_token for login s, with the account's epoch as its claim. *)
CreateToken(s) == minted' = minted \cup {<<epoch, s>>}

(* verify_token: a token that is signed and has not expired, 0 standing for
   none. *)
VerifyToken(e) == e # 0

(* require_auth: the claimed epoch is the account's. Epochs only grow, so
   the newest token handed out is the only one that can pass. *)
RequireAuth(e) == VerifyToken(e) /\ e = epoch

-----------------------------------------------------------------------------
(* authenticate: the row read with its lockout check and password check. *)
Login(h, right, keep) ==
    /\ pc[h] = "idle" /\ RoomToBump /\ (keep => RoomToIssue)
    /\ Purge
    /\ IF locked
       THEN UNCHANGED <<pc, kind>>
       ELSE Begin(h, IF keep /\ right THEN "keep" ELSE "login",
                  IF right THEN "verified" ELSE "failing")
    /\ UNCHANGED <<tokenVars, clientVars, limitVars, lock, open, viewEpoch,
                   lost, relayed, restarts, num, tok, todo>>

(* _record_failure reads the counter in one statement ... *)
ReadFailures(h) ==
    /\ pc[h] = "failing"
    /\ Goto(h, "counting")
    /\ num' = [num EXCEPT ![h] = failed]
    /\ UNCHANGED <<tokenVars, clientVars, limitVars, lock, viewVars, restarts,
                   kind, tok, todo>>

(* Mutant: the tenth failure is counted instead of locking. *)
RecordFailure_Late(h) ==
    /\ pc[h] = "counting"
    /\ IF num[h] + 1 > Threshold
       THEN failed' = 0 /\ locked' = TRUE
       ELSE failed' = num[h] + 1 /\ UNCHANGED locked
    /\ Finish(h)
    /\ UNCHANGED <<tokenVars, clientVars, lock, viewVars, restarts>>

(* ... and writes it, or the lockout, in another. *)
RecordFailure(h) ==
    /\ pc[h] = "counting"
    /\ IF num[h] + 1 >= Threshold
       THEN failed' = 0 /\ locked' = TRUE
       ELSE failed' = num[h] + 1 /\ UNCHANGED locked
    /\ Finish(h)
    /\ UNCHANGED <<tokenVars, clientVars, lock, viewVars, restarts>>

LockoutEnds ==
    /\ locked /\ locked' = FALSE
    /\ UNCHANGED <<tokenVars, clientVars, failed, lock, viewVars, restarts, pc,
                   kind, num, tok, todo>>

ResetFailures(h) ==
    /\ pc[h] = "verified"
    /\ failed' = 0 /\ locked' = FALSE
    /\ Goto(h, "lock")
    /\ UNCHANGED <<tokenVars, clientVars, lock, viewVars, restarts, kind, num,
                   tok, todo>>

(* change_password behind require_auth; a wrong current password changes
   nothing, a right one stores the new hash before it asks for the lock. *)
ChangePassword(h) ==
    /\ pc[h] = "idle" /\ RoomToBump
    /\ RequireAuth(access)
    /\ Begin(h, "change", "lock")
    /\ UNCHANGED <<tokenVars, clientVars, limitVars, lock, viewVars, restarts,
                   num, tok, todo>>

(* SESSION_LOCK taken, revoke_all_refresh_tokens committed. *)
RevokeAll(h) ==
    /\ pc[h] = "lock" /\ lock = Free
    /\ lock' = h
    /\ active' = {}
    /\ Goto(h, "bump")
    /\ UNCHANGED <<epoch, owner, minted, logins, clientVars, limitVars,
                   viewVars, restarts, kind, num, tok, todo>>

(* Mutant: an already revoked refresh token still names its user. *)
Logout_DeadToken(h, t, e) ==
    /\ pc[h] = "idle" /\ RoomToBump /\ lock = Free
    /\ t \in knownT
    /\ active' = active \ {t}
    /\ lock' = h
    /\ Begin(h, "logout", "bump")
    /\ num' = [num EXCEPT ![h] = e]
    /\ tok' = [tok EXCEPT ![h] = t]
    /\ UNCHANGED <<epoch, owner, minted, logins, clientVars, limitVars,
                   viewVars, restarts, todo>>

(* revoke_refresh_token; only an active one names its owner. *)
RevokeToken(t) == active' = active \ {t}

(* logout: the account is identified by a refresh token this call revokes,
   or else by an access token of the current epoch. *)
Logout(h, t, e) ==
    /\ pc[h] = "idle" /\ RoomToBump /\ lock = Free
    /\ t \in active \/ RequireAuth(e)
    /\ RevokeToken(t)
    /\ lock' = h
    /\ Begin(h, "logout", "bump")
    /\ num' = [num EXCEPT ![h] = e]
    /\ tok' = [tok EXCEPT ![h] = t]
    /\ UNCHANGED <<epoch, owner, minted, logins, clientVars, limitVars,
                   viewVars, restarts, todo>>

(* bump_epoch; a logout or a password change leaves the lock with it. *)
Bump(h) ==
    /\ pc[h] = "bump"
    /\ epoch' = epoch + 1
    /\ IF kind[h] \in {"login", "keep"}
       THEN Goto(h, "issue") /\ UNCHANGED lock
       ELSE Goto(h, "sweep") /\ lock' = Free
    /\ UNCHANGED <<active, owner, minted, logins, clientVars, limitVars,
                   viewVars, restarts, kind, num, tok, todo>>

(* The new session's tokens, then the lock is released. *)
Issue(h) ==
    /\ pc[h] = "issue"
    /\ logins' = logins + 1
    /\ CreateToken(logins + 1)
    /\ num' = [num EXCEPT ![h] = epoch]
    /\ IF kind[h] = "keep"
       THEN IssueToken(h, logins + 1) /\ active' = active \cup {Len(owner) + 1}
       ELSE UNCHANGED <<owner, tok, active>>
    /\ lock' = Free
    /\ Goto(h, "sweep")
    /\ UNCHANGED <<epoch, clientVars, limitVars, viewVars, restarts, kind,
                   todo>>

(* Mutant: the rotation runs outside SESSION_LOCK. *)
Rotate_NoLock(h, t) ==
    /\ pc[h] = "idle" /\ RoomToIssue /\ t \in active
    /\ active' = (active \ {t}) \cup {Len(owner) + 1}
    /\ IssueToken(h, owner[t])
    /\ Begin(h, "refresh", "mint")
    /\ UNCHANGED <<epoch, minted, logins, clientVars, limitVars, lock,
                   viewVars, restarts, num, todo>>

(* refresh: SESSION_LOCK is held over the rotation (revocation and insert are
   one transaction) and the minting. A dead token is refused. *)
Rotate(h, t) ==
    /\ pc[h] = "idle" /\ lock = Free /\ RoomToIssue
    /\ Purge
    /\ IF t \in active
       THEN /\ lock' = h
            /\ active' = (active \ {t}) \cup {Len(owner) + 1}
            /\ IssueToken(h, owner[t])
            /\ Begin(h, "refresh", "mint")
       ELSE UNCHANGED <<lock, active, owner, tok, pc, kind>>
    /\ UNCHANGED <<epoch, minted, logins, clientVars, limitVars, open,
                   viewEpoch, lost, relayed, restarts, num, todo>>

Mint(h) ==
    /\ pc[h] = "mint"
    /\ CreateToken(owner[tok[h]])
    /\ num' = [num EXCEPT ![h] = epoch]
    /\ lock' = Free
    /\ Goto(h, "closing")
    /\ UNCHANGED <<epoch, active, owner, logins, clientVars, limitVars,
                   viewVars, restarts, kind, tok, todo>>

(* A refresh token expires: thirty days on, so never while the request that
   issued it is still running. *)
TokenExpires(t) ==
    /\ t \in active \ {tok[h] : h \in Requests}
    /\ active' = active \ {t}
    /\ UNCHANGED <<epoch, owner, minted, logins, clientVars, limitVars, lock,
                   viewVars, restarts, pc, kind, num, tok, todo>>

(* Mutant: the rows are dropped before they are read. *)
Sweep_DropsRows(h) ==
    /\ pc[h] = "sweep"
    /\ registry' = {}
    /\ Goto(h, "closing")
    /\ UNCHANGED <<tokenVars, clientVars, limitVars, lock, open, viewEpoch,
                   lost, relayed, restarts, kind, num, tok, todo>>

-----------------------------------------------------------------------------
(* _terminate_whep_sessions empties the registry under _whep_lock ... *)
Sweep(h) ==
    /\ pc[h] = "sweep"
    /\ todo' = [todo EXCEPT ![h] = registry]
    /\ registry' = {}
    /\ Goto(h, "closing")
    /\ UNCHANGED <<tokenVars, clientVars, limitVars, lock, open, viewEpoch,
                   lost, relayed, restarts, kind, num, tok>>

(* ... then asks MediaMTX to close each view; a failure is only logged. *)
CloseView(h, v, ok) ==
    /\ pc[h] = "closing" /\ v \in todo[h]
    /\ todo' = [todo EXCEPT ![h] = @ \ {v}]
    /\ IF ok THEN open' = open \ {v} /\ lost' = lost \ {v}
             ELSE v \in open /\ lost' = lost \cup {v} /\ UNCHANGED open
    /\ UNCHANGED <<tokenVars, clientVars, limitVars, lock, registry,
                   viewEpoch, relayed, restarts, pc, kind, num, tok>>

(* The response; a login or a refresh hands its tokens to the client. *)
Respond(h) ==
    /\ pc[h] = "closing" /\ todo[h] = {}
    /\ IF kind[h] \in {"login", "keep", "refresh"}
       THEN /\ access' = IF num[h] > access THEN num[h] ELSE access
            /\ knownT' = knownT \cup ({tok[h]} \ {0})
       ELSE UNCHANGED clientVars
    /\ Finish(h)
    /\ UNCHANGED <<tokenVars, limitVars, lock, viewVars, restarts>>

(* whep_open: require_auth, then the relayed POST, which may fail. *)
WhepOpen(h) ==
    /\ pc[h] = "idle" /\ RequireAuth(access)
    /\ Begin(h, "whep", "relay")
    /\ num' = [num EXCEPT ![h] = access]
    /\ UNCHANGED <<tokenVars, clientVars, limitVars, lock, viewVars, restarts,
                   tok, todo>>

WhepRefused(h) ==
    /\ pc[h] = "relay" /\ Finish(h)
    /\ UNCHANGED <<tokenVars, clientVars, limitVars, lock, viewVars, restarts>>

WhepCreated(h, v) ==
    /\ pc[h] = "relay" /\ viewEpoch[v] = 0
    /\ open' = open \cup {v}
    /\ viewEpoch' = [viewEpoch EXCEPT ![v] = num[h]]
    /\ todo' = [todo EXCEPT ![h] = {v}]
    /\ Goto(h, "register")
    /\ UNCHANGED <<tokenVars, clientVars, limitVars, lock, registry, lost,
                   relayed, restarts, kind, num, tok>>

(* Mutant: the epoch is not looked at again after the registration. *)
Recheck_Skipped(h) ==
    /\ pc[h] = "recheck" /\ Finish(h)
    /\ UNCHANGED <<tokenVars, clientVars, limitVars, lock, viewVars, restarts>>

(* _register_whep_and_recheck: the row, then the epoch once more. *)
Register(h) ==
    /\ pc[h] = "register"
    /\ registry' = registry \cup todo[h]
    /\ todo' = [todo EXCEPT ![h] = {}]
    /\ Goto(h, "recheck")
    /\ UNCHANGED <<tokenVars, clientVars, limitVars, lock, open, viewEpoch,
                   lost, relayed, restarts, kind, num, tok>>

Recheck(h) ==
    /\ pc[h] = "recheck"
    /\ IF epoch # num[h]
       THEN Goto(h, "sweep") /\ UNCHANGED <<kind, num, tok, todo>>
       ELSE Finish(h)
    /\ UNCHANGED <<tokenVars, clientVars, limitVars, lock, viewVars, restarts>>

(* whep_close drops the row before it relays the DELETE. *)
WhepClose(h, v) ==
    /\ pc[h] = "idle" /\ RequireAuth(access)
    /\ viewEpoch[v] # 0 /\ v \notin relayed
    /\ registry' = registry \ {v}
    /\ todo' = [todo EXCEPT ![h] = {v}]
    /\ Begin(h, "whep", "closing")
    /\ UNCHANGED <<tokenVars, clientVars, limitVars, lock, open, viewEpoch,
                   lost, relayed, restarts, num, tok>>

-----------------------------------------------------------------------------
(* /state and /stream: require_auth, then a response of unbounded length. *)
StreamOpen(v) ==
    /\ RequireAuth(access) /\ viewEpoch[v] = 0
    /\ open' = open \cup {v} /\ relayed' = relayed \cup {v}
    /\ viewEpoch' = [viewEpoch EXCEPT ![v] = access]
    /\ UNCHANGED <<tokenVars, clientVars, limitVars, lock, registry, lost,
                   restarts, pc, kind, num, tok, todo>>

(* The guard of a relayed stream: the account's epoch against the claim. *)
EpochMoved(v) == viewEpoch[v] # epoch

(* Between two chunks, at most every 2 s, the relay looks and ends. *)
StreamGuard(v) ==
    /\ v \in relayed \cap open /\ EpochMoved(v)
    /\ open' = open \ {v}
    /\ UNCHANGED <<tokenVars, clientVars, limitVars, lock, registry, viewEpoch,
                   lost, relayed, restarts, pc, kind, num, tok, todo>>

-----------------------------------------------------------------------------
(* MediaMTX drops a view on ICE timeout and tells nobody; a client leaves. *)
IceTimeout(v) ==
    /\ v \in open /\ open' = open \ {v} /\ lost' = lost \ {v}
    /\ UNCHANGED <<tokenVars, clientVars, limitVars, lock, registry,
                   viewEpoch, relayed, restarts, pc, kind, num, tok, todo>>

(* The router process ends and comes back: requests and relayed streams are
   gone, the database stays. WHEP views whose close was owed stay open. *)
Restart ==
    /\ restarts < MaxRestarts /\ restarts' = restarts + 1
    /\ lock' = Free
    /\ open' = open \ relayed
    /\ lost' = lost \cup {v \in open' : viewEpoch[v] # epoch
                                         \/ v \notin registry}
    /\ pc' = [h \in Requests |-> "idle"]
    /\ kind' = [h \in Requests |-> "none"]
    /\ num' = [h \in Requests |-> 0]
    /\ tok' = [h \in Requests |-> 0]
    /\ todo' = [h \in Requests |-> {}]
    /\ UNCHANGED <<tokenVars, clientVars, limitVars, registry, viewEpoch,
                   relayed>>

Step(h) ==
    \/ ReadFailures(h) \/ RecordFailure(h) \/ ResetFailures(h)
    \/ RevokeAll(h) \/ Bump(h) \/ Issue(h) \/ Mint(h)
    \/ Sweep(h) \/ (\E v \in Views, ok \in BOOLEAN : CloseView(h, v, ok))
    \/ Respond(h)
    \/ WhepRefused(h) \/ (\E v \in Views : WhepCreated(h, v))
    \/ Register(h) \/ Recheck(h)

Arrive(h) ==
    \/ \E right, keep \in BOOLEAN : Login(h, right, keep)
    \/ ChangePassword(h) \/ WhepOpen(h)
    \/ \E v \in Views : WhepClose(h, v)
    \/ \E t \in knownT : Rotate(h, t)
    \/ \E t \in knownT \cup {0}, e \in {0, access} : Logout(h, t, e)

Environment ==
    \/ LockoutEnds
    \/ \E t \in active : TokenExpires(t)
    \/ \E v \in Views : StreamOpen(v) \/ StreamGuard(v) \/ IceTimeout(v)
    \/ Restart

Next == (\E h \in Requests : Step(h) \/ Arrive(h)) \/ Environment

Spec == Init /\ [][Next]_vars

(* A worker thread finishes the request it has begun; chunks keep coming to
   a relayed stream. *)
FairSpec ==
    /\ Spec
    /\ \A h \in Requests : WF_vars(Step(h))
    /\ \A v \in Views : WF_vars(StreamGuard(v))

-----------------------------------------------------------------------------
(* The logins some credential of which the router would accept. *)
Current ==
    {s \in 1..logins : <<epoch, s>> \in minted} \cup {owner[t] : t \in active}

Account == INSTANCE SingleSession WITH honoured <- Current, last <- logins

(***************************************************************************)
(* One login per account: with logins, rotations, logouts and password     *)
(* changes interleaved, at most one login's credentials are accepted, and  *)
(* a replaced or ended login never becomes acceptable again, through       *)
(* neither its access token nor a rotated refresh token.                   *)
(***************************************************************************)
OneLogin == Account!Spec

(***************************************************************************)
(* Only credentials of the login that is current identify the account to   *)
(* logout: leftovers of a replaced login cannot end its successor.         *)
(***************************************************************************)
LogoutByOwner ==
    [][\A h \in Requests :
          pc[h] = "idle" /\ pc'[h] = "bump" =>
             \E s \in Current :
                \/ <<num'[h], s>> \in minted
                \/ tok'[h] \in DOMAIN owner /\ owner[tok'[h]] = s]_vars

(***************************************************************************)
(* Every WHEP view of an older session that no fault left behind has a     *)
(* request about to close it: whichever way a view's setup and a           *)
(* replacement's sweep interleave, one of the two sees the other.          *)
(***************************************************************************)
StaleViewsOwed ==
    \A v \in open \ (lost \cup relayed) :
        viewEpoch[v] # epoch =>
            \E h \in Requests :
                \/ v \in todo[h]
                \/ v \in registry /\ pc[h] = "sweep"
                \/ v \in registry /\ pc[h] = "issue"
                \/ v \in registry /\ pc[h] = "recheck" /\ num[h] # epoch

(***************************************************************************)
(* Once the session that opened it has been replaced, logged out or had    *)
(* its password changed, a live view ends, unless MediaMTX refused the     *)
(* DELETE or the router restarted in between.                              *)
(***************************************************************************)
ReplacedViewsClose ==
    \A v \in Views :
        (v \in open /\ viewEpoch[v] < epoch) ~> (v \notin open \/ v \in lost)

(***************************************************************************)
(* A logout ends the session: no credential of any login is left.          *)
(* FR-003 asks for both tokens to be invalid at once.                      *)
(***************************************************************************)
LogoutEndsSession ==
    [][\A h \in Requests :
          pc[h] = "bump" /\ kind[h] = "logout" /\ pc'[h] = "sweep"
             => Current' = {}]_vars
=============================================================================
