--------------------------- MODULE SessionsProofs ---------------------------
(***************************************************************************)
(* Proofs, for any number of requests and live views, any lockout          *)
(* threshold and any bounds, that the router implements SingleSession,     *)
(* that only the current login's credentials log out, that the failure     *)
(* counter stays below the threshold and that no live view of an older     *)
(* session is forgotten.                                                   *)
(*                                                                         *)
(* That a replaced login is never honoured again rests on SESSION_LOCK     *)
(* (Locks): whoever bumps the epoch or mints a token is alone, so that     *)
(* outside of it every active refresh token and every access token of the  *)
(* account's epoch belong to the latest login (Latest).  That no view is   *)
(* forgotten rests on every view being in the registry or in some          *)
(* request's hands (Accounted) and on claims never being ahead of the      *)
(* account's epoch (Claims), so that a view opened before a bump is        *)
(* recognised as stale after it.                                           *)
(***************************************************************************)
EXTENDS Sessions, FiniteSetTheorems, TLAPS

(* Requests that are still going to bump the epoch, or to issue a refresh
   token. *)
Bumping == {h \in Requests : pc[h] \in {"verified", "lock", "bump"}}
Issuing == {h \in Requests :
              /\ kind[h] = "keep"
              /\ pc[h] \in {"verified", "lock", "bump", "issue"}}

(* There is room for what is on its way, and a login follows its bump. *)
Room ==
    /\ epoch + Cardinality(Bumping) <= MaxEpoch
    /\ Len(owner) + Cardinality(Issuing) <= MaxTokens
    /\ logins <= epoch
    /\ \A h \in Requests : pc[h] = "issue" => logins < epoch

(* SESSION_LOCK is held from the revocation or the rotation to the minting. *)
Locks == \A h \in Requests : pc[h] \in {"bump", "issue", "mint"} <=> lock = h

(* The epoch a request or a client claims is one the account has had. *)
Claims ==
    /\ access <= epoch
    /\ \A v \in Views : viewEpoch[v] <= epoch
    /\ \A h \in Requests :
         /\ pc[h] # "counting" => num[h] <= epoch
         /\ pc[h] = "counting" => num[h] < Threshold

(* What is still accepted belongs to the latest login. *)
Latest ==
    /\ \A h \in Requests : tok[h] # 0 => tok[h] \in DOMAIN owner
    /\ \A t \in DOMAIN owner : owner[t] \in 1..logins
    /\ \A t \in active : owner[t] = logins
    /\ \A m \in minted : m[1] <= epoch /\ m[2] \in 1..logins
    /\ \A m \in minted : m[1] = epoch => m[2] = logins
    /\ \A h \in Requests :
         /\ pc[h] \in {"bump", "issue"} /\ kind[h] \in {"login", "keep"}
              => active = {}
         /\ pc[h] = "issue" => /\ kind[h] \in {"login", "keep"}
                               /\ \A m \in minted : m[1] # epoch
         /\ pc[h] = "mint" => tok[h] \in active

(* A client was only given access tokens that exist. *)
Given ==
    /\ access # 0 => \E s \in 1..logins : <<access, s>> \in minted
    /\ \A h \in Requests :
         pc[h] \in {"sweep", "closing"}
           /\ kind[h] \in {"login", "keep", "refresh"}
           => \E s \in 1..logins : <<num[h], s>> \in minted
    /\ \A h \in Requests :
         /\ pc[h] \in {"verified", "lock", "bump"} => kind[h] # "refresh"
         /\ pc[h] \in {"relay", "register", "recheck"} => kind[h] = "whep"

IInv == TypeOK /\ Room /\ Locks /\ Claims /\ Latest /\ Given

(* Views are in a request's hands only between their creation or their
   removal from the registry and the end of the request. *)
Hands ==
    \A h \in Requests :
        /\ pc[h] \notin {"register", "closing"} => todo[h] = {}
        /\ pc[h] = "register" => \A v \in todo[h] : viewEpoch[v] = num[h]
        /\ pc[h] \in {"relay", "register"} => num[h] # 0

(* An open view that no fault left behind is known to somebody. *)
Accounted ==
    \A v \in open \ (lost \cup relayed) :
        v \in registry \/ \E h \in Requests : v \in todo[h]
-----------------------------------------------------------------------------
LEMMA SubsetCard ==
    ASSUME NEW S, IsFiniteSet(S), NEW T, T \subseteq S
    PROVE  /\ IsFiniteSet(T) /\ Cardinality(T) \in Nat
           /\ Cardinality(S) \in Nat /\ Cardinality(T) <= Cardinality(S)
BY FS_Subset, FS_CardinalityType

LEMMA AddCard ==
    ASSUME NEW S, IsFiniteSet(S), NEW x, NEW T, T \subseteq S \cup {x}
    PROVE  Cardinality(T) <= Cardinality(S) + 1
<1>1. IsFiniteSet(S \cup {x}) /\ Cardinality(S) \in Nat
  BY FS_AddElement, FS_CardinalityType
<1>2. Cardinality(S \cup {x}) \in {Cardinality(S), Cardinality(S) + 1}
  BY FS_AddElement
<1>3. /\ Cardinality(T) <= Cardinality(S \cup {x})
      /\ Cardinality(T) \in Nat /\ Cardinality(S \cup {x}) \in Nat
  BY <1>1, SubsetCard
<1> QED BY <1>1, <1>2, <1>3

LEMMA DropCard ==
    ASSUME NEW S, IsFiniteSet(S), NEW x \in S, NEW T, T \subseteq S \ {x}
    PROVE  Cardinality(T) + 1 <= Cardinality(S)
<1>1. IsFiniteSet(S \ {x}) /\ Cardinality(S \ {x}) = Cardinality(S) - 1
  BY FS_RemoveElement
<1>2. Cardinality(T) <= Cardinality(S \ {x}) /\ Cardinality(T) \in Nat
  BY <1>1, SubsetCard
<1> QED BY <1>1, <1>2, FS_CardinalityType

(* The sets of requests that are on their way are finite. *)
LEMMA Counted ==
    /\ IsFiniteSet(Bumping) /\ Cardinality(Bumping) \in Nat
    /\ IsFiniteSet(Issuing) /\ Cardinality(Issuing) \in Nat
BY SessionAssumption, SubsetCard DEF Bumping, Issuing

LEMMA CountedNext ==
    /\ IsFiniteSet(Bumping') /\ Cardinality(Bumping') \in Nat
    /\ IsFiniteSet(Issuing') /\ Cardinality(Issuing') \in Nat
BY SessionAssumption, SubsetCard DEF Bumping, Issuing

(* A step that gives no request more to do leaves room. *)
LEMMA RoomKept ==
    ASSUME TypeOK, Room, epoch' = epoch, owner' = owner, logins' = logins,
           Bumping' \subseteq Bumping, Issuing' \subseteq Issuing,
           \A h \in Requests : pc'[h] = "issue" => pc[h] = "issue"
    PROVE  Room'
<1>1. /\ Cardinality(Bumping') <= Cardinality(Bumping)
      /\ Cardinality(Issuing') <= Cardinality(Issuing)
  BY Counted, SubsetCard
<1> QED BY <1>1, Counted, CountedNext, SessionAssumption DEF TypeOK, Room

(* What the end of a request leaves. *)
LEMMA FinishType ==
    ASSUME TypeOK, NEW h \in Requests, Finish(h)
    PROVE  /\ pc' \in [Requests -> Stages] /\ kind' \in [Requests -> Kinds]
           /\ num' \in [Requests -> Nat] /\ tok' \in [Requests -> 0..MaxTokens]
           /\ todo' \in [Requests -> SUBSET Views]
<1>1. tok' \in [Requests -> 0..MaxTokens]
  BY SessionAssumption DEF TypeOK, Finish
<1> QED BY <1>1 DEF TypeOK, Finish, Goto, Stages, Kinds

(* What issue_refresh_token appends. *)
LEMMA AppendOwner ==
    ASSUME NEW o \in Seq(Nat), NEW s \in Nat
    PROVE  /\ Append(o, s) \in Seq(Nat) /\ Len(o) \in Nat
           /\ Len(Append(o, s)) = Len(o) + 1
           /\ DOMAIN o = 1..Len(o)
           /\ DOMAIN Append(o, s) = DOMAIN o \cup {Len(o) + 1}
           /\ \A t \in DOMAIN o : Append(o, s)[t] = o[t]
           /\ Append(o, s)[Len(o) + 1] = s
OBVIOUS

LEMMA LoginIInv ==
    ASSUME IInv, NEW h \in Requests, NEW right \in BOOLEAN,
           NEW keep \in BOOLEAN, Login(h, right, keep)
    PROVE  IInv'
<1>1. TypeOK'
  BY SessionAssumption DEF IInv, TypeOK, Kinds, Stages, Login, Purge, Begin,
     Goto, RoomToBump, RoomToIssue, tokenVars, clientVars, limitVars,
     viewVars
<1>2. Room'
  <2>1. /\ epoch' = epoch /\ owner' = owner /\ logins' = logins
        /\ Bumping' \subseteq Bumping \cup {h}
        /\ \A g \in Requests : pc'[g] = "issue" => pc[g] = "issue"
    BY DEF IInv, TypeOK, Bumping, Login, Begin, Goto, tokenVars
  <2>2. epoch + Cardinality(Bumping) < MaxEpoch
    BY DEF Login, RoomToBump, Bumping
  <2>3. Cardinality(Bumping') <= Cardinality(Bumping) + 1
    BY <2>1, Counted, AddCard
  <2>4. Len(owner) + Cardinality(Issuing') <= MaxTokens
    <3> DEFINE K == {g \in Requests : kind[g] = "keep"}
    <3>1. CASE keep
      <4>1. IsFiniteSet(K) /\ Issuing \subseteq K
        BY SessionAssumption, SubsetCard DEF Issuing
      <4>2. Len(owner) + Cardinality(K) < MaxTokens
        BY <3>1 DEF Login, RoomToIssue
      <4>3. Issuing' \subseteq K \cup {h}
        BY DEF IInv, TypeOK, Issuing, Login, Begin, Goto
      <4>4. Cardinality(Issuing') <= Cardinality(K) + 1 /\ Cardinality(K) \in Nat
        BY <4>1, <4>3, AddCard, SubsetCard
      <4> QED BY <4>2, <4>4, CountedNext, SessionAssumption DEF IInv, TypeOK
    <3>2. CASE ~keep
      <4>1. Issuing' \subseteq Issuing
        BY <3>2 DEF IInv, TypeOK, Issuing, Login, Begin, Goto
      <4>2. Cardinality(Issuing') <= Cardinality(Issuing)
        BY <4>1, Counted, SubsetCard
      <4> QED BY <4>2, Counted, CountedNext, SessionAssumption DEF IInv,
                 TypeOK, Room
    <3> QED BY <3>1, <3>2
  <2> QED
    BY <2>1, <2>2, <2>3, <2>4, Counted, CountedNext, SessionAssumption
       DEF IInv, TypeOK, Room
<1>3. Locks'
  BY SessionAssumption DEF IInv, TypeOK, Locks, Login, Purge, Begin, Goto,
     RoomToBump, RoomToIssue, tokenVars, clientVars, limitVars, viewVars
<1>4. Claims'
  BY  DEF IInv, TypeOK, Claims, RequireAuth, VerifyToken, Login, Purge,
     Begin, Goto, RoomToBump, RoomToIssue, tokenVars, clientVars, limitVars,
     viewVars
<1>5. Latest'
  BY  DEF IInv, TypeOK, Latest, Locks, Login, Purge, Begin, Goto, RoomToBump,
     RoomToIssue, tokenVars, clientVars, limitVars, viewVars
<1>6. Given'
  <2>1. access' = access /\ minted' = minted /\ logins' = logins /\ num' = num
    BY DEF Login, tokenVars, clientVars
  <2>2. \A g \in Requests :
           \/ pc'[g] = pc[g] /\ kind'[g] = kind[g]
           \/ pc'[g] \in {"verified", "failing"} /\ kind'[g] # "refresh"
    BY DEF IInv, TypeOK, Login, Begin, Goto
  <2> QED BY <2>1, <2>2 DEF IInv, Given
<1> QED BY <1>1, <1>2, <1>3, <1>4, <1>5, <1>6 DEF IInv

LEMMA ReadFailuresIInv ==
    ASSUME IInv, NEW h \in Requests, ReadFailures(h)
    PROVE  IInv'
<1>1. TypeOK'
  BY SessionAssumption DEF IInv, TypeOK, Kinds, Stages, ReadFailures, Goto,
     tokenVars, clientVars, limitVars, viewVars
<1>2. Room'
  BY  DEF IInv, TypeOK, Room, Bumping, Issuing, ReadFailures, Goto,
     tokenVars, clientVars, limitVars, viewVars
<1>3. Locks'
  BY SessionAssumption DEF IInv, TypeOK, Locks, ReadFailures, Goto,
     tokenVars, clientVars, limitVars, viewVars
<1>4. Claims'
  BY SessionAssumption DEF IInv, TypeOK, Claims, ReadFailures, Goto, tokenVars,
                           clientVars, limitVars, viewVars
<1>5. Latest'
  BY  DEF IInv, TypeOK, Latest, Locks, ReadFailures, Goto, tokenVars,
     clientVars, limitVars, viewVars
<1>6. Given'
  BY  DEF IInv, TypeOK, Given, Latest, RequireAuth, VerifyToken,
     ReadFailures, Goto, tokenVars, clientVars, limitVars, viewVars
<1> QED BY <1>1, <1>2, <1>3, <1>4, <1>5, <1>6 DEF IInv

LEMMA RecordFailureIInv ==
    ASSUME IInv, NEW h \in Requests, RecordFailure(h)
    PROVE  IInv'
<1>1. TypeOK'
  <2>1. failed' \in 0..(Threshold - 1)
    BY SessionAssumption DEF IInv, TypeOK, Claims, RecordFailure
  <2>2. locked' \in BOOLEAN
    BY DEF IInv, TypeOK, RecordFailure
  <2> QED
    BY <2>1, <2>2, FinishType DEF IInv, TypeOK, RecordFailure, tokenVars,
                                  clientVars, viewVars
<1>2. Room'
  BY  DEF IInv, TypeOK, Room, Bumping, Issuing, RecordFailure, Finish, Goto,
     tokenVars, clientVars, limitVars, viewVars
<1>3. Locks'
  BY SessionAssumption DEF IInv, TypeOK, Locks, RecordFailure, Finish, Goto,
     tokenVars, clientVars, limitVars, viewVars
<1>4. Claims'
  BY  DEF IInv, TypeOK, Claims, RequireAuth, VerifyToken, RecordFailure,
     Finish, Goto, tokenVars, clientVars, limitVars, viewVars
<1>5. Latest'
  BY  DEF IInv, TypeOK, Latest, Locks, RecordFailure, Finish, Goto,
     tokenVars, clientVars, limitVars, viewVars
<1>6. Given'
  BY  DEF IInv, TypeOK, Given, Latest, RequireAuth, VerifyToken,
     RecordFailure, Finish, Goto, tokenVars, clientVars, limitVars, viewVars
<1> QED BY <1>1, <1>2, <1>3, <1>4, <1>5, <1>6 DEF IInv

LEMMA LockoutEndsIInv ==
    ASSUME IInv, LockoutEnds
    PROVE  IInv'
<1>1. TypeOK'
  BY SessionAssumption DEF IInv, TypeOK, Kinds, Stages, LockoutEnds,
     tokenVars, clientVars, limitVars, viewVars
<1>2. Room'
  BY  DEF IInv, TypeOK, Room, Bumping, Issuing, LockoutEnds, tokenVars,
     clientVars, limitVars, viewVars
<1>3. Locks'
  BY SessionAssumption DEF IInv, TypeOK, Locks, LockoutEnds, tokenVars,
     clientVars, limitVars, viewVars
<1>4. Claims'
  BY  DEF IInv, TypeOK, Claims, RequireAuth, VerifyToken, LockoutEnds,
     tokenVars, clientVars, limitVars, viewVars
<1>5. Latest'
  BY  DEF IInv, TypeOK, Latest, Locks, LockoutEnds, tokenVars, clientVars,
     limitVars, viewVars
<1>6. Given'
  BY  DEF IInv, TypeOK, Given, Latest, RequireAuth, VerifyToken, LockoutEnds,
     tokenVars, clientVars, limitVars, viewVars
<1> QED BY <1>1, <1>2, <1>3, <1>4, <1>5, <1>6 DEF IInv

LEMMA ResetFailuresIInv ==
    ASSUME IInv, NEW h \in Requests, ResetFailures(h)
    PROVE  IInv'
<1>1. TypeOK'
  <2>1. failed' \in 0..(Threshold - 1)
    BY SessionAssumption DEF ResetFailures
  <2>2. locked' \in BOOLEAN
    BY DEF ResetFailures
  <2> QED
    BY <2>1, <2>2 DEF IInv, TypeOK, Stages, ResetFailures, Goto, tokenVars,
                      clientVars, viewVars
<1>2. Room'
  BY  DEF IInv, TypeOK, Room, Bumping, Issuing, ResetFailures, Goto,
     tokenVars, clientVars, limitVars, viewVars
<1>3. Locks'
  BY SessionAssumption DEF IInv, TypeOK, Locks, ResetFailures, Goto,
     tokenVars, clientVars, limitVars, viewVars
<1>4. Claims'
  BY  DEF IInv, TypeOK, Claims, RequireAuth, VerifyToken, ResetFailures,
     Goto, tokenVars, clientVars, limitVars, viewVars
<1>5. Latest'
  BY  DEF IInv, TypeOK, Latest, Locks, ResetFailures, Goto, tokenVars,
     clientVars, limitVars, viewVars
<1>6. Given'
  BY  DEF IInv, TypeOK, Given, Latest, RequireAuth, VerifyToken,
     ResetFailures, Goto, tokenVars, clientVars, limitVars, viewVars
<1> QED BY <1>1, <1>2, <1>3, <1>4, <1>5, <1>6 DEF IInv

LEMMA ChangePasswordIInv ==
    ASSUME IInv, NEW h \in Requests, ChangePassword(h)
    PROVE  IInv'
<1>1. TypeOK'
  BY SessionAssumption DEF IInv, TypeOK, Kinds, Stages, ChangePassword,
     Begin, Goto, RoomToBump, tokenVars, clientVars, limitVars, viewVars
<1>2. Room'
  <2>1. /\ epoch' = epoch /\ owner' = owner /\ logins' = logins
        /\ Bumping' \subseteq Bumping \cup {h} /\ Issuing' \subseteq Issuing
        /\ \A g \in Requests : pc'[g] = "issue" => pc[g] = "issue"
    BY DEF IInv, TypeOK, Bumping, Issuing, ChangePassword, Begin, Goto,
       tokenVars
  <2>2. epoch + Cardinality(Bumping) < MaxEpoch
    BY DEF ChangePassword, RoomToBump, Bumping
  <2>3. epoch' + Cardinality(Bumping') <= MaxEpoch
    <3>1. Cardinality(Bumping') <= Cardinality(Bumping) + 1
      BY <2>1, Counted, AddCard
    <3>2. epoch \in Nat /\ MaxEpoch \in Nat
      BY SessionAssumption DEF IInv, TypeOK
    <3> QED BY <2>1, <2>2, <3>1, <3>2, Counted, CountedNext
  <2>4. Len(owner') + Cardinality(Issuing') <= MaxTokens
    <3>1. Cardinality(Issuing') <= Cardinality(Issuing)
      BY <2>1, Counted, SubsetCard
    <3> QED
      BY <2>1, <3>1, Counted, CountedNext, SessionAssumption
         DEF IInv, TypeOK, Room
  <2> QED BY <2>1, <2>3, <2>4 DEF IInv, Room
<1>3. Locks'
  BY SessionAssumption DEF IInv, TypeOK, Locks, ChangePassword, Begin, Goto,
     RoomToBump, tokenVars, clientVars, limitVars, viewVars
<1>4. Claims'
  BY  DEF IInv, TypeOK, Claims, RequireAuth, VerifyToken, ChangePassword,
     Begin, Goto, RoomToBump, tokenVars, clientVars, limitVars, viewVars
<1>5. Latest'
  BY  DEF IInv, TypeOK, Latest, Locks, ChangePassword, Begin, Goto,
     RoomToBump, tokenVars, clientVars, limitVars, viewVars
<1>6. Given'
  BY  DEF IInv, TypeOK, Given, Latest, RequireAuth, VerifyToken,
     ChangePassword, Begin, Goto, RoomToBump, tokenVars, clientVars,
     limitVars, viewVars
<1> QED BY <1>1, <1>2, <1>3, <1>4, <1>5, <1>6 DEF IInv

LEMMA RevokeAllIInv ==
    ASSUME IInv, NEW h \in Requests, RevokeAll(h)
    PROVE  IInv'
<1>1. TypeOK'
  BY SessionAssumption DEF IInv, TypeOK, Kinds, Stages, RevokeAll, Goto,
     tokenVars, clientVars, limitVars, viewVars
<1>2. Room'
  BY  DEF IInv, TypeOK, Room, Bumping, Issuing, RevokeAll, Goto, tokenVars,
     clientVars, limitVars, viewVars
<1>3. Locks'
  BY SessionAssumption DEF IInv, TypeOK, Locks, RevokeAll, Goto, tokenVars,
     clientVars, limitVars, viewVars
<1>4. Claims'
  BY  DEF IInv, TypeOK, Claims, RequireAuth, VerifyToken, RevokeAll, Goto,
     tokenVars, clientVars, limitVars, viewVars
<1>5. Latest'
  BY SessionAssumption DEF IInv, TypeOK, Latest, Locks, RevokeAll, Goto
<1>6. Given'
  BY  DEF IInv, TypeOK, Given, Latest, RequireAuth, VerifyToken, RevokeAll,
     Goto, tokenVars, clientVars, limitVars, viewVars
<1> QED BY <1>1, <1>2, <1>3, <1>4, <1>5, <1>6 DEF IInv

LEMMA LogoutIInv ==
    ASSUME IInv, NEW h \in Requests, NEW t \in knownT \cup {0}, NEW e \in {0,
           access}, Logout(h, t, e)
    PROVE  IInv'
<1>1. TypeOK'
  BY SessionAssumption DEF IInv, TypeOK, Kinds, Stages, Logout, RevokeToken,
     Begin, Goto, RoomToBump, tokenVars, clientVars, limitVars, viewVars
<1>2. Room'
  <2>1. /\ epoch' = epoch /\ owner' = owner /\ logins' = logins
        /\ Bumping' \subseteq Bumping \cup {h} /\ Issuing' \subseteq Issuing
        /\ \A g \in Requests : pc'[g] = "issue" => pc[g] = "issue"
    BY DEF IInv, TypeOK, Bumping, Issuing, Logout, Begin, Goto, tokenVars
  <2>2. epoch + Cardinality(Bumping) < MaxEpoch
    BY DEF Logout, RoomToBump, Bumping
  <2>3. epoch' + Cardinality(Bumping') <= MaxEpoch
    <3>1. Cardinality(Bumping') <= Cardinality(Bumping) + 1
      BY <2>1, Counted, AddCard
    <3>2. epoch \in Nat /\ MaxEpoch \in Nat
      BY SessionAssumption DEF IInv, TypeOK
    <3> QED BY <2>1, <2>2, <3>1, <3>2, Counted, CountedNext
  <2>4. Len(owner') + Cardinality(Issuing') <= MaxTokens
    <3>1. Cardinality(Issuing') <= Cardinality(Issuing)
      BY <2>1, Counted, SubsetCard
    <3> QED
      BY <2>1, <3>1, Counted, CountedNext, SessionAssumption
         DEF IInv, TypeOK, Room
  <2> QED BY <2>1, <2>3, <2>4 DEF IInv, Room
<1>3. Locks'
  BY SessionAssumption DEF IInv, TypeOK, Locks, Logout, RevokeToken, Begin,
     Goto, RoomToBump, tokenVars, clientVars, limitVars, viewVars
<1>4. Claims'
  BY  DEF IInv, TypeOK, Claims, RequireAuth, VerifyToken, Logout,
     RevokeToken, Begin, Goto, RoomToBump, tokenVars, clientVars, limitVars,
     viewVars
<1>5. Latest'
  BY SessionAssumption DEF IInv, TypeOK, Latest, Locks, Logout, RevokeToken,
                           Begin, Goto
<1>6. Given'
  BY  DEF IInv, TypeOK, Given, Latest, RequireAuth, VerifyToken, Logout,
     RevokeToken, Begin, Goto, RoomToBump, tokenVars, clientVars, limitVars,
     viewVars
<1> QED BY <1>1, <1>2, <1>3, <1>4, <1>5, <1>6 DEF IInv

LEMMA BumpIInv ==
    ASSUME IInv, NEW h \in Requests, Bump(h)
    PROVE  IInv'
<1>1. TypeOK'
  <2>1. h \in Bumping
    BY DEF Bump, Bumping
  <2>2. 1 <= Cardinality(Bumping)
    BY <2>1, DropCard, Counted, FS_EmptySet
  <2>3. epoch' \in 0..MaxEpoch
    BY <2>2, Counted, SessionAssumption DEF IInv, TypeOK, Room, Bump
  <2>4. lock' \in Requests \cup {Free} /\ pc' \in [Requests -> Stages]
    BY DEF IInv, TypeOK, Bump, Goto, Stages
  <2> QED
    BY <2>3, <2>4 DEF IInv, TypeOK, Bump, clientVars, limitVars, viewVars
<1>2. Room'
  <2>1. /\ h \in Bumping /\ Bumping' \subseteq Bumping \ {h}
        /\ Issuing' \subseteq Issuing
    BY DEF IInv, TypeOK, Bump, Goto, Bumping, Issuing
  <2>2. /\ Cardinality(Bumping') + 1 <= Cardinality(Bumping)
        /\ Cardinality(Issuing') <= Cardinality(Issuing)
    BY <2>1, DropCard, SubsetCard, Counted
  <2>3. epoch' = epoch + 1 /\ owner' = owner /\ logins' = logins
    BY DEF Bump
  <2>4. epoch' + Cardinality(Bumping') <= MaxEpoch
    BY <2>2, <2>3, Counted, CountedNext, SessionAssumption
       DEF IInv, TypeOK, Room
  <2>5. Len(owner') + Cardinality(Issuing') <= MaxTokens
    BY <2>2, <2>3, Counted, CountedNext, SessionAssumption
       DEF IInv, TypeOK, Room
  <2> QED BY <2>3, <2>4, <2>5 DEF IInv, TypeOK, Room
<1>3. Locks'
  <2>1. CASE kind[h] \in {"login", "keep"}
    BY <2>1, SessionAssumption DEF IInv, TypeOK, Locks, Bump, Goto
  <2>2. CASE kind[h] \notin {"login", "keep"}
    BY <2>2, SessionAssumption DEF IInv, TypeOK, Locks, Bump, Goto
  <2> QED BY <2>1, <2>2
<1>4. Claims'
  <2>1. epoch' = epoch + 1 /\ num' = num /\ access' = access
        /\ viewEpoch' = viewEpoch
    BY DEF Bump, clientVars, viewVars
  <2>2. \A g \in Requests : pc'[g] = "counting" <=> pc[g] = "counting"
    BY DEF IInv, TypeOK, Bump, Goto
  <2> QED BY <2>1, <2>2 DEF IInv, TypeOK, Claims
<1>5. Latest'
  <2>1. /\ epoch' = epoch + 1 /\ active' = active /\ owner' = owner
        /\ minted' = minted /\ logins' = logins /\ kind' = kind /\ tok' = tok
    BY DEF Bump
  <2>2. \A m \in minted : m[1] <= epoch /\ m[1] # epoch'
    BY <2>1 DEF IInv, TypeOK, Latest
  <2>3. \A g \in Requests :
           /\ pc'[g] = "issue" => g = h /\ kind[h] \in {"login", "keep"}
           /\ pc'[g] # "mint" \/ pc[g] = "mint"
           /\ pc'[g] \notin {"bump", "issue"} \/ pc[g] = "bump"
    BY SessionAssumption DEF IInv, TypeOK, Locks, Bump, Goto
  <2> QED BY <2>1, <2>2, <2>3 DEF IInv, TypeOK, Latest
<1>6. Given'
  <2>1. access' = access /\ num' = num /\ kind' = kind /\ minted' = minted
        /\ logins' = logins
    BY DEF Bump, clientVars
  <2>2. \A g \in Requests :
           /\ pc'[g] \in {"sweep", "closing"} /\ kind[g] \in {"login", "keep", "refresh"}
                => pc[g] \in {"sweep", "closing"}
           /\ pc'[g] \in {"verified", "lock", "bump", "relay", "register", "recheck"}
                => pc'[g] = pc[g]
    BY DEF IInv, TypeOK, Given, Bump, Goto
  <2> QED BY <2>1, <2>2 DEF IInv, Given
<1> QED BY <1>1, <1>2, <1>3, <1>4, <1>5, <1>6 DEF IInv

LEMMA IssueIInv ==
    ASSUME IInv, NEW h \in Requests, Issue(h)
    PROVE  IInv'
<1>1. TypeOK'
  <2>1. /\ logins < epoch /\ logins \in Nat /\ epoch \in Nat /\ epoch <= MaxEpoch
        /\ owner \in Seq(Nat)
    BY DEF IInv, TypeOK, Room, Issue
  <2>2. logins' \in 0..MaxEpoch /\ num' \in [Requests -> Nat]
    BY <2>1, SessionAssumption DEF IInv, TypeOK, Issue
  <2>3. minted' \subseteq (1..MaxEpoch) \X (1..MaxEpoch)
    BY <2>1, SessionAssumption DEF IInv, TypeOK, Issue, CreateToken
  <2>4. /\ owner' \in Seq(Nat) /\ Len(owner') <= MaxTokens
        /\ DOMAIN owner \subseteq DOMAIN owner' /\ active' \subseteq DOMAIN owner'
        /\ tok' \in [Requests -> 0..MaxTokens]
    <3>1. CASE kind[h] = "keep"
      <4>1. h \in Issuing
        BY <3>1 DEF Issue, Issuing
      <4>2. 1 <= Cardinality(Issuing)
        BY <4>1, DropCard, Counted, FS_EmptySet
      <4>3. Len(owner) + 1 <= MaxTokens
        BY <2>1, <4>2, Counted, SessionAssumption DEF IInv, TypeOK, Room
      <4>4. owner' = Append(owner, logins + 1) /\ tok' = [tok EXCEPT ![h] = Len(owner) + 1]
            /\ active' = active \cup {Len(owner) + 1}
        BY <3>1 DEF Issue, IssueToken
      <4> QED
        BY <2>1, <4>3, <4>4, AppendOwner, SessionAssumption DEF IInv, TypeOK
    <3>2. CASE kind[h] # "keep"
      BY <3>2 DEF IInv, TypeOK, Issue
    <3> QED BY <3>1, <3>2
  <2>5. lock' \in Requests \cup {Free} /\ pc' \in [Requests -> Stages]
    BY DEF IInv, TypeOK, Issue, Goto, Stages
  <2> QED
    BY <2>2, <2>3, <2>4, <2>5 DEF IInv, TypeOK, Issue, clientVars, limitVars,
                                  viewVars
<1>2. Room'
  <2>1. /\ logins < epoch /\ logins \in Nat /\ epoch \in Nat
        /\ owner \in Seq(Nat) /\ logins' = logins + 1 /\ epoch' = epoch
    BY DEF IInv, TypeOK, Room, Issue
  <2>2. \A g \in Requests : pc'[g] # "issue"
    BY SessionAssumption DEF IInv, TypeOK, Locks, Issue, Goto
  <2>3. Bumping' \subseteq Bumping /\ Issuing' \subseteq Issuing \ {h}
    BY DEF IInv, TypeOK, Bumping, Issuing, Issue, Goto
  <2>4. epoch' + Cardinality(Bumping') <= MaxEpoch
    <3>1. Cardinality(Bumping') <= Cardinality(Bumping)
      BY <2>3, SubsetCard, Counted
    <3> QED BY <2>1, <3>1, Counted, CountedNext, SessionAssumption DEF IInv,
               Room
  <2>5. Len(owner') + Cardinality(Issuing') <= MaxTokens
    <3>1. CASE kind[h] = "keep"
      <4>1. Cardinality(Issuing') + 1 <= Cardinality(Issuing)
        BY <2>3, <3>1, DropCard, Counted DEF Issue, Issuing
      <4>2. Len(owner') = Len(owner) + 1 /\ Len(owner) \in Nat
        BY <2>1, <3>1, AppendOwner DEF Issue, IssueToken
      <4> QED
        BY <4>1, <4>2, Counted, CountedNext, SessionAssumption DEF IInv, Room
    <3>2. CASE kind[h] # "keep"
      <4>1. Cardinality(Issuing') <= Cardinality(Issuing)
        BY <2>3, SubsetCard, Counted
      <4>2. owner' = owner /\ Len(owner) \in Nat
        BY <2>1, <3>2 DEF Issue
      <4> QED
        BY <4>1, <4>2, Counted, CountedNext, SessionAssumption DEF IInv, Room
    <3> QED BY <3>1, <3>2
  <2> QED BY <2>1, <2>2, <2>4, <2>5 DEF Room
<1>3. Locks'
  BY SessionAssumption DEF IInv, TypeOK, Locks, Issue, IssueToken,
     CreateToken, Goto, tokenVars, clientVars, limitVars, viewVars
<1>4. Claims'
  BY  DEF IInv, TypeOK, Claims, RequireAuth, VerifyToken, Issue, IssueToken,
     CreateToken, Goto, tokenVars, clientVars, limitVars, viewVars
<1>5. Latest'
  <2>1. /\ logins \in Nat /\ epoch \in Nat /\ owner \in Seq(Nat)
        /\ logins' = logins + 1 /\ epoch' = epoch /\ kind' = kind
        /\ minted' = minted \cup {<<epoch, logins + 1>>}
    BY DEF IInv, TypeOK, Issue, CreateToken
  <2>2. \A g \in Requests : pc'[g] \notin {"bump", "issue", "mint"}
    BY SessionAssumption DEF IInv, TypeOK, Locks, Issue, Goto
  <2>3. active = {} /\ \A m \in minted : m[1] # epoch
    BY DEF IInv, Latest, Issue
  <2>4. \A m \in minted' :
           m[1] <= epoch' /\ m[2] \in 1..logins' /\ (m[1] = epoch' => m[2] = logins')
    BY <2>1, <2>3 DEF IInv, Latest
  <2>5. /\ \A g \in Requests : tok'[g] # 0 => tok'[g] \in DOMAIN owner'
        /\ \A t \in DOMAIN owner' : owner'[t] \in 1..logins'
        /\ \A t \in active' : owner'[t] = logins'
    <3>1. CASE kind[h] = "keep"
      <4>1. owner' = Append(owner, logins + 1) /\ active' = {Len(owner) + 1}
            /\ tok' = [tok EXCEPT ![h] = Len(owner) + 1]
        BY <2>3, <3>1 DEF Issue, IssueToken
      <4>2. /\ DOMAIN owner' = DOMAIN owner \cup {Len(owner) + 1}
            /\ \A t \in DOMAIN owner : owner'[t] = owner[t]
            /\ owner'[Len(owner) + 1] = logins + 1
        BY <2>1, <4>1, AppendOwner
      <4>3. \A t \in DOMAIN owner : owner[t] \in 1..logins
        BY DEF IInv, Latest
      <4> QED BY <2>1, <4>1, <4>2, <4>3 DEF IInv, TypeOK, Latest
    <3>2. CASE kind[h] # "keep"
      BY <2>1, <2>3, <3>2 DEF IInv, Latest, Issue
    <3> QED BY <3>1, <3>2
  <2>6. \A g \in Requests :
           /\ pc'[g] \in {"bump", "issue"} /\ kind'[g] \in {"login", "keep"}
                => active' = {}
           /\ pc'[g] = "issue" => /\ kind'[g] \in {"login", "keep"}
                                  /\ \A m \in minted' : m[1] # epoch'
           /\ pc'[g] = "mint" => tok'[g] \in active'
    BY <2>2
  <2> QED BY <2>4, <2>5, <2>6 DEF Latest
<1>6. Given'
  BY  DEF IInv, TypeOK, Given, Latest, RequireAuth, VerifyToken, Issue,
     IssueToken, CreateToken, Goto, tokenVars, clientVars, limitVars,
     viewVars
<1> QED BY <1>1, <1>2, <1>3, <1>4, <1>5, <1>6 DEF IInv

LEMMA RotateIInv ==
    ASSUME IInv, NEW h \in Requests, NEW t \in knownT, Rotate(h, t)
    PROVE  IInv'
<1>1. TypeOK'
  <2>1. registry' \subseteq Views
    BY DEF IInv, TypeOK, Rotate, Purge
  <2>2. CASE t \in active
    <3>1. Len(owner) + 1 <= MaxTokens /\ owner \in Seq(Nat) /\ owner[t] \in Nat
      <4>1. Cardinality({g \in Requests : kind[g] = "keep"}) \in Nat
        BY SubsetCard, SessionAssumption
      <4> QED
        BY <2>2, <4>1, SessionAssumption DEF IInv, TypeOK, Rotate, RoomToIssue
    <3>2. /\ owner' = Append(owner, owner[t])
          /\ tok' = [tok EXCEPT ![h] = Len(owner) + 1]
          /\ active' = (active \ {t}) \cup {Len(owner) + 1}
      BY <2>2 DEF Rotate, IssueToken
    <3>3. /\ owner' \in Seq(Nat) /\ Len(owner') <= MaxTokens
          /\ DOMAIN owner \subseteq DOMAIN owner' /\ active' \subseteq DOMAIN owner'
          /\ tok' \in [Requests -> 0..MaxTokens]
      BY <3>1, <3>2, AppendOwner, SessionAssumption DEF IInv, TypeOK
    <3>4. /\ lock' \in Requests \cup {Free} /\ pc' \in [Requests -> Stages]
          /\ kind' \in [Requests -> Kinds]
      BY <2>2 DEF IInv, TypeOK, Rotate, Begin, Goto, Stages, Kinds
    <3> QED
      BY <2>1, <3>3, <3>4 DEF IInv, TypeOK, Rotate, clientVars, limitVars
  <2>3. CASE t \notin active
    BY <2>1, <2>3 DEF IInv, TypeOK, Rotate, clientVars, limitVars
  <2> QED BY <2>2, <2>3
<1>2. Room'
  <2> DEFINE K == {g \in Requests : kind[g] = "keep"}
  <2>1. /\ epoch' = epoch /\ logins' = logins
        /\ Bumping' \subseteq Bumping /\ Issuing' \subseteq Issuing
        /\ \A g \in Requests : pc'[g] = "issue" => pc[g] = "issue"
    BY DEF IInv, TypeOK, Bumping, Issuing, Rotate, Begin, Goto
  <2>2. CASE t \notin active
    BY <2>1, <2>2, RoomKept DEF IInv, Rotate
  <2>3. CASE t \in active
    <3>1. epoch' + Cardinality(Bumping') <= MaxEpoch
      <4>1. Cardinality(Bumping') <= Cardinality(Bumping)
        BY <2>1, SubsetCard, Counted
      <4> QED
        BY <2>1, <4>1, Counted, CountedNext, SessionAssumption
           DEF IInv, TypeOK, Room
    <3>2. Len(owner') = Len(owner) + 1 /\ Len(owner) \in Nat
      BY <2>3, AppendOwner DEF IInv, TypeOK, Rotate, IssueToken
    <3>3. IsFiniteSet(K) /\ Issuing' \subseteq K
      BY <2>1, SessionAssumption, SubsetCard DEF Issuing
    <3>4. Cardinality(Issuing') <= Cardinality(K) /\ Cardinality(K) \in Nat
      BY <3>3, SubsetCard
    <3>5. Len(owner) + Cardinality(K) < MaxTokens
      BY DEF Rotate, RoomToIssue
    <3>6. Len(owner') + Cardinality(Issuing') <= MaxTokens
      BY <3>2, <3>4, <3>5, CountedNext, SessionAssumption
    <3> QED BY <2>1, <3>1, <3>6 DEF IInv, Room
  <2> QED BY <2>2, <2>3
<1>3. Locks'
  BY SessionAssumption DEF IInv, TypeOK, Locks, Rotate, Purge, IssueToken,
     Begin, Goto, RoomToIssue, tokenVars, clientVars, limitVars, viewVars
<1>4. Claims'
  BY  DEF IInv, TypeOK, Claims, RequireAuth, VerifyToken, Rotate, Purge,
     IssueToken, Begin, Goto, RoomToIssue, tokenVars, clientVars, limitVars,
     viewVars
<1>5. Latest'
  <2>1. epoch' = epoch /\ logins' = logins /\ minted' = minted
    BY DEF Rotate
  <2>2. CASE t \notin active
    BY <2>1, <2>2 DEF IInv, Latest, Rotate
  <2>3. CASE t \in active
    <3>1. /\ owner' = Append(owner, owner[t]) /\ owner[t] = logins /\ logins \in Nat
          /\ owner \in Seq(Nat) /\ owner[t] \in 1..logins
          /\ tok' = [tok EXCEPT ![h] = Len(owner) + 1]
          /\ active' = (active \ {t}) \cup {Len(owner) + 1}
      BY <2>3 DEF IInv, TypeOK, Latest, Rotate, IssueToken
    <3>2. /\ DOMAIN owner' = DOMAIN owner \cup {Len(owner) + 1}
          /\ \A u \in DOMAIN owner : owner'[u] = owner[u]
          /\ owner'[Len(owner) + 1] = logins
      BY <3>1, AppendOwner
    <3>3. /\ \A g \in Requests : tok'[g] # 0 => tok'[g] \in DOMAIN owner'
          /\ \A u \in DOMAIN owner' : owner'[u] \in 1..logins
          /\ \A u \in active' : owner'[u] = logins
      BY <3>1, <3>2 DEF IInv, TypeOK, Latest
    <3>4. \A g \in Requests :
             pc'[g] \notin {"bump", "issue"} /\ (pc'[g] = "mint" => g = h)
      BY <2>3, SessionAssumption DEF IInv, TypeOK, Locks, Rotate, Begin, Goto
    <3>5. tok'[h] \in active'
      BY <3>1 DEF IInv, TypeOK
    <3>6. \A g \in Requests :
             /\ pc'[g] \in {"bump", "issue"} /\ kind'[g] \in {"login", "keep"}
                  => active' = {}
             /\ pc'[g] = "issue" => /\ kind'[g] \in {"login", "keep"}
                                    /\ \A m \in minted' : m[1] # epoch'
             /\ pc'[g] = "mint" => tok'[g] \in active'
      BY <3>4, <3>5
    <3>7. /\ \A m \in minted' : m[1] <= epoch' /\ m[2] \in 1..logins'
          /\ \A m \in minted' : m[1] = epoch' => m[2] = logins'
      BY <2>1 DEF IInv, Latest
    <3> QED BY <2>1, <3>3, <3>6, <3>7 DEF Latest
  <2> QED BY <2>2, <2>3
<1>6. Given'
  <2>1. access' = access /\ minted' = minted /\ logins' = logins /\ num' = num
    BY DEF Rotate, clientVars
  <2>2. \A g \in Requests : \/ pc'[g] = pc[g] /\ kind'[g] = kind[g]
                            \/ pc'[g] = "mint"
    BY DEF IInv, TypeOK, Rotate, Begin, Goto
  <2> QED BY <2>1, <2>2 DEF IInv, Given
<1> QED BY <1>1, <1>2, <1>3, <1>4, <1>5, <1>6 DEF IInv

LEMMA MintIInv ==
    ASSUME IInv, NEW h \in Requests, Mint(h)
    PROVE  IInv'
<1>1. TypeOK'
  <2>1. owner[tok[h]] = logins /\ owner[tok[h]] \in 1..logins
    BY DEF IInv, TypeOK, Latest, Mint
  <2>2. epoch \in 1..MaxEpoch /\ logins \in 1..MaxEpoch
    BY <2>1, SessionAssumption DEF IInv, TypeOK, Room
  <2>3. minted' \subseteq (1..MaxEpoch) \X (1..MaxEpoch) /\ num' \in [Requests -> Nat]
    BY <2>1, <2>2 DEF IInv, TypeOK, Mint, CreateToken
  <2>4. lock' \in Requests \cup {Free} /\ pc' \in [Requests -> Stages]
    BY DEF IInv, TypeOK, Mint, Goto, Stages
  <2> QED
    BY <2>3, <2>4 DEF IInv, TypeOK, Mint, clientVars, limitVars, viewVars
<1>2. Room'
  BY  DEF IInv, TypeOK, Room, Bumping, Issuing, Mint, CreateToken, Goto,
     tokenVars, clientVars, limitVars, viewVars
<1>3. Locks'
  BY SessionAssumption DEF IInv, TypeOK, Locks, Mint, CreateToken, Goto,
     tokenVars, clientVars, limitVars, viewVars
<1>4. Claims'
  BY  DEF IInv, TypeOK, Claims, RequireAuth, VerifyToken, Mint, CreateToken,
     Goto, tokenVars, clientVars, limitVars, viewVars
<1>5. Latest'
  BY  DEF IInv, TypeOK, Latest, Locks, Mint, CreateToken, Goto, tokenVars,
     clientVars, limitVars, viewVars
<1>6. Given'
  BY  DEF IInv, TypeOK, Given, Latest, RequireAuth, VerifyToken, Mint,
     CreateToken, Goto, tokenVars, clientVars, limitVars, viewVars
<1> QED BY <1>1, <1>2, <1>3, <1>4, <1>5, <1>6 DEF IInv

LEMMA TokenExpiresIInv ==
    ASSUME IInv, NEW t \in active, TokenExpires(t)
    PROVE  IInv'
<1>1. TypeOK'
  BY SessionAssumption DEF IInv, TypeOK, Kinds, Stages, TokenExpires,
     tokenVars, clientVars, limitVars, viewVars
<1>2. Room'
  BY  DEF IInv, TypeOK, Room, Bumping, Issuing, TokenExpires, tokenVars,
     clientVars, limitVars, viewVars
<1>3. Locks'
  BY SessionAssumption DEF IInv, TypeOK, Locks, TokenExpires, tokenVars,
     clientVars, limitVars, viewVars
<1>4. Claims'
  BY  DEF IInv, TypeOK, Claims, RequireAuth, VerifyToken, TokenExpires,
     tokenVars, clientVars, limitVars, viewVars
<1>5. Latest'
  BY  DEF IInv, TypeOK, Latest, Locks, TokenExpires, tokenVars, clientVars,
     limitVars, viewVars
<1>6. Given'
  BY  DEF IInv, TypeOK, Given, Latest, RequireAuth, VerifyToken,
     TokenExpires, tokenVars, clientVars, limitVars, viewVars
<1> QED BY <1>1, <1>2, <1>3, <1>4, <1>5, <1>6 DEF IInv

LEMMA SweepIInv ==
    ASSUME IInv, NEW h \in Requests, Sweep(h)
    PROVE  IInv'
<1>1. TypeOK'
  BY SessionAssumption DEF IInv, TypeOK, Kinds, Stages, Sweep, Goto,
     tokenVars, clientVars, limitVars, viewVars
<1>2. Room'
  BY  DEF IInv, TypeOK, Room, Bumping, Issuing, Sweep, Goto, tokenVars,
     clientVars, limitVars, viewVars
<1>3. Locks'
  BY SessionAssumption DEF IInv, TypeOK, Locks, Sweep, Goto, tokenVars,
     clientVars, limitVars, viewVars
<1>4. Claims'
  BY  DEF IInv, TypeOK, Claims, RequireAuth, VerifyToken, Sweep, Goto,
     tokenVars, clientVars, limitVars, viewVars
<1>5. Latest'
  BY  DEF IInv, TypeOK, Latest, Locks, Sweep, Goto, tokenVars, clientVars,
     limitVars, viewVars
<1>6. Given'
  BY  DEF IInv, TypeOK, Given, Latest, RequireAuth, VerifyToken, Sweep, Goto,
     tokenVars, clientVars, limitVars, viewVars
<1> QED BY <1>1, <1>2, <1>3, <1>4, <1>5, <1>6 DEF IInv

LEMMA CloseViewIInv ==
    ASSUME IInv, NEW h \in Requests, NEW v \in Views, NEW ok \in BOOLEAN,
           CloseView(h, v, ok)
    PROVE  IInv'
<1>1. TypeOK'
  BY SessionAssumption DEF IInv, TypeOK, Kinds, Stages, CloseView, tokenVars,
     clientVars, limitVars, viewVars
<1>2. Room'
  BY  DEF IInv, TypeOK, Room, Bumping, Issuing, CloseView, tokenVars,
     clientVars, limitVars, viewVars
<1>3. Locks'
  BY SessionAssumption DEF IInv, TypeOK, Locks, CloseView, tokenVars,
     clientVars, limitVars, viewVars
<1>4. Claims'
  BY  DEF IInv, TypeOK, Claims, RequireAuth, VerifyToken, CloseView,
     tokenVars, clientVars, limitVars, viewVars
<1>5. Latest'
  BY  DEF IInv, TypeOK, Latest, Locks, CloseView, tokenVars, clientVars,
     limitVars, viewVars
<1>6. Given'
  BY  DEF IInv, TypeOK, Given, Latest, RequireAuth, VerifyToken, CloseView,
     tokenVars, clientVars, limitVars, viewVars
<1> QED BY <1>1, <1>2, <1>3, <1>4, <1>5, <1>6 DEF IInv

LEMMA RespondIInv ==
    ASSUME IInv, NEW h \in Requests, Respond(h)
    PROVE  IInv'
<1>1. TypeOK'
  <2>1. access' \in 0..MaxEpoch /\ knownT' \subseteq DOMAIN owner
    <3>1. num[h] <= epoch /\ num[h] \in Nat /\ epoch <= MaxEpoch
      BY SessionAssumption DEF IInv, TypeOK, Claims, Respond
    <3>2. {tok[h]} \ {0} \subseteq DOMAIN owner
      BY DEF IInv, Latest, Respond
    <3> QED
      BY <3>1, <3>2, SessionAssumption DEF IInv, TypeOK, Respond, clientVars
  <2> QED
    BY <2>1, FinishType DEF IInv, TypeOK, Respond, tokenVars, limitVars,
       viewVars
<1>2. Room'
  BY  DEF IInv, TypeOK, Room, Bumping, Issuing, Respond, Finish, Goto,
     tokenVars, clientVars, limitVars, viewVars
<1>3. Locks'
  BY SessionAssumption DEF IInv, TypeOK, Locks, Respond, Finish, Goto,
     tokenVars, clientVars, limitVars, viewVars
<1>4. Claims'
  BY  DEF IInv, TypeOK, Claims, RequireAuth, VerifyToken, Respond, Finish,
     Goto, tokenVars, clientVars, limitVars, viewVars
<1>5. Latest'
  BY  DEF IInv, TypeOK, Latest, Locks, Respond, Finish, Goto, tokenVars,
     clientVars, limitVars, viewVars
<1>6. Given'
  BY  DEF IInv, TypeOK, Given, Latest, RequireAuth, VerifyToken, Respond,
     Finish, Goto, tokenVars, clientVars, limitVars, viewVars
<1> QED BY <1>1, <1>2, <1>3, <1>4, <1>5, <1>6 DEF IInv

LEMMA WhepOpenIInv ==
    ASSUME IInv, NEW h \in Requests, WhepOpen(h)
    PROVE  IInv'
<1>1. TypeOK'
  BY SessionAssumption DEF IInv, TypeOK, Kinds, Stages, WhepOpen, Begin,
     Goto, tokenVars, clientVars, limitVars, viewVars
<1>2. Room'
  BY  DEF IInv, TypeOK, Room, Bumping, Issuing, WhepOpen, Begin, Goto,
     tokenVars, clientVars, limitVars, viewVars
<1>3. Locks'
  BY SessionAssumption DEF IInv, TypeOK, Locks, WhepOpen, Begin, Goto,
     tokenVars, clientVars, limitVars, viewVars
<1>4. Claims'
  BY  DEF IInv, TypeOK, Claims, RequireAuth, VerifyToken, WhepOpen, Begin,
     Goto, tokenVars, clientVars, limitVars, viewVars
<1>5. Latest'
  BY  DEF IInv, TypeOK, Latest, Locks, WhepOpen, Begin, Goto, tokenVars,
     clientVars, limitVars, viewVars
<1>6. Given'
  BY  DEF IInv, TypeOK, Given, Latest, RequireAuth, VerifyToken, WhepOpen,
     Begin, Goto, tokenVars, clientVars, limitVars, viewVars
<1> QED BY <1>1, <1>2, <1>3, <1>4, <1>5, <1>6 DEF IInv

LEMMA WhepRefusedIInv ==
    ASSUME IInv, NEW h \in Requests, WhepRefused(h)
    PROVE  IInv'
<1>1. TypeOK'
  BY SessionAssumption DEF IInv, TypeOK, Kinds, Stages, WhepRefused, Finish,
     Goto, tokenVars, clientVars, limitVars, viewVars
<1>2. Room'
  BY  DEF IInv, TypeOK, Room, Bumping, Issuing, WhepRefused, Finish, Goto,
     tokenVars, clientVars, limitVars, viewVars
<1>3. Locks'
  BY SessionAssumption DEF IInv, TypeOK, Locks, WhepRefused, Finish, Goto,
     tokenVars, clientVars, limitVars, viewVars
<1>4. Claims'
  BY  DEF IInv, TypeOK, Claims, RequireAuth, VerifyToken, WhepRefused,
     Finish, Goto, tokenVars, clientVars, limitVars, viewVars
<1>5. Latest'
  BY  DEF IInv, TypeOK, Latest, Locks, WhepRefused, Finish, Goto, tokenVars,
     clientVars, limitVars, viewVars
<1>6. Given'
  BY  DEF IInv, TypeOK, Given, Latest, RequireAuth, VerifyToken, WhepRefused,
     Finish, Goto, tokenVars, clientVars, limitVars, viewVars
<1> QED BY <1>1, <1>2, <1>3, <1>4, <1>5, <1>6 DEF IInv

LEMMA WhepCreatedIInv ==
    ASSUME IInv, NEW h \in Requests, NEW v \in Views, WhepCreated(h, v)
    PROVE  IInv'
<1>1. TypeOK'
  <2>1. num[h] \in 0..MaxEpoch
    <3>1. num[h] <= epoch
      BY DEF IInv, Claims, WhepCreated
    <3> QED BY <3>1, SessionAssumption DEF IInv, TypeOK
  <2>2. viewEpoch' \in [Views -> 0..MaxEpoch] /\ open' \subseteq Views
    BY <2>1 DEF IInv, TypeOK, WhepCreated
  <2>3. pc' \in [Requests -> Stages] /\ todo' \in [Requests -> SUBSET Views]
    BY DEF IInv, TypeOK, WhepCreated, Goto, Stages
  <2> QED
    BY <2>2, <2>3 DEF IInv, TypeOK, WhepCreated, tokenVars, clientVars,
       limitVars
<1>2. Room'
  BY  DEF IInv, TypeOK, Room, Bumping, Issuing, WhepCreated, Goto, tokenVars,
     clientVars, limitVars, viewVars
<1>3. Locks'
  BY SessionAssumption DEF IInv, TypeOK, Locks, WhepCreated, Goto, tokenVars,
     clientVars, limitVars, viewVars
<1>4. Claims'
  BY  DEF IInv, TypeOK, Claims, RequireAuth, VerifyToken, WhepCreated, Goto,
     tokenVars, clientVars, limitVars, viewVars
<1>5. Latest'
  BY  DEF IInv, TypeOK, Latest, Locks, WhepCreated, Goto, tokenVars,
     clientVars, limitVars, viewVars
<1>6. Given'
  BY  DEF IInv, TypeOK, Given, Latest, RequireAuth, VerifyToken, WhepCreated,
     Goto, tokenVars, clientVars, limitVars, viewVars
<1> QED BY <1>1, <1>2, <1>3, <1>4, <1>5, <1>6 DEF IInv

LEMMA RegisterIInv ==
    ASSUME IInv, NEW h \in Requests, Register(h)
    PROVE  IInv'
<1>1. TypeOK'
  BY SessionAssumption DEF IInv, TypeOK, Kinds, Stages, Register, Goto,
     tokenVars, clientVars, limitVars, viewVars
<1>2. Room'
  BY  DEF IInv, TypeOK, Room, Bumping, Issuing, Register, Goto, tokenVars,
     clientVars, limitVars, viewVars
<1>3. Locks'
  BY SessionAssumption DEF IInv, TypeOK, Locks, Register, Goto, tokenVars,
     clientVars, limitVars, viewVars
<1>4. Claims'
  BY  DEF IInv, TypeOK, Claims, RequireAuth, VerifyToken, Register, Goto,
     tokenVars, clientVars, limitVars, viewVars
<1>5. Latest'
  BY  DEF IInv, TypeOK, Latest, Locks, Register, Goto, tokenVars, clientVars,
     limitVars, viewVars
<1>6. Given'
  BY  DEF IInv, TypeOK, Given, Latest, RequireAuth, VerifyToken, Register,
     Goto, tokenVars, clientVars, limitVars, viewVars
<1> QED BY <1>1, <1>2, <1>3, <1>4, <1>5, <1>6 DEF IInv

LEMMA RecheckIInv ==
    ASSUME IInv, NEW h \in Requests, Recheck(h)
    PROVE  IInv'
<1>1. TypeOK'
  <2>1. CASE epoch # num[h]
    BY <2>1 DEF IInv, TypeOK, Stages, Recheck, Goto, tokenVars, clientVars,
                limitVars, viewVars
  <2>2. CASE epoch = num[h]
    BY <2>2, FinishType DEF IInv, TypeOK, Recheck, tokenVars, clientVars,
                            limitVars, viewVars
  <2> QED BY <2>1, <2>2
<1>2. Room'
  BY  DEF IInv, TypeOK, Room, Bumping, Issuing, Recheck, Finish, Goto,
     tokenVars, clientVars, limitVars, viewVars
<1>3. Locks'
  BY SessionAssumption DEF IInv, TypeOK, Locks, Recheck, Finish, Goto,
     tokenVars, clientVars, limitVars, viewVars
<1>4. Claims'
  <2>1. /\ access' = access /\ minted' = minted /\ logins' = logins
        /\ epoch' = epoch /\ active' = active /\ owner' = owner
        /\ viewEpoch' = viewEpoch
    BY DEF Recheck, tokenVars, clientVars, viewVars
  <2>2. \A g \in Requests :
           \/ /\ pc'[g] = pc[g] /\ kind'[g] = kind[g] /\ num'[g] = num[g]
              /\ tok'[g] = tok[g]
           \/ /\ pc'[g] = "idle" /\ num'[g] = 0 /\ tok'[g] = 0
           \/ /\ pc'[g] = "sweep" /\ pc[g] = "recheck" /\ kind'[g] = kind[g]
              /\ num'[g] = num[g] /\ tok'[g] = tok[g]
    <3>1. CASE epoch # num[h]
      BY <3>1 DEF IInv, TypeOK, Recheck, Goto
    <3>2. CASE epoch = num[h]
      BY <3>2 DEF IInv, TypeOK, Recheck, Finish, Goto
    <3> QED BY <3>1, <3>2
  <2>3. 0 <= epoch
    BY SessionAssumption DEF IInv, TypeOK
  <2> QED BY <2>1, <2>2, <2>3 DEF IInv, Claims
<1>5. Latest'
  <2>1. /\ access' = access /\ minted' = minted /\ logins' = logins
        /\ epoch' = epoch /\ active' = active /\ owner' = owner
        /\ viewEpoch' = viewEpoch
    BY DEF Recheck, tokenVars, clientVars, viewVars
  <2>2. \A g \in Requests :
           \/ /\ pc'[g] = pc[g] /\ kind'[g] = kind[g] /\ num'[g] = num[g]
              /\ tok'[g] = tok[g]
           \/ /\ pc'[g] = "idle" /\ num'[g] = 0 /\ tok'[g] = 0
           \/ /\ pc'[g] = "sweep" /\ pc[g] = "recheck" /\ kind'[g] = kind[g]
              /\ num'[g] = num[g] /\ tok'[g] = tok[g]
    <3>1. CASE epoch # num[h]
      BY <3>1 DEF IInv, TypeOK, Recheck, Goto
    <3>2. CASE epoch = num[h]
      BY <3>2 DEF IInv, TypeOK, Recheck, Finish, Goto
    <3> QED BY <3>1, <3>2
  <2> QED BY <2>1, <2>2 DEF IInv, Latest
<1>6. Given'
  <2>1. /\ access' = access /\ minted' = minted /\ logins' = logins
        /\ epoch' = epoch /\ active' = active /\ owner' = owner
        /\ viewEpoch' = viewEpoch
    BY DEF Recheck, tokenVars, clientVars, viewVars
  <2>2. \A g \in Requests :
           \/ /\ pc'[g] = pc[g] /\ kind'[g] = kind[g] /\ num'[g] = num[g]
              /\ tok'[g] = tok[g]
           \/ /\ pc'[g] = "idle" /\ num'[g] = 0 /\ tok'[g] = 0
           \/ /\ pc'[g] = "sweep" /\ pc[g] = "recheck" /\ kind'[g] = kind[g]
              /\ num'[g] = num[g] /\ tok'[g] = tok[g]
    <3>1. CASE epoch # num[h]
      BY <3>1 DEF IInv, TypeOK, Recheck, Goto
    <3>2. CASE epoch = num[h]
      BY <3>2 DEF IInv, TypeOK, Recheck, Finish, Goto
    <3> QED BY <3>1, <3>2
  <2> QED BY <2>1, <2>2 DEF IInv, Given
<1> QED BY <1>1, <1>2, <1>3, <1>4, <1>5, <1>6 DEF IInv

LEMMA WhepCloseIInv ==
    ASSUME IInv, NEW h \in Requests, NEW v \in Views, WhepClose(h, v)
    PROVE  IInv'
<1>1. TypeOK'
  BY SessionAssumption DEF IInv, TypeOK, Kinds, Stages, WhepClose, Begin,
     Goto, tokenVars, clientVars, limitVars, viewVars
<1>2. Room'
  BY  DEF IInv, TypeOK, Room, Bumping, Issuing, WhepClose, Begin, Goto,
     tokenVars, clientVars, limitVars, viewVars
<1>3. Locks'
  BY SessionAssumption DEF IInv, TypeOK, Locks, WhepClose, Begin, Goto,
     tokenVars, clientVars, limitVars, viewVars
<1>4. Claims'
  BY  DEF IInv, TypeOK, Claims, RequireAuth, VerifyToken, WhepClose, Begin,
     Goto, tokenVars, clientVars, limitVars, viewVars
<1>5. Latest'
  BY  DEF IInv, TypeOK, Latest, Locks, WhepClose, Begin, Goto, tokenVars,
     clientVars, limitVars, viewVars
<1>6. Given'
  BY  DEF IInv, TypeOK, Given, Latest, RequireAuth, VerifyToken, WhepClose,
     Begin, Goto, tokenVars, clientVars, limitVars, viewVars
<1> QED BY <1>1, <1>2, <1>3, <1>4, <1>5, <1>6 DEF IInv

LEMMA StreamOpenIInv ==
    ASSUME IInv, NEW v \in Views, StreamOpen(v)
    PROVE  IInv'
<1>1. TypeOK'
  BY SessionAssumption DEF IInv, TypeOK, Kinds, Stages, StreamOpen,
     tokenVars, clientVars, limitVars, viewVars
<1>2. Room'
  BY  DEF IInv, TypeOK, Room, Bumping, Issuing, StreamOpen, tokenVars,
     clientVars, limitVars, viewVars
<1>3. Locks'
  BY SessionAssumption DEF IInv, TypeOK, Locks, StreamOpen, tokenVars,
     clientVars, limitVars, viewVars
<1>4. Claims'
  BY  DEF IInv, TypeOK, Claims, RequireAuth, VerifyToken, StreamOpen,
     tokenVars, clientVars, limitVars, viewVars
<1>5. Latest'
  BY  DEF IInv, TypeOK, Latest, Locks, StreamOpen, tokenVars, clientVars,
     limitVars, viewVars
<1>6. Given'
  BY  DEF IInv, TypeOK, Given, Latest, RequireAuth, VerifyToken, StreamOpen,
     tokenVars, clientVars, limitVars, viewVars
<1> QED BY <1>1, <1>2, <1>3, <1>4, <1>5, <1>6 DEF IInv

LEMMA StreamGuardIInv ==
    ASSUME IInv, NEW v \in Views, StreamGuard(v)
    PROVE  IInv'
<1>1. TypeOK'
  BY SessionAssumption DEF IInv, TypeOK, Kinds, Stages, StreamGuard,
     tokenVars, clientVars, limitVars, viewVars
<1>2. Room'
  BY  DEF IInv, TypeOK, Room, Bumping, Issuing, StreamGuard, tokenVars,
     clientVars, limitVars, viewVars
<1>3. Locks'
  BY SessionAssumption DEF IInv, TypeOK, Locks, StreamGuard, tokenVars,
     clientVars, limitVars, viewVars
<1>4. Claims'
  BY  DEF IInv, TypeOK, Claims, RequireAuth, VerifyToken, StreamGuard,
     tokenVars, clientVars, limitVars, viewVars
<1>5. Latest'
  BY  DEF IInv, TypeOK, Latest, Locks, StreamGuard, tokenVars, clientVars,
     limitVars, viewVars
<1>6. Given'
  BY  DEF IInv, TypeOK, Given, Latest, RequireAuth, VerifyToken, StreamGuard,
     tokenVars, clientVars, limitVars, viewVars
<1> QED BY <1>1, <1>2, <1>3, <1>4, <1>5, <1>6 DEF IInv

LEMMA IceTimeoutIInv ==
    ASSUME IInv, NEW v \in Views, IceTimeout(v)
    PROVE  IInv'
<1>1. TypeOK'
  BY SessionAssumption DEF IInv, TypeOK, Kinds, Stages, IceTimeout,
     tokenVars, clientVars, limitVars, viewVars
<1>2. Room'
  BY  DEF IInv, TypeOK, Room, Bumping, Issuing, IceTimeout, tokenVars,
     clientVars, limitVars, viewVars
<1>3. Locks'
  BY SessionAssumption DEF IInv, TypeOK, Locks, IceTimeout, tokenVars,
     clientVars, limitVars, viewVars
<1>4. Claims'
  BY  DEF IInv, TypeOK, Claims, RequireAuth, VerifyToken, IceTimeout,
     tokenVars, clientVars, limitVars, viewVars
<1>5. Latest'
  BY  DEF IInv, TypeOK, Latest, Locks, IceTimeout, tokenVars, clientVars,
     limitVars, viewVars
<1>6. Given'
  BY  DEF IInv, TypeOK, Given, Latest, RequireAuth, VerifyToken, IceTimeout,
     tokenVars, clientVars, limitVars, viewVars
<1> QED BY <1>1, <1>2, <1>3, <1>4, <1>5, <1>6 DEF IInv

LEMMA RestartIInv ==
    ASSUME IInv, Restart
    PROVE  IInv'
<1>1. TypeOK'
  BY SessionAssumption DEF IInv, TypeOK, Kinds, Stages, Restart, tokenVars,
     clientVars, limitVars, viewVars
<1>2. Room'
  <2>1. /\ epoch' = epoch /\ owner' = owner /\ logins' = logins
        /\ Bumping' \subseteq Bumping /\ Issuing' \subseteq Issuing
        /\ \A h \in Requests : pc'[h] # "issue"
    BY DEF Restart, Bumping, Issuing, tokenVars
  <2> QED BY <2>1, RoomKept DEF IInv
<1>3. Locks'
  BY SessionAssumption DEF IInv, TypeOK, Locks, Restart, tokenVars,
     clientVars, limitVars, viewVars
<1>4. Claims'
  BY  DEF IInv, TypeOK, Claims, RequireAuth, VerifyToken, Restart, tokenVars,
     clientVars, limitVars, viewVars
<1>5. Latest'
  BY  DEF IInv, TypeOK, Latest, Locks, Restart, tokenVars, clientVars,
     limitVars, viewVars
<1>6. Given'
  BY  DEF IInv, TypeOK, Given, Latest, RequireAuth, VerifyToken, Restart,
     tokenVars, clientVars, limitVars, viewVars
<1> QED BY <1>1, <1>2, <1>3, <1>4, <1>5, <1>6 DEF IInv

(* The proof of StaleViewsOwed carries the facts about the views along. *)
ViewInv == IInv /\ Hands /\ Accounted /\ StaleViewsOwed

(* Request h is going to close view v. *)
Owes(h, v) ==
    \/ v \in todo[h]
    \/ v \in registry /\ pc[h] \in {"sweep", "issue"}
    \/ v \in registry /\ pc[h] = "recheck" /\ num[h] # epoch

LEMMA OwedViews ==
    StaleViewsOwed <=>
        \A v \in open \ (lost \cup relayed) :
            viewEpoch[v] # epoch => \E h \in Requests : Owes(h, v)
BY DEF StaleViewsOwed, Owes

LEMMA OwedViewsNext ==
    StaleViewsOwed' <=>
        \A v \in open' \ (lost' \cup relayed') :
            viewEpoch'[v] # epoch' => \E h \in Requests : Owes(h, v)'
BY DEF StaleViewsOwed, Owes

LEMMA LoginViews ==
    ASSUME ViewInv, ~Aging, NEW h \in Requests, NEW right \in BOOLEAN,
           NEW keep \in BOOLEAN, Login(h, right, keep)
    PROVE  ViewInv'
<1>1. Hands'
  BY DEF ViewInv, IInv, TypeOK, Hands, Login, Purge, Begin, Goto, RoomToBump,
     RoomToIssue, tokenVars, clientVars, limitVars, viewVars
<1>2. Accounted'
  BY DEF ViewInv, IInv, TypeOK, Hands, Accounted, Login, Purge, Begin, Goto,
     RoomToBump, RoomToIssue, tokenVars, clientVars, limitVars, viewVars
<1>3. StaleViewsOwed'
  <2> SUFFICES ASSUME NEW w \in open' \ (lost' \cup relayed'),
                      viewEpoch'[w] # epoch'
               PROVE  \E g \in Requests : Owes(g, w)'
    BY OwedViewsNext
  <2>1. /\ w \in open \ (lost \cup relayed) /\ viewEpoch[w] # epoch
        /\ w \in registry => w \in registry'
        /\ epoch' = epoch /\ num' = num /\ todo' = todo
    BY DEF Login, Purge, tokenVars
  <2>2. PICK g \in Requests : Owes(g, w)
    BY <2>1, OwedViews DEF ViewInv
  <2>3. g # h
    BY <2>2 DEF ViewInv, Hands, Owes, Login
  <2>4. pc'[g] = pc[g]
    <3>1. CASE locked
      BY <3>1 DEF Login
    <3>2. CASE ~locked
      BY <2>3, <3>2 DEF ViewInv, IInv, TypeOK, Login, Begin, Goto
    <3> QED BY <3>1, <3>2
  <2> QED
    BY <2>1, <2>2, <2>4 DEF Owes
<1> QED BY <1>1, <1>2, <1>3, LoginIInv DEF ViewInv

LEMMA ReadFailuresViews ==
    ASSUME ViewInv, ~Aging, NEW h \in Requests, ReadFailures(h)
    PROVE  ViewInv'
<1>1. Hands'
  BY DEF ViewInv, IInv, TypeOK, Hands, ReadFailures, Goto, tokenVars,
     clientVars, limitVars, viewVars
<1>2. Accounted'
  BY DEF ViewInv, IInv, TypeOK, Hands, Accounted, ReadFailures, Goto,
     tokenVars, clientVars, limitVars, viewVars
<1>3. StaleViewsOwed'
  BY DEF ViewInv, IInv, TypeOK, Hands, Accounted, StaleViewsOwed, Claims,
     ReadFailures, Goto, tokenVars, clientVars, limitVars, viewVars
<1> QED BY <1>1, <1>2, <1>3, ReadFailuresIInv DEF ViewInv

LEMMA RecordFailureViews ==
    ASSUME ViewInv, ~Aging, NEW h \in Requests, RecordFailure(h)
    PROVE  ViewInv'
<1>1. Hands'
  BY DEF ViewInv, IInv, TypeOK, Hands, RecordFailure, Finish, Goto,
     tokenVars, clientVars, limitVars, viewVars
<1>2. Accounted'
  BY DEF ViewInv, IInv, TypeOK, Hands, Accounted, RecordFailure, Finish,
     Goto, tokenVars, clientVars, limitVars, viewVars
<1>3. StaleViewsOwed'
  BY DEF ViewInv, IInv, TypeOK, Hands, Accounted, StaleViewsOwed, Claims,
     RecordFailure, Finish, Goto, tokenVars, clientVars, limitVars, viewVars
<1> QED BY <1>1, <1>2, <1>3, RecordFailureIInv DEF ViewInv

LEMMA LockoutEndsViews ==
    ASSUME ViewInv, ~Aging, LockoutEnds
    PROVE  ViewInv'
<1>1. Hands'
  BY DEF ViewInv, IInv, TypeOK, Hands, LockoutEnds, tokenVars, clientVars,
     limitVars, viewVars
<1>2. Accounted'
  BY DEF ViewInv, IInv, TypeOK, Hands, Accounted, LockoutEnds, tokenVars,
     clientVars, limitVars, viewVars
<1>3. StaleViewsOwed'
  BY DEF ViewInv, IInv, TypeOK, Hands, Accounted, StaleViewsOwed, Claims,
     LockoutEnds, tokenVars, clientVars, limitVars, viewVars
<1> QED BY <1>1, <1>2, <1>3, LockoutEndsIInv DEF ViewInv

LEMMA ResetFailuresViews ==
    ASSUME ViewInv, ~Aging, NEW h \in Requests, ResetFailures(h)
    PROVE  ViewInv'
<1>1. Hands'
  BY DEF ViewInv, IInv, TypeOK, Hands, ResetFailures, Goto, tokenVars,
     clientVars, limitVars, viewVars
<1>2. Accounted'
  BY DEF ViewInv, IInv, TypeOK, Hands, Accounted, ResetFailures, Goto,
     tokenVars, clientVars, limitVars, viewVars
<1>3. StaleViewsOwed'
  BY DEF ViewInv, IInv, TypeOK, Hands, Accounted, StaleViewsOwed, Claims,
     ResetFailures, Goto, tokenVars, clientVars, limitVars, viewVars
<1> QED BY <1>1, <1>2, <1>3, ResetFailuresIInv DEF ViewInv

LEMMA ChangePasswordViews ==
    ASSUME ViewInv, ~Aging, NEW h \in Requests, ChangePassword(h)
    PROVE  ViewInv'
<1>1. Hands'
  BY DEF ViewInv, IInv, TypeOK, Hands, ChangePassword, Begin, Goto,
     RoomToBump, tokenVars, clientVars, limitVars, viewVars
<1>2. Accounted'
  BY DEF ViewInv, IInv, TypeOK, Hands, Accounted, ChangePassword, Begin,
     Goto, RoomToBump, tokenVars, clientVars, limitVars, viewVars
<1>3. StaleViewsOwed'
  BY DEF ViewInv, IInv, TypeOK, Hands, Accounted, StaleViewsOwed, Claims,
     ChangePassword, Begin, Goto, RoomToBump, tokenVars, clientVars,
     limitVars, viewVars
<1> QED BY <1>1, <1>2, <1>3, ChangePasswordIInv DEF ViewInv

LEMMA RevokeAllViews ==
    ASSUME ViewInv, ~Aging, NEW h \in Requests, RevokeAll(h)
    PROVE  ViewInv'
<1>1. Hands'
  BY DEF ViewInv, IInv, TypeOK, Hands, RevokeAll, Goto, tokenVars,
     clientVars, limitVars, viewVars
<1>2. Accounted'
  BY DEF ViewInv, IInv, TypeOK, Hands, Accounted, RevokeAll, Goto, tokenVars,
     clientVars, limitVars, viewVars
<1>3. StaleViewsOwed'
  BY DEF ViewInv, IInv, TypeOK, Hands, Accounted, StaleViewsOwed, Claims,
     RevokeAll, Goto, tokenVars, clientVars, limitVars, viewVars
<1> QED BY <1>1, <1>2, <1>3, RevokeAllIInv DEF ViewInv

LEMMA LogoutViews ==
    ASSUME ViewInv, ~Aging, NEW h \in Requests, NEW t \in knownT \cup {0},
           NEW e \in {0, access}, Logout(h, t, e)
    PROVE  ViewInv'
<1>1. Hands'
  BY DEF ViewInv, IInv, TypeOK, Hands, Logout, RevokeToken, Begin, Goto,
     RoomToBump, tokenVars, clientVars, limitVars, viewVars
<1>2. Accounted'
  BY DEF ViewInv, IInv, TypeOK, Hands, Accounted, Logout, RevokeToken, Begin,
     Goto, RoomToBump, tokenVars, clientVars, limitVars, viewVars
<1>3. StaleViewsOwed'
  BY DEF ViewInv, IInv, TypeOK, Hands, Accounted, StaleViewsOwed, Claims,
     Logout, RevokeToken, Begin, Goto, RoomToBump, tokenVars, clientVars,
     limitVars, viewVars
<1> QED BY <1>1, <1>2, <1>3, LogoutIInv DEF ViewInv

LEMMA BumpViews ==
    ASSUME ViewInv, ~Aging, NEW h \in Requests, Bump(h)
    PROVE  ViewInv'
<1>1. Hands'
  BY DEF ViewInv, IInv, TypeOK, Hands, Bump, Goto, tokenVars, clientVars,
     limitVars, viewVars
<1>2. Accounted'
  BY DEF ViewInv, IInv, TypeOK, Hands, Accounted, Bump, Goto, tokenVars,
     clientVars, limitVars, viewVars
<1>3. StaleViewsOwed'
  BY DEF ViewInv, IInv, TypeOK, Hands, Accounted, StaleViewsOwed, Claims,
     Bump, Goto, tokenVars, clientVars, limitVars, viewVars
<1> QED BY <1>1, <1>2, <1>3, BumpIInv DEF ViewInv

LEMMA IssueViews ==
    ASSUME ViewInv, ~Aging, NEW h \in Requests, Issue(h)
    PROVE  ViewInv'
<1>1. Hands'
  BY DEF ViewInv, IInv, TypeOK, Hands, Issue, IssueToken, CreateToken, Goto,
     tokenVars, clientVars, limitVars, viewVars
<1>2. Accounted'
  BY DEF ViewInv, IInv, TypeOK, Hands, Accounted, Issue, IssueToken,
     CreateToken, Goto, tokenVars, clientVars, limitVars, viewVars
<1>3. StaleViewsOwed'
  BY DEF ViewInv, IInv, TypeOK, Hands, Accounted, StaleViewsOwed, Claims,
     Issue, IssueToken, CreateToken, Goto, tokenVars, clientVars, limitVars,
     viewVars
<1> QED BY <1>1, <1>2, <1>3, IssueIInv DEF ViewInv

LEMMA RotateViews ==
    ASSUME ViewInv, ~Aging, NEW h \in Requests, NEW t \in knownT, Rotate(h, t)
    PROVE  ViewInv'
<1>1. Hands'
  BY DEF ViewInv, IInv, TypeOK, Hands, Rotate, Purge, IssueToken, Begin,
     Goto, RoomToIssue, tokenVars, clientVars, limitVars, viewVars
<1>2. Accounted'
  BY DEF ViewInv, IInv, TypeOK, Hands, Accounted, Rotate, Purge, IssueToken,
     Begin, Goto, RoomToIssue, tokenVars, clientVars, limitVars, viewVars
<1>3. StaleViewsOwed'
  <2> SUFFICES ASSUME NEW w \in open' \ (lost' \cup relayed'),
                      viewEpoch'[w] # epoch'
               PROVE  \E g \in Requests : Owes(g, w)'
    BY OwedViewsNext
  <2>1. /\ w \in open \ (lost \cup relayed) /\ viewEpoch[w] # epoch
        /\ w \in registry => w \in registry'
    BY DEF Rotate, Purge
  <2>2. PICK g \in Requests : Owes(g, w)
    BY <2>1, OwedViews DEF ViewInv
  <2>3. g # h
    BY <2>2 DEF ViewInv, Hands, Owes, Rotate
  <2> QED
    BY <2>1, <2>2, <2>3 DEF ViewInv, IInv, TypeOK, Owes, Rotate, Begin, Goto
<1> QED BY <1>1, <1>2, <1>3, RotateIInv DEF ViewInv

LEMMA MintViews ==
    ASSUME ViewInv, ~Aging, NEW h \in Requests, Mint(h)
    PROVE  ViewInv'
<1>1. Hands'
  BY DEF ViewInv, IInv, TypeOK, Hands, Mint, CreateToken, Goto, tokenVars,
     clientVars, limitVars, viewVars
<1>2. Accounted'
  BY DEF ViewInv, IInv, TypeOK, Hands, Accounted, Mint, CreateToken, Goto,
     tokenVars, clientVars, limitVars, viewVars
<1>3. StaleViewsOwed'
  BY DEF ViewInv, IInv, TypeOK, Hands, Accounted, StaleViewsOwed, Claims,
     Mint, CreateToken, Goto, tokenVars, clientVars, limitVars, viewVars
<1> QED BY <1>1, <1>2, <1>3, MintIInv DEF ViewInv

LEMMA TokenExpiresViews ==
    ASSUME ViewInv, ~Aging, NEW t \in active, TokenExpires(t)
    PROVE  ViewInv'
<1>1. Hands'
  BY DEF ViewInv, IInv, TypeOK, Hands, TokenExpires, tokenVars, clientVars,
     limitVars, viewVars
<1>2. Accounted'
  BY DEF ViewInv, IInv, TypeOK, Hands, Accounted, TokenExpires, tokenVars,
     clientVars, limitVars, viewVars
<1>3. StaleViewsOwed'
  BY DEF ViewInv, IInv, TypeOK, Hands, Accounted, StaleViewsOwed, Claims,
     TokenExpires, tokenVars, clientVars, limitVars, viewVars
<1> QED BY <1>1, <1>2, <1>3, TokenExpiresIInv DEF ViewInv

LEMMA SweepViews ==
    ASSUME ViewInv, ~Aging, NEW h \in Requests, Sweep(h)
    PROVE  ViewInv'
<1>1. Hands'
  BY DEF ViewInv, IInv, TypeOK, Hands, Sweep, Goto, tokenVars, clientVars,
     limitVars, viewVars
<1>2. Accounted'
  BY DEF ViewInv, IInv, TypeOK, Hands, Accounted, Sweep, Goto, tokenVars,
     clientVars, limitVars, viewVars
<1>3. StaleViewsOwed'
  BY DEF ViewInv, IInv, TypeOK, Hands, Accounted, StaleViewsOwed, Claims,
     Sweep, Goto, tokenVars, clientVars, limitVars, viewVars
<1> QED BY <1>1, <1>2, <1>3, SweepIInv DEF ViewInv

LEMMA CloseViewViews ==
    ASSUME ViewInv, ~Aging, NEW h \in Requests, NEW v \in Views,
           NEW ok \in BOOLEAN, CloseView(h, v, ok)
    PROVE  ViewInv'
<1>1. Hands'
  BY DEF ViewInv, IInv, TypeOK, Hands, CloseView, tokenVars, clientVars,
     limitVars, viewVars
<1>2. Accounted'
  BY DEF ViewInv, IInv, TypeOK, Hands, Accounted, CloseView, tokenVars,
     clientVars, limitVars, viewVars
<1>3. StaleViewsOwed'
  BY DEF ViewInv, IInv, TypeOK, Hands, Accounted, StaleViewsOwed, Claims,
     CloseView, tokenVars, clientVars, limitVars, viewVars
<1> QED BY <1>1, <1>2, <1>3, CloseViewIInv DEF ViewInv

LEMMA RespondViews ==
    ASSUME ViewInv, ~Aging, NEW h \in Requests, Respond(h)
    PROVE  ViewInv'
<1>1. Hands'
  BY DEF ViewInv, IInv, TypeOK, Hands, Respond, Finish, Goto, tokenVars,
     clientVars, limitVars, viewVars
<1>2. Accounted'
  BY DEF ViewInv, IInv, TypeOK, Hands, Accounted, Respond, Finish, Goto,
     tokenVars, clientVars, limitVars, viewVars
<1>3. StaleViewsOwed'
  BY DEF ViewInv, IInv, TypeOK, Hands, Accounted, StaleViewsOwed, Claims,
     Respond, Finish, Goto, tokenVars, clientVars, limitVars, viewVars
<1> QED BY <1>1, <1>2, <1>3, RespondIInv DEF ViewInv

LEMMA WhepOpenViews ==
    ASSUME ViewInv, ~Aging, NEW h \in Requests, WhepOpen(h)
    PROVE  ViewInv'
<1>1. Hands'
  <2>1. access # 0 /\ num' = [num EXCEPT ![h] = access] /\ todo' = todo
    BY DEF WhepOpen, RequireAuth, VerifyToken
  <2>2. viewEpoch' = viewEpoch /\ pc' = [pc EXCEPT ![h] = "relay"] /\ pc[h] = "idle"
    BY DEF WhepOpen, Begin, Goto, viewVars
  <2> QED
    BY <2>1, <2>2 DEF ViewInv, IInv, TypeOK, Hands
<1>2. Accounted'
  BY DEF ViewInv, IInv, TypeOK, Hands, Accounted, WhepOpen, Begin, Goto,
     tokenVars, clientVars, limitVars, viewVars
<1>3. StaleViewsOwed'
  BY DEF ViewInv, IInv, TypeOK, Hands, Accounted, StaleViewsOwed, Claims,
     WhepOpen, Begin, Goto, tokenVars, clientVars, limitVars, viewVars
<1> QED BY <1>1, <1>2, <1>3, WhepOpenIInv DEF ViewInv

LEMMA WhepRefusedViews ==
    ASSUME ViewInv, ~Aging, NEW h \in Requests, WhepRefused(h)
    PROVE  ViewInv'
<1>1. Hands'
  BY DEF ViewInv, IInv, TypeOK, Hands, WhepRefused, Finish, Goto, tokenVars,
     clientVars, limitVars, viewVars
<1>2. Accounted'
  BY DEF ViewInv, IInv, TypeOK, Hands, Accounted, WhepRefused, Finish, Goto,
     tokenVars, clientVars, limitVars, viewVars
<1>3. StaleViewsOwed'
  BY DEF ViewInv, IInv, TypeOK, Hands, Accounted, StaleViewsOwed, Claims,
     WhepRefused, Finish, Goto, tokenVars, clientVars, limitVars, viewVars
<1> QED BY <1>1, <1>2, <1>3, WhepRefusedIInv DEF ViewInv

LEMMA WhepCreatedViews ==
    ASSUME ViewInv, ~Aging, NEW h \in Requests, NEW v \in Views,
           WhepCreated(h, v)
    PROVE  ViewInv'
<1>1. Hands'
  <2>1. \A g \in Requests : pc[g] = "register" => v \notin todo[g]
    BY DEF ViewInv, Hands, WhepCreated
  <2> QED
    BY <2>1 DEF ViewInv, IInv, TypeOK, Hands, WhepCreated, Goto
<1>2. Accounted'
  <2> SUFFICES ASSUME NEW w \in open' \ (lost' \cup relayed')
               PROVE  w \in registry' \/ \E g \in Requests : w \in todo'[g]
    BY DEF Accounted
  <2>1. CASE w = v
    BY <2>1 DEF ViewInv, IInv, TypeOK, WhepCreated
  <2>2. CASE w # v
    <3>1. w \in registry \/ \E g \in Requests : w \in todo[g]
      BY <2>2 DEF ViewInv, Accounted, WhepCreated
    <3>2. registry' = registry /\ todo[h] = {} /\ todo' = [todo EXCEPT ![h] = {v}]
      BY DEF ViewInv, Hands, WhepCreated
    <3> QED
      BY <3>1, <3>2 DEF ViewInv, IInv, TypeOK
  <2> QED BY <2>1, <2>2
<1>3. StaleViewsOwed'
  <2> SUFFICES ASSUME NEW w \in open' \ (lost' \cup relayed'),
                      viewEpoch'[w] # epoch'
               PROVE  \E g \in Requests : Owes(g, w)'
    BY OwedViewsNext
  <2>1. CASE w = v
    BY <2>1 DEF ViewInv, IInv, TypeOK, Owes, WhepCreated
  <2>2. CASE w # v
    <3>1. w \in open \ (lost \cup relayed) /\ viewEpoch[w] # epoch
      BY <2>2 DEF ViewInv, IInv, TypeOK, WhepCreated, tokenVars
    <3>2. PICK g \in Requests : Owes(g, w)
      BY <3>1, OwedViews DEF ViewInv
    <3>3. g # h
      BY <3>2 DEF ViewInv, Hands, Owes, WhepCreated
    <3> QED
      BY <3>2, <3>3 DEF ViewInv, IInv, TypeOK, Owes, WhepCreated, Goto,
         tokenVars
  <2> QED BY <2>1, <2>2
<1> QED BY <1>1, <1>2, <1>3, WhepCreatedIInv DEF ViewInv

LEMMA RegisterViews ==
    ASSUME ViewInv, ~Aging, NEW h \in Requests, Register(h)
    PROVE  ViewInv'
<1>1. Hands'
  BY DEF ViewInv, IInv, TypeOK, Hands, Register, Goto, tokenVars, clientVars,
     limitVars, viewVars
<1>2. Accounted'
  BY DEF ViewInv, IInv, TypeOK, Hands, Accounted, Register, Goto, tokenVars,
     clientVars, limitVars, viewVars
<1>3. StaleViewsOwed'
  <2> SUFFICES ASSUME NEW w \in open' \ (lost' \cup relayed'),
                      viewEpoch'[w] # epoch'
               PROVE  \E g \in Requests : Owes(g, w)'
    BY OwedViewsNext
  <2>1. /\ w \in open \ (lost \cup relayed) /\ viewEpoch[w] # epoch
        /\ epoch' = epoch /\ num' = num /\ registry' = registry \cup todo[h]
    BY DEF Register, tokenVars
  <2>2. PICK g \in Requests : Owes(g, w)
    BY <2>1, OwedViews DEF ViewInv
  <2>3. CASE g = h
    <3>1. w \in todo[h] /\ num[h] = viewEpoch[w]
      BY <2>2, <2>3 DEF ViewInv, Hands, Owes, Register
    <3> QED
      BY <2>1, <3>1 DEF ViewInv, IInv, TypeOK, Owes, Register, Goto
  <2>4. CASE g # h
    BY <2>1, <2>2, <2>4 DEF ViewInv, IInv, TypeOK, Owes, Register, Goto
  <2> QED BY <2>3, <2>4
<1> QED BY <1>1, <1>2, <1>3, RegisterIInv DEF ViewInv

LEMMA RecheckViews ==
    ASSUME ViewInv, ~Aging, NEW h \in Requests, Recheck(h)
    PROVE  ViewInv'
<1>1. Hands'
  BY DEF ViewInv, IInv, TypeOK, Hands, Recheck, Finish, Goto, tokenVars,
     clientVars, limitVars, viewVars
<1>2. Accounted'
  BY DEF ViewInv, IInv, TypeOK, Hands, Accounted, Recheck, Finish, Goto,
     tokenVars, clientVars, limitVars, viewVars
<1>3. StaleViewsOwed'
  <2> SUFFICES ASSUME NEW w \in open' \ (lost' \cup relayed'),
                      viewEpoch'[w] # epoch'
               PROVE  \E g \in Requests : Owes(g, w)'
    BY OwedViewsNext
  <2>1. /\ w \in open \ (lost \cup relayed) /\ viewEpoch[w] # epoch
        /\ epoch' = epoch /\ registry' = registry
    BY DEF Recheck, tokenVars, viewVars
  <2>2. PICK g \in Requests : Owes(g, w)
    BY <2>1, OwedViews DEF ViewInv
  <2>3. CASE g = h
    <3>1. w \in registry /\ epoch # num[h]
      BY <2>2, <2>3 DEF ViewInv, Hands, Owes, Recheck
    <3>2. pc'[h] = "sweep"
      BY <3>1 DEF ViewInv, IInv, TypeOK, Recheck, Goto
    <3> QED BY <2>1, <3>1, <3>2 DEF Owes
  <2>4. CASE g # h
    <3>1. todo'[g] = todo[g] /\ pc'[g] = pc[g] /\ num'[g] = num[g]
      <4>1. CASE epoch # num[h]
        BY <2>4, <4>1 DEF ViewInv, IInv, TypeOK, Recheck, Goto
      <4>2. CASE epoch = num[h]
        BY <2>4, <4>2 DEF ViewInv, IInv, TypeOK, Recheck, Finish, Goto
      <4> QED BY <4>1, <4>2
    <3> QED BY <2>1, <2>2, <3>1 DEF Owes
  <2> QED BY <2>3, <2>4
<1> QED BY <1>1, <1>2, <1>3, RecheckIInv DEF ViewInv

LEMMA WhepCloseViews ==
    ASSUME ViewInv, ~Aging, NEW h \in Requests, NEW v \in Views, WhepClose(h,
           v)
    PROVE  ViewInv'
<1>1. Hands'
  BY DEF ViewInv, IInv, TypeOK, Hands, WhepClose, Begin, Goto, tokenVars,
     clientVars, limitVars, viewVars
<1>2. Accounted'
  BY DEF ViewInv, IInv, TypeOK, Hands, Accounted, WhepClose, Begin, Goto,
     tokenVars, clientVars, limitVars, viewVars
<1>3. StaleViewsOwed'
  <2> SUFFICES ASSUME NEW w \in open' \ (lost' \cup relayed'),
                      viewEpoch'[w] # epoch'
               PROVE  \E g \in Requests : Owes(g, w)'
    BY OwedViewsNext
  <2>1. CASE w = v
    BY <2>1 DEF ViewInv, IInv, TypeOK, Owes, WhepClose
  <2>2. CASE w # v
    <3>1. w \in open \ (lost \cup relayed) /\ viewEpoch[w] # epoch
      BY DEF WhepClose, tokenVars
    <3>2. PICK g \in Requests : Owes(g, w)
      BY <3>1, OwedViews DEF ViewInv
    <3>3. g # h
      BY <3>2 DEF ViewInv, Hands, Owes, WhepClose
    <3> QED
      BY <2>2, <3>2, <3>3 DEF ViewInv, IInv, TypeOK, Owes, WhepClose, Begin,
                              Goto, tokenVars
  <2> QED BY <2>1, <2>2
<1> QED BY <1>1, <1>2, <1>3, WhepCloseIInv DEF ViewInv

LEMMA StreamOpenViews ==
    ASSUME ViewInv, ~Aging, NEW v \in Views, StreamOpen(v)
    PROVE  ViewInv'
<1>1. Hands'
  <2>1. \A g \in Requests : pc[g] = "register" => v \notin todo[g]
    BY DEF ViewInv, Hands, StreamOpen
  <2> QED
    BY <2>1 DEF ViewInv, IInv, TypeOK, Hands, StreamOpen
<1>2. Accounted'
  BY DEF ViewInv, IInv, TypeOK, Hands, Accounted, StreamOpen, tokenVars,
     clientVars, limitVars, viewVars
<1>3. StaleViewsOwed'
  BY DEF ViewInv, IInv, TypeOK, Hands, Accounted, StaleViewsOwed, Claims,
     StreamOpen, tokenVars, clientVars, limitVars, viewVars
<1> QED BY <1>1, <1>2, <1>3, StreamOpenIInv DEF ViewInv

LEMMA StreamGuardViews ==
    ASSUME ViewInv, ~Aging, NEW v \in Views, StreamGuard(v)
    PROVE  ViewInv'
<1>1. Hands'
  BY DEF ViewInv, IInv, TypeOK, Hands, StreamGuard, tokenVars, clientVars,
     limitVars, viewVars
<1>2. Accounted'
  BY DEF ViewInv, IInv, TypeOK, Hands, Accounted, StreamGuard, tokenVars,
     clientVars, limitVars, viewVars
<1>3. StaleViewsOwed'
  BY DEF ViewInv, IInv, TypeOK, Hands, Accounted, StaleViewsOwed, Claims,
     StreamGuard, tokenVars, clientVars, limitVars, viewVars
<1> QED BY <1>1, <1>2, <1>3, StreamGuardIInv DEF ViewInv

LEMMA IceTimeoutViews ==
    ASSUME ViewInv, ~Aging, NEW v \in Views, IceTimeout(v)
    PROVE  ViewInv'
<1>1. Hands'
  BY DEF ViewInv, IInv, TypeOK, Hands, IceTimeout, tokenVars, clientVars,
     limitVars, viewVars
<1>2. Accounted'
  BY DEF ViewInv, IInv, TypeOK, Hands, Accounted, IceTimeout, tokenVars,
     clientVars, limitVars, viewVars
<1>3. StaleViewsOwed'
  BY DEF ViewInv, IInv, TypeOK, Hands, Accounted, StaleViewsOwed, Claims,
     IceTimeout, tokenVars, clientVars, limitVars, viewVars
<1> QED BY <1>1, <1>2, <1>3, IceTimeoutIInv DEF ViewInv

LEMMA RestartViews ==
    ASSUME ViewInv, ~Aging, Restart
    PROVE  ViewInv'
<1>1. Hands'
  BY DEF ViewInv, IInv, TypeOK, Hands, Restart, tokenVars, clientVars,
     limitVars, viewVars
<1>2. Accounted'
  BY DEF ViewInv, IInv, TypeOK, Hands, Accounted, Restart, tokenVars,
     clientVars, limitVars, viewVars
<1>3. StaleViewsOwed'
  BY DEF ViewInv, IInv, TypeOK, Hands, Accounted, StaleViewsOwed, Claims,
     Restart, tokenVars, clientVars, limitVars, viewVars
<1> QED BY <1>1, <1>2, <1>3, RestartIInv DEF ViewInv
-----------------------------------------------------------------------------
LEMMA InitIInv == Init => IInv
<1> SUFFICES ASSUME Init PROVE IInv
  OBVIOUS
<1>1. Bumping = {} /\ Issuing = {} /\ Cardinality({}) = 0
  BY FS_EmptySet DEF Init, Bumping, Issuing
<1>2. Room
  BY <1>1, SessionAssumption DEF Init, Room
<1>3. TypeOK
  <2>1. tok \in [Requests -> 0..MaxTokens] /\ restarts \in 0..MaxRestarts
    BY SessionAssumption DEF Init
  <2>2. epoch \in 0..MaxEpoch /\ logins \in 0..MaxEpoch /\ access \in 0..MaxEpoch
    BY SessionAssumption DEF Init
  <2>3. failed \in 0..(Threshold - 1)
    BY SessionAssumption DEF Init
  <2>4. viewEpoch \in [Views -> 0..MaxEpoch]
    BY SessionAssumption DEF Init
  <2>5. owner \in Seq(Nat) /\ Len(owner) <= MaxTokens
    BY SessionAssumption DEF Init
  <2> QED
    BY <2>1, <2>2, <2>3, <2>4, <2>5 DEF Init, TypeOK, Stages, Kinds
<1>4. Locks /\ Claims
  BY SessionAssumption DEF Init, Locks, Claims
<1>5. Latest /\ Given
  BY DEF Init, Latest, Given
<1> QED BY <1>2, <1>3, <1>4, <1>5 DEF IInv

LEMMA StutterIInv ==
    ASSUME IInv, UNCHANGED vars
    PROVE  IInv'
<1>1. TypeOK' /\ Locks' /\ Claims'
  BY DEF IInv, TypeOK, Locks, Claims, vars, tokenVars, clientVars, limitVars,
         viewVars
<1>2. Room' /\ Latest' /\ Given'
  BY DEF IInv, Room, Bumping, Issuing, Latest, Given, vars, tokenVars,
         clientVars, limitVars, viewVars
<1> QED BY <1>1, <1>2 DEF IInv

LEMMA NextIInv == IInv /\ [Next]_vars => IInv'
<1> SUFFICES ASSUME IInv, [Next]_vars PROVE IInv'
  OBVIOUS
<1>1. CASE \E h \in Requests : Step(h)
  BY <1>1, ReadFailuresIInv, RecordFailureIInv, ResetFailuresIInv,
     RevokeAllIInv, BumpIInv, IssueIInv, MintIInv, SweepIInv, CloseViewIInv,
     RespondIInv, WhepRefusedIInv, WhepCreatedIInv, RegisterIInv, RecheckIInv
     DEF Step
<1>2. CASE \E h \in Requests : Arrive(h)
  BY <1>2, LoginIInv, ChangePasswordIInv, WhepOpenIInv, WhepCloseIInv,
     RotateIInv, LogoutIInv DEF Arrive
<1>3. CASE Environment
  BY <1>3, LockoutEndsIInv, TokenExpiresIInv, StreamOpenIInv, StreamGuardIInv,
     IceTimeoutIInv, RestartIInv DEF Environment
<1>4. CASE UNCHANGED vars
  BY <1>4, StutterIInv
<1> QED BY <1>1, <1>2, <1>3, <1>4 DEF Next

LEMMA SpecIInv == Spec => []IInv
BY InitIInv, NextIInv, PTL DEF Spec

(***************************************************************************)
(* Every behaviour of the router is well-typed; in particular the failure  *)
(* counter of the account stays below the lockout threshold, although      *)
(* _record_failure reads and writes it in two statements.                  *)
(***************************************************************************)
THEOREM TypeCorrect == Spec => []TypeOK
<1>1. IInv => TypeOK
  BY DEF IInv
<1> QED BY <1>1, SpecIInv, PTL

-----------------------------------------------------------------------------
(* Only the latest login's credentials are accepted. *)
LEMMA CurrentIsLatest ==
    ASSUME IInv
    PROVE  /\ Current \subseteq {logins}
           /\ logins \in Current => logins # 0
<1>1. \A t \in active : owner[t] = logins /\ owner[t] \in 1..logins
  BY DEF IInv, TypeOK, Latest
<1>2. \A s \in 1..logins : <<epoch, s>> \in minted => s = logins
  BY DEF IInv, Latest
<1> QED BY <1>1, <1>2 DEF Current, IInv, TypeOK

(* A step that neither mints for the account's epoch nor activates a token
   makes nothing acceptable. *)
LEMMA CurrentShrinks ==
    ASSUME IInv, owner' = owner, active' \subseteq active, epoch' = epoch,
           minted' = minted, logins' = logins
    PROVE  logins' \in Current' => logins \in Current
BY DEF IInv, TypeOK, Current

(* Every step but a login's Issue only ends what was accepted. *)
LEMMA OnlyIssueGrants ==
    ASSUME IInv, [Next]_vars, ~\E h \in Requests : Issue(h)
    PROVE  logins' = logins /\ (logins' \in Current' => logins \in Current)
<1>1. CASE \E h \in Requests : Bump(h)
  <2>1. PICK h \in Requests : Bump(h)
    BY <1>1
  <2>2. logins' = logins /\ minted' = minted /\ active' = active /\ owner' = owner
    BY <2>1 DEF Bump
  <2>3. ~ \E m \in minted : m[1] = epoch'
    BY <2>1 DEF IInv, TypeOK, Latest, Bump
  <2> QED
    BY <2>2, <2>3 DEF Current
<1>2. CASE \E h \in Requests : Mint(h)
  <2>1. PICK h \in Requests : Mint(h)
    BY <1>2
  <2>2. logins' = logins /\ owner[tok[h]] = logins /\ tok[h] \in active
    BY <2>1 DEF Mint, IInv, TypeOK, Latest
  <2> QED
    BY <2>2 DEF Current
<1>3. CASE \E h \in Requests, t \in knownT : Rotate(h, t)
  <2>1. PICK h \in Requests, t \in knownT : Rotate(h, t)
    BY <1>3
  <2>2. logins' = logins /\ epoch' = epoch /\ minted' = minted
    BY <2>1 DEF Rotate
  <2>3. CASE t \in active
    BY <2>2, <2>3 DEF Current, IInv, TypeOK, Latest
  <2>4. CASE t \notin active
    BY <2>1, <2>2, <2>4, CurrentShrinks DEF Rotate
  <2> QED
    BY <2>3, <2>4
<1>4. CASE UNCHANGED tokenVars
  BY <1>4, CurrentShrinks DEF tokenVars
<1>5. CASE \E h \in Requests : \/ RevokeAll(h)
                               \/ \E t \in knownT \cup {0}, e \in {0, access} :
                                    Logout(h, t, e)
  BY <1>5, CurrentShrinks DEF RevokeAll, Logout, RevokeToken
<1>6. CASE \E t \in active : TokenExpires(t)
  BY <1>6, CurrentShrinks DEF TokenExpires
<1>7. \/ \E h \in Requests : Bump(h) \/ Mint(h) \/ RevokeAll(h)
      \/ \E h \in Requests : \/ \E t \in knownT : Rotate(h, t)
                             \/ \E t \in knownT \cup {0}, e \in {0, access} :
                                  Logout(h, t, e)
      \/ \E t \in active : TokenExpires(t)
      \/ UNCHANGED tokenVars
  <2>1. ASSUME NEW h \in Requests, Step(h)
        PROVE  Bump(h) \/ Mint(h) \/ RevokeAll(h) \/ UNCHANGED tokenVars
    <3>1. CASE \E v \in Views, ok \in BOOLEAN : CloseView(h, v, ok)
      BY <3>1 DEF CloseView
    <3>2. CASE \E v \in Views : WhepCreated(h, v)
      BY <3>2 DEF WhepCreated
    <3> QED
      BY <2>1, <3>1, <3>2 DEF Step, ReadFailures, RecordFailure, ResetFailures,
         Sweep, Respond, WhepRefused, Register, Recheck
  <2>2. ASSUME NEW h \in Requests, Arrive(h)
        PROVE  \/ \E t \in knownT : Rotate(h, t)
               \/ \E t \in knownT \cup {0}, e \in {0, access} : Logout(h, t, e)
               \/ UNCHANGED tokenVars
    BY <2>2 DEF Arrive, Login, ChangePassword, WhepOpen, WhepClose
  <2>3. ASSUME Environment
        PROVE  (\E t \in active : TokenExpires(t)) \/ UNCHANGED tokenVars
    BY <2>3 DEF Environment, LockoutEnds, StreamOpen, StreamGuard, IceTimeout,
       Restart
  <2>4. ASSUME UNCHANGED vars PROVE UNCHANGED tokenVars
    BY <2>4 DEF vars
  <2> QED BY <2>1, <2>2, <2>3, <2>4 DEF Next
<1> QED BY <1>1, <1>2, <1>3, <1>4, <1>5, <1>6, <1>7

(* A login's Issue takes over. *)
LEMMA IssueTakesOver ==
    ASSUME IInv, IInv', NEW h \in Requests, Issue(h)
    PROVE  logins' = logins + 1 /\ Current' = {logins'}
<1>1. logins' = logins + 1 /\ epoch' = epoch /\ <<epoch, logins + 1>> \in minted'
  BY DEF Issue, CreateToken
<1>2. logins' \in Current'
  BY <1>1 DEF Current, IInv, TypeOK
<1>3. Current' \subseteq {logins'}
  <2>1. \A t \in active' : owner'[t] = logins'
    BY DEF IInv, Latest
  <2>2. \A s \in 1..logins' : <<epoch', s>> \in minted' => s = logins'
    BY DEF IInv, Latest
  <2> QED BY <2>1, <2>2 DEF Current
<1> QED BY <1>1, <1>2, <1>3

(***************************************************************************)
(* The router implements SingleSession: with logins, rotations, logouts    *)
(* and password changes interleaved in any number of requests, at most one *)
(* login's credentials are accepted and a replaced or ended login never    *)
(* becomes acceptable again.                                               *)
(***************************************************************************)
THEOREM SessionRefinement == Spec => OneLogin
<1>1. Init => Account!Init
  BY DEF Init, Account!Init, Current
<1>2. ASSUME IInv, IInv', [Next]_vars
      PROVE  [Account!Next]_<<Current, logins>>
  <2>1. CASE \E h \in Requests : Issue(h)
    BY <2>1, <1>2, IssueTakesOver DEF Account!Next, Account!TakeOver
  <2>2. CASE ~\E h \in Requests : Issue(h)
    <3>1. logins' = logins /\ (logins' \in Current' => logins \in Current)
      BY <2>2, <1>2, OnlyIssueGrants
    <3>2. /\ Current \subseteq {logins} /\ Current' \subseteq {logins'}
      <4>1. Current \subseteq {logins}
        BY <1>2, CurrentIsLatest
      <4>2. Current' \subseteq {logins'}
        <5>1. \A t \in active' : owner'[t] = logins'
          BY <1>2 DEF IInv, Latest
        <5>2. \A s \in 1..logins' : <<epoch', s>> \in minted' => s = logins'
          BY <1>2 DEF IInv, Latest
        <5> QED BY <5>1, <5>2 DEF Current
      <4> QED BY <4>1, <4>2
    <3> QED
      BY <3>1, <3>2 DEF Account!Next, Account!End
  <2> QED BY <2>1, <2>2
<1> QED BY <1>1, <1>2, SpecIInv, PTL DEF Spec, OneLogin, Account!Spec

(***************************************************************************)
(* Whoever reaches a logout's bump presented a credential of the login     *)
(* that is current: leftovers of a replaced login cannot end its           *)
(* successor.                                                              *)
(***************************************************************************)
THEOREM LogoutByOwnerHolds == Spec => LogoutByOwner
<1> DEFINE Owned(h) ==
      pc[h] = "idle" /\ pc'[h] = "bump" =>
         \E s \in Current :
            \/ <<num'[h], s>> \in minted
            \/ tok'[h] \in DOMAIN owner /\ owner[tok'[h]] = s
<1>1. ASSUME IInv, [Next]_vars, NEW h \in Requests, pc[h] = "idle",
             pc'[h] = "bump"
      PROVE  \E s \in Current :
                \/ <<num'[h], s>> \in minted
                \/ tok'[h] \in DOMAIN owner /\ owner[tok'[h]] = s
  <2>1. PICK t \in knownT \cup {0}, e \in {0, access} : Logout(h, t, e)
    <3>1. pc' # pc
      BY <1>1
    <3>2. ~UNCHANGED vars /\ ~Environment
      BY <3>1, <1>1 DEF vars, Environment, LockoutEnds, TokenExpires,
         StreamOpen,
         StreamGuard, IceTimeout, Restart
    <3>3. PICK g \in Requests : Step(g) \/ Arrive(g)
      BY <3>2, <1>1 DEF Next
    <3>4. g = h
      <4>1. ASSUME g # h, Step(g)
            PROVE  pc'[h] = pc[h]
        BY <1>1, <4>1 DEF Step, ReadFailures, RecordFailure, ResetFailures,
           RevokeAll, Bump, Issue, Mint, Sweep, CloseView, Respond,
           WhepRefused,
           WhepCreated, Register, Recheck, Finish, Goto, IInv, TypeOK
      <4>2. ASSUME g # h, Arrive(g)
            PROVE  pc'[h] = pc[h]
        BY <1>1, <4>2 DEF Arrive, Login, ChangePassword, WhepOpen, WhepClose,
           Rotate, Logout, Begin, Goto, IInv, TypeOK
      <4> QED BY <3>3, <4>1, <4>2, <1>1
    <3>5. ~Step(h)
      BY <1>1 DEF Step, ReadFailures, RecordFailure, ResetFailures, RevokeAll,
         Bump, Issue, Mint, Sweep, CloseView, Respond, WhepRefused,
         WhepCreated,
         Register, Recheck
    <3>6. \/ \E right, keep \in BOOLEAN : Login(h, right, keep)
          \/ ChangePassword(h) \/ WhepOpen(h)
          \/ \E v \in Views : WhepClose(h, v)
          \/ \E t \in knownT : Rotate(h, t)
          => pc'[h] # "bump"
      BY <1>1 DEF Login, ChangePassword, WhepOpen, WhepClose, Rotate, Begin,
         Goto, IInv, TypeOK
    <3> QED BY <3>3, <3>4, <3>5, <3>6, <1>1 DEF Arrive
  <2>2. num'[h] = e /\ tok'[h] = t
    BY <2>1, <1>1 DEF Logout, IInv, TypeOK
  <2>3. CASE t \in active
    BY <2>2, <2>3, <1>1 DEF IInv, TypeOK, Current
  <2>4. CASE t \notin active
    <3>1. e # 0 /\ e = epoch /\ e = access
      BY <2>1, <2>4 DEF Logout, RequireAuth, VerifyToken
    <3>2. PICK s \in 1..logins : <<access, s>> \in minted
      BY <3>1, <1>1 DEF IInv, Given
    <3>3. s \in Current
      BY <3>1, <3>2 DEF Current
    <3> QED BY <2>2, <3>1, <3>2, <3>3
  <2> QED BY <2>3, <2>4
<1>2. IInv /\ [Next]_vars => [\A h \in Requests : Owned(h)]_vars
  BY <1>1
<1> QED BY <1>2, SpecIInv, PTL DEF Spec, LogoutByOwner
-----------------------------------------------------------------------------
LEMMA InitViews == Init => ViewInv
BY InitIInv DEF Init, ViewInv, Hands, Accounted, StaleViewsOwed

LEMMA StutterViews ==
    ASSUME ViewInv, UNCHANGED vars
    PROVE  ViewInv'
BY StutterIInv DEF ViewInv, Hands, Accounted, StaleViewsOwed, vars, tokenVars,
   viewVars

LEMMA NextViews ==
    ASSUME ~Aging, ViewInv, [Next]_vars
    PROVE  ViewInv'
<1>1. CASE \E h \in Requests : Step(h)
  BY <1>1, ReadFailuresViews, RecordFailureViews, ResetFailuresViews,
     RevokeAllViews, BumpViews, IssueViews, MintViews, SweepViews,
     CloseViewViews, RespondViews, WhepRefusedViews, WhepCreatedViews,
     RegisterViews, RecheckViews DEF Step
<1>2. CASE \E h \in Requests : Arrive(h)
  BY <1>2, LoginViews, ChangePasswordViews, WhepOpenViews, WhepCloseViews,
     RotateViews, LogoutViews DEF Arrive
<1>3. CASE Environment
  BY <1>3, LockoutEndsViews, TokenExpiresViews, StreamOpenViews,
     StreamGuardViews, IceTimeoutViews, RestartViews DEF Environment
<1>4. CASE UNCHANGED vars
  BY <1>4, StutterViews
<1> QED BY <1>1, <1>2, <1>3, <1>4 DEF Next

(***************************************************************************)
(* As long as no live view outlives the day after which purge_expired      *)
(* drops its row, every WHEP view of an older session that no fault left   *)
(* behind has a request about to close it, however a view's setup and the  *)
(* sweeps of any number of other requests interleave.                      *)
(***************************************************************************)
THEOREM StaleViewsAreOwed == ~Aging => (Spec => []StaleViewsOwed)
<1> SUFFICES ASSUME ~Aging
             PROVE  Spec => []StaleViewsOwed
  OBVIOUS
<1>1. ViewInv /\ [Next]_vars => ViewInv'
  BY NextViews
<1>2. ViewInv => StaleViewsOwed
  BY DEF ViewInv
<1> QED BY <1>1, <1>2, InitViews, PTL DEF Spec
=============================================================================
