---------------------------- MODULE SessionsProofs ---------------------------
(***************************************************************************)
(* Proofs about what the owner has open: the unlock sessions of the Vault, *)
(* the picture of a card, the turns with MIKU and its goals, and signing   *)
(* in through the browser runtime.  The parts share no state, and each has *)
(* a specification and an inductive invariant of its own; the last section *)
(* puts them together, with the ranges of SealedRangeProofs.               *)
(***************************************************************************)
EXTENDS MCSessions, SealedRangeProofs, FiniteSetTheorems, TLAPS

(***************************************************************************)
(* The unlock sessions, for any number of tabs and any TTLs.               *)
(***************************************************************************)
\* A request that is not running carries nothing, and what a fresh record was
\* when a running one read it, it still is.
RequestInv == \A t \in Tabs :
    /\ request[t].at = "free" => request[t].epoch = 0 /\ ~request[t].void
    /\ request[t].at = "got" /\ ~request[t].stale => ~_session_expired(t)

\* Signatures come from this epoch or earlier, void ones from an earlier one.
EpochInv ==
    /\ \A t \in Tabs : /\ request[t].epoch <= epoch
                       /\ request[t].void => request[t].epoch < epoch
    /\ \A g \in grants : /\ g.epoch <= epoch
                         /\ g.void => g.epoch < epoch

\* What a reader found past its absolute life still is, or is gone, as long as
\* the tab is not unlocked again.
StaleInv == \A t \in Tabs :
    \/ request[t].at = "got" /\ request[t].stale /\ ~request[t].passed
    \/ worker[t] = "read"
    => ~open(t) \/ _session_expired(t)

IInv == /\ TypeOK
        /\ RequestInv
        /\ EpochInv
        /\ SessionIsFinal
        /\ IdleTabCloses
        /\ StaleInv

\* Updates of a request's fields stay requests.
LEMMA RequestFields ==
  ASSUME NEW r \in Requests, NEW a \in Stages, NEW b \in BOOLEAN,
         NEW e \in 0..MaxEpoch, NEW n \in 0..UrlTTL
  PROVE  /\ [r EXCEPT !.at = a, !.stale = b] \in Requests
         /\ [r EXCEPT !.at = a, !.mints = TRUE, !.epoch = e, !.left = n] \in Requests
         /\ [r EXCEPT !.left = n] \in Requests
  BY DEF Requests

\* The idle request is one.
LEMMA FreeIsRequest == Free \in Requests
  BY TTLAssumption, BoundAssumption DEF Free, Requests, Stages

\* The system starts inside the invariant: every tab locked, nothing minted.
LEMMA InitInductive == Init => IInv
  BY TTLAssumption, BoundAssumption
  DEF Init, IInv, TypeOK, RequestInv, EpochInv, StaleInv, SessionIsFinal,
      IdleTabCloses, Sessions, NoRecord, Requests, Stages, Free, Reads, Grants,
      open, _session_expired

\* An unlock writes a record of age 0, and passes the readers that have found
\* the one before it too old.
LEMMA UnlockInductive ==
  ASSUME IInv, NEW t \in Tabs, unlock_collection(t)
  PROVE  IInv'
<1> USE TTLAssumption, BoundAssumption DEF IInv, unlock_collection, open, _session_expired
<1> DEFINE p == request[t].at = "got" /\ request[t].stale
           q == [request[t] EXCEPT !.passed = p]
<1>0. /\ request' = [request EXCEPT ![t] = q]
      /\ request \in [Tabs -> Requests]
      /\ q \in Requests
      /\ q.at = request[t].at /\ q.stale = request[t].stale /\ q.passed = p
      /\ q.epoch = request[t].epoch /\ q.void = request[t].void
  BY DEF TypeOK, Requests
<1> HIDE DEF q
<1>1. TypeOK'
  BY <1>0 DEF TypeOK, Sessions, Reads
<1>2. RequestInv' /\ EpochInv'
  BY <1>0 DEF RequestInv, EpochInv, TypeOK, Sessions
<1>3. SessionIsFinal' /\ IdleTabCloses'
  BY DEF SessionIsFinal, IdleTabCloses, TypeOK, Sessions
<1>4. StaleInv'
  <2>1. /\ worker'[t] # "read"
        /\ ~(q.at = "got" /\ q.stale /\ ~q.passed)
    BY <1>0 DEF TypeOK, Reads
  <2>2. ASSUME NEW u \in Tabs, u # t
        PROVE  record'[u] = record[u] /\ request'[u] = request[u] /\ worker'[u] = worker[u]
    BY <2>2, <1>0 DEF TypeOK
  <2>3. request'[t] = q
    BY <1>0
  <2> QED
    BY <2>1, <2>2, <2>3, Zenon DEF StaleInv
<1> HIDE DEF IInv, unlock_collection, open, _session_expired
<1> QED
  BY <1>1, <1>2, <1>3, <1>4 DEF IInv

\* A GET moves one request on, and remembers whether the record was stale.
LEMMA GetInductive ==
  ASSUME IInv, NEW t \in Tabs, NEW r \in {Free, request[t]}, Get(t, r),
         UNCHANGED <<record, epoch, grants, worker, locking, idle>>
  PROVE  IInv'
<1> DEFINE q == IF open(t) THEN [r EXCEPT !.at = "got", !.stale = _session_expired(t)]
                ELSE Free
<1>1. request' = [request EXCEPT ![t] = q] /\ request \in [Tabs -> Requests]
  BY DEF Get, IInv, TypeOK
<1>2. /\ r \in Requests
      /\ r.epoch <= epoch
      /\ r.void => r.epoch < epoch
  <2>1. CASE r = Free
    BY <2>1, TTLAssumption, BoundAssumption
    DEF IInv, TypeOK, Free, Requests, Stages
  <2>2. CASE r = request[t]
    BY <2>2, <1>1 DEF IInv, EpochInv
  <2> QED
    BY <2>1, <2>2
<1>3. /\ q \in Requests
      /\ q.epoch <= epoch
      /\ q.void => q.epoch < epoch
      /\ q.at = "free" => q.epoch = 0 /\ ~q.void
      /\ q.at = "got" /\ ~q.stale => ~_session_expired(t)
      /\ q.at = "got" /\ q.stale => _session_expired(t)
  <2>1. CASE open(t)
    <3> DEFINE b == _session_expired(t)
    <3>1. b \in BOOLEAN
      BY DEF _session_expired
    <3>2. q = [r EXCEPT !.at = "got", !.stale = b]
      BY <2>1
    <3> HIDE DEF b, q
    <3>3. q \in Requests
      BY ONLY <3>1, <3>2, <1>2 DEF Requests, Stages
    <3>4. q.at = "got" /\ q.epoch = r.epoch /\ q.void = r.void /\ q.stale = b
      BY <3>2, <1>2 DEF Requests
    <3> QED
      BY <3>1, <3>3, <3>4, <1>2 DEF b
  <2>2. CASE ~open(t)
    BY <2>2, TTLAssumption, BoundAssumption DEF Requests, Stages, Free, IInv, TypeOK
  <2> QED
    BY <2>1, <2>2
<1> HIDE DEF q
<1>4. TypeOK'
  BY <1>1, <1>3 DEF IInv, TypeOK
<1>5. RequestInv'
  BY <1>1, <1>3 DEF IInv, RequestInv, _session_expired
<1>6. EpochInv'
  BY <1>1, <1>3 DEF IInv, EpochInv
<1>7. SessionIsFinal' /\ IdleTabCloses'
  BY DEF IInv, SessionIsFinal, IdleTabCloses, open
<1>8. StaleInv'
  BY <1>1, <1>3 DEF IInv, StaleInv, open, _session_expired
<1> QED
  BY <1>4, <1>5, <1>6, <1>7, <1>8 DEF IInv

\* The read ends: a stale record is dropped, a fresh one is touched.
LEMMA DataKeyReturnsInductive ==
  ASSUME IInv, NEW t \in Tabs, DataKeyReturns(t)
  PROVE  IInv'
<1> DEFINE stale == request[t].stale
           q == IF ~stale /\ request[t].mints THEN [request[t] EXCEPT !.at = "granting"]
                ELSE Free
           s == IF stale THEN NoRecord
                ELSE [record[t] EXCEPT !.ttl = IF open(t) THEN UnlockTTL ELSE 0]
<1>0. /\ record \in [Tabs -> Sessions]
      /\ request \in [Tabs -> Requests]
      /\ request[t] \in Requests
      /\ record[t] \in Sessions
  BY DEF IInv, TypeOK
<1>1. /\ request[t].at = "got"
      /\ request' = [request EXCEPT ![t] = q]
      /\ record' = [record EXCEPT ![t] = s]
      /\ idle' = IF stale THEN idle ELSE [idle EXCEPT ![t] = 0]
      /\ UNCHANGED <<epoch, grants, worker, locking>>
  BY <1>0 DEF DataKeyReturns
<1>2. /\ q \in Requests
      /\ q.at # "got"
      /\ q.epoch <= epoch
      /\ q.void => q.epoch < epoch
      /\ q.at = "free" => q.epoch = 0 /\ ~q.void
  <2>1. CASE q = Free
    BY <2>1, TTLAssumption, BoundAssumption DEF IInv, TypeOK, Free, Requests, Stages
  <2>2. CASE q = [request[t] EXCEPT !.at = "granting"]
    BY <2>2, <1>0 DEF IInv, EpochInv, Requests, Stages
  <2> QED
    BY <2>1, <2>2
<1>3. /\ s \in Sessions
      /\ s.ttl > 0 => open(t) /\ ~stale /\ s.age = record[t].age
  BY <1>0, TTLAssumption DEF Sessions, NoRecord, open
<1> HIDE DEF q, s, stale
<1>4. TypeOK'
  BY <1>1, <1>2, <1>3, TTLAssumption DEF IInv, TypeOK
<1>5. RequestInv'
  BY <1>0, <1>1, <1>2 DEF IInv, RequestInv, _session_expired
<1>6. EpochInv'
  BY <1>0, <1>1, <1>2 DEF IInv, EpochInv
<1>7. SessionIsFinal'
  BY <1>0, <1>1, <1>3, TTLAssumption
  DEF IInv, SessionIsFinal, RequestInv, Sessions, open, _session_expired, stale
<1>8. IdleTabCloses'
  <2>1. CASE stale
    BY <2>1, <1>0, <1>1, <1>3 DEF IInv, IdleTabCloses, TypeOK, Sessions
  <2>2. CASE ~stale
    BY <2>2, <1>0, <1>1, <1>3, TTLAssumption DEF IInv, IdleTabCloses, TypeOK, Sessions
  <2> QED
    BY <2>1, <2>2
<1>9. StaleInv'
  <2> SUFFICES ASSUME NEW u \in Tabs, open(u)',
                      \/ request'[u].at = "got" /\ request'[u].stale /\ ~request'[u].passed
                      \/ worker'[u] = "read"
               PROVE  _session_expired(u)'
    BY DEF StaleInv
  <2>1. CASE u = t
    BY <2>1, <1>0, <1>1, <1>2, <1>3 DEF IInv, StaleInv, open, _session_expired
  <2>2. CASE u # t
    BY <2>2, <1>0, <1>1 DEF IInv, StaleInv, open, _session_expired
  <2> QED
    BY <2>1, <2>2
<1> QED
  BY <1>4, <1>5, <1>6, <1>7, <1>8, <1>9 DEF IInv

\* Signing reads the epoch of now, or 0.
LEMMA SignInductive ==
  ASSUME IInv, NEW t \in Tabs, attach_media_url(t)
  PROVE  IInv'
<1> USE TTLAssumption, BoundAssumption DEF IInv, open, _session_expired
<1>1. PICK e \in {epoch, 0} :
        request' = [request EXCEPT ![t] =
            [Free EXCEPT !.at = "signed", !.mints = TRUE, !.epoch = e, !.left = UrlTTL]]
  BY DEF attach_media_url
<1>2. UNCHANGED <<record, epoch, grants, worker, locking, idle>>
  BY DEF attach_media_url
<1>3. TypeOK'
  <2>1. [Free EXCEPT !.at = "signed", !.mints = TRUE, !.epoch = e, !.left = UrlTTL]
          \in Requests
    <3>1. e \in 0..MaxEpoch /\ UrlTTL \in 0..UrlTTL
      BY DEF TypeOK
    <3> DEFINE a == "signed"
    <3>3. a \in Stages
      BY DEF Stages
    <3> HIDE DEF a
    <3>4. [Free EXCEPT !.at = a, !.mints = TRUE, !.epoch = e, !.left = UrlTTL] \in Requests
      BY ONLY <3>1, <3>3, RequestFields, FreeIsRequest
    <3> QED
      BY <3>4 DEF a
  <2> QED
    BY <1>1, <1>2, <2>1 DEF TypeOK
<1>4. RequestInv' /\ EpochInv'
  BY <1>1, <1>2 DEF RequestInv, EpochInv, TypeOK, Requests, Free
<1>5. SessionIsFinal' /\ IdleTabCloses'
  BY <1>2 DEF SessionIsFinal, IdleTabCloses
<1>6. StaleInv'
  BY <1>1, <1>2 DEF StaleInv, TypeOK, Requests, Free
<1> QED
  BY <1>3, <1>4, <1>5, <1>6

\* A grant inherits the epoch its URL was signed for.
LEMMA GrantInductive ==
  ASSUME IInv, NEW t \in Tabs, store_media_key_grant(t)
  PROVE  IInv'
<1> USE TTLAssumption, BoundAssumption
    DEF IInv, store_media_key_grant, open, _session_expired
<1>1. TypeOK'
  BY DEF TypeOK, Requests, Stages, Free, Grants
<1>2. RequestInv'
  BY DEF RequestInv, TypeOK, Requests, Stages, Free
<1>3. EpochInv'
  BY DEF EpochInv, TypeOK, Requests, Stages, Free, Grants
<1>4. SessionIsFinal' /\ IdleTabCloses'
  BY DEF SessionIsFinal, IdleTabCloses
<1>5. StaleInv'
  BY DEF StaleInv, TypeOK, Requests, Stages, Free
<1> QED
  BY <1>1, <1>2, <1>3, <1>4, <1>5

\* A record may always be dropped: by /lock, or by a worker that found it old.
LEMMA DropInductive ==
  ASSUME IInv, NEW t \in Tabs, lock_collection(t) \/ WorkerDeletes(t)
  PROVE  IInv'
<1> USE TTLAssumption, BoundAssumption
    DEF IInv, lock_collection, WorkerDeletes, open, _session_expired
<1>1. TypeOK'
  <2>1. NoRecord \in Sessions
    BY DEF NoRecord, Sessions
  <2> QED
    BY <2>1 DEF TypeOK, Reads
<1>2. RequestInv' /\ EpochInv'
  BY DEF RequestInv, EpochInv, TypeOK, Sessions, NoRecord
<1>3. SessionIsFinal' /\ IdleTabCloses'
  BY DEF SessionIsFinal, IdleTabCloses, TypeOK, Sessions, NoRecord
<1>4. StaleInv'
  BY DEF StaleInv, TypeOK, Sessions, NoRecord
<1> QED
  BY <1>1, <1>2, <1>3, <1>4

\* The bump leaves every signature so far one epoch behind.
LEMMA BumpInductive ==
  ASSUME IInv, NEW t \in Tabs, bump_media_epoch(t)
  PROVE  IInv'
<1> USE TTLAssumption, BoundAssumption
    DEF IInv, bump_media_epoch, open, _session_expired
<1>1. TypeOK'
  <2>1. grants' \subseteq Grants
    BY DEF TypeOK, Grants
  <2>2. request' \in [Tabs -> Requests]
    BY DEF TypeOK, Requests
  <2>3. epoch' \in 0..MaxEpoch
    BY DEF TypeOK
  <2> QED
    BY <2>1, <2>2, <2>3 DEF TypeOK
<1>2. RequestInv'
  BY DEF RequestInv, TypeOK, Requests, Stages
<1>3. EpochInv'
  BY DEF EpochInv, TypeOK, Requests, Stages, Grants
<1>4. SessionIsFinal' /\ IdleTabCloses'
  BY DEF SessionIsFinal, IdleTabCloses
<1>5. StaleInv'
  BY DEF StaleInv, TypeOK, Requests, Stages
<1> QED
  BY <1>1, <1>2, <1>3, <1>4, <1>5

\* A worker only looks at a record it will delete.
LEMMA WorkerReadsInductive ==
  ASSUME IInv, NEW t \in Tabs, data_key_for_id_sync(t)
  PROVE  IInv'
  BY TTLAssumption, BoundAssumption
  DEF IInv, data_key_for_id_sync, open, _session_expired, TypeOK, Reads, RequestInv,
      EpochInv, SessionIsFinal, IdleTabCloses, StaleInv

\* A restart empties Redis while no request is under way.
LEMMA RestartInductive ==
  ASSUME IInv, Restart
  PROVE  IInv'
<1> USE TTLAssumption, BoundAssumption DEF IInv, Restart, open, _session_expired
<1>1. TypeOK'
  BY DEF TypeOK, Sessions, NoRecord, Grants
<1>2. RequestInv' /\ EpochInv'
  BY DEF RequestInv, EpochInv, TypeOK, Sessions, NoRecord
<1>3. SessionIsFinal' /\ IdleTabCloses'
  BY DEF SessionIsFinal, IdleTabCloses, TypeOK, Sessions, NoRecord
<1>4. StaleInv'
  BY DEF StaleInv, TypeOK, Sessions, NoRecord
<1> QED
  BY <1>1, <1>2, <1>3, <1>4

\* Time takes from every countdown and adds to every age.
LEMMA TickInductive ==
  ASSUME IInv, Tick
  PROVE  IInv'
<1> USE TTLAssumption, BoundAssumption
    DEF IInv, Tick, Older, open, _session_expired
<1>1. TypeOK'
  <2>1. record' \in [Tabs -> Sessions]
    <3> SUFFICES ASSUME NEW t \in Tabs PROVE record'[t] \in Sessions
      BY DEF Sessions
    <3>1. record[t] \in Sessions /\ record[t].age \in Nat /\ record[t].ttl \in Nat
      BY DEF TypeOK, Sessions
    <3> QED
      BY <3>1 DEF Sessions, NoRecord
  <2>2. grants' \subseteq Grants
    <3> SUFFICES ASSUME NEW h \in grants, h.left > 1
                 PROVE  [h EXCEPT !.left = @ - 1] \in Grants
      OBVIOUS
    <3> QED
      BY SMTT(30) DEF TypeOK, Grants
  <2>3. request' \in [Tabs -> Requests]
    <3> SUFFICES ASSUME NEW t \in Tabs PROVE request'[t] \in Requests
      OBVIOUS
    <3> DEFINE r == request[t]
               n == IF r.left = 0 THEN 0 ELSE r.left - 1
    <3>1. r \in Requests
      BY DEF TypeOK
    <3>2. r.left \in 0..UrlTTL /\ UrlTTL \in Nat
      BY <3>1 DEF Requests
    <3>3. n \in 0..UrlTTL
      BY ONLY <3>2
    <3>4. request'[t] = [r EXCEPT !.left = n]
      OBVIOUS
    <3> HIDE DEF r, n
    <3>5. [r EXCEPT !.left = n] \in Requests
      BY ONLY <3>1, <3>3 DEF Requests
    <3> QED
      BY <3>4, <3>5
  <2>4. idle' \in [Tabs -> 0..UnlockTTL]
    BY DEF TypeOK
  <2> QED
    BY <2>1, <2>2, <2>3, <2>4 DEF TypeOK
<1>2. RequestInv'
  BY DEF RequestInv, TypeOK, Requests, Stages
<1>3. EpochInv'
  <2>1. ASSUME NEW t \in Tabs
        PROVE  request'[t].epoch = request[t].epoch /\ request'[t].void = request[t].void
    BY DEF TypeOK, Requests
  <2>2. ASSUME NEW g \in grants'
        PROVE  \E h \in grants : g.epoch = h.epoch /\ g.void = h.void
    BY DEF TypeOK, Grants
  <2> QED
    BY ONLY <2>1, <2>2, IInv, epoch' = epoch DEF IInv, EpochInv
<1>4. SessionIsFinal'
  BY SMTT(30) DEF SessionIsFinal, TypeOK, Sessions, NoRecord
<1>5. IdleTabCloses'
  BY DEF IdleTabCloses, TypeOK, Sessions, NoRecord
<1>6. StaleInv'
  BY DEF StaleInv, TypeOK, Requests, Stages
<1> QED
  BY <1>1, <1>2, <1>3, <1>4, <1>5, <1>6

\* Every step of the specification keeps the invariant.
LEMMA NextInductive == IInv /\ [Next]_vars => IInv'
<1> SUFFICES ASSUME IInv, [Next]_vars PROVE IInv'
  OBVIOUS
<1>1. ASSUME NEW t \in Tabs, DataKey(t) PROVE IInv'
  BY <1>1, GetInductive DEF DataKey
<1>2. ASSUME NEW t \in Tabs, file_key_for_id(t) PROVE IInv'
  BY <1>2, GetInductive DEF file_key_for_id
<1>3. CASE UNCHANGED vars
  BY <1>3 DEF vars, IInv, TypeOK, RequestInv, EpochInv, SessionIsFinal,
     IdleTabCloses, StaleInv, open, _session_expired
<1> QED
  BY <1>1, <1>2, <1>3, UnlockInductive, DataKeyReturnsInductive, SignInductive,
     GrantInductive, DropInductive, BumpInductive, WorkerReadsInductive,
     RestartInductive, TickInductive DEF Next

\* The invariant holds in every state of every behaviour.
LEMMA AlwaysIInv == Spec => []IInv
  BY InitInductive, NextInductive, PTL DEF Spec

-----------------------------------------------------------------------------
\* A lock voids the URLs its tab minted before it, whatever else is in flight:
\* the epoch is read before the key, so a key read before the lock signs an
\* epoch the lock leaves behind.
THEOREM LockedUrlsAreDead == Spec => []LockKillsItsUrls
<1>1. IInv => LockKillsItsUrls
  BY DEF IInv, EpochInv, TypeOK, Grants, LockKillsItsUrls, verify_file_url
<1> QED
  BY <1>1, AlwaysIInv, PTL

\* A session is gone one sliding TTL after its absolute life, and a tab nobody
\* uses is closed after the sliding TTL.
THEOREM SessionsEnd == Spec => [](SessionIsFinal /\ IdleTabCloses)
<1>1. IInv => SessionIsFinal /\ IdleTabCloses
  BY DEF IInv
<1> QED
  BY <1>1, AlwaysIInv, PTL

\* Whatever reads overlap an unlock, nothing closes a live session but its TTL,
\* a /lock of its own tab, a restart - and a reader that had found the session
\* before this one too old, and was passed by the unlock that made this one.
THEOREM NobodyElseCloses == Spec => OnlyTheTabCloses
<1>1. ASSUME IInv, [Next]_vars
      PROVE  [\A t \in Tabs : open(t) /\ ~_session_expired(t) /\ ~open(t)' =>
                 \/ lock_collection(t) \/ record[t].ttl = 1 \/ Restart
                 \/ DataKeyReturns(t) /\ request[t].passed
                 \/ WorkerDeletes(t) /\ worker[t] = "passed"]_vars
  <2> SUFFICES ASSUME NEW t \in Tabs, Next, open(t), ~_session_expired(t), ~open(t)',
                      ~lock_collection(t), ~Restart,
                      ~(DataKeyReturns(t) /\ request[t].passed),
                      ~(WorkerDeletes(t) /\ worker[t] = "passed")
               PROVE  record[t].ttl = 1
    BY <1>1
  <2> USE <1>1, TTLAssumption DEF IInv, open, _session_expired
  <2>1. ASSUME NEW u \in Tabs, unlock_collection(u) PROVE FALSE
    BY <2>1 DEF unlock_collection, TypeOK, Sessions
  <2>2. ASSUME NEW u \in Tabs, DataKeyReturns(u) PROVE FALSE
    <3>1. u = t => ~request[t].passed
      BY <2>2
    <3> QED
      BY <2>2, <3>1 DEF DataKeyReturns, StaleInv, TypeOK, Sessions, NoRecord
  <2>3. ASSUME NEW u \in Tabs, WorkerDeletes(u) PROVE FALSE
    <3>1. u = t => worker[t] # "passed"
      BY <2>3
    <3> QED
      BY <2>3, <3>1 DEF WorkerDeletes, StaleInv, TypeOK, Sessions, NoRecord, Reads
  <2>4. ASSUME NEW u \in Tabs, lock_collection(u) PROVE FALSE
    BY <2>4 DEF lock_collection, TypeOK, Sessions, NoRecord
  <2>5. CASE Tick
    BY <2>5 DEF Tick, TypeOK, Sessions, NoRecord
  <2>6. CASE record' = record
    BY <2>6
  <2> QED
    BY <2>1, <2>2, <2>3, <2>4, <2>5, <2>6
    DEF Next, DataKey, attach_media_url, file_key_for_id, store_media_key_grant,
        bump_media_epoch, data_key_for_id_sync
<1> QED
  BY <1>1, AlwaysIInv, PTL DEF Spec, OnlyTheTabCloses

-----------------------------------------------------------------------------
(***************************************************************************)
(* The picture of a card.  A file a request has stored is named by nobody  *)
(* until the row names it, and a row that names it never comes back to a   *)
(* file it has left: what is dropped is what the row has left, or what the *)
(* request that drops it is about to make it leave.                        *)
(***************************************************************************)
ImageRequestSet == [step : Steps, old : PictureNames \cup {NoFile},
                    new : PictureNames \cup {NoFile}, wrap : KeySet,
                    space : ImageSpaces \cup {"none"}]

\* A request that has stored a file no row names yet, one that is to drop the
\* file the row has left, one that changes the picture at all, and one that has
\* dropped the file the row may name still.
Storing(q) == q.step \in {"healStores", "finalizeStores", "finalizeChecks", "editStores",
                          "editDrops"}
Leaving(q) == q.step \in {"healCommits", "finalizeCommits"}
Repainting(q) == q.step \notin {"idle", "deleteLoads", "deleteDrops"}
Dropping(q) == q.step \in {"editDrops", "deleteDrops"}
Wrapless(q) == q.step \in {"healLists", "healStores", "healCommits", "editLoads", "editStores",
                           "editDrops"}

StoredIsNew ==
    \A r \in ImageRequests : Storing(requests[r]) =>
        /\ requests[r].new \in PictureNames \ {0}
        /\ pictures[requests[r].new] = FileKey(requests[r].space)
        /\ card.path # requests[r].new
        /\ \A q \in ImageRequests : /\ requests[q].old # requests[r].new
                                    /\ q # r => requests[q].new # requests[r].new
LeftIsLeft ==
    \A r \in ImageRequests : Leaving(requests[r]) =>
        card.at = "deleted" \/ requests[r].old # card.path
SpaceIsKnown ==
    \A r \in ImageRequests : Repainting(requests[r]) =>
        /\ card.at \in {"sealed", "deleted"}
        /\ card.at = "sealed" => card.moved \/ card.space = requests[r].space
WrapIsOff == \A r \in ImageRequests : Wrapless(requests[r]) => card.wrap = NoKey
CardIsOne ==
    /\ card.at = "absent" => \A r \in ImageRequests : requests[r].step = "idle"
    /\ card.at \in {"absent", "plain"} => card.wrap = NoKey /\ ~card.moved
    /\ card.at \in {"absent", "deleted"} => card.path = NoFile
PlainIsPlain ==
    card.at = "plain" =>
        \/ pictures[card.path] = AppKey
        \/ \E r \in ImageRequests : Dropping(requests[r]) /\ requests[r].old = card.path

ImagesInv ==
    /\ VaultImagesTypeOK
    /\ StoredIsNew
    /\ LeftIsLeft
    /\ SpaceIsKnown
    /\ WrapIsOff
    /\ CardIsOne
    /\ PlainIsPlain
    /\ PictureOpens

\* The kinds of keys are told apart.
LEMMA KeysDiffer ==
    /\ NoKey \in KeySet /\ AppKey \in KeySet /\ NoKey # AppKey
    /\ \A s \in ImageSpaces \cup {"none"} :
          /\ FileKey(s) \in KeySet /\ FileKey(s) # NoKey /\ FileKey(s) # AppKey
          /\ \A n \in PictureNames : /\ BlindKey(s, n) \in KeySet /\ BlindKey(s, n) # NoKey
                                     /\ BlindKey(s, n).space = s
    /\ NoFile \notin PictureNames /\ 0 \in PictureNames
PROOF
  <1>1. NoFile \notin PictureNames /\ 0 \in PictureNames
    BY VaultImagesAssumption DEF NoFile, PictureNames
  <1> QED
    BY <1>1 DEF NoKey, AppKey, FileKey, BlindKey, Key, KeySet

\* What a request holds is of its type, and so is no request.
LEMMA RequestTypes ==
    /\ NoRequest \in ImageRequestSet /\ ~Storing(NoRequest) /\ ~Leaving(NoRequest)
    /\ ~Repainting(NoRequest) /\ ~Dropping(NoRequest) /\ ~Wrapless(NoRequest)
    /\ NoRequest.step = "idle" /\ NoRequest.old = NoFile /\ NoRequest.new = NoFile
PROOF
  <1>1. NoRequest \in ImageRequestSet
    BY KeysDiffer DEF NoRequest, ImageRequestSet, Steps
  <1>2. NoRequest.step = "idle" /\ NoRequest.old = NoFile /\ NoRequest.new = NoFile
    BY DEF NoRequest
  <1> QED
    BY <1>1, <1>2 DEF Storing, Leaving, Repainting, Dropping, Wrapless

\* One request goes on: row and files stay, and it stores nothing new.
LEMMA RequestGoesOn ==
    ASSUME ImagesInv, NEW r \in ImageRequests, NEW x \in ImageRequestSet,
           UNCHANGED <<card, pictures>>, requests' = [requests EXCEPT ![r] = x],
           card.at # "absent", ~Dropping(requests[r]), ~Leaving(x),
           x.new = NoFile \/ x.new = requests[r].new,
           x.old \in {requests[r].old, card.path, NoFile},
           Repainting(x) => \/ card.at = "sealed" /\ x.space = card.space
                            \/ Repainting(requests[r]) /\ x.space = requests[r].space,
           Wrapless(x) => card.wrap = NoKey,
           Storing(x) => /\ Storing(requests[r]) /\ x.new = requests[r].new
                         /\ x.space = requests[r].space
    PROVE  ImagesInv'
PROOF
  <1> USE DEF ImagesInv
  <1>1. /\ requests \in [ImageRequests -> ImageRequestSet]
        /\ requests' \in [ImageRequests -> ImageRequestSet] /\ requests'[r] = x
        /\ \A q \in ImageRequests \ {r} : requests'[q] = requests[q]
    BY DEF VaultImagesTypeOK, ImageRequestSet
  <1>2. VaultImagesTypeOK'
    BY <1>1 DEF VaultImagesTypeOK, ImageRequestSet
  <1>3. StoredIsNew'
    <2>1. \A q \in ImageRequests : Storing(requests'[q]) =>
             Storing(requests[q]) /\ requests'[q].new = requests[q].new
             /\ requests'[q].space = requests[q].space
      BY <1>1
    <2> SUFFICES ASSUME NEW q \in ImageRequests, Storing(requests'[q])
                 PROVE  /\ requests'[q].new \in PictureNames \ {0}
                        /\ pictures'[requests'[q].new] = FileKey(requests'[q].space)
                        /\ card'.path # requests'[q].new
                        /\ \A p \in ImageRequests :
                              /\ requests'[p].old # requests'[q].new
                              /\ p # q => requests'[p].new # requests'[q].new
      BY DEF StoredIsNew
    <2> DEFINE n == requests[q].new
    <2>2. /\ n \in PictureNames \ {0} /\ pictures[n] = FileKey(requests[q].space)
          /\ card.path # n
          /\ \A p \in ImageRequests : /\ requests[p].old # n
                                      /\ p # q => requests[p].new # n
      BY <2>1 DEF StoredIsNew
    <2>3. n # NoFile /\ requests'[q].new = n /\ requests'[q].space = requests[q].space
      BY <2>1, <2>2, KeysDiffer
    <2> HIDE DEF n
    <2>4. ASSUME NEW p \in ImageRequests
          PROVE  requests'[p].old # n /\ (p # q => requests'[p].new # n)
      <3>1. CASE p # r
        BY <1>1, <2>2, <3>1
      <3>2. CASE p = r
        BY <1>1, <2>2, <2>3, <3>2
      <3> QED
        BY <3>1, <3>2
    <2> QED
      BY <2>2, <2>3, <2>4
  <1>4. LeftIsLeft'
    BY <1>1 DEF LeftIsLeft
  <1>5. SpaceIsKnown'
    BY <1>1 DEF SpaceIsKnown
  <1>6. WrapIsOff'
    BY <1>1 DEF WrapIsOff
  <1>7. CardIsOne'
    BY <1>1 DEF CardIsOne
  <1>8. \A q \in ImageRequests : Dropping(requests[q]) =>
           Dropping(requests'[q]) /\ requests'[q].old = requests[q].old
    BY <1>1
  <1>9. PlainIsPlain'
    BY <1>8 DEF PlainIsPlain
  <1>10. PictureOpens'
    BY <1>8 DEF PictureOpens, image_bytes, Dropping
  <1> QED
    BY <1>2, <1>3, <1>4, <1>5, <1>6, <1>7, <1>9, <1>10

\* What a request does that writes neither row nor file.
LEMMA RequestsLook ==
    ASSUME ImagesInv, ~BlindEdits, NEW r \in ImageRequests,
           \/ HealLists(r) \/ FinalizeLists(r) \/ FinalizeChecks(r) \/ EditLoads(r)
           \/ DeleteLoads(r) \/ Breaks(r)
    PROVE  ImagesInv'
PROOF
  <1> USE DEF ImagesInv
  <1>1. /\ requests[r] \in ImageRequestSet /\ card.at \in {"absent", "plain", "sealed", "deleted"}
        /\ card.path \in PictureNames \cup {NoFile} /\ card.wrap \in KeySet
        /\ card.space \in ImageSpaces \cup {"none"}
    BY DEF VaultImagesTypeOK, ImageRequestSet
  <1>2. ASSUME NEW step \in {"healLists", "finalizeLists", "editLoads", "deleteLoads"},
               Loads(r, step), step # "deleteLoads" => card.at = "sealed",
               step \in {"healLists", "editLoads"} => card.wrap = NoKey
        PROVE  ImagesInv'
    <2> DEFINE x == [step |-> step, old |-> card.path, new |-> NoFile, wrap |-> card.wrap,
                     space |-> card.space]
    <2>1. /\ requests' = [requests EXCEPT ![r] = x] /\ UNCHANGED <<card, pictures>>
          /\ card.at # "absent" /\ requests[r].step = "idle"
      BY <1>2 DEF Loads, AtStep
    <2>2. x \in ImageRequestSet
      BY <1>1 DEF ImageRequestSet, Steps
    <2>3. x.new = NoFile /\ x.old = card.path /\ x.step = step /\ x.space = card.space
      OBVIOUS
    <2> HIDE DEF x
    <2>4. ~Dropping(requests[r]) /\ ~Leaving(x) /\ ~Storing(x)
      BY <2>1, <2>3 DEF Dropping, Leaving, Storing
    <2>5. Repainting(x) => card.at = "sealed" /\ x.space = card.space
      BY <1>2, <2>3 DEF Repainting
    <2>6. Wrapless(x) => card.wrap = NoKey
      BY <1>2, <2>3 DEF Wrapless
    <2> QED
      BY <2>1, <2>2, <2>3, <2>4, <2>5, <2>6, RequestGoesOn
  <1>3. ASSUME requests' = [requests EXCEPT ![r] = NoRequest], UNCHANGED <<card, pictures>>,
               requests[r].step # "idle", ~Dropping(requests[r])
        PROVE  ImagesInv'
    <2>1. card.at # "absent"
      BY <1>3 DEF CardIsOne
    <2> QED
      BY <1>3, <2>1, RequestTypes, RequestGoesOn
  <1>4. CASE HealLists(r)
    BY <1>2, <1>4 DEF HealLists
  <1>5. CASE FinalizeLists(r)
    BY <1>2, <1>5 DEF FinalizeLists
  <1>6. CASE EditLoads(r)
    BY <1>2, <1>6 DEF EditLoads
  <1>7. CASE DeleteLoads(r)
    BY <1>2, <1>7 DEF DeleteLoads
  <1>8. CASE Breaks(r)
    BY <1>3, <1>8 DEF Breaks, Finishes, Dropping
  <1>9. CASE FinalizeChecks(r)
    <2>1. CASE Finishes(r)
      BY <1>3, <1>9, <2>1 DEF FinalizeChecks, Finishes, AtStep, Dropping
    <2>2. CASE StepsTo(r, "finalizeChecks")
      <3> DEFINE x == [requests[r] EXCEPT !.step = "finalizeChecks"]
      <3>1. /\ requests' = [requests EXCEPT ![r] = x] /\ UNCHANGED <<card, pictures>>
            /\ requests[r].step = "finalizeStores"
        BY <1>9, <2>2 DEF FinalizeChecks, StepsTo, AtStep
      <3>2. /\ x \in ImageRequestSet /\ x.step = "finalizeChecks" /\ x.old = requests[r].old
            /\ x.new = requests[r].new /\ x.space = requests[r].space
        BY <1>1 DEF ImageRequestSet, Steps
      <3> HIDE DEF x
      <3>3. /\ ~Dropping(requests[r]) /\ ~Leaving(x) /\ Storing(requests[r])
            /\ Repainting(requests[r]) /\ ~Wrapless(x)
        BY <3>1, <3>2 DEF Dropping, Leaving, Storing, Repainting, Wrapless
      <3>4. card.at # "absent"
        BY <3>1 DEF CardIsOne
      <3> QED
        BY <3>1, <3>2, <3>3, <3>4, RequestGoesOn
    <2> QED
      BY <1>9, <2>1, <2>2 DEF FinalizeChecks
  <1> QED
    BY <1>4, <1>5, <1>6, <1>7, <1>8, <1>9

\* A request stores a file under a random name, for the space it knows.
LEMMA StoresKeeps ==
    ASSUME ImagesInv, NEW r \in ImageRequests,
           NEW step \in {"healStores", "finalizeStores", "editStores"}, Stores(r, step),
           Repainting(requests[r]), ~Storing(requests[r]), ~Leaving(requests[r]),
           step # "finalizeStores" => card.wrap = NoKey
    PROVE  ImagesInv'
PROOF
  <1> USE DEF ImagesInv
  <1>1. PICK n \in PictureNames \ {0} :
           /\ n \notin Taken
           /\ pictures' = [pictures EXCEPT ![n] = FileKey(requests[r].space)]
           /\ requests' = [requests EXCEPT ![r].step = step, ![r].new = n]
           /\ UNCHANGED card
    BY DEF Stores, Random
  <1> DEFINE x == [requests[r] EXCEPT !.step = step, !.new = n]
  <1>2. /\ requests \in [ImageRequests -> ImageRequestSet]
        /\ pictures \in [PictureNames -> KeySet]
        /\ requests[r].space \in ImageSpaces \cup {"none"}
    BY DEF VaultImagesTypeOK, ImageRequestSet
  <1>3. requests' = [requests EXCEPT ![r] = x]
    BY <1>1, <1>2
  <1>4. /\ x \in ImageRequestSet /\ x.step = step /\ x.new = n /\ x.old = requests[r].old
        /\ x.space = requests[r].space
    BY <1>1, <1>2 DEF ImageRequestSet, Steps
  <1> HIDE DEF x
  <1>5. /\ requests' \in [ImageRequests -> ImageRequestSet] /\ requests'[r] = x
        /\ \A q \in ImageRequests \ {r} : requests'[q] = requests[q]
        /\ \A q \in ImageRequests : requests'[q].old = requests[q].old
                                    /\ requests'[q].space = requests[q].space
    BY <1>2, <1>3, <1>4
  <1>6. /\ pictures' \in [PictureNames -> KeySet] /\ pictures'[n] = FileKey(requests[r].space)
        /\ \A m : m # n => pictures'[m] = pictures[m]
    BY <1>1, <1>2, KeysDiffer
  <1>7. /\ n # card.path /\ n # NoFile
        /\ \A q \in ImageRequests : requests[q].old # n /\ requests[q].new # n
    BY <1>1, KeysDiffer DEF Taken
  <1>8. ~Leaving(x) /\ Repainting(x) /\ Storing(x) /\ ~Dropping(x) /\ ~Dropping(requests[r])
    BY <1>4 DEF Leaving, Repainting, Storing, Dropping
  <1>9. VaultImagesTypeOK'
    BY <1>1, <1>5, <1>6 DEF VaultImagesTypeOK, ImageRequestSet
  <1>10. StoredIsNew'
    BY <1>1, <1>4, <1>5, <1>6, <1>7 DEF StoredIsNew
  <1>11. LeftIsLeft'
    BY <1>1, <1>5, <1>8 DEF LeftIsLeft
  <1>12. SpaceIsKnown'
    BY <1>1, <1>4, <1>5, <1>8 DEF SpaceIsKnown
  <1>13. WrapIsOff'
    <2>1. Wrapless(x) => card.wrap = NoKey
      BY <1>4 DEF Wrapless
    <2> QED
      BY <1>1, <1>5, <2>1 DEF WrapIsOff
  <1>14. CardIsOne'
    <2>1. card.at # "absent"
      BY DEF CardIsOne, Repainting
    <2> QED
      BY <1>1, <2>1 DEF CardIsOne
  <1>15. \A q \in ImageRequests : Dropping(requests[q]) =>
            Dropping(requests'[q]) /\ requests'[q].old = requests[q].old
    BY <1>5, <1>8
  <1>16. PlainIsPlain'
    BY <1>1, <1>6, <1>7, <1>15 DEF PlainIsPlain
  <1>17. PictureOpens'
    <2>1. card' = card /\ pictures'[card.path] = pictures[card.path]
      BY <1>1, <1>6, <1>7
    <2>2. image_bytes => image_bytes'
      BY <2>1 DEF image_bytes
    <2> QED
      BY <2>1, <2>2, <1>15 DEF PictureOpens, Dropping
  <1> QED
    BY <1>9, <1>10, <1>11, <1>12, <1>13, <1>14, <1>16, <1>17

\* The row is told: it names the file the request has stored.
LEMMA TellsKeeps ==
    ASSUME ImagesInv, NEW r \in ImageRequests, NEW x \in ImageRequestSet,
           Storing(requests[r]), card.at = "sealed",
           NEW wrap \in {card.wrap, NoKey},
           Wrapless(requests[r]) \/ wrap = NoKey,
           card' = [card EXCEPT !.path = requests[r].new, !.wrap = wrap],
           requests' = [requests EXCEPT ![r] = x], UNCHANGED pictures,
           x = NoRequest \/ (Leaving(x) /\ x.old = requests[r].old /\ x.new = requests[r].new
                             /\ x.space = requests[r].space /\ (Wrapless(x) => wrap = NoKey))
    PROVE  ImagesInv'
PROOF
  <1> USE DEF ImagesInv
  <1> DEFINE n == requests[r].new
  <1>1. /\ requests \in [ImageRequests -> ImageRequestSet]
        /\ requests' \in [ImageRequests -> ImageRequestSet] /\ requests'[r] = x
        /\ \A q \in ImageRequests \ {r} : requests'[q] = requests[q]
    BY DEF VaultImagesTypeOK, ImageRequestSet
  <1>2. /\ n \in PictureNames \ {0} /\ pictures[n] = FileKey(requests[r].space)
        /\ card.path # n
        /\ \A q \in ImageRequests : /\ requests[q].old # n
                                    /\ q # r => requests[q].new # n
    BY DEF StoredIsNew
  <1>3. wrap = NoKey
    BY DEF WrapIsOff
  <1>4. /\ card'.path = n /\ card'.wrap = NoKey /\ card'.at = "sealed"
        /\ card'.space = card.space /\ card'.moved = card.moved
    BY <1>3 DEF VaultImagesTypeOK
  <1>5. Repainting(requests[r]) /\ ~Storing(x)
    BY RequestTypes DEF Repainting, Storing, Leaving
  <1> HIDE DEF n
  <1>6. n # NoFile
    BY <1>2, KeysDiffer
  <1>7. VaultImagesTypeOK'
    <2>1. card' \in [at : {"absent", "plain", "sealed", "deleted"},
                     space : ImageSpaces \cup {"none"}, path : PictureNames \cup {NoFile},
                     wrap : KeySet, moved : BOOLEAN]
      BY <1>2, <1>3, KeysDiffer DEF VaultImagesTypeOK, n
    <2> QED
      BY <1>1, <2>1 DEF VaultImagesTypeOK, ImageRequestSet
  <1>8. StoredIsNew'
    <2> SUFFICES ASSUME NEW q \in ImageRequests, Storing(requests'[q])
                 PROVE  /\ requests'[q].new \in PictureNames \ {0}
                        /\ pictures'[requests'[q].new] = FileKey(requests'[q].space)
                        /\ card'.path # requests'[q].new
                        /\ \A p \in ImageRequests :
                              /\ requests'[p].old # requests'[q].new
                              /\ p # q => requests'[p].new # requests'[q].new
      BY DEF StoredIsNew
    <2>1. q # r /\ requests'[q] = requests[q]
      BY <1>1, <1>5
    <2>2. /\ requests[q].new \in PictureNames \ {0}
          /\ pictures[requests[q].new] = FileKey(requests[q].space)
          /\ requests[q].new # n
          /\ \A p \in ImageRequests : /\ requests[p].old # requests[q].new
                                      /\ p # q => requests[p].new # requests[q].new
      BY <1>2, <2>1 DEF StoredIsNew
    <2>3. requests[q].new # NoFile
      BY <2>2, KeysDiffer
    <2>4. requests'[r].old # requests[q].new /\ requests'[r].new # requests[q].new
      BY <1>1, <2>1, <2>2, <2>3, RequestTypes
    <2> QED
      BY <1>1, <1>4, <2>1, <2>2, <2>4
  <1>9. LeftIsLeft'
    <2>1. x.old # n
      BY <1>2, <1>6, RequestTypes
    <2> QED
      BY <1>1, <1>2, <1>4, <2>1 DEF LeftIsLeft
  <1>10. SpaceIsKnown'
    BY <1>1, <1>4, <1>5, RequestTypes DEF SpaceIsKnown
  <1>11. WrapIsOff'
    BY <1>4 DEF WrapIsOff
  <1>12. CardIsOne' /\ PlainIsPlain'
    BY <1>4 DEF CardIsOne, PlainIsPlain
  <1>13. PictureOpens'
    <2>1. card.moved \/ card.space = requests[r].space
      BY <1>5 DEF SpaceIsKnown
    <2>2. pictures'[n] # NoKey /\ pictures'[n] = FileKey(requests[r].space)
      BY <1>1, <1>2, KeysDiffer DEF ImageRequestSet
    <2> QED
      BY <1>4, <2>1, <2>2 DEF PictureOpens, image_bytes
  <1> QED
    BY <1>7, <1>8, <1>9, <1>10, <1>11, <1>12, <1>13

\* A file is dropped: one the row has left, or the one it is about to leave.
LEMMA DropsKeeps ==
    ASSUME ImagesInv, NEW r \in ImageRequests, NEW x \in ImageRequestSet,
           requests[r].step # "idle", Drops(requests[r].old), UNCHANGED card,
           requests' = [requests EXCEPT ![r] = x],
           \/ x = NoRequest /\ Leaving(requests[r])
           \/ /\ Dropping(x) /\ x.old = requests[r].old /\ x.new = requests[r].new
              /\ x.space = requests[r].space
              /\ Storing(x) => Storing(requests[r]) /\ Wrapless(requests[r])
    PROVE  ImagesInv'
PROOF
  <1> USE DEF ImagesInv
  <1> DEFINE n == requests[r].old
  <1>1. /\ requests \in [ImageRequests -> ImageRequestSet]
        /\ requests' \in [ImageRequests -> ImageRequestSet] /\ requests'[r] = x
        /\ \A q \in ImageRequests \ {r} : requests'[q] = requests[q]
        /\ pictures \in [PictureNames -> KeySet]
    BY DEF VaultImagesTypeOK, ImageRequestSet
  <1>2. /\ pictures' \in [PictureNames -> KeySet]
        /\ \A m : m # n => pictures'[m] = pictures[m]
    BY <1>1, KeysDiffer DEF Drops
  <1> HIDE DEF n
  <1>3. ~Leaving(x) /\ (Leaving(requests[r]) => card.at = "deleted" \/ n # card.path)
    BY RequestTypes DEF Leaving, Dropping, LeftIsLeft, n
  <1>4. Leaving(requests[r]) \/ (Dropping(x) /\ x.old = n)
    BY RequestTypes DEF n
  <1>5. VaultImagesTypeOK'
    BY <1>1, <1>2 DEF VaultImagesTypeOK, ImageRequestSet
  <1>6. StoredIsNew'
    <2> SUFFICES ASSUME NEW q \in ImageRequests, Storing(requests'[q])
                 PROVE  /\ requests'[q].new \in PictureNames \ {0}
                        /\ pictures'[requests'[q].new] = FileKey(requests'[q].space)
                        /\ card'.path # requests'[q].new
                        /\ \A p \in ImageRequests :
                              /\ requests'[p].old # requests'[q].new
                              /\ p # q => requests'[p].new # requests'[q].new
      BY DEF StoredIsNew
    <2>1. /\ Storing(requests[q]) /\ requests'[q].new = requests[q].new
          /\ requests'[q].space = requests[q].space
      BY <1>1, RequestTypes
    <2>2. /\ requests[q].new \in PictureNames \ {0}
          /\ pictures[requests[q].new] = FileKey(requests[q].space)
          /\ requests[q].new # card.path
          /\ \A p \in ImageRequests : /\ requests[p].old # requests[q].new
                                      /\ p # q => requests[p].new # requests[q].new
      BY <2>1 DEF StoredIsNew
    <2>3. requests[q].new # NoFile /\ requests[q].new # n
      BY <2>2, KeysDiffer DEF n
    <2>4. /\ requests'[r].old # requests[q].new
          /\ r # q => requests'[r].new # requests[q].new
      BY <1>1, <2>2, <2>3, RequestTypes
    <2> QED
      BY <1>1, <1>2, <2>1, <2>2, <2>3, <2>4
  <1>7. LeftIsLeft'
    BY <1>1, <1>3 DEF LeftIsLeft
  <1>8. SpaceIsKnown'
    <2>1. Repainting(x) => Repainting(requests[r]) /\ x.space = requests[r].space
      BY RequestTypes DEF Repainting, Dropping, Storing
    <2> QED
      BY <1>1, <2>1 DEF SpaceIsKnown
  <1>9. WrapIsOff'
    <2>1. Wrapless(x) => Wrapless(requests[r])
      BY RequestTypes DEF Wrapless, Dropping, Storing
    <2> QED
      BY <1>1, <2>1 DEF WrapIsOff
  <1>10. CardIsOne'
    BY <1>1 DEF CardIsOne
  <1>11. CASE card.path = n
    <2>1. CASE card.at = "deleted"
      BY <1>5, <1>6, <1>7, <1>8, <1>9, <1>10, <2>1 DEF PlainIsPlain, PictureOpens, CardIsOne
    <2>2. CASE card.at # "deleted"
      <3>1. Dropping(requests'[r]) /\ requests'[r].old = card.path
        BY <1>1, <1>3, <1>4, <1>11, <2>2
      <3>2. PlainIsPlain' /\ PictureOpens'
        BY <3>1 DEF PlainIsPlain, PictureOpens, Dropping
      <3> QED
        BY <1>5, <1>6, <1>7, <1>8, <1>9, <1>10, <3>2
    <2> QED
      BY <2>1, <2>2
  <1>12. CASE card.path # n
    <2>1. pictures'[card.path] = pictures[card.path]
      BY <1>2, <1>12
    <2>2. \A q \in ImageRequests : Dropping(requests[q]) /\ requests[q].old = card.path =>
             Dropping(requests'[q]) /\ requests'[q].old = card.path
      BY <1>1, <1>12 DEF n
    <2>3. PlainIsPlain'
      BY <2>1, <2>2 DEF PlainIsPlain
    <2>4. image_bytes => image_bytes'
      BY <2>1 DEF image_bytes
    <2>5. PictureOpens'
      BY <2>1, <2>2, <2>4 DEF PictureOpens, Dropping
    <2> QED
      BY <1>5, <1>6, <1>7, <1>8, <1>9, <1>10, <2>3, <2>5
  <1> QED
    BY <1>11, <1>12

\* The row is gone, or is deleted: it names nothing, and the request ends.
LEMMA RowGoes ==
    ASSUME ImagesInv, NEW r \in ImageRequests, requests[r].step # "idle", UNCHANGED pictures,
           requests' = [requests EXCEPT ![r] = NoRequest],
           \/ card' = [card EXCEPT !.at = "deleted", !.path = NoFile, !.wrap = NoKey]
           \/ card.at = "deleted" /\ card' = card
    PROVE  ImagesInv'
PROOF
  <1> USE DEF ImagesInv
  <1>1. /\ requests \in [ImageRequests -> ImageRequestSet]
        /\ requests' \in [ImageRequests -> ImageRequestSet] /\ requests'[r] = NoRequest
        /\ \A q \in ImageRequests \ {r} : requests'[q] = requests[q]
    BY RequestTypes DEF VaultImagesTypeOK, ImageRequestSet
  <1>0. card \in [at : {"absent", "plain", "sealed", "deleted"},
                  space : ImageSpaces \cup {"none"}, path : PictureNames \cup {NoFile},
                  wrap : KeySet, moved : BOOLEAN]
    BY DEF VaultImagesTypeOK
  <1>2. /\ card'.at = "deleted" /\ card'.path = NoFile
        /\ card'.wrap = NoKey \/ card'.wrap = card.wrap
        /\ card' \in [at : {"absent", "plain", "sealed", "deleted"},
                      space : ImageSpaces \cup {"none"}, path : PictureNames \cup {NoFile},
                      wrap : KeySet, moved : BOOLEAN]
    <2>1. CASE card.at = "deleted" /\ card' = card
      BY <1>0, <2>1 DEF CardIsOne
    <2>2. CASE card' = [card EXCEPT !.at = "deleted", !.path = NoFile, !.wrap = NoKey]
      <3>1. NoKey \in KeySet
        BY KeysDiffer
      <3> QED
        BY <1>0, <2>2, <3>1
    <2> QED
      BY <2>1, <2>2
  <1>3. VaultImagesTypeOK'
    BY <1>1, <1>2 DEF VaultImagesTypeOK, ImageRequestSet
  <1>4. StoredIsNew'
    <2>1. \A q \in ImageRequests : Storing(requests'[q]) => q # r /\ Storing(requests[q])
      BY <1>1, RequestTypes
    <2> QED
      BY <1>1, <1>2, <2>1, RequestTypes, KeysDiffer DEF StoredIsNew
  <1>5. LeftIsLeft'
    BY <1>2 DEF LeftIsLeft
  <1>6. SpaceIsKnown'
    BY <1>1, <1>2, RequestTypes DEF SpaceIsKnown
  <1>7. WrapIsOff'
    <2>1. \A q \in ImageRequests : Wrapless(requests'[q]) => Wrapless(requests[q])
      BY <1>1, RequestTypes
    <2> QED
      BY <1>2, <2>1 DEF WrapIsOff
  <1>8. CardIsOne' /\ PlainIsPlain' /\ PictureOpens'
    BY <1>2 DEF CardIsOne, PlainIsPlain, PictureOpens
  <1> QED
    BY <1>3, <1>4, <1>5, <1>6, <1>7, <1>8

\* Every step of a request.
LEMMA RequestStepsKeep ==
    ASSUME ImagesInv, ~BlindEdits, NEW r \in ImageRequests, ImageSteps(r)
    PROVE  ImagesInv'
PROOF
  <1> USE DEF ImagesInv
  <1>0. requests \in [ImageRequests -> ImageRequestSet]
    BY DEF VaultImagesTypeOK, ImageRequestSet
  <1>1. CASE \/ HealLists(r) \/ FinalizeLists(r) \/ FinalizeChecks(r) \/ EditLoads(r)
             \/ DeleteLoads(r) \/ Breaks(r)
    BY <1>1, RequestsLook
  <1>2. CASE HealStores(r) \/ FinalizeStores(r) \/ EditStores(r)
    <2>1. /\ requests[r].step \in {"healLists", "finalizeLists", "editLoads"}
          /\ \/ \E step \in {"healStores", "finalizeStores", "editStores"} :
                   /\ Stores(r, step)
                   /\ step # "finalizeStores" => requests[r].step # "finalizeLists"
             \/ Finishes(r) /\ UNCHANGED <<card, pictures>>
      BY <1>2 DEF HealStores, FinalizeStores, EditStores, AtStep
    <2>2. /\ Repainting(requests[r]) /\ ~Storing(requests[r]) /\ ~Leaving(requests[r])
          /\ ~Dropping(requests[r])
          /\ requests[r].step # "finalizeLists" => Wrapless(requests[r])
      BY <2>1 DEF Repainting, Storing, Leaving, Dropping, Wrapless
    <2>3. CASE Finishes(r) /\ UNCHANGED <<card, pictures>>
      <3>1. card.at # "absent"
        BY <2>1 DEF CardIsOne
      <3> QED
        BY <2>2, <2>3, <3>1, RequestTypes, RequestGoesOn DEF Finishes
    <2>4. ASSUME NEW step \in {"healStores", "finalizeStores", "editStores"}, Stores(r, step),
                 step # "finalizeStores" => requests[r].step # "finalizeLists"
          PROVE  ImagesInv'
      <3>1. step # "finalizeStores" => card.wrap = NoKey
        BY <2>2, <2>4 DEF WrapIsOff
      <3> QED
        BY <2>2, <2>4, <3>1, StoresKeeps
    <2> QED
      BY <2>1, <2>3, <2>4
  <1>3. CASE HealCommits(r) \/ FinalizeCommits(r)
    <2>1. PICK wrap \in {card.wrap, NoKey}, step \in {"healCommits", "finalizeCommits"} :
             /\ requests[r].step \in {"healStores", "finalizeChecks"}
             /\ Commits(r, [card EXCEPT !.path = requests[r].new, !.wrap = wrap], step)
             /\ requests[r].step = "healStores" \/ wrap = NoKey
             /\ step = "healCommits" => requests[r].step = "healStores"
      <3>1. CASE HealCommits(r)
        <4>1. [card EXCEPT !.path = requests[r].new]
              = [card EXCEPT !.path = requests[r].new, !.wrap = card.wrap]
          BY DEF VaultImagesTypeOK
        <4> QED
          BY <3>1, <4>1 DEF HealCommits, AtStep
      <3>2. CASE FinalizeCommits(r)
        BY <3>2 DEF FinalizeCommits, AtStep
      <3> QED
        BY <1>3, <3>1, <3>2
    <2>2. /\ Storing(requests[r]) /\ Repainting(requests[r])
          /\ Wrapless(requests[r]) \/ wrap = NoKey
      BY <2>1 DEF Storing, Repainting, Wrapless
    <2>3. CASE card.at = "deleted"
      <3>1. requests' = [requests EXCEPT ![r] = NoRequest] /\ card' = card /\ UNCHANGED pictures
        BY <2>1, <2>3 DEF Commits, Finishes
      <3> QED
        BY <2>1, <2>3, <3>1, RowGoes
    <2>4. CASE card.at # "deleted"
      <3> DEFINE x == [requests[r] EXCEPT !.step = step]
      <3>1. /\ requests' = [requests EXCEPT ![r] = x] /\ UNCHANGED pictures
            /\ card' = [card EXCEPT !.path = requests[r].new, !.wrap = wrap]
        BY <2>1, <2>4 DEF Commits, StepsTo
      <3>2. /\ x \in ImageRequestSet /\ x.step = step /\ x.old = requests[r].old
            /\ x.new = requests[r].new /\ x.space = requests[r].space
        BY <1>0 DEF ImageRequestSet, Steps
      <3> HIDE DEF x
      <3>3. Leaving(x)
        BY <3>2 DEF Leaving
      <3>4. card.at = "sealed"
        BY <2>2, <2>4 DEF SpaceIsKnown
      <3>5. wrap = NoKey
        BY <2>2 DEF WrapIsOff
      <3> QED
        BY <2>2, <3>1, <3>2, <3>3, <3>4, <3>5, TellsKeeps
    <2> QED
      BY <2>3, <2>4
  <1>4. CASE HealDrops(r) \/ FinalizeDrops(r)
    <2>1. /\ requests[r].step \in {"healCommits", "finalizeCommits"}
          /\ Drops(requests[r].old) /\ UNCHANGED card
          /\ requests' = [requests EXCEPT ![r] = NoRequest]
      BY <1>4 DEF HealDrops, FinalizeDrops, AtStep, Finishes
    <2>2. Leaving(requests[r]) /\ requests[r].step # "idle"
      BY <2>1 DEF Leaving
    <2> QED
      BY <2>1, <2>2, RequestTypes, DropsKeeps
  <1>5. CASE EditDrops(r) \/ DeleteDrops(r)
    <2>1. PICK step \in {"editDrops", "deleteDrops"} :
             /\ Drops(requests[r].old) /\ UNCHANGED card
             /\ requests' = [requests EXCEPT ![r].step = step]
             /\ \/ step = "editDrops" /\ requests[r].step = "editStores"
                \/ step = "deleteDrops" /\ requests[r].step = "deleteLoads"
      BY <1>5 DEF EditDrops, DeleteDrops, AtStep, StepsTo
    <2> DEFINE x == [requests[r] EXCEPT !.step = step]
    <2>2. requests' = [requests EXCEPT ![r] = x]
      BY <2>1
    <2>3. /\ x \in ImageRequestSet /\ x.step = step /\ x.old = requests[r].old
          /\ x.new = requests[r].new /\ x.space = requests[r].space
      BY <1>0 DEF ImageRequestSet, Steps
    <2> HIDE DEF x
    <2>4. /\ Dropping(x) /\ requests[r].step # "idle"
          /\ Storing(x) => Storing(requests[r]) /\ Wrapless(requests[r])
      BY <2>1, <2>3 DEF Dropping, Storing, Wrapless
    <2> QED
      BY <2>1, <2>2, <2>3, <2>4, DropsKeeps
  <1>6. CASE EditCommits(r)
    <2>1. /\ requests[r].step = "editDrops" /\ UNCHANGED pictures
          /\ requests' = [requests EXCEPT ![r] = NoRequest]
          /\ card' = IF card.at = "deleted" THEN card ELSE [card EXCEPT !.path = requests[r].new]
      BY <1>6 DEF EditCommits, AtStep, Finishes
    <2>2. Storing(requests[r]) /\ Repainting(requests[r]) /\ Wrapless(requests[r])
      BY <2>1 DEF Storing, Repainting, Wrapless
    <2>3. CASE card.at = "deleted"
      BY <2>1, <2>3, RowGoes
    <2>4. CASE card.at # "deleted"
      <3>1. card' = [card EXCEPT !.path = requests[r].new, !.wrap = card.wrap]
        BY <2>1, <2>4 DEF VaultImagesTypeOK
      <3>2. card.at = "sealed"
        BY <2>2, <2>4 DEF SpaceIsKnown
      <3> QED
        BY <2>1, <2>2, <3>1, <3>2, RequestTypes, TellsKeeps
    <2> QED
      BY <2>3, <2>4
  <1>7. CASE DeleteCommits(r)
    BY <1>7, RowGoes DEF DeleteCommits, AtStep, Finishes
  <1> QED
    BY <1>1, <1>2, <1>3, <1>4, <1>5, <1>6, <1>7 DEF ImageSteps

\* A card is made, with its picture under the key of its space, of the
\* application, or of its own.
LEMMA CreatesKeeps ==
    ASSUME ImagesInv, NEW row, NEW key \in KeySet, Creates(row, key),
           row \in [at : {"plain", "sealed"}, space : ImageSpaces \cup {"none"},
                    path : PictureNames \cup {NoFile}, wrap : KeySet, moved : BOOLEAN],
           row.at = "plain" => row.path # NoFile /\ key = AppKey /\ row.wrap = NoKey /\ ~row.moved,
           row.path # NoFile => IF row.wrap = NoKey THEN key \in {AppKey, FileKey(row.space)}
                                ELSE key = row.wrap /\ row.wrap.space = row.space
    PROVE  ImagesInv'
PROOF
  <1> USE DEF ImagesInv
  <1>1. /\ \A r \in ImageRequests : requests'[r] = requests[r] /\ requests[r].step = "idle"
        /\ card' = row
        /\ row.path # NoFile => pictures' = [pictures EXCEPT ![row.path] = key]
        /\ row.path = NoFile => pictures' = pictures
        /\ requests' = requests
    BY DEF Creates, CardIsOne
  <1>2. row.path # NoFile => pictures'[row.path] = key
    BY <1>1 DEF VaultImagesTypeOK
  <1>3. pictures' \in [PictureNames -> KeySet]
    BY <1>1 DEF VaultImagesTypeOK
  <1>4. \A r \in ImageRequests : /\ ~Storing(requests'[r]) /\ ~Leaving(requests'[r])
                                 /\ ~Repainting(requests'[r]) /\ ~Wrapless(requests'[r])
    BY <1>1 DEF Storing, Leaving, Repainting, Wrapless
  <1>5. VaultImagesTypeOK'
    BY <1>1, <1>3 DEF VaultImagesTypeOK
  <1>6. StoredIsNew' /\ LeftIsLeft' /\ SpaceIsKnown' /\ WrapIsOff'
    BY <1>4 DEF StoredIsNew, LeftIsLeft, SpaceIsKnown, WrapIsOff
  <1>7. CardIsOne' /\ PlainIsPlain'
    BY <1>1, <1>2 DEF CardIsOne, PlainIsPlain
  <1>8. PictureOpens'
    BY <1>1, <1>2 DEF PictureOpens, image_bytes
  <1> QED
    BY <1>5, <1>6, <1>7, <1>8

\* The card goes to a space: its picture stays where it is.
LEMMA CardMovesKeeps ==
    ASSUME ImagesInv, NEW s \in ImageSpaces, update_vault_item(s) \/ move_sealed_item(s)
    PROVE  ImagesInv'
PROOF
  <1> USE DEF ImagesInv
  <1>1. UNCHANGED <<pictures, requests>>
    BY DEF update_vault_item, move_sealed_item
  <1>2. card \in [at : {"absent", "plain", "sealed", "deleted"},
                  space : ImageSpaces \cup {"none"}, path : PictureNames \cup {NoFile},
                  wrap : KeySet, moved : BOOLEAN]
    BY DEF VaultImagesTypeOK
  <1>3. /\ card.at \in {"plain", "sealed"} /\ card'.at = "sealed" /\ card'.space = s
        /\ card'.path = card.path /\ card'.wrap = card.wrap
        /\ card.at = "plain" => ~card'.moved
        /\ card.at = "sealed" => card'.moved
        /\ card' \in [at : {"absent", "plain", "sealed", "deleted"},
                      space : ImageSpaces \cup {"none"}, path : PictureNames \cup {NoFile},
                      wrap : KeySet, moved : BOOLEAN]
    BY <1>2 DEF update_vault_item, move_sealed_item, CardIsOne
  <1>4. VaultImagesTypeOK'
    BY <1>1, <1>3 DEF VaultImagesTypeOK
  <1>5. StoredIsNew' /\ LeftIsLeft' /\ WrapIsOff'
    BY <1>1, <1>3 DEF StoredIsNew, LeftIsLeft, WrapIsOff
  <1>6. SpaceIsKnown'
    BY <1>1, <1>3 DEF SpaceIsKnown
  <1>7. CardIsOne' /\ PlainIsPlain'
    BY <1>3 DEF CardIsOne, PlainIsPlain
  <1>8. PictureOpens'
    <2>1. CASE card.at = "plain"
      BY <1>1, <1>3, <2>1 DEF CardIsOne, PlainIsPlain, PictureOpens, image_bytes, Dropping
    <2>2. CASE card.at = "sealed"
      <3>1. image_bytes => pictures[card.path] # NoKey
        BY <1>2, KeysDiffer DEF image_bytes
      <3> QED
        BY <1>1, <1>3, <2>2, <3>1 DEF PictureOpens
    <2> QED
      BY <1>3, <2>1, <2>2
  <1> QED
    BY <1>4, <1>5, <1>6, <1>7, <1>8

\* Every action keeps the invariant of the picture.
LEMMA StepKeepsImages ==
    ASSUME ImagesInv, ~BlindEdits, [VaultImagesNext]_imageVars
    PROVE  ImagesInv'
PROOF
  <1>1. card.at = "absent" => card.path = NoFile /\ card.wrap = NoKey /\ card.moved = FALSE
    BY DEF ImagesInv, VaultImagesTypeOK, CardIsOne
  <1>2. card \in [at : {"absent", "plain", "sealed", "deleted"},
                  space : ImageSpaces \cup {"none"}, path : PictureNames \cup {NoFile},
                  wrap : KeySet, moved : BOOLEAN]
    BY DEF ImagesInv, VaultImagesTypeOK
  <1>3. CASE externalize_image
    <2>1. CASE Creates([card EXCEPT !.at = "plain", !.path = 0], AppKey)
      <3> DEFINE row == [card EXCEPT !.at = "plain", !.path = 0]
      <3>1. card.at = "absent"
        BY <2>1 DEF Creates
      <3>2. /\ row \in [at : {"plain", "sealed"}, space : ImageSpaces \cup {"none"},
                        path : PictureNames \cup {NoFile}, wrap : KeySet, moved : BOOLEAN]
            /\ row.path # NoFile /\ row.wrap = NoKey /\ ~row.moved
        BY <1>1, <1>2, <3>1, KeysDiffer
      <3> HIDE DEF row
      <3> QED
        BY <2>1, <3>2, KeysDiffer, CreatesKeeps DEF row
    <2>2. ASSUME NEW s \in ImageSpaces, NEW n \in PictureNames,
                 Creates([card EXCEPT !.at = "sealed", !.space = s, !.path = n], FileKey(s))
          PROVE  ImagesInv'
      <3> DEFINE row == [card EXCEPT !.at = "sealed", !.space = s, !.path = n]
      <3>1. card.at = "absent"
        BY <2>2 DEF Creates
      <3>2. /\ row \in [at : {"plain", "sealed"}, space : ImageSpaces \cup {"none"},
                        path : PictureNames \cup {NoFile}, wrap : KeySet, moved : BOOLEAN]
            /\ row.at = "sealed" /\ row.wrap = NoKey /\ row.space = s
        BY <1>1, <1>2, <3>1
      <3>3. Creates(row, FileKey(s))
        BY <2>2
      <3> HIDE DEF row
      <3> QED
        BY <3>2, <3>3, KeysDiffer, CreatesKeeps
    <2> QED
      BY <1>3, <2>1, <2>2 DEF externalize_image
  <1>4. CASE externalize_blind_image
    <2>1. ASSUME NEW s \in ImageSpaces, NEW n \in PictureNames,
                 Creates([card EXCEPT !.at = "sealed", !.space = s, !.path = n,
                                      !.wrap = BlindKey(s, n)], BlindKey(s, n))
          PROVE  ImagesInv'
      <3> DEFINE row == [card EXCEPT !.at = "sealed", !.space = s, !.path = n,
                                     !.wrap = BlindKey(s, n)]
      <3>1. BlindKey(s, n) \in KeySet /\ BlindKey(s, n).space = s
        BY KeysDiffer
      <3>2. /\ row \in [at : {"plain", "sealed"}, space : ImageSpaces \cup {"none"},
                        path : PictureNames \cup {NoFile}, wrap : KeySet, moved : BOOLEAN]
            /\ row.at = "sealed" /\ row.wrap = BlindKey(s, n) /\ row.space = s
        BY <1>2, <3>1
      <3>3. Creates(row, BlindKey(s, n))
        BY <2>1
      <3> HIDE DEF row
      <3> QED
        BY <3>1, <3>2, <3>3, KeysDiffer, CreatesKeeps
    <2>2. ASSUME NEW s \in ImageSpaces,
                 Creates([card EXCEPT !.at = "sealed", !.space = s], NoKey)
          PROVE  ImagesInv'
      <3> DEFINE row == [card EXCEPT !.at = "sealed", !.space = s]
      <3>1. card.at = "absent"
        BY <2>2 DEF Creates
      <3>2. /\ row \in [at : {"plain", "sealed"}, space : ImageSpaces \cup {"none"},
                        path : PictureNames \cup {NoFile}, wrap : KeySet, moved : BOOLEAN]
            /\ row.at = "sealed" /\ row.path = NoFile
        BY <1>1, <1>2, <3>1
      <3>3. Creates(row, NoKey)
        BY <2>2
      <3> HIDE DEF row
      <3> QED
        BY <3>2, <3>3, KeysDiffer, CreatesKeeps
    <2> QED
      BY <1>4, <2>1, <2>2 DEF externalize_blind_image
  <1>5. CASE UNCHANGED imageVars
    BY <1>5 DEF imageVars, ImagesInv, VaultImagesTypeOK, StoredIsNew, LeftIsLeft, SpaceIsKnown,
                WrapIsOff, CardIsOne, PlainIsPlain, PictureOpens, image_bytes
  <1> QED
    BY <1>3, <1>4, <1>5, CardMovesKeeps, RequestStepsKeep DEF VaultImagesNext

\* At first there is no card.
LEMMA ImagesStart == ASSUME VaultImagesInit PROVE ImagesInv
PROOF
  <1>1. \A r \in ImageRequests : requests[r] = NoRequest
    BY DEF VaultImagesInit
  <1>2. VaultImagesTypeOK
    BY RequestTypes, KeysDiffer DEF VaultImagesInit, VaultImagesTypeOK, ImageRequestSet
  <1>3. card.at = "absent" /\ card.path = NoFile /\ card.wrap = NoKey /\ card.moved = FALSE
    BY DEF VaultImagesInit
  <1> QED
    BY <1>1, <1>2, <1>3, RequestTypes
       DEF ImagesInv, StoredIsNew, LeftIsLeft, SpaceIsKnown, WrapIsOff, CardIsOne,
           PlainIsPlain, PictureOpens

\* The picture a row names is stored and opens the way the row says, for any
\* spaces, unlocks, workers, edits and deletions at once, wherever they break
\* off - as long as no picture is replaced while it is blind, when none opens.
THEOREM PicturesStayOpen ==
    ASSUME ~BlindEdits PROVE VaultImagesSpec => []PictureOpens
PROOF
  <1>1. VaultImagesInit => ImagesInv
    BY ImagesStart
  <1>2. ImagesInv /\ [VaultImagesNext]_imageVars => ImagesInv'
    BY StepKeepsImages
  <1>3. ImagesInv => PictureOpens
    BY DEF ImagesInv
  <1> QED
    BY <1>1, <1>2, <1>3, PTL DEF VaultImagesSpec

\* The types need nothing but themselves, whoever replaces what.
CardRecords == [at : {"absent", "plain", "sealed", "deleted"}, space : ImageSpaces \cup {"none"},
                path : PictureNames \cup {NoFile}, wrap : KeySet, moved : BOOLEAN]
ImagesTypes(c, p, q) == /\ c \in CardRecords /\ p \in [PictureNames -> KeySet]
                        /\ q \in [ImageRequests -> ImageRequestSet]

\* A request that goes on keeps them.
LEMMA RequestStepsAreTyped ==
    ASSUME VaultImagesTypeOK, NEW r \in ImageRequests, ImageSteps(r)
    PROVE  ImagesTypes(card', pictures', requests')
PROOF
  <1>1. /\ card \in CardRecords /\ pictures \in [PictureNames -> KeySet]
        /\ requests \in [ImageRequests -> ImageRequestSet]
        /\ requests[r] \in ImageRequestSet
    BY DEF VaultImagesTypeOK, CardRecords, ImageRequestSet
  <1>2. NoRequest \in ImageRequestSet
    BY RequestTypes
  <1>3. /\ \A s \in Steps : [requests[r] EXCEPT !.step = s] \in ImageRequestSet
        /\ \A s \in Steps, n \in PictureNames :
              [requests[r] EXCEPT !.step = s, !.new = n] \in ImageRequestSet
    BY <1>1, Zenon DEF ImageRequestSet
  <1>4. /\ \A s \in ImageSpaces \cup {"none"} : FileKey(s) \in KeySet
        /\ NoKey \in KeySet /\ NoFile \in PictureNames \cup {NoFile}
    BY KeysDiffer
  <1>5. /\ requests[r].old \in PictureNames \cup {NoFile}
        /\ requests[r].new \in PictureNames \cup {NoFile}
        /\ requests[r].space \in ImageSpaces \cup {"none"}
    BY <1>1 DEF ImageRequestSet
  <1>6. \A n : Drops(n) => pictures' \in [PictureNames -> KeySet]
    BY <1>1, <1>4 DEF Drops
  <1>7. /\ Finishes(r) => requests' \in [ImageRequests -> ImageRequestSet]
        /\ \A s \in Steps : StepsTo(r, s) => requests' \in [ImageRequests -> ImageRequestSet]
    BY <1>1, <1>2, <1>3, Zenon DEF Finishes, StepsTo
  <1>8. /\ [card EXCEPT !.path = requests[r].new] \in CardRecords
        /\ [card EXCEPT !.path = requests[r].new, !.wrap = NoKey] \in CardRecords
        /\ [card EXCEPT !.at = "deleted", !.path = NoFile, !.wrap = NoKey] \in CardRecords
    BY <1>1, <1>4, <1>5 DEF CardRecords
  <1>9. ASSUME NEW s \in Steps, Loads(r, s) PROVE ImagesTypes(card', pictures', requests')
    <2> DEFINE seen == [step |-> s, old |-> card.path, new |-> NoFile, wrap |-> card.wrap,
                        space |-> card.space]
    <2>1. seen \in ImageRequestSet
      BY <1>1, <1>4 DEF CardRecords, ImageRequestSet
    <2>2. requests' = [requests EXCEPT ![r] = seen] /\ UNCHANGED <<card, pictures>>
      BY <1>9 DEF Loads
    <2> HIDE DEF seen
    <2> QED
      BY <1>1, <2>1, <2>2 DEF ImagesTypes
  <1>10. ASSUME NEW s \in Steps, Stores(r, s) PROVE ImagesTypes(card', pictures', requests')
    <2>1. PICK n \in PictureNames :
             /\ pictures' = [pictures EXCEPT ![n] = FileKey(requests[r].space)]
             /\ requests' = [requests EXCEPT ![r] = [requests[r] EXCEPT !.step = s, !.new = n]]
             /\ UNCHANGED card
      BY <1>1, <1>10, Zenon DEF Stores
    <2> QED
      BY <1>1, <1>3, <1>4, <1>5, <2>1, Zenon DEF ImagesTypes
  <1>11. ASSUME NEW row \in CardRecords, NEW s \in Steps, Commits(r, row, s)
         PROVE  ImagesTypes(card', pictures', requests')
    BY <1>1, <1>7, <1>11 DEF Commits, ImagesTypes
  <1>12. {"idle", "healLists", "healStores", "healCommits", "finalizeLists", "finalizeStores",
          "finalizeChecks", "finalizeCommits", "editLoads", "editStores", "editDrops",
          "deleteLoads", "deleteDrops"} = Steps
    BY DEF Steps
  <1>13. CASE HealLists(r) \/ FinalizeLists(r) \/ EditLoads(r) \/ DeleteLoads(r)
    BY <1>9, <1>12, <1>13 DEF HealLists, FinalizeLists, EditLoads, DeleteLoads
  <1>14. CASE HealStores(r) \/ FinalizeStores(r) \/ EditStores(r)
    <2>1. CASE \E s \in {"healStores", "finalizeStores", "editStores"} : Stores(r, s)
      BY <1>10, <1>12, <2>1
    <2>2. CASE Finishes(r) /\ UNCHANGED <<card, pictures>>
      BY <1>1, <1>7, <2>2 DEF ImagesTypes
    <2> QED
      BY <1>14, <2>1, <2>2 DEF HealStores, FinalizeStores, EditStores
  <1>15. CASE HealCommits(r) \/ FinalizeCommits(r)
    BY <1>8, <1>11, <1>12, <1>15 DEF HealCommits, FinalizeCommits
  <1>16. CASE HealDrops(r) \/ FinalizeDrops(r) \/ EditDrops(r) \/ DeleteDrops(r)
    BY <1>1, <1>6, <1>7, <1>12, <1>16
       DEF HealDrops, FinalizeDrops, EditDrops, DeleteDrops, ImagesTypes
  <1>17. CASE FinalizeChecks(r) \/ Breaks(r)
    BY <1>1, <1>7, <1>12, <1>17 DEF FinalizeChecks, Breaks, ImagesTypes
  <1>18. CASE EditCommits(r) \/ DeleteCommits(r)
    BY <1>1, <1>7, <1>8, <1>18 DEF EditCommits, DeleteCommits, ImagesTypes
  <1> QED
    BY <1>13, <1>14, <1>15, <1>16, <1>17, <1>18 DEF ImageSteps

\* Every action keeps the types.
LEMMA StepKeepsImageTypes ==
    ASSUME VaultImagesTypeOK, [VaultImagesNext]_imageVars PROVE VaultImagesTypeOK'
PROOF
  <1>1. /\ card \in CardRecords /\ pictures \in [PictureNames -> KeySet]
        /\ requests \in [ImageRequests -> ImageRequestSet]
    BY DEF VaultImagesTypeOK, CardRecords, ImageRequestSet
  <1> SUFFICES ImagesTypes(card', pictures', requests')
    BY DEF ImagesTypes, VaultImagesTypeOK, CardRecords, ImageRequestSet
  <1>2. ASSUME NEW row \in CardRecords, NEW key \in KeySet, Creates(row, key)
        PROVE  ImagesTypes(card', pictures', requests')
    BY <1>1, <1>2 DEF Creates, ImagesTypes
  <1>3. CASE externalize_image
    <2>1. CASE Creates([card EXCEPT !.at = "plain", !.path = 0], AppKey)
      <3>1. [card EXCEPT !.at = "plain", !.path = 0] \in CardRecords /\ AppKey \in KeySet
        BY <1>1, KeysDiffer DEF CardRecords
      <3> QED
        BY <1>2, <2>1, <3>1
    <2>2. ASSUME NEW s \in ImageSpaces, NEW n \in PictureNames,
                 Creates([card EXCEPT !.at = "sealed", !.space = s, !.path = n], FileKey(s))
          PROVE  ImagesTypes(card', pictures', requests')
      <3>1. /\ [card EXCEPT !.at = "sealed", !.space = s, !.path = n] \in CardRecords
            /\ FileKey(s) \in KeySet
        BY <1>1, KeysDiffer DEF CardRecords
      <3> QED
        BY <1>2, <2>2, <3>1
    <2> QED
      BY <1>3, <2>1, <2>2, Zenon DEF externalize_image
  <1>4. CASE externalize_blind_image
    <2>1. ASSUME NEW s \in ImageSpaces, NEW n \in PictureNames,
                 Creates([card EXCEPT !.at = "sealed", !.space = s, !.path = n,
                                      !.wrap = BlindKey(s, n)], BlindKey(s, n))
          PROVE  ImagesTypes(card', pictures', requests')
      <3>1. BlindKey(s, n) \in KeySet
        BY KeysDiffer
      <3>2. [card EXCEPT !.at = "sealed", !.space = s, !.path = n, !.wrap = BlindKey(s, n)]
               \in CardRecords
        BY <1>1, <3>1 DEF CardRecords
      <3> QED
        BY <1>2, <2>1, <3>1, <3>2
    <2>2. ASSUME NEW s \in ImageSpaces, Creates([card EXCEPT !.at = "sealed", !.space = s], NoKey)
          PROVE  ImagesTypes(card', pictures', requests')
      <3>1. [card EXCEPT !.at = "sealed", !.space = s] \in CardRecords /\ NoKey \in KeySet
        BY <1>1, KeysDiffer DEF CardRecords
      <3> QED
        BY <1>2, <2>2, <3>1
    <2> QED
      BY <1>4, <2>1, <2>2, Zenon DEF externalize_blind_image
  <1>5. ASSUME NEW s \in ImageSpaces, update_vault_item(s) \/ move_sealed_item(s)
        PROVE  ImagesTypes(card', pictures', requests')
    BY <1>1, <1>5 DEF update_vault_item, move_sealed_item, CardRecords, ImagesTypes
  <1>6. CASE UNCHANGED imageVars
    BY <1>1, <1>6 DEF imageVars, ImagesTypes
  <1> QED
    BY <1>3, <1>4, <1>5, <1>6, RequestStepsAreTyped DEF VaultImagesNext

\* The row, its files and the requests keep their types.
THEOREM ImagesAreTyped == VaultImagesSpec => []VaultImagesTypeOK
PROOF
  <1>1. VaultImagesInit => VaultImagesTypeOK
    BY ImagesStart DEF ImagesInv
  <1>2. VaultImagesTypeOK /\ [VaultImagesNext]_imageVars => VaultImagesTypeOK'
    BY StepKeepsImageTypes
  <1> QED
    BY <1>1, <1>2, PTL DEF VaultImagesSpec

-----------------------------------------------------------------------------
(***************************************************************************)
(* The turns with MIKU.  A turn whose key has not expired holds it until   *)
(* it is released; what it answers from ends like the order of the turns   *)
(* that were kept, back to the last one that outlived its key.             *)
(***************************************************************************)
Lapsed == {t \in Talking : turns[t].lapsed}

\* Window h ends like order o, as far as the window reaches and no turn is gone.
EndsLike(h, o, gone) ==
    \A i \in DOMAIN o :
       \/ Len(o) - i >= HISTORY_TURNS
       \/ \E m \in i..Len(o) : o[m] \in gone
       \/ /\ Len(h) > Len(o) - i
          /\ h[Len(h) - (Len(o) - i)] = o[i]

HasSetKey(t) == turns[t].at \in {"setting", "reading", "answering", "saving", "committing",
                                 "releasing"}
WillBeKept(t) == \/ turns[t].at \in {"answering", "saving"}
                 \/ turns[t].at = "committing" /\ About(t) = "thread"

KeyIsHeld == \A t \in Talking : HasSetKey(t) /\ ~turns[t].lapsed => contextLock[About(t)] = t
WindowsMatch ==
    /\ history["thread"] = order["thread"]
    /\ EndsLike(history["session"], order["session"], Lapsed)
    /\ \A t \in Talking : WillBeKept(t) /\ ~turns[t].lapsed =>
          EndsLike(turns[t].read, order[About(t)], Lapsed)
KeptIsPast ==
    /\ \A k \in Keys : \A i \in DOMAIN order[k] :
          turns[order[k][i]].at \in {"committing", "releasing", "done"}
    /\ \A t \in Talking : At(t, "saving") => About(t) = "session"
CancelledRun == \A t \in Talking : turns[t].cancelled => Running(t)

MikuInv ==
    /\ MikuTypeOK
    /\ KeyIsHeld
    /\ WindowsMatch
    /\ KeptIsPast
    /\ CancelledRun
    /\ EarlierTurnsAreRead

\* A window of HISTORY_TURNS ends like the order if the whole history does.
LEMMA LastEndsLike ==
    ASSUME NEW h \in Seq(Talking), NEW o \in Seq(Talking), NEW gone
    PROVE  Last(h) \in Seq(Talking) /\ (EndsLike(h, o, gone) => EndsLike(Last(h), o, gone))
  <1>1. HISTORY_TURNS \in Nat \ {0} /\ Len(h) \in Nat /\ Len(o) \in Nat /\ DOMAIN o = 1..Len(o)
    BY MikuAssumption
  <1>2. CASE Len(h) <= HISTORY_TURNS
    BY <1>1, <1>2 DEF Last
  <1>3. CASE Len(h) > HISTORY_TURNS
    <2> DEFINE l == SubSeq(h, Len(h) - HISTORY_TURNS + 1, Len(h))
    <2>1. /\ l \in Seq(Talking) /\ Len(l) = HISTORY_TURNS
          /\ \A x \in 1..HISTORY_TURNS : l[x] = h[Len(h) - HISTORY_TURNS + x]
      BY <1>1, <1>3
    <2>2. Last(h) = l
      BY <1>1, <1>3 DEF Last
    <2> HIDE DEF l
    <2>3. ASSUME EndsLike(h, o, gone), NEW i \in DOMAIN o
          PROVE  \/ Len(o) - i >= HISTORY_TURNS
                 \/ \E m \in i..Len(o) : o[m] \in gone
                 \/ /\ Len(l) > Len(o) - i
                    /\ l[Len(l) - (Len(o) - i)] = o[i]
      <3>1. CASE Len(o) - i >= HISTORY_TURNS
        BY <3>1
      <3>2. CASE \E m \in i..Len(o) : o[m] \in gone
        BY <3>2
      <3>3. CASE Len(o) - i < HISTORY_TURNS /\ h[Len(h) - (Len(o) - i)] = o[i]
        <4> DEFINE x == HISTORY_TURNS - (Len(o) - i)
        <4>1. x \in 1..HISTORY_TURNS
          BY <1>1, <3>3
        <4>2. l[x] = h[Len(h) - HISTORY_TURNS + x]
          BY <2>1, <4>1
        <4>3. Len(h) - HISTORY_TURNS + x = Len(h) - (Len(o) - i)
          BY <1>1
        <4> QED BY <1>1, <2>1, <3>3, <4>2, <4>3
      <3> QED BY <1>1, <2>3, <3>1, <3>2, <3>3 DEF EndsLike
    <2> QED BY <2>1, <2>2, <2>3 DEF EndsLike
  <1> QED BY <1>1, <1>2, <1>3

\* What ends like an order goes on doing so when more turns are gone.
LEMMA EndsLikeStays ==
    ASSUME NEW h, NEW o, NEW gone, NEW more, gone \subseteq more, EndsLike(h, o, gone)
    PROVE  EndsLike(h, o, more)
  BY DEF EndsLike

\* A history ends like itself.
LEMMA SameEndsLike ==
    ASSUME NEW o \in Seq(Talking), NEW gone
    PROVE  EndsLike(o, o, gone)
  <1>1. ASSUME NEW i \in DOMAIN o
        PROVE  Len(o) > Len(o) - i /\ Len(o) - (Len(o) - i) = i
    OBVIOUS
  <1> QED BY <1>1 DEF EndsLike

\* A turn joins both, or one that lapsed joins the order.
LEMMA JoinedEndsLike ==
    ASSUME NEW h \in Seq(Talking), NEW o \in Seq(Talking), NEW gone, NEW t \in Talking
    PROVE  /\ EndsLike(h, o, gone) => EndsLike(Append(h, t), Append(o, t), gone)
           /\ t \in gone => \A g : EndsLike(g, Append(o, t), gone)
  <1> DEFINE oo == Append(o, t)
             hh == Append(h, t)
  <1>1. /\ Len(o) \in Nat /\ Len(h) \in Nat /\ DOMAIN o = 1..Len(o)
        /\ Len(oo) = Len(o) + 1 /\ Len(hh) = Len(h) + 1 /\ DOMAIN oo = 1..Len(o) + 1
        /\ oo[Len(o) + 1] = t /\ hh[Len(h) + 1] = t
        /\ \A i \in 1..Len(o) : oo[i] = o[i]
        /\ \A i \in 1..Len(h) : hh[i] = h[i]
        /\ HISTORY_TURNS \in Nat \ {0}
    BY MikuAssumption
  <1> HIDE DEF oo, hh
  <1>2. ASSUME EndsLike(h, o, gone), NEW i \in DOMAIN oo
        PROVE  \/ Len(oo) - i >= HISTORY_TURNS
               \/ \E m \in i..Len(oo) : oo[m] \in gone
               \/ /\ Len(hh) > Len(oo) - i
                  /\ hh[Len(hh) - (Len(oo) - i)] = oo[i]
    <2>1. CASE i = Len(o) + 1
      BY <1>1, <2>1
    <2>2. CASE i \in 1..Len(o)
      <3>1. \/ Len(o) - i >= HISTORY_TURNS
            \/ \E m \in i..Len(o) : o[m] \in gone
            \/ Len(h) > Len(o) - i /\ h[Len(h) - (Len(o) - i)] = o[i]
        BY <1>1, <1>2, <2>2 DEF EndsLike
      <3>2. CASE Len(o) - i >= HISTORY_TURNS
        BY <1>1, <2>2, <3>2
      <3>3. CASE \E m \in i..Len(o) : o[m] \in gone
        <4>1. PICK m \in i..Len(o) : o[m] \in gone
          BY <3>3
        <4>2. oo[m] = o[m] /\ m \in i..Len(oo)
          BY <1>1, <2>2
        <4> QED BY <4>1, <4>2
      <3>4. CASE Len(h) > Len(o) - i /\ h[Len(h) - (Len(o) - i)] = o[i]
        <4> DEFINE x == Len(h) - (Len(o) - i)
        <4>1. x \in 1..Len(h) /\ x = Len(hh) - (Len(oo) - i)
          BY <1>1, <2>2, <3>4
        <4>2. hh[x] = o[i] /\ oo[i] = o[i]
          BY <1>1, <2>2, <3>4, <4>1
        <4> HIDE DEF x
        <4> QED BY <1>1, <2>2, <3>4, <4>1, <4>2
      <3> QED BY <3>1, <3>2, <3>3, <3>4
    <2>3. i = Len(o) + 1 \/ i \in 1..Len(o)
      BY <1>1
    <2> QED BY <2>1, <2>2, <2>3
  <1>3. ASSUME t \in gone, NEW i \in DOMAIN oo
        PROVE  \E m \in i..Len(oo) : oo[m] \in gone
    BY <1>1, <1>3
  <1> QED BY <1>2, <1>3 DEF EndsLike, oo, hh

\* What a step may make of a turn while nothing is kept: it goes on, what it will
\* be kept with it had before or reads now, and it holds its key.
GoesOn(t) ==
    /\ turns[t].lapsed => turns'[t].lapsed
    /\ turns'[t].read = turns[t].read \/ At(t, "reading")
    /\ turns[t].at \in {"committing", "releasing", "done"} =>
          turns'[t].at \in {"committing", "releasing", "done"}
    /\ turns'[t].at = "saving" => turns'[t].about = "session"
    /\ turns'[t].cancelled => turns'[t].at \notin {"unasked", "done"}
    /\ HasSetKey(t)' /\ ~turns'[t].lapsed => contextLock'[turns'[t].about] = t
    /\ WillBeKept(t)' =>
          /\ turns'[t].about = turns[t].about
          /\ \/ WillBeKept(t) /\ turns'[t].read = turns[t].read
             \/ turns'[t].read = Last(history[turns[t].about])

\* A step that keeps no turn: every window and every order stay as they are.
LEMMA NothingIsKept ==
    ASSUME MikuInv, MikuTypeOK', UNCHANGED <<history, order>>,
           \A t \in Talking : GoesOn(t)
    PROVE  MikuInv'
  <1>1. /\ \A t \in Talking : turns[t].lapsed => turns'[t].lapsed
        /\ \A k \in Keys : order[k] \in Seq(Talking) /\ history[k] \in Seq(Talking)
        /\ \A t \in Talking : turns[t].about \in Keys
        /\ "thread" \in Keys /\ "session" \in Keys /\ order' = order /\ history' = history
    BY DEF GoesOn, MikuInv, MikuTypeOK, Keys
  <1>2. \A k \in Keys : \A i \in DOMAIN order[k] : order[k][i] \in Talking
    BY <1>1
  <1>3. KeyIsHeld'
    BY DEF GoesOn, KeyIsHeld, About
  <1>4. \A k \in Keys : EndsLike(history[k], order[k], Lapsed)
    <2>1. EndsLike(history["session"], order["session"], Lapsed)
      BY DEF MikuInv, WindowsMatch
    <2>2. EndsLike(history["thread"], order["thread"], Lapsed)
      <3>1. history["thread"] = order["thread"] /\ order["thread"] \in Seq(Talking)
        BY <1>1 DEF MikuInv, WindowsMatch
      <3> QED BY <3>1, SameEndsLike
    <2> QED BY <2>1, <2>2 DEF Keys
  <1>5. WindowsMatch'
    <2>1. history'["thread"] = order'["thread"] /\ Lapsed \subseteq Lapsed'
      BY <1>1 DEF MikuInv, WindowsMatch, Lapsed
    <2>2. EndsLike(history'["session"], order'["session"], Lapsed')
      BY <1>1, <1>4, <2>1, EndsLikeStays
    <2>3. ASSUME NEW t \in Talking, WillBeKept(t)', ~turns'[t].lapsed
          PROVE  EndsLike(turns'[t].read, order'[turns'[t].about], Lapsed')
      <3>1. turns'[t].about = turns[t].about /\ turns[t].about \in Keys /\ ~turns[t].lapsed
        BY <1>1, <2>3 DEF GoesOn
      <3>2. CASE WillBeKept(t) /\ turns'[t].read = turns[t].read
        <4>1. EndsLike(turns[t].read, order[turns[t].about], Lapsed)
          BY <3>1, <3>2 DEF MikuInv, WindowsMatch, About
        <4> QED BY <1>1, <2>1, <3>1, <3>2, <4>1, EndsLikeStays
      <3>3. CASE turns'[t].read = Last(history[turns[t].about])
        <4>1. EndsLike(turns'[t].read, order[turns[t].about], Lapsed)
          BY <1>1, <1>4, <3>1, <3>3, LastEndsLike
        <4> QED BY <1>1, <2>1, <3>1, <4>1, EndsLikeStays
      <3> QED BY <2>3, <3>2, <3>3 DEF GoesOn
    <2> QED BY <2>1, <2>2, <2>3 DEF WindowsMatch, About
  <1>6. KeptIsPast'
    BY <1>1, <1>2 DEF GoesOn, MikuInv, KeptIsPast, At, About
  <1>7. EarlierTurnsAreRead'
    <2>1. ASSUME NEW k \in Keys, NEW j \in DOMAIN order[k], NEW i \in 1..j - 1
          PROVE  \/ j - i > HISTORY_TURNS
                 \/ \E x \in DOMAIN turns'[order[k][j]].read :
                       turns'[order[k][j]].read[x] = order[k][i]
                 \/ \E m \in i..j : turns'[order[k][m]].lapsed
      <3>1. order[k][j] \in Talking /\ turns'[order[k][j]].read = turns[order[k][j]].read
        BY <1>2 DEF GoesOn, MikuInv, KeptIsPast, At
      <3>2. \A m \in i..j : order[k][m] \in Talking
        <4>1. \A m \in i..j : m \in DOMAIN order[k]
          BY <1>1
        <4> QED BY <1>2, <4>1
      <3> QED BY <1>1, <3>1, <3>2 DEF MikuInv, EarlierTurnsAreRead
    <2> QED BY <1>1, <2>1 DEF EarlierTurnsAreRead
  <1>8. CancelledRun'
    BY DEF GoesOn, CancelledRun, Running
  <1> QED BY <1>3, <1>5, <1>6, <1>7, <1>8 DEF MikuInv

Places == {"unasked", "asked", "setting", "reading", "answering", "saving", "committing",
           "releasing", "done"}
TurnsOfMiku == [at : Places, about : Keys, read : Seq(Talking), holds : BOOLEAN,
                cancelled : BOOLEAN, lapsed : BOOLEAN]

\* Only the mark of a cancellation may differ.
SameTurn(u, v) == /\ u \in TurnsOfMiku /\ v \in TurnsOfMiku
                  /\ u.at = v.at /\ u.about = v.about /\ u.read = v.read
                  /\ u.lapsed = v.lapsed /\ u.holds = v.holds
                  /\ u.cancelled => v.cancelled \/ v.at \notin {"unasked", "done"}

\* A turn that a step leaves where it is, and its key with it.
LEMMA OthersGoOn ==
    ASSUME MikuInv, NEW t \in Talking, SameTurn(turns'[t], turns[t]),
           contextLock[About(t)] = t => contextLock'[About(t)] = t
    PROVE  GoesOn(t)
  <1>1. /\ turns'[t].at = turns[t].at /\ turns'[t].about = turns[t].about
        /\ turns'[t].read = turns[t].read /\ turns'[t].lapsed = turns[t].lapsed
        /\ turns'[t].cancelled => turns[t].at \notin {"unasked", "done"}
    BY DEF SameTurn, MikuInv, CancelledRun, Running
  <1>2. HasSetKey(t) /\ ~turns[t].lapsed => contextLock[turns[t].about] = t
    BY DEF MikuInv, KeyIsHeld, About
  <1>3. At(t, "saving") => turns[t].about = "session"
    BY DEF MikuInv, KeptIsPast, About
  <1>4. HasSetKey(t)' = HasSetKey(t) /\ WillBeKept(t)' = WillBeKept(t)
    BY <1>1 DEF HasSetKey, WillBeKept, About
  <1> QED BY <1>1, <1>2, <1>3, <1>4 DEF GoesOn, At, About

\* A step of one turn: where it goes, what it reads and what it holds.
StepsOf(t, u) ==
    /\ turns' \in [Talking -> TurnsOfMiku] /\ turns'[t] = u
    /\ \A v \in Talking \ {t} : turns'[v] = turns[v]

\* Putting a record in the place of one turn is such a step.
LEMMA OneTurnSteps ==
    ASSUME MikuTypeOK, NEW t \in Talking, NEW u \in TurnsOfMiku,
           turns' = [turns EXCEPT ![t] = u]
    PROVE  StepsOf(t, u)
  BY DEF MikuTypeOK, TurnsOfMiku, Places, StepsOf

\* What the type says of a turn and of the keys.
LEMMA MikuTypes ==
    ASSUME MikuTypeOK, NEW t \in Talking
    PROVE  /\ turns[t] \in TurnsOfMiku /\ turns[t].about \in Keys /\ turns[t].at \in Places
           /\ turns[t].read \in Seq(Talking) /\ turns[t].cancelled \in BOOLEAN
           /\ turns[t].holds \in BOOLEAN /\ turns[t].lapsed \in BOOLEAN
           /\ t # NoTurn
           /\ \A k \in Keys : contextLock[k] \in Talking \cup {NoTurn}
  BY MikuAssumption DEF MikuTypeOK, TurnsOfMiku, Places

\* The fields a step may write.
LEMMA TurnFields ==
    ASSUME NEW u \in TurnsOfMiku, NEW a \in Places, NEW k \in Keys, NEW r \in Seq(Talking)
    PROVE  /\ [u EXCEPT !.at = a] \in TurnsOfMiku
           /\ [u EXCEPT !.at = a, !.about = k] \in TurnsOfMiku
           /\ [u EXCEPT !.at = a, !.holds = TRUE] \in TurnsOfMiku
           /\ [u EXCEPT !.at = a, !.read = r] \in TurnsOfMiku
           /\ [u EXCEPT !.at = a, !.cancelled = FALSE] \in TurnsOfMiku
           /\ [u EXCEPT !.cancelled = TRUE] \in TurnsOfMiku
           /\ [u EXCEPT !.lapsed = TRUE] \in TurnsOfMiku
  BY DEF TurnsOfMiku

\* A turn that goes from one place to another, and changes nothing else that counts.
LEMMA MovesOn ==
    ASSUME MikuInv, NEW t \in Talking, NEW a \in Places, NEW u \in TurnsOfMiku,
           u.at = a, u.about = turns[t].about, u.read = turns[t].read,
           u.lapsed = turns[t].lapsed, turns'[t] = u, a = "done" => ~u.cancelled,
           turns[t].at \in {"committing", "releasing", "done"} =>
              a \in {"committing", "releasing", "done"},
           a = "saving" => turns[t].about = "session",
           \/ a \in {"asked", "done"} \/ turns[t].lapsed
           \/ contextLock'[About(t)] = t,
           a = "answering" => At(t, "answering"),
           a = "saving" => WillBeKept(t),
           a = "committing" => WillBeKept(t) \/ turns[t].about # "thread",
           a # "unasked"
    PROVE  GoesOn(t)
  <1>1. turns[t].about \in Keys /\ turns[t].lapsed \in BOOLEAN
    BY MikuTypes DEF MikuInv
  <1>2. HasSetKey(t)' /\ ~turns'[t].lapsed => contextLock'[turns'[t].about] = t
    BY DEF HasSetKey, About
  <1>3. WillBeKept(t)' => WillBeKept(t)
    BY DEF WillBeKept, At, About
  <1> QED BY <1>1, <1>2, <1>3 DEF GoesOn, At

\* A barge-in marks the turn that is pending, and leaves it where it is.
LEMMA CancelsPendingMarks ==
    ASSUME MikuTypeOK
    PROVE  /\ CancelsPending \in [Talking -> TurnsOfMiku]
           /\ \A t \in Talking : SameTurn(CancelsPending[t], turns[t])
  <1>1. ASSUME NEW t \in Talking
        PROVE  /\ turns[t] \in TurnsOfMiku
               /\ [turns[t] EXCEPT !.cancelled = TRUE] \in TurnsOfMiku
               /\ SameTurn(turns[t], turns[t])
               /\ Running(t) => SameTurn([turns[t] EXCEPT !.cancelled = TRUE], turns[t])
    <2>1. turns[t] \in TurnsOfMiku
      BY MikuTypes
    <2> QED BY <2>1 DEF SameTurn, TurnsOfMiku, Running
  <1> QED BY <1>1 DEF CancelsPending

\* A message asks for a turn and barges in on the one before.
LEMMA StartTurnKeeps ==
    ASSUME MikuInv, NEW t \in Talking, NEW k \in Keys, _start_turn(t, k)
    PROVE  MikuInv'
  <1> DEFINE u == [CancelsPending[t] EXCEPT !.at = "asked", !.about = k]
  <1>1. /\ CancelsPending \in [Talking -> TurnsOfMiku]
        /\ \A v \in Talking : SameTurn(CancelsPending[v], turns[v])
    BY CancelsPendingMarks DEF MikuInv
  <1>2. turns' = [CancelsPending EXCEPT ![t] = u]
    BY <1>1 DEF _start_turn
  <1>3. /\ u \in TurnsOfMiku /\ u.at = "asked" /\ u.about = k
        /\ u.read = turns[t].read /\ u.lapsed = turns[t].lapsed
    BY ZenonT(60), <1>1 DEF SameTurn, TurnsOfMiku, Places
  <1> HIDE DEF u
  <1>4. /\ turns' \in [Talking -> TurnsOfMiku] /\ turns'[t] = u
        /\ \A v \in Talking \ {t} : SameTurn(turns'[v], turns[v])
    BY <1>1, <1>2, <1>3
  <1>5. MikuTypeOK'
    BY <1>4 DEF MikuInv, MikuTypeOK, _start_turn, TurnsOfMiku, Places
  <1>6. contextLock' = contextLock /\ UNCHANGED <<history, order>> /\ At(t, "unasked")
    BY DEF _start_turn
  <1>7. GoesOn(t)
    <2>1. /\ turns'[t].at = "asked" /\ turns'[t].read = turns[t].read
          /\ turns'[t].lapsed = turns[t].lapsed
      BY <1>3, <1>4
    <2> QED BY <1>6, <2>1 DEF GoesOn, At, HasSetKey, WillBeKept
  <1>8. \A v \in Talking \ {t} : GoesOn(v)
    BY <1>4, <1>6, OthersGoOn
  <1> QED BY <1>5, <1>6, <1>7, <1>8, NothingIsKept

\* The client cancels, or closes the socket.
LEMMA CancelKeeps ==
    ASSUME MikuInv, miku_socket_cancel \/ _cancel_all
    PROVE  MikuInv'
  <1>1. /\ turns' \in [Talking -> TurnsOfMiku]
        /\ \A v \in Talking : SameTurn(turns'[v], turns[v])
    BY CancelsPendingMarks DEF MikuInv, miku_socket_cancel, _cancel_all
  <1>2. contextLock' = contextLock /\ UNCHANGED <<history, order>>
    BY DEF miku_socket_cancel, _cancel_all
  <1>3. MikuTypeOK'
    BY <1>1, <1>2
       DEF MikuInv, MikuTypeOK, miku_socket_cancel, _cancel_all, TurnsOfMiku, Places
  <1>4. \A v \in Talking : GoesOn(v)
    BY <1>1, <1>2, OthersGoOn
  <1> QED BY <1>2, <1>3, <1>4, NothingIsKept

\* A step of one turn that keeps nothing: its own part is left to show.
LEMMA TurnStepsOn ==
    ASSUME MikuInv, NEW t \in Talking, NEW u \in TurnsOfMiku,
           turns' = [turns EXCEPT ![t] = u], UNCHANGED <<history, order>>,
           contextLock' \in [Keys -> Talking \cup {NoTurn}],
           \A v \in Talking \ {t} : \A k \in Keys : contextLock[k] = v => contextLock'[k] = v,
           socket' \in [open : BOOLEAN, pending : SocketTurns \cup {NoTurn}],
           GoesOn(t)
    PROVE  MikuInv'
  <1>1. /\ turns' \in [Talking -> TurnsOfMiku]
        /\ \A v \in Talking \ {t} : turns'[v] = turns[v]
    BY OneTurnSteps DEF MikuInv, StepsOf
  <1>2. MikuTypeOK'
    BY <1>1 DEF MikuInv, MikuTypeOK, TurnsOfMiku, Places
  <1>3. ASSUME NEW v \in Talking \ {t}
        PROVE  GoesOn(v)
    <2>1. turns[v] \in TurnsOfMiku /\ turns[v].about \in Keys
      BY MikuTypes DEF MikuInv
    <2>2. SameTurn(turns'[v], turns[v])
      BY <1>1, <2>1 DEF SameTurn
    <2> QED BY <2>1, <2>2, OthersGoOn DEF About
  <1> QED BY <1>2, <1>3, NothingIsKept

\* A turn that is over, and the socket that may have held it as pending.
LEMMA DoneIsTyped ==
    ASSUME MikuTypeOK, NEW t \in Talking, Done(t, turns)
    PROVE  /\ turns' = [turns EXCEPT ![t] = [turns[t] EXCEPT !.at = "done", !.cancelled = FALSE]]
           /\ socket' \in [open : BOOLEAN, pending : SocketTurns \cup {NoTurn}]
  <1>1. turns' = [turns EXCEPT ![t] = [turns[t] EXCEPT !.at = "done", !.cancelled = FALSE]]
    BY DEF Done, MikuTypeOK
  <1>2. socket' \in [open : BOOLEAN, pending : SocketTurns \cup {NoTurn}]
    BY DEF Done, MikuTypeOK
  <1> QED BY <1>1, <1>2

\* A turn that is over goes on as far as the invariant is concerned.
LEMMA DoneKeeps ==
    ASSUME MikuInv, NEW t \in Talking, Done(t, turns), UNCHANGED <<history, order>>,
           contextLock' \in [Keys -> Talking \cup {NoTurn}],
           \A v \in Talking \ {t} : \A k \in Keys : contextLock[k] = v => contextLock'[k] = v
    PROVE  MikuInv'
  <1> DEFINE u == [turns[t] EXCEPT !.at = "done", !.cancelled = FALSE]
  <1>1. /\ turns' = [turns EXCEPT ![t] = u]
        /\ socket' \in [open : BOOLEAN, pending : SocketTurns \cup {NoTurn}]
    BY DoneIsTyped DEF MikuInv
  <1>2. turns[t] \in TurnsOfMiku /\ "done" \in Places
    BY MikuTypes DEF MikuInv, Places
  <1>3. /\ u \in TurnsOfMiku /\ u.at = "done" /\ u.about = turns[t].about
        /\ u.read = turns[t].read /\ u.lapsed = turns[t].lapsed
        /\ ~u.cancelled
    BY <1>2 DEF TurnsOfMiku
  <1> HIDE DEF u
  <1>4. turns'[t] = u
    BY <1>1, <1>3, OneTurnSteps DEF MikuInv, StepsOf
  <1>5. GoesOn(t)
    BY <1>2, <1>3, <1>4, MovesOn
  <1> QED BY <1>1, <1>3, <1>5, TurnStepsOn

\* A turn moves on to a place with its key, or its clean-up.
LEMMA MoveKeeps ==
    ASSUME MikuInv, NEW t \in Talking, NEW a \in Places, NEW u \in TurnsOfMiku,
           turns' = [turns EXCEPT ![t] = u], UNCHANGED <<history, order>>,
           u.at = a, u.about = turns[t].about, u.read = turns[t].read,
           u.lapsed = turns[t].lapsed,
           socket' = socket, contextLock' = contextLock, HasSetKey(t), a # "done",
           turns[t].at \in {"committing", "releasing", "done"} =>
              a \in {"committing", "releasing", "done"},
           a = "saving" => turns[t].about = "session",
           a = "answering" => At(t, "answering"),
           a = "saving" => WillBeKept(t),
           a = "committing" => WillBeKept(t) \/ turns[t].about # "thread",
           a # "unasked"
    PROVE  MikuInv'
  <1>1. turns'[t] = u
    BY OneTurnSteps DEF MikuInv, StepsOf
  <1>2. turns[t].lapsed \/ contextLock'[About(t)] = t
    BY DEF MikuInv, KeyIsHeld
  <1>3. GoesOn(t)
    BY <1>1, <1>2, MovesOn
  <1>4. /\ contextLock' \in [Keys -> Talking \cup {NoTurn}]
        /\ socket' \in [open : BOOLEAN, pending : SocketTurns \cup {NoTurn}]
    BY DEF MikuInv, MikuTypeOK
  <1> QED BY <1>3, <1>4, TurnStepsOn

\* A turn is kept: it joins the order, and the window that the next one reads.
LEMMA KeepingKeeps ==
    ASSUME MikuInv, NEW t \in Talking, NEW k \in Keys, k = About(t), WillBeKept(t),
           NEW u \in TurnsOfMiku, turns' = [turns EXCEPT ![t] = u],
           u.at \in {"committing", "releasing"}, u.at = "committing" => k = "session",
           u.about = k, u.read = turns[t].read, u.lapsed = turns[t].lapsed,
           NEW h \in Seq(Talking),
           history' = [history EXCEPT ![k] = h],
           k = "session" => h = Last(Append(turns[t].read, t)),
           k = "thread" => h = Append(history[k], t),
           order' = [order EXCEPT ![k] = Append(order[k], t)],
           contextLock' = contextLock, socket' = socket
    PROVE  MikuInv'
  <1> DEFINE o == order[k]
             read == turns[t].read
             n == Len(o)
  <1>1. /\ turns' \in [Talking -> TurnsOfMiku] /\ turns'[t] = u
        /\ \A v \in Talking \ {t} : turns'[v] = turns[v]
    BY OneTurnSteps DEF MikuInv, StepsOf
  <1>2. /\ \A q \in Keys : order[q] \in Seq(Talking) /\ history[q] \in Seq(Talking)
        /\ order \in [Keys -> Seq(Talking)] /\ history \in [Keys -> Seq(Talking)]
        /\ read \in Seq(Talking) /\ turns[t].about = k
        /\ "session" \in Keys /\ "thread" \in Keys /\ Keys = {"session", "thread"}
    BY MikuTypes DEF MikuInv, MikuTypeOK, Keys, About
  <1>3. /\ o \in Seq(Talking) /\ n \in Nat /\ Append(o, t) \in Seq(Talking)
        /\ DOMAIN o = 1..n /\ Len(Append(o, t)) = n + 1 /\ DOMAIN Append(o, t) = 1..n + 1
        /\ Append(o, t)[n + 1] = t /\ \A i \in 1..n : Append(o, t)[i] = o[i]
        /\ \A i \in 1..n : o[i] \in Talking
    BY <1>2
  <1>4. /\ order'[k] = Append(o, t) /\ history'[k] = h
        /\ \A q \in Keys \ {k} : order'[q] = order[q] /\ history'[q] = history[q]
    BY <1>2
  <1> HIDE DEF o, n, read
  <1>5. MikuTypeOK'
    <2>1. order' \in [Keys -> Seq(Talking)] /\ history' \in [Keys -> Seq(Talking)]
      BY <1>2, <1>3 DEF o
    <2> QED BY <1>1, <2>1 DEF MikuInv, MikuTypeOK, TurnsOfMiku, Places
  <1>6. ASSUME NEW v \in Talking
        PROVE  turns'[v].lapsed = turns[v].lapsed /\ turns'[v].read = turns[v].read
    BY <1>1 DEF read
  <1>7. Lapsed' = Lapsed
    BY <1>6 DEF Lapsed
  <1>8. t \in Lapsed \/ EndsLike(read, o, Lapsed)
    BY <1>2 DEF MikuInv, WindowsMatch, Lapsed, About, read, o
  <1>9. KeyIsHeld'
    <2>1. ASSUME NEW v \in Talking, HasSetKey(v)', ~turns'[v].lapsed
          PROVE  contextLock[turns'[v].about] = v
      <3>1. CASE v = t
        <4>1. HasSetKey(t)
          BY DEF WillBeKept, HasSetKey, At
        <4> QED BY <1>1, <1>2, <2>1, <3>1, <4>1 DEF MikuInv, KeyIsHeld, About
      <3>2. CASE v # t
        BY <1>1, <2>1, <3>2 DEF MikuInv, KeyIsHeld, About, HasSetKey
      <3> QED BY <3>1, <3>2
    <2> QED BY <2>1 DEF KeyIsHeld, About
  <1>10. WindowsMatch'
    <2>1. history'["thread"] = order'["thread"]
      BY ZenonT(60), <1>2, <1>4 DEF MikuInv, WindowsMatch, o
    <2>2. EndsLike(history'["session"], order'["session"], Lapsed')
      <3>1. CASE k = "session"
        <4>1. CASE t \in Lapsed
          BY <1>2, <1>3, <1>4, <1>7, <3>1, <4>1, JoinedEndsLike
        <4>2. CASE EndsLike(read, o, Lapsed)
          <5>1. EndsLike(Append(read, t), Append(o, t), Lapsed)
            BY <1>2, <1>3, <4>2, JoinedEndsLike
          <5>2. Append(read, t) \in Seq(Talking)
            BY <1>2
          <5>3. EndsLike(Last(Append(read, t)), Append(o, t), Lapsed)
            BY <1>3, <5>1, <5>2, LastEndsLike
          <5> QED BY <1>4, <1>7, <3>1, <5>3 DEF read
        <4> QED BY <1>8, <4>1, <4>2
      <3>2. CASE k # "session"
        BY <1>2, <1>4, <1>7, <3>2 DEF MikuInv, WindowsMatch
      <3> QED BY <3>1, <3>2
    <2>3. ASSUME NEW v \in Talking, WillBeKept(v)', ~turns'[v].lapsed
          PROVE  EndsLike(turns'[v].read, order'[turns'[v].about], Lapsed')
      <3>1. v # t
        BY <1>1, <1>2, <2>3 DEF WillBeKept, At, About
      <3>2. turns'[v] = turns[v] /\ WillBeKept(v) /\ turns[v].about \in Keys
        BY <1>1, <2>3, <3>1, MikuTypes DEF WillBeKept, At, About, MikuInv
      <3>3. EndsLike(turns[v].read, order[turns[v].about], Lapsed)
        BY <2>3, <3>2 DEF MikuInv, WindowsMatch, About
      <3>4. CASE turns[v].about # k
        BY <1>4, <1>7, <3>2, <3>3, <3>4
      <3>5. CASE turns[v].about = k
        <4>1. t \in Lapsed
          <5>1. contextLock[k] = v
            BY <2>3, <3>2, <3>5 DEF MikuInv, KeyIsHeld, About, WillBeKept, HasSetKey, At
          <5>2. ~turns[t].lapsed => contextLock[k] = t
            BY DEF MikuInv, KeyIsHeld, About, WillBeKept, HasSetKey, At
          <5> QED BY <3>1, <5>1, <5>2 DEF Lapsed
        <4>2. EndsLike(turns[v].read, Append(o, t), Lapsed)
          BY <1>3, <4>1, JoinedEndsLike
        <4> QED BY <1>4, <1>7, <3>2, <3>5, <4>2
      <3> QED BY <3>4, <3>5
    <2> QED BY <2>1, <2>2, <2>3 DEF WindowsMatch, About
  <1>11. KeptIsPast'
    <2>1. ASSUME NEW v \in Talking, turns[v].at \in {"committing", "releasing", "done"} \/ v = t
          PROVE  turns'[v].at \in {"committing", "releasing", "done"}
      BY <1>1, <2>1
    <2>2. ASSUME NEW q \in Keys, NEW i \in DOMAIN order'[q]
          PROVE  turns'[order'[q][i]].at \in {"committing", "releasing", "done"}
      <3>1. CASE q # k
        <4>1. order'[q] = order[q] /\ order[q][i] \in Talking
          BY <1>2, <1>4, <2>2, <3>1
        <4>2. turns[order[q][i]].at \in {"committing", "releasing", "done"}
          BY <2>2, <4>1 DEF MikuInv, KeptIsPast
        <4> QED BY <2>1, <4>1, <4>2
      <3>2. CASE q = k /\ i = n + 1
        <4>1. order'[q][i] = t
          BY <1>3, <1>4, <3>2
        <4> QED BY <2>1, <4>1
      <3>3. CASE q = k /\ i \in 1..n
        <4>1. order'[q][i] = o[i] /\ o[i] \in Talking
          BY ZenonT(60), <1>3, <1>4, <3>3
        <4>2. turns[o[i]].at \in {"committing", "releasing", "done"}
          BY <1>3, <3>3 DEF MikuInv, KeptIsPast, o
        <4> QED BY <2>1, <4>1, <4>2
      <3>4. q = k => i = n + 1 \/ i \in 1..n
        BY <1>3, <1>4, <2>2
      <3> QED BY <3>1, <3>2, <3>3, <3>4
    <2>3. ASSUME NEW v \in Talking, turns'[v].at = "saving"
          PROVE  turns'[v].about = "session"
      <3>1. v # t
        BY <1>1, <2>3
      <3> QED BY <1>1, <2>3, <3>1 DEF MikuInv, KeptIsPast, At, About
    <2> QED BY <2>2, <2>3 DEF KeptIsPast, At, About
  <1>12. EarlierTurnsAreRead'
    <2>1. ASSUME NEW q \in Keys, NEW j \in DOMAIN order[q], NEW i \in 1..j - 1
          PROVE  \/ j - i > HISTORY_TURNS
                 \/ \E x \in DOMAIN turns'[order[q][j]].read :
                       turns'[order[q][j]].read[x] = order[q][i]
                 \/ \E m \in i..j : turns'[order[q][m]].lapsed
      <3>1. \A m \in i..j : order[q][m] \in Talking
        <4>1. \A m \in i..j : m \in DOMAIN order[q]
          BY <1>2
        <4> QED BY <1>2, <4>1
      <3>2. j \in i..j
        BY <1>2
      <3>3. turns'[order[q][j]].read = turns[order[q][j]].read
        BY <1>6, <3>1, <3>2
      <3> QED BY <1>6, <3>1, <3>3 DEF MikuInv, EarlierTurnsAreRead
    <2>2. ASSUME NEW q \in Keys, NEW j \in DOMAIN order'[q], NEW i \in 1..j - 1
          PROVE  \/ j - i > HISTORY_TURNS
                 \/ \E x \in DOMAIN turns'[order'[q][j]].read :
                       turns'[order'[q][j]].read[x] = order'[q][i]
                 \/ \E m \in i..j : turns'[order'[q][m]].lapsed
      <3>1. CASE q # k
        BY SMTT(30), <1>4, <2>1, <3>1
      <3>2. CASE q = k /\ j \in 1..n
        <4>1. j \in DOMAIN order[q] /\ order'[q][j] = order[q][j] /\ order'[q][i] = order[q][i]
              /\ \A m \in i..j : order'[q][m] = order[q][m]
          <5>1. order[q] = o /\ order'[q] = Append(o, t) /\ i \in 1..n /\ \A m \in i..j : m \in 1..n
            BY <1>3, <1>4, <3>2 DEF o
          <5> QED BY <1>3, <3>2, <5>1
        <4>2. \/ j - i > HISTORY_TURNS
              \/ \E x \in DOMAIN turns'[order[q][j]].read :
                    turns'[order[q][j]].read[x] = order[q][i]
              \/ \E m \in i..j : turns'[order[q][m]].lapsed
          BY SMTT(30), <2>1, <4>1
        <4> QED BY <4>1, <4>2
      <3>3. CASE q = k /\ j = n + 1
        <4>1. /\ i \in 1..n /\ order'[q][j] = t /\ order'[q][i] = o[i]
              /\ \A m \in i..n : order'[q][m] = o[m]
          <5>1. order'[q] = Append(o, t) /\ i \in 1..n /\ \A m \in i..n : m \in 1..n
            BY <1>3, <1>4, <3>3
          <5> QED BY <1>3, <3>3, <5>1
        <4>2. turns'[t].read = read
          BY <1>6 DEF read
        <4>3. CASE t \in Lapsed
          <5>1. turns'[order'[q][j]].lapsed /\ j \in i..j
            BY SMTT(30), <1>3, <1>6, <3>3, <4>1, <4>3 DEF Lapsed
          <5> QED BY <5>1
        <4>4. CASE EndsLike(read, o, Lapsed)
          <5>1. \/ n - i >= HISTORY_TURNS
                \/ \E m \in i..n : o[m] \in Lapsed
                \/ Len(read) > n - i /\ read[Len(read) - (n - i)] = o[i]
            BY <1>3, <4>1, <4>4 DEF EndsLike, n
          <5>2. CASE n - i >= HISTORY_TURNS
            BY <1>3, <3>3, <4>1, <5>2, MikuAssumption
          <5>3. CASE \E m \in i..n : o[m] \in Lapsed
            <6>1. PICK m \in i..n : o[m] \in Lapsed
              BY <5>3
            <6>2. m \in i..j /\ order'[q][m] = o[m] /\ o[m] \in Talking
              BY <1>3, <3>3, <4>1
            <6>3. turns'[order'[q][m]].lapsed
              BY <1>6, <6>1, <6>2 DEF Lapsed
            <6> QED BY <6>2, <6>3
          <5>4. CASE Len(read) > n - i /\ read[Len(read) - (n - i)] = o[i]
            <6>1. Len(read) - (n - i) \in DOMAIN read
              BY <1>2, <1>3, <4>1, <5>4
            <6> QED BY <4>1, <4>2, <5>4, <6>1
          <5> QED BY <5>1, <5>2, <5>3, <5>4
        <4> QED BY <1>8, <4>3, <4>4
      <3>4. q = k => j = n + 1 \/ j \in 1..n
        BY <1>3, <1>4, <2>2
      <3> QED BY <3>1, <3>2, <3>3, <3>4
    <2> QED BY <2>2 DEF EarlierTurnsAreRead
  <1>13. CancelledRun'
    BY <1>1 DEF MikuInv, CancelledRun, Running
  <1> QED BY <1>5, <1>9, <1>10, <1>11, <1>12, <1>13 DEF MikuInv

\* A request over HTTP.
LEMMA QueryRequestKeeps ==
    ASSUME MikuInv, NEW t \in Talking, NEW k \in Keys, miku_query(t, k)
    PROVE  MikuInv'
  <1> DEFINE u == [turns[t] EXCEPT !.at = "asked", !.about = k]
  <1>1. /\ turns[t] \in TurnsOfMiku /\ "asked" \in Places /\ At(t, "unasked")
        /\ UNCHANGED <<contextLock, history, order, socket>>
    BY MikuTypes DEF MikuInv, Places, miku_query
  <1>2. turns' = [turns EXCEPT ![t] = u]
    BY DEF miku_query
  <1>3. /\ u \in TurnsOfMiku /\ u.at = "asked" /\ u.read = turns[t].read
        /\ u.lapsed = turns[t].lapsed
    BY <1>1 DEF TurnsOfMiku, Places
  <1> HIDE DEF u
  <1>4. turns'[t] = u
    BY <1>2, <1>3, OneTurnSteps DEF MikuInv, StepsOf
  <1>5. GoesOn(t)
    BY <1>1, <1>3, <1>4 DEF GoesOn, At, HasSetKey, WillBeKept
  <1>6. /\ contextLock' \in [Keys -> Talking \cup {NoTurn}]
        /\ socket' \in [open : BOOLEAN, pending : SocketTurns \cup {NoTurn}]
    BY <1>1 DEF MikuInv, MikuTypeOK
  <1> QED BY <1>1, <1>2, <1>3, <1>5, <1>6, TurnStepsOn

\* The key is set, or is there already and the turn ends with an error.
LEMMA AcquireKeeps ==
    ASSUME MikuInv, NEW t \in Talking, acquire_context_lock(t)
    PROVE  MikuInv'
  <1>1. /\ turns[t] \in TurnsOfMiku /\ turns[t].about \in Keys /\ At(t, "asked")
        /\ UNCHANGED <<history, order>> /\ contextLock \in [Keys -> Talking \cup {NoTurn}]
        /\ NoTurn \notin Talking
    BY MikuTypes, MikuAssumption DEF MikuInv, MikuTypeOK, acquire_context_lock, Goes
  <1>2. CASE contextLock[About(t)] = NoTurn
    <2> DEFINE u == [turns[t] EXCEPT !.at = "setting"]
    <2>1. /\ turns' = [turns EXCEPT ![t] = u] /\ socket' = socket
          /\ contextLock' = [contextLock EXCEPT ![About(t)] = t]
      BY <1>2 DEF acquire_context_lock, Moves
    <2>2. /\ u \in TurnsOfMiku /\ u.at = "setting" /\ u.about = turns[t].about
          /\ u.read = turns[t].read /\ u.lapsed = turns[t].lapsed
      BY <1>1 DEF TurnsOfMiku, Places
    <2> HIDE DEF u
    <2>3. turns'[t] = u
      BY <2>1, <2>2, OneTurnSteps DEF MikuInv, StepsOf
    <2>4. /\ contextLock' \in [Keys -> Talking \cup {NoTurn}]
          /\ contextLock'[About(t)] = t
          /\ \A v \in Talking : \A k \in Keys : contextLock[k] = v => contextLock'[k] = v
      BY <1>1, <1>2, <2>1 DEF About
    <2>5. GoesOn(t)
      BY <1>1, <2>2, <2>3, <2>4, MovesOn DEF At, Places
    <2>6. socket' \in [open : BOOLEAN, pending : SocketTurns \cup {NoTurn}]
      BY <2>1 DEF MikuInv, MikuTypeOK
    <2> QED BY <1>1, <2>1, <2>2, <2>4, <2>5, <2>6, TurnStepsOn
  <1>3. CASE contextLock[About(t)] # NoTurn
    <2>1. Done(t, turns) /\ contextLock' = contextLock
      BY <1>3 DEF acquire_context_lock
    <2> QED BY <1>1, <2>1, DoneKeeps
  <1> QED BY <1>2, <1>3

\* Its token, the cascade, a failure, the commit of a turn without a thread.
LEMMA PlainStepsKeep ==
    ASSUME MikuInv, NEW t \in Talking,
           \/ LearnsToken(t) \/ query(t) \/ QueryFails(t)
           \/ commit(t) /\ About(t) # "thread"
    PROVE  MikuInv'
  <1>1. /\ turns[t] \in TurnsOfMiku /\ turns[t].about \in Keys
        /\ UNCHANGED <<history, order, contextLock, socket>>
    BY MikuTypes DEF MikuInv, LearnsToken, query, QueryFails, commit, Keeps
  <1>2. CASE LearnsToken(t)
    <2> DEFINE u == [turns[t] EXCEPT !.at = "reading", !.holds = TRUE]
    <2>1. turns' = [turns EXCEPT ![t] = u] /\ At(t, "setting")
      BY <1>2 DEF LearnsToken, Goes
    <2>2. /\ u \in TurnsOfMiku /\ u.at = "reading" /\ u.about = turns[t].about
          /\ u.read = turns[t].read /\ u.lapsed = turns[t].lapsed
      BY <1>1 DEF TurnsOfMiku, Places
    <2> HIDE DEF u
    <2> QED BY <1>1, <2>1, <2>2, MoveKeeps DEF HasSetKey, At, Places
  <1>3. ASSUME NEW a \in {"saving", "committing", "releasing"}, Moves(t, a), HasSetKey(t),
               turns[t].at \in {"committing", "releasing", "done"} => a = "releasing",
               a = "saving" => turns[t].about = "session" /\ WillBeKept(t),
               a = "committing" => WillBeKept(t)
        PROVE  MikuInv'
    <2> DEFINE u == [turns[t] EXCEPT !.at = a]
    <2>1. turns' = [turns EXCEPT ![t] = u]
      BY <1>3 DEF Moves
    <2>2. /\ u \in TurnsOfMiku /\ u.at = a /\ u.about = turns[t].about
          /\ u.read = turns[t].read /\ u.lapsed = turns[t].lapsed
      BY <1>1 DEF TurnsOfMiku, Places
    <2> HIDE DEF u
    <2> QED BY <1>1, <1>3, <2>1, <2>2, MoveKeeps DEF Places
  <1>4. CASE query(t)
    BY <1>1, <1>3, <1>4 DEF query, Goes, At, HasSetKey, WillBeKept, About, Keys
  <1>5. CASE QueryFails(t)
    BY <1>3, <1>5 DEF QueryFails, Goes, At, HasSetKey
  <1>6. CASE commit(t) /\ About(t) # "thread"
    BY <1>3, <1>6 DEF commit, Goes, At, HasSetKey
  <1> QED BY <1>2, <1>4, <1>5, <1>6

\* The window is read.
LEMMA ReadKeeps ==
    ASSUME MikuInv, NEW t \in Talking, rest_context(t)
    PROVE  MikuInv'
  <1> DEFINE r == Last(history[About(t)])
             u == [turns[t] EXCEPT !.at = "answering", !.read = r]
  <1>1. /\ turns[t] \in TurnsOfMiku /\ turns[t].about \in Keys /\ At(t, "reading")
        /\ UNCHANGED <<contextLock, history, order, socket>>
    BY MikuTypes DEF MikuInv, rest_context, Goes
  <1>2. r \in Seq(Talking)
    <2>1. history[About(t)] \in Seq(Talking)
      BY <1>1 DEF MikuInv, MikuTypeOK, About
    <2> QED BY <2>1, LastEndsLike
  <1>3. turns' = [turns EXCEPT ![t] = u]
    BY DEF rest_context
  <1>4. r = Last(history[turns[t].about])
    BY DEF About
  <1> HIDE DEF r
  <1>5. /\ u \in TurnsOfMiku /\ u.at = "answering" /\ u.about = turns[t].about
        /\ u.read = r /\ u.lapsed = turns[t].lapsed
    BY <1>1, <1>2 DEF TurnsOfMiku, Places
  <1> HIDE DEF u
  <1>6. turns'[t] = u
    BY <1>3, <1>5, OneTurnSteps DEF MikuInv, StepsOf
  <1>7. ~turns[t].lapsed => contextLock[turns[t].about] = t
    BY <1>1 DEF MikuInv, KeyIsHeld, HasSetKey, At, About
  <1>8. GoesOn(t)
    BY <1>1, <1>4, <1>5, <1>6, <1>7 DEF GoesOn, At, HasSetKey, WillBeKept
  <1>9. /\ contextLock' \in [Keys -> Talking \cup {NoTurn}]
        /\ socket' \in [open : BOOLEAN, pending : SocketTurns \cup {NoTurn}]
    BY <1>1 DEF MikuInv, MikuTypeOK
  <1> QED BY <1>1, <1>3, <1>5, <1>8, <1>9, TurnStepsOn

\* The session context is written.
LEMMA SaveKeeps ==
    ASSUME MikuInv, NEW t \in Talking, save_rest_context(t)
    PROVE  MikuInv'
  <1> DEFINE u == [turns[t] EXCEPT !.at = "committing"]
             h == Last(Append(turns[t].read, t))
  <1>1. /\ turns[t] \in TurnsOfMiku /\ turns[t].read \in Seq(Talking)
        /\ At(t, "saving") /\ About(t) = "session" /\ "session" \in Keys
        /\ UNCHANGED <<contextLock, socket>>
        /\ history \in [Keys -> Seq(Talking)] /\ order \in [Keys -> Seq(Talking)]
    BY MikuTypes DEF MikuInv, MikuTypeOK, KeptIsPast, save_rest_context, Goes, Keys
  <1>2. /\ turns' = [turns EXCEPT ![t] = u]
        /\ history' = [history EXCEPT !["session"] = h]
        /\ order' = [order EXCEPT !["session"] = Append(order["session"], t)]
    BY DEF save_rest_context, Moves
  <1>3. h \in Seq(Talking)
    <2>1. Append(turns[t].read, t) \in Seq(Talking)
      BY <1>1
    <2> QED BY <2>1, LastEndsLike
  <1>4. /\ u \in TurnsOfMiku /\ u.at = "committing" /\ u.about = turns[t].about
        /\ u.read = turns[t].read /\ u.lapsed = turns[t].lapsed
    BY <1>1 DEF TurnsOfMiku, Places
  <1>5. WillBeKept(t) /\ "session" # "thread" /\ turns[t].about = "session"
    BY <1>1 DEF WillBeKept, At, About
  <1>6. h = Last(Append(turns[t].read, t))
    OBVIOUS
  <1> HIDE DEF u, h
  <1> QED BY <1>1, <1>2, <1>3, <1>4, <1>5, <1>6, KeepingKeeps

\* The transcript of a thread, with the commit or with a cancellation of it.
LEMMA ThreadKeeps ==
    ASSUME MikuInv, NEW t \in Talking, At(t, "committing"), About(t) = "thread", Keeps(t),
           NEW u \in TurnsOfMiku, turns' = [turns EXCEPT ![t] = u], u.at = "releasing",
           u.about = turns[t].about, u.read = turns[t].read, u.lapsed = turns[t].lapsed,
           UNCHANGED <<contextLock, socket>>
    PROVE  MikuInv'
  <1> DEFINE h == Append(history["thread"], t)
  <1>1. /\ history \in [Keys -> Seq(Talking)] /\ order \in [Keys -> Seq(Talking)]
        /\ "thread" \in Keys
    BY DEF MikuInv, MikuTypeOK, Keys
  <1>2. /\ history' = [history EXCEPT !["thread"] = h]
        /\ order' = [order EXCEPT !["thread"] = Append(order["thread"], t)]
        /\ h \in Seq(Talking)
    BY <1>1 DEF Keeps
  <1>3. WillBeKept(t) /\ turns[t].about = "thread"
    BY DEF WillBeKept, About, At
  <1>4. h = Append(history["thread"], t) /\ "thread" # "session" /\ "releasing" # "committing"
    OBVIOUS
  <1> HIDE DEF h
  <1> QED BY <1>1, <1>2, <1>3, <1>4, KeepingKeeps

\* The commit of a turn over a thread.
LEMMA CommitThreadKeeps ==
    ASSUME MikuInv, NEW t \in Talking, commit(t), About(t) = "thread"
    PROVE  MikuInv'
  <1> DEFINE u == [turns[t] EXCEPT !.at = "releasing"]
  <1>1. /\ turns[t] \in TurnsOfMiku /\ At(t, "committing") /\ Keeps(t)
        /\ turns' = [turns EXCEPT ![t] = u] /\ UNCHANGED <<contextLock, socket>>
    BY MikuTypes DEF MikuInv, commit, Goes, Moves
  <1>2. /\ u \in TurnsOfMiku /\ u.at = "releasing" /\ u.about = turns[t].about
        /\ u.read = turns[t].read /\ u.lapsed = turns[t].lapsed
    BY <1>1 DEF TurnsOfMiku, Places
  <1> HIDE DEF u
  <1> QED BY <1>1, <1>2, ThreadKeeps

\* The key is released by its token, or stays.
LEMMA ReleaseKeeps ==
    ASSUME MikuInv, NEW t \in Talking, release_context_lock(t) \/ ReleaseFails(t)
    PROVE  MikuInv'
  <1>1. /\ Done(t, turns) /\ UNCHANGED <<history, order>>
        /\ contextLock \in [Keys -> Talking \cup {NoTurn}]
    BY DEF release_context_lock, ReleaseFails, MikuInv, MikuTypeOK
  <1>2. \/ contextLock' = contextLock
        \/ /\ contextLock[About(t)] = t
           /\ contextLock' = [contextLock EXCEPT ![About(t)] = NoTurn]
    BY DEF release_context_lock, ReleaseFails
  <1>3. contextLock' \in [Keys -> Talking \cup {NoTurn}]
    BY <1>1, <1>2
  <1>4. \A v \in Talking \ {t} : \A k \in Keys : contextLock[k] = v => contextLock'[k] = v
    BY <1>1, <1>2
  <1> QED BY <1>1, <1>3, <1>4, DoneKeeps

\* CancelledError.
LEMMA CancelledKeeps ==
    ASSUME MikuInv, NEW t \in Talking, IsCancelled(t)
    PROVE  MikuInv'
  <1> DEFINE u == [turns[t] EXCEPT !.at = "releasing", !.cancelled = FALSE]
  <1>1. /\ turns[t] \in TurnsOfMiku /\ contextLock' = contextLock
        /\ contextLock \in [Keys -> Talking \cup {NoTurn}]
        /\ turns[t].at \in Places
    BY MikuTypes DEF MikuInv, MikuTypeOK, IsCancelled
  <1>2. CASE turns[t].at \in {"asked", "releasing"}
    <2>1. Done(t, turns) /\ UNCHANGED <<history, order>>
      BY <1>2 DEF IsCancelled, At
    <2> QED BY <1>1, <2>1, DoneKeeps
  <1>3. CASE turns[t].at \notin {"asked", "releasing"}
    <2>1. turns' = [turns EXCEPT ![t] = u] /\ socket' = socket
      BY <1>3 DEF IsCancelled
    <2>2. /\ u \in TurnsOfMiku /\ u.at = "releasing" /\ u.about = turns[t].about
          /\ u.read = turns[t].read /\ u.lapsed = turns[t].lapsed
      BY <1>1 DEF TurnsOfMiku, Places
    <2> HIDE DEF u
    <2>3. CASE At(t, "committing") /\ Keeps(t) /\ About(t) = "thread"
      BY <1>1, <2>1, <2>2, <2>3, ThreadKeeps
    <2>4. CASE UNCHANGED <<history, order>>
      <3>1. HasSetKey(t)
        BY <1>1, <1>3 DEF Places, HasSetKey, MikuInv, CancelledRun, Running, IsCancelled
      <3> QED BY <1>1, <2>1, <2>2, <2>4, <3>1, MoveKeeps DEF Places
    <2>5. Keeps(t) => About(t) = "thread" \/ UNCHANGED <<history, order>>
      BY DEF Keeps
    <2> QED BY <2>3, <2>4, <2>5 DEF IsCancelled
  <1> QED BY <1>2, <1>3

\* A key expires before it is released; its turn is marked.
LEMMA LapseKeeps ==
    ASSUME MikuInv, NEW k \in Keys, LockLapses(k)
    PROVE  MikuInv'
  <1>1. PICK t \in Talking : t = contextLock[k]
    BY DEF LockLapses, MikuInv, MikuTypeOK
  <1>2. /\ UNCHANGED <<history, order, socket>>
        /\ contextLock' = [contextLock EXCEPT ![k] = NoTurn]
        /\ contextLock \in [Keys -> Talking \cup {NoTurn}]
    BY DEF LockLapses, MikuInv, MikuTypeOK
  <1> DEFINE u == [turns[t] EXCEPT !.lapsed = TRUE]
  <1>3. turns' = [turns EXCEPT ![t] = u]
    BY <1>1 DEF LockLapses
  <1>4. turns[t] \in TurnsOfMiku
    BY MikuTypes DEF MikuInv
  <1>5. /\ u \in TurnsOfMiku /\ u.at = turns[t].at /\ u.about = turns[t].about
        /\ u.read = turns[t].read /\ u.lapsed = TRUE /\ u.cancelled = turns[t].cancelled
    BY <1>4 DEF TurnsOfMiku
  <1> HIDE DEF u
  <1>6. turns'[t] = u
    BY <1>3, <1>5, OneTurnSteps DEF MikuInv, StepsOf
  <1>7. GoesOn(t)
    <2>1. /\ turns'[t].at = turns[t].at /\ turns'[t].about = turns[t].about
          /\ turns'[t].read = turns[t].read /\ turns'[t].lapsed
          /\ turns'[t].cancelled = turns[t].cancelled
      BY <1>5, <1>6
    <2>2. WillBeKept(t)' => WillBeKept(t)
      BY <2>1 DEF WillBeKept, At, About
    <2>3. turns[t].cancelled => turns[t].at \notin {"unasked", "done"}
      BY <1>1 DEF MikuInv, CancelledRun, Running
    <2>4. turns[t].at = "saving" => turns[t].about = "session"
      BY <1>1 DEF MikuInv, KeptIsPast, At, About
    <2> QED BY <2>1, <2>2, <2>3, <2>4 DEF GoesOn
  <1>8. /\ contextLock' \in [Keys -> Talking \cup {NoTurn}]
        /\ socket' \in [open : BOOLEAN, pending : SocketTurns \cup {NoTurn}]
    BY <1>2 DEF MikuInv, MikuTypeOK
  <1>9. \A v \in Talking \ {t} : \A q \in Keys : contextLock[q] = v => contextLock'[q] = v
    BY <1>1, <1>2
  <1> QED BY <1>2, <1>3, <1>5, <1>7, <1>8, <1>9, TurnStepsOn

\* The session context expires, and with it the order of its turns.
LEMMA ExpiryKeeps ==
    ASSUME MikuInv, ContextExpires
    PROVE  MikuInv'
  <1>1. /\ turns' = turns /\ contextLock' = contextLock /\ socket' = socket
        /\ history' = [history EXCEPT !["session"] = <<>>]
        /\ order' = [order EXCEPT !["session"] = <<>>]
        /\ history \in [Keys -> Seq(Talking)] /\ order \in [Keys -> Seq(Talking)]
        /\ "session" \in Keys /\ "thread" \in Keys /\ Keys = {"session", "thread"}
    BY DEF ContextExpires, MikuInv, MikuTypeOK, Keys
  <1>2. /\ order'["session"] = <<>> /\ order'["thread"] = order["thread"]
        /\ history'["session"] = <<>> /\ history'["thread"] = history["thread"]
        /\ DOMAIN <<>> = {}
    BY <1>1
  <1>3. \A h, gone : EndsLike(h, <<>>, gone)
    BY <1>2 DEF EndsLike
  <1>4. MikuTypeOK'
    BY <1>1 DEF MikuInv, MikuTypeOK
  <1>5. KeyIsHeld'
    BY <1>1 DEF MikuInv, KeyIsHeld, HasSetKey, About
  <1>6. WindowsMatch'
    <2>1. Lapsed' = Lapsed
      BY <1>1 DEF Lapsed
    <2>2. ASSUME NEW t \in Talking, WillBeKept(t), ~turns[t].lapsed
          PROVE  EndsLike(turns[t].read, order'[turns[t].about], Lapsed)
      <3>1. EndsLike(turns[t].read, order[turns[t].about], Lapsed) /\ turns[t].about \in Keys
        BY <2>2, MikuTypes DEF MikuInv, WindowsMatch, About
      <3> QED BY <1>1, <1>2, <1>3, <3>1
    <2>3. \A t \in Talking : WillBeKept(t)' => WillBeKept(t)
      BY <1>1 DEF WillBeKept, At, About
    <2>4. history'["thread"] = order'["thread"]
      BY <1>2 DEF MikuInv, WindowsMatch
    <2> QED BY <1>1, <1>2, <1>3, <2>1, <2>2, <2>3, <2>4 DEF WindowsMatch, About
  <1>7. KeptIsPast'
    BY <1>1, <1>2 DEF MikuInv, KeptIsPast, At, About
  <1>8. CancelledRun'
    BY <1>1 DEF MikuInv, CancelledRun, Running
  <1>9. EarlierTurnsAreRead'
    <2>1. \A k \in Keys : order'[k] = order[k] \/ order'[k] = <<>>
      BY <1>1, <1>2
    <2> QED BY SMTT(30), <1>1, <1>2, <2>1 DEF MikuInv, EarlierTurnsAreRead
  <1> QED BY <1>4, <1>5, <1>6, <1>7, <1>8, <1>9 DEF MikuInv

\* Every step keeps the invariant.
LEMMA StepKeepsMiku ==
    ASSUME MikuInv, [MikuTurnsNext]_mikuVars
    PROVE  MikuInv'
  <1>1. CASE UNCHANGED mikuVars
    BY <1>1 DEF mikuVars, MikuInv, MikuTypeOK, KeyIsHeld, WindowsMatch, KeptIsPast, CancelledRun,
                EarlierTurnsAreRead, EndsLike, Lapsed, HasSetKey, WillBeKept, At, About, Running
  <1>2. ASSUME NEW t \in Talking, TurnSteps(t)
        PROVE  MikuInv'
    <2>1. CASE commit(t)
      BY <2>1, PlainStepsKeep, CommitThreadKeeps
    <2> QED BY <1>2, <2>1, AcquireKeeps, PlainStepsKeep, ReadKeeps, SaveKeeps, ReleaseKeeps,
               CancelledKeeps DEF TurnSteps
  <1> QED BY <1>1, <1>2, StartTurnKeeps, QueryRequestKeeps, CancelKeeps, ExpiryKeeps, LapseKeeps
          DEF MikuTurnsNext

\* Nothing was asked and nothing is kept.
LEMMA MikuStart ==
    ASSUME MikuTurnsInit
    PROVE  MikuInv
  <1>1. /\ DOMAIN <<>> = {} /\ <<>> \in Seq(Talking)
        /\ \A k \in Keys : order[k] = <<>> /\ history[k] = <<>>
        /\ \A t \in Talking : turns[t] = Unasked
        /\ "session" \in Keys /\ "thread" \in Keys
    BY DEF MikuTurnsInit, Keys
  <1>2. Unasked \in TurnsOfMiku
    BY <1>1 DEF Unasked, TurnsOfMiku, Places
  <1>3. MikuTypeOK
    BY <1>1, <1>2 DEF MikuTurnsInit, MikuTypeOK, TurnsOfMiku, Places
  <1>4. \A h, gone : EndsLike(h, <<>>, gone)
    BY <1>1 DEF EndsLike
  <1>5. WindowsMatch
    BY <1>1, <1>4 DEF WindowsMatch, WillBeKept, At, Unasked
  <1>6. KeyIsHeld /\ CancelledRun /\ KeptIsPast
    BY <1>1 DEF KeyIsHeld, CancelledRun, KeptIsPast, HasSetKey, At, Unasked
  <1>7. EarlierTurnsAreRead
    BY <1>1 DEF EarlierTurnsAreRead
  <1> QED BY <1>3, <1>5, <1>6, <1>7 DEF MikuInv

(* Turns, keys, histories and the socket have their types (miku/router.py,    *)
(* miku/context_store.py).                                                    *)
THEOREM MikuIsTyped == MikuTurnsSpec => []MikuTypeOK
  <1>1. MikuTurnsInit => MikuInv
    BY MikuStart
  <1>2. MikuInv /\ [MikuTurnsNext]_mikuVars => MikuInv'
    BY StepKeepsMiku
  <1>3. MikuInv => MikuTypeOK
    BY DEF MikuInv
  <1> QED BY <1>1, <1>2, <1>3, PTL DEF MikuTurnsSpec

(* A turn that is kept was answered from a window with the turns kept before  *)
(* it, back to HISTORY_TURNS of them or to one that outlived its key          *)
(* (acquire_context_lock, rest_context, save_rest_context and the commit of a *)
(* thread), for any number of turns over sockets and HTTP, cancellations and  *)
(* failures.                                                                  *)
THEOREM TurnsAreReadInOrder == MikuTurnsSpec => []EarlierTurnsAreRead
  <1>1. MikuTurnsInit => MikuInv
    BY MikuStart
  <1>2. MikuInv /\ [MikuTurnsNext]_mikuVars => MikuInv'
    BY StepKeepsMiku
  <1>3. MikuInv => EarlierTurnsAreRead
    BY DEF MikuInv
  <1> QED BY <1>1, <1>2, <1>3, PTL DEF MikuTurnsSpec

-----------------------------------------------------------------------------
(***************************************************************************)
(* The goals of MIKU.  What a pass has claimed it has written one attempt  *)
(* for, no more than one above the turns that were recorded; when nothing  *)
(* is left to do it has given every claimed goal its end.                  *)
(***************************************************************************)
Claims == UNION {[S -> Nat] : S \in SUBSET Nat}
Ends == UNION {[S -> {"open", "done", "failed"}] : S \in SUBSET Nat}
TurnRecords == [at : {"idle", "listed", "next", "turn"}, todo : SUBSET Nat, claim : Claims,
                ended : Ends, goal : Nat, parks : 0..1]

GoalsHaveTypes ==
    /\ IsFiniteSet(Parked) /\ Parked = 1..Cardinality(Parked)
    /\ goals \in [Parked -> [state : {"open", "done", "failed"}, attempts : 0..TASK_MAX_ATTEMPTS]]
    /\ tried \in [Parked -> Nat] /\ heard \subseteq Parked
    /\ turn \in [Runners -> TurnRecords]
    /\ passDeaths \in 0..MaxPassDeaths

\* The room in the model is enough for what turns are about to park.
RoomIsKept == Cardinality(Parked) + Cardinality(Pending) <= MaxGoals

\* Why a goal is where it is.
GoalHasReason ==
    \A g \in Parked : /\ goals[g].attempts <= tried[g]
                      /\ goals[g].state = "open" => goals[g].attempts < TASK_MAX_ATTEMPTS
                      /\ goals[g].state = "done" => g \in heard
                      /\ goals[g].state = "failed" => tried[g] >= TASK_MAX_ATTEMPTS

ClaimsAreDue(t) ==
    \A g \in DOMAIN t.claim : /\ g \in Parked
                              /\ t.claim[g] \in 1..TASK_MAX_ATTEMPTS
                              /\ t.claim[g] <= tried[g] + 1
EndsAreGiven(r, t) ==
    /\ t.todo \subseteq DOMAIN t.claim
    /\ t.at = "listed" => DOMAIN t.ended = {} /\ t.todo = DOMAIN t.claim
    /\ t.at = "next" => DOMAIN t.ended = DOMAIN t.claim \ t.todo
    /\ t.at = "turn" /\ r \in Passes =>
          /\ t.goal \in DOMAIN t.claim \ t.todo
          /\ DOMAIN t.ended = DOMAIN t.claim \ (t.todo \cup {t.goal})
    /\ r \in Passes => \A g \in DOMAIN t.ended :
          /\ t.ended[g] = "failed" => t.claim[g] >= TASK_MAX_ATTEMPTS
          /\ t.ended[g] = "open" => t.claim[g] < TASK_MAX_ATTEMPTS
    /\ r \in Talks => t.at \in {"idle", "turn"}
    /\ r \in Talks \/ t.at = "idle" => t.parks = 0

GoalsInv ==
    /\ GoalsHaveTypes
    /\ RoomIsKept
    /\ GoalHasReason
    /\ \A r \in Runners : ClaimsAreDue(turn[r]) /\ EndsAreGiven(r, turn[r])

\* How many goals there are is a number, and so is how many are about to be.
LEMMA GoalsAreCounted ==
    ASSUME GoalsInv
    PROVE  /\ IsFiniteSet(Parked) /\ Cardinality(Parked) \in Nat
           /\ IsFiniteSet(Pending) /\ Cardinality(Pending) \in Nat
  <1>1. IsFiniteSet(Parked)
    BY DEF GoalsInv, GoalsHaveTypes
  <1>2. IsFiniteSet(Runners)
    BY GoalsAssumption, FS_Union DEF Runners
  <1>3. Pending \in SUBSET Runners
    BY DEF Pending
  <1>4. IsFiniteSet(Pending)
    BY <1>2, <1>3, FS_Subset
  <1> QED BY <1>1, <1>4, FS_CardinalityType

\* A step of one runner leaves the turns of the others alone.
LEMMA OneTurnChanges ==
    ASSUME GoalsHaveTypes, NEW r \in Runners, NEW t \in TurnRecords, Become(r, t)
    PROVE  /\ turn' \in [Runners -> TurnRecords]
           /\ turn'[r] = t
           /\ \A q \in Runners \ {r} : turn'[q] = turn[q]
  BY DEF GoalsHaveTypes, Become

\* What is about to be parked, after it.
LEMMA PendingAfter ==
    ASSUME GoalsInv, NEW r \in Runners, NEW t \in TurnRecords, Become(r, t)
    PROVE  /\ IsFiniteSet(Pending')
           /\ Cardinality(Pending') \in Nat
           /\ t.parks = turn[r].parks => Cardinality(Pending') = Cardinality(Pending)
           /\ t.parks = 0 => Cardinality(Pending') = Cardinality(Pending) - turn[r].parks
           /\ Cardinality(Pending') <= Cardinality(Pending) + 1
  <1>1. /\ turn'[r] = t
        /\ \A q \in Runners \ {r} : turn'[q] = turn[q]
        /\ turn' \in [Runners -> TurnRecords] /\ turn \in [Runners -> TurnRecords]
    BY OneTurnChanges DEF GoalsInv, GoalsHaveTypes
  <1>2. t.parks \in 0..1 /\ turn[r].parks \in 0..1
    BY <1>1 DEF TurnRecords
  <1>3. IsFiniteSet(Pending) /\ Cardinality(Pending) \in Nat
    BY GoalsAreCounted
  <1>4. turn[r].parks = 0 => r \notin Pending
    BY DEF Pending
  <1>5. turn[r].parks = 1 => r \in Pending
    BY DEF Pending
  <1>6. CASE t.parks = 0
    <2>1. Pending' = Pending \ {r}
      BY <1>1, <1>6 DEF Pending
    <2>2. /\ IsFiniteSet(Pending \ {r})
          /\ Cardinality(Pending \ {r})
               = IF r \in Pending THEN Cardinality(Pending) - 1 ELSE Cardinality(Pending)
      BY <1>3, FS_RemoveElement
    <2>3. Cardinality(Pending \ {r}) = Cardinality(Pending) - turn[r].parks
      BY <1>2, <1>3, <1>4, <1>5, <2>2
    <2>4. Cardinality(Pending \ {r}) \in Nat
      BY <2>2, FS_CardinalityType
    <2> QED BY <1>2, <1>3, <1>6, <2>1, <2>2, <2>3, <2>4
  <1>7. CASE t.parks = 1
    <2>1. Pending' = Pending \cup {r}
      BY <1>1, <1>7 DEF Pending
    <2>2. /\ IsFiniteSet(Pending \cup {r})
          /\ Cardinality(Pending \cup {r})
               = IF r \in Pending THEN Cardinality(Pending) ELSE Cardinality(Pending) + 1
      BY <1>3, FS_AddElement
    <2> QED BY <1>2, <1>3, <1>5, <1>7, <2>1, <2>2
  <1> QED BY <1>2, <1>6, <1>7

\* A step of one runner that changes no goal: what it becomes has to fit, and
\* to leave room for what it parks.
LEMMA TurnMoves ==
    ASSUME GoalsInv, NEW r \in Runners, NEW t \in TurnRecords, Become(r, t),
           UNCHANGED <<goals, tried, heard>>, passDeaths' \in 0..MaxPassDeaths,
           ClaimsAreDue(t), EndsAreGiven(r, t),
           \/ t.parks = turn[r].parks \/ t.parks = 0
           \/ Cardinality(Parked) + Cardinality(Pending) < MaxGoals
    PROVE  GoalsInv'
  <1>1. /\ turn' \in [Runners -> TurnRecords] /\ turn'[r] = t
        /\ \A q \in Runners \ {r} : turn'[q] = turn[q]
    BY OneTurnChanges DEF GoalsInv
  <1>2. Parked' = Parked
    BY DEF Parked
  <1>3. GoalsHaveTypes'
    BY <1>1, <1>2 DEF GoalsInv, GoalsHaveTypes
  <1>4. RoomIsKept'
    <2>1. /\ IsFiniteSet(Pending') /\ Cardinality(Pending') \in Nat
          /\ t.parks = turn[r].parks => Cardinality(Pending') = Cardinality(Pending)
          /\ t.parks = 0 => Cardinality(Pending') = Cardinality(Pending) - turn[r].parks
          /\ Cardinality(Pending') <= Cardinality(Pending) + 1
      BY PendingAfter
    <2>2. turn[r].parks \in 0..1
      BY DEF GoalsInv, GoalsHaveTypes, TurnRecords
    <2>3. Cardinality(Parked) \in Nat /\ Cardinality(Pending) \in Nat
      BY GoalsAreCounted
    <2>4. Cardinality(Parked) + Cardinality(Pending) <= MaxGoals /\ MaxGoals \in Nat
      BY GoalsAssumption DEF GoalsInv, RoomIsKept
    <2>5. Cardinality(Parked) + Cardinality(Pending') <= MaxGoals
      BY <2>1, <2>2, <2>3, <2>4
    <2> QED BY <1>2, <2>5 DEF RoomIsKept
  <1>5. GoalHasReason'
    BY <1>2 DEF GoalsInv, GoalHasReason
  <1>6. ASSUME NEW q \in Runners
        PROVE  ClaimsAreDue(turn[q])' /\ EndsAreGiven(q, turn[q])'
    <2>1. CASE q = r
      BY <1>1, <1>2, <2>1 DEF ClaimsAreDue, EndsAreGiven
    <2>2. CASE q # r
      <3>1. ClaimsAreDue(turn[q]) /\ EndsAreGiven(q, turn[q]) /\ turn'[q] = turn[q]
        BY <1>1, <2>2 DEF GoalsInv
      <3> QED BY <1>2, <3>1 DEF ClaimsAreDue, EndsAreGiven
    <2> QED BY <2>1, <2>2
  <1> QED BY <1>3, <1>4, <1>5, <1>6 DEF GoalsInv

\* A runner that rests, and one that is in a turn of the owner, fit.
LEMMA SilenceFits ==
    ASSUME NEW r \in Runners
    PROVE  /\ Silent \in TurnRecords /\ Silent.parks = 0
           /\ DOMAIN Silent.claim = {} /\ DOMAIN Silent.ended = {}
           /\ ClaimsAreDue(Silent) /\ EndsAreGiven(r, Silent)
  <1>1. DOMAIN <<>> = {}
    OBVIOUS
  <1>2. <<>> \in [{} -> Nat] /\ <<>> \in [{} -> {"open", "done", "failed"}]
    OBVIOUS
  <1>3. <<>> \in Claims /\ <<>> \in Ends
    BY <1>2 DEF Claims, Ends
  <1>4. Silent \in TurnRecords
    BY <1>3 DEF Silent, TurnRecords
  <1> QED BY <1>1, <1>4 DEF Silent, ClaimsAreDue, EndsAreGiven

\* A turn that has an end recorded is one still.
LEMMA EndedIsTurn ==
    ASSUME NEW t \in TurnRecords, NEW e \in Ends
    PROVE  LET u == [t EXCEPT !.at = "next", !.ended = e, !.goal = 0]
           IN /\ u \in TurnRecords /\ u.at = "next" /\ u.ended = e
              /\ u.todo = t.todo /\ u.claim = t.claim /\ u.parks = t.parks
  BY DEF TurnRecords

\* A pass that gives its goal an end: done, or failed after its last attempt, or
\* open before it.
LEMMA EndFits ==
    ASSUME GoalsInv, NEW w \in Passes, Is(w, "turn"), NEW done \in BOOLEAN
    PROVE  /\ finish_task(w, done) \in TurnRecords
           /\ finish_task(w, done).parks = turn[w].parks
           /\ ClaimsAreDue(finish_task(w, done))
           /\ EndsAreGiven(w, finish_task(w, done))
  <1> DEFINE g == turn[w].goal
             state == IF done THEN "done"
                      ELSE IF turn[w].claim[g] >= TASK_MAX_ATTEMPTS THEN "failed" ELSE "open"
             ended == With(turn[w].ended, g, state)
  <1>1. w \in Runners /\ turn[w] \in TurnRecords /\ turn[w].at = "turn"
    BY DEF Runners, GoalsInv, GoalsHaveTypes, Is
  <1>2. ClaimsAreDue(turn[w]) /\ EndsAreGiven(w, turn[w])
    BY <1>1 DEF GoalsInv
  <1>3. g \in DOMAIN turn[w].claim \ turn[w].todo /\ g \in Nat /\ g = turn[w].goal
    BY <1>1, <1>2 DEF EndsAreGiven, TurnRecords
  <1>4. turn[w].claim[g] \in 1..TASK_MAX_ATTEMPTS
    BY <1>2, <1>3 DEF ClaimsAreDue
  <1>5. /\ finish_task(w, done) = [turn[w] EXCEPT !.at = "next", !.ended = ended, !.goal = 0]
        /\ state \in {"open", "done", "failed"}
        /\ state = "failed" => turn[w].claim[g] >= TASK_MAX_ATTEMPTS
        /\ state = "open" => turn[w].claim[g] < TASK_MAX_ATTEMPTS
    BY <1>4, GoalsAssumption DEF finish_task
  <1> HIDE DEF state, g
  <1>6. /\ DOMAIN ended = DOMAIN turn[w].ended \cup {g} /\ ended[g] = state
        /\ \A x \in DOMAIN turn[w].ended \ {g} : ended[x] = turn[w].ended[x]
    BY DEF With
  <1>7. ended \in Ends
    <2>1. PICK S \in SUBSET Nat : turn[w].ended \in [S -> {"open", "done", "failed"}]
      BY <1>1 DEF TurnRecords, Ends
    <2>2. ended \in [S \cup {g} -> {"open", "done", "failed"}] /\ S \cup {g} \in SUBSET Nat
      BY <1>3, <1>5, <2>1 DEF With
    <2> QED BY <2>2 DEF Ends
  <1> HIDE DEF ended
  <1>8. /\ finish_task(w, done) \in TurnRecords
        /\ finish_task(w, done).at = "next" /\ finish_task(w, done).ended = ended
        /\ finish_task(w, done).todo = turn[w].todo /\ finish_task(w, done).claim = turn[w].claim
        /\ finish_task(w, done).parks = turn[w].parks
    <2> DEFINE u == [turn[w] EXCEPT !.at = "next", !.ended = ended, !.goal = 0]
    <2>1. /\ u \in TurnRecords /\ u.at = "next" /\ u.ended = ended
          /\ u.todo = turn[w].todo /\ u.claim = turn[w].claim /\ u.parks = turn[w].parks
      BY <1>1, <1>7, EndedIsTurn, Zenon
    <2>2. finish_task(w, done) = u
      BY <1>5
    <2> HIDE DEF u
    <2> QED BY <2>1, <2>2
  <1>9. ClaimsAreDue(finish_task(w, done))
    BY <1>2, <1>8 DEF ClaimsAreDue
  <1>10. EndsAreGiven(w, finish_task(w, done))
    <2>1. w \notin Talks
      BY GoalsAssumption
    <2>2. DOMAIN ended = DOMAIN turn[w].claim \ turn[w].todo
      BY <1>1, <1>2, <1>3, <1>6 DEF EndsAreGiven
    <2>3. \A x \in DOMAIN ended :
             /\ ended[x] = "failed" => turn[w].claim[x] >= TASK_MAX_ATTEMPTS
             /\ ended[x] = "open" => turn[w].claim[x] < TASK_MAX_ATTEMPTS
      BY <1>2, <1>5, <1>6 DEF EndsAreGiven
    <2>4. turn[w].todo \subseteq DOMAIN turn[w].claim
      BY <1>2 DEF EndsAreGiven
    <2> HIDE DEF finish_task
    <2> QED BY <1>8, <2>1, <2>2, <2>3, <2>4 DEF EndsAreGiven
  <1> QED BY <1>8, <1>9, <1>10

\* A pass lists goals that are open, and claims each once more.
LEMMA ListsDueKeeps ==
    ASSUME GoalsInv, NEW w \in Passes, ListsDue(w)
    PROVE  GoalsInv'
  <1> DEFINE Claimed(some) == [g \in some |-> goals[g].attempts + 1]
             Listed(some) == [Silent EXCEPT !.at = "listed", !.todo = some,
                                            !.claim = Claimed(some)]
  <1>1. PICK some : /\ some \subseteq {g \in Parked : goals[g].state = "open"}
                    /\ Become(w, Listed(some))
    BY DEF ListsDue
  <1>2. /\ w \in Runners /\ w \notin Talks
        /\ UNCHANGED <<goals, tried, heard>> /\ passDeaths' \in 0..MaxPassDeaths
    BY GoalsAssumption DEF Runners, ListsDue, GoalsInv, GoalsHaveTypes
  <1>3. some \subseteq Parked /\ some \subseteq Nat
    BY <1>1, GoalsAreCounted DEF GoalsInv, GoalsHaveTypes
  <1>4. ASSUME NEW g \in some
        PROVE  /\ goals[g].attempts \in Nat /\ goals[g].attempts < TASK_MAX_ATTEMPTS
               /\ tried[g] \in Nat /\ goals[g].attempts <= tried[g]
    BY <1>1, <1>3, GoalsAssumption DEF GoalsInv, GoalsHaveTypes, GoalHasReason
  <1>5. Claimed(some) \in [some -> Nat]
    BY <1>4
  <1>6. Claimed(some) \in Claims /\ DOMAIN Claimed(some) = some
    BY <1>3, <1>5 DEF Claims
  <1>7. \A g \in some : Claimed(some)[g] = goals[g].attempts + 1
    OBVIOUS
  <1> HIDE DEF Claimed
  <1>8. /\ Listed(some) \in TurnRecords /\ Listed(some).at = "listed"
        /\ Listed(some).todo = some /\ Listed(some).claim = Claimed(some)
        /\ DOMAIN Listed(some).ended = {} /\ Listed(some).parks = 0
    <2>1. Silent \in TurnRecords /\ Silent.parks = 0 /\ DOMAIN Silent.ended = {}
      BY <1>2, SilenceFits
    <2> QED BY <1>3, <1>6, <2>1 DEF TurnRecords
  <1> HIDE DEF Listed
  <1>9. ClaimsAreDue(Listed(some))
    <2>1. ASSUME NEW g \in some
          PROVE  /\ g \in Parked /\ Claimed(some)[g] \in 1..TASK_MAX_ATTEMPTS
                 /\ Claimed(some)[g] <= tried[g] + 1
      BY <1>3, <1>4, <1>7, GoalsAssumption
    <2>2. Listed(some).claim = Claimed(some) /\ DOMAIN Listed(some).claim = some
      BY <1>6, <1>8
    <2> QED BY <2>1, <2>2 DEF ClaimsAreDue
  <1>10. EndsAreGiven(w, Listed(some))
    <2> DEFINE l == Listed(some)
    <2>1. /\ l.at = "listed" /\ l.todo = DOMAIN l.claim /\ DOMAIN l.ended = {}
          /\ l.at # "next" /\ l.at # "turn"
      BY <1>6, <1>8
    <2> HIDE DEF l
    <2>2. EndsAreGiven(w, l)
      BY <1>2, <2>1 DEF EndsAreGiven
    <2> QED BY <2>2 DEF l
  <1> QED BY <1>1, <1>2, <1>8, <1>9, <1>10, TurnMoves

\* The claim is written.
LEMMA ClaimKeeps ==
    ASSUME GoalsInv, NEW w \in Passes, claim_due_tasks(w)
    PROVE  GoalsInv'
  <1> DEFINE t == [turn[w] EXCEPT !.at = "next"]
  <1>1. /\ w \in Runners /\ w \notin Talks /\ Become(w, t) /\ turn[w].at = "listed"
        /\ UNCHANGED <<goals, tried, heard>> /\ passDeaths' \in 0..MaxPassDeaths
        /\ turn[w] \in TurnRecords
    BY GoalsAssumption DEF Runners, claim_due_tasks, GoalsInv, GoalsHaveTypes, Is
  <1>2. ClaimsAreDue(turn[w]) /\ EndsAreGiven(w, turn[w])
    BY <1>1 DEF GoalsInv
  <1>3. /\ t \in TurnRecords /\ t.at = "next" /\ t.todo = turn[w].todo
        /\ t.claim = turn[w].claim /\ t.ended = turn[w].ended /\ t.parks = turn[w].parks
    BY <1>1 DEF TurnRecords
  <1> HIDE DEF t
  <1>4. ClaimsAreDue(t) /\ EndsAreGiven(w, t)
    BY <1>1, <1>2, <1>3 DEF ClaimsAreDue, EndsAreGiven
  <1> QED BY <1>1, <1>3, <1>4, TurnMoves

\* The turn for a goal begins.
LEMMA ResumeKeeps ==
    ASSUME GoalsInv, NEW w \in Passes, _resume(w)
    PROVE  GoalsInv'
  <1>1. PICK g \in turn[w].todo :
           Become(w, [turn[w] EXCEPT !.at = "turn", !.todo = @ \ {g}, !.goal = g])
    BY DEF _resume
  <1> DEFINE t == [turn[w] EXCEPT !.at = "turn", !.todo = @ \ {g}, !.goal = g]
  <1>2. /\ w \in Runners /\ w \notin Talks /\ Become(w, t) /\ turn[w].at = "next"
        /\ UNCHANGED <<goals, tried, heard>> /\ passDeaths' \in 0..MaxPassDeaths
        /\ turn[w] \in TurnRecords
    BY <1>1, GoalsAssumption DEF Runners, _resume, GoalsInv, GoalsHaveTypes, Is
  <1>3. ClaimsAreDue(turn[w]) /\ EndsAreGiven(w, turn[w])
    BY <1>2 DEF GoalsInv
  <1>4. g \in DOMAIN turn[w].claim /\ g \in Nat
    BY <1>2, <1>3 DEF EndsAreGiven, TurnRecords
  <1>5. /\ t \in TurnRecords /\ t.at = "turn" /\ t.todo = turn[w].todo \ {g} /\ t.goal = g
        /\ t.claim = turn[w].claim /\ t.ended = turn[w].ended /\ t.parks = turn[w].parks
    BY <1>2, <1>4 DEF TurnRecords
  <1> HIDE DEF t
  <1>6. ClaimsAreDue(t) /\ EndsAreGiven(w, t)
    BY <1>2, <1>3, <1>4, <1>5 DEF ClaimsAreDue, EndsAreGiven
  <1> QED BY <1>2, <1>5, <1>6, TurnMoves

\* A pass dies, a turn of the owner begins or ends: its runner is as at the start.
LEMMA SilenceKeeps ==
    ASSUME GoalsInv, NEW r \in Runners, Become(r, Silent),
           UNCHANGED <<goals, tried, heard>>, passDeaths' \in 0..MaxPassDeaths
    PROVE  GoalsInv'
  BY SilenceFits, TurnMoves

\* A talk that starts holds no claim and has no end to give.
LEMMA TalkStartsKeeps ==
    ASSUME GoalsInv, NEW k \in Talks, TalkStarts(k)
    PROVE  GoalsInv'
  <1> DEFINE t == [Silent EXCEPT !.at = "turn"]
  <1>1. /\ k \in Runners /\ k \notin Passes /\ Become(k, t)
        /\ UNCHANGED <<goals, tried, heard>> /\ passDeaths' \in 0..MaxPassDeaths
    BY GoalsAssumption DEF Runners, TalkStarts, GoalsInv, GoalsHaveTypes
  <1>2. /\ Silent \in TurnRecords /\ Silent.parks = 0
        /\ ClaimsAreDue(Silent) /\ EndsAreGiven(k, Silent)
    BY <1>1, SilenceFits
  <1>3. /\ t \in TurnRecords /\ t.at = "turn" /\ t.todo = Silent.todo
        /\ t.claim = Silent.claim /\ t.ended = Silent.ended /\ t.parks = 0
    BY <1>2 DEF TurnRecords
  <1> HIDE DEF t
  <1>4. ClaimsAreDue(t) /\ EndsAreGiven(k, t)
    BY <1>1, <1>2, <1>3 DEF ClaimsAreDue, EndsAreGiven
  <1> QED BY <1>1, <1>3, <1>4, TurnMoves

\* A turn ends with an answer, or fails.
LEMMA TurnEndKeeps ==
    ASSUME GoalsInv, NEW r \in Runners, EngineReplies(r) \/ TurnFails(r)
    PROVE  GoalsInv'
  <1>1. UNCHANGED <<goals, tried, heard>> /\ passDeaths' \in 0..MaxPassDeaths
    BY DEF EngineReplies, TurnFails, GoalsInv, GoalsHaveTypes
  <1>2. CASE r \in Talks
    <2>1. Become(r, Silent)
      BY <1>2 DEF EngineReplies, TurnFails
    <2> QED BY <1>1, <2>1, SilenceKeeps
  <1>3. CASE r \notin Talks
    <2>1. r \in Passes /\ Is(r, "turn")
      BY <1>3 DEF Runners, EngineReplies, TurnFails
    <2>2. PICK done \in BOOLEAN : Become(r, finish_task(r, done))
      BY <1>3 DEF EngineReplies, TurnFails
    <2>3. /\ finish_task(r, done) \in TurnRecords
          /\ finish_task(r, done).parks = turn[r].parks
          /\ ClaimsAreDue(finish_task(r, done))
          /\ EndsAreGiven(r, finish_task(r, done))
      BY <2>1, EndFits
    <2> HIDE DEF finish_task
    <2> QED BY <1>1, <2>2, <2>3, TurnMoves
  <1> QED BY <1>2, <1>3

\* A turn that parks a goal is one still.
LEMMA ParkingIsTurn ==
    ASSUME NEW t \in TurnRecords
    PROVE  LET u == [t EXCEPT !.parks = 1]
           IN /\ u \in TurnRecords /\ u.at = t.at /\ u.todo = t.todo /\ u.goal = t.goal
              /\ u.claim = t.claim /\ u.ended = t.ended /\ u.parks = 1
  BY DEF TurnRecords

\* A turn that ran out of steps parks its goal: the owner's at once, a pass's
\* when it commits.
LEMMA ExhaustsKeeps ==
    ASSUME GoalsInv, NEW r \in Runners, EngineExhausts(r)
    PROVE  GoalsInv'
  <1>1. /\ Cardinality(Parked) + Cardinality(Pending) < MaxGoals /\ turn[r].parks = 0
        /\ heard' = heard /\ passDeaths' \in 0..MaxPassDeaths
    BY DEF EngineExhausts, GoalsInv, GoalsHaveTypes
  <1>2. CASE r \notin Talks
    <2> DEFINE t == [finish_task(r, TRUE) EXCEPT !.parks = 1]
    <2>1. r \in Passes /\ Is(r, "turn") /\ Become(r, t) /\ UNCHANGED <<goals, tried>>
      BY <1>2 DEF Runners, EngineExhausts
    <2>2. /\ finish_task(r, TRUE) \in TurnRecords
          /\ ClaimsAreDue(finish_task(r, TRUE))
          /\ EndsAreGiven(r, finish_task(r, TRUE))
          /\ finish_task(r, TRUE).at = "next"
      <3>1. finish_task(r, TRUE).at = "next"
        <4>1. turn[r] \in TurnRecords
          BY DEF GoalsInv, GoalsHaveTypes
        <4> QED BY <4>1 DEF finish_task, TurnRecords
      <3> QED BY <2>1, <3>1, EndFits
    <2> HIDE DEF finish_task
    <2>3. /\ t \in TurnRecords /\ t.at = "next" /\ t.todo = finish_task(r, TRUE).todo
          /\ t.claim = finish_task(r, TRUE).claim /\ t.ended = finish_task(r, TRUE).ended
      BY <2>2, ParkingIsTurn, Zenon
    <2> HIDE DEF t
    <2>4. ClaimsAreDue(t) /\ EndsAreGiven(r, t)
      BY <1>2, <2>2, <2>3 DEF ClaimsAreDue, EndsAreGiven
    <2> QED BY <1>1, <2>1, <2>3, <2>4, TurnMoves
  <1>3. CASE r \in Talks
    <2> DEFINE n == Cardinality(Parked)
               new == [state |-> "open", attempts |-> 0]
    <2>1. /\ goals' = With(goals, n + 1, new) /\ tried' = With(tried, n + 1, 0)
          /\ Become(r, Silent)
      BY <1>3 DEF EngineExhausts
    <2>2. /\ n \in Nat /\ Parked = 1..n /\ DOMAIN tried = Parked
          /\ IsFiniteSet(Pending) /\ Cardinality(Pending) \in Nat
      BY GoalsAreCounted DEF GoalsInv, GoalsHaveTypes
    <2> HIDE DEF n
    <2>3. Parked' = 1..n + 1 /\ Parked \subseteq Parked' /\ n + 1 \notin Parked
      <3>1. DOMAIN goals' = DOMAIN goals \cup {n + 1}
        BY <2>1 DEF With
      <3>2. (1..n) \cup {n + 1} = 1..n + 1
        BY <2>2
      <3> QED BY <2>2, <3>1, <3>2 DEF Parked
    <2>4. /\ \A g \in Parked : goals'[g] = goals[g] /\ tried'[g] = tried[g]
          /\ goals'[n + 1] = new /\ tried'[n + 1] = 0
          /\ DOMAIN tried' = Parked' /\ DOMAIN goals' = Parked'
      BY <2>1, <2>2, <2>3 DEF With, Parked
    <2>5. /\ IsFiniteSet(Parked') /\ Cardinality(Parked') = n + 1
      <3>1. IsFiniteSet(1..n + 1) /\ Cardinality(1..n + 1) = n + 1
        BY <2>2, FS_Interval
      <3> QED BY <2>3, <3>1
    <2>6. /\ turn' \in [Runners -> TurnRecords] /\ turn'[r] = Silent
          /\ \A q \in Runners \ {r} : turn'[q] = turn[q]
      BY <2>1, SilenceFits, OneTurnChanges DEF GoalsInv
    <2>7. GoalsHaveTypes'
      <3>1. goals' \in [Parked' -> [state : {"open", "done", "failed"},
                                    attempts : 0..TASK_MAX_ATTEMPTS]]
        BY <2>1, <2>2, <2>3, <2>4, GoalsAssumption DEF GoalsInv, GoalsHaveTypes, With, Parked
      <3>2. tried' \in [Parked' -> Nat]
        BY <2>1, <2>2, <2>3, <2>4 DEF GoalsInv, GoalsHaveTypes, With
      <3> QED BY <1>1, <2>3, <2>5, <2>6, <3>1, <3>2 DEF GoalsInv, GoalsHaveTypes
    <2>8. RoomIsKept'
      <3>1. Cardinality(Pending') = Cardinality(Pending)
        BY <1>1, <2>1, SilenceFits, PendingAfter
      <3> QED BY <1>1, <2>2, <2>5, <3>1, GoalsAssumption DEF RoomIsKept, n
    <2>9. GoalHasReason'
      BY <1>1, <2>2, <2>3, <2>4, GoalsAssumption DEF GoalsInv, GoalHasReason
    <2>10. ASSUME NEW q \in Runners
           PROVE  ClaimsAreDue(turn[q])' /\ EndsAreGiven(q, turn[q])'
      <3>1. CASE q = r
        <4>1. DOMAIN Silent.claim = {} /\ EndsAreGiven(r, Silent)
          BY SilenceFits
        <4> QED BY <2>6, <3>1, <4>1 DEF ClaimsAreDue, EndsAreGiven
      <3>2. CASE q # r
        <4>1. ClaimsAreDue(turn[q]) /\ EndsAreGiven(q, turn[q]) /\ turn'[q] = turn[q]
          BY <2>6, <3>2 DEF GoalsInv
        <4> QED BY <2>3, <2>4, <4>1 DEF ClaimsAreDue, EndsAreGiven
      <3> QED BY <3>1, <3>2
    <2> QED BY <2>7, <2>8, <2>9, <2>10 DEF GoalsInv
  <1> QED BY <1>2, <1>3

\* The commit: the goals it claimed have their ends and one more turn recorded,
\* and what ran out of steps is parked anew.
LEMMA CommitKeeps ==
    ASSUME GoalsInv, NEW w \in Passes, continue_due_tasks(w)
    PROVE  GoalsInv'
  <1> DEFINE n == Cardinality(Parked)
             m == n + turn[w].parks
             mine == DOMAIN turn[w].claim
  <1>1. /\ w \in Runners /\ turn[w].at = "next" /\ turn[w].todo = {} /\ Become(w, Silent)
        /\ turn[w] \in TurnRecords /\ turn[w].parks \in 0..1
        /\ ClaimsAreDue(turn[w]) /\ EndsAreGiven(w, turn[w])
        /\ passDeaths' \in 0..MaxPassDeaths
    BY DEF Runners, continue_due_tasks, Is, GoalsInv, GoalsHaveTypes, TurnRecords
  <1>2. /\ n \in Nat /\ Parked = 1..n
        /\ IsFiniteSet(Pending) /\ Cardinality(Pending) \in Nat
    BY GoalsAreCounted DEF GoalsInv, GoalsHaveTypes
  <1>3. /\ mine \subseteq Parked
        /\ DOMAIN turn[w].ended = mine
        /\ \A g \in mine :
              /\ turn[w].claim[g] \in 1..TASK_MAX_ATTEMPTS /\ turn[w].claim[g] <= tried[g] + 1
              /\ turn[w].ended[g] \in {"open", "done", "failed"}
              /\ turn[w].ended[g] = "failed" => turn[w].claim[g] >= TASK_MAX_ATTEMPTS
              /\ turn[w].ended[g] = "open" => turn[w].claim[g] < TASK_MAX_ATTEMPTS
    <2>1. DOMAIN turn[w].ended = mine
      BY <1>1 DEF EndsAreGiven
    <2>2. \A g \in DOMAIN turn[w].ended : turn[w].ended[g] \in {"open", "done", "failed"}
      <3>1. turn[w].ended \in Ends
        BY <1>1 DEF TurnRecords
      <3>2. PICK S \in SUBSET Nat : turn[w].ended \in [S -> {"open", "done", "failed"}]
        BY <3>1 DEF Ends
      <3> QED BY <3>2
    <2>3. \A g \in mine : /\ g \in Parked /\ turn[w].claim[g] \in 1..TASK_MAX_ATTEMPTS
                          /\ turn[w].claim[g] <= tried[g] + 1
      BY <1>1 DEF ClaimsAreDue
    <2>4. \A g \in mine : /\ turn[w].ended[g] = "failed" => turn[w].claim[g] >= TASK_MAX_ATTEMPTS
                          /\ turn[w].ended[g] = "open" => turn[w].claim[g] < TASK_MAX_ATTEMPTS
      BY <1>1, <2>1 DEF EndsAreGiven
    <2> QED BY <2>1, <2>2, <2>3, <2>4
  <1>4. /\ goals' = [g \in 1..m |-> IF g \notin Parked THEN [state |-> "open", attempts |-> 0]
                                    ELSE IF g \in mine
                                    THEN [state |-> turn[w].ended[g],
                                          attempts |-> turn[w].claim[g]]
                                    ELSE goals[g]]
        /\ tried' = [g \in 1..m |-> IF g \notin Parked THEN 0
                                    ELSE IF g \in mine THEN tried[g] + 1 ELSE tried[g]]
        /\ heard' = heard \cup {g \in mine : turn[w].ended[g] = "done"}
    BY DEF continue_due_tasks, ClaimedBy
  <1> HIDE DEF mine
  <1>5. m \in Nat /\ n <= m /\ m <= n + 1
    BY <1>1, <1>2
  <1>6. /\ Parked' = 1..m /\ Parked \subseteq Parked'
        /\ IsFiniteSet(Parked') /\ Cardinality(Parked') = m
    <2>1. DOMAIN goals' = 1..m
      BY <1>4
    <2>2. Parked' = 1..m
      BY <2>1 DEF Parked
    <2> HIDE DEF m
    <2>3. IsFiniteSet(1..m) /\ Cardinality(1..m) = m
      BY <1>5, FS_Interval
    <2> QED BY <1>2, <1>5, <2>2, <2>3
  <1>7. m + Cardinality(Pending') <= MaxGoals
    <2>1. Cardinality(Pending') = Cardinality(Pending) - turn[w].parks
      BY <1>1, SilenceFits, PendingAfter
    <2>2. n + Cardinality(Pending) <= MaxGoals
      BY DEF GoalsInv, RoomIsKept
    <2> QED BY <1>1, <1>2, <2>1, <2>2, GoalsAssumption
  <1> HIDE DEF m
  <1>8. ASSUME NEW g \in Parked'
        PROVE  /\ g \notin Parked => goals'[g] = [state |-> "open", attempts |-> 0] /\ tried'[g] = 0
               /\ g \in mine => /\ goals'[g] = [state |-> turn[w].ended[g],
                                                attempts |-> turn[w].claim[g]]
                                /\ tried'[g] = tried[g] + 1
               /\ g \in Parked \ mine => goals'[g] = goals[g] /\ tried'[g] = tried[g]
    <2>1. g \in 1..m
      BY <1>6
    <2>2. /\ goals'[g] = IF g \notin Parked THEN [state |-> "open", attempts |-> 0]
                         ELSE IF g \in mine
                         THEN [state |-> turn[w].ended[g], attempts |-> turn[w].claim[g]]
                         ELSE goals[g]
          /\ tried'[g] = IF g \notin Parked THEN 0
                         ELSE IF g \in mine THEN tried[g] + 1 ELSE tried[g]
      BY <1>4, <2>1
    <2> QED BY <1>3, <2>2
  <1>9. ASSUME NEW g \in Parked
        PROVE  /\ goals[g] \in [state : {"open", "done", "failed"},
                                attempts : 0..TASK_MAX_ATTEMPTS]
               /\ tried[g] \in Nat
               /\ goals[g].attempts <= tried[g]
               /\ goals[g].state = "open" => goals[g].attempts < TASK_MAX_ATTEMPTS
               /\ goals[g].state = "done" => g \in heard
               /\ goals[g].state = "failed" => tried[g] >= TASK_MAX_ATTEMPTS
    BY DEF GoalsInv, GoalsHaveTypes, GoalHasReason
  <1>10. /\ turn' \in [Runners -> TurnRecords] /\ turn'[w] = Silent
         /\ \A q \in Runners \ {w} : turn'[q] = turn[q]
    BY <1>1, SilenceFits, OneTurnChanges DEF GoalsInv
  <1>11. GoalsHaveTypes'
    <2>1. ASSUME NEW g \in Parked'
          PROVE  /\ goals'[g] \in [state : {"open", "done", "failed"},
                                   attempts : 0..TASK_MAX_ATTEMPTS]
                 /\ tried'[g] \in Nat
      <3>1. CASE g \notin Parked
        <4>1. goals'[g] = [state |-> "open", attempts |-> 0] /\ tried'[g] = 0
          BY <1>8, <3>1
        <4> QED BY <4>1, GoalsAssumption
      <3>2. CASE g \in mine
        <4>1. /\ goals'[g] = [state |-> turn[w].ended[g], attempts |-> turn[w].claim[g]]
              /\ tried'[g] = tried[g] + 1
          BY <1>8, <3>2
        <4> QED BY <1>3, <1>9, <3>2, <4>1, GoalsAssumption
      <3>3. CASE g \in Parked \ mine
        BY <1>8, <1>9, <3>3
      <3> QED BY <1>3, <3>1, <3>2, <3>3
    <2>2. /\ goals' \in [Parked' -> [state : {"open", "done", "failed"},
                                     attempts : 0..TASK_MAX_ATTEMPTS]]
          /\ tried' \in [Parked' -> Nat]
      BY <1>4, <1>6, <2>1
    <2>3. heard' \subseteq Parked'
      BY <1>3, <1>4, <1>6 DEF GoalsInv, GoalsHaveTypes
    <2> QED BY <1>1, <1>6, <1>10, <2>2, <2>3 DEF GoalsHaveTypes
  <1>12. RoomIsKept'
    BY <1>6, <1>7 DEF RoomIsKept
  <1>13. GoalHasReason'
    <2>1. ASSUME NEW g \in Parked'
          PROVE  /\ goals'[g].attempts <= tried'[g]
                 /\ goals'[g].state = "open" => goals'[g].attempts < TASK_MAX_ATTEMPTS
                 /\ goals'[g].state = "done" => g \in heard'
                 /\ goals'[g].state = "failed" => tried'[g] >= TASK_MAX_ATTEMPTS
      <3>1. CASE g \notin Parked
        <4>1. goals'[g] = [state |-> "open", attempts |-> 0] /\ tried'[g] = 0
          BY <1>8, <3>1
        <4> QED BY <4>1, GoalsAssumption
      <3>2. CASE g \in mine
        <4> goals'[g] = [state |-> turn[w].ended[g], attempts |-> turn[w].claim[g]]
          BY <1>8, <3>2
        <4>1. goals'[g].state = turn[w].ended[g] /\ goals'[g].attempts = turn[w].claim[g]
          OBVIOUS
        <4>2. tried'[g] = tried[g] + 1 /\ tried[g] \in Nat
          BY <1>3, <1>8, <1>9, <3>2
        <4>3. turn[w].ended[g] = "done" => g \in heard'
          BY <1>4, <3>2
        <4> QED BY <1>3, <3>2, <4>1, <4>2, <4>3, GoalsAssumption
      <3>3. CASE g \in Parked \ mine
        BY <1>4, <1>8, <1>9, <3>3
      <3> QED BY <1>3, <3>1, <3>2, <3>3
    <2> QED BY <2>1 DEF GoalHasReason
  <1>14. ASSUME NEW q \in Runners
         PROVE  ClaimsAreDue(turn[q])' /\ EndsAreGiven(q, turn[q])'
    <2>1. CASE q = w
      <3>1. DOMAIN Silent.claim = {} /\ EndsAreGiven(w, Silent)
        BY <1>1, SilenceFits
      <3> QED BY <1>10, <2>1, <3>1 DEF ClaimsAreDue, EndsAreGiven
    <2>2. CASE q # w
      <3>1. ClaimsAreDue(turn[q]) /\ EndsAreGiven(q, turn[q]) /\ turn'[q] = turn[q]
            /\ turn[q] \in TurnRecords
        BY <1>10, <2>2 DEF GoalsInv, GoalsHaveTypes
      <3>2. ASSUME NEW g \in DOMAIN turn[q].claim
            PROVE  /\ g \in Parked' /\ turn[q].claim[g] \in 1..TASK_MAX_ATTEMPTS
                   /\ turn[q].claim[g] <= tried'[g] + 1
        <4>1. g \in Parked /\ turn[q].claim[g] \in 1..TASK_MAX_ATTEMPTS
              /\ turn[q].claim[g] <= tried[g] + 1
          BY <3>1, <3>2 DEF ClaimsAreDue
        <4>2. tried'[g] = tried[g] \/ tried'[g] = tried[g] + 1
          BY <1>6, <1>8, <4>1
        <4>3. tried[g] \in Nat
          BY <1>9, <4>1
        <4> QED BY <1>6, <4>1, <4>2, <4>3
      <3>3. ClaimsAreDue(turn[q])'
        BY <3>1, <3>2 DEF ClaimsAreDue
      <3> QED BY <3>1, <3>3 DEF EndsAreGiven
    <2> QED BY <2>1, <2>2
  <1> QED BY <1>11, <1>12, <1>13, <1>14 DEF GoalsInv

\* Every step keeps the invariant.
LEMMA StepKeepsGoals ==
    ASSUME GoalsInv, [GoalsNext]_goalsVars
    PROVE  GoalsInv'
  <1>1. CASE UNCHANGED goalsVars
    BY <1>1 DEF goalsVars, GoalsInv, GoalsHaveTypes, RoomIsKept, GoalHasReason, ClaimsAreDue,
                EndsAreGiven, Parked, Pending
  <1>2. ASSUME NEW w \in Passes, PassFails(w)
        PROVE  GoalsInv'
    <2>1. /\ w \in Runners /\ Become(w, Silent) /\ UNCHANGED <<goals, tried, heard>>
          /\ passDeaths' \in 0..MaxPassDeaths
      BY <1>2, GoalsAssumption DEF Runners, PassFails, GoalsInv, GoalsHaveTypes
    <2> QED BY <2>1, SilenceKeeps
  <1> QED BY <1>1, <1>2, ListsDueKeeps, ClaimKeeps, ResumeKeeps, CommitKeeps, TalkStartsKeeps,
             TurnEndKeeps, ExhaustsKeeps DEF GoalsNext

\* No goal is parked and no runner is at work.
LEMMA GoalsStart ==
    ASSUME GoalsInit
    PROVE  GoalsInv
  <1>1. Parked = {}
    BY DEF GoalsInit, Parked
  <1>2. Cardinality(Parked) = 0 /\ IsFiniteSet(Parked) /\ 1..0 = {}
    BY <1>1, FS_EmptySet
  <1>3. \A r \in Runners : /\ turn[r] = Silent /\ Silent \in TurnRecords /\ Silent.parks = 0
                           /\ ClaimsAreDue(Silent) /\ EndsAreGiven(r, Silent)
    BY SilenceFits DEF GoalsInit
  <1>4. Pending = {}
    BY <1>3 DEF Pending
  <1>5. Cardinality(Pending) = 0
    BY <1>4, FS_EmptySet
  <1>6. GoalsHaveTypes
    <2>1. /\ goals \in [Parked -> [state : {"open", "done", "failed"},
                                   attempts : 0..TASK_MAX_ATTEMPTS]]
          /\ tried \in [Parked -> Nat]
      BY <1>1 DEF GoalsInit
    <2>2. turn \in [Runners -> TurnRecords]
      BY <1>3 DEF GoalsInit
    <2>3. heard \subseteq Parked /\ passDeaths \in 0..MaxPassDeaths
      BY GoalsAssumption DEF GoalsInit
    <2>4. Parked = 1..Cardinality(Parked)
      BY <1>1, <1>2
    <2> QED BY <1>2, <2>1, <2>2, <2>3, <2>4 DEF GoalsHaveTypes
  <1>7. RoomIsKept
    BY <1>2, <1>5, GoalsAssumption DEF RoomIsKept
  <1> QED BY <1>1, <1>3, <1>6, <1>7 DEF GoalsInv, GoalHasReason

\* What the invariant says of the types of goals and passes.
LEMMA GoalsInvIsTyped == GoalsInv => GoalsTypeOK
  <1> SUFFICES ASSUME GoalsInv
               PROVE  GoalsTypeOK
    OBVIOUS
  <1>1. Parked = 1..Cardinality(Parked) /\ Cardinality(Parked) <= MaxGoals
    BY GoalsAreCounted, GoalsAssumption DEF GoalsInv, GoalsHaveTypes, RoomIsKept
  <1>2. ASSUME NEW g \in Parked
        PROVE  /\ goals[g].state \in {"open", "running", "done", "failed"}
               /\ goals[g].attempts \in 0..TASK_MAX_ATTEMPTS
    BY <1>2 DEF GoalsInv, GoalsHaveTypes
  <1>3. DOMAIN tried = Parked /\ heard \subseteq Parked /\ passDeaths \in 0..MaxPassDeaths
    BY DEF GoalsInv, GoalsHaveTypes
  <1>4. ASSUME NEW r \in Runners
        PROVE  /\ turn[r].at \in {"idle", "listed", "next", "turn"}
               /\ turn[r].parks \in 0..1
               /\ ClaimedBy(r) \subseteq Parked /\ turn[r].todo \subseteq ClaimedBy(r)
    BY DEF GoalsInv, GoalsHaveTypes, TurnRecords, ClaimsAreDue, EndsAreGiven, ClaimedBy
  <1> QED BY <1>1, <1>2, <1>3, <1>4 DEF GoalsTypeOK

(* What passes and turns know of the goals has its type, and there is room    *)
(* for every goal that a turn is about to park (miku_task, the claims and     *)
(* ends of continue_due_tasks).                                               *)
THEOREM GoalsAreTyped == GoalsSpec => []GoalsTypeOK
  <1>1. GoalsInit => GoalsInv
    BY GoalsStart
  <1>2. GoalsInv /\ [GoalsNext]_goalsVars => GoalsInv'
    BY StepKeepsGoals
  <1> QED BY <1>1, <1>2, GoalsInvIsTyped, PTL DEF GoalsSpec

(* A goal is never stuck: it is open to a later pass, or a turn for it came   *)
(* to an end, or it was given up after TASK_MAX_ATTEMPTS turns that were      *)
(* recorded (claim_due_tasks, finish_task and the commit of                   *)
(* continue_due_tasks), for any number of passes, turns of the owner and      *)
(* goals, whatever overlaps and dies.                                         *)
THEOREM NoGoalIsStuck == GoalsSpec => []GoalIsNotStuck
  <1>1. GoalsInit => GoalsInv
    BY GoalsStart
  <1>2. GoalsInv /\ [GoalsNext]_goalsVars => GoalsInv'
    BY StepKeepsGoals
  <1>3. GoalsInv => GoalIsNotStuck
    BY DEF GoalsInv, GoalsHaveTypes, GoalHasReason, GoalIsNotStuck
  <1> QED BY <1>1, <1>2, <1>3, PTL DEF GoalsSpec

-----------------------------------------------------------------------------
(***************************************************************************)
(* Signing in through the browser runtime.  The lock of the policy keeps   *)
(* starts, saves and revocations apart; the runtime carries out what it    *)
(* was sent in order, so that no start is left behind the close that a     *)
(* revocation waits for, and nothing signed in is open while it removes    *)
(* the files.                                                              *)
(***************************************************************************)
Holding == {"starting", "saving", "revoking", "unlinking", "unlinkingOld"}
Waiting == {"starting", "closing", "revoking"}
Removing == {"unlinking", "unlinkingOld"}
WindowRecords == [mode : {"interactive", "headless", "closed"}, login : Nat]
ErrandRecords == [kind : {"start", "close", "closePolicy"}, mode : {"interactive", "headless", ""},
                  login : Nat, window : Nat, for : Visitors \cup {Nobody}]
VisitorRecords == [at : {"away", "browsing", "closing", "seen"} \cup Holding, window : Nat,
                   login : Nat]

BrowserHasTypes ==
    /\ windows \in Seq(WindowRecords) /\ Len(windows) <= MaxSessions
    /\ errands \in Seq(ErrandRecords)
    /\ visitor \in [Visitors -> VisitorRecords]
    /\ policyLock \in Visitors \cup {Nobody}
    /\ reader \in {"idle", "renaming", "reading"}
    /\ logins \in 0..MaxLogins /\ snapshot \in Nat /\ legacy \in Nat /\ revoked \in 0..logins
    /\ browserFaults \in 0..MaxBrowserFaults
    /\ \A n \in Windows : windows[n].login <= logins
    /\ \A i \in DOMAIN errands : errands[i].kind = "start" =>
          errands[i].mode \in {"interactive", "headless"}

\* A signature that was made, and that no revocation ended.
Lasting(login) == login <= logins /\ login \notin 1..revoked

SignaturesLast ==
    /\ Lasting(snapshot) /\ Lasting(legacy)
    /\ \A n \in LiveWindows : Lasting(windows[n].login)
    /\ \A i \in DOMAIN errands : errands[i].kind = "start" => Lasting(errands[i].login)
    /\ \A k \in Visitors : visitor[k].at = "saving" => Lasting(visitor[k].login)

LockIsHeld == \A k \in Visitors : visitor[k].at \in Holding => policyLock = k

Awaits(at, kind) == \/ kind = "start" /\ at = "starting"
                    \/ kind = "close" /\ at = "closing"
                    \/ kind = "closePolicy" /\ at = "revoking"

ErrandsAreAwaited ==
    \A i \in DOMAIN errands : errands[i].for # Nobody =>
       /\ Awaits(visitor[errands[i].for].at, errands[i].kind)
       /\ \A j \in DOMAIN errands : errands[j].for = errands[i].for => j = i
StartsComeFirst ==
    \A k \in Visitors : visitor[k].at = "revoking" =>
       \A i, j \in DOMAIN errands : errands[i].for = k /\ i < j => errands[j].kind # "start"

NothingIsOpen ==
    \A k \in Visitors :
       /\ visitor[k].at \in Removing =>
             LiveWindows = {} /\ \A i \in DOMAIN errands : errands[i].kind # "start"
       /\ visitor[k].at = "unlinkingOld" => snapshot = 0 /\ reader = "idle"

BrowserInv ==
    /\ BrowserHasTypes
    /\ SignaturesLast
    /\ LockIsHeld
    /\ ErrandsAreAwaited
    /\ StartsComeFirst
    /\ NothingIsOpen

\* A visitor that holds the lock does so alone.
LEMMA OneHolds ==
    ASSUME BrowserInv, NEW k \in Visitors, visitor[k].at \in Holding
    PROVE  policyLock = k /\ \A q \in Visitors \ {k} : visitor[q].at \notin Holding
  BY DEF BrowserInv, LockIsHeld

\* Nobody holds a lock that is free.
LEMMA FreeIsFree ==
    ASSUME BrowserInv, policyLock = Nobody
    PROVE  \A k \in Visitors : visitor[k].at \notin Holding
  BY NobodyAssumption DEF BrowserInv, LockIsHeld

\* What the runtime has is typed.
LEMMA BrowserTypes ==
    ASSUME BrowserInv
    PROVE  /\ windows \in Seq(WindowRecords) /\ Len(windows) \in Nat
           /\ Windows = 1..Len(windows) /\ LiveWindows \subseteq Windows
           /\ errands \in Seq(ErrandRecords) /\ Len(errands) \in Nat
           /\ DOMAIN errands = 1..Len(errands)
           /\ visitor \in [Visitors -> VisitorRecords]
           /\ logins \in Nat /\ revoked \in Nat /\ revoked <= logins /\ MaxLogins \in Nat
           /\ Lasting(0)
  BY BrowserAssumption DEF BrowserInv, BrowserHasTypes, Windows, LiveWindows, Lasting

\* Closing some windows leaves the others as they are.
LEMMA ShutKeeps ==
    ASSUME BrowserInv, NEW some, windows' = Shut(some), logins' = logins
    PROVE  /\ windows' \in Seq(WindowRecords) /\ Len(windows') = Len(windows)
           /\ Windows' = Windows
           /\ LiveWindows' = LiveWindows \ some
           /\ \A n \in LiveWindows' : windows'[n] = windows[n]
           /\ \A n \in Windows' : windows'[n].login <= logins'
  <1>1. /\ windows \in Seq(WindowRecords) /\ Windows = 1..Len(windows) /\ Len(windows) \in Nat
        /\ logins \in Nat
    BY BrowserTypes
  <1>2. [mode |-> "closed", login |-> 0] \in WindowRecords
    BY DEF WindowRecords
  <1>3. \A n \in 1..Len(windows) : windows[n] \in WindowRecords /\ windows[n].login <= logins
    BY <1>1 DEF BrowserInv, BrowserHasTypes
  <1>4. windows' = [n \in 1..Len(windows) |-> IF n \in some THEN [mode |-> "closed", login |-> 0]
                                              ELSE windows[n]]
    BY <1>1 DEF Shut
  <1>5. /\ windows' \in Seq(WindowRecords) /\ Len(windows') = Len(windows)
        /\ DOMAIN windows' = 1..Len(windows)
    BY <1>1, <1>2, <1>3, <1>4
  <1>6. Windows' = Windows
    BY <1>1, <1>5 DEF Windows
  <1>7. \A n \in Windows : /\ n \in some => windows'[n] = [mode |-> "closed", login |-> 0]
                           /\ n \notin some => windows'[n] = windows[n]
    BY <1>1, <1>4
  <1>8. LiveWindows' = LiveWindows \ some
    BY <1>6, <1>7 DEF LiveWindows
  <1>9. \A n \in LiveWindows' : windows'[n] = windows[n]
    BY <1>7, <1>8 DEF LiveWindows
  <1>10. \A n \in Windows' : windows'[n].login <= logins'
    BY <1>1, <1>3, <1>6, <1>7
  <1> QED BY <1>5, <1>6, <1>8, <1>9, <1>10

\* The queue after an errand is sent.
LEMMA SentErrands ==
    ASSUME BrowserInv, NEW e \in ErrandRecords, errands' = Append(errands, e)
    PROVE  /\ errands' \in Seq(ErrandRecords)
           /\ DOMAIN errands' = 1..Len(errands) + 1
           /\ errands'[Len(errands) + 1] = e
           /\ \A i \in DOMAIN errands : i \in DOMAIN errands' /\ errands'[i] = errands[i]
           /\ \A i \in DOMAIN errands' : i \in DOMAIN errands \/ i = Len(errands) + 1
  BY BrowserTypes

\* The queue after the errand at its head was carried out.
LEMMA CarriedOut ==
    ASSUME BrowserInv, errands # <<>>, errands' = Tail(errands)
    PROVE  /\ errands' \in Seq(ErrandRecords)
           /\ Head(errands) = errands[1] /\ 1 \in DOMAIN errands
           /\ Head(errands) \in ErrandRecords
           /\ \A i \in DOMAIN errands' : /\ i + 1 \in DOMAIN errands /\ i \in Nat /\ i # 0
                                         /\ errands'[i] = errands[i + 1]
  BY BrowserTypes

\* A step that a visitor takes, as the others see it.
LEMMA OneVisits ==
    ASSUME BrowserInv, NEW k \in Visitors, NEW v \in VisitorRecords,
           visitor' = [visitor EXCEPT ![k] = v]
    PROVE  /\ visitor' \in [Visitors -> VisitorRecords] /\ visitor'[k] = v
           /\ \A q \in Visitors \ {k} : visitor'[q] = visitor[q]
  BY BrowserTypes

\* Records a visitor may become.
LEMMA VisitorFields ==
    ASSUME NEW v \in VisitorRecords, NEW a \in {"away", "browsing", "closing", "seen"} \cup Holding,
           NEW n \in Nat, NEW l \in Nat
    PROVE  /\ Away \in VisitorRecords /\ Away.at = "away"
           /\ [v EXCEPT !.at = a] \in VisitorRecords /\ [v EXCEPT !.at = a].at = a
           /\ [v EXCEPT !.at = a, !.login = l] \in VisitorRecords
           /\ [v EXCEPT !.at = a, !.login = l].at = a /\ [v EXCEPT !.at = a, !.login = l].login = l
           /\ [Away EXCEPT !.at = a, !.window = n] \in VisitorRecords
           /\ [Away EXCEPT !.at = a, !.window = n].at = a
  BY DEF VisitorRecords, Away

\* The lock after a step of one visitor: the others keep it.
LockMoves(k, v) ==
    /\ policyLock' \in Visitors \cup {Nobody}
    /\ v.at \in Holding => policyLock' = k
    /\ \A q \in Visitors \ {k} : visitor[q].at \in Holding => policyLock' = q

\* The lock stays with whom it is, is taken when free, or given back by its holder.
LEMMA LockIsMoved ==
    ASSUME BrowserInv, NEW k \in Visitors, NEW v \in VisitorRecords,
           \/ policyLock' = policyLock /\ (v.at \in Holding => visitor[k].at \in Holding)
           \/ Takes(k)
           \/ Gives(k) /\ v.at \notin Holding
    PROVE  LockMoves(k, v)
  <1>1. /\ policyLock \in Visitors \cup {Nobody}
        /\ \A q \in Visitors : visitor[q].at \in Holding => policyLock = q
    BY DEF BrowserInv, BrowserHasTypes, LockIsHeld
  <1> QED BY <1>1, NobodyAssumption DEF LockMoves, Takes, Gives

\* A step of a visitor that waits for nothing and sends nothing.
LEMMA VisitorSteps ==
    ASSUME BrowserInv, NEW k \in Visitors, NEW v \in VisitorRecords,
           visitor' = [visitor EXCEPT ![k] = v],
           UNCHANGED <<windows, errands, reader, logins, browserFaults>>,
           snapshot' \in Nat, legacy' \in Nat, revoked' \in 0..logins, SignaturesLast',
           LockMoves(k, v), visitor[k].at \notin Waiting, v.at \notin Waiting,
           v.at # "unlinking",
           v.at = "unlinkingOld" =>
              visitor[k].at = "unlinking" /\ snapshot' = 0 /\ reader = "idle",
           \A q \in Visitors : visitor[q].at = "unlinkingOld" => snapshot' = 0
    PROVE  BrowserInv'
  <1>1. /\ visitor' \in [Visitors -> VisitorRecords] /\ visitor'[k] = v
        /\ \A q \in Visitors \ {k} : visitor'[q] = visitor[q]
    BY OneVisits
  <1>2. Windows' = Windows /\ LiveWindows' = LiveWindows
    BY DEF Windows, LiveWindows
  <1>3. BrowserHasTypes'
    BY <1>1, <1>2 DEF BrowserInv, BrowserHasTypes, LockMoves
  <1>4. LockIsHeld'
    BY <1>1 DEF LockMoves, LockIsHeld
  <1>5. ErrandsAreAwaited'
    <2>1. ASSUME NEW i \in DOMAIN errands, errands[i].for # Nobody
          PROVE  /\ Awaits(visitor'[errands[i].for].at, errands[i].kind)
                 /\ \A j \in DOMAIN errands : errands[j].for = errands[i].for => j = i
      <3>1. /\ Awaits(visitor[errands[i].for].at, errands[i].kind)
            /\ \A j \in DOMAIN errands : errands[j].for = errands[i].for => j = i
        BY <2>1 DEF BrowserInv, ErrandsAreAwaited
      <3>2. errands[i] \in ErrandRecords
        BY BrowserTypes
      <3>3. errands[i].for \in Visitors
        BY <2>1, <3>2 DEF ErrandRecords
      <3>4. errands[i].for # k
        BY <3>1 DEF Awaits, Waiting
      <3> QED BY <1>1, <3>1, <3>3, <3>4 DEF Awaits
    <2> QED BY <2>1 DEF ErrandsAreAwaited
  <1>6. StartsComeFirst'
    <2>1. \A q \in Visitors : visitor'[q].at = "revoking" => visitor[q].at = "revoking"
      BY <1>1 DEF Waiting
    <2> QED BY <2>1 DEF BrowserInv, StartsComeFirst
  <1>7. NothingIsOpen'
    BY <1>1, <1>2 DEF BrowserInv, NothingIsOpen, Removing
  <1> QED BY <1>3, <1>4, <1>5, <1>6, <1>7 DEF BrowserInv

\* A visitor that sends an errand, and waits for it.
LEMMA SendKeeps ==
    ASSUME BrowserInv, NEW k \in Visitors, NEW v \in VisitorRecords, NEW e \in ErrandRecords,
           visitor' = [visitor EXCEPT ![k] = v], e.for = k, errands' = Append(errands, e),
           UNCHANGED <<windows, reader, revoked, logins, browserFaults>>,
           snapshot' \in Nat, legacy' \in Nat, Lasting(snapshot'), Lasting(legacy'),
           LockMoves(k, v), visitor[k].at \notin Waiting \cup Holding,
           Awaits(v.at, e.kind),
           e.kind = "start" => /\ e.mode \in {"interactive", "headless"}
                               /\ Lasting(e.login) /\ policyLock = Nobody,
           policyLock # Nobody => snapshot' = snapshot
    PROVE  BrowserInv'
  <1>1. /\ visitor' \in [Visitors -> VisitorRecords] /\ visitor'[k] = v
        /\ \A q \in Visitors \ {k} : visitor'[q] = visitor[q]
    BY OneVisits
  <1>2. /\ Windows' = Windows /\ LiveWindows' = LiveWindows
    BY DEF Windows, LiveWindows
  <1> DEFINE n == Len(errands) + 1
  <1>3. /\ errands' \in Seq(ErrandRecords)
        /\ DOMAIN errands' = 1..n /\ errands'[n] = e
        /\ \A i \in DOMAIN errands : i \in DOMAIN errands' /\ errands'[i] = errands[i]
        /\ \A i \in DOMAIN errands' : i \in DOMAIN errands \/ i = n
        /\ DOMAIN errands = 1..Len(errands) /\ Len(errands) \in Nat
    BY SentErrands, BrowserTypes
  <1> HIDE DEF n
  <1>4. policyLock # Nobody \/ \A q \in Visitors : visitor[q].at \notin Holding
    BY FreeIsFree
  <1>5. BrowserHasTypes'
    BY <1>1, <1>2, <1>3 DEF BrowserInv, BrowserHasTypes, LockMoves
  <1>6. SignaturesLast'
    <2>1. \A i \in DOMAIN errands' : errands'[i].kind = "start" => Lasting(errands'[i].login)
      BY <1>3 DEF BrowserInv, SignaturesLast
    <2>2. \A q \in Visitors : visitor'[q].at = "saving" => Lasting(visitor'[q].login)
      BY <1>1 DEF BrowserInv, SignaturesLast, Awaits
    <2> QED BY <1>2, <2>1, <2>2 DEF BrowserInv, SignaturesLast, Lasting
  <1>7. LockIsHeld'
    BY <1>1 DEF LockMoves, LockIsHeld
  <1>8. \A i \in DOMAIN errands : errands[i].for # k
    BY NobodyAssumption DEF BrowserInv, ErrandsAreAwaited, Awaits, Waiting
  <1>9. ErrandsAreAwaited'
    <2>1. ASSUME NEW i \in DOMAIN errands', errands'[i].for # Nobody
          PROVE  /\ Awaits(visitor'[errands'[i].for].at, errands'[i].kind)
                 /\ \A j \in DOMAIN errands' : errands'[j].for = errands'[i].for => j = i
      <3>1. CASE i = n
        BY <1>1, <1>3, <1>8, <3>1 DEF Awaits
      <3>2. CASE i \in DOMAIN errands
        <4>1. /\ Awaits(visitor[errands[i].for].at, errands[i].kind)
              /\ \A j \in DOMAIN errands : errands[j].for = errands[i].for => j = i
              /\ errands'[i] = errands[i] /\ errands[i].for # k
          BY <1>3, <1>8, <2>1, <3>2 DEF BrowserInv, ErrandsAreAwaited
        <4>2. errands[i] \in ErrandRecords
          BY <3>2, BrowserTypes
        <4>3. errands[i].for \in Visitors
          BY <1>3, <2>1, <3>2, <4>2 DEF ErrandRecords
        <4>4. Awaits(visitor'[errands[i].for].at, errands[i].kind)
          BY <1>1, <4>1, <4>3 DEF Awaits
        <4> QED BY <1>3, <3>2, <4>1, <4>4
      <3> QED BY <1>3, <3>1, <3>2
    <2> QED BY <2>1 DEF ErrandsAreAwaited
  <1>10. StartsComeFirst'
    <2>1. ASSUME NEW q \in Visitors, visitor'[q].at = "revoking",
                 NEW i \in DOMAIN errands', NEW j \in DOMAIN errands',
                 errands'[i].for = q, i < j
          PROVE  errands'[j].kind # "start"
      <3>1. i \in DOMAIN errands /\ i # n
        BY <1>3, <2>1
      <3>2. q # k /\ visitor[q].at = "revoking"
        BY <1>1, <1>3, <1>8, <2>1, <3>1
      <3>3. CASE j = n
        BY <1>3, <1>4, <3>2, <3>3 DEF Holding
      <3>4. CASE j \in DOMAIN errands
        BY <1>3, <2>1, <3>1, <3>2, <3>4 DEF BrowserInv, StartsComeFirst
      <3> QED BY <1>3, <3>3, <3>4
    <2> QED BY <2>1 DEF StartsComeFirst
  <1>11. NothingIsOpen'
    <2>1. ASSUME NEW q \in Visitors, visitor'[q].at \in Removing
          PROVE  /\ LiveWindows' = {}
                 /\ \A i \in DOMAIN errands' : errands'[i].kind # "start"
                 /\ visitor'[q].at = "unlinkingOld" => snapshot' = 0 /\ reader' = "idle"
      <3>1. visitor'[q] = visitor[q] /\ visitor[q].at \in Holding
        BY <1>1, <2>1 DEF Removing, Holding, Awaits
      <3>2. policyLock # Nobody
        BY <1>4, <3>1
      <3> QED BY <1>2, <1>3, <2>1, <3>1, <3>2 DEF BrowserInv, NothingIsOpen
    <2> QED BY <2>1 DEF NothingIsOpen, Removing
  <1> QED BY <1>5, <1>6, <1>7, <1>9, <1>10, <1>11 DEF BrowserInv

\* The snapshot that is loaded, and what its renaming leaves.
LEMMA LoadedLasts ==
    ASSUME BrowserInv
    PROVE  _load_sync \in Nat /\ Lasting(_load_sync)
  BY DEF _load_sync, BrowserInv, BrowserHasTypes, SignaturesLast

\* The visitor that takes the lock sends what the snapshot says, which lasts.
LEMMA StartKeeps ==
    ASSUME BrowserInv, NEW k \in Visitors, NEW mode \in {"interactive", "headless"},
           start(k, mode)
    PROVE  BrowserInv'
  <1> DEFINE v == [visitor[k] EXCEPT !.at = "starting"]
             e == [Errand("start", mode, _load_sync, 0) EXCEPT !.for = k]
  <1>1. /\ visitor[k] = Away /\ Takes(k) /\ Renamed
        /\ UNCHANGED <<windows, reader, revoked, logins, browserFaults>>
    BY DEF start
  <1>2. visitor' = [visitor EXCEPT ![k] = v]
    BY DEF start, GoesTo
  <1>3. errands' = Append(errands, e)
    BY DEF start, Sends
  <1>4. v \in VisitorRecords /\ v.at = "starting" /\ visitor[k].at = "away"
    <2>1. visitor[k] \in VisitorRecords
      BY BrowserTypes
    <2> QED BY <1>1, <2>1 DEF VisitorRecords, Away, Holding
  <1>5. e \in ErrandRecords /\ e.for = k /\ e.kind = "start" /\ e.mode = mode
        /\ e.login = _load_sync
    BY LoadedLasts DEF Errand, ErrandRecords
  <1>6. /\ snapshot' \in Nat /\ legacy' \in Nat /\ Lasting(snapshot') /\ Lasting(legacy')
    BY <1>1, LoadedLasts, BrowserTypes
       DEF Renamed, BrowserInv, BrowserHasTypes, SignaturesLast
  <1>7. LockMoves(k, v) /\ policyLock = Nobody
    BY <1>1, <1>4, LockIsMoved DEF Takes
  <1> HIDE DEF v, e
  <1>8. visitor[k].at \notin Waiting \cup Holding
    BY <1>4 DEF Waiting, Holding
  <1> QED BY <1>1, <1>2, <1>3, <1>4, <1>5, <1>6, <1>7, <1>8, LoadedLasts, SendKeeps DEF Awaits

\* A close is sent without the lock, and ends no signature.
LEMMA CloseKeeps ==
    ASSUME BrowserInv, NEW k \in Visitors, NEW n \in Windows, close(k, n)
    PROVE  BrowserInv'
  <1> DEFINE v == [visitor[k] EXCEPT !.at = "closing"]
             e == [Errand("close", "", 0, n) EXCEPT !.for = k]
  <1>1. /\ UNCHANGED <<windows, snapshot, legacy, reader, revoked, policyLock, logins,
                       browserFaults>>
        /\ visitor[k] = Away \/ visitor[k].at = "browsing"
        /\ visitor[k] \in VisitorRecords
    BY BrowserTypes DEF close, browserFiles
  <1>2. visitor' = [visitor EXCEPT ![k] = v]
    BY DEF close, GoesTo
  <1>3. errands' = Append(errands, e)
    BY DEF close, Sends
  <1>4. v \in VisitorRecords /\ v.at = "closing"
    BY <1>1 DEF VisitorRecords
  <1>5. visitor[k].at \notin Waiting \cup Holding
    BY <1>1 DEF Away, Waiting, Holding
  <1>6. n \in Nat
    BY BrowserTypes
  <1>7. e \in ErrandRecords /\ e.for = k /\ e.kind = "close"
    BY <1>6 DEF Errand, ErrandRecords
  <1>8. LockMoves(k, v)
    BY <1>1, <1>4, LockIsMoved DEF Holding
  <1>9. snapshot \in Nat /\ legacy \in Nat /\ Lasting(snapshot) /\ Lasting(legacy)
    BY DEF BrowserInv, BrowserHasTypes, SignaturesLast
  <1> HIDE DEF v, e
  <1> QED BY <1>1, <1>2, <1>3, <1>4, <1>5, <1>7, <1>8, <1>9, SendKeeps DEF Awaits

\* A revocation takes the lock before it has the sessions closed.
LEMMA DeleteKeeps ==
    ASSUME BROWSER_RUNTIME_ENABLED, BrowserInv, NEW k \in Visitors, delete_snapshot(k)
    PROVE  BrowserInv'
  <1> DEFINE v == [visitor[k] EXCEPT !.at = "revoking"]
             e == [Errand("closePolicy", "", 0, 0) EXCEPT !.for = k]
  <1>1. /\ UNCHANGED <<windows, snapshot, legacy, reader, revoked, logins, browserFaults>>
        /\ visitor[k] = Away /\ visitor[k] \in VisitorRecords /\ Takes(k)
    BY BrowserTypes DEF delete_snapshot, browserFiles
  <1>2. visitor' = [visitor EXCEPT ![k] = v]
    BY DEF delete_snapshot, GoesTo
  <1>3. errands' = Append(errands, e)
    BY DEF delete_snapshot, Sends
  <1>4. v \in VisitorRecords /\ v.at = "revoking"
    BY <1>1 DEF VisitorRecords, Holding
  <1>5. visitor[k].at \notin Waiting \cup Holding
    BY <1>1 DEF Away, Waiting, Holding
  <1>6. e \in ErrandRecords /\ e.for = k /\ e.kind = "closePolicy"
    BY DEF Errand, ErrandRecords
  <1>7. LockMoves(k, v)
    BY <1>1, LockIsMoved, <1>4
  <1>8. snapshot \in Nat /\ legacy \in Nat /\ Lasting(snapshot) /\ Lasting(legacy)
    BY DEF BrowserInv, BrowserHasTypes, SignaturesLast
  <1> HIDE DEF v, e
  <1> QED BY <1>1, <1>2, <1>3, <1>4, <1>5, <1>6, <1>7, <1>8, SendKeeps DEF Awaits

\* What is signed in stays lasting when a visitor alone moves.
LEMMA SignaturesStay ==
    ASSUME BrowserInv, NEW k \in Visitors, NEW v \in VisitorRecords,
           visitor' = [visitor EXCEPT ![k] = v],
           UNCHANGED <<windows, errands, logins, revoked>>,
           Lasting(snapshot'), Lasting(legacy'), v.at = "saving" => Lasting(v.login)
    PROVE  SignaturesLast'
  <1>1. /\ visitor'[k] = v /\ \A q \in Visitors \ {k} : visitor'[q] = visitor[q]
        /\ LiveWindows' = LiveWindows
    BY OneVisits DEF LiveWindows, Windows
  <1> QED BY <1>1 DEF BrowserInv, SignaturesLast, Lasting

\* A save looks the session up without the lock, and notes only which it is.
LEMMA SaveLooksKeeps ==
    ASSUME BrowserInv, NEW k \in Visitors, NEW n \in Windows, SaveLooks(k, n)
    PROVE  BrowserInv'
  <1> DEFINE v == [Away EXCEPT !.at = "seen", !.window = n]
  <1>1. /\ UNCHANGED <<windows, errands, snapshot, legacy, reader, revoked, policyLock, logins,
                       browserFaults>>
        /\ visitor[k] = Away /\ visitor' = [visitor EXCEPT ![k] = v]
    BY DEF SaveLooks, browserFiles
  <1>2. v \in VisitorRecords /\ v.at = "seen" /\ visitor[k].at = "away"
    <2>1. n \in Nat
      BY BrowserTypes
    <2>2. Away \in VisitorRecords /\ Away.at = "away"
      BY DEF VisitorRecords, Away
    <2> QED BY <1>1, <2>1, <2>2 DEF VisitorRecords
  <1> HIDE DEF v
  <1>3. /\ snapshot \in Nat /\ legacy \in Nat /\ revoked \in 0..logins
        /\ Lasting(snapshot) /\ Lasting(legacy)
        /\ \A q \in Visitors : visitor[q].at = "unlinkingOld" => snapshot = 0
    BY DEF BrowserInv, BrowserHasTypes, SignaturesLast, NothingIsOpen
  <1>4. SignaturesLast'
    BY <1>1, <1>2, <1>3, SignaturesStay
  <1>5. LockMoves(k, v)
    BY <1>1, <1>2, LockIsMoved DEF Holding
  <1> QED BY <1>1, <1>2, <1>3, <1>4, <1>5, VisitorSteps DEF Waiting

\* What a save fetches under the lock is the state of an open session, which lasts.
LEMMA SaveFetchesKeeps ==
    ASSUME BrowserInv, NEW k \in Visitors, SaveFetches(k)
    PROVE  BrowserInv'
  <1> DEFINE w == windows[visitor[k].window]
             v == IF Exportable(visitor[k].window)
                  THEN [visitor[k] EXCEPT !.at = "saving", !.login = w.login] ELSE Away
  <1>1. /\ UNCHANGED <<windows, errands, snapshot, legacy, reader, revoked, logins, browserFaults>>
        /\ visitor[k].at = "seen" /\ policyLock = Nobody /\ visitor[k] \in VisitorRecords
        /\ Takes(k) \/ (policyLock' = policyLock /\ v = Away)
    BY BrowserTypes DEF SaveFetches, browserFiles, Takes
  <1>2. visitor' = [visitor EXCEPT ![k] = v]
    BY DEF SaveFetches, Leaves
  <1>3. CASE Exportable(visitor[k].window)
    <2>1. w \in WindowRecords /\ Lasting(w.login)
      BY <1>3, BrowserTypes DEF Exportable, BrowserInv, SignaturesLast
    <2>2. /\ v \in VisitorRecords /\ v.at = "saving" /\ v.login = w.login
      BY <1>1, <1>3, <2>1 DEF VisitorRecords, WindowRecords, Holding
    <2> HIDE DEF v, w
    <2>3. LockMoves(k, v)
      <3>1. v # Away
        BY <2>2 DEF Away
      <3> QED BY <1>1, <2>2, <3>1, LockIsMoved
    <2>4. SignaturesLast'
      BY <1>1, <1>2, <2>1, <2>2, SignaturesStay DEF BrowserInv, SignaturesLast
    <2>5. /\ snapshot \in Nat /\ legacy \in Nat /\ revoked \in 0..logins
          /\ \A q \in Visitors : visitor[q].at = "unlinkingOld" => snapshot = 0
      BY DEF BrowserInv, BrowserHasTypes, NothingIsOpen
    <2> QED BY <1>1, <1>2, <2>2, <2>3, <2>4, <2>5, VisitorSteps DEF Waiting
  <1>4. CASE ~Exportable(visitor[k].window)
    <2>1. v = Away /\ v \in VisitorRecords /\ v.at = "away"
      BY <1>4, VisitorFields DEF Away, VisitorRecords
    <2>2. policyLock' = policyLock
      BY <1>4 DEF SaveFetches
    <2> HIDE DEF v
    <2>3. LockMoves(k, v)
      BY <2>1, <2>2, LockIsMoved DEF Holding
    <2>4. SignaturesLast'
      BY <1>1, <1>2, <2>1, SignaturesStay DEF BrowserInv, SignaturesLast
    <2>5. /\ snapshot \in Nat /\ legacy \in Nat /\ revoked \in 0..logins
          /\ \A q \in Visitors : visitor[q].at = "unlinkingOld" => snapshot = 0
      BY DEF BrowserInv, BrowserHasTypes, NothingIsOpen
    <2> QED BY <1>1, <1>2, <2>1, <2>3, <2>4, <2>5, VisitorSteps DEF Waiting
  <1> QED BY <1>3, <1>4

\* While a save holds the lock no revocation removes the files it writes.
LEMMA SaveWritesKeeps ==
    ASSUME BrowserInv, NEW k \in Visitors, _save_sync(k)
    PROVE  BrowserInv'
  <1>1. /\ UNCHANGED <<windows, errands, legacy, reader, revoked, logins, browserFaults>>
        /\ visitor[k].at = "saving" /\ visitor[k] \in VisitorRecords
        /\ visitor' = [visitor EXCEPT ![k] = Away] /\ Gives(k) /\ snapshot' = visitor[k].login
    BY BrowserTypes DEF _save_sync, Leaves
  <1>2. Away \in VisitorRecords /\ Away.at = "away"
    BY DEF Away, VisitorRecords
  <1>3. /\ snapshot' \in Nat /\ legacy \in Nat /\ revoked \in 0..logins
        /\ Lasting(snapshot') /\ Lasting(legacy)
    BY <1>1 DEF BrowserInv, BrowserHasTypes, SignaturesLast, VisitorRecords
  <1>4. \A q \in Visitors : visitor[q].at # "unlinkingOld"
    BY <1>1, OneHolds DEF Holding
  <1>5. SignaturesLast'
    BY <1>1, <1>2, <1>3, SignaturesStay
  <1>6. LockMoves(k, Away)
    BY <1>1, <1>2, LockIsMoved DEF Holding
  <1> QED BY <1>1, <1>2, <1>3, <1>4, <1>5, <1>6, VisitorSteps DEF Waiting

\* The file of the new name is removed while no reader can bring it back.
LEMMA UnlinksNewKeeps ==
    ASSUME LoneReads, BrowserInv, NEW k \in Visitors, UnlinksNew(k)
    PROVE  BrowserInv'
  <1> DEFINE v == [visitor[k] EXCEPT !.at = "unlinkingOld"]
  <1>1. /\ UNCHANGED <<windows, errands, legacy, reader, policyLock, revoked, logins,
                       browserFaults>>
        /\ visitor[k].at = "unlinking" /\ visitor[k] \in VisitorRecords
        /\ visitor' = [visitor EXCEPT ![k] = v] /\ snapshot' = 0 /\ reader = "idle"
    BY BrowserTypes DEF UnlinksNew, GoesTo
  <1>2. v \in VisitorRecords /\ v.at = "unlinkingOld"
    BY <1>1 DEF VisitorRecords, Holding
  <1> HIDE DEF v
  <1>3. /\ snapshot' \in Nat /\ legacy \in Nat /\ revoked \in 0..logins
        /\ Lasting(snapshot') /\ Lasting(legacy)
    BY <1>1, BrowserTypes DEF BrowserInv, BrowserHasTypes, SignaturesLast
  <1>4. SignaturesLast'
    BY <1>1, <1>2, <1>3, SignaturesStay
  <1>5. LockMoves(k, v)
    BY <1>1, <1>2, LockIsMoved DEF Holding
  <1> QED BY <1>1, <1>2, <1>3, <1>4, <1>5, VisitorSteps DEF Waiting

\* The revocation is answered: whatever was signed so far is ended, and nowhere.
LEMMA UnlinksOldKeeps ==
    ASSUME BrowserInv, NEW k \in Visitors, UnlinksOld(k)
    PROVE  BrowserInv'
  <1>1. /\ UNCHANGED <<windows, errands, snapshot, reader, logins, browserFaults>>
        /\ visitor[k].at = "unlinkingOld" /\ legacy' = 0 /\ revoked' = logins
        /\ visitor' = [visitor EXCEPT ![k] = Away] /\ Gives(k)
    BY DEF UnlinksOld, Leaves
  <1>2. Away \in VisitorRecords /\ Away.at = "away"
    BY DEF Away, VisitorRecords
  <1>3. /\ snapshot = 0 /\ LiveWindows = {}
        /\ \A i \in DOMAIN errands : errands[i].kind # "start"
    BY <1>1 DEF BrowserInv, NothingIsOpen, Removing
  <1>4. \A q \in Visitors : visitor'[q].at # "saving"
    <2>1. \A q \in Visitors : visitor[q].at # "saving"
      BY <1>1, OneHolds DEF Holding
    <2> QED BY <1>1, <1>2, <2>1, OneVisits
  <1>5. logins \in Nat
    BY BrowserTypes
  <1>6. SignaturesLast'
    <2>1. LiveWindows' = {}
      BY <1>1, <1>3 DEF LiveWindows, Windows
    <2> QED BY <1>1, <1>3, <1>4, <1>5, <2>1 DEF SignaturesLast, Lasting
  <1>7. LockMoves(k, Away)
    BY <1>1, <1>2, LockIsMoved DEF Holding
  <1>8. /\ snapshot' \in Nat /\ legacy' \in Nat /\ revoked' \in 0..logins
        /\ visitor[k].at \notin Waiting
        /\ \A q \in Visitors : visitor[q].at = "unlinkingOld" => snapshot' = 0
    BY <1>1, <1>3, <1>5 DEF Waiting
  <1> QED BY <1>1, <1>2, <1>6, <1>7, <1>8, VisitorSteps DEF Waiting

\* Some visitors leave, and nobody waits any more for what they had sent.
LEMMA LeavingKeeps ==
    ASSUME BrowserInv,
           NEW gone \in SUBSET Visitors,
           visitor' = [q \in Visitors |-> IF q \in gone THEN Away ELSE visitor[q]],
           errands' = [i \in DOMAIN errands |-> IF errands[i].for \in gone
                                                THEN [errands[i] EXCEPT !.for = Nobody]
                                                ELSE errands[i]],
           UNCHANGED <<windows, snapshot, legacy, reader, revoked, logins>>,
           browserFaults' \in 0..MaxBrowserFaults,
           policyLock' \in Visitors \cup {Nobody},
           \A q \in Visitors \ gone : visitor[q].at \in Holding => policyLock' = q
    PROVE  BrowserInv'
  <1>1. /\ errands \in Seq(ErrandRecords) /\ DOMAIN errands = 1..Len(errands)
        /\ Len(errands) \in Nat /\ visitor \in [Visitors -> VisitorRecords]
    BY BrowserTypes
  <1>2. Away \in VisitorRecords /\ Away.at = "away"
    BY DEF Away, VisitorRecords
  <1>3. /\ visitor' \in [Visitors -> VisitorRecords]
        /\ \A q \in gone : visitor'[q].at = "away"
        /\ \A q \in Visitors \ gone : visitor'[q] = visitor[q]
    BY <1>1, <1>2
  <1>4. ASSUME NEW i \in DOMAIN errands
        PROVE  /\ errands'[i] \in ErrandRecords
               /\ errands'[i].kind = errands[i].kind /\ errands'[i].mode = errands[i].mode
               /\ errands'[i].login = errands[i].login
               /\ errands[i].for \in gone => errands'[i].for = Nobody
               /\ errands[i].for \notin gone => errands'[i].for = errands[i].for
               /\ errands[i].for \in Visitors \cup {Nobody}
    <2>1. errands[i] \in ErrandRecords
      BY <1>1
    <2> QED BY <2>1 DEF ErrandRecords
  <1>5. errands' \in Seq(ErrandRecords) /\ DOMAIN errands' = DOMAIN errands
    BY <1>1, <1>4
  <1>6. Windows' = Windows /\ LiveWindows' = LiveWindows
    BY DEF Windows, LiveWindows
  <1>7. BrowserHasTypes'
    BY <1>3, <1>4, <1>5, <1>6 DEF BrowserInv, BrowserHasTypes
  <1>8. SignaturesLast'
    <2>1. \A i \in DOMAIN errands' : errands'[i].kind = "start" => Lasting(errands'[i].login)
      BY <1>4, <1>5 DEF BrowserInv, SignaturesLast
    <2>2. \A q \in Visitors : visitor'[q].at = "saving" => Lasting(visitor'[q].login)
      BY <1>3 DEF BrowserInv, SignaturesLast
    <2> QED BY <1>6, <2>1, <2>2 DEF BrowserInv, SignaturesLast, Lasting
  <1>9. LockIsHeld'
    BY <1>3 DEF LockIsHeld, Holding
  <1>10. ErrandsAreAwaited'
    <2>1. ASSUME NEW i \in DOMAIN errands, errands'[i].for # Nobody
          PROVE  /\ Awaits(visitor'[errands'[i].for].at, errands'[i].kind)
                 /\ \A j \in DOMAIN errands : errands'[j].for = errands'[i].for => j = i
      <3>1. /\ errands[i].for \in Visitors \ gone /\ errands'[i].for = errands[i].for
        BY <1>4, <2>1
      <3>2. /\ Awaits(visitor[errands[i].for].at, errands[i].kind)
            /\ \A j \in DOMAIN errands : errands[j].for = errands[i].for => j = i
        BY <3>1, NobodyAssumption DEF BrowserInv, ErrandsAreAwaited
      <3>3. \A j \in DOMAIN errands : errands'[j].for = errands'[i].for => j = i
        BY <1>4, <2>1, <3>1, <3>2
      <3> QED BY <1>3, <1>4, <3>1, <3>2, <3>3
    <2> QED BY <1>5, <2>1 DEF ErrandsAreAwaited
  <1>11. StartsComeFirst'
    <2>1. ASSUME NEW q \in Visitors, visitor'[q].at = "revoking",
                 NEW i \in DOMAIN errands, NEW j \in DOMAIN errands,
                 errands'[i].for = q, i < j
          PROVE  errands'[j].kind # "start"
      <3>1. q \notin gone /\ visitor[q].at = "revoking"
        BY <1>3, <2>1
      <3>2. errands[i].for = q
        BY <1>4, <2>1, NobodyAssumption
      <3> QED BY <1>4, <2>1, <3>1, <3>2 DEF BrowserInv, StartsComeFirst
    <2> QED BY <1>5, <2>1 DEF StartsComeFirst
  <1>12. NothingIsOpen'
    <2>1. ASSUME NEW q \in Visitors, visitor'[q].at \in Removing
          PROVE  visitor'[q] = visitor[q]
      BY <1>3, <2>1 DEF Removing
    <2>2. ASSUME NEW q \in Visitors, visitor'[q].at \in Removing
          PROVE  /\ LiveWindows' = {}
                 /\ \A i \in DOMAIN errands' : errands'[i].kind # "start"
                 /\ visitor'[q].at = "unlinkingOld" => snapshot' = 0 /\ reader' = "idle"
      BY <1>4, <1>5, <1>6, <2>1, <2>2 DEF BrowserInv, NothingIsOpen
    <2> QED BY <2>2 DEF NothingIsOpen, Removing
  <1> QED BY <1>7, <1>8, <1>9, <1>10, <1>11, <1>12 DEF BrowserInv

\* A visitor that gives up is one that leaves.
LEMMA GivesUpKeeps ==
    ASSUME BrowserInv, NEW k \in Visitors, GivesUp(k)
    PROVE  BrowserInv'
  <1>1. /\ UNCHANGED <<windows, snapshot, legacy, reader, revoked, logins>>
        /\ visitor' = [visitor EXCEPT ![k] = Away] /\ Gives(k)
        /\ errands' = [i \in DOMAIN errands |->
                         IF errands[i].for = k THEN [errands[i] EXCEPT !.for = Nobody]
                         ELSE errands[i]]
    BY DEF GivesUp, browserFiles, Leaves
  <1>2. browserFaults' \in 0..MaxBrowserFaults
    BY BrowserAssumption DEF GivesUp, BrowserInv, BrowserHasTypes
  <1>3. /\ visitor' = [q \in Visitors |-> IF q \in {k} THEN Away ELSE visitor[q]]
        /\ errands' = [i \in DOMAIN errands |-> IF errands[i].for \in {k}
                                                THEN [errands[i] EXCEPT !.for = Nobody]
                                                ELSE errands[i]]
    BY <1>1, BrowserTypes
  <1>4. /\ policyLock' \in Visitors \cup {Nobody}
        /\ \A q \in Visitors \ {k} : visitor[q].at \in Holding => policyLock' = q
    BY <1>1 DEF Gives, BrowserInv, BrowserHasTypes, LockIsHeld
  <1>5. PICK gone \in SUBSET Visitors : gone = {k}
    OBVIOUS
  <1>6. /\ visitor' = [q \in Visitors |-> IF q \in gone THEN Away ELSE visitor[q]]
        /\ errands' = [i \in DOMAIN errands |-> IF errands[i].for \in gone
                                                THEN [errands[i] EXCEPT !.for = Nobody]
                                                ELSE errands[i]]
        /\ \A q \in Visitors \ gone : visitor[q].at \in Holding => policyLock' = q
    BY <1>3, <1>4, <1>5
  <1> QED BY <1>1, <1>2, <1>4, <1>6, LeavingKeeps

\* When the web process is restarted every visitor leaves.
LEMMA WebRestartsKeeps ==
    ASSUME BrowserInv, WebRestarts
    PROVE  BrowserInv'
  <1>1. /\ UNCHANGED <<windows, snapshot, legacy, reader, revoked, logins>>
        /\ visitor' = [q \in Visitors |-> Away] /\ policyLock' = Nobody
        /\ errands' = [i \in DOMAIN errands |-> [errands[i] EXCEPT !.for = Nobody]]
    BY DEF WebRestarts, browserFiles
  <1>2. browserFaults' \in 0..MaxBrowserFaults
    BY BrowserAssumption DEF WebRestarts, BrowserInv, BrowserHasTypes
  <1>3. errands' = [i \in DOMAIN errands |-> IF errands[i].for \in Visitors
                                             THEN [errands[i] EXCEPT !.for = Nobody]
                                             ELSE errands[i]]
    <2>1. ASSUME NEW i \in DOMAIN errands, errands[i].for \notin Visitors
          PROVE  [errands[i] EXCEPT !.for = Nobody] = errands[i]
      <3>1. errands[i] \in ErrandRecords
        BY BrowserTypes
      <3>2. errands[i].for = Nobody
        BY <2>1, <3>1 DEF ErrandRecords
      <3> QED BY <3>1, <3>2 DEF ErrandRecords
    <2> QED BY <1>1, <2>1
  <1>4. visitor' = [q \in Visitors |-> IF q \in Visitors THEN Away ELSE visitor[q]]
    BY <1>1
  <1> QED BY <1>1, <1>2, <1>3, <1>4, LeavingKeeps

\* When the runtime is restarted no session is open and nothing is asked of it.
LEMMA RuntimeRestartsKeeps ==
    ASSUME BrowserInv, RuntimeRestarts
    PROVE  BrowserInv'
  <1>1. /\ UNCHANGED <<snapshot, legacy, reader, revoked, logins>>
        /\ windows' = Shut(Windows) /\ errands' = <<>>
        /\ visitor' = [q \in Visitors |-> IF visitor[q].at \in Waiting THEN Away ELSE visitor[q]]
        /\ policyLock' = IF policyLock # Nobody /\ visitor'[policyLock] = Away
                         THEN Nobody ELSE policyLock
    BY DEF RuntimeRestarts, browserFiles, Waiting
  <1>2. /\ Away \in VisitorRecords /\ Away.at = "away" /\ DOMAIN <<>> = {}
        /\ <<>> \in Seq(ErrandRecords)
    BY DEF Away, VisitorRecords
  <1>3. /\ windows' \in Seq(WindowRecords) /\ Len(windows') = Len(windows)
        /\ Windows' = Windows /\ LiveWindows' = {}
        /\ \A n \in Windows' : windows'[n].login <= logins'
    <2>1. /\ windows' \in Seq(WindowRecords) /\ Len(windows') = Len(windows)
          /\ Windows' = Windows /\ LiveWindows' = LiveWindows \ Windows
          /\ \A n \in Windows' : windows'[n].login <= logins'
      BY <1>1, ShutKeeps
    <2> QED BY <2>1, BrowserTypes
  <1>4. /\ visitor' \in [Visitors -> VisitorRecords]
        /\ \A q \in Visitors : /\ visitor[q].at \in Waiting => visitor'[q].at = "away"
                               /\ visitor[q].at \notin Waiting => visitor'[q] = visitor[q]
    BY <1>1, <1>2, BrowserTypes
  <1>5. browserFaults' \in 0..MaxBrowserFaults
    BY BrowserAssumption DEF RuntimeRestarts, BrowserInv, BrowserHasTypes
  <1>6. BrowserHasTypes'
    BY <1>1, <1>2, <1>3, <1>4, <1>5 DEF BrowserInv, BrowserHasTypes
  <1>7. SignaturesLast'
    BY <1>1, <1>2, <1>3, <1>4 DEF BrowserInv, SignaturesLast, Lasting
  <1>8. LockIsHeld'
    <2>1. ASSUME NEW q \in Visitors, visitor'[q].at \in Holding
          PROVE  policyLock' = q
      <3>1. visitor'[q] = visitor[q] /\ visitor'[q] # Away
        BY <1>2, <1>4, <2>1 DEF Holding
      <3>2. policyLock = q
        BY <2>1, <3>1 DEF BrowserInv, LockIsHeld
      <3> QED BY <1>1, <3>1, <3>2
    <2> QED BY <2>1 DEF LockIsHeld
  <1>9. ErrandsAreAwaited' /\ StartsComeFirst'
    BY <1>1, <1>2 DEF ErrandsAreAwaited, StartsComeFirst
  <1>10. NothingIsOpen'
    BY <1>1, <1>2, <1>3, <1>4 DEF BrowserInv, NothingIsOpen, Removing
  <1> QED BY <1>6, <1>7, <1>8, <1>9, <1>10 DEF BrowserInv

\* The runtime carries out the errand at the head, and who waits for it hears: a
\* close of the policy that succeeded leaves no window open.
LEMMA AnswersKeep ==
    ASSUME BrowserInv, errands # <<>>,
           NEW at \in {"away", "browsing", "unlinking"}, NEW window \in Nat,
           Answers(Head(errands), at, window),
           UNCHANGED <<snapshot, legacy, reader, revoked, logins, browserFaults>>,
           windows' \in Seq(WindowRecords), Len(windows') <= MaxSessions,
           \A n \in Windows' : windows'[n].login <= logins,
           \A n \in LiveWindows' : Lasting(windows'[n].login),
           Head(errands).kind = "start" \/ LiveWindows' \subseteq LiveWindows,
           at = "unlinking" => Head(errands).kind = "closePolicy" /\ LiveWindows' = {}
    PROVE  BrowserInv'
  <1> DEFINE e == errands[1]
             k == e.for
  <1>1. /\ errands' = Tail(errands)
        /\ IF k = Nobody THEN UNCHANGED <<visitor, policyLock>>
           ELSE /\ visitor' = [visitor EXCEPT ![k] = IF at = "away" THEN Away
                                                     ELSE [Away EXCEPT !.at = at,
                                                                       !.window = window]]
                /\ IF at = "unlinking" THEN UNCHANGED policyLock ELSE Gives(k)
        /\ Head(errands) = e
    <2>1. Head(errands) = e
      BY CarriedOut DEF Answers
    <2> QED BY <2>1 DEF Answers
  <1>2. /\ errands' \in Seq(ErrandRecords) /\ 1 \in DOMAIN errands /\ e \in ErrandRecords
        /\ \A i \in DOMAIN errands' : /\ i + 1 \in DOMAIN errands /\ i \in Nat /\ i # 0
                                      /\ errands'[i] = errands[i + 1]
    BY <1>1, CarriedOut
  <1>3. /\ e.for \in Visitors \cup {Nobody} /\ visitor \in [Visitors -> VisitorRecords]
        /\ logins \in Nat
    BY <1>2, BrowserTypes DEF ErrandRecords
  <1>4. k # Nobody => /\ k \in Visitors /\ Awaits(visitor[k].at, e.kind)
                      /\ \A j \in DOMAIN errands : errands[j].for = k => j = 1
    BY <1>2, <1>3 DEF BrowserInv, ErrandsAreAwaited
  <1>5. /\ visitor' \in [Visitors -> VisitorRecords]
        /\ \A q \in Visitors : q # k => visitor'[q] = visitor[q]
        /\ k # Nobody => visitor'[k].at = at
    <2>1. CASE k = Nobody
      BY <1>1, <1>3, <2>1
    <2>2. CASE k # Nobody
      <3> DEFINE v == IF at = "away" THEN Away ELSE [Away EXCEPT !.at = at, !.window = window]
      <3>1. v \in VisitorRecords /\ v.at = at
        <4>1. Away \in VisitorRecords /\ Away.at = "away"
          BY DEF Away, VisitorRecords
        <4> QED BY <4>1 DEF VisitorRecords, Holding
      <3>2. visitor' = [visitor EXCEPT ![k] = v]
        BY <1>1, <2>2
      <3> HIDE DEF v
      <3> QED BY <1>3, <1>4, <2>2, <3>1, <3>2
    <2> QED BY <2>1, <2>2
  <1>6. policyLock' \in Visitors \cup {Nobody}
    BY <1>1 DEF Gives, BrowserInv, BrowserHasTypes
  <1> HIDE DEF e
  <1>7. BrowserHasTypes'
    BY <1>2, <1>5, <1>6 DEF BrowserInv, BrowserHasTypes
  <1>8. SignaturesLast'
    <2>1. \A i \in DOMAIN errands' : errands'[i].kind = "start" => Lasting(errands'[i].login)
      BY <1>2 DEF BrowserInv, SignaturesLast
    <2>2. \A q \in Visitors : visitor'[q].at = "saving" => Lasting(visitor'[q].login)
      <3>1. ASSUME NEW q \in Visitors, visitor'[q].at = "saving"
            PROVE  q # k
        BY <1>5, <3>1, NobodyAssumption
      <3> QED BY <1>5, <3>1 DEF BrowserInv, SignaturesLast
    <2> QED BY <2>1, <2>2 DEF BrowserInv, SignaturesLast, Lasting
  <1>9. LockIsHeld'
    <2>1. ASSUME NEW q \in Visitors, visitor'[q].at \in Holding
          PROVE  policyLock' = q
      <3>1. CASE q # k
        <4>1. policyLock = q
          BY <1>5, <2>1, <3>1 DEF BrowserInv, LockIsHeld
        <4> QED BY <1>1, <3>1, <4>1 DEF Gives
      <3>2. CASE q = k
        <4>1. k # Nobody /\ at = "unlinking"
          BY <1>5, <2>1, <3>2, NobodyAssumption DEF Holding
        <4>2. visitor[k].at = "revoking"
          BY <1>1, <1>4, <4>1 DEF Awaits
        <4> QED BY <1>1, <2>1, <3>2, <4>1, <4>2 DEF BrowserInv, LockIsHeld, Holding
      <3> QED BY <3>1, <3>2
    <2> QED BY <2>1 DEF LockIsHeld
  <1>10. ErrandsAreAwaited'
    <2>1. ASSUME NEW i \in DOMAIN errands', errands'[i].for # Nobody
          PROVE  /\ Awaits(visitor'[errands'[i].for].at, errands'[i].kind)
                 /\ \A j \in DOMAIN errands' : errands'[j].for = errands'[i].for => j = i
      <3>1. /\ i + 1 \in DOMAIN errands /\ errands'[i] = errands[i + 1] /\ i \in Nat /\ i # 0
        BY <1>2
      <3>2. /\ Awaits(visitor[errands[i + 1].for].at, errands[i + 1].kind)
            /\ \A j \in DOMAIN errands : errands[j].for = errands[i + 1].for => j = i + 1
        BY <2>1, <3>1 DEF BrowserInv, ErrandsAreAwaited
      <3>3. errands[i + 1].for # k
        BY <1>2, <3>1, <3>2 DEF e
      <3>4. errands[i + 1].for \in Visitors
        <4>1. errands[i + 1] \in ErrandRecords
          BY <3>1, BrowserTypes
        <4> QED BY <2>1, <3>1, <4>1 DEF ErrandRecords
      <3>5. visitor'[errands'[i].for] = visitor[errands[i + 1].for]
        BY <1>5, <3>1, <3>3, <3>4
      <3>6. ASSUME NEW j \in DOMAIN errands', errands'[j].for = errands'[i].for
            PROVE  j = i
        <4>1. j + 1 \in DOMAIN errands /\ errands'[j] = errands[j + 1] /\ j \in Nat
          BY <1>2
        <4>2. j + 1 = i + 1
          BY <3>1, <3>2, <3>6, <4>1
        <4> QED BY <3>1, <4>1, <4>2
      <3> QED BY <3>1, <3>2, <3>5, <3>6
    <2> QED BY <2>1 DEF ErrandsAreAwaited
  <1>11. StartsComeFirst'
    <2>1. ASSUME NEW q \in Visitors, visitor'[q].at = "revoking",
                 NEW i \in DOMAIN errands', NEW j \in DOMAIN errands',
                 errands'[i].for = q, i < j
          PROVE  errands'[j].kind # "start"
      <3>1. visitor[q].at = "revoking"
        BY <1>5, <2>1, NobodyAssumption
      <3>2. /\ i + 1 \in DOMAIN errands /\ errands[i + 1].for = q /\ i + 1 < j + 1
            /\ j + 1 \in DOMAIN errands /\ errands'[j] = errands[j + 1]
        BY <1>2, <2>1
      <3> QED BY <3>1, <3>2 DEF BrowserInv, StartsComeFirst
    <2> QED BY <2>1 DEF StartsComeFirst
  <1>12. NothingIsOpen'
    <2>1. ASSUME NEW q \in Visitors, visitor'[q].at \in Removing
          PROVE  /\ LiveWindows' = {}
                 /\ \A i \in DOMAIN errands' : errands'[i].kind # "start"
                 /\ visitor'[q].at = "unlinkingOld" => snapshot = 0 /\ reader = "idle"
      <3>1. CASE q # k
        <4>1. /\ visitor'[q] = visitor[q] /\ LiveWindows = {}
              /\ \A i \in DOMAIN errands : errands[i].kind # "start"
              /\ visitor[q].at = "unlinkingOld" => snapshot = 0 /\ reader = "idle"
          BY <1>5, <2>1, <3>1 DEF BrowserInv, NothingIsOpen
        <4>2. Head(errands).kind # "start"
          BY <1>1, <1>2, <4>1 DEF e
        <4> QED BY <1>2, <4>1, <4>2
      <3>2. CASE q = k
        <4>1. k # Nobody /\ at = "unlinking" /\ visitor'[q].at = "unlinking"
          BY <1>5, <2>1, <3>2, NobodyAssumption DEF Removing
        <4>2. visitor[k].at = "revoking"
          BY <1>1, <1>4, <4>1 DEF Awaits
        <4>3. ASSUME NEW i \in DOMAIN errands'
              PROVE  errands'[i].kind # "start"
          <5>1. /\ 1 \in DOMAIN errands /\ errands[1].for = k
                /\ i + 1 \in DOMAIN errands /\ 1 < i + 1
                /\ errands'[i] = errands[i + 1]
            BY <1>2 DEF e
          <5> QED BY <1>4, <4>1, <4>2, <5>1 DEF BrowserInv, StartsComeFirst
        <4> QED BY <4>1, <4>3
      <3> QED BY <3>1, <3>2
    <2> QED BY <2>1 DEF NothingIsOpen, Removing
  <1> QED BY <1>7, <1>8, <1>9, <1>10, <1>11, <1>12 DEF BrowserInv


\* The runtime closes some windows, and tells who asked for it.
LEMMA ShutAnswers ==
    ASSUME BrowserInv, errands # <<>>, NEW some, NEW at \in {"away", "unlinking"},
           windows' = Shut(some), Answers(Head(errands), at, 0),
           UNCHANGED <<snapshot, legacy, reader, revoked, logins, browserFaults>>,
           at = "unlinking" => Head(errands).kind = "closePolicy" /\ LiveWindows \subseteq some
    PROVE  BrowserInv'
  <1>1. /\ windows' \in Seq(WindowRecords) /\ Len(windows') = Len(windows)
        /\ LiveWindows' = LiveWindows \ some
        /\ \A n \in LiveWindows' : windows'[n] = windows[n]
        /\ \A n \in Windows' : windows'[n].login <= logins'
    BY ShutKeeps
  <1>2. Len(windows') <= MaxSessions
    BY <1>1 DEF BrowserInv, BrowserHasTypes
  <1>3. \A n \in LiveWindows' : Lasting(windows'[n].login)
    BY <1>1 DEF BrowserInv, SignaturesLast
  <1>4. /\ LiveWindows' \subseteq LiveWindows
        /\ at = "unlinking" => Head(errands).kind = "closePolicy" /\ LiveWindows' = {}
    BY <1>1
  <1>5. \A n \in Windows' : windows'[n].login <= logins
    BY <1>1
  <1> QED BY <1>1, <1>2, <1>3, <1>4, <1>5, AnswersKeep

\* A session that opens carries the signatures of the snapshot it was sent.
LEMMA RuntimeStartsKeeps ==
    ASSUME BrowserInv, RuntimeStarts
    PROVE  BrowserInv'
  <1>1. /\ UNCHANGED <<snapshot, legacy, reader, revoked, logins, browserFaults>>
        /\ errands # <<>> /\ Head(errands).kind = "start"
    BY DEF RuntimeStarts, browserFiles
  <1>2. PICK some :
          \/ /\ Len(windows) < MaxSessions
             /\ windows' = Append(Shut(some), [mode |-> Head(errands).mode,
                                               login |-> Head(errands).login])
             /\ Answers(Head(errands),
                        IF Head(errands).mode = "headless" THEN "browsing" ELSE "away",
                        Len(windows) + 1)
          \/ windows' = Shut(some) /\ Answers(Head(errands), "away", 0)
    BY Zenon DEF RuntimeStarts
  <1>3. CASE windows' = Shut(some) /\ Answers(Head(errands), "away", 0)
    BY <1>1, <1>3, ShutAnswers
  <1>4. CASE /\ Len(windows) < MaxSessions
             /\ windows' = Append(Shut(some), [mode |-> Head(errands).mode,
                                               login |-> Head(errands).login])
             /\ Answers(Head(errands),
                        IF Head(errands).mode = "headless" THEN "browsing" ELSE "away",
                        Len(windows) + 1)
    <2> DEFINE at == IF Head(errands).mode = "headless" THEN "browsing" ELSE "away"
               w == [mode |-> Head(errands).mode, login |-> Head(errands).login]
    <2>1. /\ Len(windows) \in Nat /\ windows \in Seq(WindowRecords) /\ logins \in Nat
          /\ 1 \in DOMAIN errands /\ Head(errands) = errands[1] /\ errands[1] \in ErrandRecords
      BY <1>1, BrowserTypes
    <2>2. /\ w \in WindowRecords /\ Lasting(w.login) /\ w.login <= logins
      <3>1. /\ Lasting(errands[1].login)
            /\ errands[1].mode \in {"interactive", "headless"} /\ errands[1].login \in Nat
        BY <1>1, <2>1 DEF BrowserInv, SignaturesLast, BrowserHasTypes, ErrandRecords
      <3> QED BY <2>1, <3>1 DEF WindowRecords, Lasting
    <2> DEFINE s == Shut(some)
    <2>3. /\ s \in Seq(WindowRecords) /\ Len(s) = Len(windows)
          /\ \A n \in 1..Len(windows) :
                s[n] = IF n \in some THEN [mode |-> "closed", login |-> 0] ELSE windows[n]
      <3>1. Windows = 1..Len(windows)
        BY BrowserTypes
      <3>2. [mode |-> "closed", login |-> 0] \in WindowRecords
        BY DEF WindowRecords
      <3> QED BY <2>1, <3>1, <3>2 DEF Shut
    <2>4. windows' = Append(s, w) /\ Len(windows) < MaxSessions
      BY <1>4
    <2> HIDE DEF s, w
    <2>5. /\ windows' \in Seq(WindowRecords) /\ Len(windows') = Len(windows) + 1
          /\ DOMAIN windows' = 1..Len(windows) + 1
          /\ windows'[Len(windows) + 1] = w
          /\ \A n \in 1..Len(windows) : windows'[n] = s[n]
      BY <2>1, <2>2, <2>3, <2>4
    <2>6. Len(windows') <= MaxSessions
      BY <2>1, <2>4, <2>5, BrowserAssumption
    <2>7. \A n \in 1..Len(windows) : /\ windows'[n].login <= logins
                                     /\ windows'[n].mode # "closed" => Lasting(windows'[n].login)
      <3>1. \A n \in 1..Len(windows) :
               /\ windows[n].login <= logins
               /\ windows[n].mode # "closed" => Lasting(windows[n].login)
        BY BrowserTypes DEF BrowserInv, BrowserHasTypes, SignaturesLast, LiveWindows
      <3> QED BY SMTT(30), <2>1, <2>3, <2>5, <3>1
    <2>8. /\ \A n \in Windows' : windows'[n].login <= logins
          /\ \A n \in LiveWindows' : Lasting(windows'[n].login)
      BY <2>1, <2>2, <2>5, <2>7 DEF Windows, LiveWindows
    <2>9. /\ at \in {"away", "browsing", "unlinking"} /\ at # "unlinking"
          /\ Answers(Head(errands), at, Len(windows) + 1) /\ Len(windows) + 1 \in Nat
      BY <1>4, <2>1
    <2> HIDE DEF at
    <2> QED BY <1>1, <2>5, <2>6, <2>8, <2>9, AnswersKeep
  <1> QED BY <1>2, <1>3, <1>4

\* A session is closed.
LEMMA RuntimeClosesKeeps ==
    ASSUME BrowserInv, RuntimeCloses
    PROVE  BrowserInv'
  BY ShutAnswers DEF RuntimeCloses, browserFiles

\* All sessions are closed, or the loop ends early and the revocation fails.
LEMMA ClosePolicyKeeps ==
    ASSUME BrowserInv, close_policy
    PROVE  BrowserInv'
  <1>1. /\ UNCHANGED <<snapshot, legacy, reader, revoked, logins, browserFaults>>
        /\ errands # <<>> /\ Head(errands).kind = "closePolicy"
        /\ \/ windows' = Shut(LiveWindows) /\ Answers(Head(errands), "unlinking", 0)
           \/ \E some : windows' = Shut(some) /\ Answers(Head(errands), "away", 0)
    BY Zenon DEF close_policy, browserFiles
  <1>2. CASE windows' = Shut(LiveWindows) /\ Answers(Head(errands), "unlinking", 0)
    <2>1. PICK some : some = LiveWindows
      OBVIOUS
    <2>2. windows' = Shut(some) /\ LiveWindows \subseteq some
      BY <1>2, <2>1
    <2> QED BY <1>1, <1>2, <2>2, ShutAnswers
  <1>3. CASE \E some : windows' = Shut(some) /\ Answers(Head(errands), "away", 0)
    BY <1>1, <1>3, ShutAnswers
  <1> QED BY <1>1, <1>2, <1>3

\* A step that only changes what is in the windows.
LEMMA WindowsKeep ==
    ASSUME BrowserInv,
           UNCHANGED <<errands, snapshot, legacy, reader, revoked, policyLock, visitor,
                       browserFaults>>,
           windows' \in Seq(WindowRecords), Len(windows') <= MaxSessions,
           logins' \in 0..MaxLogins, logins <= logins',
           LiveWindows' \subseteq LiveWindows,
           \A n \in Windows' : windows'[n].login <= logins',
           \A n \in LiveWindows' : windows'[n].login \notin 1..revoked
    PROVE  BrowserInv'
  <1>1. logins \in Nat /\ logins' \in Nat /\ revoked \in Nat /\ revoked <= logins
    BY BrowserTypes
  <1>2. \A l \in Nat : Lasting(l) => l <= logins' /\ l \notin 1..revoked'
    BY <1>1 DEF Lasting
  <1>3. LiveWindows' \subseteq Windows'
    BY DEF LiveWindows
  <1>4. BrowserHasTypes'
    BY <1>1 DEF BrowserInv, BrowserHasTypes
  <1>5. SignaturesLast'
    <2>1. \A n \in LiveWindows' : /\ windows'[n].login <= logins'
                                  /\ windows'[n].login \notin 1..revoked'
      BY <1>3
    <2>2. /\ snapshot \in Nat /\ legacy \in Nat
          /\ \A i \in DOMAIN errands : errands[i].login \in Nat
          /\ \A k \in Visitors : visitor[k].login \in Nat
      <3>1. /\ \A i \in DOMAIN errands : errands[i] \in ErrandRecords
            /\ \A k \in Visitors : visitor[k] \in VisitorRecords
        BY BrowserTypes
      <3> QED BY <3>1 DEF BrowserInv, BrowserHasTypes, ErrandRecords, VisitorRecords
    <2> QED BY <1>2, <2>1, <2>2 DEF BrowserInv, SignaturesLast, Lasting
  <1>6. LockIsHeld' /\ ErrandsAreAwaited' /\ StartsComeFirst'
    BY DEF BrowserInv, LockIsHeld, ErrandsAreAwaited, StartsComeFirst
  <1>7. NothingIsOpen'
    BY DEF BrowserInv, NothingIsOpen
  <1> QED BY <1>4, <1>5, <1>6, <1>7 DEF BrowserInv

\* An idle session is closed.
LEMMA WatchdogKeeps ==
    ASSUME BrowserInv, NEW n \in Windows, _watchdog(n)
    PROVE  BrowserInv'
  <1>1. /\ UNCHANGED <<errands, snapshot, legacy, reader, revoked, policyLock, visitor, logins,
                       browserFaults>>
        /\ windows' = Shut({n})
    BY DEF _watchdog, browserFiles
  <1>2. /\ windows' \in Seq(WindowRecords) /\ Len(windows') = Len(windows)
        /\ LiveWindows' \subseteq LiveWindows
        /\ \A m \in LiveWindows' : windows'[m] = windows[m]
        /\ \A m \in Windows' : windows'[m].login <= logins'
    BY <1>1, ShutKeeps
  <1>3. /\ Len(windows') <= MaxSessions /\ logins' \in 0..MaxLogins /\ logins <= logins'
    BY <1>1, <1>2, BrowserTypes DEF BrowserInv, BrowserHasTypes
  <1>4. \A m \in LiveWindows' : windows'[m].login \notin 1..revoked
    BY <1>2 DEF BrowserInv, SignaturesLast, Lasting
  <1> QED BY <1>1, <1>2, <1>3, <1>4, WindowsKeep

\* The owner signs in: the signature is new, so no revocation has ended it.
LEMMA SignsInKeeps ==
    ASSUME BrowserInv, NEW n \in Windows, SignsIn(n)
    PROVE  BrowserInv'
  <1>1. /\ UNCHANGED <<errands, snapshot, legacy, reader, revoked, policyLock, visitor,
                       browserFaults>>
        /\ n \in Interactive /\ logins < MaxLogins /\ logins' = logins + 1
        /\ windows' = [windows EXCEPT ![n].login = logins']
    BY DEF SignsIn, browserFiles
  <1>2. /\ windows \in Seq(WindowRecords) /\ Len(windows) \in Nat /\ Windows = 1..Len(windows)
        /\ logins \in Nat /\ revoked \in Nat /\ revoked <= logins /\ MaxLogins \in Nat
        /\ n \in 1..Len(windows)
    BY BrowserTypes
  <1>3. PICK u : u = [windows[n] EXCEPT !.login = logins']
    OBVIOUS
  <1>4. u \in WindowRecords /\ u.login = logins' /\ u.mode = windows[n].mode
    <2>1. windows[n] \in WindowRecords
      BY <1>2
    <2> QED BY SMTT(30), <1>1, <1>2, <1>3, <2>1 DEF WindowRecords
  <1>5. windows' = [windows EXCEPT ![n] = u]
    BY <1>1, <1>3
  <1>6. /\ windows' \in Seq(WindowRecords) /\ Len(windows') = Len(windows)
        /\ DOMAIN windows' = 1..Len(windows) /\ windows'[n] = u
        /\ \A m \in 1..Len(windows) : m # n => windows'[m] = windows[m]
    BY <1>2, <1>4, <1>5
  <1>7. Windows' = 1..Len(windows)
    BY <1>6 DEF Windows
  <1>8. LiveWindows' \subseteq LiveWindows
    BY <1>2, <1>4, <1>6, <1>7 DEF LiveWindows
  <1>9. /\ Len(windows') <= MaxSessions /\ logins' \in 0..MaxLogins /\ logins <= logins'
    BY <1>1, <1>2, <1>6 DEF BrowserInv, BrowserHasTypes
  <1>10. \A m \in Windows' : windows'[m].login <= logins'
    <2>1. \A m \in 1..Len(windows) : windows[m] \in WindowRecords /\ windows[m].login <= logins
      BY <1>2 DEF BrowserInv, BrowserHasTypes
    <2>2. \A m \in 1..Len(windows) : windows[m].login \in Nat
      BY <2>1 DEF WindowRecords
    <2> QED BY <1>1, <1>2, <1>4, <1>6, <1>7, <2>1, <2>2
  <1>11. \A m \in LiveWindows' : windows'[m].login \notin 1..revoked
    <2>1. ASSUME NEW m \in LiveWindows'
          PROVE  windows'[m].login \notin 1..revoked
      <3>1. m \in LiveWindows /\ m \in 1..Len(windows)
        BY <1>2, <1>8, BrowserTypes
      <3>2. CASE m = n
        BY <1>1, <1>2, <1>4, <1>6, <3>2
      <3>3. CASE m # n
        BY <1>6, <3>1, <3>3 DEF BrowserInv, SignaturesLast, Lasting
      <3> QED BY <3>2, <3>3
    <2> QED BY <2>1
  <1> QED BY <1>1, <1>6, <1>8, <1>9, <1>10, <1>11, WindowsKeep


\* A reader that finds only the file of the old name is going to rename it.
LEMMA ReaderOpensKeeps ==
    ASSUME LoneReads, BrowserInv, ReaderOpens
    PROVE  BrowserInv'
  <1>1. /\ UNCHANGED <<windows, errands, snapshot, legacy, revoked, policyLock, visitor, logins,
                       browserFaults>>
        /\ \A k \in Visitors : visitor[k].at # "unlinkingOld"
        /\ reader' \in {"idle", "renaming", "reading"}
    BY DEF ReaderOpens
  <1>2. BrowserHasTypes'
    BY <1>1 DEF BrowserInv, BrowserHasTypes, Windows
  <1>3. SignaturesLast' /\ LockIsHeld' /\ ErrandsAreAwaited' /\ StartsComeFirst'
    BY <1>1 DEF BrowserInv, SignaturesLast, LiveWindows, Windows, Lasting, LockIsHeld,
       ErrandsAreAwaited, StartsComeFirst
  <1>4. NothingIsOpen'
    BY <1>1 DEF BrowserInv, NothingIsOpen, LiveWindows, Windows
  <1> QED BY <1>2, <1>3, <1>4 DEF BrowserInv

\* The file is renamed: its signatures are those of the old name, which last.
LEMMA ReaderEndsKeeps ==
    ASSUME BrowserInv, ReaderEnds
    PROVE  BrowserInv'
  <1>1. /\ UNCHANGED <<windows, errands, revoked, policyLock, visitor, logins, browserFaults>>
        /\ reader # "idle" /\ reader' = "idle"
        /\ snapshot' \in {snapshot, legacy} /\ legacy' \in {legacy, 0}
    BY DEF ReaderEnds
  <1>2. \A k \in Visitors : visitor[k].at # "unlinkingOld"
    BY <1>1 DEF BrowserInv, NothingIsOpen
  <1>3. BrowserHasTypes'
    BY <1>1 DEF BrowserInv, BrowserHasTypes, Windows
  <1>4. SignaturesLast'
    <2>1. Lasting(snapshot') /\ Lasting(legacy')
      BY <1>1, BrowserTypes DEF BrowserInv, SignaturesLast
    <2> QED BY <1>1, <2>1 DEF BrowserInv, SignaturesLast, LiveWindows, Windows, Lasting
  <1>5. LockIsHeld' /\ ErrandsAreAwaited' /\ StartsComeFirst'
    BY <1>1 DEF BrowserInv, LockIsHeld, ErrandsAreAwaited, StartsComeFirst
  <1>6. NothingIsOpen'
    BY <1>1, <1>2 DEF BrowserInv, NothingIsOpen, LiveWindows, Windows
  <1> QED BY <1>3, <1>4, <1>5, <1>6 DEF BrowserInv

\* Every step preserves the invariant.
LEMMA StepKeepsBrowser ==
    ASSUME LoneReads, BROWSER_RUNTIME_ENABLED, BrowserInv, [BrowserNext]_browserVars
    PROVE  BrowserInv'
  <1>1. CASE BrowserNext
    <2>1. ASSUME NEW k \in Visitors,
                 \/ \E mode \in {"interactive", "headless"} : start(k, mode)
                 \/ \E n \in Windows : close(k, n) \/ SaveLooks(k, n)
                 \/ SaveFetches(k) \/ _save_sync(k)
                 \/ delete_snapshot(k) \/ UnlinksNew(k) \/ UnlinksOld(k)
                 \/ GivesUp(k)
          PROVE  BrowserInv'
      BY <2>1, StartKeeps, CloseKeeps, SaveLooksKeeps, SaveFetchesKeeps, SaveWritesKeeps,
         DeleteKeeps, UnlinksNewKeeps, UnlinksOldKeeps, GivesUpKeeps
    <2>2. ASSUME RuntimeStarts \/ RuntimeCloses \/ close_policy PROVE BrowserInv'
      BY <2>2, RuntimeStartsKeeps, RuntimeClosesKeeps, ClosePolicyKeeps
    <2>3. ASSUME \E n \in Windows : _watchdog(n) \/ SignsIn(n) PROVE BrowserInv'
      BY <2>3, WatchdogKeeps, SignsInKeeps
    <2>4. ASSUME ReaderOpens \/ ReaderEnds \/ WebRestarts \/ RuntimeRestarts PROVE BrowserInv'
      BY <2>4, ReaderOpensKeeps, ReaderEndsKeeps, WebRestartsKeeps, RuntimeRestartsKeeps
    <2> QED BY <1>1, <2>1, <2>2, <2>3, <2>4, Zenon DEF BrowserNext
  <1>2. CASE UNCHANGED browserVars
    BY <1>2 DEF browserVars, BrowserInv, BrowserHasTypes, SignaturesLast, LockIsHeld,
       ErrandsAreAwaited, StartsComeFirst, NothingIsOpen, LiveWindows, Windows, Lasting
  <1> QED BY <1>1, <1>2

\* And it holds at the start.
LEMMA BrowserStart ==
    ASSUME BrowserInit
    PROVE  BrowserInv
  <1>1. /\ windows = <<>> /\ errands = <<>> /\ snapshot = 0 /\ legacy = logins /\ revoked = 0
        /\ policyLock = Nobody /\ visitor = [k \in Visitors |-> Away] /\ reader = "idle"
        /\ browserFaults = 0 /\ logins \in 0..1 /\ (logins = 1 => LegacyAtStart)
    BY BrowserAssumption DEF BrowserInit
  <1>2. /\ Away \in VisitorRecords /\ Away.at = "away"
        /\ DOMAIN windows = {} /\ DOMAIN errands = {} /\ Len(windows) = 0
        /\ windows \in Seq(WindowRecords) /\ errands \in Seq(ErrandRecords)
    BY <1>1 DEF Away, VisitorRecords
  <1>3. /\ visitor \in [Visitors -> VisitorRecords]
        /\ \A k \in Visitors : visitor[k].at = "away"
    BY <1>1, <1>2
  <1>4. Windows = {} /\ LiveWindows = {}
    BY <1>2 DEF Windows, LiveWindows
  <1>5. logins \in 0..MaxLogins /\ 0 <= MaxSessions /\ 0 \in 0..MaxBrowserFaults
    BY <1>1, BrowserAssumption
  <1>6. BrowserHasTypes
    BY <1>1, <1>2, <1>3, <1>4, <1>5 DEF BrowserHasTypes
  <1>7. SignaturesLast
    BY <1>1, <1>2, <1>3, <1>4 DEF SignaturesLast, Lasting
  <1>8. LockIsHeld /\ ErrandsAreAwaited /\ StartsComeFirst /\ NothingIsOpen
    BY <1>2, <1>3 DEF LockIsHeld, ErrandsAreAwaited, StartsComeFirst, NothingIsOpen, Holding,
       Removing
  <1> QED BY <1>6, <1>7, <1>8 DEF BrowserInv

\* The invariant is what has to hold between the steps of the sign in.
LEMMA BrowserHolds ==
    ASSUME LoneReads, BROWSER_RUNTIME_ENABLED
    PROVE  BrowserSpec => []BrowserInv
  <1>1. BrowserInit => BrowserInv
    BY BrowserStart
  <1>2. BrowserInv /\ [BrowserNext]_browserVars => BrowserInv'
    BY StepKeepsBrowser
  <1> QED BY <1>1, <1>2, PTL DEF BrowserSpec

\* The types hold of themselves, whoever reads what: no signature is carried
\* that was not made.
Login(n) == n \in Nat /\ n <= logins
BrowserTyped ==
    /\ BrowserHasTypes
    /\ Login(snapshot) /\ Login(legacy)
    /\ \A i \in DOMAIN errands : errands[i].kind = "start" => Login(errands[i].login)
    /\ \A k \in Visitors : Login(visitor[k].login)

\* The parts, and how the steps change each.
WindowsTyped ==
    /\ windows \in Seq(WindowRecords) /\ Len(windows) <= MaxSessions
    /\ \A n \in Windows : windows[n].login <= logins
ErrandsTyped ==
    /\ errands \in Seq(ErrandRecords)
    /\ \A i \in DOMAIN errands : errands[i].kind = "start" =>
          Login(errands[i].login) /\ errands[i].mode \in {"interactive", "headless"}
VisitorsTyped ==
    /\ visitor \in [Visitors -> VisitorRecords]
    /\ \A k \in Visitors : Login(visitor[k].login)
FilesTyped ==
    /\ policyLock \in Visitors \cup {Nobody} /\ reader \in {"idle", "renaming", "reading"}
    /\ logins \in 0..MaxLogins /\ Login(snapshot) /\ Login(legacy) /\ revoked \in 0..logins
    /\ browserFaults \in 0..MaxBrowserFaults

LEMMA BrowserTypedParts ==
    BrowserTyped <=> WindowsTyped /\ ErrandsTyped /\ VisitorsTyped /\ FilesTyped
  BY DEF BrowserTyped, BrowserHasTypes, WindowsTyped, ErrandsTyped, VisitorsTyped, FilesTyped,
         Login

LEMMA PartsAreTyped ==
    ASSUME WindowsTyped', ErrandsTyped', VisitorsTyped', FilesTyped' PROVE BrowserTyped'
  BY DEF BrowserTyped, BrowserHasTypes, WindowsTyped, ErrandsTyped, VisitorsTyped, FilesTyped,
         Login

\* Windows that are closed, some of them, and one more.
LEMMA ShutIsTyped ==
    ASSUME WindowsTyped, logins \in Nat, NEW some
    PROVE  /\ Shut(some) \in Seq(WindowRecords) /\ Len(Shut(some)) = Len(windows)
           /\ \A n \in DOMAIN Shut(some) : Shut(some)[n].login <= logins
  <1>1. /\ windows \in Seq(WindowRecords) /\ Len(windows) \in Nat
        /\ Windows = 1..Len(windows)
        /\ \A n \in 1..Len(windows) : windows[n] \in WindowRecords /\ windows[n].login <= logins
    BY DEF WindowsTyped, Windows
  <1>2. [mode |-> "closed", login |-> 0] \in WindowRecords
    BY DEF WindowRecords
  <1>3. Shut(some) = [n \in 1..Len(windows) |-> IF n \in some THEN [mode |-> "closed", login |-> 0]
                                                ELSE windows[n]]
    BY <1>1 DEF Shut
  <1>4. \A n \in 1..Len(windows) : Shut(some)[n] \in WindowRecords /\ Shut(some)[n].login <= logins
    BY <1>1, <1>2, <1>3
  <1> HIDE DEF Shut
  <1>5. DOMAIN Shut(some) = 1..Len(windows) /\ Shut(some) \in Seq(WindowRecords)
    BY <1>1, <1>2, <1>3
  <1> QED BY <1>1, <1>4, <1>5

LEMMA WindowsStayTyped ==
    ASSUME WindowsTyped, logins \in Nat, UNCHANGED logins,
           \/ UNCHANGED windows
           \/ \E some : windows' = Shut(some)
           \/ \E some : \E w \in WindowRecords :
                 w.login <= logins /\ Len(windows) < MaxSessions /\ windows' = Append(Shut(some), w)
    PROVE  WindowsTyped'
  <1>1. CASE UNCHANGED windows
    BY <1>1 DEF WindowsTyped, Windows
  <1>2. ASSUME NEW some, windows' = Shut(some) PROVE WindowsTyped'
    BY <1>2, ShutIsTyped DEF WindowsTyped, Windows
  <1>3. ASSUME NEW some, NEW w \in WindowRecords, w.login <= logins, Len(windows) < MaxSessions,
               windows' = Append(Shut(some), w)
        PROVE  WindowsTyped'
    <2>1. /\ Shut(some) \in Seq(WindowRecords) /\ Len(Shut(some)) = Len(windows)
          /\ \A n \in DOMAIN Shut(some) : Shut(some)[n].login <= logins
          /\ Len(windows) \in Nat
      BY ShutIsTyped DEF WindowsTyped
    <2> DEFINE t == Shut(some)
    <2> HIDE DEF t
    <2>2. /\ t \in Seq(WindowRecords) /\ Len(t) = Len(windows)
          /\ \A n \in 1..Len(t) : t[n].login <= logins
          /\ windows' = Append(t, w)
      BY <1>3, <2>1 DEF t
    <2>3. /\ windows' \in Seq(WindowRecords) /\ Len(windows') = Len(windows) + 1
          /\ DOMAIN windows' = 1..Len(windows) + 1
          /\ windows'[Len(windows) + 1] = w
          /\ \A n \in 1..Len(windows) : windows'[n] = t[n]
      BY <2>1, <2>2
    <2>4. Len(windows') <= MaxSessions
      BY <1>3, <2>1, <2>3, BrowserAssumption
    <2>5. \A n \in 1..Len(windows) + 1 : windows'[n].login <= logins
      BY <1>3, <2>1, <2>2, <2>3
    <2> QED BY <2>3, <2>4, <2>5 DEF WindowsTyped, Windows
  <1> QED BY <1>1, <1>2, <1>3

\* The ends of a queue.
LEMMA QueueEnds ==
    ASSUME NEW S, NEW s \in Seq(S), NEW e \in S
    PROVE  /\ Append(s, e) \in Seq(S)
           /\ \A i \in DOMAIN Append(s, e) : \/ i \in DOMAIN s /\ Append(s, e)[i] = s[i]
                                            \/ Append(s, e)[i] = e
           /\ s # <<>> => /\ Tail(s) \in Seq(S) /\ Head(s) = s[1] /\ 1 \in DOMAIN s
                          /\ \A i \in DOMAIN Tail(s) : i + 1 \in DOMAIN s /\ Tail(s)[i] = s[i + 1]
  <1>1. Append(s, e) \in Seq(S) /\ DOMAIN Append(s, e) = 1..Len(s) + 1
    OBVIOUS
  <1>2. DOMAIN s = 1..Len(s) /\ Len(s) \in Nat /\ Append(s, e)[Len(s) + 1] = e
    OBVIOUS
  <1>3. \A i \in 1..Len(s) : Append(s, e)[i] = s[i]
    OBVIOUS
  <1>4. CASE s # <<>>
    <2>1. Len(s) # 0 /\ Head(s) = s[1]
      BY <1>4
    <2>2. Tail(s) \in Seq(S) /\ DOMAIN Tail(s) = 1..(Len(s) - 1)
      BY <1>4
    <2>3. \A i \in 1..(Len(s) - 1) : Tail(s)[i] = s[i + 1]
      BY <1>4
    <2> QED BY <1>1, <1>2, <1>3, <2>1, <2>2, <2>3
  <1> QED BY <1>1, <1>2, <1>3, <1>4

\* What an errand needs, wherever it came from.
LEMMA QueueIsTyped ==
    ASSUME UNCHANGED logins, errands' \in Seq(ErrandRecords),
           \A i \in DOMAIN errands' : errands'[i].kind = "start" =>
              Login(errands'[i].login) /\ errands'[i].mode \in {"interactive", "headless"}
    PROVE  ErrandsTyped'
  BY DEF ErrandsTyped, Login

LEMMA CarriedOutIsTyped ==
    ASSUME ErrandsTyped, UNCHANGED logins, errands # <<>>, errands' = Tail(errands)
    PROVE  ErrandsTyped'
  <1>1. /\ errands \in Seq(ErrandRecords) /\ Len(errands) \in Nat /\ Len(errands) # 0
        /\ errands[1] \in ErrandRecords
    BY DEF ErrandsTyped
  <1>2. /\ errands' \in Seq(ErrandRecords)
        /\ \A i \in DOMAIN errands' : i + 1 \in DOMAIN errands /\ errands'[i] = errands[i + 1]
    BY <1>1, QueueEnds
  <1> QED BY <1>2, QueueIsTyped DEF ErrandsTyped

LEMMA SentIsTyped ==
    ASSUME ErrandsTyped, UNCHANGED logins, NEW e \in ErrandRecords,
           e.kind = "start" => Login(e.login) /\ e.mode \in {"interactive", "headless"},
           errands' = Append(errands, e)
    PROVE  ErrandsTyped'
  <1>1. errands \in Seq(ErrandRecords)
    BY DEF ErrandsTyped
  <1>2. /\ errands' \in Seq(ErrandRecords)
        /\ \A i \in DOMAIN errands' : \/ i \in DOMAIN errands /\ errands'[i] = errands[i]
                                      \/ errands'[i] = e
    BY <1>1, QueueEnds
  <1> QED BY <1>2, QueueIsTyped DEF ErrandsTyped

LEMMA AbandonedIsTyped ==
    ASSUME ErrandsTyped, UNCHANGED logins, NEW gone,
           errands' = [i \in DOMAIN errands |->
                         IF errands[i].for \in gone THEN [errands[i] EXCEPT !.for = Nobody]
                         ELSE errands[i]]
    PROVE  ErrandsTyped'
  <1>1. /\ errands \in Seq(ErrandRecords) /\ Len(errands) \in Nat
        /\ DOMAIN errands = 1..Len(errands)
        /\ \A i \in DOMAIN errands : errands[i] \in ErrandRecords
    BY DEF ErrandsTyped
  <1>2. \A i \in DOMAIN errands :
           /\ errands'[i] \in ErrandRecords /\ errands'[i].kind = errands[i].kind
           /\ errands'[i].mode = errands[i].mode /\ errands'[i].login = errands[i].login
    BY <1>1, Zenon DEF ErrandRecords
  <1> DEFINE f(i) == IF errands[i].for \in gone THEN [errands[i] EXCEPT !.for = Nobody]
                     ELSE errands[i]
  <1>3. \A i \in 1..Len(errands) : f(i) \in ErrandRecords
    BY <1>1, <1>2
  <1>4. errands' = [i \in 1..Len(errands) |-> f(i)]
    BY <1>1
  <1> HIDE DEF f
  <1>5. DOMAIN errands' = DOMAIN errands /\ errands' \in Seq(ErrandRecords)
    BY <1>1, <1>3, <1>4
  <1> QED BY <1>2, <1>5, QueueIsTyped DEF ErrandsTyped

LEMMA QueueStaysTyped ==
    ASSUME ErrandsTyped, UNCHANGED logins, UNCHANGED errands \/ errands' = <<>>
    PROVE  ErrandsTyped'
  <1>1. CASE UNCHANGED errands
    BY <1>1 DEF ErrandsTyped, Login
  <1>2. CASE errands' = <<>>
    <2>1. DOMAIN <<>> = {} /\ <<>> \in Seq(ErrandRecords)
      OBVIOUS
    <2> QED BY <1>2, <2>1, QueueIsTyped
  <1> QED BY <1>1, <1>2

LEMMA VisitorsStayTyped ==
    ASSUME VisitorsTyped, logins \in Nat, UNCHANGED logins,
           \/ UNCHANGED visitor
           \/ \E k \in Visitors : \E v \in VisitorRecords :
                 Login(v.login) /\ visitor' = [visitor EXCEPT ![k] = v]
           \/ \E gone : visitor' = [k \in Visitors |-> IF k \in gone THEN Away ELSE visitor[k]]
    PROVE  VisitorsTyped'
  <1>1. Away \in VisitorRecords /\ Away.login = 0 /\ Login(0)
    BY DEF Away, VisitorRecords, Login
  <1> QED BY <1>1 DEF VisitorsTyped, Login

\* The steps of the web process.
LEMMA VisitorStepsTyped ==
    ASSUME BrowserTyped, NEW k \in Visitors,
           \/ \E mode \in {"interactive", "headless"} : start(k, mode)
           \/ \E n \in Windows : close(k, n) \/ SaveLooks(k, n)
           \/ SaveFetches(k) \/ _save_sync(k)
           \/ delete_snapshot(k) \/ UnlinksNew(k) \/ UnlinksOld(k)
           \/ GivesUp(k)
    PROVE  BrowserTyped'
  <1>1. /\ WindowsTyped /\ ErrandsTyped /\ VisitorsTyped /\ FilesTyped
        /\ logins \in Nat /\ visitor \in [Visitors -> VisitorRecords]
        /\ visitor[k] \in VisitorRecords /\ Login(visitor[k].login) /\ Login(0)
    BY BrowserTypedParts, BrowserAssumption DEF FilesTyped, VisitorsTyped, Login
  <1>2. UNCHANGED <<windows, logins, reader>>
    BY Zenon DEF start, close, SaveLooks, SaveFetches, _save_sync, delete_snapshot, UnlinksNew,
           UnlinksOld, GivesUp, browserFiles
  <1>3. WindowsTyped'
    BY <1>1, <1>2, WindowsStayTyped
  <1>4. ErrandsTyped'
    <2>1. Login(_load_sync) /\ _load_sync \in Nat
      BY <1>1 DEF _load_sync, FilesTyped, Login
    <2>2. ASSUME NEW mode \in {"interactive", "headless"}, start(k, mode) PROVE ErrandsTyped'
      <3> DEFINE e == [Errand("start", mode, _load_sync, 0) EXCEPT !.for = k]
      <3>1. e \in ErrandRecords /\ e.login = _load_sync /\ e.mode = mode
        BY <2>1, Zenon DEF Errand, ErrandRecords
      <3>2. errands' = Append(errands, e)
        BY <2>2 DEF start, Sends
      <3> HIDE DEF e
      <3> QED BY <1>1, <1>2, <2>1, <3>1, <3>2, SentIsTyped
    <2>3. ASSUME NEW n \in Windows, close(k, n) PROVE ErrandsTyped'
      <3> DEFINE e == [Errand("close", "", 0, n) EXCEPT !.for = k]
      <3>0. n \in Nat
        BY <1>1 DEF WindowsTyped, Windows
      <3>1. e \in ErrandRecords /\ e.kind = "close"
        BY <3>0, Zenon DEF Errand, ErrandRecords
      <3>2. errands' = Append(errands, e)
        BY <2>3, Zenon DEF close, Sends
      <3> HIDE DEF e
      <3> QED BY <1>1, <1>2, <3>1, <3>2, SentIsTyped
    <2>4. CASE delete_snapshot(k)
      <3> DEFINE e == [Errand("closePolicy", "", 0, 0) EXCEPT !.for = k]
      <3>1. e \in ErrandRecords /\ e.kind = "closePolicy"
        BY Zenon DEF Errand, ErrandRecords
      <3>2. errands' = Append(errands, e) \/ UNCHANGED errands
        BY <2>4, Zenon DEF delete_snapshot, Sends
      <3> HIDE DEF e
      <3> QED BY <1>1, <1>2, <3>1, <3>2, SentIsTyped, QueueStaysTyped
    <2>5. CASE GivesUp(k)
      <3>1. errands' = [i \in DOMAIN errands |->
                          IF errands[i].for \in {k} THEN [errands[i] EXCEPT !.for = Nobody]
                          ELSE errands[i]]
        BY <2>5 DEF GivesUp
      <3> QED BY <1>1, <1>2, <3>1, AbandonedIsTyped
    <2>6. CASE \/ \E n \in Windows : SaveLooks(k, n)
               \/ SaveFetches(k) \/ _save_sync(k) \/ UnlinksNew(k) \/ UnlinksOld(k)
      <3>1. UNCHANGED errands
        BY <2>6, Zenon DEF SaveLooks, SaveFetches, _save_sync, UnlinksNew, UnlinksOld
      <3> QED BY <1>1, <1>2, <3>1, QueueStaysTyped
    <2> QED BY <2>2, <2>3, <2>4, <2>5, <2>6, Zenon
  <1>5. VisitorsTyped'
    <2>1. ASSUME NEW a \in {"away", "browsing", "closing", "seen"} \cup Holding, GoesTo(k, a)
          PROVE  VisitorsTyped'
      <3> DEFINE v == [visitor[k] EXCEPT !.at = a]
      <3>1. v \in VisitorRecords /\ v.login = visitor[k].login
        BY <1>1 DEF VisitorRecords
      <3>2. visitor' = [visitor EXCEPT ![k] = v]
        BY <2>1 DEF GoesTo
      <3> HIDE DEF v
      <3> QED BY <1>1, <1>2, <3>1, <3>2, VisitorsStayTyped
    <2>2. CASE Leaves(k)
      <3>1. Away \in VisitorRecords /\ Away.login = 0
        BY DEF Away, VisitorRecords
      <3> QED BY <1>1, <1>2, <2>2, <3>1, VisitorsStayTyped DEF Leaves
    <2>3. ASSUME NEW n \in Windows, SaveLooks(k, n) PROVE VisitorsTyped'
      <3> DEFINE v == [Away EXCEPT !.at = "seen", !.window = n]
      <3>0. n \in Nat
        BY <1>1 DEF WindowsTyped, Windows
      <3>1. v \in VisitorRecords /\ v.login = 0
        BY <3>0 DEF Away, VisitorRecords
      <3>2. visitor' = [visitor EXCEPT ![k] = v]
        BY <2>3, Zenon DEF SaveLooks
      <3> HIDE DEF v
      <3> QED BY <1>1, <1>2, <3>1, <3>2, VisitorsStayTyped
    <2>4. CASE SaveFetches(k) /\ ~Leaves(k)
      <3> DEFINE n == visitor[k].window
                 v == [visitor[k] EXCEPT !.at = "saving", !.login = windows[n].login]
      <3>1. n \in Windows /\ visitor' = [visitor EXCEPT ![k] = v]
        BY <1>1, <2>4 DEF SaveFetches, Exportable, LiveWindows
      <3>2. windows[n] \in WindowRecords /\ windows[n].login <= logins
        BY <1>1, <3>1 DEF WindowsTyped, Windows
      <3>3. Login(windows[n].login)
        BY <3>2 DEF WindowRecords, Login
      <3>4. v \in VisitorRecords /\ v.login = windows[n].login
        BY <1>1, <3>3 DEF VisitorRecords, Holding, Login
      <3> HIDE DEF v, n
      <3> QED BY <1>1, <1>2, <3>1, <3>3, <3>4, VisitorsStayTyped
    <2>5. {"starting", "closing", "revoking", "unlinking", "unlinkingOld"}
             \subseteq {"away", "browsing", "closing", "seen"} \cup Holding
      BY DEF Holding
    <2>6. \/ \E a \in {"starting", "closing", "revoking", "unlinking", "unlinkingOld"} :
                GoesTo(k, a)
          \/ Leaves(k)
          \/ \E n \in Windows : SaveLooks(k, n)
          \/ SaveFetches(k) /\ ~Leaves(k)
      BY Zenon DEF start, close, _save_sync, delete_snapshot, UnlinksNew, UnlinksOld, GivesUp
    <2> QED BY <2>1, <2>2, <2>3, <2>4, <2>5, <2>6, Zenon
  <1>6. FilesTyped'
    <2>1. policyLock' \in Visitors \cup {Nobody}
      BY <1>1, Zenon
         DEF start, close, SaveLooks, SaveFetches, _save_sync, delete_snapshot, UnlinksNew,
                  UnlinksOld, GivesUp, Takes, Gives, FilesTyped
    <2>2. browserFaults' \in 0..MaxBrowserFaults
      <3>1. \/ UNCHANGED browserFaults
            \/ browserFaults < MaxBrowserFaults /\ browserFaults' = browserFaults + 1
        BY Zenon DEF start, close, SaveLooks, SaveFetches, _save_sync, delete_snapshot, UnlinksNew,
               UnlinksOld, GivesUp
      <3> QED BY <1>1, <3>1, BrowserAssumption DEF FilesTyped
    <2>3. revoked' \in 0..logins
      <3>1. revoked' = revoked \/ revoked' = logins
        BY Zenon DEF start, close, SaveLooks, SaveFetches, _save_sync, delete_snapshot, UnlinksNew,
               UnlinksOld, GivesUp, browserFiles
      <3> QED BY <1>1, <3>1 DEF FilesTyped
    <2>4. /\ snapshot' \in {snapshot, legacy, 0, visitor[k].login}
          /\ legacy' \in {legacy, 0}
      BY <1>1, Zenon
         DEF start, close, SaveLooks, SaveFetches, _save_sync, delete_snapshot, UnlinksNew,
                  UnlinksOld, GivesUp, browserFiles, Renamed, _load_sync
    <2> QED BY <1>1, <1>2, <2>1, <2>2, <2>3, <2>4 DEF FilesTyped, Login
  <1> QED BY <1>3, <1>4, <1>5, <1>6, PartsAreTyped

\* The errand at the head is carried out, and who waits for it hears.
LEMMA AnswersAreTyped ==
    ASSUME BrowserTyped, errands # <<>>,
           NEW at \in {"away", "browsing", "unlinking"}, NEW window \in Nat,
           Answers(Head(errands), at, window), UNCHANGED <<browserFiles, logins, browserFaults>>
    PROVE  ErrandsTyped' /\ VisitorsTyped' /\ FilesTyped'
  <1>1. /\ ErrandsTyped /\ VisitorsTyped /\ FilesTyped /\ logins \in Nat /\ Login(0)
    BY BrowserTypedParts, BrowserAssumption DEF FilesTyped, Login
  <1> DEFINE for == Head(errands).for
  <1>2. for \in Visitors \cup {Nobody}
    <2>1. Head(errands) \in ErrandRecords
      BY <1>1 DEF ErrandsTyped
    <2> QED BY <2>1, Zenon DEF ErrandRecords
  <1>3. ErrandsTyped'
    BY <1>1, CarriedOutIsTyped DEF Answers
  <1>4. VisitorsTyped'
    <2> DEFINE v == IF at = "away" THEN Away ELSE [Away EXCEPT !.at = at, !.window = window]
    <2>1. v \in VisitorRecords /\ v.login = 0
      BY DEF Away, VisitorRecords, Holding
    <2>2. CASE for = Nobody
      BY <1>1, <2>2, VisitorsStayTyped DEF Answers
    <2>3. CASE for # Nobody
      <3>1. for \in Visitors /\ visitor' = [visitor EXCEPT ![for] = v]
        BY <1>2, <2>3 DEF Answers
      <3> HIDE DEF v, for
      <3> QED BY <1>1, <2>1, <3>1, VisitorsStayTyped
    <2> QED BY <2>2, <2>3
  <1>5. FilesTyped'
    BY <1>1 DEF Answers, Gives, browserFiles, FilesTyped, Login
  <1> QED BY <1>3, <1>4, <1>5

\* Every step preserves the types.
LEMMA StepKeepsBrowserTypes ==
    ASSUME BrowserTyped, [BrowserNext]_browserVars
    PROVE  BrowserTyped'
  <1>1. /\ WindowsTyped /\ ErrandsTyped /\ VisitorsTyped /\ FilesTyped /\ logins \in Nat
        /\ Login(0)
    BY BrowserTypedParts, BrowserAssumption DEF FilesTyped, Login
  <1> SUFFICES WindowsTyped' /\ ErrandsTyped' /\ VisitorsTyped' /\ FilesTyped'
    BY PartsAreTyped
  <1>2. ASSUME NEW k \in Visitors,
               \/ \E mode \in {"interactive", "headless"} : start(k, mode)
               \/ \E n \in Windows : close(k, n) \/ SaveLooks(k, n)
               \/ SaveFetches(k) \/ _save_sync(k)
               \/ delete_snapshot(k) \/ UnlinksNew(k) \/ UnlinksOld(k)
               \/ GivesUp(k)
        PROVE  WindowsTyped' /\ ErrandsTyped' /\ VisitorsTyped' /\ FilesTyped'
    <2>1. BrowserTyped'
      BY <1>2, VisitorStepsTyped
    <2> QED BY <2>1 DEF BrowserTyped, BrowserHasTypes, WindowsTyped, ErrandsTyped, VisitorsTyped,
                        FilesTyped, Login
  <1>3. CASE RuntimeStarts
    <2>1. errands # <<>> /\ UNCHANGED <<browserFiles, logins, browserFaults>>
      BY <1>3 DEF RuntimeStarts
    <2>2. /\ Head(errands) = errands[1] /\ errands[1] \in ErrandRecords /\ 1 \in DOMAIN errands
          /\ Len(windows) \in Nat
      BY <1>1, <2>1 DEF ErrandsTyped, WindowsTyped
    <2>3. PICK some :
            \/ /\ Len(windows) < MaxSessions
               /\ windows' = Append(Shut(some), [mode |-> Head(errands).mode,
                                                 login |-> Head(errands).login])
               /\ Answers(Head(errands),
                          IF Head(errands).mode = "headless" THEN "browsing" ELSE "away",
                          Len(windows) + 1)
            \/ windows' = Shut(some) /\ Answers(Head(errands), "away", 0)
      BY <1>3, Zenon DEF RuntimeStarts
    <2>4. CASE windows' = Shut(some) /\ Answers(Head(errands), "away", 0)
      BY <1>1, <2>1, <2>4, WindowsStayTyped, AnswersAreTyped
    <2>5. CASE /\ Len(windows) < MaxSessions
               /\ windows' = Append(Shut(some), [mode |-> Head(errands).mode,
                                                 login |-> Head(errands).login])
               /\ Answers(Head(errands),
                          IF Head(errands).mode = "headless" THEN "browsing" ELSE "away",
                          Len(windows) + 1)
      <3> DEFINE at == IF Head(errands).mode = "headless" THEN "browsing" ELSE "away"
                 w == [mode |-> Head(errands).mode, login |-> Head(errands).login]
      <3>1. Login(errands[1].login) /\ errands[1].mode \in {"interactive", "headless"}
        BY <1>1, <1>3, <2>2 DEF ErrandsTyped, RuntimeStarts
      <3>2. w \in WindowRecords /\ w.login <= logins
        BY <2>2, <3>1 DEF WindowRecords, Login
      <3>3. /\ at \in {"away", "browsing", "unlinking"} /\ Len(windows) + 1 \in Nat
            /\ Answers(Head(errands), at, Len(windows) + 1)
            /\ Len(windows) < MaxSessions /\ windows' = Append(Shut(some), w)
        BY <2>2, <2>5
      <3> HIDE DEF at, w
      <3> QED BY <1>1, <2>1, <3>2, <3>3, WindowsStayTyped, AnswersAreTyped
    <2> QED BY <2>3, <2>4, <2>5
  <1>4. CASE RuntimeCloses
    BY <1>1, <1>4, WindowsStayTyped, AnswersAreTyped DEF RuntimeCloses
  <1>5. CASE close_policy
    <2>1. /\ errands # <<>> /\ UNCHANGED <<browserFiles, logins, browserFaults>>
          /\ \E some : windows' = Shut(some)
          /\ \E at \in {"away", "unlinking"} : Answers(Head(errands), at, 0)
      BY <1>5, Zenon DEF close_policy
    <2> QED BY <1>1, <2>1, WindowsStayTyped, AnswersAreTyped
  <1>6. ASSUME NEW n \in Windows, _watchdog(n)
        PROVE  WindowsTyped' /\ ErrandsTyped' /\ VisitorsTyped' /\ FilesTyped'
    BY <1>1, <1>6, WindowsStayTyped, QueueStaysTyped, VisitorsStayTyped
       DEF _watchdog, browserFiles, FilesTyped, Login
  <1>7. ASSUME NEW n \in Windows, SignsIn(n)
        PROVE  WindowsTyped' /\ ErrandsTyped' /\ VisitorsTyped' /\ FilesTyped'
    <2>1. /\ logins' = logins + 1 /\ logins' \in 0..MaxLogins
          /\ windows' = [windows EXCEPT ![n].login = logins + 1]
          /\ UNCHANGED <<errands, snapshot, legacy, reader, revoked, policyLock, visitor,
                         browserFaults>>
      BY <1>1, <1>7, BrowserAssumption DEF SignsIn, browserFiles
    <2>2. /\ windows \in Seq(WindowRecords) /\ n \in 1..Len(windows) /\ Len(windows) \in Nat
          /\ \A m \in 1..Len(windows) : windows[m] \in WindowRecords /\ windows[m].login <= logins
      BY <1>1 DEF WindowsTyped, Windows
    <2> DEFINE w == [windows[n] EXCEPT !.login = logins + 1]
    <2>3. w \in WindowRecords /\ w.login = logins + 1
      <3>1. windows[n] \in WindowRecords
        BY <2>2
      <3> QED BY <1>1, <3>1 DEF WindowRecords
    <2>4. windows' = [windows EXCEPT ![n] = w]
      BY <2>1
    <2> HIDE DEF w
    <2>5. /\ windows' \in Seq(WindowRecords) /\ Len(windows') = Len(windows)
          /\ DOMAIN windows' = 1..Len(windows)
          /\ \A m \in 1..Len(windows) : windows'[m] = IF m = n THEN w ELSE windows[m]
      BY <2>2, <2>3, <2>4
    <2>6. \A m \in 1..Len(windows) : windows'[m].login <= logins + 1
      <3>1. \A m \in 1..Len(windows) : windows[m].login \in Nat
        BY <2>2 DEF WindowRecords
      <3> QED BY <1>1, <2>2, <2>3, <2>5, <3>1
    <2>7. WindowsTyped'
      BY <1>1, <2>1, <2>5, <2>6 DEF WindowsTyped, Windows
    <2>8. \A l : Login(l) => l \in Nat /\ l <= logins + 1
      BY <1>1 DEF Login
    <2>9. ErrandsTyped' /\ VisitorsTyped' /\ FilesTyped'
      BY <1>1, <2>1, <2>8 DEF ErrandsTyped, VisitorsTyped, FilesTyped, Login
    <2> QED BY <2>7, <2>9
  <1>8. CASE ReaderOpens \/ ReaderEnds
    <2>1. /\ UNCHANGED <<windows, errands, revoked, policyLock, visitor, logins, browserFaults>>
          /\ reader' \in {"idle", "renaming", "reading"}
          /\ snapshot' \in {snapshot, legacy} /\ legacy' \in {legacy, 0}
      BY <1>8 DEF ReaderOpens, ReaderEnds
    <2> QED BY <1>1, <2>1, WindowsStayTyped, QueueStaysTyped, VisitorsStayTyped
            DEF FilesTyped, Login
  <1>9. CASE WebRestarts
    <2>1. /\ UNCHANGED <<windows, snapshot, legacy, reader, revoked, logins>>
          /\ visitor' = [k \in Visitors |-> IF k \in Visitors THEN Away ELSE visitor[k]]
          /\ policyLock' = Nobody /\ browserFaults' \in 0..MaxBrowserFaults
      BY <1>1, <1>9, BrowserAssumption DEF WebRestarts, browserFiles, FilesTyped
    <2>2. errands' = [i \in DOMAIN errands |-> IF errands[i].for \in Visitors
                                               THEN [errands[i] EXCEPT !.for = Nobody]
                                               ELSE errands[i]]
      <3>1. ASSUME NEW i \in DOMAIN errands, errands[i].for \notin Visitors
            PROVE  [errands[i] EXCEPT !.for = Nobody] = errands[i]
        <4>1. errands[i] \in ErrandRecords
          BY <1>1 DEF ErrandsTyped
        <4>2. errands[i].for = Nobody
          BY <3>1, <4>1, Zenon DEF ErrandRecords
        <4> QED BY <4>1, <4>2, Zenon DEF ErrandRecords
      <3>2. errands' = [i \in DOMAIN errands |-> [errands[i] EXCEPT !.for = Nobody]]
        BY <1>9 DEF WebRestarts
      <3> QED BY <3>1, <3>2
    <2>3. WindowsTyped' /\ VisitorsTyped'
      BY <1>1, <2>1, WindowsStayTyped, VisitorsStayTyped
    <2>4. ErrandsTyped'
      BY <1>1, <2>1, <2>2, AbandonedIsTyped
    <2>5. FilesTyped'
      BY <1>1, <2>1 DEF FilesTyped, Login
    <2> QED BY <2>3, <2>4, <2>5
  <1>10. CASE RuntimeRestarts
    <2> DEFINE gone == {k \in Visitors : visitor[k].at \in {"starting", "closing", "revoking"}}
    <2>1. /\ UNCHANGED <<snapshot, legacy, reader, revoked, logins>>
          /\ windows' = Shut(Windows) /\ errands' = <<>>
          /\ visitor' = [k \in Visitors |-> IF k \in gone THEN Away ELSE visitor[k]]
          /\ policyLock' \in {policyLock, Nobody} /\ browserFaults' \in 0..MaxBrowserFaults
      BY <1>1, <1>10, BrowserAssumption DEF RuntimeRestarts, browserFiles, FilesTyped
    <2> HIDE DEF gone
    <2>2. WindowsTyped' /\ VisitorsTyped' /\ ErrandsTyped'
      BY <1>1, <2>1, WindowsStayTyped, VisitorsStayTyped, QueueStaysTyped
    <2>3. FilesTyped'
      BY <1>1, <2>1 DEF FilesTyped, Login
    <2> QED BY <2>2, <2>3
  <1>11. CASE UNCHANGED browserVars
    <2>1. UNCHANGED <<windows, errands, snapshot, legacy, policyLock, visitor, reader, logins,
                      revoked, browserFaults>>
      BY <1>11 DEF browserVars
    <2> QED BY <1>1, <2>1, WindowsStayTyped, QueueStaysTyped, VisitorsStayTyped
            DEF FilesTyped, Login
  <1> QED
    BY <1>2, <1>3, <1>4, <1>5, <1>6, <1>7, <1>8, <1>9, <1>10, <1>11, Zenon DEF BrowserNext

\* At the start there is at most one signature, in the file of the old name.
LEMMA BrowserStartsTyped ==
    ASSUME BrowserInit PROVE BrowserTyped
  <1>1. BrowserInv
    BY BrowserStart
  <1>2. \A k \in Visitors : visitor[k].login = 0
    BY DEF BrowserInit, Away
  <1>3. BrowserHasTypes /\ Login(snapshot) /\ Login(legacy) /\ Login(0)
    BY <1>1, BrowserTypes DEF BrowserInv, BrowserHasTypes, SignaturesLast, Lasting, Login
  <1>4. \A i \in DOMAIN errands : errands[i].kind # "start"
    BY DEF BrowserInit
  <1> QED BY <1>2, <1>3, <1>4 DEF BrowserTyped

\* What they say of files, windows and requests.
LEMMA BrowserTypesAre == BrowserTyped => BrowserTypeOK
  <1> SUFFICES ASSUME BrowserTyped PROVE BrowserTypeOK
    OBVIOUS
  <1>1. /\ windows \in Seq(WindowRecords) /\ Len(windows) \in Nat
        /\ DOMAIN windows = 1..Len(windows)
        /\ \A i \in DOMAIN errands : errands[i] \in ErrandRecords
        /\ \A k \in Visitors : visitor[k] \in VisitorRecords
        /\ logins \in Nat
    BY BrowserAssumption DEF BrowserTyped, BrowserHasTypes
  <1>2. Len(windows) \in 0..MaxSessions
    BY <1>1, BrowserAssumption DEF BrowserTyped, BrowserHasTypes
  <1>3. \A n \in Windows : /\ windows[n].mode \in {"interactive", "headless", "closed"}
                           /\ windows[n].login \in 0..logins
    <2>1. \A n \in DOMAIN windows : windows[n] \in WindowRecords /\ windows[n].login <= logins
      BY <1>1 DEF BrowserTyped, BrowserHasTypes, Windows
    <2> QED BY <1>1, <2>1 DEF WindowRecords, Windows
  <1>4. \A i \in DOMAIN errands : errands[i].kind \in {"start", "close", "closePolicy"}
    BY <1>1, Zenon DEF ErrandRecords
  <1>5. snapshot \in 0..logins /\ legacy \in 0..logins /\ revoked \in 0..logins
    BY <1>1 DEF BrowserTyped, BrowserHasTypes, Login
  <1>6. \A k \in Visitors : visitor[k].at \in {"away", "starting", "browsing", "closing", "seen",
                                               "saving", "revoking", "unlinking",
                                               "unlinkingOld"}
    BY <1>1 DEF VisitorRecords, Holding
  <1>7. /\ policyLock \in Visitors \cup {Nobody}
        /\ logins \in 0..MaxLogins /\ browserFaults \in 0..MaxBrowserFaults
    BY DEF BrowserTyped, BrowserHasTypes
  <1> QED BY <1>2, <1>3, <1>4, <1>5, <1>6, <1>7 DEF BrowserTypeOK

\* The sessions, files and requests of the sign in always have their types.
THEOREM BrowserIsTyped == BrowserSpec => []BrowserTypeOK
  <1>1. BrowserInit => BrowserTyped
    BY BrowserStartsTyped
  <1>2. BrowserTyped /\ [BrowserNext]_browserVars => BrowserTyped'
    BY StepKeepsBrowserTypes
  <1> QED BY <1>1, <1>2, BrowserTypesAre, PTL DEF BrowserSpec

\* A revocation that was answered is final, whatever saves and starts were under
\* way, were given up or were left behind by a process that was restarted: as long
\* as no worker reads the snapshot while its files are removed, neither a file nor
\* an open session carries a signature that it ended.  This is with the runtime
\* enabled; without it no session starts.
THEOREM RevocationsAreFinal ==
    ASSUME LoneReads, BROWSER_RUNTIME_ENABLED
    PROVE  BrowserSpec => []RevokeIsFinal
  <1>1. BrowserInv => RevokeIsFinal
    BY DEF BrowserInv, SignaturesLast, Lasting, RevokeIsFinal
  <1> QED BY <1>1, BrowserHolds, PTL

-----------------------------------------------------------------------------
(***************************************************************************)
(* All of them, as the run composes them: a step is one of the part the    *)
(* behaviour chose, and the variables of the others stay.                  *)
(***************************************************************************)
SessionsInv ==
    IInv /\ VaultImagesTypeOK /\ RangeInv /\ MikuInv /\ GoalsInv /\ BrowserTyped

\* A step of one part keeps the invariant of each.
LEMMA StepKeepsSessions ==
    ASSUME SessionsInv, [SessionsNext]_SessionsVars
    PROVE  SessionsInv'
  <1>1. /\ [Next]_vars /\ [VaultImagesNext]_imageVars /\ [SealedRangeNext]_rangeVars
        /\ [MikuTurnsNext]_mikuVars /\ [GoalsNext]_goalsVars /\ [BrowserNext]_browserVars
    BY DEF SessionsNext, SessionsVars
  <1>2. IInv' /\ RangeInv'
    BY <1>1, NextInductive, RangeStep DEF SessionsInv
  <1>3. VaultImagesTypeOK' /\ BrowserTyped'
    BY <1>1, StepKeepsImageTypes, StepKeepsBrowserTypes DEF SessionsInv
  <1>4. MikuInv' /\ GoalsInv'
    BY <1>1, StepKeepsMiku, StepKeepsGoals DEF SessionsInv
  <1> QED BY <1>2, <1>3, <1>4 DEF SessionsInv

\* The state of every part has its types, whichever part a behaviour is of.
THEOREM SessionsAreTyped == SessionsSpec => []SessionsTypeOK
  <1>1. SessionsInit => SessionsInv
    <2>1. SessionsInit => IInv /\ RangeInv
      BY InitInductive, InitIsUnasked DEF SessionsInit
    <2>2. SessionsInit => VaultImagesTypeOK /\ MikuInv
      BY ImagesStart, MikuStart DEF SessionsInit, ImagesInv
    <2>3. SessionsInit => GoalsInv /\ BrowserTyped
      BY GoalsStart, BrowserStartsTyped DEF SessionsInit
    <2> QED BY <2>1, <2>2, <2>3 DEF SessionsInv
  <1>2. SessionsInv => SessionsTypeOK
    BY GoalsInvIsTyped, BrowserTypesAre
       DEF SessionsInv, IInv, RangeInv, MikuInv, SessionsTypeOK
  <1>3. SessionsInv /\ [SessionsNext]_SessionsVars => SessionsInv'
    BY StepKeepsSessions
  <1> QED BY <1>1, <1>2, <1>3, PTL DEF SessionsSpec
=============================================================================
