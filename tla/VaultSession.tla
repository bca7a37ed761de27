---------------------------- MODULE VaultSession ----------------------------
(***************************************************************************)
(* The unlock sessions of one sealed collection, and the player URLs they  *)
(* mint (app/modules/vault/sealing.py, the media endpoints of router.py).  *)
(*                                                                         *)
(* All of it lives in one Redis without persistence: a record per tab      *)
(* (token), a sliding TTL on it, the media epoch of the collection, and a  *)
(* grant per signed URL holding the file key that URL opens.  Every        *)
(* handler is a chain of awaits, one Redis command each; handlers of one   *)
(* tab overlap with each other, with other tabs and with the workers that  *)
(* borrowed a tab's token.                                                 *)
(*                                                                         *)
(* Time is a countdown in every timed value, and Tick moves them together. *)
(* A signature is the pair of its expiry and its epoch: the collection,    *)
(* the item and the path it also binds are fixed here.                     *)
(***************************************************************************)
EXTENDS Integers, FiniteSets

CONSTANTS Tabs,          \* browser tabs, each holding its own unlock token
          UnlockTTL,     \* UNLOCK_TTL_SECONDS
          AbsoluteTTL,   \* SESSION_ABSOLUTE_TTL_SECONDS
          UrlTTL,        \* FILE_URL_TTL_SECONDS
          MaxEpoch       \* bound: how many locks between two restarts of Redis

ASSUME TTLAssumption == /\ UnlockTTL \in Nat \ {0}
                        /\ AbsoluteTTL \in Nat \ {0}
                        /\ UrlTTL \in Nat \ {0}
ASSUME BoundAssumption == MaxEpoch \in Nat

VARIABLES record,   \* collection_key(id, token) -> the session, or none
          epoch,    \* vault_media_epoch of the collection
          grants,   \* vault_media_key:<signature>, with who minted it
          request,  \* the tab's request, between two of its awaits
          worker,   \* a worker's read of the tab's record
          locking,  \* the tab's /lock, between its delete and its epoch bump
          idle      \* ghost: how long the tab has not used its session

vars == <<record, epoch, grants, request, worker, locking, idle>>

NoRecord == [age |-> 0, ttl |-> 0]
Sessions == [age : 0..(AbsoluteTTL + UnlockTTL), ttl : 0..UnlockTTL]

\* Where a request of a tab waits: for nothing, for the session record after
\* signing a URL, for its EXPIRE or DELETE after the GET, for the grant's SET.
\* Two ghosts: "void", the tab finished a /lock after this key was read; "passed",
\* the tab was unlocked again after its record was found too old.
Stages == {"free", "signed", "got", "granting"}
Free == [at |-> "free", mints |-> FALSE, stale |-> FALSE, passed |-> FALSE, epoch |-> 0,
         left |-> 0, void |-> FALSE]
Requests == [at : Stages, mints : BOOLEAN, stale : BOOLEAN, passed : BOOLEAN,
             epoch : 0..MaxEpoch, left : 0..UrlTTL, void : BOOLEAN]
Reads == {"free", "read", "passed"}
Grants == [epoch : 0..MaxEpoch, left : 1..UrlTTL, by : Tabs, void : BOOLEAN]

open(t) == record[t].ttl > 0
_session_expired(t) == record[t].age > AbsoluteTTL

\* What the player's gate lets through: a signature for the live epoch that
\* has not expired, with its grant still there.
verify_file_url(g) == g.left > 0 /\ g.epoch = epoch

Init == /\ record = [t \in Tabs |-> NoRecord]
        /\ epoch = 0
        /\ grants = {}
        /\ request = [t \in Tabs |-> Free]
        /\ worker = [t \in Tabs |-> "free"]
        /\ locking = [t \in Tabs |-> FALSE]
        /\ idle = [t \in Tabs |-> 0]

-----------------------------------------------------------------------------
\* POST /unlock with the right passphrase: the record is written afresh, also
\* between a read of the old one and the DELETE that follows.
unlock_collection(t) ==
    /\ record' = [record EXCEPT ![t] = [age |-> 0, ttl |-> UnlockTTL]]
    /\ idle' = [idle EXCEPT ![t] = 0]
    /\ request' = [request EXCEPT ![t].passed = request[t].at = "got" /\ request[t].stale]
    /\ worker' = [worker EXCEPT ![t] = IF @ = "free" THEN "free" ELSE "passed"]
    /\ UNCHANGED <<epoch, grants, locking>>

\* Mutant: a record past its absolute life is used like any other.
GetAnyAge(t, r) ==
    request' = [request EXCEPT ![t] =
        IF open(t) THEN [r EXCEPT !.at = "got", !.stale = FALSE] ELSE Free]

\* The GET of data_key_for_id.  Without a record it returns None at once, and
\* a URL being minted goes out without a grant.
Get(t, r) ==
    request' = [request EXCEPT ![t] =
        IF open(t) THEN [r EXCEPT !.at = "got", !.stale = _session_expired(t)]
                   ELSE Free]

\* Any endpoint that resolves the data key.
DataKey(t) ==
    /\ request[t].at = "free"
    /\ open(t)
    /\ Get(t, Free)
    /\ UNCHANGED <<record, epoch, grants, worker, locking, idle>>

\* After the GET: a record past its absolute life is deleted, any other has
\* its TTL pushed out (EXPIRE of a key that is gone does nothing).
DataKeyReturns(t) ==
    /\ request[t].at = "got"
    /\ IF request[t].stale
       THEN /\ record' = [record EXCEPT ![t] = NoRecord]
            /\ request' = [request EXCEPT ![t] = Free]
            /\ idle' = idle
       ELSE /\ record' = [record EXCEPT ![t].ttl = IF open(t) THEN UnlockTTL ELSE 0]
            /\ request' = [request EXCEPT ![t] =
                   IF request[t].mints THEN [request[t] EXCEPT !.at = "granting"] ELSE Free]
            /\ idle' = [idle EXCEPT ![t] = 0]
    /\ UNCHANGED <<epoch, grants, worker, locking>>

\* attach_media_url: the epoch is read (an unreadable one counts as 0) and the
\* URL signed before the file key is asked for.
attach_media_url(t) ==
    /\ request[t].at = "free"
    /\ \E e \in {epoch, 0} :
         request' = [request EXCEPT ![t] =
             [Free EXCEPT !.at = "signed", !.mints = TRUE, !.epoch = e, !.left = UrlTTL]]
    /\ UNCHANGED <<record, epoch, grants, worker, locking, idle>>

file_key_for_id(t) ==
    /\ request[t].at = "signed"
    /\ Get(t, request[t])
    /\ UNCHANGED <<record, epoch, grants, worker, locking, idle>>

\* Mutant: the signature is made over the epoch as it is when the key is stored.
SignsLate(t) ==
    /\ request[t].at = "granting"
    /\ request' = [request EXCEPT ![t] = Free]
    /\ grants' = IF request[t].left = 0 THEN grants
                 ELSE grants \cup {[epoch |-> epoch, left |-> request[t].left,
                                    by |-> t, void |-> request[t].void]}
    /\ UNCHANGED <<record, epoch, worker, locking, idle>>

\* Mutant: a grant is stored for a URL that has expired meanwhile.
GrantsExpired(t) ==
    /\ request[t].at = "granting"
    /\ request' = [request EXCEPT ![t] = Free]
    /\ grants' = grants \cup {[epoch |-> request[t].epoch, left |-> request[t].left,
                               by |-> t, void |-> request[t].void]}
    /\ UNCHANGED <<record, epoch, worker, locking, idle>>

store_media_key_grant(t) ==
    /\ request[t].at = "granting"
    /\ request' = [request EXCEPT ![t] = Free]
    /\ grants' = IF request[t].left = 0 THEN grants
                 ELSE grants \cup {[epoch |-> request[t].epoch, left |-> request[t].left,
                                    by |-> t, void |-> request[t].void]}
    /\ UNCHANGED <<record, epoch, worker, locking, idle>>

-----------------------------------------------------------------------------
\* Mutant: a /lock deletes the record of every tab.
LocksEveryTab(t) ==
    /\ ~locking[t]
    /\ epoch + Cardinality({u \in Tabs : locking[u]}) < MaxEpoch
    /\ record' = [u \in Tabs |-> NoRecord]
    /\ locking' = [locking EXCEPT ![t] = TRUE]
    /\ UNCHANGED <<epoch, grants, request, worker, idle>>

\* POST /lock: this tab's record goes, then the epoch moves for everyone.  The
\* bump is modelled as succeeding: the code logs a failing one and accepts it.
lock_collection(t) ==
    /\ ~locking[t]
    /\ epoch + Cardinality({u \in Tabs : locking[u]}) < MaxEpoch
    /\ record' = [record EXCEPT ![t] = NoRecord]
    /\ locking' = [locking EXCEPT ![t] = TRUE]
    /\ UNCHANGED <<epoch, grants, request, worker, idle>>

bump_media_epoch(t) ==
    /\ locking[t]
    /\ epoch < MaxEpoch
    /\ epoch' = epoch + 1
    /\ locking' = [locking EXCEPT ![t] = FALSE]
    /\ grants' = {[g EXCEPT !.void = @ \/ g.by = t] : g \in grants}
    /\ request' = [request EXCEPT ![t].void = @ \/ request[t].at \in {"got", "granting"}]
    /\ UNCHANGED <<record, worker, idle>>

\* data_key_for_id_sync(touch=False): a worker holding the tab's token reads
\* the record, deletes a stale one, and pushes nothing out.
data_key_for_id_sync(t) ==
    /\ worker[t] = "free"
    /\ open(t)
    /\ _session_expired(t)
    /\ worker' = [worker EXCEPT ![t] = "read"]
    /\ UNCHANGED <<record, epoch, grants, request, locking, idle>>

WorkerDeletes(t) ==
    /\ worker[t] # "free"
    /\ worker' = [worker EXCEPT ![t] = "free"]
    /\ record' = [record EXCEPT ![t] = NoRecord]
    /\ UNCHANGED <<epoch, grants, request, locking, idle>>

\* The state Redis restarts empty, the epoch back at 0.  Left out: a restart in
\* the middle of a request, which would carry an old epoch or key across it.
Restart ==
    /\ \A t \in Tabs : request[t].at = "free"
    /\ record' = [t \in Tabs |-> NoRecord]
    /\ grants' = {}
    /\ epoch' = 0
    /\ UNCHANGED <<request, worker, locking, idle>>

\* A tick is long next to a Redis round trip, so none falls between the GET of
\* a record and the EXPIRE or DELETE that follows it.
Older(n, most) == IF n < most THEN n + 1 ELSE most
Tick ==
    /\ \A t \in Tabs : request[t].at # "got" /\ worker[t] = "free"
    /\ record' = [t \in Tabs |->
           IF record[t].ttl <= 1 THEN NoRecord
           ELSE [age |-> Older(record[t].age, AbsoluteTTL + UnlockTTL), ttl |-> record[t].ttl - 1]]
    /\ grants' = {[g EXCEPT !.left = @ - 1] : g \in {h \in grants : h.left > 1}}
    /\ request' = [t \in Tabs |->
           [request[t] EXCEPT !.left = IF @ = 0 THEN 0 ELSE @ - 1]]
    /\ idle' = [t \in Tabs |-> Older(idle[t], UnlockTTL)]
    /\ UNCHANGED <<epoch, worker, locking>>

Next == \/ \E t \in Tabs : \/ unlock_collection(t)
                           \/ DataKey(t)
                           \/ DataKeyReturns(t)
                           \/ attach_media_url(t)
                           \/ file_key_for_id(t)
                           \/ store_media_key_grant(t)
                           \/ lock_collection(t)
                           \/ bump_media_epoch(t)
                           \/ data_key_for_id_sync(t)
                           \/ WorkerDeletes(t)
        \/ Restart
        \/ Tick

Spec == Init /\ [][Next]_vars

-----------------------------------------------------------------------------
TypeOK == /\ record \in [Tabs -> Sessions]
          /\ epoch \in 0..MaxEpoch
          /\ grants \subseteq Grants
          /\ request \in [Tabs -> Requests]
          /\ worker \in [Tabs -> Reads]
          /\ locking \in [Tabs -> BOOLEAN]
          /\ idle \in [Tabs -> 0..UnlockTTL]

\* A /lock voids every player URL its tab had minted from a key read before,
\* the ones still being minted when it ran included: no live epoch verifies
\* them any more, and a restart of Redis does not bring them back.
LockKillsItsUrls == \A g \in grants : g.void => ~verify_file_url(g)

\* However active a tab is, its record is out of Redis one sliding TTL after
\* the absolute life that began at the unlock: nothing touches an old record.
SessionIsFinal == \A t \in Tabs :
    open(t) => record[t].age + record[t].ttl <= AbsoluteTTL + UnlockTTL

\* A tab nobody uses closes after the sliding TTL, whatever the workers that
\* borrowed its token are still doing.
IdleTabCloses == \A t \in Tabs : record[t].ttl + idle[t] <= UnlockTTL

\* A session younger than its absolute life ends by the TTL, by a /lock of its
\* own tab or by a restart of Redis, and by nothing another request does - but
\* one: a read that found the session before it too old, and deletes the record
\* after the unlock that made this one.
OnlyTheTabCloses == [][\A t \in Tabs :
    open(t) /\ ~_session_expired(t) /\ ~open(t)' =>
        \/ lock_collection(t) \/ record[t].ttl = 1 \/ Restart
        \/ DataKeyReturns(t) /\ request[t].passed
        \/ WorkerDeletes(t) /\ worker[t] = "passed"]_vars
=============================================================================
