------------------------------- MODULE Shares ------------------------------
(***************************************************************************)
(* Share links (app/modules/system/sharing): their rows are in the         *)
(* database, the sessions of their visitors are keys in Redis, each with a *)
(* time to live of its own and a place in the index of its share.  A       *)
(* visitor is let in by the row and then given a session; the operator's   *)
(* routes and sockets of an interactive share (get_operator_share_id) ask  *)
(* for the session alone.  Each Lua script is one step.                    *)
(*                                                                         *)
(* Which sessions an index that is full gives up (those that end first) is *)
(* left open, and so is when a session ends.  Of a password only the time  *)
(* its check takes is modelled, between ReadsShare and CREATE_SESSION.     *)
(***************************************************************************)
EXTENDS Integers, FiniteSets

CONSTANTS ShareIds,           \* share_links.id
          Reusable,           \* interactive, public, no password: one session
          Timed,              \* with an expires_at
          Tokens,             \* secrets.token_urlsafe
          Guests,             \* browsers
          Owners,             \* requests of the owner that revoke
          MAX_SHARE_SESSIONS,
          NoShare

ASSUME SharesAssumption ==
    /\ Reusable \subseteq ShareIds /\ Timed \subseteq ShareIds /\ Tokens \cap ShareIds = {}
    /\ MAX_SHARE_SESSIONS \in Nat \ {0}
    /\ NoShare \notin ShareIds

VARIABLES revokedShares, \* rows whose status "revoked" is committed
          lapsed,        \* rows whose expires_at is past
          marked,        \* share_revoked:<id>
          liveIn,        \* share_session:<key>, by share
          indexOf,       \* share_sessions:<id>, its members
          entering,      \* the share a guest's request found active
          revoking       \* the rows a request has flushed, and those to clear

sharesVars == <<revokedShares, lapsed, marked, liveIn, indexOf, entering, revoking>>

SessionIds == Tokens \cup ShareIds
NoRevoke == [picked |-> {}, left |-> {}]

SharesInit ==
    /\ revokedShares = {} /\ lapsed = {} /\ marked = {}
    /\ liveIn = [s \in ShareIds |-> {}] /\ indexOf = [s \in ShareIds |-> {}]
    /\ entering = [g \in Guests |-> NoShare]
    /\ revoking = [o \in Owners |-> NoRevoke]

-----------------------------------------------------------------------------
\* The link is opened, its secret and password are right.
ReadsShare(g, s) ==
    /\ entering[g] = NoShare /\ s \notin revokedShares \cup lapsed
    /\ entering' = [entering EXCEPT ![g] = s]
    /\ UNCHANGED <<revokedShares, lapsed, marked, liveIn, indexOf, revoking>>

\* A token is drawn at random: no other session has it.
Unused == {k \in Tokens : \A s \in ShareIds : k \notin liveIn[s] \cup indexOf[s]}

SessionKeys(s) == IF s \in Reusable THEN {s} ELSE Unused

\* What CREATE_SESSION_SCRIPT leaves of an index: nothing that ended, and room
\* for one more.
Trimmed(s) ==
    IF Cardinality(indexOf[s] \cap liveIn[s]) < MAX_SHARE_SESSIONS THEN {indexOf[s] \cap liveIn[s]}
    ELSE {kept \in SUBSET (indexOf[s] \cap liveIn[s]) : Cardinality(kept) = MAX_SHARE_SESSIONS - 1}

CREATE_SESSION(s, k) ==
    \E kept \in Trimmed(s) :
       /\ liveIn' = [liveIn EXCEPT ![s] = (@ \ (indexOf[s] \ kept)) \cup {k}]
       /\ indexOf' = [indexOf EXCEPT ![s] = kept \cup {k}]

\* Mutant: the session is set with SETEX alone, no mark is looked at.
EntersUnasked(g) ==
    LET s == entering[g] IN
    /\ s # NoShare
    /\ entering' = [entering EXCEPT ![g] = NoShare]
    /\ \E k \in SessionKeys(s) : CREATE_SESSION(s, k)
    /\ UNCHANGED <<revokedShares, lapsed, marked, revoking>>

\* The commit of the counters, which waits for the row, may fail after the
\* script; the session is there all the same.
_establish_session(g) ==
    LET s == entering[g] IN
    /\ s # NoShare
    /\ entering' = [entering EXCEPT ![g] = NoShare]
    /\ IF s \in marked THEN UNCHANGED <<liveIn, indexOf>>
       ELSE \E k \in SessionKeys(s) : CREATE_SESSION(s, k)
    /\ UNCHANGED <<revokedShares, lapsed, marked, revoking>>

\* The request dies, or Redis is not there.
EntryFails(g) ==
    /\ entering[g] # NoShare
    /\ entering' = [entering EXCEPT ![g] = NoShare]
    /\ UNCHANGED <<revokedShares, lapsed, marked, liveIn, indexOf, revoking>>

SessionEnds(s) ==
    /\ \E k \in liveIn[s] : liveIn' = [liveIn EXCEPT ![s] = @ \ {k}]
    /\ UNCHANGED <<revokedShares, lapsed, marked, indexOf, entering, revoking>>

\* Every session of a share was given what is left of the share's time.
ShareLapses(s) ==
    /\ s \in Timed \ lapsed
    /\ lapsed' = lapsed \cup {s} /\ liveIn' = [liveIn EXCEPT ![s] = {}]
    /\ UNCHANGED <<revokedShares, marked, indexOf, entering, revoking>>

-----------------------------------------------------------------------------
\* DELETE /api/shares/<id> flushes one row, DELETE /api/shares every row that is
\* active; a row another request has flushed is waited for.
Flushes(o, picked) ==
    /\ revoking[o] = NoRevoke /\ picked # {}
    /\ \A r \in Owners : revoking[r].picked \cap picked = {}
    /\ revoking' = [revoking EXCEPT ![o] = [picked |-> picked, left |-> picked]]
    /\ UNCHANGED <<revokedShares, lapsed, marked, liveIn, indexOf, entering>>

Selections == {{s} : s \in ShareIds} \cup {ShareIds \ revokedShares}

CLEAR_SHARE_SESSIONS(o, s) ==
    /\ s \in revoking[o].left
    /\ liveIn' = [liveIn EXCEPT ![s] = @ \ indexOf[s]]
    /\ indexOf' = [indexOf EXCEPT ![s] = {}]
    /\ marked' = marked \cup {s}
    /\ revoking' = [revoking EXCEPT ![o].left = @ \ {s}]
    /\ UNCHANGED <<revokedShares, lapsed, entering>>

\* Redis raises, or the commit does: no row is revoked, what was cleared stays so.
RevokeFails(o) ==
    /\ revoking[o] # NoRevoke
    /\ revoking' = [revoking EXCEPT ![o] = NoRevoke]
    /\ UNCHANGED <<revokedShares, lapsed, marked, liveIn, indexOf, entering>>

RevokeCommits(o) ==
    /\ revoking[o] # NoRevoke /\ revoking[o].left = {}
    /\ revokedShares' = revokedShares \cup revoking[o].picked
    /\ revoking' = [revoking EXCEPT ![o] = NoRevoke]
    /\ UNCHANGED <<lapsed, marked, liveIn, indexOf, entering>>

\* The mark lives for 300 seconds, longer than a request does.
MarkEnds(s) ==
    /\ s \in marked
    /\ \A g \in Guests : entering[g] # s
    /\ \A o \in Owners : s \notin revoking[o].picked
    /\ marked' = marked \ {s}
    /\ UNCHANGED <<revokedShares, lapsed, liveIn, indexOf, entering, revoking>>

-----------------------------------------------------------------------------
GuestSteps(g) == \/ \E s \in ShareIds : ReadsShare(g, s)
                 \/ _establish_session(g) \/ EntryFails(g)
OwnerSteps(o) == \/ \E picked \in Selections : Flushes(o, picked)
                 \/ \E s \in ShareIds : CLEAR_SHARE_SESSIONS(o, s)
                 \/ RevokeFails(o) \/ RevokeCommits(o)
TimeSteps(s) == SessionEnds(s) \/ ShareLapses(s) \/ MarkEnds(s)

SharesNext == \/ \E g \in Guests : GuestSteps(g)
              \/ \E o \in Owners : OwnerSteps(o)
              \/ \E s \in ShareIds : TimeSteps(s)

SharesSpec == SharesInit /\ [][SharesNext]_sharesVars

-----------------------------------------------------------------------------
SharesTypeOK ==
    /\ revokedShares \subseteq ShareIds /\ lapsed \subseteq ShareIds /\ marked \subseteq ShareIds
    /\ liveIn \in [ShareIds -> SUBSET SessionIds] /\ indexOf \in [ShareIds -> SUBSET SessionIds]
    /\ entering \in [Guests -> ShareIds \cup {NoShare}]
    /\ revoking \in [Owners -> [picked : SUBSET ShareIds, left : SUBSET ShareIds]]

(* No session of a revoked share is left: none that the script did not know, *)
(* none of a visitor who was let in before, none that a later one brings     *)
(* back.  The operator's routes ask nothing else.                            *)
RevokedIsShutOut == \A s \in revokedShares : liveIn[s] = {}
=============================================================================
