----------------------------- MODULE MikuTurns ------------------------------
(***************************************************************************)
(* The turns of one owner with MIKU (miku/router.py, miku/context_store.py,*)
(* miku/service.py): those of a socket, which barge in on one another and  *)
(* are cancelled at whatever they await, and those of REST requests.  They *)
(* share a session context in Redis and a stored thread, and each is kept  *)
(* to one turn at a time by a key in Redis that is set if it is not there, *)
(* expires, and is taken away by the token of the turn that set it.        *)
(***************************************************************************)
EXTENDS Integers, Sequences, FiniteSets

CONSTANTS SocketTurns, RestTurns, \* the turns that are ever asked for
          NoTurn,                 \* no turn
          HISTORY_TURNS,          \* what the model is shown; also of a thread
          MaxLapses               \* bounds the keys that expire before they are released

Talking == SocketTurns \cup RestTurns
Keys == {"session", "thread"}

ASSUME MikuAssumption ==
    /\ HISTORY_TURNS \in Nat \ {0} /\ MaxLapses \in Nat
    /\ NoTurn \notin Talking /\ SocketTurns \cap RestTurns = {}

VARIABLES turns,       \* where each turn is
          contextLock, \* whose token the key of each identity holds
          history,     \* the turns in the session context; those of the thread
          order,       \* the turns in the order they were kept
          socket       \* whether it is open, and the turn it holds as pending

mikuVars == <<turns, contextLock, history, order, socket>>

\* read: the window that the turn answers from.  lapsed: its key expired.
Unasked == [at |-> "unasked", about |-> "session", read |-> <<>>, holds |-> FALSE,
            cancelled |-> FALSE, lapsed |-> FALSE]

MikuTurnsInit ==
    /\ turns = [t \in Talking |-> Unasked]
    /\ contextLock = [k \in Keys |-> NoTurn]
    /\ history = [k \in Keys |-> <<>>] /\ order = [k \in Keys |-> <<>>]
    /\ socket = [open |-> TRUE, pending |-> NoTurn]

At(t, place) == turns[t].at = place
About(t) == turns[t].about
Last(s) == IF Len(s) > HISTORY_TURNS THEN SubSeq(s, Len(s) - HISTORY_TURNS + 1, Len(s)) ELSE s
Running(t) == turns[t].at \notin {"unasked", "done"}
\* A turn goes on unless it was cancelled: then it is told so first.
Goes(t, from) == At(t, from) /\ ~turns[t].cancelled
Moves(t, to) == turns' = [turns EXCEPT ![t].at = to]

\* The callback of a task that is done clears it where it is pending.
Done(t, tasks) ==
    /\ turns' = [tasks EXCEPT ![t].at = "done", ![t].cancelled = FALSE]
    /\ socket' = IF socket.pending = t THEN [socket EXCEPT !.pending = NoTurn] ELSE socket

-----------------------------------------------------------------------------
CancelsPending ==
    [t \in Talking |-> IF t = socket.pending /\ Running(t)
                       THEN [turns[t] EXCEPT !.cancelled = TRUE] ELSE turns[t]]

\* A message, typed or transcribed: it barges in on the turn that is pending.
_start_turn(t, k) ==
    /\ socket.open /\ t \in SocketTurns /\ At(t, "unasked")
    /\ turns' = [CancelsPending EXCEPT ![t].at = "asked", ![t].about = k]
    /\ socket' = [socket EXCEPT !.pending = t]
    /\ UNCHANGED <<contextLock, history, order>>

\* "cancel" of the request that is pending, as often as the client likes.
miku_socket_cancel ==
    /\ socket.open /\ socket.pending # NoTurn
    /\ turns' = CancelsPending
    /\ UNCHANGED <<contextLock, history, order, socket>>

_cancel_all ==
    /\ socket.open
    /\ turns' = CancelsPending
    /\ socket' = [socket EXCEPT !.open = FALSE]
    /\ UNCHANGED <<contextLock, history, order>>

miku_query(t, k) ==
    /\ t \in RestTurns /\ At(t, "unasked")
    /\ turns' = [turns EXCEPT ![t].at = "asked", ![t].about = k]
    /\ UNCHANGED <<contextLock, history, order, socket>>

-----------------------------------------------------------------------------
\* SET NX in Redis; a key that is there ends the turn with an error.
acquire_context_lock(t) ==
    /\ Goes(t, "asked")
    /\ IF contextLock[About(t)] = NoTurn
       THEN /\ contextLock' = [contextLock EXCEPT ![About(t)] = t]
            /\ Moves(t, "setting") /\ UNCHANGED socket
       ELSE Done(t, turns) /\ UNCHANGED contextLock
    /\ UNCHANGED <<history, order>>

\* Its answer: from here on the turn knows its token.
LearnsToken(t) ==
    /\ Goes(t, "setting")
    /\ turns' = [turns EXCEPT ![t].at = "reading", ![t].holds = TRUE]
    /\ UNCHANGED <<contextLock, history, order, socket>>

\* The session context of Redis; of a thread, the window of its transcript.
rest_context(t) ==
    /\ Goes(t, "reading")
    /\ turns' = [turns EXCEPT ![t].at = "answering", ![t].read = Last(history[About(t)])]
    /\ UNCHANGED <<contextLock, history, order, socket>>

\* A cascade in the agent runtime; the answer joins what was read.
query(t) ==
    /\ Goes(t, "answering")
    /\ Moves(t, IF About(t) = "session" THEN "saving" ELSE "committing")
    /\ UNCHANGED <<contextLock, history, order, socket>>

save_rest_context(t) ==
    /\ Goes(t, "saving")
    /\ history' = [history EXCEPT !["session"] = Last(Append(turns[t].read, t))]
    /\ order' = [order EXCEPT !["session"] = Append(@, t)]
    /\ Moves(t, "committing")
    /\ UNCHANGED <<contextLock, socket>>

Keeps(t) ==
    IF About(t) = "thread"
    THEN /\ history' = [history EXCEPT !["thread"] = Append(@, t)]
         /\ order' = [order EXCEPT !["thread"] = Append(@, t)]
    ELSE UNCHANGED <<history, order>>

\* The transcript of a thread is there when the transaction commits.
commit(t) ==
    /\ Goes(t, "committing")
    /\ Keeps(t)
    /\ Moves(t, "releasing")
    /\ UNCHANGED <<contextLock, socket>>

\* A request that fails, the runtime, Redis or the database: the rows go.
QueryFails(t) ==
    /\ \E place \in {"reading", "answering", "saving", "committing"} : Goes(t, place)
    /\ Moves(t, "releasing")
    /\ UNCHANGED <<contextLock, history, order, socket>>

\* Mutant: the key is deleted whosever token it holds.
DeletesAnyLock(t) ==
    /\ Goes(t, "releasing")
    /\ contextLock' = IF turns[t].holds THEN [contextLock EXCEPT ![About(t)] = NoTurn]
                      ELSE contextLock
    /\ Done(t, turns)
    /\ UNCHANGED <<history, order>>

release_context_lock(t) ==
    /\ Goes(t, "releasing")
    /\ contextLock' = IF turns[t].holds /\ contextLock[About(t)] = t
                      THEN [contextLock EXCEPT ![About(t)] = NoTurn] ELSE contextLock
    /\ Done(t, turns)
    /\ UNCHANGED <<history, order>>

\* Redis does not answer the script: the key stays.
ReleaseFails(t) ==
    /\ Goes(t, "releasing")
    /\ Done(t, turns)
    /\ UNCHANGED <<contextLock, history, order>>

\* CancelledError, at what the turn awaits: nothing is held yet, or the clean-up
\* itself is broken off, or it begins with the event and goes on to the release.
IsCancelled(t) ==
    /\ turns[t].cancelled
    /\ IF turns[t].at \in {"asked", "releasing"} THEN Done(t, turns)
       ELSE /\ turns' = [turns EXCEPT ![t].at = "releasing", ![t].cancelled = FALSE]
            /\ UNCHANGED socket
    /\ \/ At(t, "committing") /\ Keeps(t)
       \/ UNCHANGED <<history, order>>
    /\ UNCHANGED contextLock

-----------------------------------------------------------------------------
\* REST_CONTEXT_LOCK_SECONDS.
LockLapses(k) ==
    LET t == contextLock[k] IN
    /\ t # NoTurn /\ Cardinality({u \in Talking : turns[u].lapsed}) < MaxLapses
    /\ contextLock' = [contextLock EXCEPT ![k] = NoTurn]
    /\ turns' = [turns EXCEPT ![t].lapsed = TRUE]
    /\ UNCHANGED <<history, order, socket>>

\* REST_CONTEXT_TTL_SECONDS.
ContextExpires ==
    /\ history["session"] # <<>>
    /\ history' = [history EXCEPT !["session"] = <<>>]
    /\ order' = [order EXCEPT !["session"] = <<>>]
    /\ UNCHANGED <<turns, contextLock, socket>>

TurnSteps(t) ==
    \/ acquire_context_lock(t) \/ LearnsToken(t) \/ rest_context(t) \/ query(t)
    \/ save_rest_context(t) \/ commit(t) \/ QueryFails(t) \/ release_context_lock(t)
    \/ ReleaseFails(t) \/ IsCancelled(t)

MikuTurnsNext ==
    \/ \E t \in Talking, k \in Keys : _start_turn(t, k) \/ miku_query(t, k)
    \/ miku_socket_cancel \/ _cancel_all \/ ContextExpires
    \/ \E t \in Talking : TurnSteps(t)
    \/ \E k \in Keys : LockLapses(k)

MikuTurnsSpec == MikuTurnsInit /\ [][MikuTurnsNext]_mikuVars

-----------------------------------------------------------------------------
MikuTypeOK ==
    /\ turns \in [Talking -> [at : {"unasked", "asked", "setting", "reading", "answering", "saving",
                                    "committing", "releasing", "done"},
                              about : Keys, read : Seq(Talking), holds : BOOLEAN,
                              cancelled : BOOLEAN, lapsed : BOOLEAN]]
    /\ contextLock \in [Keys -> Talking \cup {NoTurn}]
    /\ history \in [Keys -> Seq(Talking)] /\ order \in [Keys -> Seq(Talking)]
    /\ socket \in [open : BOOLEAN, pending : SocketTurns \cup {NoTurn}]

(* A turn that is kept was answered in the light of those kept before it, as  *)
(* far as the window reaches: turns over one session or thread do not         *)
(* interleave, whatever barges in, is cancelled or fails.  Only a turn that   *)
(* outlived its key, itself or between the two, is excused.                   *)
EarlierTurnsAreRead ==
    \A k \in Keys : \A j \in DOMAIN order[k] : \A i \in 1..j - 1 :
       \/ j - i > HISTORY_TURNS
       \/ \E x \in DOMAIN turns[order[k][j]].read : turns[order[k][j]].read[x] = order[k][i]
       \/ \E m \in i..j : turns[order[k][m]].lapsed
=============================================================================
