-------------------------------- MODULE Goals ------------------------------
(***************************************************************************)
(* The goals MIKU comes back to (app/modules/miku, core/agent/engine.py):  *)
(* a turn runs step by step in the agent runtime; one that runs out of     *)
(* steps parks its goal in miku_task, and a pass of a Celery worker claims *)
(* the goals that are due, runs a turn for each and records how it went.   *)
(*                                                                         *)
(* A pass is one transaction: what it writes others see when it commits,   *)
(* and the rows it has written they can only write afterwards.  Passes may *)
(* overlap: a message that is delivered again, or a chain armed twice.     *)
(***************************************************************************)
EXTENDS Integers, FiniteSets

CONSTANTS Passes,             \* passes under way in the workers
          Talks,              \* turns of the owner, over HTTP or the socket
          TASK_MAX_ATTEMPTS,
          MAX_TASKS_PER_PASS,
          MaxGoals,           \* how many goals are ever parked
          MaxPassDeaths            \* passes that die or whose transaction fails

ASSUME GoalsAssumption ==
    /\ TASK_MAX_ATTEMPTS \in Nat \ {0} /\ MAX_TASKS_PER_PASS \in Nat
    /\ MaxGoals \in Nat /\ MaxPassDeaths \in Nat
    /\ IsFiniteSet(Passes) /\ IsFiniteSet(Talks) /\ Passes \cap Talks = {}

VARIABLES goals,    \* miku_task, by the order of its rows: state and attempts
          turn,     \* what a pass or a talk is at
          tried,    \* turns a pass ran for the goal and recorded
          heard,    \* goals for which a turn came to an end
          passDeaths

goalsVars == <<goals, turn, tried, heard, passDeaths>>

Parked == DOMAIN goals
Runners == Passes \cup Talks
\* todo: claimed, no turn yet.  claim: the attempts written.  ended: the state the
\* pass gave a goal.  parks: goals it adds.
Silent == [at |-> "idle", todo |-> {}, claim |-> <<>>, ended |-> <<>>,
           goal |-> 0, parks |-> 0]
ClaimedBy(w) == DOMAIN turn[w].claim
With(f, g, value) == [i \in DOMAIN f \cup {g} |-> IF i = g THEN value ELSE f[i]]
Is(r, at) == turn[r].at = at
Become(r, t) == turn' = [turn EXCEPT ![r] = t]

-----------------------------------------------------------------------------
(* A pass: claim_due_tasks, then a turn for each goal, then the commit.    *)

\* The query: open goals whose moment has come; others commit in between.
ListsDue(w) ==
    /\ Is(w, "idle")
    /\ LET due == {g \in Parked : goals[g].state = "open"}
       IN \E some \in {s \in SUBSET due : Cardinality(s) <= MAX_TASKS_PER_PASS} :
             Become(w, [Silent EXCEPT !.at = "listed", !.todo = some,
                          !.claim = [g \in some |-> goals[g].attempts + 1]])
    /\ UNCHANGED <<goals, tried, heard, passDeaths>>

\* The flush: it waits for the rows another pass has written.
WaitsForNone(w) == \A v \in Passes \ {w} :
                       turn[v].at \in {"next", "turn"} => ClaimedBy(v) \cap ClaimedBy(w) = {}

\* Mutant: the claim is committed, so that no other pass takes the goal.
ClaimsAtOnce(w) ==
    /\ Is(w, "listed") /\ WaitsForNone(w)
    /\ goals' = [g \in Parked |-> IF g \in ClaimedBy(w)
                                  THEN [state |-> "running", attempts |-> turn[w].claim[g]]
                                  ELSE goals[g]]
    /\ Become(w, [turn[w] EXCEPT !.at = "next"])
    /\ UNCHANGED <<tried, heard, passDeaths>>

claim_due_tasks(w) ==
    /\ Is(w, "listed") /\ WaitsForNone(w)
    /\ Become(w, [turn[w] EXCEPT !.at = "next"])
    /\ UNCHANGED <<goals, tried, heard, passDeaths>>

_resume(w) ==
    /\ Is(w, "next")
    /\ \E g \in turn[w].todo :
          Become(w, [turn[w] EXCEPT !.at = "turn", !.todo = @ \ {g}, !.goal = g])
    /\ UNCHANGED <<goals, tried, heard, passDeaths>>

\* Mutant: a goal is given up one attempt later.
GivesUpLate(w, done) ==
    LET g == turn[w].goal
        state == IF done THEN "done"
                 ELSE IF turn[w].claim[g] > TASK_MAX_ATTEMPTS THEN "failed" ELSE "open"
    IN [turn[w] EXCEPT !.at = "next", !.ended = With(@, g, state), !.goal = 0]

\* finish_task: done, given up or open again.
finish_task(w, done) ==
    LET g == turn[w].goal
        state == IF done THEN "done"
                 ELSE IF turn[w].claim[g] >= TASK_MAX_ATTEMPTS THEN "failed" ELSE "open"
    IN [turn[w] EXCEPT !.at = "next", !.ended = With(@, g, state), !.goal = 0]

\* The commit at the end of the pass.
continue_due_tasks(w) ==
    /\ Is(w, "next") /\ turn[w].todo = {}
    /\ goals' = [g \in 1..(Cardinality(Parked) + turn[w].parks) |->
                   IF g \notin Parked THEN [state |-> "open", attempts |-> 0]
                   ELSE IF g \in ClaimedBy(w)
                   THEN [state |-> turn[w].ended[g], attempts |-> turn[w].claim[g]]
                   ELSE goals[g]]
    /\ tried' = [g \in DOMAIN goals' |-> IF g \notin Parked THEN 0
                                         ELSE IF g \in ClaimedBy(w) THEN tried[g] + 1 ELSE tried[g]]
    /\ heard' = heard \cup {g \in ClaimedBy(w) : turn[w].ended[g] = "done"}
    /\ Become(w, Silent)
    /\ UNCHANGED passDeaths

\* The worker is killed, or a statement fails outside a turn: nothing was written.
PassFails(w) ==
    /\ ~Is(w, "idle") /\ passDeaths < MaxPassDeaths
    /\ passDeaths' = passDeaths + 1
    /\ Become(w, Silent)
    /\ UNCHANGED <<goals, tried, heard>>

-----------------------------------------------------------------------------
(* A turn, of a pass or of the owner.                                      *)

\* Without room for its goal in the model a turn of the owner changes nothing.
TalkStarts(k) ==
    /\ Is(k, "idle") /\ Cardinality(Parked) < MaxGoals
    /\ Become(k, [Silent EXCEPT !.at = "turn"])
    /\ UNCHANGED <<goals, tried, heard, passDeaths>>

Pending == {r \in Runners : turn[r].parks > 0}

\* The steps of a turn change no goal.  final, ask, no time left, or no answer of
\* the model or the runtime: all of them come back as a reply that is not exhausted.
EngineReplies(r) ==
    /\ Is(r, "turn")
    /\ Become(r, IF r \in Talks THEN Silent ELSE finish_task(r, TRUE))
    /\ UNCHANGED <<goals, tried, heard, passDeaths>>

\* No step left: the goal is parked anew, and the old one is done.
EngineExhausts(r) ==
    /\ Is(r, "turn")
    /\ Cardinality(Parked) + Cardinality(Pending) < MaxGoals /\ turn[r].parks = 0
    /\ IF r \in Talks
       THEN /\ goals' = With(goals, Cardinality(Parked) + 1, [state |-> "open", attempts |-> 0])
            /\ tried' = With(tried, Cardinality(Parked) + 1, 0)
            /\ Become(r, Silent)
       ELSE /\ Become(r, [finish_task(r, TRUE) EXCEPT !.parks = 1])
            /\ UNCHANGED <<goals, tried>>
    /\ UNCHANGED <<heard, passDeaths>>

\* The turn raises; a turn of the owner that is cancelled or raises leaves nothing.
TurnFails(r) ==
    /\ Is(r, "turn")
    /\ Become(r, IF r \in Talks THEN Silent ELSE finish_task(r, FALSE))
    /\ UNCHANGED <<goals, tried, heard, passDeaths>>

GoalsInit ==
    /\ goals = <<>> /\ tried = <<>> /\ heard = {} /\ passDeaths = 0
    /\ turn = [r \in Runners |-> Silent]

GoalsNext ==
    \/ \E w \in Passes : \/ ListsDue(w) \/ claim_due_tasks(w) \/ _resume(w)
                         \/ continue_due_tasks(w) \/ PassFails(w)
    \/ \E k \in Talks : TalkStarts(k)
    \/ \E r \in Runners : EngineReplies(r) \/ EngineExhausts(r) \/ TurnFails(r)

GoalsSpec == GoalsInit /\ [][GoalsNext]_goalsVars

-----------------------------------------------------------------------------
(* Goals, passes and turns have their types.                                  *)
GoalsTypeOK ==
    /\ Parked = 1..Cardinality(Parked) /\ Cardinality(Parked) <= MaxGoals
    /\ \A g \in Parked : /\ goals[g].state \in {"open", "running", "done", "failed"}
                         /\ goals[g].attempts \in 0..TASK_MAX_ATTEMPTS
    /\ DOMAIN tried = Parked /\ heard \subseteq Parked /\ passDeaths \in 0..MaxPassDeaths
    /\ \A r \in Runners : /\ turn[r].at \in {"idle", "listed", "next", "turn"}
                          /\ turn[r].parks \in 0..1
                          /\ ClaimedBy(r) \subseteq Parked /\ turn[r].todo \subseteq ClaimedBy(r)

(* A goal is never stuck: whatever passes overlap or die with it claimed, it  *)
(* is open to a later one or in the hands of one that runs, or a turn for it  *)
(* came to an end, or it was given up after TASK_MAX_ATTEMPTS turns that were *)
(* really run.                                                                *)
GoalIsNotStuck ==
    \A g \in Parked : CASE goals[g].state = "done" -> g \in heard
                        [] goals[g].state = "failed" -> tried[g] >= TASK_MAX_ATTEMPTS
                        [] goals[g].state = "running" -> \E w \in Passes : g \in ClaimedBy(w)
                        [] OTHER -> TRUE
=============================================================================
