------------------------------ MODULE Planner ------------------------------
(***************************************************************************)
(* The planner (app/modules/planner): the owner's tasks and events, the    *)
(* reminders a Celery sweep pushes for them, and the chain of sweeps that  *)
(* re-arms itself once a minute behind a Redis flag.                       *)
(*                                                                         *)
(* Times are whole periods of a repeat.  A request is one step: it writes  *)
(* the columns it changed whatever the row holds by then, as its session   *)
(* does.  A sweep is many: it loads, pushes row by row, and commits once.  *)
(***************************************************************************)
EXTENDS Integers, FiniteSets

CONSTANTS MaxItems,     \* how many rows are ever created
          MaxClock,     \* the last moment the sweep can see
          Sweepers,     \* processes of the worker
          SWEEP_LIMIT,  \* reminders of one kind a pass loads
          MaxRequests,  \* writes of the owner
          MaxTroubles   \* losses of the flag, deaths in a pass, messages not sent

ASSUME PlannerAssumption ==
    /\ MaxItems \in Nat /\ MaxClock \in Nat /\ SWEEP_LIMIT \in Nat \ {0}
    /\ MaxRequests \in Nat
    /\ MaxTroubles \in Nat /\ IsFiniteSet(Sweepers)

Ids == 1..MaxItems
Never == MaxClock + 2          \* no reminder; MaxClock + 1 is later than any pass

VARIABLES clock,    \* the moment
          agenda,   \* planner_task and planner_event
          made,     \* rows created so far: ids are handed out in order
          requests, \* writes of the owner so far
          armed,    \* planner:sweep:armed
          queued,   \* sweep messages in the broker
          unacked,  \* those a worker that died as a whole had taken
          sweep,    \* what each process is doing
          pushes,   \* reminders pushed for a row
          lapses, failed,  \* times the flag was lost; passes that did not commit
          unsent    \* messages that could not be sent

plannerRows == <<clock, agenda, made, requests>>
plannerChain == <<armed, queued, unacked, lapses, unsent>>
plannerVars == <<plannerRows, plannerChain, sweep, pushes, failed>>

NoRow == [kind |-> "none", status |-> "gone", at |-> 0, remind |-> Never,
          notified |-> FALSE, repeats |-> FALSE, doneAt |-> 0, series |-> 0]
NoSweep == [at |-> "idle", now |-> 0, todo |-> {}, marks |-> {}, rolls |-> {}]

PlannerInit ==
    /\ clock = 0 /\ made = 0 /\ requests = 0 /\ agenda = [i \in Ids |-> NoRow]
    /\ armed = FALSE /\ queued = 0 /\ unacked = 0 /\ lapses = 0 /\ unsent = 0
    /\ sweep = [w \in Sweepers |-> NoSweep]
    /\ pushes = [i \in Ids |-> 0] /\ failed = 0

Open(i) == agenda[i].status = "open"       \* todo or doing; active
Exists(i) == agenda[i].status # "gone"
Rows(kind) == {i \in Ids : agenda[i].kind = kind /\ Exists(i)}

-----------------------------------------------------------------------------
(* The chain.                                                              *)

Loops == queued + unacked + Cardinality({w \in Sweepers : sweep[w].at # "idle"})
Trouble == lapses + failed + unsent < MaxTroubles

\* apply_async; without a broker there is no message.
Sends == \/ queued' = queued + 1 /\ UNCHANGED unsent
         \/ Trouble /\ unsent' = unsent + 1 /\ UNCHANGED queued

\* Mutant: the flag is set whether or not it was there.
ArmsAnyway ==
    armed' = TRUE /\ queued' = queued + 1 /\ UNCHANGED <<unacked, lapses, unsent>>

\* SET NX, and the message only where there was no flag.  Either may fail, and
\* nobody is told.
ensure_sweep_armed ==
    /\ \/ armed /\ UNCHANGED <<armed, queued, unsent>>
       \/ ~armed /\ armed' = TRUE /\ Sends
       \/ ~armed /\ Trouble /\ unsent' = unsent + 1 /\ UNCHANGED <<armed, queued>>
    /\ UNCHANGED <<unacked, lapses>>

arm_sweep_on_worker_ready ==
    ensure_sweep_armed /\ UNCHANGED <<plannerRows, sweep, pushes, failed>>

\* Its time runs out before a late pass renews it, or Redis loses it.
FlagLapses ==
    /\ armed /\ Trouble
    /\ armed' = FALSE /\ lapses' = lapses + 1
    /\ UNCHANGED <<plannerRows, queued, unacked, unsent, sweep, pushes, failed>>


\* The chain is lost, and no pass will renew its flag.
FlagExpires ==
    /\ armed /\ Loops = 0
    /\ armed' = FALSE
    /\ UNCHANGED <<plannerRows, queued, unacked, lapses, unsent, sweep, pushes, failed>>

-----------------------------------------------------------------------------
(* The owner's requests, those of the API and those of the assistant.      *)

next_occurrence(t) == IF t > MaxClock THEN t ELSE t + 1

Create(row) ==
    /\ made < MaxItems
    /\ made' = made + 1
    /\ agenda' = [agenda EXCEPT ![made + 1] = row]

NewRow(kind, at, remind, repeats, series) ==
    [NoRow EXCEPT !.kind = kind, !.status = "open", !.at = at, !.remind = remind,
                  !.repeats = repeats, !.series = series]

create_item(kind, at, repeats) ==
    /\ Create(NewRow(kind, at, at, repeats, made + 1))
    /\ ensure_sweep_armed
    /\ UNCHANGED <<clock, sweep, pushes, failed>>

\* A row that is opened again by hand leaves its series.
Updated(i, status, remind) ==
    agenda' = [agenda EXCEPT
        ![i].status = status, ![i].remind = remind,
        ![i].series = IF status = "open" /\ ~Open(i) THEN 0 ELSE @,
        ![i].doneAt = CASE status = "open" -> 0
                        [] status = "done" /\ @ = 0 -> made
                        [] OTHER -> @]

update_item(i, status, remind) ==
    /\ Exists(i)
    /\ Updated(i, status, remind)
    /\ ensure_sweep_armed
    /\ UNCHANGED <<clock, made, sweep, pushes, failed>>

snooze_task(i, remind) ==
    /\ i \in Rows("task") /\ remind > clock
    /\ Updated(i, "open", remind)
    /\ UNCHANGED <<clock, made, plannerChain, sweep, pushes, failed>>

\* Completing looks at no status: a task that is done is done again.
complete_task(i) ==
    /\ i \in Rows("task")
    /\ LET done == [agenda EXCEPT ![i].status = "done", ![i].doneAt = made]
           next == next_occurrence(agenda[i].at)
           remind == IF agenda[i].remind = Never THEN Never ELSE next
       IN IF agenda[i].repeats
          THEN /\ made < MaxItems
               /\ made' = made + 1
               /\ agenda' = [done EXCEPT ![made + 1] =
                               NewRow("task", next, remind, TRUE, made + 1)]
          ELSE agenda' = done /\ made' = made
    /\ UNCHANGED <<clock, plannerChain, sweep, pushes, failed>>

Deleted(rows) == agenda' = [i \in Ids |-> IF i \in rows THEN NoRow ELSE agenda[i]]

delete_item(i) ==
    /\ Exists(i)
    /\ Deleted({i})
    /\ UNCHANGED <<clock, made, plannerChain, sweep, pushes, failed>>

\* A create is found again by its title, the newest open row that has it; a
\* completion takes with it every open task of that title and repeat made since.
undo_create(kind) ==
    /\ \E i \in Rows(kind) : /\ Open(i)
                             /\ \A j \in Rows(kind) : Open(j) => j <= i
                             /\ Deleted({i})
    /\ UNCHANGED <<clock, made, plannerChain, sweep, pushes, failed>>

undo_complete(i) ==
    /\ i \in Rows("task") /\ agenda[i].status = "done" /\ agenda[i].doneAt # 0
    /\ LET twins == {j \in Rows("task") : /\ Open(j) /\ j > agenda[i].doneAt
                                          /\ agenda[j].repeats = agenda[i].repeats}
       IN agenda' = [j \in Ids |-> IF j \in twins THEN NoRow
                                   ELSE IF j = i THEN [agenda[i] EXCEPT !.status = "open",
                                                                        !.doneAt = 0]
                                   ELSE agenda[j]]
    /\ UNCHANGED <<clock, made, plannerChain, sweep, pushes, failed>>

OwnerActs ==
    /\ requests < MaxRequests /\ requests' = requests + 1
    /\ \/ \E k \in {"task", "event"}, t \in 0..MaxClock, r \in BOOLEAN : create_item(k, t, r)
       \/ \E i \in Ids, s \in {"open", "done", "cancelled"} : update_item(i, s, agenda[i].remind)
       \/ \E i \in Ids, t \in 0..(MaxClock + 1) : snooze_task(i, t)
       \/ \E i \in Ids : complete_task(i) \/ delete_item(i) \/ undo_complete(i)
       \/ \E k \in {"task", "event"} : undo_create(k)

-----------------------------------------------------------------------------
(* A pass of the sweep.                                                    *)

\* The earliest SWEEP_LIMIT reminders that are due and have not been pushed.
Batch(kind, now) ==
    LET due == {i \in Rows(kind) : Open(i) /\ agenda[i].remind <= now /\ ~agenda[i].notified}
        Before(i) == {j \in due : \/ agenda[j].remind < agenda[i].remind
                                  \/ agenda[j].remind = agenda[i].remind /\ j < i}
    IN {i \in due : Cardinality(Before(i)) < SWEEP_LIMIT}

SweepStarts(w) ==
    /\ sweep[w].at = "idle" /\ queued > 0
    /\ queued' = queued - 1
    /\ sweep' = [sweep EXCEPT ![w] = [NoSweep EXCEPT !.at = "task", !.now = clock,
                                                     !.todo = Batch("task", clock)]]
    /\ UNCHANGED <<plannerRows, armed, unacked, lapses, unsent, pushes, failed>>

push_notification(w) ==
    /\ \E i \in sweep[w].todo :
          /\ pushes' = [pushes EXCEPT ![i] = @ + 1]
          /\ sweep' = [sweep EXCEPT ![w].todo = @ \ {i}, ![w].marks = @ \cup {i}]
    /\ UNCHANGED <<plannerRows, plannerChain, failed>>

TurnsToEvents(w) ==
    /\ sweep[w].at = "task" /\ sweep[w].todo = {}
    /\ sweep' = [sweep EXCEPT ![w].at = "event", ![w].todo = Batch("event", sweep[w].now)]
    /\ UNCHANGED <<plannerRows, plannerChain, pushes, failed>>

\* Events that ended and repeat; what has no room left in the model is left.
_roll_past_events(w) ==
    /\ sweep[w].at = "event" /\ sweep[w].todo = {}
    /\ sweep' = [sweep EXCEPT ![w].at = "commit",
                    ![w].rolls = {i \in Rows("event") :
                                    /\ Open(i) /\ agenda[i].repeats
                                    /\ agenda[i].at <= sweep[w].now /\ made < MaxItems}]
    /\ UNCHANGED <<plannerRows, plannerChain, pushes, failed>>

\* The next instance of each rolled event, in the order they were loaded.
Rank(i, S) == Cardinality({j \in S : j <= i})

Rolled(marks, rolls) ==
    LET Source(k) == CHOOSE i \in rolls : made + Rank(i, rolls) = k
        Marked(i) == [agenda[i] EXCEPT !.notified = @ \/ i \in marks,
                                       !.status = IF i \in rolls THEN "done" ELSE @]
        Spawned(i) == LET next == next_occurrence(agenda[i].at)
                          remind == IF agenda[i].remind = Never THEN Never
                                    ELSE agenda[i].remind + next - agenda[i].at
                      IN NewRow("event", next, remind, TRUE, agenda[i].series)
    IN [k \in Ids |-> IF k > made /\ k <= made + Cardinality(rolls) THEN Spawned(Source(k))
                      ELSE Marked(k)]

Commits(marks, rolls) ==
    /\ agenda' = Rolled(marks, rolls)
    /\ made' = made + Cardinality(rolls)

\* The one commit of a pass fails as a whole when a row it changed is gone.  The
\* flag is renewed after a commit only; the next pass is sent either way, and
\* when it cannot be sent the chain ends here.
SweepEnds(w) ==
    /\ sweep[w].at = "commit"
    /\ IF /\ \A i \in sweep[w].marks \cup sweep[w].rolls : Exists(i)
          /\ made + Cardinality(sweep[w].rolls) <= MaxItems
       THEN /\ Commits(sweep[w].marks, sweep[w].rolls)
            /\ armed' = TRUE /\ failed' = failed
       ELSE /\ UNCHANGED <<agenda, made, armed>>
            /\ failed' = failed + 1
    /\ Sends
    /\ sweep' = [sweep EXCEPT ![w] = NoSweep]
    /\ UNCHANGED <<clock, requests, unacked, lapses, pushes>>

\* A worker that dies as a whole leaves its message unacknowledged.  When only
\* the process of the pool dies, the worker acknowledges for it, and the chain
\* ends here (task_acks_late without task_reject_on_worker_lost).
WorkerIsKilled(w) ==
    /\ sweep[w].at # "idle" /\ Trouble
    /\ failed' = failed + 1
    /\ unacked' \in {unacked, unacked + 1}
    /\ sweep' = [sweep EXCEPT ![w] = NoSweep]
    /\ UNCHANGED <<plannerRows, armed, queued, lapses, unsent, pushes>>

\* The broker hands out again what was not acknowledged.
Redelivers ==
    /\ unacked > 0
    /\ unacked' = unacked - 1 /\ queued' = queued + 1
    /\ UNCHANGED <<plannerRows, armed, lapses, unsent, sweep, pushes, failed>>

Sweeps(w) == \/ SweepStarts(w) \/ push_notification(w) \/ TurnsToEvents(w)
             \/ _roll_past_events(w) \/ SweepEnds(w)

ClockTicks == clock < MaxClock /\ clock' = clock + 1
              /\ UNCHANGED <<agenda, made, requests, plannerChain, sweep, pushes, failed>>

PlannerNext ==
    \/ OwnerActs \/ ClockTicks \/ FlagLapses \/ FlagExpires
    \/ arm_sweep_on_worker_ready \/ Redelivers
    \/ \E w \in Sweepers : Sweeps(w) \/ WorkerIsKilled(w)

PlannerFairness == /\ WF_plannerVars(Redelivers) /\ WF_plannerVars(FlagExpires)
                   /\ \A w \in Sweepers : WF_plannerVars(Sweeps(w))

PlannerSpec == PlannerInit /\ [][PlannerNext]_plannerVars /\ PlannerFairness

-----------------------------------------------------------------------------
PlannerTypeOK ==
    /\ clock \in 0..MaxClock /\ made \in 0..MaxItems /\ requests \in 0..MaxRequests
    /\ agenda \in [Ids -> [kind : {"none", "task", "event"},
                           status : {"open", "done", "cancelled", "gone"},
                           at : 0..(MaxClock + 1), remind : 0..Never, notified : BOOLEAN,
                           repeats : BOOLEAN, doneAt : 0..MaxItems, series : 0..MaxItems]]
    /\ armed \in BOOLEAN /\ {queued, unacked, lapses, failed, unsent} \subseteq Nat
    /\ pushes \in [Ids -> Nat]
    /\ sweep \in [Sweepers -> [at : {"idle", "task", "event", "commit"}, now : 0..MaxClock,
                               todo : SUBSET Ids, marks : SUBSET Ids, rolls : SUBSET Ids]]

(* A reminder is pushed once, but for passes that died or failed before      *)
(* their commit, and for second chains: those only a lost flag can start.    *)
RemindedOnce == /\ Loops <= 1 + lapses
                /\ \A i \in Ids : pushes[i] <= 1 + lapses + failed

(* While the flag has never lapsed there is one chain, and a repeating event  *)
(* has at most one active instance, whatever passes die, fail or race with    *)
(* the owner's edits.                                                         *)
SeriesDoesNotFork ==
    lapses = 0 => \A i, j \in Rows("event") :
                     (/\ Open(i) /\ Open(j) /\ agenda[i].series # 0
                     /\ agenda[i].series = agenda[j].series) => i = j

(* Both: nothing is done twice that the flag and the one commit should keep   *)
(* from being done twice.                                                     *)
NothingTwice == RemindedOnce /\ SeriesDoesNotFork

Due(i) == Open(i) /\ agenda[i].remind <= clock /\ ~agenda[i].notified

(* "Any planner write re-arms a dead loop" (planner/tasks.py:4): a reminder   *)
(* that is due is pushed, or stops being due.  Until then the chain goes on,  *)
(* or a process died or a message was not sent, and the flag is down: the     *)
(* next write, or worker, starts a chain again.  No pass that dies or fails,  *)
(* no redelivery and no batch limit leaves a reminder behind an armed flag.   *)
AwaitsWrite == Loops = 0 /\ ~armed /\ failed + unsent > 0
=============================================================================
