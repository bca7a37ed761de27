------------------------- MODULE VaultMediaUpgrade -------------------------
(***************************************************************************)
(* Moving Vault's stored media from the v1 file envelope to v2             *)
(* (app/modules/vault/media_upgrade.py, run by scripts/                    *)
(* vault_media_migrate.py), while the web process may delete cards.        *)
(*                                                                         *)
(* A slot is one file column of one row (media_path, media_thumbnail_path  *)
(* or image_path), numbered in the order the pass visits them.  One pass   *)
(* is a process of its own; it is killed between any two of its awaits.    *)
(***************************************************************************)
EXTENDS Integers, FiniteSets

CONSTANTS Slots,       \* file columns of rows, in listing order
          Cards,       \* the cards (rows) that own them
          CardOf,      \* the card a slot belongs to
          Passes,      \* processes running `upgrade_media_batch`
          NoPath,      \* the column of a row that is gone
          Limit,       \* DEFAULT_BATCH_LIMIT, or --limit
          MaxStarts,   \* bound: passes started in a behaviour
          MaxRetries   \* bound: uses of --retry-failed

ASSUME SlotsAssumption == Slots \subseteq Nat /\ IsFiniteSet(Slots)
ASSUME CardOfAssumption == CardOf \in [Slots -> Cards]
ASSUME NoPathAssumption == NoPath \notin [slot : Slots, v2name : BOOLEAN]
ASSUME BoundsAssumption == Limit \in Nat /\ MaxStarts \in Nat /\ MaxRetries \in Nat

(* What a stored object is: "plain" has no chunked header; "v1" opens with  *)
(* the application key; "keyed" is a v1 object under a key this pass does   *)
(* not hold, or one whose chunks do not verify; "short" is a v1 object      *)
(* whose header claims more bytes than it holds; "torn" is the unfinished   *)
(* v2 object a short source leaves behind.                                  *)
Objects == {"absent", "plain", "v1", "keyed", "short", "v2", "torn"}

Paths == [slot : Slots, v2name : BOOLEAN]
NoReport == -1
Original(s) == [slot |-> s, v2name |-> FALSE]

(* Read from the header, never the name. *)
seekable_envelope_version(o) ==
  CASE o = "plain" -> 0
    [] o \in {"v1", "keyed", "short"} -> 1
    [] o \in {"v2", "torn"} -> 2

(* The marker is added once: a path that carries it holds a v2 header and   *)
(* is never given to this operator again.                                   *)
upgraded_path(p) == [p EXCEPT !.v2name = TRUE]

VARIABLES
  origin,    \* what each slot's file was before the migration (history)
  row,       \* the column's value: a path, or NoPath once the card is gone
  file,      \* what storage holds at each path
  ledger,    \* vault_media_upgrades.state, per path
  pc,        \* where each pass is
  todo,      \* slots of its listing it has not finished
  listed,    \* the paths it read when it listed them
  left,      \* files this pass could not call current: `pending` of the result
  report,    \* `pending` of the last finished pass, or NoReport
  del,       \* the delete request of each card: "no", "loaded", "wiped"
  delPath,   \* the paths that request read
  starts,    \* passes started so far
  retries    \* retry_failed calls so far

vars == <<origin, row, file, ledger, pc, todo, listed, left, report, del,
          delPath, starts, retries>>
passVars == <<pc, todo, listed, left, report>>
delVars == <<del, delPath>>
boundVars == <<starts, retries>>

Init ==
  /\ origin \in [Slots -> Objects \ {"torn"}]
  /\ row = [s \in Slots |-> Original(s)]
  /\ file = [p \in Paths |-> IF p.v2name THEN "absent" ELSE origin[p.slot]]
  /\ ledger = [p \in Paths |-> "none"]
  /\ pc = [w \in Passes |-> "idle"]
  /\ todo = [w \in Passes |-> {}]
  /\ listed = [w \in Passes |-> [s \in Slots |-> NoPath]]
  /\ left = [w \in Passes |-> 0]
  /\ report = NoReport
  /\ del = [c \in Cards |-> "no"]
  /\ delPath = [s \in Slots |-> NoPath]
  /\ starts = 0
  /\ retries = 0

Live == {s \in Slots : row[s] # NoPath}

(* Mutant: the listing stops one short of the limit.                        *)
ListsOneShort ==
  {s \in Live : Cardinality({t \in Live : t <= s}) < Limit}

(* Rows holding a file, oldest first, cut at the limit.  The header is not  *)
(* looked at here.                                                          *)
media_files_needing_upgrade ==
  {s \in Live : Cardinality({t \in Live : t <= s}) <= Limit}

Current(w) == CHOOSE s \in todo[w] : \A t \in todo[w] : s <= t
PathOf(w) == listed[w][Current(w)]

_record(p, state) == ledger' = [ledger EXCEPT ![p] = state]
Goto(w, label) == pc' = [pc EXCEPT ![w] = label]
Finish(w) == todo' = [todo EXCEPT ![w] = @ \ {Current(w)}]

CountPending(w) == left' = [left EXCEPT ![w] = @ + 1]

(* A pass starts and takes its list; the rows stay in its session.          *)
StartPass(w) ==
  /\ pc[w] = "idle"
  /\ starts < MaxStarts
  /\ starts' = starts + 1
  /\ todo' = [todo EXCEPT ![w] = media_files_needing_upgrade]
  /\ listed' = [listed EXCEPT ![w] = row]
  /\ left' = [left EXCEPT ![w] = 0]
  /\ Goto(w, "probe")
  /\ UNCHANGED <<origin, row, file, ledger, report, delVars, retries>>

(* A recorded failure is not tried again until the record is cleared.       *)
SkipFailed(w) ==
  /\ pc[w] = "probe" /\ todo[w] # {}
  /\ ledger[PathOf(w)] = "failed"
  /\ Finish(w)
  /\ UNCHANGED <<origin, row, file, ledger, pc, listed, left, report, delVars,
                 boundVars>>

(* No file at the path: counted as missing and recorded as a failure.       *)
ProbeMissing(w) ==
  /\ pc[w] = "probe" /\ todo[w] # {}
  /\ ledger[PathOf(w)] # "failed"
  /\ file[PathOf(w)] = "absent"
  /\ _record(PathOf(w), "failed")
  /\ Finish(w)
  /\ CountPending(w)
  /\ UNCHANGED <<origin, row, file, pc, listed, report, delVars, boundVars>>

(* Plain objects and v2 files are not this migration's business.            *)
ProbeCurrent(w) ==
  /\ pc[w] = "probe" /\ todo[w] # {}
  /\ ledger[PathOf(w)] # "failed"
  /\ file[PathOf(w)] # "absent"
  /\ seekable_envelope_version(file[PathOf(w)]) # 1
  /\ Finish(w)
  /\ UNCHANGED <<origin, row, file, ledger, pc, listed, left, report, delVars,
                 boundVars>>

(* A v1 object: the attempt is recorded before the work.                    *)
ProbeV1(w) ==
  /\ pc[w] = "probe" /\ todo[w] # {}
  /\ ledger[PathOf(w)] # "failed"
  /\ file[PathOf(w)] # "absent"
  /\ seekable_envelope_version(file[PathOf(w)]) = 1
  /\ _record(PathOf(w), "pending")
  /\ Goto(w, "rewrite")
  /\ UNCHANGED <<origin, row, file, todo, listed, left, report, delVars,
                 boundVars>>

(* Mutant: the old object is dropped as soon as its copy is written.        *)
RewriteInPlace(w) ==
  /\ pc[w] = "rewrite"
  /\ file[PathOf(w)] = "v1"
  /\ file' = [file EXCEPT ![upgraded_path(PathOf(w))] = "v2", ![PathOf(w)] = "absent"]
  /\ Goto(w, "repoint")
  /\ UNCHANGED <<origin, row, ledger, todo, listed, left, report, delVars,
                 boundVars>>

(* The new object is written in full beside the old one and read back.      *)
Rewrite(w) ==
  /\ pc[w] = "rewrite"
  /\ file[PathOf(w)] = "v1"
  /\ file' = [file EXCEPT ![upgraded_path(PathOf(w))] = "v2"]
  /\ Goto(w, "repoint")
  /\ UNCHANGED <<origin, row, ledger, todo, listed, left, report, delVars,
                 boundVars>>

(* The rewrite raises: the object went away meanwhile, a chunk does not     *)
(* verify, or the source ends before its claimed length (the target is      *)
(* then already written and stays there).                                   *)
RewriteFails(w) ==
  /\ pc[w] = "rewrite"
  /\ file[PathOf(w)] # "v1"
  /\ file' = IF file[PathOf(w)] = "short"
             THEN [file EXCEPT ![upgraded_path(PathOf(w))] = "torn"]
             ELSE file
  /\ _record(PathOf(w), "failed")
  /\ Finish(w)
  /\ CountPending(w)
  /\ Goto(w, "probe")
  /\ UNCHANGED <<origin, row, listed, report, delVars, boundVars>>

(* The row is pointed at the verified object and committed.                 *)
Repoint(w) ==
  /\ pc[w] = "repoint"
  /\ row[Current(w)] # NoPath
  /\ row' = [row EXCEPT ![Current(w)] = upgraded_path(PathOf(w))]
  /\ CountPending(w)
  /\ Goto(w, "mark")
  /\ UNCHANGED <<origin, file, ledger, todo, listed, report, delVars, boundVars>>

(* The commit fails (a deleted row matches no UPDATE; any database error):  *)
(* rolled back and recorded as a failure.                                   *)
RepointFails(w) ==
  /\ pc[w] = "repoint"
  /\ _record(PathOf(w), "failed")
  /\ Finish(w)
  /\ CountPending(w)
  /\ Goto(w, "probe")
  /\ UNCHANGED <<origin, row, file, listed, report, delVars, boundVars>>

MarkDone(w) ==
  /\ pc[w] = "mark"
  /\ _record(PathOf(w), "done")
  /\ Goto(w, "drop")
  /\ UNCHANGED <<origin, row, file, todo, listed, left, report, delVars,
                 boundVars>>

(* The superseded object goes last; a storage error leaves it as litter.    *)
DropOld(w) ==
  /\ pc[w] = "drop"
  /\ \/ file' = [file EXCEPT ![PathOf(w)] = "absent"]
     \/ UNCHANGED file
  /\ Finish(w)
  /\ Goto(w, "probe")
  /\ UNCHANGED <<origin, row, ledger, listed, left, report, delVars, boundVars>>

FinishPass(w) ==
  /\ pc[w] = "probe" /\ todo[w] = {}
  /\ report' = left[w]
  /\ Goto(w, "idle")
  /\ UNCHANGED <<origin, row, file, ledger, todo, listed, left, delVars,
                 boundVars>>

(* The process is killed: storage and the committed rows stay as they are.  *)
Crash(w) ==
  /\ pc[w] # "idle"
  /\ Goto(w, "idle")
  /\ todo' = [todo EXCEPT ![w] = {}]
  /\ UNCHANGED <<origin, row, file, ledger, listed, left, report, delVars,
                 boundVars>>

(* --retry-failed: failures become pending again, and whatever the last     *)
(* pass reported no longer describes the ledger.                            *)
retry_failed ==
  /\ retries < MaxRetries
  /\ \E p \in Paths : ledger[p] = "failed"
  /\ ledger' = [p \in Paths |-> IF ledger[p] = "failed" THEN "pending" ELSE ledger[p]]
  /\ retries' = retries + 1
  /\ report' = NoReport
  /\ UNCHANGED <<origin, row, file, pc, todo, listed, left, delVars, starts>>

(* The web process deletes a card: it reads the row, removes the files the  *)
(* row named then (a storage error keeps a file), and deletes the row last. *)
LoadForDelete(c) ==
  /\ del[c] = "no"
  /\ \E s \in Live : CardOf[s] = c
  /\ del' = [del EXCEPT ![c] = "loaded"]
  /\ delPath' = [s \in Slots |-> IF CardOf[s] = c THEN row[s] ELSE delPath[s]]
  /\ UNCHANGED <<origin, row, file, ledger, passVars, boundVars>>

DeleteFiles(c) ==
  /\ del[c] = "loaded"
  /\ \E kept \in SUBSET Slots :
       file' = [p \in Paths |->
                  IF CardOf[p.slot] = c /\ p = delPath[p.slot] /\ p.slot \notin kept
                  THEN "absent" ELSE file[p]]
  /\ del' = [del EXCEPT ![c] = "wiped"]
  /\ UNCHANGED <<origin, row, ledger, passVars, delPath, boundVars>>

DeleteRow(c) ==
  /\ del[c] = "wiped"
  /\ row' = [s \in Slots |-> IF CardOf[s] = c THEN NoPath ELSE row[s]]
  /\ del' = [del EXCEPT ![c] = "no"]
  /\ UNCHANGED <<origin, file, ledger, passVars, delPath, boundVars>>

PassStep(w) ==
  \/ SkipFailed(w) \/ ProbeMissing(w) \/ ProbeCurrent(w) \/ ProbeV1(w)
  \/ Rewrite(w) \/ RewriteFails(w) \/ Repoint(w) \/ RepointFails(w)
  \/ MarkDone(w) \/ DropOld(w) \/ FinishPass(w)

Next ==
  \/ \E w \in Passes : StartPass(w) \/ PassStep(w) \/ Crash(w)
  \/ retry_failed
  \/ \E c \in Cards : LoadForDelete(c) \/ DeleteFiles(c) \/ DeleteRow(c)

Spec == Init /\ [][Next]_vars

(***************************************************************************)
(* Properties                                                              *)
(***************************************************************************)

TypeOK ==
  /\ origin \in [Slots -> Objects \ {"torn"}]
  /\ row \in [Slots -> Paths \cup {NoPath}]
  /\ file \in [Paths -> Objects]
  /\ ledger \in [Paths -> {"none", "pending", "done", "failed"}]
  /\ pc \in [Passes -> {"idle", "probe", "rewrite", "repoint", "mark", "drop"}]
  /\ todo \in [Passes -> SUBSET Slots]
  /\ listed \in [Passes -> [Slots -> Paths \cup {NoPath}]]
  /\ left \in [Passes -> Nat]
  /\ report \in Nat \cup {NoReport}
  /\ del \in [Cards -> {"no", "loaded", "wiped"}]
  /\ delPath \in [Slots -> Paths \cup {NoPath}]
  /\ starts \in 0..MaxStarts
  /\ retries \in 0..MaxRetries

(* "Every crash between the steps leaves a file that still opens, never a   *)
(* row pointing at nothing" (media_upgrade.py:12): whatever two passes, a   *)
(* kill and a concurrent delete do, a row that is not being deleted names   *)
(* the object it started with, or that object's verified v2 copy.           *)
RowKeepsItsFile ==
  \A s \in Slots :
    (row[s] # NoPath /\ del[CardOf[s]] # "wiped") =>
      \/ row[s] = Original(s) /\ file[row[s]] = origin[s]
      \/ origin[s] = "v1" /\ file[row[s]] = "v2"

(* A finished rewrite is final: no later pass, retry or stale listing moves *)
(* a row back from its v2 copy (media_upgrade.py:15, "idempotent").         *)
NeverBackToV1 ==
  [][\A s \in Slots : row[s] \in Paths /\ row[s].v2name =>
       row'[s] = NoPath \/ row'[s] = row[s]]_vars

(* The ledger's "done" is the truth about a file that was really moved: no  *)
(* row still names a path recorded as done.                                 *)
DoneIsMoved ==
  \A s \in Slots : row[s] # NoPath => ledger[row[s]] # "done"

(* "Run it again until it reports nothing pending" (vault_media_migrate.py: *)
(* 15): when a pass reports nothing pending, no row is left on a v1 file    *)
(* that was not recorded as a failure.  This is until failures are tried    *)
(* again: a pass under way may have skipped one that --retry-failed clears. *)
ReportIsFinal ==
  report = 0 /\ retries = 0 =>
    \A s \in Slots : row[s] # NoPath /\ ledger[row[s]] # "failed" =>
      file[row[s]] \notin {"v1", "keyed", "short"}

(* What opening each slot gives: nothing once its card's files are being    *)
(* removed, else the object its row names.                                  *)
Opened ==
  [s \in Slots |->
     IF row[s] = NoPath \/ del[CardOf[s]] = "wiped" THEN "gone" ELSE file[row[s]]]

Files == INSTANCE CardFiles
           WITH content <- Opened, Contents <- Objects \ {"torn"}

(* The whole migration, its kills, retries, stale listings and races with   *)
(* deletes included, is seen by a reader as the abstract store of CardFiles:*)
(* each slot gives its original, then at most once its v2 copy, until its   *)
(* card goes ("safe to interrupt" and "safe to run twice",                  *)
(* vault_media_migrate.py:5).                                               *)
ReadersSeeOneFile == Files!Spec
=============================================================================
