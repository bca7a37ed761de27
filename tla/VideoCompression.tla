-------------------------- MODULE VideoCompression -------------------------
(***************************************************************************)
(* The optimization of archived videos (video_archiver/compression.py): a  *)
(* batch, started by the owner and carried out by a Celery worker under a  *)
(* Redis lease, re-encodes each video that is not done, stores the result  *)
(* as a new object, moves the row over to it and drops the old object.     *)
(*                                                                         *)
(* A row update of one statement is one step, as is a call to the storage. *)
(* A worker that dies leaves its message to be delivered again (acks_late),*)
(* or takes it along when only the child that ran it was killed; its lease,*)
(* without a heartbeat, runs out.                                          *)
(***************************************************************************)
EXTENDS Integers, FiniteSets

CONSTANTS Videos,
          Compressors,    \* the workers
          MaxBatches,     \* how often the owner starts a batch
          MaxObjects,     \* how many results are stored
          MaxDeaths,      \* workers that die
          MaxLeaseLosses  \* leases Redis loses although they are held

ASSUME CompressionAssumption ==
    /\ MaxBatches \in Nat /\ MaxObjects \in Nat /\ MaxDeaths \in Nat /\ MaxLeaseLosses \in Nat
    /\ IsFiniteSet(Videos)

VARIABLES archive,     \* the rows: file_path, compression_status, the old path it notes
          stored,      \* the objects in the storage
          objects,     \* how many results were stored so far
          lease,       \* COMPRESSION_LOCK_KEY
          batches,     \* how many batches were started
          delivery,    \* batches whose message is with the broker
          cancelAsked, \* video_compress_cancel
          compressor,  \* what a worker is at
          deaths, leaseLosses

compressionVars == <<archive, stored, objects, lease, batches, delivery, cancelAsked,
                     compressor, deaths, leaseLosses>>

\* An object is the video it is of and its number; 0 is the one downloaded.
Objects == Videos \X (0..MaxObjects)
Original(v) == <<v, 0>>
NoObject == <<>>
Deleted == [path |-> NoObject, status |-> "deleted", old |-> NoObject]
NoLease == [kind |-> "free"]
Resting == [at |-> "idle", batch |-> 0, todo |-> {}, video |-> NoObject,
            expected |-> NoObject, result |-> NoObject]

Archived(v) == archive[v].status # "deleted"
Moves(w, at) == compressor' = [compressor EXCEPT ![w].at = at]
Row(v, row) == archive' = [archive EXCEPT ![v] = row]

-----------------------------------------------------------------------------
\* The owner: POST compress-all, the cancel endpoints, delete_video.
compress_all ==
    /\ batches < MaxBatches /\ lease = NoLease
    /\ batches' = batches + 1
    /\ lease' = [kind |-> "queued", batch |-> batches']
    /\ delivery' = delivery \cup {batches'}
    /\ UNCHANGED <<archive, stored, objects, cancelAsked, compressor, deaths, leaseLosses>>

cancel_batch(b) ==
    /\ b \notin cancelAsked
    /\ cancelAsked' = cancelAsked \cup {b}
    /\ UNCHANGED <<archive, stored, objects, lease, batches, delivery, compressor, deaths, leaseLosses>>

\* The row is locked from its read to the commit.
delete_video(v) ==
    /\ Archived(v)
    /\ stored' = stored \ {archive[v].path}
    /\ Row(v, Deleted)
    /\ UNCHANGED <<objects, lease, batches, delivery, cancelAsked, compressor, deaths, leaseLosses>>

-----------------------------------------------------------------------------
\* A worker takes a message.  Only the batch the lock names, or a free lock,
\* lets it go on; a delivery that is refused is over.
Finished == {"completed", "skipped"}
compression_candidate_ids == {v \in Videos : Archived(v) /\ archive[v].status \notin Finished}

run_compression_batch(w, b) ==
    /\ compressor[w].at = "idle" /\ b \in delivery
    /\ delivery' = delivery \ {b}
    /\ IF lease = NoLease \/ lease = [kind |-> "queued", batch |-> b]
       THEN /\ lease' = [kind |-> "held", by |-> w]
            /\ compressor' = [compressor EXCEPT ![w] =
                 [Resting EXCEPT !.at = "next", !.batch = b, !.todo = compression_candidate_ids]]
       ELSE UNCHANGED <<lease, compressor>>
    /\ UNCHANGED <<archive, stored, objects, batches, cancelAsked, deaths, leaseLosses>>

\* The batch ends: all done, or cancelled.
BatchEnds(w) ==
    /\ compressor[w].at = "next"
    /\ compressor[w].todo = {} \/ compressor[w].batch \in cancelAsked
    /\ cancelAsked' = cancelAsked \ {compressor[w].batch}
    /\ lease' = IF lease = [kind |-> "held", by |-> w] THEN NoLease ELSE lease
    /\ compressor' = [compressor EXCEPT ![w] = Resting]
    /\ UNCHANGED <<archive, stored, objects, batches, delivery, deaths, leaseLosses>>

Goes(w) == UNCHANGED <<objects, lease, batches, delivery, cancelAsked, deaths, leaseLosses>>

\* optimize_video: a row in the middle of a switch is finished, any other claimed.
optimize_video(w, v) ==
    LET c == compressor[w]
        then == [c EXCEPT !.todo = @ \ {v}]
    IN /\ c.at = "next" /\ v \in c.todo
       /\ IF ~Archived(v)
          THEN compressor' = [compressor EXCEPT ![w] = then] /\ UNCHANGED archive
          ELSE IF archive[v].status = "switching"
          THEN /\ compressor' = [compressor EXCEPT ![w] = [then EXCEPT
                     !.at = "switched", !.video = v,
                     !.expected = archive[v].old, !.result = archive[v].path]]
               /\ UNCHANGED archive
          ELSE /\ Row(v, [archive[v] EXCEPT !.status = "running", !.old = NoObject])
               /\ compressor' = [compressor EXCEPT ![w] = [then EXCEPT
                     !.at = "encoding", !.video = v, !.expected = archive[v].path, !.result = NoObject]]
       /\ UNCHANGED stored /\ Goes(w)

\* _set_result is refused unless the row is as it was claimed.
Claimed(w) == LET row == archive[compressor[w].video]
              IN row.path = compressor[w].expected /\ row.status = "running"
_set_result(w, status) ==
    IF Claimed(w)
    THEN archive' = [archive EXCEPT ![compressor[w].video].status = status]
    ELSE UNCHANGED archive

\* The encoding is not smaller, or fails, or the source is gone.
EncodingEnds(w, status) ==
    /\ compressor[w].at = "encoding"
    /\ status = "skipped" => compressor[w].expected \in stored
    /\ _set_result(w, status)
    /\ Moves(w, "next")
    /\ UNCHANGED stored /\ Goes(w)

\* The owner cancels, seen before or after the new object is stored.
Cancels(w) ==
    /\ compressor[w].at \in {"encoding", "saved"} /\ compressor[w].batch \in cancelAsked
    /\ stored' = stored \ {compressor[w].result}
    /\ _set_result(w, "cancelled")
    /\ compressor' = [compressor EXCEPT ![w].at = "next", ![w].todo = {}]
    /\ Goes(w)

SavesObject(w) ==
    /\ compressor[w].at = "encoding" /\ compressor[w].expected \in stored
    /\ objects < MaxObjects
    /\ objects' = objects + 1
    /\ LET new == <<compressor[w].video, objects'>>
       IN /\ stored' = stored \cup {new}
          /\ compressor' = [compressor EXCEPT ![w].at = "saved", ![w].result = new]
    /\ UNCHANGED <<archive, lease, batches, delivery, cancelAsked, deaths, leaseLosses>>

\* Mutant: the row is moved over whoever has changed it since the claim.
SwitchesBlindly(w) ==
    /\ compressor[w].at = "saved"
    /\ Archived(compressor[w].video)
    /\ Row(compressor[w].video, [path |-> compressor[w].result, status |-> "switching",
                                 old |-> compressor[w].expected])
    /\ Moves(w, "switched") /\ UNCHANGED stored /\ Goes(w)

\* The row goes over to the new object, or the new object goes.
Switches(w) ==
    LET c == compressor[w]
    IN /\ c.at = "saved"
       /\ IF Claimed(w)
          THEN /\ Row(c.video, [path |-> c.result, status |-> "switching", old |-> c.expected])
               /\ Moves(w, "switched") /\ UNCHANGED stored
          ELSE stored' = stored \ {c.result} /\ Moves(w, "next") /\ UNCHANGED archive
       /\ Goes(w)

\* _finish_switch, when the new object is there and when it is not.
Switching(w) == LET row == archive[compressor[w].video]
                IN row.path = compressor[w].result /\ row.status = "switching"

_finish_switch(w) ==
    LET c == compressor[w]
        there == c.result \in stored
    IN /\ c.at = "switched"
       /\ IF ~Switching(w) THEN UNCHANGED archive
          ELSE IF there THEN Row(c.video, [archive[c.video] EXCEPT !.status = "completed"])
          ELSE Row(c.video, [path |-> c.expected, status |-> "failed", old |-> NoObject])
       /\ Moves(w, IF Switching(w) /\ there THEN "settled" ELSE "next")
       /\ UNCHANGED stored /\ Goes(w)

DropsOld(w) ==
    /\ compressor[w].at = "settled"
    /\ stored' = stored \ {compressor[w].expected}
    /\ Moves(w, "next")
    /\ UNCHANGED archive /\ Goes(w)

-----------------------------------------------------------------------------
\* A worker dies; its message comes back or is lost with it, its lease stays.
CompressorDies(w) ==
    /\ compressor[w].at # "idle" /\ deaths < MaxDeaths
    /\ deaths' = deaths + 1
    /\ delivery' \in {delivery, delivery \cup {compressor[w].batch}}
    /\ compressor' = [compressor EXCEPT ![w] = Resting]
    /\ UNCHANGED <<archive, stored, objects, lease, batches, cancelAsked, leaseLosses>>

\* COMPRESSION_LOCK_TTL runs out while nobody refreshes, or Redis loses the key.
Refreshed == lease.kind = "held" /\ compressor[lease.by].at # "idle"
LeaseExpires ==
    /\ lease # NoLease
    /\ Refreshed => leaseLosses < MaxLeaseLosses
    /\ leaseLosses' = IF Refreshed THEN leaseLosses + 1 ELSE leaseLosses
    /\ lease' = NoLease
    /\ UNCHANGED <<archive, stored, objects, batches, delivery, cancelAsked, compressor, deaths>>

CompressionInit ==
    /\ archive = [v \in Videos |-> [path |-> Original(v), status |-> "none", old |-> NoObject]]
    /\ stored = {Original(v) : v \in Videos}
    /\ objects = 0 /\ lease = NoLease /\ batches = 0 /\ delivery = {} /\ cancelAsked = {}
    /\ compressor = [w \in Compressors |-> Resting]
    /\ deaths = 0 /\ leaseLosses = 0

CompressionSteps(w) ==
    \/ \E b \in delivery : run_compression_batch(w, b)
    \/ BatchEnds(w) \/ Cancels(w) \/ SavesObject(w) \/ Switches(w)
    \/ _finish_switch(w) \/ DropsOld(w)
    \/ \E v \in Videos : optimize_video(w, v)
    \/ \E status \in {"skipped", "failed"} : EncodingEnds(w, status)

CompressionNext ==
    \/ \E w \in Compressors : CompressionSteps(w) \/ CompressorDies(w)
    \/ compress_all \/ LeaseExpires
    \/ \E b \in 1..batches : cancel_batch(b)
    \/ \E v \in Videos : delete_video(v)

CompressionSpec == CompressionInit /\ [][CompressionNext]_compressionVars

-----------------------------------------------------------------------------
(* Rows, objects, lease and workers have their types.                         *)
CompressionTypeOK ==
    /\ \A v \in Videos : /\ archive[v].path \in Objects \cup {NoObject}
                         /\ archive[v].old \in Objects \cup {NoObject}
                         /\ archive[v].status \in Finished \cup
                              {"none", "running", "switching", "failed", "cancelled", "deleted"}
    /\ stored \subseteq Objects /\ objects \in 0..MaxObjects
    /\ batches \in 0..MaxBatches /\ delivery \subseteq 1..batches /\ cancelAsked \subseteq 1..batches
    /\ \A w \in Compressors : compressor[w].at \in
          {"idle", "next", "encoding", "saved", "switched", "settled"}
    /\ deaths \in 0..MaxDeaths /\ leaseLosses \in 0..MaxLeaseLosses

(* The object a row names is in the storage, whatever batches overlap, die in *)
(* the middle of a switch, are cancelled or are delivered a second time.      *)
RowNamesItsVideo == \A v \in Videos : Archived(v) => archive[v].path \in stored

(* When no worker is at a video and none has died, the storage holds the one  *)
(* object its row names: a batch that is cancelled, finds nothing to gain or  *)
(* loses the row to another leaves no object behind.                          *)
NothingLeftBehind ==
    (deaths = 0 /\ \A w \in Compressors : compressor[w].at \in {"idle", "next"}) =>
        \A v \in Videos : Archived(v) =>
            {o \in stored : o[1] = v} = {archive[v].path}

(* Both: the storage holds what every row names, and nothing besides once the *)
(* batches are at rest.                                                       *)
VideosAreKept == RowNamesItsVideo /\ NothingLeftBehind
=============================================================================
