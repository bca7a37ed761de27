------------------------------ MODULE VaultMedia ----------------------------
(***************************************************************************)
(* The video a sealed card owns: the download that brings it in, the blind *)
(* key it waits under while the vault is locked, and the finalize that     *)
(* re-seals it under the space's file key (app/modules/vault/tasks.py,     *)
(* services.py, the video endpoints of router.py).                         *)
(*                                                                         *)
(* Web requests and workers share the row and the storage volume, each in  *)
(* short transactions of its own.  Celery acknowledges a task after it ran *)
(* (task_acks_late): when a worker dies as a whole its task is delivered   *)
(* again, and when only the process running it does, the task is lost.     *)
(* An UPDATE writes the columns the session saw change, and no others.     *)
(***************************************************************************)
EXTENDS Integers, FiniteSets

CONSTANTS Cards,       \* sealed video cards
          Spaces,      \* sealed spaces
          Downloads,   \* slots for download_vault_video_task
          Finals,      \* slots for finalize_blind_media_task
          Files,       \* bound: file names, each as fresh as a random one
          NoFile, NoKey, InTheClear,
          OneAtATime,  \* a card has at most one download under way
          MaxCrashes,  \* bound: workers that die
          Allowed      \* the requests in this run, a subset of Requests

Requests == {"capture", "retry", "dispatchFails", "lock", "delete", "move"}

ASSUME FilesAssumption == IsFiniteSet(Files) /\ NoFile \notin Files
ASSUME ConstantsAssumption == /\ MaxCrashes \in Nat
                              /\ OneAtATime \in BOOLEAN
                              /\ Allowed \subseteq Requests
                              /\ Cards # {} /\ Spaces # {}

(* A file is under the key of a space, under a blind key minted for it (and *)
(* wrapped for the space it was minted in), or in the clear.                *)
SpaceKey(s) == [space |-> s, blind |-> NoFile]
BlindKey(s, f) == [space |-> s, blind |-> f]
Keys == [space : Spaces, blind : Files \cup {NoFile}]

ASSUME KeysAssumption == NoKey \notin Keys \cup {InTheClear} /\ InTheClear \notin Keys

VARIABLES row,       \* the card's row: space, path, wrap, media_status, life
          disk,      \* what storage holds: a key per file, or NoKey if absent
          open,      \* the spaces whose session is alive
          capturing, \* captures that have not written media_status yet
          dl,        \* download tasks and the workers running them
          fin,       \* finalize tasks and the workers running them
          crashes

vars == <<row, disk, open, capturing, dl, fin, crashes>>

Statuses == {"new", "queued", "not queued", "downloading", "error", "blind",
             "completed"}
NoRow == [space |-> CHOOSE s \in Spaces : TRUE, path |-> NoFile, wrap |-> NoKey,
          status |-> "new", life |-> "absent"]
NoTask == [at |-> "none", card |-> CHOOSE c \in Cards : TRUE, lends |-> FALSE,
           handoff |-> FALSE, key |-> NoKey, wrap |-> NoKey, file |-> NoFile,
           seen |-> NoRow]
NoFinal == [at |-> "none", space |-> CHOOSE s \in Spaces : TRUE, todo |-> {},
            now |-> [card |-> NoTask.card, path |-> NoFile, wrap |-> NoKey],
            file |-> NoFile, seen |-> NoRow]

There(c) == row[c].life \in {"there", "deleting"}
Fresh == {f \in Files : /\ disk[f] = NoKey
                        /\ \A c \in Cards : row[c].path # f
                        /\ \A d \in Downloads : dl[d].file # f
                        /\ \A n \in Finals : fin[n].file # f /\ fin[n].now.path # f}

Init == /\ row = [c \in Cards |-> IF "capture" \in Allowed THEN NoRow
                                  ELSE [NoRow EXCEPT !.life = "there"]]
        /\ disk = [f \in Files |-> NoKey]
        /\ open = Spaces
        /\ capturing = {}
        /\ dl = [d \in Downloads |-> NoTask]
        /\ fin = [n \in Finals |-> NoFinal]
        /\ crashes = 0

(* What the row holds after a session that loaded it as "seen" and set it   *)
(* to "new" commits: the columns it saw change, over what is there by then. *)
Flush(c, seen, new) ==
    [row EXCEPT ![c] = [x \in DOMAIN new |->
        IF new[x] # seen[x] THEN new[x] ELSE row[c][x]]]

_record_status(c, status) ==
    row' = IF There(c) THEN [row EXCEPT ![c].status = status] ELSE row

-----------------------------------------------------------------------------
(* Queueing a download: a handoff in Redis, then a task in the broker.      *)
queue_video_download(d, c, lends) ==
    /\ dl[d].at = "none"
    /\ OneAtATime => \A e \in Downloads : dl[e].at # "none" => dl[e].card # c
    /\ dl' = [dl EXCEPT ![d] = [NoTask EXCEPT !.at = "queued", !.card = c,
                                              !.lends = lends, !.handoff = TRUE]]

(* A capture stores the card, queues the download without a token, and only *)
(* then writes media_status.                                                *)
create_video_capture_item(c, d) ==
    /\ "capture" \in Allowed
    /\ row[c].life = "absent"
    /\ row' = [row EXCEPT ![c].life = "there"]
    /\ queue_video_download(d, c, FALSE)
    /\ capturing' = capturing \cup {c}
    /\ UNCHANGED <<disk, open, fin, crashes>>

CaptureEnds(c) ==
    /\ c \in capturing
    /\ capturing' = capturing \ {c}
    /\ _record_status(c, "queued")
    /\ UNCHANGED <<disk, open, dl, fin, crashes>>

(* "Retry" of a card without a blind file: the status goes to "queued", and *)
(* then the download is queued with the tab's token, or cannot be.          *)
MayRetry(c) == "retry" \in Allowed /\ There(c) /\ row[c].wrap = NoKey /\ row[c].space \in open
retry_video_download(c, d) ==
    /\ MayRetry(c)
    /\ _record_status(c, "queued")
    /\ queue_video_download(d, c, TRUE)
    /\ UNCHANGED <<disk, open, capturing, fin, crashes>>

RetryNotQueued(c) ==
    /\ MayRetry(c)
    /\ "dispatchFails" \in Allowed
    /\ _record_status(c, "queued")
    /\ UNCHANGED <<disk, open, capturing, dl, fin, crashes>>

-----------------------------------------------------------------------------
(* The worker takes the handoff, once; without it there is nothing to do.   *)
OnlyDownload == UNCHANGED <<open, capturing, fin, crashes>>
TakeHandoff(d) ==
    /\ dl[d].at = "queued"
    /\ dl[d].handoff
    /\ dl' = [dl EXCEPT ![d].at = "fetching", ![d].handoff = FALSE]
    /\ _record_status(dl[d].card, "downloading")
    /\ UNCHANGED disk
    /\ OnlyDownload

(* Mutant: a task without its handoff ends and says nothing.                *)
FailsInSilence(d) ==
    /\ \/ dl[d].at \in {"fetching", "keyed"}
       \/ dl[d].at = "queued" /\ ~dl[d].handoff
    /\ dl' = [dl EXCEPT ![d].at = "acking"]
    /\ UNCHANGED <<row, disk>>
    /\ OnlyDownload

(* Mutant: a status the page does not know.                                 *)
FailsAsFailed(d) ==
    /\ \/ dl[d].at \in {"fetching", "keyed"}
       \/ dl[d].at = "queued" /\ ~dl[d].handoff
    /\ dl' = [dl EXCEPT ![d].at = "acking"]
    /\ _record_status(dl[d].card, "failed")
    /\ UNCHANGED disk
    /\ OnlyDownload

(* Nothing fetched, nothing stored, or no handoff to work from.              *)
DownloadFails(d) ==
    /\ \/ dl[d].at \in {"fetching", "keyed"}
       \/ dl[d].at = "queued" /\ ~dl[d].handoff
    /\ dl' = [dl EXCEPT ![d].at = "acking"]
    /\ _record_status(dl[d].card, "error")
    /\ UNCHANGED disk
    /\ OnlyDownload

(* The handoff's TTL runs out before a worker takes it.                     *)
HandoffExpires(d) ==
    /\ dl[d].at = "queued"
    /\ dl[d].handoff
    /\ dl' = [dl EXCEPT ![d].handoff = FALSE]
    /\ UNCHANGED <<row, disk>>
    /\ OnlyDownload

(* The bytes are here: a session of its own looks up whether the card is     *)
(* sealed, and in which space.                                              *)
LookUpCard(d) ==
    /\ dl[d].at = "fetching"
    /\ dl' = [dl EXCEPT ![d].at = "found", ![d].seen = row[dl[d].card]]
    /\ UNCHANGED <<row, disk>>
    /\ OnlyDownload

(* resolve_download_file_key: the borrowed token, on the card as it is now. *)
HasFileKey(d) ==
    LET c == dl[d].card IN dl[d].lends /\ There(c) /\ row[c].space \in open

Found(d) == dl[d].seen.life \in {"there", "deleting"}

(* With the space's session the file gets its file key, else a blind one,   *)
(* wrapped for the space that was looked up.  A row that was gone by then   *)
(* counts as not sealed.                                                    *)
PickKey(d) ==
    LET blind == Found(d) /\ ~HasFileKey(d)
        s == dl[d].seen.space
    IN
    /\ dl[d].at = "found"
    /\ \E f \in Fresh :
         dl' = [dl EXCEPT ![d] =
             [@ EXCEPT !.at = "keyed", !.file = f, !.seen = NoRow,
                       !.key = IF ~Found(d) THEN InTheClear
                               ELSE IF blind THEN BlindKey(s, f)
                               ELSE SpaceKey(row[dl[d].card].space),
                       !.wrap = IF blind THEN BlindKey(s, f) ELSE NoKey]]
    /\ UNCHANGED <<row, disk>>
    /\ OnlyDownload

SaveFile(d) ==
    /\ dl[d].at = "keyed"
    /\ disk' = [disk EXCEPT ![dl[d].file] = dl[d].key]
    /\ dl' = [dl EXCEPT ![d].at = "stored"]
    /\ UNCHANGED row
    /\ OnlyDownload

(* The last transaction loads the row and attaches the file to it.          *)
LoadRow(d) ==
    LET c == dl[d].card IN
    /\ dl[d].at = "stored"
    /\ dl' = [dl EXCEPT ![d].at = IF There(c) THEN "loaded" ELSE "acking", ![d].seen = row[c]]
    /\ UNCHANGED <<row, disk>>
    /\ OnlyDownload

attach_downloaded_media(d) ==
    LET c == dl[d].card
        attached == [dl[d].seen EXCEPT !.path = dl[d].file, !.wrap = dl[d].wrap,
                        !.status = IF dl[d].wrap # NoKey THEN "blind" ELSE "completed"]
    IN
    /\ dl[d].at = "loaded"
    /\ dl' = [dl EXCEPT ![d].at = "acking"]
    /\ row' = IF There(c) THEN Flush(c, dl[d].seen, attached) ELSE row
    /\ UNCHANGED disk
    /\ OnlyDownload

Acknowledge(d) ==
    /\ dl[d].at = "acking"
    /\ dl' = [dl EXCEPT ![d] = NoTask]
    /\ UNCHANGED <<row, disk>>
    /\ OnlyDownload

(* Dead before the acknowledgement: delivered again, its handoff used up, or *)
(* lost with the process that ran it (no task_reject_on_worker_lost).        *)
WorkerDies(d) ==
    /\ crashes < MaxCrashes
    /\ dl[d].at \notin {"none", "queued"}
    /\ crashes' = crashes + 1
    /\ \E again \in {NoTask, [NoTask EXCEPT !.at = "queued", !.card = dl[d].card,
                                             !.lends = dl[d].lends]} :
         dl' = [dl EXCEPT ![d] = again]
    /\ UNCHANGED <<row, disk, open, capturing, fin>>

-----------------------------------------------------------------------------
(* An unlock, or a retry of a blind card, queues a finalize for the space   *)
(* and lends it the tab's token.                                            *)
OnlyFinalize == UNCHANGED <<open, capturing, dl, crashes>>
queue_finalize_blind_media(n, s) ==
    /\ fin[n].at = "none"
    /\ s \in open
    /\ \E c \in Cards : There(c) /\ row[c].space = s /\ row[c].wrap # NoKey
    /\ fin' = [fin EXCEPT ![n].at = "queued", ![n].space = s]
    /\ UNCHANGED <<row, disk>>
    /\ OnlyFinalize

(* The session is read once, then the blind rows are listed.                *)
FinalLists(n) ==
    /\ fin[n].at = "queued"
    /\ fin[n].space \in open
    /\ fin' = [fin EXCEPT ![n].at = "listed",
           ![n].todo = {[card |-> c, path |-> row[c].path, wrap |-> row[c].wrap] :
                        c \in {k \in Cards : /\ There(k)
                                             /\ row[k].space = fin[n].space
                                             /\ row[k].wrap # NoKey}}]
    /\ UNCHANGED <<row, disk>>
    /\ OnlyFinalize

(* A wrap opens in the space it was made for, a file under its own key;     *)
(* anything else is logged and skipped.                                     *)
Opens(n, x) == x.wrap.space = fin[n].space /\ disk[x.path] = x.wrap
FinalSkips(n) ==
    /\ fin[n].at = "listed"
    /\ \E x \in fin[n].todo : /\ ~Opens(n, x)
                              /\ fin' = [fin EXCEPT ![n].todo = @ \ {x}]
    /\ UNCHANGED <<row, disk>>
    /\ OnlyFinalize

FinalReseals(n) ==
    /\ fin[n].at = "listed"
    /\ \E x \in fin[n].todo, f \in Fresh :
         /\ Opens(n, x)
         /\ disk' = [disk EXCEPT ![f] = SpaceKey(fin[n].space)]
         /\ fin' = [fin EXCEPT ![n] = [@ EXCEPT !.at = "resealed", !.now = x, !.file = f,
                                                !.todo = fin[n].todo \ {x}]]
    /\ UNCHANGED row
    /\ OnlyFinalize

(* Mutant: only whether the row is still there is looked at again.          *)
ChecksWrapOnly(n) ==
    LET c == fin[n].now.card IN
    /\ fin[n].at = "resealed"
    /\ fin' = [fin EXCEPT ![n].at =
           IF There(c) THEN "checked" ELSE "listed", ![n].seen = row[c]]
    /\ UNCHANGED <<row, disk>>
    /\ OnlyFinalize

(* The row is read again, and left alone if it moved on.                    *)
FinalChecks(n) ==
    LET c == fin[n].now.card IN
    /\ fin[n].at = "resealed"
    /\ fin' = [fin EXCEPT ![n].at =
           IF There(c) /\ row[c].wrap # NoKey /\ row[c].path = fin[n].now.path
           THEN "checked" ELSE "listed", ![n].seen = row[c]]
    /\ UNCHANGED <<row, disk>>
    /\ OnlyFinalize

(* Mutant: the wrap is left in the row.                                     *)
CommitsKeepWrap(n) ==
    LET c == fin[n].now.card
        done == [fin[n].seen EXCEPT !.path = fin[n].file, !.status = "completed"]
    IN
    /\ fin[n].at = "checked"
    /\ row' = IF There(c) THEN Flush(c, fin[n].seen, done) ELSE row
    /\ fin' = [fin EXCEPT ![n].at = IF There(c) THEN "committed" ELSE "listed"]
    /\ UNCHANGED disk
    /\ OnlyFinalize

FinalCommits(n) ==
    LET c == fin[n].now.card
        done == [fin[n].seen EXCEPT !.path = fin[n].file, !.wrap = NoKey,
                                    !.status = "completed"]
    IN
    /\ fin[n].at = "checked"
    /\ row' = IF There(c) THEN Flush(c, fin[n].seen, done) ELSE row
    /\ fin' = [fin EXCEPT ![n].at = IF There(c) THEN "committed" ELSE "listed"]
    /\ UNCHANGED disk
    /\ OnlyFinalize

(* Mutant: what is dropped is the file the row names by then.               *)
DropsTheNewFile(n) ==
    LET f == row[fin[n].now.card].path IN
    /\ fin[n].at = "committed"
    /\ f # NoFile
    /\ disk' = [disk EXCEPT ![f] = NoKey]
    /\ fin' = [fin EXCEPT ![n].at = "listed"]
    /\ UNCHANGED row
    /\ OnlyFinalize

FinalDrops(n) ==
    /\ fin[n].at = "committed"
    /\ disk' = [disk EXCEPT ![fin[n].now.path] = NoKey]
    /\ fin' = [fin EXCEPT ![n].at = "listed"]
    /\ UNCHANGED row
    /\ OnlyFinalize

(* Done, or too late: the session was gone before the task ran.             *)
FinalEnds(n) ==
    /\ \/ fin[n].at = "listed" /\ fin[n].todo = {}
       \/ fin[n].at = "queued" /\ fin[n].space \notin open
    /\ fin' = [fin EXCEPT ![n] = NoFinal]
    /\ UNCHANGED <<row, disk>>
    /\ OnlyFinalize

(* Delivered again, a finalize finds its handoff gone and ends; or it is lost. *)
FinalDies(n) ==
    /\ crashes < MaxCrashes
    /\ fin[n].at \notin {"none", "queued"}
    /\ crashes' = crashes + 1
    /\ fin' = [fin EXCEPT ![n] = NoFinal]
    /\ UNCHANGED <<row, disk, open, capturing, dl>>

-----------------------------------------------------------------------------
Unlock(s) == /\ open' = open \cup {s}
             /\ s \notin open
             /\ UNCHANGED <<row, disk, capturing, dl, fin, crashes>>

Lock(s) == /\ "lock" \in Allowed
           /\ s \in open
           /\ open' = open \ {s}
           /\ UNCHANGED <<row, disk, capturing, dl, fin, crashes>>

(* The file of the row it loaded, then the row.  A storage error, or a path *)
(* that is no longer the row's, leaves the file.  Deleting a whole space    *)
(* does the same to its cards, and asks for a passphrase, not for a session.*)
delete_vault_item(c) ==
    /\ "delete" \in Allowed
    /\ row[c].life = "there"
    /\ row' = [row EXCEPT ![c].life = "deleting"]
    /\ \/ disk' = [f \in Files |-> IF f = row[c].path THEN NoKey ELSE disk[f]]
       \/ UNCHANGED disk
    /\ UNCHANGED <<open, capturing, dl, fin, crashes>>

DeleteRow(c) ==
    /\ row[c].life = "deleting"
    /\ row' = [row EXCEPT ![c].life = "gone"]
    /\ capturing' = capturing \ {c}
    /\ UNCHANGED <<disk, open, dl, fin, crashes>>

(* move_sealed_item re-seals the payload; path and wrap stay what they are. *)
move_sealed_item(c, s) ==
    /\ "move" \in Allowed
    /\ row[c].life = "there"
    /\ row[c].space \in open \ {s}
    /\ row' = [row EXCEPT ![c].space = s]
    /\ UNCHANGED <<disk, open, capturing, dl, fin, crashes>>

Web == \/ \E c \in Cards, d \in Downloads : \/ create_video_capture_item(c, d)
                                            \/ retry_video_download(c, d)
       \/ \E c \in Cards : \/ CaptureEnds(c)
                           \/ RetryNotQueued(c)
                           \/ delete_vault_item(c)
                           \/ DeleteRow(c)
                           \/ \E s \in Spaces : move_sealed_item(c, s)
       \/ \E s \in Spaces : Unlock(s) \/ Lock(s)
       \/ \E n \in Finals, s \in Spaces : queue_finalize_blind_media(n, s)

Download(d) == \/ TakeHandoff(d) \/ DownloadFails(d) \/ HandoffExpires(d)
               \/ LookUpCard(d) \/ PickKey(d) \/ SaveFile(d) \/ LoadRow(d)
               \/ attach_downloaded_media(d) \/ Acknowledge(d)

Finalize(n) == \/ FinalLists(n) \/ FinalSkips(n) \/ FinalReseals(n)
               \/ FinalChecks(n) \/ FinalCommits(n) \/ FinalDrops(n)
               \/ FinalEnds(n)

Next == \/ Web
        \/ \E d \in Downloads : Download(d) \/ WorkerDies(d)
        \/ \E n \in Finals : Finalize(n) \/ FinalDies(n)

(* The owner comes back, again and again, and stays until a worker has      *)
(* taken the finalize of that unlock; workers run what they have taken.     *)
Fairness == /\ \A s \in Spaces : WF_vars(Unlock(s))
            /\ \A n \in Finals : WF_vars(Finalize(n)) /\ SF_vars(FinalLists(n))
            /\ SF_vars(\E n \in Finals, s \in Spaces : queue_finalize_blind_media(n, s))

Spec == Init /\ [][Next]_vars
FairSpec == Spec /\ Fairness

-----------------------------------------------------------------------------
FileKeys == Keys \cup {NoKey, InTheClear}
Rows == [space : Spaces, path : Files \cup {NoFile}, wrap : Keys \cup {NoKey},
         status : Statuses, life : {"absent", "there", "deleting", "gone"}]
TypeOK == /\ row \in [Cards -> Rows]
          /\ disk \in [Files -> FileKeys]
          /\ open \subseteq Spaces
          /\ capturing \subseteq Cards
          /\ \A d \in Downloads :
               /\ dl[d].card \in Cards
               /\ dl[d].key \in FileKeys
               /\ dl[d].seen \in Rows
          /\ \A n \in Finals : fin[n].space \in Spaces /\ fin[n].seen \in Rows

(* The file a card points at is there, and opens: under its space's file    *)
(* key, or under the blind key whose wrap its space can open.               *)
MediaOpens == \A c \in Cards : row[c].life = "there" /\ row[c].path # NoFile =>
    LET f == row[c].path IN
    IF row[c].wrap = NoKey THEN disk[f] = SpaceKey(row[c].space)
    ELSE disk[f] = row[c].wrap /\ row[c].wrap.space = row[c].space

(* Whatever is moved, downloaded twice or finalized twice meanwhile, no     *)
(* step takes from storage the file a card points at.                       *)
NoCardLosesItsFile == \A c \in Cards :
    row[c].life = "there" /\ row[c].path # NoFile => disk[row[c].path] # NoKey

(* A card that says its download is queued has one: the page offers a retry *)
(* for a failed, refused or waiting download and for no other.              *)
QueuedIsQueued == \A c \in Cards : There(c) /\ row[c].status = "queued" =>
    c \in capturing \/ \E d \in Downloads : dl[d].at # "none" /\ dl[d].card = c

(* "The next unlock re-seals it": a blind card does not stay blind for an   *)
(* owner who keeps unlocking the space.                                     *)
Blind(c) == row[c].life = "there" /\ row[c].wrap # NoKey
BlindEnds == \A c \in Cards : Blind(c) ~> ~Blind(c)

(* "A collection that must not store media in the clear" (tasks.py:294): no *)
(* video fetched for a sealed card is on the storage volume in the clear.   *)
NothingInTheClear == \A f \in Files : disk[f] # InTheClear
=============================================================================
