--------------------------- MODULE VaultMediaProofs ------------------------
(***************************************************************************)
(* The videos of sealed cards, for any cards, spaces, files, workers and   *)
(* crashes.  Three requests, two workers and a lock meet on one row and    *)
(* one volume, each in short transactions, so what a card names, what a    *)
(* task holds and what is stored are three invariants in one:              *)
(*   FilesInv   a file a task holds is named by nobody else, the file a    *)
(*              finalize replaces is named by nobody any more: no file a   *)
(*              card names is dropped                                      *)
(*   QueuedInv  a download that has begun is not "queued" any more         *)
(*   OpensInv   the key a task holds is the one its card will be opened    *)
(*              with, whatever the row is by the time it is written        *)
(***************************************************************************)
EXTENDS VaultMedia, TLAPS

(* The records of tasks, and of rows as the type invariant has them.        *)
Tasks == [at : {"none", "queued", "fetching", "found", "keyed", "stored", "loaded",
                "acking"},
          card : Cards, lends : BOOLEAN, handoff : BOOLEAN, key : FileKeys,
          wrap : Keys \cup {NoKey}, file : Files \cup {NoFile}, seen : Rows]
Entries == [card : Cards, path : Files \cup {NoFile}, wrap : Keys \cup {NoKey}]
Passes == [at : {"none", "queued", "listed", "resealed", "checked", "committed"},
           space : Spaces, todo : SUBSET Entries, now : Entries,
           file : Files \cup {NoFile}, seen : Rows]

MediaTypes == /\ row \in [Cards -> Rows]
              /\ disk \in [Files -> FileKeys]
              /\ open \subseteq Spaces
              /\ capturing \subseteq Cards
              /\ dl \in [Downloads -> Tasks]
              /\ fin \in [Finals -> Passes]

-----------------------------------------------------------------------------
(* An UPDATE of a row keeps its space and its life, and writes the columns    *)
(* the session saw change.                                                    *)
LEMMA FlushWrites ==
    ASSUME row \in [Cards -> Rows], NEW c \in Cards, NEW seen \in Rows, NEW new \in Rows,
           new.space = seen.space, new.life = seen.life, row' = Flush(c, seen, new)
    PROVE  /\ row' \in [Cards -> Rows]
           /\ \A e \in Cards \ {c} : row'[e] = row[e]
           /\ row'[c].space = row[c].space
           /\ row'[c].life = row[c].life
           /\ row'[c].path = IF new.path # seen.path THEN new.path ELSE row[c].path
           /\ row'[c].wrap = IF new.wrap # seen.wrap THEN new.wrap ELSE row[c].wrap
           /\ row'[c].status = IF new.status # seen.status THEN new.status
                               ELSE row[c].status
PROOF
  <1> DEFINE w == [x \in DOMAIN new |-> IF new[x] # seen[x] THEN new[x] ELSE row[c][x]]
  <1>1. DOMAIN new = {"space", "path", "wrap", "status", "life"}
    BY DEF Rows
  <1>2. /\ w.space = row[c].space
        /\ w.life = row[c].life
        /\ w.path = IF new.path # seen.path THEN new.path ELSE row[c].path
        /\ w.wrap = IF new.wrap # seen.wrap THEN new.wrap ELSE row[c].wrap
        /\ w.status = IF new.status # seen.status THEN new.status ELSE row[c].status
    BY <1>1 DEF Rows
  <1>3. w \in Rows
    BY <1>1 DEF Rows
  <1> HIDE DEF w
  <1>4. row' = [row EXCEPT ![c] = w]
    BY DEF Flush, w
  <1> QED
    BY <1>2, <1>3, <1>4

SameButStatus == \A e \in Cards : /\ row'[e].space = row[e].space
                                  /\ row'[e].path = row[e].path
                                  /\ row'[e].wrap = row[e].wrap
                                  /\ row'[e].life = row[e].life

(* Writing media_status leaves the other columns and the other rows alone.    *)
LEMMA StatusOnly ==
    ASSUME row \in [Cards -> Rows], NEW c \in Cards, NEW status \in Statuses,
           _record_status(c, status)
    PROVE  /\ row' \in [Cards -> Rows]
           /\ SameButStatus
           /\ \A e \in Cards : /\ row'[e].status \in {row[e].status, status}
                               /\ e # c => row'[e].status = row[e].status
           /\ There(c) => row'[c].status = status
PROOF
  BY DEF _record_status, Rows, SameButStatus

(* The values the tasks and the rows start from.                              *)
LEMMA FirstValues ==
    /\ NoRow \in Rows
    /\ NoTask \in Tasks
    /\ NoFinal \in Passes
PROOF
  <1>1. NoRow \in Rows
    BY ConstantsAssumption DEF NoRow, Rows, Statuses
  <1>2. NoTask \in Tasks
    BY <1>1, ConstantsAssumption DEF NoTask, Tasks, FileKeys
  <1>3. NoFinal \in Passes
    BY <1>1, <1>2, ConstantsAssumption DEF NoFinal, NoTask, Passes, Entries, Tasks
  <1> QED
    BY <1>1, <1>2, <1>3

(* A key is a key of a space or a blind key.                                  *)
LEMMA KeysAreKeys ==
    /\ \A s \in Spaces : SpaceKey(s) \in Keys
    /\ \A s \in Spaces, f \in Files : BlindKey(s, f) \in Keys
PROOF
  BY DEF SpaceKey, BlindKey, Keys

-----------------------------------------------------------------------------
(* What the requests do to the variables' types.                              *)
LEMMA WebKeepsTypes ==
    ASSUME MediaTypes, Web PROVE MediaTypes'
PROOF
  <1> USE DEF MediaTypes
  <1>1. ASSUME NEW c \in Cards, NEW d \in Downloads, create_video_capture_item(c, d)
        PROVE MediaTypes'
    <2>1. dl' \in [Downloads -> Tasks]
      BY <1>1, FirstValues DEF create_video_capture_item, queue_video_download, Tasks
    <2> QED
      BY <1>1, <2>1 DEF create_video_capture_item, Rows
  <1>2. ASSUME NEW c \in Cards, NEW d \in Downloads, retry_video_download(c, d)
        PROVE MediaTypes'
    <2>1. dl' \in [Downloads -> Tasks]
      BY <1>2, FirstValues DEF retry_video_download, queue_video_download, Tasks
    <2>2. row' \in [Cards -> Rows]
      BY <1>2, StatusOnly DEF retry_video_download, Statuses
    <2> QED
      BY <1>2, <2>1, <2>2 DEF retry_video_download
  <1>3. ASSUME NEW c \in Cards, CaptureEnds(c) PROVE MediaTypes'
    BY <1>3, StatusOnly DEF CaptureEnds, Statuses
  <1>4. ASSUME NEW c \in Cards, RetryNotQueued(c) PROVE MediaTypes'
    BY <1>4, StatusOnly DEF RetryNotQueued, Statuses
  <1>5. ASSUME NEW c \in Cards, delete_vault_item(c) PROVE MediaTypes'
    <2>1. disk' \in [Files -> FileKeys]
      BY <1>5 DEF delete_vault_item, FileKeys
    <2> QED
      BY <1>5, <2>1 DEF delete_vault_item, Rows
  <1>6. ASSUME NEW c \in Cards, DeleteRow(c) PROVE MediaTypes'
    BY <1>6 DEF DeleteRow, Rows
  <1>7. ASSUME NEW c \in Cards, NEW s \in Spaces, move_sealed_item(c, s) PROVE MediaTypes'
    BY <1>7 DEF move_sealed_item, Rows
  <1>8. ASSUME NEW s \in Spaces, Unlock(s) \/ Lock(s) PROVE MediaTypes'
    BY <1>8 DEF Unlock, Lock
  <1>9. ASSUME NEW n \in Finals, NEW s \in Spaces, queue_finalize_blind_media(n, s)
        PROVE MediaTypes'
    <2>1. fin[n] \in Passes
      BY DEF Passes
    <2>2. [fin[n] EXCEPT !.at = "queued", !.space = s] \in Passes
      BY <2>1 DEF Passes
    <2>3. fin' = [fin EXCEPT ![n] = [fin[n] EXCEPT !.at = "queued", !.space = s]]
      BY <1>9 DEF queue_finalize_blind_media
    <2>4. fin' \in [Finals -> Passes]
      BY <2>2, <2>3
    <2> QED
      BY <1>9, <2>4 DEF queue_finalize_blind_media, OnlyFinalize
  <1> QED
    BY <1>1, <1>2, <1>3, <1>4, <1>5, <1>6, <1>7, <1>8, <1>9 DEF Web

(* What a worker leaves that dies: its task, to be taken again, or nothing.   *)
LEMMA DeadTask ==
    ASSUME dl \in [Downloads -> Tasks], NEW d \in Downloads, WorkerDies(d)
    PROVE  /\ dl' \in [Downloads -> Tasks]
           /\ \A e \in Downloads \ {d} : dl'[e] = dl[e]
           /\ dl[d].at \notin {"none", "queued"}
           /\ dl'[d].at \in {"none", "queued"}
           /\ dl'[d].at # "none" => dl'[d].card = dl[d].card
           /\ dl'[d].file = NoFile
PROOF
  <1>1. PICK again \in {NoTask, [NoTask EXCEPT !.at = "queued", !.card = dl[d].card,
                                             !.lends = dl[d].lends]} :
          dl' = [dl EXCEPT ![d] = again]
    BY DEF WorkerDies
  <1>2. /\ again \in Tasks
        /\ again.at \in {"none", "queued"}
        /\ again.at # "none" => again.card = dl[d].card
        /\ again.file = NoFile
    <2>1. CASE again = NoTask
      BY <2>1, FirstValues DEF NoTask
    <2>2. CASE again = [NoTask EXCEPT !.at = "queued", !.card = dl[d].card,
                                      !.lends = dl[d].lends]
      <3>1. dl[d].card \in Cards /\ dl[d].lends \in BOOLEAN
        BY DEF Tasks
      <3>2. NoTask \in Tasks /\ NoTask.file = NoFile
        BY FirstValues DEF NoTask
      <3> QED
        BY ONLY <2>2, <3>1, <3>2 DEF Tasks
    <2> QED
      BY <1>1, <2>1, <2>2
  <1> QED
    BY <1>1, <1>2 DEF WorkerDies

(* What a download does to them.                                              *)
LEMMA DownloadKeepsTypes ==
    ASSUME MediaTypes, NEW d \in Downloads, Download(d) \/ WorkerDies(d)
    PROVE  MediaTypes'
PROOF
  <1> USE DEF MediaTypes, OnlyDownload
  <1>0. /\ dl[d] \in Tasks
        /\ dl[d].card \in Cards
        /\ row[dl[d].card] \in Rows
    BY DEF Tasks
  <1>1. CASE TakeHandoff(d)
    <2>1. row' \in [Cards -> Rows]
      BY <1>0, <1>1, StatusOnly DEF TakeHandoff, Statuses
    <2> QED
      BY <1>0, <1>1, <2>1 DEF TakeHandoff, Tasks
  <1>2. CASE DownloadFails(d)
    <2>1. row' \in [Cards -> Rows]
      BY <1>0, <1>2, StatusOnly DEF DownloadFails, Statuses
    <2> QED
      BY <1>0, <1>2, <2>1 DEF DownloadFails, Tasks
  <1>3. CASE HandoffExpires(d)
    BY <1>0, <1>3 DEF HandoffExpires, Tasks
  <1>4. CASE LookUpCard(d)
    BY <1>0, <1>4 DEF LookUpCard, Tasks
  <1>5. CASE PickKey(d)
    <2>1. dl[d].seen.space \in Spaces /\ row[dl[d].card].space \in Spaces
      BY <1>0 DEF Tasks, Rows
    <2>2. PICK f \in Files, k \in FileKeys, w \in Keys \cup {NoKey} :
            dl' = [dl EXCEPT ![d] = [@ EXCEPT !.at = "keyed", !.file = f, !.seen = NoRow,
                                              !.key = k, !.wrap = w]]
      BY <1>5, <2>1, KeysAreKeys DEF PickKey, Fresh, FileKeys
    <2> QED
      BY <1>0, <1>5, <2>2, FirstValues DEF PickKey, Tasks
  <1>6. CASE SaveFile(d)
    BY <1>0, <1>6 DEF SaveFile, Tasks
  <1>7. CASE LoadRow(d)
    BY <1>0, <1>7 DEF LoadRow, Tasks
  <1>8. CASE attach_downloaded_media(d)
    <2>1. row' \in [Cards -> Rows]
      <3> DEFINE attached == [dl[d].seen EXCEPT !.path = dl[d].file, !.wrap = dl[d].wrap,
                        !.status = IF dl[d].wrap # NoKey THEN "blind" ELSE "completed"]
      <3>1. /\ attached \in Rows /\ dl[d].seen \in Rows
            /\ attached.space = dl[d].seen.space /\ attached.life = dl[d].seen.life
        BY <1>0 DEF Tasks, Rows, Statuses
      <3>2. row' = IF There(dl[d].card) THEN Flush(dl[d].card, dl[d].seen, attached)
                   ELSE row
        BY <1>8 DEF attach_downloaded_media
      <3> HIDE DEF attached
      <3> QED
        BY <1>0, <3>1, <3>2, FlushWrites
    <2> QED
      BY <1>0, <1>8, <2>1 DEF attach_downloaded_media, Tasks
  <1>9. CASE Acknowledge(d)
    BY <1>9, FirstValues DEF Acknowledge
  <1>10. CASE WorkerDies(d)
    BY <1>10, DeadTask DEF WorkerDies
  <1> QED
    BY <1>1, <1>2, <1>3, <1>4, <1>5, <1>6, <1>7, <1>8, <1>9, <1>10 DEF Download

(* What a finalize does to them.                                              *)
LEMMA FinalizeKeepsTypes ==
    ASSUME MediaTypes, NEW n \in Finals, Finalize(n) \/ FinalDies(n)
    PROVE  MediaTypes'
PROOF
  <1> USE DEF MediaTypes, OnlyFinalize
  <1>0. /\ fin[n] \in Passes
        /\ fin[n].now.card \in Cards
        /\ row[fin[n].now.card] \in Rows
    BY DEF Passes, Entries
  <1>1. CASE FinalLists(n)
    <2>1. \A c \in Cards :
            [card |-> c, path |-> row[c].path, wrap |-> row[c].wrap] \in Entries
      BY DEF Entries, Rows
    <2>2. PICK todo \in SUBSET Entries :
            fin' = [fin EXCEPT ![n].at = "listed", ![n].todo = todo]
      BY ZenonT(60), <1>1, <2>1 DEF FinalLists
    <2>3. fin' \in [Finals -> Passes]
      BY <1>0, <2>2 DEF Passes
    <2> QED
      BY <1>1, <2>3 DEF FinalLists
  <1>2. CASE FinalSkips(n)
    BY <1>0, <1>2 DEF FinalSkips, Passes
  <1>3. CASE FinalReseals(n)
    <2>1. PICK x \in fin[n].todo, f \in Files :
            /\ disk' = [disk EXCEPT ![f] = SpaceKey(fin[n].space)]
            /\ fin' = [fin EXCEPT ![n] = [@ EXCEPT !.at = "resealed", !.now = x, !.file = f,
                                                   !.todo = fin[n].todo \ {x}]]
      BY <1>3 DEF FinalReseals, Fresh
    <2> DEFINE rest == fin[n].todo \ {x}
    <2>2. x \in Entries /\ rest \in SUBSET Entries /\ SpaceKey(fin[n].space) \in FileKeys
      BY <1>0, <2>1, KeysAreKeys DEF Passes, FileKeys
    <2>3. fin' = [fin EXCEPT ![n] = [fin[n] EXCEPT !.at = "resealed", !.now = x, !.file = f,
                                                   !.todo = rest]]
      BY <2>1
    <2> HIDE DEF rest
    <2>4. fin' \in [Finals -> Passes]
      BY <1>0, <2>2, <2>3 DEF Passes
    <2> QED
      BY <1>3, <2>1, <2>2, <2>4 DEF FinalReseals
  <1>4. CASE FinalChecks(n)
    BY <1>0, <1>4 DEF FinalChecks, Passes
  <1>5. CASE FinalCommits(n)
    <2>1. row' \in [Cards -> Rows]
      <3> DEFINE done == [fin[n].seen EXCEPT !.path = fin[n].file, !.wrap = NoKey,
                                             !.status = "completed"]
      <3>1. /\ done \in Rows /\ fin[n].seen \in Rows
            /\ done.space = fin[n].seen.space /\ done.life = fin[n].seen.life
        BY <1>0 DEF Passes, Rows, Statuses
      <3>2. row' = IF There(fin[n].now.card) THEN Flush(fin[n].now.card, fin[n].seen, done)
                   ELSE row
        BY <1>5 DEF FinalCommits
      <3> HIDE DEF done
      <3> QED
        BY <1>0, <3>1, <3>2, FlushWrites
    <2> QED
      BY <1>0, <1>5, <2>1 DEF FinalCommits, Passes
  <1>6. CASE FinalDrops(n)
    BY <1>0, <1>6 DEF FinalDrops, Passes, FileKeys
  <1>7. CASE FinalEnds(n)
    BY <1>7, FirstValues DEF FinalEnds
  <1>8. CASE FinalDies(n)
    BY <1>8, FirstValues DEF FinalDies
  <1> QED
    BY <1>1, <1>2, <1>3, <1>4, <1>5, <1>6, <1>7, <1>8 DEF Finalize

(* The types are kept by every step.                                          *)
LEMMA StepKeepsTypes == MediaTypes /\ [Next]_vars => MediaTypes'
PROOF
  <1> SUFFICES ASSUME MediaTypes, [Next]_vars PROVE MediaTypes'
    OBVIOUS
  <1>1. CASE UNCHANGED vars
    BY <1>1 DEF vars, MediaTypes
  <1> QED
    BY <1>1, WebKeepsTypes, DownloadKeepsTypes, FinalizeKeepsTypes DEF Next

(* The types hold at the start.                                               *)
LEMMA InitTypes == Init => MediaTypes
PROOF
  BY FirstValues DEF Init, MediaTypes, Rows, FileKeys

(* Rows, files, tasks and sessions are what the type invariant says.          *)
THEOREM MediaIsTyped == Spec => []TypeOK
PROOF
  <1>1. MediaTypes => TypeOK
    BY DEF MediaTypes, TypeOK, Tasks, Passes
  <1> QED
    BY <1>1, InitTypes, StepKeepsTypes, PTL DEF Spec

KeepsRows == \A c \in Cards :
    /\ row'[c].life = row[c].life
    /\ row'[c].space = row[c].space
    /\ row'[c].status = "queued" => row[c].status = "queued"

(* No worker changes what space a card is in, or whether it is there, or says *)
(* that its download is queued.                                               *)
LEMMA DownloadKeepsRows ==
    ASSUME MediaTypes, NEW d \in Downloads, Download(d) \/ WorkerDies(d)
    PROVE  KeepsRows
PROOF
  <1> USE DEF KeepsRows
  <1>0. /\ row \in [Cards -> Rows]
        /\ dl[d] \in Tasks /\ dl[d].card \in Cards
    BY DEF MediaTypes, Tasks
  <1>1. CASE TakeHandoff(d) \/ DownloadFails(d)
    BY <1>0, <1>1, StatusOnly DEF TakeHandoff, DownloadFails, Statuses, SameButStatus
  <1>2. CASE attach_downloaded_media(d)
    <2> DEFINE attached == [dl[d].seen EXCEPT !.path = dl[d].file, !.wrap = dl[d].wrap,
                    !.status = IF dl[d].wrap # NoKey THEN "blind" ELSE "completed"]
    <2>1. /\ attached \in Rows /\ dl[d].seen \in Rows
          /\ attached.space = dl[d].seen.space /\ attached.life = dl[d].seen.life
          /\ attached.status # "queued"
      BY <1>0 DEF Tasks, Rows, Statuses
    <2>2. row' = row \/ row' = Flush(dl[d].card, dl[d].seen, attached)
      BY <1>2 DEF attach_downloaded_media
    <2> HIDE DEF attached
    <2> QED
      BY <1>0, <2>1, <2>2, FlushWrites
  <1>3. CASE \/ HandoffExpires(d) \/ LookUpCard(d) \/ PickKey(d) \/ SaveFile(d)
             \/ LoadRow(d) \/ Acknowledge(d) \/ WorkerDies(d)
    BY <1>3 DEF HandoffExpires, LookUpCard, PickKey, SaveFile, LoadRow, Acknowledge,
       WorkerDies
  <1> QED
    BY <1>1, <1>2, <1>3 DEF Download

(* A finalize neither.                                                        *)
LEMMA FinalizeKeepsRows ==
    ASSUME MediaTypes, NEW n \in Finals, Finalize(n) \/ FinalDies(n)
    PROVE  KeepsRows
PROOF
  <1> USE DEF KeepsRows
  <1>0. /\ row \in [Cards -> Rows]
        /\ fin[n] \in Passes /\ fin[n].now.card \in Cards
    BY DEF MediaTypes, Passes, Entries
  <1>1. CASE FinalCommits(n)
    <2> DEFINE done == [fin[n].seen EXCEPT !.path = fin[n].file, !.wrap = NoKey,
                                           !.status = "completed"]
    <2>1. /\ done \in Rows /\ fin[n].seen \in Rows
          /\ done.space = fin[n].seen.space /\ done.life = fin[n].seen.life
          /\ done.status # "queued"
      BY <1>0 DEF Passes, Rows, Statuses
    <2>2. row' = row \/ row' = Flush(fin[n].now.card, fin[n].seen, done)
      BY SMTT(30), <1>1 DEF FinalCommits
    <2> HIDE DEF done
    <2> QED
      BY <1>0, <2>1, <2>2, FlushWrites
  <1>2. CASE ~FinalCommits(n)
    BY <1>2 DEF Finalize, FinalLists, FinalSkips, FinalReseals, FinalChecks, FinalDrops,
       FinalEnds, FinalDies
  <1> QED
    BY <1>1, <1>2

-----------------------------------------------------------------------------
(* A download or a finalize with a file that no row names yet, and a finalize *)
(* whose row is about to name, or names, the new file instead of the old one. *)
Holding(d) == dl[d].at \in {"keyed", "stored", "loaded"}
Resealing(n) == fin[n].at \in {"resealed", "checked"}
Replacing(n) == fin[n].at \in {"checked", "committed"}

RowsAreApart == \A c, e \in Cards :
    c # e /\ row[c].path # NoFile => row[c].path # row[e].path

WrappedHasFile == \A c \in Cards : row[c].wrap # NoKey => row[c].path # NoFile

HeldIsUnnamed == \A d \in Downloads : Holding(d) =>
    /\ dl[d].file # NoFile
    /\ dl[d].key # NoKey
    /\ \A c \in Cards : row[c].path # dl[d].file
    /\ \A e \in Downloads \ {d} : dl[e].file # dl[d].file
    /\ \A n \in Finals : /\ fin[n].file # dl[d].file
                         /\ Replacing(n) => fin[n].now.path # dl[d].file

ResealedIsUnnamed == \A n \in Finals : Resealing(n) =>
    /\ fin[n].file # NoFile
    /\ \A c \in Cards : row[c].path # fin[n].file
    /\ \A d \in Downloads : dl[d].file # fin[n].file
    /\ \A m \in Finals \ {n} : fin[m].file # fin[n].file
    /\ \A m \in Finals : Replacing(m) => fin[m].now.path # fin[n].file

OldIsUnnamed == \A n \in Finals : Replacing(n) =>
    /\ fin[n].now.path # NoFile
    /\ \A c \in Cards \ {fin[n].now.card} : row[c].path # fin[n].now.path
    /\ fin[n].at = "committed" => row[fin[n].now.card].path # fin[n].now.path

SeenIsOld ==
    /\ \A d \in Downloads : dl[d].at = "loaded" => dl[d].seen.path # dl[d].file
    /\ \A n \in Finals : fin[n].at = "checked" =>
           fin[n].seen.path = fin[n].now.path /\ fin[n].seen.wrap # NoKey

FilesAreStored ==
    /\ \A d \in Downloads : dl[d].at \in {"stored", "loaded"} =>
           disk[dl[d].file] = dl[d].key
    /\ \A n \in Finals : Resealing(n) => disk[fin[n].file] = SpaceKey(fin[n].space)

AbsentIsEmpty == \A c \in Cards : row[c].life = "absent" => row[c].path = NoFile

FilesInv == /\ MediaTypes /\ AbsentIsEmpty /\ RowsAreApart /\ WrappedHasFile /\ HeldIsUnnamed
            /\ ResealedIsUnnamed /\ OldIsUnnamed /\ SeenIsOld /\ FilesAreStored
            /\ NoCardLosesItsFile

(* A step that keeps the disk and the files rows name, and under which a task *)
(* with a file nobody names yet stays as it is or gives it up.                *)
KeepsFiles ==
    /\ disk' = disk
    /\ \A c \in Cards :
         /\ row'[c].path = row[c].path /\ row'[c].wrap = row[c].wrap
         /\ row'[c].life = "absent" => row[c].life = "absent"
         /\ row'[c].life = "there" => row[c].life \in {"there", "absent"}
    /\ \A d \in Downloads : /\ dl'[d].file \in {NoFile, dl[d].file}
                            /\ Holding(d)' => dl'[d] = dl[d]
    /\ \A n \in Finals :
         /\ fin'[n].file \in {NoFile, fin[n].file}
         /\ Resealing(n)' \/ Replacing(n)' => fin'[n] = fin[n]

(* Such a step keeps the invariant.                                           *)
LEMMA KeepingFilesKeepsInv ==
    ASSUME FilesInv, MediaTypes', KeepsFiles PROVE FilesInv'
PROOF
  <1> USE DEF KeepsFiles
  <1>1. AbsentIsEmpty' /\ RowsAreApart' /\ WrappedHasFile'
    BY DEF FilesInv, AbsentIsEmpty, RowsAreApart, WrappedHasFile
  <1>2. HeldIsUnnamed'
    BY DEF FilesInv, HeldIsUnnamed, Holding, Resealing, Replacing
  <1>3. ResealedIsUnnamed'
    BY DEF FilesInv, ResealedIsUnnamed, Resealing, Replacing
  <1>4. OldIsUnnamed'
    <2>1. \A n \in Finals : fin[n].now.card \in Cards
      BY DEF FilesInv, MediaTypes, Passes, Entries
    <2> QED
      BY <2>1 DEF FilesInv, OldIsUnnamed, Resealing, Replacing
  <1>5. SeenIsOld'
    BY DEF FilesInv, SeenIsOld, Holding, Resealing
  <1>6. FilesAreStored'
    BY DEF FilesInv, FilesAreStored, Holding, Resealing, SpaceKey
  <1>7. NoCardLosesItsFile'
    BY DEF FilesInv, NoCardLosesItsFile, AbsentIsEmpty
  <1> QED
    BY <1>1, <1>2, <1>3, <1>4, <1>5, <1>6, <1>7 DEF FilesInv

(* The requests keep it: a card that is deleted takes its own file away, and  *)
(* no other card or task names that one.                                      *)
LEMMA WebKeepsFiles ==
    ASSUME FilesInv, Web PROVE FilesInv'
PROOF
  <1>0. MediaTypes /\ MediaTypes'
    BY WebKeepsTypes DEF FilesInv
  <1> USE DEF OnlyFinalize, Holding, Resealing, Replacing
  <1>1. ASSUME NEW c \in Cards, NEW d \in Downloads, create_video_capture_item(c, d)
        PROVE KeepsFiles
    BY <1>0, <1>1 DEF create_video_capture_item, queue_video_download, NoTask,
       KeepsFiles,
       MediaTypes, Rows
  <1>2. ASSUME NEW c \in Cards, NEW d \in Downloads, retry_video_download(c, d)
        PROVE KeepsFiles
    <2>1. SameButStatus
      BY <1>0, <1>2, StatusOnly DEF retry_video_download, MediaTypes, Statuses
    <2> QED
      BY <1>0, <1>2, <2>1 DEF retry_video_download, queue_video_download, NoTask,
         KeepsFiles,
         MediaTypes, Rows, SameButStatus
  <1>3. ASSUME NEW c \in Cards, CaptureEnds(c) \/ RetryNotQueued(c) PROVE KeepsFiles
    <2>1. SameButStatus
      BY <1>0, <1>3, StatusOnly DEF CaptureEnds, RetryNotQueued, MediaTypes, Statuses
    <2> QED
      BY <1>0, <1>3, <2>1 DEF CaptureEnds, RetryNotQueued, KeepsFiles, MediaTypes,
         Rows, SameButStatus
  <1>4. ASSUME NEW c \in Cards, delete_vault_item(c) PROVE FilesInv'
    <2>1. /\ UNCHANGED <<dl, fin>>
          /\ \A e \in Cards : row'[e].path = row[e].path /\ row'[e].wrap = row[e].wrap
          /\ \A e \in Cards \ {c} : row'[e].life = row[e].life
          /\ row'[c].life = "deleting"
          /\ \A f \in Files : f # row[c].path => disk'[f] = disk[f]
      BY <1>0, <1>4 DEF delete_vault_item, MediaTypes, Rows
    <2>2. AbsentIsEmpty' /\ RowsAreApart' /\ WrappedHasFile'
      BY <2>1 DEF FilesInv, AbsentIsEmpty, RowsAreApart, WrappedHasFile
    <2>3. HeldIsUnnamed' /\ ResealedIsUnnamed'
      BY <2>1 DEF FilesInv, HeldIsUnnamed, ResealedIsUnnamed
    <2>4. OldIsUnnamed' /\ SeenIsOld'
      BY <1>0, <2>1 DEF FilesInv, OldIsUnnamed, SeenIsOld, MediaTypes, Passes, Entries
    <2>5. FilesAreStored'
      BY <1>0, <2>1 DEF FilesInv, FilesAreStored, HeldIsUnnamed, ResealedIsUnnamed,
         MediaTypes, Tasks, Passes, SpaceKey
    <2>6. NoCardLosesItsFile'
      BY <1>0, <2>1 DEF FilesInv, NoCardLosesItsFile, RowsAreApart, MediaTypes, Rows
    <2> QED
      BY <1>0, <2>2, <2>3, <2>4, <2>5, <2>6 DEF FilesInv
  <1>5. ASSUME NEW c \in Cards, DeleteRow(c) PROVE KeepsFiles
    BY <1>0, <1>5 DEF DeleteRow, KeepsFiles, MediaTypes, Rows
  <1>6. ASSUME NEW c \in Cards, NEW s \in Spaces, move_sealed_item(c, s) PROVE KeepsFiles
    BY <1>0, <1>6 DEF move_sealed_item, KeepsFiles, MediaTypes, Rows
  <1>7. ASSUME NEW s \in Spaces, Unlock(s) \/ Lock(s) PROVE KeepsFiles
    BY <1>0, <1>7 DEF Unlock, Lock, KeepsFiles, MediaTypes, Rows
  <1>8. ASSUME NEW n \in Finals, NEW s \in Spaces, queue_finalize_blind_media(n, s)
        PROVE KeepsFiles
    BY <1>0, <1>8 DEF queue_finalize_blind_media, KeepsFiles, MediaTypes, Rows, Passes
  <1> QED
    BY <1>0, <1>1, <1>2, <1>3, <1>4, <1>5, <1>6, <1>7, <1>8,
       KeepingFilesKeepsInv DEF Web

(* A download keeps it: the file it brings is named by no row before the row  *)
(* it is attached to, and is in storage by then.                              *)
LEMMA DownloadKeepsFiles ==
    ASSUME FilesInv, NEW d \in Downloads, Download(d) \/ WorkerDies(d)
    PROVE  FilesInv'
PROOF
  <1>0. MediaTypes /\ MediaTypes'
    BY DownloadKeepsTypes DEF FilesInv
  <1>a. /\ dl[d] \in Tasks
        /\ dl[d].card \in Cards
        /\ dl[d].file \in Files \cup {NoFile}
    BY <1>0 DEF MediaTypes, Tasks
  <1>b. \A n \in Finals : fin[n].now.card \in Cards
    BY <1>0 DEF MediaTypes, Passes, Entries
  <1> USE DEF OnlyDownload, Holding, Resealing, Replacing
  <1>1. CASE TakeHandoff(d) \/ DownloadFails(d)
    <2>1. SameButStatus
      BY <1>0, <1>a, <1>1, StatusOnly DEF TakeHandoff, DownloadFails, MediaTypes,
         Statuses
    <2>2. KeepsFiles
      BY <1>0, <1>1, <2>1 DEF TakeHandoff, DownloadFails, KeepsFiles, MediaTypes,
         Tasks, SameButStatus
    <2> QED
      BY <1>0, <2>2, KeepingFilesKeepsInv
  <1>2. CASE HandoffExpires(d) \/ LookUpCard(d) \/ Acknowledge(d) \/ WorkerDies(d)
    <2>1. /\ UNCHANGED <<row, disk, fin>>
          /\ \A e \in Downloads \ {d} : dl'[e] = dl[e]
          /\ dl'[d].at \in {"none", "queued", "found"}
          /\ dl'[d].file \in {NoFile, dl[d].file}
      <3>1. CASE HandoffExpires(d)
        BY <1>0, <1>a, <3>1 DEF HandoffExpires, MediaTypes, Tasks
      <3>2. CASE LookUpCard(d)
        BY <1>0, <1>a, <3>2 DEF LookUpCard, MediaTypes, Tasks
      <3>3. CASE Acknowledge(d)
        BY <1>0, <1>a, <3>3 DEF Acknowledge, NoTask, MediaTypes
      <3>4. CASE WorkerDies(d)
        BY <1>0, <3>4, DeadTask DEF WorkerDies, MediaTypes
      <3> QED
        BY <1>2, <3>1, <3>2, <3>3, <3>4
    <2>2. KeepsFiles
      BY <2>1 DEF KeepsFiles
    <2> QED
      BY <1>0, <2>2, KeepingFilesKeepsInv
  <1>3. CASE PickKey(d)
    <2>1. PICK f \in Fresh :
            dl' = [dl EXCEPT ![d] =
             [@ EXCEPT !.at = "keyed", !.file = f, !.seen = NoRow,
                       !.key = IF ~Found(d) THEN InTheClear
                               ELSE IF Found(d) /\ ~HasFileKey(d)
                                    THEN BlindKey(dl[d].seen.space, f)
                               ELSE SpaceKey(row[dl[d].card].space),
                       !.wrap = IF Found(d) /\ ~HasFileKey(d)
                                THEN BlindKey(dl[d].seen.space, f) ELSE NoKey]]
      BY <1>3 DEF PickKey
    <2>2. /\ UNCHANGED <<row, disk, fin>>
          /\ \A e \in Downloads \ {d} : dl'[e] = dl[e]
          /\ dl'[d].at = "keyed" /\ dl'[d].file = f
      BY <1>0, <1>a, <1>3, <2>1 DEF PickKey, MediaTypes, Tasks
    <2>3. f \in Files /\ f # NoFile
      BY FilesAssumption DEF Fresh
    <2>a. dl'[d].key # NoKey
      <3>1. dl[d].seen.space \in Spaces /\ row[dl[d].card].space \in Spaces
        BY <1>0, <1>a DEF MediaTypes, Tasks, Rows
      <3>2. /\ SpaceKey(row[dl[d].card].space) # NoKey
            /\ BlindKey(dl[d].seen.space, f) # NoKey
            /\ InTheClear # NoKey
        BY <2>3, <3>1, KeysAreKeys, KeysAssumption
      <3> QED
        BY <1>0, <1>a, <2>1, <3>2 DEF MediaTypes, Tasks
    <2>4. HeldIsUnnamed'
      BY <2>2, <2>3, <2>a DEF FilesInv, HeldIsUnnamed, Fresh
    <2>5. ResealedIsUnnamed' /\ OldIsUnnamed' /\ SeenIsOld'
      BY <2>2, <2>3 DEF FilesInv, ResealedIsUnnamed, OldIsUnnamed, SeenIsOld, Fresh
    <2>6. AbsentIsEmpty' /\ RowsAreApart' /\ WrappedHasFile' /\ NoCardLosesItsFile'
      BY <2>2 DEF FilesInv, AbsentIsEmpty, RowsAreApart, WrappedHasFile,
         NoCardLosesItsFile
    <2>7. FilesAreStored'
      BY <2>2 DEF FilesInv, FilesAreStored, SpaceKey
    <2> QED
      BY <1>0, <2>4, <2>5, <2>6, <2>7 DEF FilesInv
  <1>4. CASE SaveFile(d)
    <2>1. /\ UNCHANGED <<row, fin>>
          /\ \A e \in Downloads \ {d} : dl'[e] = dl[e]
          /\ dl[d].at = "keyed" /\ dl'[d].at = "stored"
          /\ dl'[d].file = dl[d].file /\ dl'[d].key = dl[d].key
      BY <1>0, <1>a, <1>4 DEF SaveFile, MediaTypes, Tasks
    <2>c. \A f \in Files : disk'[f] = IF f = dl[d].file THEN dl[d].key ELSE disk[f]
      BY <1>0, <1>a, <1>4 DEF SaveFile, MediaTypes
    <2>2. HeldIsUnnamed'
      BY <2>1 DEF FilesInv, HeldIsUnnamed
    <2>a. ResealedIsUnnamed'
      BY <2>1 DEF FilesInv, ResealedIsUnnamed
    <2>b. OldIsUnnamed' /\ SeenIsOld'
      BY <2>1 DEF FilesInv, OldIsUnnamed, SeenIsOld
    <2>3. AbsentIsEmpty' /\ RowsAreApart' /\ WrappedHasFile'
      BY <2>1 DEF FilesInv, AbsentIsEmpty, RowsAreApart, WrappedHasFile
    <2>4. FilesAreStored'
      BY <1>0, <1>a, <2>1, <2>c DEF FilesInv, FilesAreStored, HeldIsUnnamed,
         ResealedIsUnnamed,
         MediaTypes, Tasks, Passes, SpaceKey
    <2>5. NoCardLosesItsFile'
      BY <1>0, <1>a, <2>1, <2>c DEF FilesInv, NoCardLosesItsFile, HeldIsUnnamed,
         MediaTypes, Rows
    <2> QED
      BY <1>0, <2>2, <2>3, <2>4, <2>5, <2>a, <2>b DEF FilesInv
  <1>5. CASE LoadRow(d)
    <2>1. /\ UNCHANGED <<row, disk, fin>>
          /\ \A e \in Downloads \ {d} : dl'[e] = dl[e]
          /\ dl[d].at = "stored" /\ dl'[d].at \in {"loaded", "acking"}
          /\ dl'[d].file = dl[d].file /\ dl'[d].key = dl[d].key
          /\ dl'[d].seen = row[dl[d].card]
      BY <1>0, <1>a, <1>5 DEF LoadRow, MediaTypes, Tasks
    <2>2. HeldIsUnnamed' /\ ResealedIsUnnamed' /\ OldIsUnnamed'
      BY <2>1 DEF FilesInv, HeldIsUnnamed, ResealedIsUnnamed, OldIsUnnamed
    <2>3. SeenIsOld'
      BY <1>a, <2>1 DEF FilesInv, HeldIsUnnamed, SeenIsOld
    <2>4. AbsentIsEmpty' /\ RowsAreApart' /\ WrappedHasFile' /\ NoCardLosesItsFile'
      BY <2>1 DEF FilesInv, AbsentIsEmpty, RowsAreApart, WrappedHasFile,
         NoCardLosesItsFile
    <2>5. FilesAreStored'
      BY <2>1 DEF FilesInv, FilesAreStored, SpaceKey
    <2> QED
      BY <1>0, <2>2, <2>3, <2>4, <2>5 DEF FilesInv
  <1>6. CASE attach_downloaded_media(d)
    <2> DEFINE c == dl[d].card
               attached == [dl[d].seen EXCEPT !.path = dl[d].file, !.wrap = dl[d].wrap,
                        !.status = IF dl[d].wrap # NoKey THEN "blind" ELSE "completed"]
    <2>1. /\ UNCHANGED <<disk, fin>>
          /\ \A e \in Downloads \ {d} : dl'[e] = dl[e]
          /\ dl[d].at = "loaded" /\ dl'[d].at = "acking" /\ dl'[d].file = dl[d].file
      BY <1>0, <1>a, <1>6 DEF attach_downloaded_media, MediaTypes, Tasks
    <2>2. CASE ~There(c)
      <3>1. row' = row
        BY <1>6, <2>2 DEF attach_downloaded_media
      <3>2. KeepsFiles
        BY <2>1, <3>1 DEF KeepsFiles
      <3> QED
        BY <1>0, <3>2, KeepingFilesKeepsInv
    <2>3. CASE There(c)
      <3>1. /\ attached \in Rows /\ dl[d].seen \in Rows
            /\ attached.space = dl[d].seen.space /\ attached.life = dl[d].seen.life
            /\ attached.path = dl[d].file
        BY <1>a DEF Tasks, Rows, Statuses
      <3>2. row' = Flush(c, dl[d].seen, attached)
        BY <1>6, <2>3 DEF attach_downloaded_media
      <3>3. dl[d].seen.path # dl[d].file
        BY <2>1 DEF FilesInv, SeenIsOld
      <3> HIDE DEF attached
      <3>4. /\ row'[c].path = dl[d].file
            /\ row'[c].life = row[c].life
            /\ \A e \in Cards \ {c} : row'[e] = row[e]
        BY <1>0, <1>a, <3>1, <3>2, <3>3, FlushWrites DEF MediaTypes
      <3>5. AbsentIsEmpty' /\ WrappedHasFile'
        BY <1>a, <2>1, <2>3, <3>4 DEF FilesInv, AbsentIsEmpty, WrappedHasFile, There,
           HeldIsUnnamed
      <3>6. RowsAreApart'
        BY <1>a, <2>1, <3>4 DEF FilesInv, RowsAreApart, HeldIsUnnamed
      <3>7. HeldIsUnnamed'
        BY <1>a, <2>1, <3>4 DEF FilesInv, HeldIsUnnamed
      <3>8. ResealedIsUnnamed'
        BY <1>a, <2>1, <3>4 DEF FilesInv, ResealedIsUnnamed
      <3>9. OldIsUnnamed'
        BY <1>a, <1>b, <2>1, <3>4 DEF FilesInv, OldIsUnnamed, HeldIsUnnamed
      <3>10. SeenIsOld' /\ FilesAreStored'
        BY <2>1 DEF FilesInv, SeenIsOld, FilesAreStored, SpaceKey
      <3>11. NoCardLosesItsFile'
        BY <1>a, <2>1, <3>4 DEF FilesInv, NoCardLosesItsFile, FilesAreStored,
           HeldIsUnnamed
      <3> QED
        BY <1>0, <3>5, <3>6, <3>7, <3>8, <3>9, <3>10, <3>11 DEF FilesInv
    <2> QED
      BY <2>2, <2>3
  <1> QED
    BY <1>1, <1>2, <1>3, <1>4, <1>5, <1>6 DEF Download

(* A finalize keeps it: the file it replaces is named by no row once the row  *)
(* names the new one, so the file it drops is nobody's.                       *)
LEMMA FinalizeKeepsFiles ==
    ASSUME FilesInv, NEW n \in Finals, Finalize(n) \/ FinalDies(n)
    PROVE  FilesInv'
PROOF
  <1>0. MediaTypes /\ MediaTypes'
    BY FinalizeKeepsTypes DEF FilesInv
  <1>a. /\ fin[n] \in Passes
        /\ fin[n].now.card \in Cards
        /\ \A m \in Finals : fin[m].now.card \in Cards
    BY <1>0 DEF MediaTypes, Passes, Entries
  <1> USE DEF OnlyFinalize, Holding, Resealing, Replacing
  <1>1. CASE FinalLists(n) \/ FinalSkips(n) \/ FinalEnds(n) \/ FinalDies(n)
    <2>1. /\ UNCHANGED <<row, disk, dl>>
          /\ \A m \in Finals \ {n} : fin'[m] = fin[m]
          /\ fin'[n].at \in {"none", "listed"}
          /\ fin'[n].file \in {NoFile, fin[n].file}
      <3>1. CASE FinalLists(n)
        BY <1>0, <1>a, <3>1 DEF FinalLists, MediaTypes, Passes
      <3>2. CASE FinalSkips(n)
        BY <1>0, <1>a, <3>2 DEF FinalSkips, MediaTypes, Passes
      <3>3. CASE FinalEnds(n)
        BY <1>0, <1>a, <3>3 DEF FinalEnds, NoFinal, MediaTypes
      <3>4. CASE FinalDies(n)
        BY <1>0, <1>a, <3>4 DEF FinalDies, NoFinal, MediaTypes
      <3> QED
        BY <1>1, <3>1, <3>2, <3>3, <3>4
    <2>2. KeepsFiles
      BY <2>1 DEF KeepsFiles
    <2> QED
      BY <1>0, <2>2, KeepingFilesKeepsInv
  <1>2. CASE FinalReseals(n)
    <2>1. PICK x \in fin[n].todo, f \in Fresh :
            /\ Opens(n, x)
            /\ disk' = [disk EXCEPT ![f] = SpaceKey(fin[n].space)]
            /\ fin' = [fin EXCEPT ![n] = [@ EXCEPT !.at = "resealed", !.now = x, !.file = f,
                                                   !.todo = fin[n].todo \ {x}]]
      BY <1>2 DEF FinalReseals
    <2>2. /\ UNCHANGED <<row, dl>>
          /\ \A m \in Finals \ {n} : fin'[m] = fin[m]
          /\ fin'[n].at = "resealed" /\ fin'[n].file = f /\ fin'[n].space = fin[n].space
      BY <1>0, <1>a, <1>2, <2>1 DEF FinalReseals, MediaTypes, Passes
    <2>3. f \in Files /\ f # NoFile
      BY FilesAssumption DEF Fresh
    <2>4. \A g \in Files : disk'[g] = IF g = f THEN SpaceKey(fin[n].space) ELSE disk[g]
      BY <1>0, <2>1, <2>3 DEF MediaTypes
    <2>5. HeldIsUnnamed'
      BY <2>2, <2>3 DEF FilesInv, HeldIsUnnamed, Fresh
    <2>6. ResealedIsUnnamed'
      BY <2>2, <2>3 DEF FilesInv, ResealedIsUnnamed, Fresh
    <2>7. OldIsUnnamed' /\ SeenIsOld'
      BY <2>2 DEF FilesInv, OldIsUnnamed, SeenIsOld
    <2>8. AbsentIsEmpty' /\ RowsAreApart' /\ WrappedHasFile'
      BY <2>2 DEF FilesInv, AbsentIsEmpty, RowsAreApart, WrappedHasFile
    <2>9. FilesAreStored'
      <3>1. \A d \in Downloads : dl[d].at \in {"stored", "loaded"} =>
              dl[d].file \in Files /\ dl[d].file # f
        BY <1>0 DEF FilesInv, HeldIsUnnamed, Fresh, MediaTypes, Tasks
      <3>2. \A m \in Finals \ {n} : Resealing(m) => fin[m].file \in Files /\ fin[m].file # f
        BY <1>0 DEF FilesInv, ResealedIsUnnamed, Fresh, MediaTypes, Passes
      <3> QED
        BY <2>2, <2>3, <2>4, <3>1, <3>2 DEF FilesInv, FilesAreStored, SpaceKey
    <2>10. NoCardLosesItsFile'
      BY <1>0, <2>2, <2>3, <2>4 DEF FilesInv, NoCardLosesItsFile, Fresh, MediaTypes,
         Rows
    <2> QED
      BY <1>0, <2>5, <2>6, <2>7, <2>8, <2>9, <2>10 DEF FilesInv
  <1>3. CASE FinalChecks(n)
    <2>1. /\ UNCHANGED <<row, dl, disk>>
          /\ \A m \in Finals \ {n} : fin'[m] = fin[m]
          /\ fin[n].at = "resealed"
          /\ \/ fin'[n].at = "listed"
             \/ /\ fin'[n].at = "checked"
                /\ row[fin[n].now.card].wrap # NoKey
                /\ row[fin[n].now.card].path = fin[n].now.path
          /\ fin'[n].file = fin[n].file /\ fin'[n].now = fin[n].now
          /\ fin'[n].space = fin[n].space
          /\ fin'[n].seen = row[fin[n].now.card]
      BY ZenonT(60), <1>0, <1>a, <1>3 DEF FinalChecks, MediaTypes, Passes
    <2>2. HeldIsUnnamed'
      BY <1>a, <2>1 DEF FilesInv, HeldIsUnnamed
    <2>3. ResealedIsUnnamed'
      BY <1>a, <2>1 DEF FilesInv, ResealedIsUnnamed
    <2>4. OldIsUnnamed'
      BY <1>a, <2>1 DEF FilesInv, OldIsUnnamed, RowsAreApart, WrappedHasFile
    <2>5. SeenIsOld'
      BY <1>a, <2>1 DEF FilesInv, SeenIsOld
    <2>6. AbsentIsEmpty' /\ RowsAreApart' /\ WrappedHasFile' /\ NoCardLosesItsFile'
      BY <2>1 DEF FilesInv, AbsentIsEmpty, RowsAreApart, WrappedHasFile,
         NoCardLosesItsFile
    <2>7. FilesAreStored'
      BY <2>1 DEF FilesInv, FilesAreStored, SpaceKey
    <2> QED
      BY SMTT(30), <1>0, <2>2, <2>3, <2>4, <2>5, <2>6, <2>7 DEF FilesInv
  <1>4. CASE FinalCommits(n)
    <2> DEFINE c == fin[n].now.card
               done == [fin[n].seen EXCEPT !.path = fin[n].file, !.wrap = NoKey,
                                           !.status = "completed"]
    <2>1. /\ UNCHANGED <<dl, disk>>
          /\ \A m \in Finals \ {n} : fin'[m] = fin[m]
          /\ fin[n].at = "checked"
          /\ fin'[n].at = IF There(c) THEN "committed" ELSE "listed"
          /\ fin'[n].file = fin[n].file /\ fin'[n].now = fin[n].now
      BY <1>0, <1>a, <1>4 DEF FinalCommits, MediaTypes, Passes
    <2>2. CASE ~There(c)
      <3>1. row' = row
        BY <1>4, <2>2 DEF FinalCommits
      <3>2. KeepsFiles
        BY <2>1, <2>2, <3>1 DEF KeepsFiles
      <3> QED
        BY <1>0, <3>2, KeepingFilesKeepsInv
    <2>3. CASE There(c)
      <3>1. /\ done \in Rows /\ fin[n].seen \in Rows
            /\ done.space = fin[n].seen.space /\ done.life = fin[n].seen.life
            /\ done.path = fin[n].file
        BY <1>a DEF Passes, Rows, Statuses
      <3>2. row' = Flush(c, fin[n].seen, done)
        BY <1>4, <2>3 DEF FinalCommits
      <3>3. fin[n].seen.path = fin[n].now.path /\ fin[n].now.path # fin[n].file
        BY <2>1 DEF FilesInv, SeenIsOld, ResealedIsUnnamed
      <3> HIDE DEF done
      <3>4. /\ row'[c].path = fin[n].file
            /\ row'[c].life = row[c].life
            /\ \A e \in Cards \ {c} : row'[e] = row[e]
        BY <1>0, <1>a, <3>1, <3>2, <3>3, FlushWrites DEF MediaTypes
      <3>5. AbsentIsEmpty' /\ WrappedHasFile'
        BY <1>a, <2>1, <2>3, <3>4 DEF FilesInv, AbsentIsEmpty, WrappedHasFile, There,
           ResealedIsUnnamed
      <3>6. RowsAreApart'
        BY <1>a, <2>1, <3>4 DEF FilesInv, RowsAreApart, ResealedIsUnnamed
      <3>7. HeldIsUnnamed'
        BY <1>a, <2>1, <3>4 DEF FilesInv, HeldIsUnnamed
      <3>8. ResealedIsUnnamed'
        BY <1>a, <2>1, <3>4 DEF FilesInv, ResealedIsUnnamed
      <3>9. OldIsUnnamed'
        BY <1>a, <2>1, <2>3, <3>3, <3>4 DEF FilesInv, OldIsUnnamed, ResealedIsUnnamed
      <3>10. SeenIsOld'
        BY <2>1, <2>3 DEF FilesInv, SeenIsOld
      <3>11. FilesAreStored'
        BY <2>1, <2>3 DEF FilesInv, FilesAreStored, SpaceKey
      <3>12. NoCardLosesItsFile'
        <4>1. disk[fin[n].file] # NoKey
          <5>1. fin[n].space \in Spaces
            BY <1>a DEF Passes
          <5> QED
            BY <2>1, <5>1, KeysAreKeys, KeysAssumption DEF FilesInv, FilesAreStored
        <4> QED
          BY <1>a, <2>1, <3>4, <4>1 DEF FilesInv, NoCardLosesItsFile
      <3> QED
        BY <1>0, <3>5, <3>6, <3>7, <3>8, <3>9, <3>10, <3>11, <3>12 DEF FilesInv
    <2> QED
      BY <2>2, <2>3
  <1>5. CASE FinalDrops(n)
    <2>1. /\ UNCHANGED <<row, dl>>
          /\ \A m \in Finals \ {n} : fin'[m] = fin[m]
          /\ fin[n].at = "committed" /\ fin'[n].at = "listed"
          /\ fin'[n].file = fin[n].file
      BY <1>0, <1>a, <1>5 DEF FinalDrops, MediaTypes, Passes
    <2>2. \A g \in Files : g # fin[n].now.path => disk'[g] = disk[g]
      BY <1>0, <1>5 DEF FinalDrops, MediaTypes
    <2>3. \A e \in Cards : row[e].path # fin[n].now.path
      BY <2>1 DEF FilesInv, OldIsUnnamed
    <2>4. HeldIsUnnamed' /\ ResealedIsUnnamed'
      BY <2>1 DEF FilesInv, HeldIsUnnamed, ResealedIsUnnamed
    <2>5. OldIsUnnamed' /\ SeenIsOld'
      BY <2>1 DEF FilesInv, OldIsUnnamed, SeenIsOld
    <2>6. AbsentIsEmpty' /\ RowsAreApart' /\ WrappedHasFile'
      BY <2>1 DEF FilesInv, AbsentIsEmpty, RowsAreApart, WrappedHasFile
    <2>7. FilesAreStored'
      <3>1. \A d \in Downloads : dl[d].at \in {"stored", "loaded"} =>
              dl[d].file \in Files /\ dl[d].file # fin[n].now.path
        BY <1>0, <2>1 DEF FilesInv, HeldIsUnnamed, MediaTypes, Tasks
      <3>2. \A m \in Finals : Resealing(m) =>
              fin[m].file \in Files /\ fin[m].file # fin[n].now.path
        BY <1>0, <2>1 DEF FilesInv, ResealedIsUnnamed, MediaTypes, Passes
      <3> QED
        BY <2>1, <2>2, <3>1, <3>2 DEF FilesInv, FilesAreStored, SpaceKey
    <2>8. NoCardLosesItsFile'
      BY <1>0, <2>1, <2>2, <2>3 DEF FilesInv, NoCardLosesItsFile, MediaTypes, Rows
    <2> QED
      BY <1>0, <2>4, <2>5, <2>6, <2>7, <2>8 DEF FilesInv
  <1> QED
    BY <1>1, <1>2, <1>3, <1>4, <1>5 DEF Finalize

(* No card has a file at the start.                                           *)
LEMMA InitFiles == Init => FilesInv
PROOF
  <1> SUFFICES ASSUME Init PROVE FilesInv
    OBVIOUS
  <1>1. MediaTypes
    BY InitTypes
  <1>2. /\ \A c \in Cards : row[c].path = NoFile /\ row[c].wrap = NoKey
        /\ \A d \in Downloads : dl[d].at = "none"
        /\ \A n \in Finals : fin[n].at = "none"
    BY FirstValues DEF Init, NoRow, NoTask, NoFinal, Rows
  <1> QED
    BY <1>1, <1>2 DEF FilesInv, AbsentIsEmpty, RowsAreApart, WrappedHasFile,
       HeldIsUnnamed,
       ResealedIsUnnamed, OldIsUnnamed, SeenIsOld, FilesAreStored, NoCardLosesItsFile,
       Holding, Resealing, Replacing

(* Every step keeps the invariant of the files.                               *)
LEMMA StepKeepsFiles == FilesInv /\ [Next]_vars => FilesInv'
PROOF
  <1> SUFFICES ASSUME FilesInv, [Next]_vars PROVE FilesInv'
    OBVIOUS
  <1>1. CASE UNCHANGED vars
    <2>1. MediaTypes' /\ KeepsFiles
      BY <1>1 DEF FilesInv, MediaTypes, KeepsFiles, vars
    <2> QED
      BY <2>1, KeepingFilesKeepsInv
  <1> QED
    BY <1>1, WebKeepsFiles, DownloadKeepsFiles, FinalizeKeepsFiles DEF Next

(* Whatever is downloaded twice, finalized twice, moved, deleted, locked or   *)
(* delivered again meanwhile, no step takes from storage the file a card      *)
(* points at.                                                                 *)
THEOREM CardsKeepTheirFiles == Spec => []NoCardLosesItsFile
PROOF
  BY InitFiles, StepKeepsFiles, PTL DEF FilesInv, Spec

-----------------------------------------------------------------------------
(* What "queued" rests on: a card has one download, and a download that has *)
(* been taken has changed the card's status.                                *)
OneEach == \A d, e \in Downloads :
    d # e /\ dl[d].at # "none" /\ dl[e].at # "none" => dl[d].card # dl[e].card

QueuedInv ==
    /\ MediaTypes /\ OneEach
    /\ capturing = {}
    /\ \A d \in Downloads : dl[d].at \notin {"none", "queued"} /\ There(dl[d].card) =>
           row[dl[d].card].status # "queued"
    /\ QueuedIsQueued

(* With one download per card, a status the row itself is given together with *)
(* its download, and nothing that is refused in between, "queued" is true: a  *)
(* step that starts the download says so, and only an ended one is forgotten. *)
LEMMA StepKeepsQueued ==
    ASSUME OneAtATime = TRUE, "capture" \notin Allowed, "dispatchFails" \notin Allowed,
           QueuedInv, [Next]_vars
    PROVE  QueuedInv'
PROOF
  <1>0. MediaTypes /\ MediaTypes'
    BY StepKeepsTypes DEF QueuedInv
  <1>a. /\ row \in [Cards -> Rows] /\ dl \in [Downloads -> Tasks]
        /\ \A d \in Downloads : dl[d].card \in Cards
    BY <1>0 DEF MediaTypes, Tasks
  <1> USE DEF OnlyDownload, OnlyFinalize, There, KeepsRows
  <1>1. ASSUME NEW c \in Cards, NEW d \in Downloads, create_video_capture_item(c, d) PROVE FALSE
    BY <1>1 DEF create_video_capture_item
  <1>2. ASSUME NEW c \in Cards, NEW d \in Downloads, retry_video_download(c, d)
        PROVE QueuedInv'
    <2>1. /\ SameButStatus
          /\ \A e \in Cards \ {c} : row'[e].status = row[e].status
      <3>1. _record_status(c, "queued")
        BY <1>2 DEF retry_video_download
      <3>2. SameButStatus /\ (\A e \in Cards : /\ row'[e].status \in {row[e].status, "queued"}
                                               /\ e # c => row'[e].status = row[e].status)
        BY <1>a, <3>1, StatusOnly DEF Statuses
      <3> QED
        BY <3>2
    <2>2. /\ \A e \in Downloads \ {d} : dl'[e] = dl[e]
          /\ dl'[d].at = "queued" /\ dl'[d].card = c
          /\ \A e \in Downloads : dl[e].at # "none" => dl[e].card # c
          /\ capturing' = capturing
      BY <1>a, <1>2 DEF retry_video_download, queue_video_download, NoTask
    <2>3. OneEach'
      BY <2>2 DEF QueuedInv, OneEach
    <2>4. \A e \in Downloads : dl'[e].at \notin {"none", "queued"} /\ There(dl[e].card)' =>
            row'[dl'[e].card].status # "queued"
      BY <1>a, <2>1, <2>2 DEF QueuedInv, There, SameButStatus
    <2>5. QueuedIsQueued'
      <3>1. \A k \in Cards \ {c} : There(k)' /\ row'[k].status = "queued" =>
              There(k) /\ row[k].status = "queued"
        BY <2>1 DEF SameButStatus
      <3>2. \A k \in Cards \ {c} : There(k)' /\ row'[k].status = "queued" =>
              \E e \in Downloads \ {d} : dl[e].at # "none" /\ dl[e].card = k
        <4> SUFFICES ASSUME NEW k \in Cards \ {c}, There(k), row[k].status = "queued"
                     PROVE  \E e \in Downloads \ {d} : dl[e].at # "none" /\ dl[e].card = k
          BY <3>1
        <4>1. dl[d].at = "none"
          BY <1>2 DEF retry_video_download, queue_video_download
        <4> QED
          BY <4>1 DEF QueuedInv, QueuedIsQueued
      <3> QED
        BY <2>2, <3>2 DEF QueuedIsQueued
    <2> QED
      BY <1>0, <2>2, <2>3, <2>4, <2>5 DEF QueuedInv, There
  <1>3. ASSUME NEW c \in Cards, CaptureEnds(c) \/ RetryNotQueued(c) PROVE FALSE
    BY <1>3 DEF CaptureEnds, RetryNotQueued, MayRetry, QueuedInv
  <1>4. ASSUME UNCHANGED dl, capturing' \subseteq capturing,
               \A c \in Cards : There(c)' => There(c),
               \A c \in Cards : row'[c].status = "queued" => row[c].status = "queued"
        PROVE QueuedInv'
    <2>1. OneEach' /\ capturing' = {}
      BY <1>4 DEF QueuedInv, OneEach
    <2>2. \A e \in Downloads : dl'[e].at \notin {"none", "queued"} /\ There(dl[e].card)' =>
            row'[dl'[e].card].status # "queued"
      BY <1>a, <1>4 DEF QueuedInv, There
    <2>3. QueuedIsQueued'
      BY <1>4, <2>1 DEF QueuedInv, QueuedIsQueued
    <2> QED
      BY <1>0, <2>1, <2>2, <2>3 DEF QueuedInv, There
  <1>5. ASSUME NEW c \in Cards, \/ delete_vault_item(c) \/ DeleteRow(c)
                                \/ \E s \in Spaces : move_sealed_item(c, s)
        PROVE QueuedInv'
    <2>1. /\ UNCHANGED dl /\ capturing' \subseteq capturing
          /\ \A e \in Cards : row'[e].status = row[e].status
          /\ \A e \in Cards : There(e)' => There(e)
      BY <1>a, <1>5 DEF delete_vault_item, DeleteRow, move_sealed_item, There, Rows
    <2> QED
      BY <1>4, <2>1
  <1>6. ASSUME NEW d \in Downloads, Download(d) \/ WorkerDies(d) PROVE QueuedInv'
    <2>0. KeepsRows
      BY <1>0, <1>6, DownloadKeepsRows
    <2>1. /\ UNCHANGED capturing
          /\ \A e \in Downloads \ {d} : dl'[e] = dl[e]
      BY <1>a, <1>6 DEF Download, TakeHandoff, DownloadFails, HandoffExpires,
         LookUpCard,
         PickKey, SaveFile, LoadRow, attach_downloaded_media, Acknowledge, WorkerDies
    <2>2. /\ dl[d].at # "none"
          /\ \/ dl'[d].card = dl[d].card /\ dl'[d].at # "none"
             \/ dl'[d].at = "none" /\ dl[d].at \notin {"none", "queued"}
      <3>1. CASE TakeHandoff(d) \/ DownloadFails(d) \/ HandoffExpires(d) \/ LookUpCard(d)
        BY <1>a, <3>1 DEF TakeHandoff, DownloadFails, HandoffExpires, LookUpCard, Tasks
      <3>2. CASE PickKey(d)
        BY <1>a, <3>2 DEF PickKey, Tasks
      <3>3. CASE SaveFile(d) \/ LoadRow(d) \/ attach_downloaded_media(d)
        BY <1>a, <3>3 DEF SaveFile, LoadRow, attach_downloaded_media, Tasks
      <3>4. CASE Acknowledge(d)
        BY <1>a, <3>4 DEF Acknowledge, NoTask
      <3>5. CASE WorkerDies(d)
        BY <1>a, <3>5, DeadTask
      <3> QED
        BY <1>6, <3>1, <3>2, <3>3, <3>4, <3>5 DEF Download
    <2>3. OneEach'
      BY SMTT(30), <2>1, <2>2 DEF QueuedInv, OneEach
    <2>4. dl'[d].at \notin {"none", "queued"} /\ There(dl[d].card)' =>
            row'[dl'[d].card].status # "queued"
      <3>1. CASE TakeHandoff(d) \/ DownloadFails(d)
        <4>1. There(dl[d].card) => row'[dl[d].card].status # "queued"
          BY <1>a, <3>1, StatusOnly DEF TakeHandoff, DownloadFails, Statuses
        <4> QED
          BY <1>a, <2>0, <2>2, <4>1
      <3>2. CASE dl[d].at \notin {"none", "queued"}
        BY <1>a, <2>0, <2>2, <3>2 DEF QueuedInv
      <3>3. CASE HandoffExpires(d)
        BY <1>a, <3>3 DEF HandoffExpires, Tasks
      <3> QED
        BY <1>6, <3>1, <3>2, <3>3 DEF Download, LookUpCard, PickKey, SaveFile, LoadRow,
           attach_downloaded_media, Acknowledge, WorkerDies
    <2>5. \A e \in Downloads \ {d} :
            dl'[e].at \notin {"none", "queued"} /\ There(dl[e].card)' =>
            row'[dl'[e].card].status # "queued"
      BY <1>a, <2>0, <2>1 DEF QueuedInv
    <2>6. QueuedIsQueued'
      BY <1>a, <2>0, <2>1, <2>2 DEF QueuedInv, QueuedIsQueued
    <2> QED
      BY <1>0, <2>1, <2>3, <2>4, <2>5, <2>6 DEF QueuedInv, There
  <1>7. ASSUME NEW n \in Finals, Finalize(n) \/ FinalDies(n) PROVE QueuedInv'
    <2>1. KeepsRows
      BY <1>0, <1>7, FinalizeKeepsRows
    <2>2. UNCHANGED <<dl, capturing>>
      BY <1>7 DEF Finalize, FinalLists, FinalSkips, FinalReseals, FinalChecks,
         FinalCommits,
         FinalDrops, FinalEnds, FinalDies
    <2> QED
      BY SMTT(30), <1>4, <2>1, <2>2
  <1>8. ASSUME \/ UNCHANGED vars
               \/ \E s \in Spaces : Unlock(s) \/ Lock(s)
               \/ \E n \in Finals, s \in Spaces : queue_finalize_blind_media(n, s)
        PROVE QueuedInv'
    <2>1. UNCHANGED <<row, dl, capturing>>
      BY <1>8 DEF Unlock, Lock, queue_finalize_blind_media, vars
    <2> QED
      BY <1>4, <2>1 DEF There
  <1> QED
    BY <1>1, <1>2, <1>3, <1>5, <1>6, <1>7, <1>8 DEF Next, Web

(* A card that says its download is queued has one, for any number of cards,  *)
(* retries and workers that die: for a card that is already stored, when one  *)
(* download of it runs at a time and the broker takes what it is given.       *)
THEOREM QueuedHasADownload ==
    ASSUME OneAtATime = TRUE, "capture" \notin Allowed, "dispatchFails" \notin Allowed
    PROVE  Spec => []QueuedIsQueued
PROOF
  <1>1. Init => QueuedInv
    <2> SUFFICES ASSUME Init PROVE QueuedInv
      OBVIOUS
    <2>1. /\ \A c \in Cards : row[c].status = "new"
          /\ \A d \in Downloads : dl[d].at = "none"
          /\ capturing = {}
      BY FirstValues DEF Init, NoRow, NoTask, Rows
    <2> QED
      BY <2>1, InitTypes DEF QueuedInv, OneEach, QueuedIsQueued
  <1>2. QueuedInv /\ [Next]_vars => QueuedInv'
    BY StepKeepsQueued
  <1>3. QueuedInv => QueuedIsQueued
    BY DEF QueuedInv
  <1> QED
    BY <1>1, <1>2, <1>3, PTL DEF Spec

-----------------------------------------------------------------------------
(* What opening a card rests on: a wrap names the file it is for, the key a *)
(* download holds is the one its card's space can open, and a finalize has  *)
(* only cards of its own space on its list.                                 *)
WrapIsOfFile == \A c \in Cards : row[c].wrap # NoKey => row[c].wrap.blind = row[c].path

KeyFits(d) ==
    LET c == dl[d].card IN
    /\ dl[d].at # "none" => row[c].life # "absent"
    /\ dl[d].at = "found" => /\ dl[d].seen.space = row[c].space
                             /\ Found(d) \/ row[c].life = "gone"
    /\ Holding(d) /\ There(c) =>
         IF dl[d].wrap = NoKey THEN dl[d].key = SpaceKey(row[c].space)
         ELSE /\ dl[d].key = dl[d].wrap
              /\ dl[d].wrap = BlindKey(row[c].space, dl[d].file)
    /\ dl[d].at = "loaded" =>
         /\ dl[d].seen.wrap = NoKey => row[c].wrap = NoKey
         /\ dl[d].seen.wrap # NoKey => dl[d].seen.wrap.blind = dl[d].seen.path

FinalFits(n) ==
    /\ fin[n].at \notin {"none", "queued"} =>
         \A x \in fin[n].todo : row[x.card].space = fin[n].space
    /\ Resealing(n) \/ Replacing(n) => row[fin[n].now.card].space = fin[n].space

OpensInv == /\ FilesInv /\ OneEach /\ WrapIsOfFile
            /\ \A d \in Downloads : KeyFits(d)
            /\ \A n \in Finals : FinalFits(n)
            /\ MediaOpens

(* What may happen to a card while a download of it keeps its key.            *)
CardGoesOn(c) == /\ row'[c].space = row[c].space
                 /\ row[c].life = "gone" => row'[c].life = "gone"
                 /\ row'[c].life = "absent" => row[c].life = "absent"
                 /\ row[c].wrap = NoKey => row'[c].wrap = NoKey

(* So the key stays the one the card will be opened with.                    *)
LEMMA KeyStaysFit ==
    ASSUME MediaTypes, MediaTypes', NEW d \in Downloads, KeyFits(d), dl'[d] = dl[d],
           dl[d].at # "none" => CardGoesOn(dl[d].card)
    PROVE  KeyFits(d)'
PROOF
  <1>1. /\ dl[d].card \in Cards
        /\ row[dl[d].card] \in Rows /\ row'[dl[d].card] \in Rows
    BY DEF MediaTypes, Tasks
  <1> QED
    BY <1>1 DEF KeyFits, CardGoesOn, Holding, Found, There, SpaceKey, BlindKey, Rows

(* A finalize stays with the cards of its space.                              *)
LEMMA FinalStaysFit ==
    ASSUME MediaTypes, MediaTypes', NEW n \in Finals, FinalFits(n), 
           \A c \in Cards : row'[c].space = row[c].space,
           \/ fin'[n].at \in {"none", "queued"}
           \/ /\ fin[n].at \notin {"none", "queued"}
              /\ fin'[n].space = fin[n].space
              /\ fin'[n].todo \subseteq fin[n].todo
              /\ Resealing(n)' \/ Replacing(n)' =>
                   \/ fin'[n].now = fin[n].now /\ (Resealing(n) \/ Replacing(n))
                   \/ fin'[n].now \in fin[n].todo
    PROVE  FinalFits(n)'
PROOF
  <1>1. /\ fin[n].now.card \in Cards
        /\ \A x \in fin[n].todo : x.card \in Cards
    BY DEF MediaTypes, Passes, Entries
  <1>2. CASE fin'[n].at \in {"none", "queued"}
    BY <1>2 DEF FinalFits, Resealing, Replacing
  <1>3. CASE fin'[n].at \notin {"none", "queued"}
    BY <1>1, <1>3 DEF FinalFits, Resealing, Replacing
  <1> QED
    BY <1>2, <1>3

(* A card keeps its file, as long as neither its columns nor that file change.*)
CardKeepsFile(c) ==
    /\ row'[c].path = row[c].path /\ row'[c].wrap = row[c].wrap
    /\ row'[c].space = row[c].space
    /\ row'[c].life = "there" => row[c].life \in {"there", "absent"}
    /\ row'[c].life = "there" /\ row[c].path # NoFile =>
         disk'[row[c].path] = disk[row[c].path]

(* So a card that opened opens.                                               *)
LEMMA CardsStayOpen ==
    ASSUME OpensInv, \A c \in Cards : CardKeepsFile(c)
    PROVE  WrapIsOfFile' /\ MediaOpens'
PROOF
  <1>1. WrapIsOfFile'
    BY DEF OpensInv, WrapIsOfFile, CardKeepsFile
  <1>2. MediaOpens'
    BY DEF OpensInv, MediaOpens, CardKeepsFile, SpaceKey, FilesInv, AbsentIsEmpty
  <1> QED
    BY <1>1, <1>2

(* The requests leave the files of the cards that stay as they are.           *)
LEMMA WebKeepsOpen ==
    ASSUME OneAtATime = TRUE, "move" \notin Allowed, OpensInv, Web PROVE OpensInv'
PROOF
  <1>0. MediaTypes /\ MediaTypes' /\ FilesInv /\ FilesInv'
    BY WebKeepsTypes, WebKeepsFiles DEF OpensInv, FilesInv
  <1>a. /\ row \in [Cards -> Rows] /\ row' \in [Cards -> Rows]
        /\ dl \in [Downloads -> Tasks]
        /\ fin \in [Finals -> Passes]
        /\ \A d \in Downloads : dl[d].card \in Cards
    BY <1>0 DEF MediaTypes, Tasks
  <1> USE DEF OnlyFinalize
  <1>1. ASSUME NEW c \in Cards, NEW d \in Downloads,
               queue_video_download(d, c, FALSE) \/ queue_video_download(d, c, TRUE),
               row'[c].life # "absent",
               \A e \in Cards : CardGoesOn(e) /\ CardKeepsFile(e),
               UNCHANGED fin
        PROVE OpensInv'
    <2>1. /\ \A e \in Downloads \ {d} : dl'[e] = dl[e]
          /\ dl'[d].at = "queued" /\ dl'[d].card = c
          /\ \A e \in Downloads : dl[e].at # "none" => dl[e].card # c
      <3>1. PICK lends \in BOOLEAN : queue_video_download(d, c, lends)
        BY <1>1
      <3>2. dl' = [dl EXCEPT ![d] = [NoTask EXCEPT !.at = "queued", !.card = c,
                                                   !.lends = lends, !.handoff = TRUE]]
        BY <3>1 DEF queue_video_download
      <3> QED
        BY <1>a, <3>1, <3>2 DEF queue_video_download, NoTask
    <2>2. OneEach'
      BY <2>1 DEF OpensInv, OneEach
    <2>3. KeyFits(d)'
      BY <1>1, <2>1 DEF KeyFits, Holding
    <2>4. \A e \in Downloads : KeyFits(e)'
      BY <1>0, <1>a, <1>1, <2>1, <2>3, KeyStaysFit DEF OpensInv
    <2>5. \A n \in Finals : FinalFits(n)'
      BY <1>0, <1>1, FinalStaysFit DEF OpensInv, CardGoesOn, Resealing, Replacing
    <2> QED
      BY <1>0, <1>1, <2>2, <2>4, <2>5, CardsStayOpen DEF OpensInv
  <1>2. ASSUME NEW c \in Cards, NEW d \in Downloads, create_video_capture_item(c, d)
        PROVE OpensInv'
    <2>1. /\ \A e \in Cards : CardGoesOn(e) /\ CardKeepsFile(e)
          /\ row'[c].life # "absent"
      BY <1>a, <1>2 DEF create_video_capture_item, CardGoesOn, CardKeepsFile
    <2> QED
      BY <1>1, <1>2, <2>1 DEF create_video_capture_item
  <1>3. ASSUME NEW c \in Cards, NEW d \in Downloads, retry_video_download(c, d)
        PROVE OpensInv'
    <2>1. SameButStatus /\ UNCHANGED <<disk, fin>>
      BY <1>a, <1>3, StatusOnly DEF retry_video_download, Statuses
    <2>2. /\ \A e \in Cards : CardGoesOn(e) /\ CardKeepsFile(e)
          /\ row'[c].life # "absent"
      BY <1>3, <2>1 DEF SameButStatus, CardGoesOn, CardKeepsFile,
         retry_video_download, MayRetry,
         There
    <2> QED
      BY <1>1, <1>3, <2>2 DEF retry_video_download
  <1>4. ASSUME UNCHANGED dl, \A c \in Cards : CardGoesOn(c) /\ CardKeepsFile(c),
               \A n \in Finals : fin'[n] = fin[n] \/ fin'[n].at = "queued"
        PROVE OpensInv'
    <2>1. OneEach'
      BY <1>4 DEF OpensInv, OneEach
    <2>2. \A d \in Downloads : KeyFits(d)'
      BY <1>0, <1>a, <1>4, KeyStaysFit DEF OpensInv
    <2>3. \A n \in Finals : FinalFits(n)'
      BY <1>0, <1>4, FinalStaysFit DEF OpensInv, CardGoesOn, Resealing, Replacing
    <2> QED
      BY <1>0, <1>4, <2>1, <2>2, <2>3, CardsStayOpen DEF OpensInv
  <1>5. ASSUME NEW c \in Cards, CaptureEnds(c) \/ RetryNotQueued(c) PROVE OpensInv'
    <2>1. SameButStatus /\ UNCHANGED <<disk, dl, fin>>
      BY <1>a, <1>5, StatusOnly DEF CaptureEnds, RetryNotQueued, Statuses
    <2> QED
      BY <1>4, <2>1 DEF SameButStatus, CardGoesOn, CardKeepsFile
  <1>6. ASSUME NEW c \in Cards, delete_vault_item(c) PROVE OpensInv'
    <2>1. \A e \in Cards : CardGoesOn(e)
      BY <1>a, <1>6 DEF delete_vault_item, CardGoesOn
    <2>2. /\ \A f \in Files : f # row[c].path => disk'[f] = disk[f]
          /\ row'[c].life = "deleting"
          /\ \A e \in Cards : /\ row'[e].path = row[e].path /\ row'[e].wrap = row[e].wrap
                              /\ row'[e].space = row[e].space
                              /\ e # c => row'[e].life = row[e].life
      BY <1>0, <1>a, <1>6 DEF delete_vault_item, MediaTypes
    <2>3. \A e \in Cards : row[e].path \in Files \cup {NoFile}
      BY <1>a DEF Rows
    <2>4. \A e \in Cards : CardKeepsFile(e)
      BY <1>0, <2>2, <2>3 DEF CardKeepsFile, FilesInv, RowsAreApart
    <2> QED
      BY <1>4, <1>6, <2>1, <2>4 DEF delete_vault_item
  <1>7. ASSUME NEW c \in Cards, DeleteRow(c) PROVE OpensInv'
    <2>1. \A e \in Cards : CardGoesOn(e) /\ CardKeepsFile(e)
      BY <1>a, <1>7 DEF DeleteRow, CardGoesOn, CardKeepsFile
    <2> QED
      BY <1>4, <1>7, <2>1 DEF DeleteRow
  <1>8. ASSUME NEW c \in Cards, NEW s \in Spaces, move_sealed_item(c, s) PROVE FALSE
    BY <1>8 DEF move_sealed_item
  <1>9. ASSUME NEW s \in Spaces, Unlock(s) \/ Lock(s) PROVE OpensInv'
    <2>1. UNCHANGED <<row, disk, dl, fin>>
      BY <1>9 DEF Unlock, Lock
    <2> QED
      BY <1>4, <2>1 DEF CardGoesOn, CardKeepsFile
  <1>10. ASSUME NEW n \in Finals, NEW s \in Spaces, queue_finalize_blind_media(n, s)
         PROVE OpensInv'
    <2>1. /\ UNCHANGED <<row, disk, dl>>
          /\ \A m \in Finals : fin'[m] = fin[m] \/ fin'[m].at = "queued"
      BY <1>a, <1>10 DEF queue_finalize_blind_media, Passes
    <2> QED
      BY <1>4, <2>1 DEF CardGoesOn, CardKeepsFile
  <1> QED
    BY <1>2, <1>3, <1>5, <1>6, <1>7, <1>8, <1>9, <1>10 DEF Web

(* A download attaches a file that opens: under the file key of the card's    *)
(* space, or under the blind key it is given in the same transaction.         *)
LEMMA DownloadKeepsOpen ==
    ASSUME "move" \notin Allowed, OpensInv, NEW d \in Downloads,
           Download(d) \/ WorkerDies(d)
    PROVE  OpensInv'
PROOF
  <1>0. MediaTypes /\ MediaTypes' /\ FilesInv /\ FilesInv' /\ KeepsRows
    BY DownloadKeepsTypes, DownloadKeepsFiles, DownloadKeepsRows DEF OpensInv, FilesInv
  <1>a. /\ row \in [Cards -> Rows] /\ row' \in [Cards -> Rows]
        /\ dl \in [Downloads -> Tasks]
        /\ dl[d] \in Tasks
        /\ \A e \in Downloads : dl[e].card \in Cards
        /\ row[dl[d].card] \in Rows
    BY <1>0 DEF MediaTypes, Tasks
  <1> USE DEF OnlyDownload
  <1>b. \A n \in Finals : FinalFits(n)'
    <2>1. UNCHANGED fin
      BY DEF Download, TakeHandoff, DownloadFails, HandoffExpires, LookUpCard, PickKey,
         SaveFile, LoadRow, attach_downloaded_media, Acknowledge, WorkerDies
    <2> QED
      BY SMTT(30), <1>0, <2>1, FinalStaysFit DEF OpensInv, KeepsRows, Resealing, Replacing
  <1>c. /\ \A e \in Downloads \ {d} : dl'[e] = dl[e]
        /\ dl[d].at # "none"
        /\ dl'[d].at # "none" => dl'[d].card = dl[d].card
    <2>1. CASE TakeHandoff(d) \/ DownloadFails(d) \/ HandoffExpires(d) \/ LookUpCard(d)
      BY <1>a, <2>1 DEF TakeHandoff, DownloadFails, HandoffExpires, LookUpCard, Tasks
    <2>2. CASE PickKey(d)
      BY <1>a, <2>2 DEF PickKey, Tasks
    <2>3. CASE SaveFile(d) \/ LoadRow(d) \/ attach_downloaded_media(d)
      BY <1>a, <2>3 DEF SaveFile, LoadRow, attach_downloaded_media, Tasks
    <2>4. CASE Acknowledge(d)
      BY <1>a, <2>4 DEF Acknowledge, NoTask
    <2>5. CASE WorkerDies(d)
      BY <1>a, <2>5, DeadTask
    <2> QED
      BY <2>1, <2>2, <2>3, <2>4, <2>5 DEF Download
  <1>d. OneEach'
    BY <1>c DEF OpensInv, OneEach
  <1>e. ASSUME \A c \in Cards : row'[c].path = row[c].path /\ row'[c].wrap = row[c].wrap,
               \A f \in Files : disk'[f] # disk[f] => dl[d].at = "keyed" /\ f = dl[d].file,
               KeyFits(d)'
        PROVE OpensInv'
    <2>1. \A c \in Cards : CardGoesOn(c)
      BY <1>0, <1>e DEF CardGoesOn, KeepsRows
    <2>2. \A e \in Downloads : KeyFits(e)'
      BY <1>0, <1>a, <1>c, <1>e, <2>1, KeyStaysFit DEF OpensInv
    <2>3. \A c \in Cards : row[c].path \in Files \cup {NoFile}
      BY <1>a DEF Rows
    <2>4. \A c \in Cards : CardKeepsFile(c)
      BY <1>0, <1>e, <2>3 DEF CardKeepsFile, KeepsRows, FilesInv, HeldIsUnnamed, Holding
    <2> QED
      BY <1>0, <1>b, <1>d, <2>2, <2>4, CardsStayOpen DEF OpensInv
  <1>f. row[dl[d].card].life # "absent" /\ row'[dl[d].card].life # "absent"
    BY <1>0, <1>a, <1>c DEF OpensInv, KeyFits, KeepsRows
  <1>1. CASE TakeHandoff(d) \/ DownloadFails(d)
    <2>1. SameButStatus /\ UNCHANGED disk
      BY <1>a, <1>1, StatusOnly DEF TakeHandoff, DownloadFails, Statuses
    <2>2. dl'[d].at \in {"fetching", "acking"}
      <3>1. CASE TakeHandoff(d)
        BY <1>a, <3>1 DEF TakeHandoff, Tasks
      <3>2. CASE DownloadFails(d)
        BY <1>a, <3>2 DEF DownloadFails, Tasks
      <3> QED
        BY <1>1, <3>1, <3>2
    <2>3. KeyFits(d)'
      BY <1>c, <1>f, <2>2 DEF KeyFits, Holding
    <2> QED
      BY <1>e, <2>1, <2>3 DEF SameButStatus
  <1>2. CASE HandoffExpires(d) \/ Acknowledge(d) \/ WorkerDies(d)
    <2>1. UNCHANGED <<row, disk>>
      BY <1>2 DEF HandoffExpires, Acknowledge, WorkerDies
    <2>2. dl'[d].at \in {"none", "queued"}
      <3>1. CASE HandoffExpires(d)
        BY <1>a, <3>1 DEF HandoffExpires, Tasks
      <3>2. CASE Acknowledge(d)
        BY <1>a, <3>2 DEF Acknowledge, NoTask
      <3>3. CASE WorkerDies(d)
        BY <1>a, <3>3, DeadTask
      <3> QED
        BY <1>2, <3>1, <3>2, <3>3
    <2>3. KeyFits(d)'
      BY <1>c, <1>f, <2>2 DEF KeyFits, Holding
    <2> QED
      BY <1>e, <2>1, <2>3
  <1>3. CASE LookUpCard(d)
    <2>1. /\ UNCHANGED <<row, disk>>
          /\ dl'[d].at = "found" /\ dl'[d].card = dl[d].card
          /\ dl'[d].seen = row[dl[d].card]
      BY <1>a, <1>3 DEF LookUpCard, Tasks
    <2>2. Found(d)' \/ row[dl[d].card].life = "gone"
      BY <1>a, <1>f, <2>1 DEF Found, Rows
    <2>3. KeyFits(d)'
      BY <1>f, <2>1, <2>2 DEF KeyFits, Holding
    <2> QED
      BY <1>e, <2>1, <2>3
  <1>4. CASE PickKey(d)
    <2>1. PICK f \in Files :
            dl' = [dl EXCEPT ![d] =
             [@ EXCEPT !.at = "keyed", !.file = f, !.seen = NoRow,
                       !.key = IF ~Found(d) THEN InTheClear
                               ELSE IF Found(d) /\ ~HasFileKey(d)
                                    THEN BlindKey(dl[d].seen.space, f)
                               ELSE SpaceKey(row[dl[d].card].space),
                       !.wrap = IF Found(d) /\ ~HasFileKey(d)
                                THEN BlindKey(dl[d].seen.space, f) ELSE NoKey]]
      BY <1>4 DEF PickKey, Fresh
    <2>2. UNCHANGED <<row, disk>> /\ dl[d].at = "found"
      BY <1>4 DEF PickKey
    <2>3. /\ dl[d].seen.space = row[dl[d].card].space
          /\ There(dl[d].card) => Found(d)
      BY <2>2 DEF OpensInv, KeyFits, There
    <2>4. BlindKey(dl[d].seen.space, f) # NoKey
      BY <1>a, KeysAreKeys, KeysAssumption DEF Tasks, Rows
    <2>5. /\ dl'[d].at = "keyed" /\ dl'[d].card = dl[d].card /\ dl'[d].file = f
          /\ dl'[d].wrap = IF Found(d) /\ ~HasFileKey(d)
                           THEN BlindKey(dl[d].seen.space, f) ELSE NoKey
          /\ dl'[d].key = IF ~Found(d) THEN InTheClear
                          ELSE IF Found(d) /\ ~HasFileKey(d)
                               THEN BlindKey(dl[d].seen.space, f)
                          ELSE SpaceKey(row[dl[d].card].space)
      BY <1>a, <2>1 DEF Tasks
    <2>6. There(dl[d].card)' => There(dl[d].card)
      BY <2>2, <2>5 DEF There
    <2>7. KeyFits(d)'
      BY <1>f, <2>2, <2>3, <2>4, <2>5, <2>6 DEF KeyFits, Holding, SpaceKey, BlindKey
    <2> QED
      BY <1>e, <2>2, <2>7
  <1>5. CASE SaveFile(d)
    <2>1. /\ UNCHANGED row
          /\ dl[d].at = "keyed" /\ dl'[d].at = "stored"
          /\ dl'[d].card = dl[d].card /\ dl'[d].file = dl[d].file
          /\ dl'[d].key = dl[d].key /\ dl'[d].wrap = dl[d].wrap
      BY <1>a, <1>5 DEF SaveFile, Tasks
    <2>2. \A f \in Files : disk'[f] # disk[f] => f = dl[d].file
      BY <1>0, <1>5 DEF SaveFile, MediaTypes
    <2>3. KeyFits(d)'
      BY <1>f, <2>1 DEF OpensInv, KeyFits, Holding, There, SpaceKey, BlindKey
    <2> QED
      BY <1>e, <2>1, <2>2, <2>3
  <1>6. CASE LoadRow(d)
    <2>1. /\ UNCHANGED <<row, disk>>
          /\ dl[d].at = "stored" /\ dl'[d].at \in {"loaded", "acking"}
          /\ dl'[d].card = dl[d].card /\ dl'[d].file = dl[d].file
          /\ dl'[d].key = dl[d].key /\ dl'[d].wrap = dl[d].wrap
          /\ dl'[d].seen = row[dl[d].card]
      BY <1>a, <1>6 DEF LoadRow, Tasks
    <2>2. KeyFits(d)'
      BY ZenonT(60), <1>a, <1>f, <2>1 DEF OpensInv, KeyFits, WrapIsOfFile, Holding, There,
         SpaceKey, BlindKey
    <2> QED
      BY <1>e, <2>1, <2>2
  <1>7. CASE attach_downloaded_media(d)
    <2> DEFINE c == dl[d].card
               attached == [dl[d].seen EXCEPT !.path = dl[d].file, !.wrap = dl[d].wrap,
                        !.status = IF dl[d].wrap # NoKey THEN "blind" ELSE "completed"]
    <2>1. /\ UNCHANGED <<disk, fin>>
          /\ dl[d].at = "loaded" /\ dl'[d].at = "acking"
      BY <1>a, <1>7 DEF attach_downloaded_media, Tasks
    <2>2. KeyFits(d)'
      BY <1>c, <1>f, <2>1 DEF KeyFits, Holding
    <2>3. CASE ~There(c)
      <3>1. row' = row
        BY <1>7, <2>3 DEF attach_downloaded_media
      <3> QED
        BY <1>e, <2>1, <2>2, <3>1
    <2>4. CASE There(c)
      <3>1. /\ attached \in Rows /\ dl[d].seen \in Rows
            /\ attached.space = dl[d].seen.space /\ attached.life = dl[d].seen.life
            /\ attached.path = dl[d].file /\ attached.wrap = dl[d].wrap
        BY <1>a DEF Tasks, Rows, Statuses
      <3>2. row' = Flush(c, dl[d].seen, attached)
        BY <1>7, <2>4 DEF attach_downloaded_media
      <3>3. dl[d].seen.path # dl[d].file
        BY <1>0, <2>1 DEF FilesInv, SeenIsOld
      <3> HIDE DEF attached
      <3>4. /\ row'[c].path = dl[d].file
            /\ row'[c].wrap = IF dl[d].wrap # dl[d].seen.wrap THEN dl[d].wrap ELSE row[c].wrap
            /\ \A e \in Cards \ {c} : row'[e] = row[e]
        BY <1>a, <3>1, <3>2, <3>3, FlushWrites
      <3>5. /\ IF dl[d].wrap = NoKey THEN dl[d].key = SpaceKey(row[c].space)
               ELSE /\ dl[d].key = dl[d].wrap
                    /\ dl[d].wrap = BlindKey(row[c].space, dl[d].file)
            /\ dl[d].seen.wrap = NoKey => row[c].wrap = NoKey
            /\ dl[d].seen.wrap # NoKey => dl[d].seen.wrap.blind = dl[d].seen.path
        BY <2>1, <2>4 DEF OpensInv, KeyFits, Holding
      <3>6. row'[c].wrap = dl[d].wrap
        BY <3>3, <3>4, <3>5 DEF BlindKey
      <3>7. /\ disk[dl[d].file] = dl[d].key /\ dl[d].file # NoFile
        BY <1>0, <2>1 DEF FilesInv, FilesAreStored, HeldIsUnnamed, Holding
      <3>8. WrapIsOfFile'
        BY <1>a, <3>4, <3>5, <3>6 DEF OpensInv, WrapIsOfFile, BlindKey
      <3>9. row'[c].space = row[c].space
        BY <1>0, <1>a DEF KeepsRows
      <3>10. MediaOpens'
        <4>1. IF row'[c].wrap = NoKey THEN disk'[row'[c].path] = SpaceKey(row'[c].space)
              ELSE disk'[row'[c].path] = row'[c].wrap /\ row'[c].wrap.space = row'[c].space
          BY <2>1, <3>4, <3>5, <3>6, <3>7, <3>9 DEF BlindKey, SpaceKey
        <4> QED
          BY <1>a, <2>1, <3>4, <4>1 DEF OpensInv, MediaOpens, SpaceKey
      <3>11. \A e \in Downloads \ {d} : KeyFits(e)'
        <4>1. \A e \in Downloads \ {d} : dl[e].at # "none" => CardGoesOn(dl[e].card)
          BY <1>a, <1>c, <3>4 DEF OpensInv, OneEach, CardGoesOn
        <4> QED
          BY <1>0, <1>c, <4>1, KeyStaysFit DEF OpensInv
      <3> QED
        BY <1>0, <1>b, <1>d, <2>2, <3>8, <3>10, <3>11 DEF OpensInv
    <2> QED
      BY <2>3, <2>4
  <1> QED
    BY <1>1, <1>2, <1>3, <1>4, <1>5, <1>6, <1>7 DEF Download

(* A finalize writes a file under its space's file key, and the row it names  *)
(* it in is of that space.                                                    *)
LEMMA FinalizeKeepsOpen ==
    ASSUME "move" \notin Allowed, OpensInv, NEW n \in Finals, Finalize(n) \/ FinalDies(n)
    PROVE  OpensInv'
PROOF
  <1>0. MediaTypes /\ MediaTypes' /\ FilesInv /\ FilesInv' /\ KeepsRows
    BY FinalizeKeepsTypes, FinalizeKeepsFiles, FinalizeKeepsRows DEF OpensInv, FilesInv
  <1>a. /\ row \in [Cards -> Rows] /\ row' \in [Cards -> Rows]
        /\ fin \in [Finals -> Passes]
        /\ fin[n] \in Passes
        /\ fin[n].now.card \in Cards
        /\ \A d \in Downloads : dl[d].card \in Cards
    BY SMTT(30), <1>0 DEF MediaTypes, Tasks, Passes, Entries
  <1> USE DEF OnlyFinalize
  <1>b. UNCHANGED dl
    BY DEF Finalize, FinalLists, FinalSkips, FinalReseals, FinalChecks, FinalCommits,
       FinalDrops, FinalEnds, FinalDies
  <1>c. \A m \in Finals \ {n} : fin'[m] = fin[m]
    BY <1>a DEF Finalize, FinalLists, FinalSkips, FinalReseals, FinalChecks,
       FinalCommits,
       FinalDrops, FinalEnds, FinalDies
  <1>d. OneEach'
    BY <1>b DEF OpensInv, OneEach
  <1>e. \A m \in Finals \ {n} : FinalFits(m)'
    BY <1>0, <1>c, FinalStaysFit DEF OpensInv, KeepsRows, Resealing, Replacing
  <1>f. FinalFits(n)'
    <2>1. CASE FinalLists(n)
      <3>1. /\ fin'[n].at = "listed" /\ fin'[n].space = fin[n].space
            /\ \A x \in fin'[n].todo : x.card \in Cards /\ row[x.card].space = fin[n].space
        BY <1>a, <2>1 DEF FinalLists, Passes
      <3> QED
        BY <1>0, <3>1 DEF FinalFits, Resealing, Replacing, KeepsRows
    <2>2. CASE FinalSkips(n)
      <3>1. /\ fin[n].at = "listed" /\ fin'[n].at = "listed" /\ fin'[n].space = fin[n].space
            /\ fin'[n].todo \subseteq fin[n].todo
        BY <1>a, <2>2 DEF FinalSkips, Passes
      <3> QED
        BY <1>0, <3>1, FinalStaysFit DEF OpensInv, KeepsRows, Resealing, Replacing
    <2>3. CASE FinalReseals(n)
      <3>1. PICK x \in fin[n].todo, f \in Fresh :
              fin' = [fin EXCEPT ![n] = [@ EXCEPT !.at = "resealed", !.now = x, !.file = f,
                                                  !.todo = fin[n].todo \ {x}]]
        BY <2>3 DEF FinalReseals
      <3>2. /\ fin[n].at = "listed" /\ fin'[n].at = "resealed" /\ fin'[n].space = fin[n].space
            /\ fin'[n].todo \subseteq fin[n].todo /\ fin'[n].now \in fin[n].todo
        BY <1>a, <2>3, <3>1 DEF FinalReseals, Passes
      <3> QED
        BY <1>0, <3>2, FinalStaysFit DEF OpensInv, KeepsRows, Resealing, Replacing
    <2>4. CASE FinalChecks(n) \/ FinalCommits(n) \/ FinalDrops(n)
      <3>1. /\ fin[n].at \in {"resealed", "checked", "committed"}
            /\ fin'[n].space = fin[n].space
            /\ fin'[n].todo = fin[n].todo /\ fin'[n].now = fin[n].now
        BY <1>a, <2>4 DEF FinalChecks, FinalCommits, FinalDrops, Passes
      <3> QED
        BY <1>0, <3>1, FinalStaysFit DEF OpensInv, KeepsRows, Resealing, Replacing
    <2>5. CASE FinalEnds(n) \/ FinalDies(n)
      <3>1. fin'[n].at = "none"
        BY <1>a, <2>5 DEF FinalEnds, FinalDies, NoFinal
      <3> QED
        BY <3>1 DEF FinalFits, Resealing, Replacing
    <2> QED
      BY <2>1, <2>2, <2>3, <2>4, <2>5 DEF Finalize
  <1>g. ASSUME UNCHANGED row, 
               \A c \in Cards : row[c].path # NoFile => disk'[row[c].path] = disk[row[c].path]
        PROVE OpensInv'
    <2>1. \A c \in Cards : CardGoesOn(c) /\ CardKeepsFile(c)
      BY <1>g DEF CardGoesOn, CardKeepsFile
    <2>2. \A d \in Downloads : KeyFits(d)'
      BY <1>0, <1>a, <1>b, <2>1, KeyStaysFit DEF OpensInv
    <2> QED
      BY <1>0, <1>d, <1>e, <1>f, <2>1, <2>2, CardsStayOpen DEF OpensInv
  <1>h. \A c \in Cards : row[c].path \in Files \cup {NoFile}
    BY <1>a DEF Rows
  <1>1. CASE FinalLists(n) \/ FinalSkips(n) \/ FinalChecks(n) \/ FinalEnds(n) \/ FinalDies(n)
    BY <1>1, <1>g DEF FinalLists, FinalSkips, FinalChecks, FinalEnds, FinalDies
  <1>2. CASE FinalReseals(n)
    <2>1. PICK f \in Fresh : disk' = [disk EXCEPT ![f] = SpaceKey(fin[n].space)]
      BY <1>2 DEF FinalReseals
    <2>2. \A g \in Files : g # f => disk'[g] = disk[g]
      BY <1>0, <2>1 DEF MediaTypes
    <2>3. UNCHANGED row
      BY <1>2 DEF FinalReseals
    <2> QED
      BY <1>g, <1>h, <2>2, <2>3 DEF Fresh
  <1>3. CASE FinalDrops(n)
    <2>1. \A c \in Cards : row[c].path # fin[n].now.path
      BY <1>0, <1>3 DEF FinalDrops, FilesInv, OldIsUnnamed, Replacing
    <2>2. \A g \in Files : g # fin[n].now.path => disk'[g] = disk[g]
      BY <1>0, <1>3 DEF FinalDrops, MediaTypes
    <2>3. UNCHANGED row
      BY <1>3 DEF FinalDrops
    <2> QED
      BY <1>g, <1>h, <2>1, <2>2, <2>3
  <1>4. CASE FinalCommits(n)
    <2> DEFINE c == fin[n].now.card
               done == [fin[n].seen EXCEPT !.path = fin[n].file, !.wrap = NoKey,
                                           !.status = "completed"]
    <2>1. UNCHANGED disk /\ fin[n].at = "checked"
      BY <1>4 DEF FinalCommits
    <2>2. CASE ~There(c)
      <3>1. row' = row
        BY <1>4, <2>2 DEF FinalCommits
      <3> QED
        BY <1>g, <2>1, <3>1
    <2>3. CASE There(c)
      <3>1. /\ done \in Rows /\ fin[n].seen \in Rows
            /\ done.space = fin[n].seen.space /\ done.life = fin[n].seen.life
            /\ done.path = fin[n].file /\ done.wrap = NoKey
        BY <1>a DEF Passes, Rows, Statuses
      <3>2. row' = Flush(c, fin[n].seen, done)
        BY <1>4, <2>3 DEF FinalCommits
      <3>3. fin[n].seen.path # fin[n].file /\ fin[n].seen.wrap # NoKey
        BY <1>0, <2>1 DEF FilesInv, SeenIsOld, ResealedIsUnnamed, Resealing, Replacing
      <3> HIDE DEF done
      <3>4. /\ row'[c].path = fin[n].file /\ row'[c].wrap = NoKey
            /\ \A e \in Cards \ {c} : row'[e] = row[e]
        BY <1>a, <3>1, <3>2, <3>3, FlushWrites
      <3>5. /\ disk[fin[n].file] = SpaceKey(fin[n].space)
            /\ row'[c].space = fin[n].space
        BY <1>0, <1>a, <2>1 DEF OpensInv, FinalFits, FilesInv, FilesAreStored,
           KeepsRows,
           Resealing
      <3>6. WrapIsOfFile'
        BY <1>a, <3>4 DEF OpensInv, WrapIsOfFile
      <3>7. MediaOpens'
        BY <1>a, <2>1, <3>4, <3>5 DEF OpensInv, MediaOpens, SpaceKey
      <3>8. \A e \in Cards : CardGoesOn(e)
        BY <1>0, <1>a, <3>4 DEF CardGoesOn, KeepsRows
      <3>9. \A d \in Downloads : KeyFits(d)'
        BY <1>0, <1>a, <1>b, <3>8, KeyStaysFit DEF OpensInv
      <3> QED
        BY <1>0, <1>d, <1>e, <1>f, <3>6, <3>7, <3>9 DEF OpensInv
    <2> QED
      BY <2>2, <2>3
  <1> QED
    BY <1>1, <1>2, <1>3, <1>4 DEF Finalize

(* Every step of such a system keeps the media of its cards openable.         *)
LEMMA StepKeepsOpen ==
    ASSUME OneAtATime = TRUE, "move" \notin Allowed, OpensInv, [Next]_vars PROVE OpensInv'
PROOF
  <1>1. CASE UNCHANGED vars
    <2>1. UNCHANGED <<row, disk, dl, fin>> /\ MediaTypes /\ MediaTypes' /\ FilesInv'
      BY <1>1, StepKeepsTypes, StepKeepsFiles DEF vars, OpensInv, FilesInv
    <2>2. \A c \in Cards : CardGoesOn(c) /\ CardKeepsFile(c)
      BY <2>1 DEF CardGoesOn, CardKeepsFile
    <2>3. \A d \in Downloads : dl[d].card \in Cards
      BY <2>1 DEF MediaTypes, Tasks
    <2>4. \A d \in Downloads : KeyFits(d)'
      BY <2>1, <2>2, <2>3, KeyStaysFit DEF OpensInv
    <2>5. \A n \in Finals : FinalFits(n)'
      BY <2>1, FinalStaysFit DEF OpensInv, Resealing, Replacing
    <2> QED
      BY <2>1, <2>2, <2>4, <2>5, CardsStayOpen DEF OpensInv, OneEach
  <1> QED
    BY <1>1, WebKeepsOpen, DownloadKeepsOpen, FinalizeKeepsOpen DEF Next

(* The file a card points at is there and opens: under its space's file key,  *)
(* or under the blind key whose wrap its space can open.  For any number of   *)
(* cards, spaces, workers, finalizes and crashes, whenever the vault locks    *)
(* and whatever is deleted or downloaded again; a card is not moved, and has  *)
(* one download at a time (two of them write each other's wrap).              *)
THEOREM EveryCardOpens ==
    ASSUME OneAtATime = TRUE, "move" \notin Allowed PROVE Spec => []MediaOpens
PROOF
  <1>1. Init => OpensInv
    <2> SUFFICES ASSUME Init PROVE OpensInv
      OBVIOUS
    <2>1. /\ \A c \in Cards : row[c].path = NoFile /\ row[c].wrap = NoKey
          /\ \A d \in Downloads : dl[d].at = "none"
          /\ \A n \in Finals : fin[n].at = "none"
      BY FirstValues DEF Init, NoRow, NoTask, NoFinal, Rows
    <2> QED
      BY <2>1, InitFiles DEF OpensInv, OneEach, WrapIsOfFile, KeyFits, FinalFits,
         MediaOpens,
         Holding, Resealing, Replacing
  <1>2. OpensInv /\ [Next]_vars => OpensInv'
    BY StepKeepsOpen
  <1>3. OpensInv => MediaOpens
    BY DEF OpensInv
  <1> QED
    BY <1>1, <1>2, <1>3, PTL DEF Spec
=============================================================================
