---------------------------- MODULE VideoArchive ----------------------------
(***************************************************************************)
(* The video archive (video_archiver/tasks.py, router.py): a playlist is   *)
(* synchronized by a task that lists its source and sends one download per *)
(* video it does not have; each task has a tracker in Redis, written       *)
(* before the message, that the dashboard lists and the owner cancels by.  *)
(* The files are left to VideoCompression.                                 *)
(*                                                                         *)
(* Tasks run beside each other.  One whose worker dies is delivered again  *)
(* from its start (acks_late), or lost when only the child that ran it was *)
(* killed (no task_reject_on_worker_lost); one that is revoked ends some   *)
(* time later, and may write its tracker until then.                       *)
(***************************************************************************)
EXTENDS Integers, FiniteSets

CONSTANTS Clips,        \* the videos of the source
          MaxTasks,     \* tasks that are waiting or running at a time
          MaxKills,     \* workers that die
          MaxClicks     \* requests of the owner

ASSUME ArchiveAssumption ==
    MaxTasks \in Nat /\ MaxKills \in Nat /\ MaxClicks \in Nat /\ IsFiniteSet(Clips)

VARIABLES source,     \* the entries of the playlist at its platform
          clips,      \* ArchivedVideo.status, "none" without a row
          playlist,   \* the videos linked to the playlist
          playlistThere,
          tasks,      \* the tasks, by number
          tracker,    \* video_dl:{task_id}
          owed,       \* videos a sync listed and did not bring in yet
          strayed,    \* those of them whose task was lost, until a sync lists them again
          kills, clicks

archiveTables == <<clips, playlist, playlistThere>>
archiveVars == <<source, archiveTables, tasks, tracker, owed, strayed, kills, clicks>>

TaskIds == 1..MaxTasks
NoTask == [kind |-> "none", at |-> "none", clip |-> {}, inPlaylist |-> FALSE,
           todo |-> {}, links |-> {}, revoked |-> FALSE]
Spare == {t \in TaskIds : tasks[t].kind = "none"}
Free == CHOOSE t \in Spare : \A u \in Spare : t <= u
In(t, kind, at) == tasks[t].kind = kind /\ tasks[t].at = at

\* dispatch_tracked: the tracker first, then the message.
dispatch_tracked(task) ==
    /\ Spare # {}
    /\ tasks' = [tasks EXCEPT ![Free] = task]
    /\ tracker' = [tracker EXCEPT ![Free] = "running"]

Message(kind, clip, inPlaylist) ==
    [NoTask EXCEPT !.kind = kind, !.at = "queued", !.clip = clip, !.inPlaylist = inPlaylist]

\* A task goes on to a step, having told its tracker; or it is over.
Proceeds(t, changed) ==
    /\ tasks' = [tasks EXCEPT ![t] = changed]
    /\ tracker' = [tracker EXCEPT ![t] = "running"]
Over(t, told) ==
    /\ tasks' = [tasks EXCEPT ![t] = NoTask]
    /\ tracker' = [tracker EXCEPT ![t] = told]

\* What is owed though a task comes to its end: other tasks are about it.
DueElsewhere(t) == {v \in owed : \E u \in TaskIds \ {t} :
                                  /\ tasks[u].inPlaylist
                                  /\ v \in tasks[u].clip \cup tasks[u].todo \cup tasks[u].links}

\* The playlist grows at its platform.
SourceGrows(v) ==
    /\ v \notin source /\ source' = source \cup {v}
    /\ UNCHANGED <<archiveTables, tasks, tracker, owed, strayed, kills, clicks>>

-----------------------------------------------------------------------------
\* process_video_url_task, for a playlist.
StartsSync(t) ==
    /\ In(t, "sync", "queued")
    /\ Proceeds(t, [tasks[t] EXCEPT !.at = "listing"])
    /\ UNCHANGED <<source, archiveTables, owed, strayed, kills, clicks>>

\* The source answers with its entries, those linked already are left out.
ListsSource(t) ==
    /\ In(t, "sync", "listing")
    /\ IF playlistThere
       THEN /\ tasks' = [tasks EXCEPT ![t].at = "entries", ![t].todo = source \ playlist]
            /\ owed' = owed \cup (source \ playlist)
            /\ strayed' = strayed \ (source \ playlist)
            /\ UNCHANGED tracker
       ELSE Over(t, "failed") /\ UNCHANGED <<owed, strayed>>
    /\ UNCHANGED <<source, archiveTables, kills, clicks>>

SourceFails(t) ==
    /\ In(t, "sync", "listing")
    /\ Over(t, "failed")
    /\ owed' = DueElsewhere(t)
    /\ UNCHANGED <<source, archiveTables, strayed, kills, clicks>>

\* The link of a video that was linked or deleted meanwhile, or to a playlist
\* that is gone, ends the task where it is: its links are rolled back, its
\* tracker stays.
Refused(links) ==
    links \cap playlist # {} \/ ~playlistThere \/ \E v \in links : clips[v] = "none"

Aborts(t) ==
    /\ tasks' = [tasks EXCEPT ![t] = NoTask]
    /\ owed' = DueElsewhere(t)
    /\ UNCHANGED tracker

\* Mutant: a video that is archived already needs nothing.
LinksNothing(t, v) ==
    /\ In(t, "sync", "entries") /\ v \in tasks[t].todo /\ clips[v] # "none"
    /\ tasks' = [tasks EXCEPT ![t].todo = @ \ {v}]
    /\ UNCHANGED <<source, archiveTables, tracker, owed, strayed, kills, clicks>>

LinksEntry(t, v) ==
    /\ In(t, "sync", "entries") /\ v \in tasks[t].todo /\ clips[v] # "none"
    /\ IF Refused({v})
       THEN Aborts(t)
       ELSE /\ tasks' = [tasks EXCEPT ![t].todo = @ \ {v}, ![t].links = @ \cup {v}]
            /\ UNCHANGED <<tracker, owed>>
    /\ UNCHANGED <<source, archiveTables, strayed, kills, clicks>>

dispatch_download(t, v) ==
    /\ In(t, "sync", "entries") /\ v \in tasks[t].todo /\ clips[v] = "none"
    /\ Spare # {}
    /\ tasks' = [tasks EXCEPT ![t].todo = @ \ {v}, ![Free] = Message("download", {v}, TRUE)]
    /\ tracker' = [tracker EXCEPT ![Free] = "running"]
    /\ UNCHANGED <<source, archiveTables, owed, strayed, kills, clicks>>

\* The broker does not take it: the task ends on the exception, as above.
DispatchFails(t, v) ==
    /\ In(t, "sync", "entries") /\ v \in tasks[t].todo /\ clips[v] = "none"
    /\ Aborts(t)
    /\ UNCHANGED <<source, archiveTables, strayed, kills, clicks>>

CommitsLinks(t) ==
    /\ In(t, "sync", "entries") /\ tasks[t].todo = {}
    /\ IF tasks[t].links # {} /\ Refused(tasks[t].links)
       THEN Aborts(t) /\ UNCHANGED playlist
       ELSE /\ playlist' = playlist \cup tasks[t].links
            /\ owed' = owed \ tasks[t].links
            /\ Over(t, "none")
    /\ UNCHANGED <<source, clips, playlistThere, strayed, kills, clicks>>

-----------------------------------------------------------------------------
\* download_video_task.  A video another task brought in is only linked.
Brought(t, v) ==
    /\ playlist' = IF tasks[t].inPlaylist /\ playlistThere THEN playlist \cup {v} ELSE playlist
    /\ owed' = IF tasks[t].inPlaylist THEN owed \ {v} ELSE owed
    /\ Over(t, "none")

StartsDownload(t, v) ==
    /\ In(t, "download", "queued") /\ v \in tasks[t].clip
    /\ IF clips[v] # "none"
       THEN Brought(t, v)
       ELSE /\ Proceeds(t, [tasks[t] EXCEPT !.at = "fetching"])
            /\ UNCHANGED <<playlist, owed>>
    /\ UNCHANGED <<source, clips, playlistThere, strayed, kills, clicks>>

DownloadFails(t, v) ==
    /\ In(t, "download", "fetching") /\ v \in tasks[t].clip
    /\ Over(t, "failed")
    /\ owed' = IF tasks[t].inPlaylist THEN owed \ {v} ELSE owed
    /\ UNCHANGED <<source, archiveTables, strayed, kills, clicks>>

CommitsClip(t, v) ==
    /\ In(t, "download", "fetching") /\ v \in tasks[t].clip
    /\ clips' = [clips EXCEPT ![v] = "completed"]
    /\ Brought(t, v)
    /\ UNCHANGED <<source, playlistThere, strayed, kills, clicks>>

-----------------------------------------------------------------------------
\* _sync_video_metadata: only a refusal touches the status, nothing restores it.
_sync_video_metadata(t, v, answer) ==
    /\ In(t, "metadata", "queued") /\ v \in tasks[t].clip
    /\ clips' = IF answer = "auth" /\ clips[v] # "none"
                THEN [clips EXCEPT ![v] = "auth_required"] ELSE clips
    /\ Over(t, "none")
    /\ UNCHANGED <<source, playlist, playlistThere, owed, strayed, kills, clicks>>

\* The worker of a task dies, what it did not commit is gone: the broker delivers
\* the task again, or it was acknowledged for its child and is gone as well, its
\* tracker says "running" until the key expires.
TaskIsKilled(t) ==
    /\ tasks[t].at \notin {"none", "queued"} /\ kills < MaxKills
    /\ kills' = kills + 1
    /\ \/ /\ tasks' = [tasks EXCEPT ![t].at = "queued", ![t].todo = {}, ![t].links = {}]
          /\ UNCHANGED strayed
       \/ /\ tasks' = [tasks EXCEPT ![t] = NoTask]
          /\ strayed' = strayed \cup (owed \ DueElsewhere(t))
    /\ UNCHANGED <<source, archiveTables, tracker, owed, clicks>>

\* A revoked task ends, wherever it is.
Terminates(t) ==
    /\ tasks[t].revoked
    /\ tasks' = [tasks EXCEPT ![t] = NoTask]
    /\ owed' = DueElsewhere(t)
    /\ UNCHANGED <<source, archiveTables, tracker, strayed, kills, clicks>>

-----------------------------------------------------------------------------
\* The owner's requests.
sync_playlist_source ==
    /\ playlistThere
    /\ dispatch_tracked(Message("sync", {}, TRUE))
    /\ UNCHANGED <<archiveTables, owed>>

trigger_download(v) ==
    /\ dispatch_tracked(Message("download", {v}, FALSE))
    /\ UNCHANGED <<archiveTables, owed>>

sync_video(v) ==
    /\ clips[v] # "none"
    /\ dispatch_tracked(Message("metadata", {v}, FALSE))
    /\ UNCHANGED <<archiveTables, owed>>

delete_archived_video(v) ==
    /\ clips[v] # "none"
    /\ clips' = [clips EXCEPT ![v] = "none"]
    /\ playlist' = playlist \ {v}
    /\ owed' = owed \ {v}
    /\ UNCHANGED <<playlistThere, tasks, tracker>>

add_video_to_playlist(v) ==
    /\ playlistThere /\ clips[v] # "none"
    /\ playlist' = playlist \cup {v}
    /\ owed' = owed \ {v}
    /\ UNCHANGED <<clips, playlistThere, tasks, tracker>>

remove_video_from_playlist(v) ==
    /\ v \in playlist
    /\ playlist' = playlist \ {v}
    /\ UNCHANGED <<clips, playlistThere, owed, tasks, tracker>>

delete_playlist ==
    /\ playlistThere
    /\ playlistThere' = FALSE /\ playlist' = {} /\ owed' = {}
    /\ UNCHANGED <<clips, tasks, tracker>>

cancel_tracked_task(t) ==
    /\ tracker[t] # "none" /\ ~tasks[t].revoked
    /\ tasks' = [tasks EXCEPT ![t].revoked = (t \notin Spare)]
    /\ tracker' = [tracker EXCEPT ![t] = "none"]
    /\ UNCHANGED <<archiveTables, owed>>

OwnerClicks ==
    /\ clicks < MaxClicks /\ clicks' = clicks + 1 /\ UNCHANGED <<source, strayed, kills>>
    /\ \/ sync_playlist_source \/ delete_playlist
       \/ \E v \in Clips : \/ trigger_download(v) \/ sync_video(v) \/ delete_archived_video(v)
                           \/ add_video_to_playlist(v) \/ remove_video_from_playlist(v)
       \/ \E t \in TaskIds : cancel_tracked_task(t)

TaskSteps(t) ==
    \/ StartsSync(t) \/ ListsSource(t) \/ CommitsLinks(t) \/ Terminates(t) \/ SourceFails(t)
    \/ \E v \in Clips : \/ LinksEntry(t, v) \/ dispatch_download(t, v) \/ DispatchFails(t, v)
                        \/ StartsDownload(t, v) \/ DownloadFails(t, v)
                        \/ CommitsClip(t, v)
                        \/ \E answer \in {"ok", "auth"} : _sync_video_metadata(t, v, answer)

ArchiveInit ==
    /\ source = {}
    /\ clips = [v \in Clips |-> "none"]
    /\ playlist = {} /\ playlistThere = TRUE
    /\ tasks = [t \in TaskIds |-> NoTask] /\ tracker = [t \in TaskIds |-> "none"]
    /\ owed = {} /\ strayed = {} /\ kills = 0 /\ clicks = 0

ArchiveNext ==
    \/ OwnerClicks
    \/ \E v \in Clips : SourceGrows(v)
    \/ \E t \in TaskIds : TaskSteps(t) \/ TaskIsKilled(t)

ArchiveFairness == \A t \in TaskIds : WF_archiveVars(TaskSteps(t))
ArchiveSpec == ArchiveInit /\ [][ArchiveNext]_archiveVars /\ ArchiveFairness

-----------------------------------------------------------------------------
ArchiveTypeOK ==
    /\ source \subseteq Clips
    /\ clips \in [Clips -> {"none", "completed", "auth_required"}]
    /\ playlist \subseteq Clips /\ playlistThere \in BOOLEAN
    /\ tasks \in [TaskIds -> [kind : {"none", "sync", "download", "metadata"},
                              at : {"none", "queued", "listing", "entries", "fetching"},
                              clip : SUBSET Clips, inPlaylist : BOOLEAN, todo : SUBSET Clips,
                              links : SUBSET Clips, revoked : BOOLEAN]]
    /\ tracker \in [TaskIds -> {"none", "running", "failed"}]
    /\ owed \subseteq Clips /\ strayed \subseteq Clips
    /\ kills \in 0..MaxKills /\ clicks \in 0..MaxClicks

(* A video that a sync listed is brought into the playlist, unless its        *)
(* download is reported failed, the owner cancels or deletes it, the sync     *)
(* ends on a refused link or dispatch, or the only task about it is lost with *)
(* the child that ran it - and that one comes with the next sync listing it.  *)
(* Workers die at any step, other syncs and downloads run beside it.          *)
PlaylistFills == \A v \in Clips : v \in owed ~> v \notin owed \/ v \in strayed
=============================================================================
