------------------------------- MODULE Music -------------------------------
(***************************************************************************)
(* The music library (music/tasks.py, router.py).  A download stores the   *)
(* audio under a name made from the video's id, so that two rows may name  *)
(* one file; the audio of an archived video is stored under the name of    *)
(* its conversion task.  A song is deleted first, its file after it, and   *)
(* only if no other row names the file by then.                            *)
(*                                                                         *)
(* Rows are inserted by one commit each.  A task whose worker dies is      *)
(* delivered again from its start, or lost with the child that ran it.     *)
(***************************************************************************)
EXTENDS Integers, FiniteSets

CONSTANTS Tunes,         \* the videos songs are made from
          MaxSongs,      \* rows that are ever inserted
          SongTasks,     \* tasks the owner or a playlist starts
          Deleters,      \* requests that delete a song, beside each other
          MaxLosses      \* workers that die

ASSUME MusicAssumption == MaxSongs \in Nat /\ MaxLosses \in Nat /\ IsFiniteSet(Tunes)

VARIABLES songs,      \* the rows: the tune and the file each names
          audio,      \* the files in the storage
          listedSongs,\* the rows linked to the playlist
          songTask,   \* the tasks
          deleter,    \* the deletions that are under way
          spoiled,    \* tunes whose file may be gone under a row: see SharedAudioStays
          losses

musicVars == <<songs, audio, listedSongs, songTask, deleter, spoiled, losses>>

NoSong == [tune |-> {}, file |-> {}]
NoSongTask == [kind |-> "none", at |-> "none", tune |-> {}, toPlaylist |-> FALSE]
NoDeletion == [at |-> "no", file |-> {}]
SongIds == 1..MaxSongs
Listed == {i \in SongIds : songs[i] # NoSong}
SongsOf(tune) == {i \in Listed : songs[i].tune = tune}
Naming(file) == {i \in Listed : songs[i].file = file}

\* A conversion stores under its own name, a download under the tune's.
FileOf(t) == IF songTask[t].kind = "convert" THEN {<<"archive", t>>}
             ELSE {<<"video", v>> : v \in songTask[t].tune}
TaskGoes(t, at) == songTask' = [songTask EXCEPT ![t].at = at]
TaskEnds(t) == songTask' = [songTask EXCEPT ![t] = [NoSongTask EXCEPT !.kind = "over"]]
Starts(t, kind, tune, toPlaylist) ==
    /\ songTask[t].kind = "none"
    /\ songTask' = [songTask EXCEPT ![t] =
         [kind |-> kind, at |-> "queued", tune |-> {tune}, toPlaylist |-> toPlaylist]]

-----------------------------------------------------------------------------
\* process_youtube_url_task, of one entry: a song that is there is linked.
process_youtube_url_task(t) ==
    LET known == SongsOf(songTask[t].tune)
    IN /\ songTask[t].kind = "resolve"
       /\ IF known # {}
          THEN /\ TaskEnds(t)
               /\ \E i \in known :
                     listedSongs' = IF songTask[t].toPlaylist THEN listedSongs \cup {i} ELSE listedSongs
          ELSE /\ songTask' = [songTask EXCEPT ![t].kind = "song"]
               /\ UNCHANGED listedSongs
       /\ UNCHANGED <<songs, audio, deleter, spoiled, losses>>

\* Both kinds of task: what is under way fails, or stores its file.  A
\* conversion looks for its song first; a download does not look again.
SongFails(t) ==
    /\ songTask[t].at \in {"queued", "fetched"} /\ songTask[t].kind \in {"song", "convert"}
    /\ TaskEnds(t)
    /\ UNCHANGED <<songs, audio, listedSongs, deleter, spoiled, losses>>

\* The one song of the tune the query returns, of several any.
Finds(t, i) == i \in SongsOf(songTask[t].tune)
AlreadyAvailable(t) ==
    /\ songTask[t].kind = "convert" /\ songTask[t].at = "queued"
    /\ \E i \in SongIds : Finds(t, i) /\ songs[i].file \subseteq audio
    /\ TaskEnds(t)
    /\ UNCHANGED <<songs, audio, listedSongs, deleter, spoiled, losses>>

FetchesAudio(t) ==
    /\ songTask[t].at = "queued"
    /\ \/ songTask[t].kind = "song"
       \/ /\ songTask[t].kind = "convert"
          /\ \A i \in SongIds : ~Finds(t, i)
       \/ /\ songTask[t].kind = "convert"
          /\ \E i \in SongIds : Finds(t, i) /\ ~(songs[i].file \subseteq audio)
    /\ TaskGoes(t, "fetched")
    /\ UNCHANGED <<songs, audio, listedSongs, deleter, spoiled, losses>>

_save_audio_file(t) ==
    /\ songTask[t].at = "fetched"
    /\ audio' = audio \cup FileOf(t)
    /\ TaskGoes(t, "stored")
    /\ spoiled' = spoiled \cup {v \in songTask[t].tune :
                                \E d \in Deleters : deleter[d].file = FileOf(t)}
    /\ UNCHANGED <<songs, listedSongs, deleter, losses>>

\* The commit; one that fails leaves a download's file, not a conversion's.
InsertsSong(t, i) ==
    /\ songTask[t].at = "stored" /\ i \notin Listed /\ \A j \in SongIds \ Listed : i <= j
    /\ songs' = [songs EXCEPT ![i] = [tune |-> songTask[t].tune, file |-> FileOf(t)]]
    /\ listedSongs' = IF songTask[t].toPlaylist THEN listedSongs \cup {i} ELSE listedSongs
    /\ TaskGoes(t, "committed")
    /\ UNCHANGED <<audio, deleter, spoiled, losses>>

InsertFails(t) ==
    /\ songTask[t].at = "stored"
    /\ audio' = IF songTask[t].kind = "convert" THEN audio \ FileOf(t) ELSE audio
    /\ TaskEnds(t)
    /\ UNCHANGED <<songs, listedSongs, deleter, spoiled, losses>>

\* The refresh of the committed row is tried in the same block: when it fails, a
\* conversion takes its file back from under its row.
RefreshFails(t) ==
    /\ songTask[t].at = "committed" /\ songTask[t].kind = "convert"
    /\ audio' = audio \ FileOf(t)
    /\ spoiled' = spoiled \cup {v \in songTask[t].tune : Naming(FileOf(t)) # {}}
    /\ TaskEnds(t)
    /\ UNCHANGED <<songs, listedSongs, deleter, losses>>

Acknowledges(t) ==
    /\ songTask[t].at = "committed"
    /\ TaskEnds(t)
    /\ UNCHANGED <<songs, audio, listedSongs, deleter, spoiled, losses>>

TaskIsLost(t) ==
    /\ songTask[t].at \in {"fetched", "stored", "committed"} /\ losses < MaxLosses
    /\ losses' = losses + 1
    /\ TaskGoes(t, "queued") \/ TaskEnds(t)
    /\ UNCHANGED <<songs, audio, listedSongs, deleter, spoiled>>

\* Cancelled: the process is ended where it is.
cancel_download_ui(t) ==
    /\ songTask[t].kind \notin {"none", "over"}
    /\ TaskEnds(t)
    /\ UNCHANGED <<songs, audio, listedSongs, deleter, spoiled, losses>>

-----------------------------------------------------------------------------
\* delete_song_ui: the row, the look at the other rows, the file.
DeletesSong(d, i) ==
    /\ i \in Listed /\ deleter[d] = NoDeletion
    /\ songs' = [songs EXCEPT ![i] = NoSong]
    /\ listedSongs' = listedSongs \ {i}
    /\ deleter' = [deleter EXCEPT ![d] = [at |-> "look", file |-> songs[i].file]]
    /\ spoiled' = spoiled \cup {v \in Tunes : \E t \in SongTasks :
         /\ songTask[t].at = "stored" /\ FileOf(t) = songs[i].file /\ v \in songTask[t].tune}
    /\ UNCHANGED <<audio, songTask, losses>>

\* Mutant: the file goes with its row.
LooksAtNone(d) ==
    /\ deleter[d].at = "look"
    /\ deleter' = [deleter EXCEPT ![d].at = "drop"]
    /\ UNCHANGED <<songs, audio, listedSongs, songTask, spoiled, losses>>

LooksForOthers(d) ==
    /\ deleter[d].at = "look"
    /\ deleter' = IF Naming(deleter[d].file) = {} THEN [deleter EXCEPT ![d].at = "drop"]
                  ELSE [deleter EXCEPT ![d] = NoDeletion]
    /\ UNCHANGED <<songs, audio, listedSongs, songTask, spoiled, losses>>

_delete_storage_file(d) ==
    /\ deleter[d].at = "drop"
    /\ audio' = audio \ deleter[d].file
    /\ deleter' = [deleter EXCEPT ![d] = NoDeletion]
    /\ UNCHANGED <<songs, listedSongs, songTask, spoiled, losses>>

add_song_to_playlist_ui(i) ==
    /\ i \in Listed \ listedSongs
    /\ listedSongs' = listedSongs \cup {i}
    /\ UNCHANGED <<songs, audio, songTask, deleter, spoiled, losses>>

remove_song_from_playlist_ui(i) ==
    /\ i \in listedSongs
    /\ listedSongs' = listedSongs \ {i}
    /\ UNCHANGED <<songs, audio, songTask, deleter, spoiled, losses>>

\* A download, the entries of a playlist, a conversion of an archived video.
StartsTask ==
    /\ \E t \in SongTasks, v \in Tunes :
          \/ \E p \in BOOLEAN : Starts(t, "resolve", v, p)
          \/ Starts(t, "convert", v, FALSE)
    /\ UNCHANGED <<songs, audio, listedSongs, deleter, spoiled, losses>>

MusicInit ==
    /\ songs = [i \in SongIds |-> NoSong] /\ audio = {} /\ listedSongs = {}
    /\ songTask = [t \in SongTasks |-> NoSongTask]
    /\ deleter = [d \in Deleters |-> NoDeletion] /\ spoiled = {} /\ losses = 0

MusicNext ==
    \/ StartsTask
    \/ \E d \in Deleters : \/ LooksForOthers(d) \/ _delete_storage_file(d)
                          \/ \E i \in SongIds : DeletesSong(d, i)
    \/ \E t \in SongTasks :
          \/ process_youtube_url_task(t) \/ SongFails(t) \/ AlreadyAvailable(t) \/ FetchesAudio(t)
          \/ _save_audio_file(t) \/ InsertFails(t) \/ RefreshFails(t) \/ Acknowledges(t)
          \/ TaskIsLost(t) \/ cancel_download_ui(t) \/ \E i \in SongIds : InsertsSong(t, i)
    \/ \E i \in SongIds : add_song_to_playlist_ui(i) \/ remove_song_from_playlist_ui(i)

MusicSpec == MusicInit /\ [][MusicNext]_musicVars

-----------------------------------------------------------------------------
MusicTypeOK ==
    /\ \A i \in Listed : Cardinality(songs[i].tune) = 1 /\ Cardinality(songs[i].file) = 1
    /\ listedSongs \subseteq SongIds
    /\ \A t \in SongTasks : songTask[t].at \in {"none", "queued", "fetched", "stored", "committed"}
    /\ \A d \in Deleters : deleter[d].at \in {"no", "look", "drop"}
    /\ spoiled \subseteq Tunes /\ losses \in 0..MaxLosses

(* The file a song names is in the storage, and a playlist lists only songs   *)
(* that are there: rows share a file and are deleted beside each other, a     *)
(* task that is delivered again inserts a second row, a conversion takes its  *)
(* file back.  Two things only may take the file of a tune from under a row,  *)
(* and then mark the tune: a deletion and a download at one file at once, and *)
(* a conversion whose refresh fails after its commit.                         *)
SharedAudioStays ==
    /\ listedSongs \subseteq Listed
    /\ \A i \in Listed : songs[i].file \subseteq audio \/ songs[i].tune \subseteq spoiled
=============================================================================
