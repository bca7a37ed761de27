------------------------------ MODULE MCWorkers -----------------------------
(***************************************************************************)
(* What goes on beside the pages - the downloads and compressions of the   *)
(* libraries, the guests of a share, the migration of old files and the    *)
(* storage browser, the calls to YouTube - in parts that share no state    *)
(* with one another, checked by one run: a behaviour is a behaviour of one *)
(* of them, chosen at its start, and the variables of the others stay as   *)
(* they begin.                                                             *)
(***************************************************************************)
EXTENDS VideoCompression, VideoArchive, Books, Music, Shares, StorageFiles, YoutubeGate

VARIABLE worker

Workers == {"compression", "archive", "books", "music", "shares", "storage", "youtube"}
WorkersVars ==
    <<worker, compressionVars, archiveVars, bookVars, musicVars, sharesVars, storageVars,
      youtubeVars>>

WorkersInit ==
    /\ worker \in Workers
    /\ CompressionInit /\ ArchiveInit /\ BooksInit /\ MusicInit
    /\ SharesInit /\ StorageFilesInit /\ YoutubeGateInit
    /\ worker # "books" => medium = "text"
    /\ worker # "storage" => kept = {}

WorkersNext ==
    /\ UNCHANGED worker
    /\ \/ /\ worker = "compression" /\ CompressionNext
          /\ UNCHANGED <<archiveVars, bookVars, musicVars, sharesVars, storageVars,
                         youtubeVars>>
       \/ /\ worker = "archive" /\ ArchiveNext
          /\ UNCHANGED <<compressionVars, bookVars, musicVars, sharesVars, storageVars,
                         youtubeVars>>
       \/ /\ worker = "books" /\ BooksNext
          /\ UNCHANGED <<compressionVars, archiveVars, musicVars, sharesVars, storageVars,
                         youtubeVars>>
       \/ /\ worker = "music" /\ MusicNext
          /\ UNCHANGED <<compressionVars, archiveVars, bookVars, sharesVars, storageVars,
                         youtubeVars>>
       \/ /\ worker = "shares" /\ SharesNext
          /\ UNCHANGED <<compressionVars, archiveVars, bookVars, musicVars, storageVars,
                         youtubeVars>>
       \/ /\ worker = "storage" /\ StorageFilesNext
          /\ UNCHANGED <<compressionVars, archiveVars, bookVars, musicVars, sharesVars,
                         youtubeVars>>
       \/ /\ worker = "youtube" /\ YoutubeGateNext
          /\ UNCHANGED <<compressionVars, archiveVars, bookVars, musicVars, sharesVars,
                         storageVars>>

WorkersSpec ==
    /\ WorkersInit /\ [][WorkersNext]_WorkersVars
    /\ \A t \in TaskIds : WF_archiveVars(worker = "archive" /\ TaskSteps(t))
    /\ WF_storageVars(worker = "storage" /\ _migration_loop)

(* The state of every part has its types.                                   *)
WorkersTypeOK ==
    /\ CompressionTypeOK /\ ArchiveTypeOK /\ BooksTypeOK /\ MusicTypeOK
    /\ SharesTypeOK /\ StorageFilesTypeOK /\ YoutubeGateTypeOK
=============================================================================
