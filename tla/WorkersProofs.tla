----------------------------- MODULE WorkersProofs ---------------------------
(***************************************************************************)
(* What the workers, the background loops and the requests beside them     *)
(* never do, for any number of them:                                       *)
(*   CompressionInv  an optimized video is an object that is stored, of    *)
(*                   its own video, however many batches, workers and      *)
(*                   cancellations meet (VideoCompression)                 *)
(*   MusicInv        the file a song names is stored, whoever shares it    *)
(*                   (Music)                                               *)
(*   StorageInv      a stored document stays under some name, in an        *)
(*                   envelope for that name (StorageFiles)                 *)
(*   SharesInv       a revoked share has no session left, whatever was     *)
(*                   under way (Shares)                                    *)
(*   YoutubeInv      the threads at YouTube are those somebody waits for   *)
(*                   (YoutubeGate)                                         *)
(*   BooksInv        what a download of chapters has behind it has a row,  *)
(*                   of its branch while nothing disturbed the title       *)
(*                   (Books)                                               *)
(* and ArchiveTypeOK is kept by itself (VideoArchive).                     *)
(* Each is kept by every action of its own module; the modules share no    *)
(* variable.  One lemma is given to an action, or to the actions that keep *)
(* the invariant for one reason, and one step to a conjunct it can disturb.*)
(***************************************************************************)
EXTENDS MCWorkers, FiniteSetTheorems, WellFoundedInduction, TLAPS

(***************************************************************************)
(* The optimization of videos.  A result is a new object, numbered by how  *)
(* many were stored; a row only ever moves to a higher number, so an       *)
(* object it has left is never named again.                                *)
(***************************************************************************)
Statuses == Finished \cup {"none", "running", "switching", "failed", "cancelled", "deleted"}
Archive == [path : Objects \cup {NoObject}, status : Statuses, old : Objects \cup {NoObject}]
Jobs == [at : {"idle", "next", "encoding", "saved", "switched", "settled"},
         batch : Nat, todo : SUBSET Videos, video : Videos \cup {NoObject},
         expected : Objects \cup {NoObject}, result : Objects \cup {NoObject}]

CompressionTypes ==
    /\ archive \in [Videos -> Archive]
    /\ stored \subseteq Objects
    /\ objects \in 0..MaxObjects
    /\ compressor \in [Compressors -> Jobs]
    /\ deaths \in Nat

AtVideo(w) == compressor[w].at \in {"encoding", "saved", "switched", "settled"}
HasResult(w) == compressor[w].at \in {"saved", "switched"}

\* A row names an object of its own video, one that was stored; while it is
\* being switched it notes the lower one it leaves.
RowsNameTheirOwn ==
    \A v \in Videos : Archived(v) =>
        /\ archive[v].path \in Objects /\ archive[v].path[1] = v
        /\ archive[v].path[2] <= objects
        /\ archive[v].status = "switching" =>
              /\ archive[v].old \in Objects /\ archive[v].old[1] = v
              /\ archive[v].old[2] < archive[v].path[2]

\* So does what a worker has claimed and what it has made of it.
WorkersNameTheirOwn ==
    \A w \in Compressors :
        /\ AtVideo(w) => /\ compressor[w].video \in Videos
                         /\ compressor[w].expected \in Objects
                         /\ compressor[w].expected[1] = compressor[w].video
                         /\ compressor[w].expected[2] <= objects
        /\ compressor[w].at = "encoding" => compressor[w].result = NoObject
        /\ HasResult(w) => /\ compressor[w].result \in Objects
                           /\ compressor[w].result[1] = compressor[w].video
                           /\ compressor[w].result[2] <= objects
                           /\ compressor[w].expected[2] < compressor[w].result[2]

\* A result that is not switched to is stored, and known to its worker alone.
ResultIsItsOwn ==
    \A w \in Compressors : compressor[w].at = "saved" =>
        /\ compressor[w].result \in stored
        /\ \A v \in Videos : Archived(v) =>
              /\ archive[v].path # compressor[w].result
              /\ archive[v].status = "switching" => archive[v].old # compressor[w].result
        /\ \A x \in Compressors \ {w} :
              /\ AtVideo(x) => compressor[x].expected # compressor[w].result
              /\ HasResult(x) => compressor[x].result # compressor[w].result

\* The object a worker is about to drop is one its row has left for good.
LeftForGood ==
    \A w \in Compressors : compressor[w].at = "settled" /\ Archived(compressor[w].video) =>
        compressor[w].expected[2] < archive[compressor[w].video].path[2]

\* Who would finish a switch knows which object the row has left.
SwitchIsKnown ==
    \A w \in Compressors : compressor[w].at = "switched" /\ Switching(w) =>
        compressor[w].expected = archive[compressor[w].video].old

\* An object a row has not named, or has left, is one a worker will drop.
WillDrop(w, o) ==
    \/ compressor[w].at = "saved" /\ compressor[w].result = o
    \/ compressor[w].at = "switched" /\ Switching(w) /\ compressor[w].expected = o
    \/ compressor[w].at = "settled" /\ compressor[w].expected = o
NothingIsForgotten ==
    deaths = 0 => \A o \in stored : Archived(o[1]) =>
        o = archive[o[1]].path \/ \E w \in Compressors : WillDrop(w, o)

CompressionInv ==
    /\ CompressionTypes
    /\ RowsNameTheirOwn
    /\ WorkersNameTheirOwn
    /\ ResultIsItsOwn
    /\ LeftForGood
    /\ SwitchIsKnown
    /\ RowNamesItsVideo
    /\ NothingIsForgotten

\* An object is never the one that stands for none.
LEMMA ObjectIsSome == \A o \in Objects : o # NoObject /\ o[1] \in Videos /\ o[2] \in 0..MaxObjects
PROOF
  BY DEF Objects, NoObject

\* An object is known by its video and its number.
LEMMA SameObject == \A o \in Objects, p \in Objects : o[1] = p[1] /\ o[2] = p[2] => o = p
PROOF
  BY DEF Objects

\* What a worker other than w is at stays.
OthersStay(w) == \A x \in Compressors \ {w} : compressor'[x] = compressor[x]

\* While files, rows and what the workers are at stay, so does the invariant.
LEMMA CompressionStays ==
    ASSUME CompressionInv, UNCHANGED <<archive, stored, objects, compressor, deaths>>
    PROVE  CompressionInv'
PROOF
  BY DEF CompressionInv, CompressionTypes, RowsNameTheirOwn, WorkersNameTheirOwn,
         ResultIsItsOwn, LeftForGood, SwitchIsKnown, RowNamesItsVideo,
         NothingIsForgotten,
         WillDrop, Switching, AtVideo, HasResult, Archived

\* A worker that holds nothing, or dies, leaves rows and objects as they are.
LEMMA WorkerRests ==
    ASSUME CompressionInv, NEW w \in Compressors, OthersStay(w),
           compressor' \in [Compressors -> Jobs], compressor'[w].at \in {"idle", "next"},
           UNCHANGED <<archive, stored, objects>>, deaths' \in Nat,
           \/ deaths' # 0
           \/ deaths' = deaths /\ compressor[w].at \in {"idle", "next"}
    PROVE  CompressionInv'
PROOF
  <1> USE DEF CompressionInv, OthersStay, AtVideo, HasResult, Archived
  <1>1. CompressionTypes'
    BY DEF CompressionTypes
  <1>2. RowsNameTheirOwn' /\ RowNamesItsVideo'
    BY DEF RowsNameTheirOwn, RowNamesItsVideo
  <1>3. WorkersNameTheirOwn'
    BY DEF WorkersNameTheirOwn
  <1>4. ResultIsItsOwn'
    BY DEF ResultIsItsOwn
  <1>5. LeftForGood' /\ SwitchIsKnown'
    BY DEF LeftForGood, SwitchIsKnown, Switching
  <1>6. NothingIsForgotten'
    <2>1. CASE deaths' # 0
      BY <2>1 DEF NothingIsForgotten
    <2>2. CASE deaths' = deaths /\ compressor[w].at \in {"idle", "next"}
      <3>1. \A x \in Compressors, o \in stored : WillDrop(x, o) => WillDrop(x, o)'
        BY <2>2 DEF WillDrop, Switching
      <3> QED
        BY <2>2, <3>1 DEF NothingIsForgotten
    <2> QED
      BY <2>1, <2>2
  <1> QED
    BY <1>1, <1>2, <1>3, <1>4, <1>5, <1>6

\* The row of a video goes, and the object it names.
LEMMA DeleteKeeps ==
    ASSUME CompressionInv, NEW v \in Videos, delete_video(v) PROVE CompressionInv'
PROOF
  <1> USE DEF CompressionInv, AtVideo, HasResult, Archived
  <1>1. /\ archive' \in [Videos -> Archive]
        /\ archive'[v].status = "deleted"
        /\ \A u \in Videos \ {v} : archive'[u] = archive[u]
        /\ stored' = stored \ {archive[v].path}
        /\ archive[v].status # "deleted"
        /\ UNCHANGED <<objects, compressor, deaths>>
    BY DEF delete_video, Row, CompressionTypes, Archive, Statuses, Deleted
  <1>2. CompressionTypes'
    BY <1>1 DEF CompressionTypes
  <1>3. RowsNameTheirOwn' /\ WorkersNameTheirOwn'
    BY <1>1 DEF RowsNameTheirOwn, WorkersNameTheirOwn
  <1>4. ResultIsItsOwn'
    BY <1>1 DEF ResultIsItsOwn
  <1>5. LeftForGood' /\ SwitchIsKnown'
    BY <1>1 DEF LeftForGood, SwitchIsKnown, Switching, CompressionTypes, Jobs,
       WorkersNameTheirOwn
  <1>6. RowNamesItsVideo'
    BY <1>1 DEF RowNamesItsVideo, RowsNameTheirOwn
  <1>7. NothingIsForgotten'
    <2>1. \A x \in Compressors, o \in stored : o[1] # v /\ WillDrop(x, o) => WillDrop(x, o)'
      BY <1>1 DEF WillDrop, Switching, WorkersNameTheirOwn
    <2>2. \A o \in stored : o[1] \in Videos
      BY ObjectIsSome DEF CompressionTypes
    <2> QED
      BY <1>1, <2>1, <2>2 DEF NothingIsForgotten
  <1> QED
    BY <1>2, <1>3, <1>4, <1>5, <1>6, <1>7

\* A claim or the resumption of a switch.
LEMMA OptimizeKeeps ==
    ASSUME CompressionInv, NEW w \in Compressors, NEW v \in Videos, optimize_video(w, v)
    PROVE  CompressionInv'
PROOF
  <1> USE DEF CompressionInv, AtVideo, HasResult, OthersStay
  <1> DEFINE then == [compressor[w] EXCEPT !.todo = compressor[w].todo \ {v}]
  <1>0. then \in Jobs /\ then.at = "next"
    BY DEF optimize_video, CompressionTypes, Jobs
  <1>1. CASE ~Archived(v)
    <2>1. /\ compressor' = [compressor EXCEPT ![w] = then]
          /\ UNCHANGED <<archive, stored, objects, deaths>>
          /\ compressor[w].at = "next"
      BY <1>1 DEF optimize_video, Goes
    <2> HIDE DEF then
    <2>2. compressor' \in [Compressors -> Jobs] /\ OthersStay(w) /\ compressor'[w].at = "next"
      BY <1>0, <2>1 DEF CompressionTypes
    <2> QED
      BY <2>1, <2>2, WorkerRests DEF CompressionTypes
  <1>2. CASE Archived(v) /\ archive[v].status = "switching"
    <2>0. archive[v].path \in Objects /\ archive[v].old \in Objects
      BY <1>2 DEF RowsNameTheirOwn
    <2>1. /\ compressor' = [compressor EXCEPT ![w] =
                [then EXCEPT !.at = "switched", !.video = v,
                             !.expected = archive[v].old, !.result = archive[v].path]]
          /\ UNCHANGED <<archive, stored, objects, deaths>>
          /\ compressor[w].at = "next"
      BY <1>2 DEF optimize_video, Goes
    <2>2. /\ compressor' \in [Compressors -> Jobs] /\ OthersStay(w)
          /\ compressor'[w].at = "switched" /\ compressor'[w].video = v
          /\ compressor'[w].expected = archive[v].old
          /\ compressor'[w].result = archive[v].path
      BY <2>0, <2>1 DEF CompressionTypes, Jobs
    <2> HIDE DEF then
    <2>3. CompressionTypes' /\ RowsNameTheirOwn' /\ RowNamesItsVideo'
      BY <2>1, <2>2 DEF CompressionTypes, RowsNameTheirOwn, RowNamesItsVideo, Archived
    <2>4. WorkersNameTheirOwn'
      <3>1. archive[v].old[2] <= objects
        BY <1>2, <2>0, ObjectIsSome DEF RowsNameTheirOwn, CompressionTypes
      <3> QED
        BY <1>2, <2>1, <2>2, <3>1 DEF WorkersNameTheirOwn, RowsNameTheirOwn
    <2>5. ResultIsItsOwn'
      BY <1>2, <2>1, <2>2 DEF ResultIsItsOwn, Archived
    <2>6. LeftForGood' /\ SwitchIsKnown'
      BY <2>1, <2>2 DEF LeftForGood, SwitchIsKnown, Switching, Archived
    <2>7. NothingIsForgotten'
      <3>1. \A x \in Compressors, o \in stored : WillDrop(x, o) => WillDrop(x, o)'
        BY <2>1, <2>2 DEF WillDrop, Switching
      <3> QED
        BY <2>1, <3>1 DEF NothingIsForgotten, Archived
    <2> QED
      BY <2>3, <2>4, <2>5, <2>6, <2>7
  <1>3. CASE Archived(v) /\ archive[v].status # "switching"
    <2>0. archive[v].path \in Objects
      BY <1>3 DEF RowsNameTheirOwn
    <2>1. /\ compressor' = [compressor EXCEPT ![w] =
                [then EXCEPT !.at = "encoding", !.video = v,
                             !.expected = archive[v].path, !.result = NoObject]]
          /\ Row(v, [archive[v] EXCEPT !.status = "running", !.old = NoObject])
          /\ UNCHANGED <<stored, objects, deaths>>
          /\ compressor[w].at = "next"
      BY <1>3 DEF optimize_video, Goes
    <2>2. /\ compressor' \in [Compressors -> Jobs] /\ OthersStay(w)
          /\ compressor'[w].at = "encoding" /\ compressor'[w].video = v
          /\ compressor'[w].expected = archive[v].path
          /\ compressor'[w].result = NoObject
      BY <2>0, <2>1 DEF CompressionTypes, Jobs
    <2>3. /\ archive' \in [Videos -> Archive]
          /\ archive'[v].status = "running" /\ archive'[v].path = archive[v].path
          /\ \A u \in Videos \ {v} : archive'[u] = archive[u]
      BY <2>1 DEF CompressionTypes, Archive, Statuses, Row
    <2> HIDE DEF then
    <2>4. CompressionTypes'
      BY <2>1, <2>2, <2>3 DEF CompressionTypes
    <2>5. RowsNameTheirOwn' /\ RowNamesItsVideo'
      BY <1>3, <2>1, <2>3 DEF RowsNameTheirOwn, RowNamesItsVideo, Archived
    <2>6. WorkersNameTheirOwn'
      BY <1>3, <2>1, <2>2 DEF WorkersNameTheirOwn, RowsNameTheirOwn
    <2>7. ResultIsItsOwn'
      BY <1>3, <2>1, <2>2, <2>3 DEF ResultIsItsOwn, Archived
    <2>8. LeftForGood' /\ SwitchIsKnown'
      BY <1>3, <2>1, <2>2, <2>3 DEF LeftForGood, SwitchIsKnown, Switching, Archived,
                                    WorkersNameTheirOwn
    <2>9. NothingIsForgotten'
      <3>1. \A x \in Compressors, o \in stored : WillDrop(x, o) => WillDrop(x, o)'
        BY <1>3, <2>1, <2>2, <2>3 DEF WillDrop, Switching, WorkersNameTheirOwn
      <3>2. \A u \in Videos : Archived(u)' => Archived(u) /\ archive'[u].path = archive[u].path
        BY <1>3, <2>3 DEF Archived
      <3>3. \A o \in stored : o[1] \in Videos
        BY ObjectIsSome DEF CompressionTypes
      <3> QED
        BY <2>1, <3>1, <3>2, <3>3 DEF NothingIsForgotten
    <2> QED
      BY <2>4, <2>5, <2>6, <2>7, <2>8, <2>9
  <1> QED
    BY <1>1, <1>2, <1>3

\* Where a row is as it was claimed, its status alone is written.
LEMMA SetResultWrites ==
    ASSUME CompressionInv, NEW w \in Compressors, compressor[w].at \in {"encoding", "saved"},
           NEW s \in {"skipped", "failed", "cancelled"}, _set_result(w, s)
    PROVE  /\ archive' \in [Videos -> Archive]
           /\ \A u \in Videos : /\ Archived(u)' <=> Archived(u)
                                /\ archive'[u].path = archive[u].path
                                /\ archive[u].status = "switching" => archive'[u] = archive[u]
                                /\ archive'[u].status = "switching" => archive'[u] = archive[u]
PROOF
  <1>1. CASE Claimed(w)
    <2> DEFINE v == compressor[w].video
    <2>1. v \in Videos /\ archive[v].status = "running"
      BY <1>1 DEF Claimed, CompressionInv, WorkersNameTheirOwn, AtVideo
    <2>2. archive' = [archive EXCEPT ![v].status = s]
      BY <1>1 DEF _set_result
    <2> HIDE DEF v
    <2> QED
      BY <2>1, <2>2 DEF CompressionInv, CompressionTypes, Archive, Statuses,
         Finished, Archived
  <1>2. CASE ~Claimed(w)
    BY <1>2 DEF _set_result, CompressionInv, CompressionTypes, Archived
  <1> QED
    BY <1>1, <1>2

\* The worker turns to the next video, without its result and, at most, a row
\* that says so.
LEMMA GivesUpKeeps ==
    ASSUME CompressionInv, NEW w \in Compressors, OthersStay(w),
           compressor' \in [Compressors -> Jobs], compressor'[w].at = "next",
           compressor[w].at \in {"encoding", "saved"},
           archive' \in [Videos -> Archive],
           \A u \in Videos : /\ Archived(u)' <=> Archived(u)
                             /\ archive'[u].path = archive[u].path
                             /\ archive[u].status = "switching" => archive'[u] = archive[u]
                             /\ archive'[u].status = "switching" => archive'[u] = archive[u],
           stored' = stored \ {compressor[w].result}, UNCHANGED <<objects, deaths>>
    PROVE  CompressionInv'
PROOF
  <1> USE DEF CompressionInv, AtVideo, HasResult, OthersStay
  <1>1. CompressionTypes'
    BY DEF CompressionTypes
  <1>2. RowsNameTheirOwn'
    BY DEF RowsNameTheirOwn
  <1>3. \A o \in stored : compressor[w].at = "encoding" => o # compressor[w].result
    BY ObjectIsSome DEF WorkersNameTheirOwn, CompressionTypes
  <1>4. RowNamesItsVideo'
    BY <1>3 DEF RowNamesItsVideo, ResultIsItsOwn
  <1>5. WorkersNameTheirOwn'
    BY DEF WorkersNameTheirOwn
  <1>6. ResultIsItsOwn'
    BY <1>3 DEF ResultIsItsOwn
  <1>7. LeftForGood'
    BY DEF LeftForGood, WorkersNameTheirOwn
  <1>8. SwitchIsKnown'
    BY DEF SwitchIsKnown, Switching, WorkersNameTheirOwn
  <1>9. NothingIsForgotten'
    <2>1. \A x \in Compressors \ {w}, o \in stored : WillDrop(x, o) => WillDrop(x, o)'
      BY DEF WillDrop, Switching, WorkersNameTheirOwn
    <2>2. \A o \in stored' : o \in stored /\ ~WillDrop(w, o)
      BY DEF WillDrop
    <2>3. \A o \in stored : o[1] \in Videos
      BY ObjectIsSome DEF CompressionTypes
    <2> QED
      BY <2>1, <2>2, <2>3 DEF NothingIsForgotten
  <1> QED
    BY <1>1, <1>2, <1>4, <1>5, <1>6, <1>7, <1>8, <1>9

\* An encoding that fails, or is no smaller, changes a status at most.
LEMMA EncodingEndsKeeps ==
    ASSUME CompressionInv, NEW w \in Compressors, NEW s \in {"skipped", "failed"},
           EncodingEnds(w, s)
    PROVE  CompressionInv'
PROOF
  <1>1. /\ compressor' \in [Compressors -> Jobs] /\ OthersStay(w) /\ compressor'[w].at = "next"
        /\ compressor[w].at = "encoding" /\ UNCHANGED <<objects, deaths>>
    BY DEF EncodingEnds, Moves, Goes, CompressionInv, CompressionTypes, Jobs, OthersStay
  <1>2. stored' = stored \ {compressor[w].result}
    BY <1>1, ObjectIsSome DEF EncodingEnds, CompressionInv, CompressionTypes,
       WorkersNameTheirOwn
  <1>3. _set_result(w, s)
    BY DEF EncodingEnds
  <1> QED
    BY <1>1, <1>2, <1>3, SetResultWrites, GivesUpKeeps

\* A cancellation that is seen drops the new object and ends the batch.
LEMMA CancelsKeeps ==
    ASSUME CompressionInv, NEW w \in Compressors, Cancels(w) PROVE CompressionInv'
PROOF
  <1>0. compressor' = [compressor EXCEPT ![w] = [compressor[w] EXCEPT !.at = "next", !.todo = {}]]
    BY DEF Cancels, CompressionInv, CompressionTypes
  <1>1. /\ compressor' \in [Compressors -> Jobs] /\ OthersStay(w) /\ compressor'[w].at = "next"
    BY <1>0 DEF CompressionInv, CompressionTypes, Jobs, OthersStay
  <1>2. /\ compressor[w].at \in {"encoding", "saved"}
        /\ stored' = stored \ {compressor[w].result}
        /\ UNCHANGED <<objects, deaths>>
        /\ _set_result(w, "cancelled")
    BY DEF Cancels, Goes
  <1> QED
    BY <1>1, <1>2, SetResultWrites, GivesUpKeeps

\* A result is stored under a number no object had before.
LEMMA SavesKeeps ==
    ASSUME CompressionInv, NEW w \in Compressors, SavesObject(w) PROVE CompressionInv'
PROOF
  <1> USE DEF CompressionInv, AtVideo, HasResult, OthersStay
  <1> DEFINE v == compressor[w].video
             new == <<v, objects'>>
  <1>1. /\ compressor[w].at = "encoding" /\ v \in Videos
        /\ objects' = objects + 1 /\ objects' \in 0..MaxObjects /\ objects \in Nat
    BY CompressionAssumption DEF SavesObject, WorkersNameTheirOwn, CompressionTypes
  <1>2. new \in Objects /\ new[1] = v /\ new[2] = objects + 1
    BY <1>1 DEF Objects
  <1>3. /\ compressor' = [compressor EXCEPT ![w].at = "saved", ![w].result = new]
        /\ stored' = stored \cup {new}
        /\ UNCHANGED <<archive, deaths>>
    BY DEF SavesObject
  <1> HIDE DEF v, new
  <1>4. /\ compressor' \in [Compressors -> Jobs] /\ OthersStay(w)
        /\ compressor'[w].at = "saved" /\ compressor'[w].result = new
        /\ compressor'[w].video = v /\ compressor'[w].expected = compressor[w].expected
    BY ZenonT(60), <1>2, <1>3 DEF CompressionTypes, Jobs, v
  <1>5. CompressionTypes'
    BY <1>1, <1>2, <1>3, <1>4 DEF CompressionTypes
  <1>6. \A o \in Objects : o[2] <= objects => o # new
    BY <1>1, <1>2
  <1>7. RowsNameTheirOwn' /\ RowNamesItsVideo'
    <2>1. \A u \in Videos : Archived(u) => archive[u].path[2] \in Int
      BY ObjectIsSome DEF RowsNameTheirOwn
    <2> QED
      BY <1>1, <1>3, <2>1 DEF RowsNameTheirOwn, RowNamesItsVideo, Archived
  <1>8. WorkersNameTheirOwn'
    <2>1. \A x \in Compressors : AtVideo(x) => compressor[x].expected[2] \in Int
      BY ObjectIsSome DEF WorkersNameTheirOwn
    <2>2. \A x \in Compressors : HasResult(x) => compressor[x].result[2] \in Int
      BY ObjectIsSome DEF WorkersNameTheirOwn
    <2> QED
      BY <1>1, <1>2, <1>4, <2>1, <2>2 DEF WorkersNameTheirOwn, v
  <1>9. ResultIsItsOwn'
    <2>1. new \in stored'
      BY <1>3
    <2>2. \A u \in Videos : Archived(u) => /\ archive[u].path # new
                                           /\ archive[u].status = "switching" => archive[u].old # new
      <3>1. \A u \in Videos : Archived(u) /\ archive[u].status = "switching" =>
               archive[u].old[2] <= objects
        BY ObjectIsSome, <1>1 DEF RowsNameTheirOwn
      <3> QED
        BY <1>6, <3>1 DEF RowsNameTheirOwn
    <2>3. \A x \in Compressors \ {w} : /\ AtVideo(x) => compressor[x].expected # new
                                       /\ HasResult(x) => compressor[x].result # new
      BY <1>6 DEF WorkersNameTheirOwn
    <2>4. compressor[w].expected # new
      BY <1>1, <1>6 DEF WorkersNameTheirOwn
    <2>5. \A x \in Compressors \ {w} : compressor[x].at = "saved" =>
             compressor[x].result # new /\ compressor[w].expected # compressor[x].result
      BY <1>1, <2>3 DEF ResultIsItsOwn
    <2> QED
      BY <1>3, <1>4, <2>1, <2>2, <2>3, <2>4, <2>5 DEF ResultIsItsOwn, Archived
  <1>10. LeftForGood' /\ SwitchIsKnown'
    BY <1>3, <1>4 DEF LeftForGood, SwitchIsKnown, Switching, Archived
  <1>11. NothingIsForgotten'
    <2>1. \A x \in Compressors, o \in stored : WillDrop(x, o) => WillDrop(x, o)'
      BY <1>1, <1>3, <1>4 DEF WillDrop, Switching
    <2>2. WillDrop(w, compressor[w].result)'
      BY <1>4 DEF WillDrop
    <2>3. \A o \in stored' : o \in stored \/ o = compressor'[w].result
      BY <1>3, <1>4
    <2> QED
      BY <1>3, <2>1, <2>2, <2>3 DEF NothingIsForgotten, Archived
  <1> QED
    BY <1>5, <1>7, <1>8, <1>9, <1>10, <1>11

\* The row moves to the result, and notes what it leaves.
LEMMA SwitchesKeeps ==
    ASSUME CompressionInv, NEW w \in Compressors, Switches(w) PROVE CompressionInv'
PROOF
  <1> USE DEF CompressionInv, AtVideo, HasResult, OthersStay
  <1>1. CASE ~Claimed(w)
    <2>1. /\ compressor[w].at = "saved" /\ stored' = stored \ {compressor[w].result}
          /\ UNCHANGED <<archive, objects, deaths>> /\ Moves(w, "next")
      BY <1>1 DEF Switches, Goes
    <2>2. compressor' \in [Compressors -> Jobs] /\ OthersStay(w) /\ compressor'[w].at = "next"
      BY <2>1 DEF Moves, CompressionTypes, Jobs
    <2> QED
      BY <2>1, <2>2, GivesUpKeeps DEF CompressionTypes, Archived
  <1>2. CASE Claimed(w)
    <2> DEFINE v == compressor[w].video
               new == compressor[w].result
               left == compressor[w].expected
    <2>1. /\ compressor[w].at = "saved" /\ v \in Videos
          /\ archive[v].path = left /\ archive[v].status = "running"
          /\ new \in Objects /\ left \in Objects /\ new[1] = v /\ left[1] = v
          /\ left[2] < new[2] /\ new[2] <= objects /\ left[2] <= objects /\ left # new
      BY <1>2, ObjectIsSome DEF Switches, Claimed, WorkersNameTheirOwn
    <2>2. /\ archive' = [archive EXCEPT ![v] = [path |-> new, status |-> "switching", old |-> left]]
          /\ UNCHANGED <<stored, objects, deaths>> /\ Moves(w, "switched")
      BY <1>2 DEF Switches, Goes, Row
    <2>3. /\ compressor' \in [Compressors -> Jobs] /\ OthersStay(w)
          /\ compressor'[w].at = "switched" /\ compressor'[w].video = v
          /\ compressor'[w].expected = left /\ compressor'[w].result = new
      BY <2>2 DEF Moves, CompressionTypes, Jobs
    <2> HIDE DEF v, new, left
    <2>4. /\ archive' \in [Videos -> Archive]
          /\ archive'[v].path = new /\ archive'[v].status = "switching" /\ archive'[v].old = left
          /\ \A u \in Videos \ {v} : archive'[u] = archive[u]
      BY <2>1, <2>2 DEF CompressionTypes, Archive, Statuses
    <2>5. CompressionTypes'
      BY <2>2, <2>3, <2>4 DEF CompressionTypes
    <2>6. RowsNameTheirOwn'
      BY <2>1, <2>2, <2>4 DEF RowsNameTheirOwn, Archived
    <2>7. WorkersNameTheirOwn'
      BY <2>1, <2>2, <2>3 DEF WorkersNameTheirOwn
    <2>8. RowNamesItsVideo'
      BY <2>1, <2>2, <2>4 DEF RowNamesItsVideo, ResultIsItsOwn, Archived, new
    <2>9. ResultIsItsOwn'
      <3> SUFFICES ASSUME NEW x \in Compressors, compressor'[x].at = "saved"
                   PROVE  /\ compressor'[x].result \in stored'
                          /\ \A u \in Videos : Archived(u)' =>
                                /\ archive'[u].path # compressor'[x].result
                                /\ archive'[u].status = "switching" =>
                                      archive'[u].old # compressor'[x].result
                          /\ \A y \in Compressors \ {x} :
                                /\ AtVideo(y)' => compressor'[y].expected # compressor'[x].result
                                /\ HasResult(y)' => compressor'[y].result # compressor'[x].result
        BY DEF ResultIsItsOwn
      <3>1. x # w /\ compressor'[x] = compressor[x]
        BY <2>3
      <3>2. new # compressor[x].result /\ left # compressor[x].result
        BY <2>1, <3>1 DEF ResultIsItsOwn, new, left
      <3> QED
        BY <2>1, <2>2, <2>3, <2>4, <3>1, <3>2 DEF ResultIsItsOwn, Archived
    <2>10. LeftForGood'
      <3>1. \A x \in Compressors : AtVideo(x) => compressor[x].expected[2] \in Int
        BY ObjectIsSome DEF WorkersNameTheirOwn
      <3>2. new[2] \in Int /\ left[2] \in Int
        BY <2>1, ObjectIsSome
      <3> QED
        BY <2>1, <2>3, <2>4, <3>1, <3>2 DEF LeftForGood, Archived, WorkersNameTheirOwn
    <2>11. SwitchIsKnown'
      <3>1. \A x \in Compressors \ {w} : compressor[x].at = "switched" => compressor[x].result # new
        BY <2>1 DEF ResultIsItsOwn, new
      <3> QED
        BY <2>1, <2>3, <2>4, <3>1 DEF SwitchIsKnown, Switching, WorkersNameTheirOwn
    <2>12. NothingIsForgotten'
      <3>1. \A x \in Compressors \ {w}, o \in stored : WillDrop(x, o) => WillDrop(x, o)'
        BY <2>1, <2>3, <2>4 DEF WillDrop, Switching, WorkersNameTheirOwn
      <3>2. \A o \in stored : WillDrop(w, o) => o = new
        BY <2>1 DEF WillDrop, new
      <3>3. \A o \in stored : o = left => WillDrop(w, o)'
        BY <2>3, <2>4 DEF WillDrop, Switching
      <3>4. \A u \in Videos \ {v} : Archived(u)' => Archived(u)
        BY <2>4 DEF Archived
      <3>5. \A o \in stored : o[1] \in Videos
        BY ObjectIsSome DEF CompressionTypes
      <3> QED
        BY <2>1, <2>2, <2>4, <3>1, <3>2, <3>3, <3>4, <3>5 DEF NothingIsForgotten,
           Archived
    <2> QED
      BY <2>5, <2>6, <2>7, <2>8, <2>9, <2>10, <2>11, <2>12
  <1> QED
    BY <1>1, <1>2

\* A switch that the row still stands for is settled: what it names is there.
LEMMA FinishKeeps ==
    ASSUME CompressionInv, NEW w \in Compressors, _finish_switch(w) PROVE CompressionInv'
PROOF
  <1> USE DEF CompressionInv, AtVideo, HasResult, OthersStay
  <1> DEFINE v == compressor[w].video
  <1>0. compressor[w].at = "switched" /\ v \in Videos /\ UNCHANGED <<stored, objects, deaths>>
    BY DEF _finish_switch, Goes, WorkersNameTheirOwn
  <1>1. CASE ~Switching(w)
    <2>1. UNCHANGED archive /\ Moves(w, "next")
      BY <1>1 DEF _finish_switch
    <2>2. compressor' \in [Compressors -> Jobs] /\ OthersStay(w) /\ compressor'[w].at = "next"
      BY <2>1 DEF Moves, CompressionTypes, Jobs
    <2>3. CompressionTypes' /\ RowsNameTheirOwn' /\ RowNamesItsVideo'
      BY <1>0, <2>1, <2>2 DEF CompressionTypes, RowsNameTheirOwn, RowNamesItsVideo,
         Archived
    <2>4. WorkersNameTheirOwn' /\ LeftForGood' /\ SwitchIsKnown'
      BY <1>0, <2>1, <2>2 DEF WorkersNameTheirOwn, LeftForGood, SwitchIsKnown,
         Switching, Archived
    <2>5. ResultIsItsOwn'
      BY <1>0, <2>1, <2>2 DEF ResultIsItsOwn, Archived
    <2>6. NothingIsForgotten'
      <3>1. \A x \in Compressors, o \in stored : WillDrop(x, o) => WillDrop(x, o)'
        BY <1>0, <1>1, <2>1, <2>2 DEF WillDrop, Switching
      <3> QED
        BY <1>0, <2>1, <3>1 DEF NothingIsForgotten, Archived
    <2> QED
      BY <2>3, <2>4, <2>5, <2>6
  <1>2. CASE Switching(w)
    <2>1. /\ archive[v].path = compressor[w].result /\ archive[v].status = "switching"
          /\ compressor[w].result \in stored
      BY <1>0, <1>2 DEF Switching, RowNamesItsVideo, Archived
    <2>2. archive' = [archive EXCEPT ![v].status = "completed"] /\ Moves(w, "settled")
      BY <1>2, <2>1 DEF _finish_switch, Row
    <2>3. /\ compressor' \in [Compressors -> Jobs] /\ OthersStay(w)
          /\ compressor'[w].at = "settled" /\ compressor'[w].video = v
          /\ compressor'[w].expected = compressor[w].expected
      BY <2>2 DEF Moves, CompressionTypes, Jobs
    <2> HIDE DEF v
    <2>4. /\ archive' \in [Videos -> Archive]
          /\ archive'[v].path = archive[v].path /\ archive'[v].status = "completed"
          /\ \A u \in Videos \ {v} : archive'[u] = archive[u]
          /\ \A u \in Videos : Archived(u)' <=> Archived(u)
      BY <1>0, <2>1, <2>2 DEF CompressionTypes, Archive, Statuses, Finished, Archived
    <2>5. CompressionTypes' /\ RowsNameTheirOwn' /\ RowNamesItsVideo'
      BY <1>0, <2>3, <2>4 DEF CompressionTypes, RowsNameTheirOwn, RowNamesItsVideo
    <2>6. WorkersNameTheirOwn'
      BY <1>0, <2>3 DEF WorkersNameTheirOwn, v
    <2>7. ResultIsItsOwn'
      BY <1>0, <2>3, <2>4 DEF ResultIsItsOwn
    <2>8. LeftForGood' /\ SwitchIsKnown'
      BY <1>0, <2>1, <2>3, <2>4 DEF LeftForGood, SwitchIsKnown, Switching,
         WorkersNameTheirOwn, v
    <2>9. NothingIsForgotten'
      <3>1. \A x \in Compressors : compressor[x].at = "switched" /\ Switching(x)
                                   /\ compressor[x].video = v =>
               compressor[x].expected = compressor[w].expected
        BY <1>0, <1>2 DEF SwitchIsKnown, v
      <3>2. \A x \in Compressors, o \in stored :
               WillDrop(x, o) => WillDrop(x, o)' \/ WillDrop(w, o)'
        BY <1>0, <2>1, <2>3, <2>4, <3>1 DEF WillDrop, Switching, WorkersNameTheirOwn
      <3>3. \A u \in Videos : archive'[u].path = archive[u].path
        BY <2>4
      <3>4. \A o \in stored : o[1] \in Videos
        BY ObjectIsSome DEF CompressionTypes
      <3> QED
        BY <1>0, <2>4, <3>2, <3>3, <3>4 DEF NothingIsForgotten
    <2> QED
      BY <2>5, <2>6, <2>7, <2>8, <2>9
  <1> QED
    BY <1>1, <1>2

\* The old object goes.
LEMMA DropsKeeps ==
    ASSUME CompressionInv, NEW w \in Compressors, DropsOld(w) PROVE CompressionInv'
PROOF
  <1> USE DEF CompressionInv, AtVideo, HasResult, OthersStay
  <1> DEFINE gone == compressor[w].expected
  <1>1. /\ compressor[w].at = "settled" /\ stored' = stored \ {gone}
        /\ UNCHANGED <<archive, objects, deaths>> /\ Moves(w, "next")
    BY DEF DropsOld, Goes
  <1>2. /\ compressor' \in [Compressors -> Jobs] /\ OthersStay(w) /\ compressor'[w].at = "next"
    BY <1>1 DEF Moves, CompressionTypes, Jobs
  <1>3. CompressionTypes' /\ RowsNameTheirOwn'
    BY <1>1, <1>2 DEF CompressionTypes, RowsNameTheirOwn, Archived
  <1>4. RowNamesItsVideo'
    <2>1. gone \in Objects /\ gone[1] = compressor[w].video
      BY <1>1 DEF WorkersNameTheirOwn
    <2>2. \A v \in Videos : Archived(v) => archive[v].path # gone
      BY <1>1, <2>1, ObjectIsSome DEF LeftForGood, RowsNameTheirOwn
    <2> QED
      BY <1>1, <2>2 DEF RowNamesItsVideo, Archived
  <1>5. WorkersNameTheirOwn' /\ LeftForGood' /\ SwitchIsKnown'
    BY <1>1, <1>2 DEF WorkersNameTheirOwn, LeftForGood, SwitchIsKnown, Switching,
       Archived
  <1>6. ResultIsItsOwn'
    BY <1>1, <1>2 DEF ResultIsItsOwn, Archived
  <1>7. NothingIsForgotten'
    <2>1. \A x \in Compressors, o \in stored' : WillDrop(x, o) => WillDrop(x, o)'
      BY <1>1, <1>2 DEF WillDrop, Switching
    <2> QED
      BY <1>1, <2>1 DEF NothingIsForgotten, Archived
  <1> QED
    BY <1>3, <1>4, <1>5, <1>6, <1>7

\* At first every row names the object its video came with.
LEMMA CompressionStarts == CompressionInit => CompressionInv
PROOF
  <1> SUFFICES ASSUME CompressionInit PROVE CompressionInv
    OBVIOUS
  <1>1. \A v \in Videos : /\ Original(v) \in Objects /\ Original(v)[1] = v
                          /\ Original(v)[2] = 0 /\ Original(v) \in stored
                          /\ archive[v].path = Original(v) /\ archive[v].status = "none"
    BY CompressionAssumption DEF CompressionInit, Original, Objects
  <1>2. Resting \in Jobs /\ Resting.at = "idle"
    BY DEF Resting, Jobs
  <1>3. \A o \in stored : o[1] \in Videos /\ o = Original(o[1])
    BY DEF CompressionInit, Original
  <1>4. CompressionTypes
    <2>1. stored \subseteq Objects
      BY <1>1 DEF CompressionInit
    <2>2. archive \in [Videos -> Archive]
      <3> HIDE DEF Objects, Original, NoObject
      <3> QED
        BY <1>1 DEF CompressionInit, Archive, Statuses
    <2> QED
      BY <1>2, <2>1, <2>2, CompressionAssumption DEF CompressionInit, CompressionTypes
  <1>5. \A w \in Compressors : compressor[w].at = "idle"
    BY <1>2 DEF CompressionInit
  <1>6. RowsNameTheirOwn /\ RowNamesItsVideo
    BY <1>1 DEF RowsNameTheirOwn, RowNamesItsVideo, CompressionInit
  <1>7. WorkersNameTheirOwn /\ ResultIsItsOwn /\ LeftForGood /\ SwitchIsKnown
    BY <1>5 DEF WorkersNameTheirOwn, ResultIsItsOwn, LeftForGood, SwitchIsKnown,
       AtVideo, HasResult
  <1>8. NothingIsForgotten
    BY <1>1, <1>3 DEF NothingIsForgotten
  <1> QED
    BY <1>4, <1>6, <1>7, <1>8 DEF CompressionInv

\* A delivery, the end of a batch and a death leave rows and objects alone.
LEMMA BatchesKeep ==
    ASSUME CompressionInv, NEW w \in Compressors,
           \/ \E b \in delivery : b \in Nat /\ run_compression_batch(w, b)
           \/ BatchEnds(w) \/ CompressorDies(w)
    PROVE  CompressionInv'
PROOF
  <1>0. Resting \in Jobs /\ Resting.at = "idle"
    BY DEF Resting, Jobs
  <1>1. ASSUME NEW b \in Nat, run_compression_batch(w, b) PROVE CompressionInv'
    <2> DEFINE begun == [Resting EXCEPT !.at = "next", !.batch = b,
                                        !.todo = compression_candidate_ids]
    <2>1. begun \in Jobs /\ begun.at = "next"
      BY DEF Resting, Jobs, compression_candidate_ids
    <2>2. /\ compressor' = [compressor EXCEPT ![w] = begun] \/ UNCHANGED compressor
          /\ compressor[w].at = "idle" /\ UNCHANGED <<archive, stored, objects, deaths>>
      BY <1>1 DEF run_compression_batch
    <2> HIDE DEF begun
    <2>3. /\ compressor' \in [Compressors -> Jobs] /\ OthersStay(w)
          /\ compressor'[w].at \in {"idle", "next"}
      BY <2>1, <2>2 DEF CompressionInv, CompressionTypes, OthersStay
    <2> QED
      BY <2>2, <2>3, WorkerRests DEF CompressionInv, CompressionTypes
  <1>2. CASE BatchEnds(w) \/ CompressorDies(w)
    <2>1. /\ compressor' = [compressor EXCEPT ![w] = Resting]
          /\ UNCHANGED <<archive, stored, objects>>
          /\ \/ deaths' = deaths /\ compressor[w].at \in {"idle", "next"}
             \/ deaths' = deaths + 1
      BY <1>2 DEF BatchEnds, CompressorDies
    <2>2. /\ compressor' \in [Compressors -> Jobs] /\ OthersStay(w)
          /\ compressor'[w].at \in {"idle", "next"}
      BY <1>0, <2>1 DEF CompressionInv, CompressionTypes, OthersStay
    <2>3. deaths' \in Nat /\ (deaths' = deaths + 1 => deaths' # 0)
      BY <2>1 DEF CompressionInv, CompressionTypes
    <2> QED
      BY <2>1, <2>2, <2>3, WorkerRests
  <1> QED
    BY <1>1, <1>2

\* The counters; who is at a batch is at one that was started.
BatchTypes ==
    /\ batches \in 0..MaxBatches /\ delivery \subseteq 1..batches
    /\ cancelAsked \subseteq 1..batches
    /\ deaths \in 0..MaxDeaths /\ leaseLosses \in 0..MaxLeaseLosses
    /\ \A w \in Compressors : compressor[w].at # "idle" => compressor[w].batch \in 1..batches

\* Batches, their messages, the lease and the requests keep their types.
LEMMA StepKeepsBatches ==
    CompressionTypes /\ BatchTypes /\ [CompressionNext]_compressionVars => BatchTypes'
PROOF
  <1> SUFFICES ASSUME CompressionTypes, BatchTypes, [CompressionNext]_compressionVars
               PROVE  BatchTypes'
    OBVIOUS
  <1>1. ASSUME NEW w \in Compressors,
               \/ Cancels(w) \/ SavesObject(w) \/ Switches(w) \/ _finish_switch(w) \/ DropsOld(w)
               \/ \E v \in Videos : optimize_video(w, v)
               \/ \E s \in {"skipped", "failed"} : EncodingEnds(w, s)
        PROVE  BatchTypes'
    <2>1. /\ UNCHANGED <<batches, delivery, cancelAsked, deaths, leaseLosses>>
          /\ compressor[w].at # "idle"
      BY ZenonT(60), <1>1 DEF Cancels, SavesObject, Switches, _finish_switch, DropsOld,
         optimize_video,
                  EncodingEnds, Goes
    <2>2. compressor'[w].batch = compressor[w].batch /\ OthersStay(w)
      <3>1. CASE SavesObject(w)
        BY <3>1 DEF SavesObject, CompressionTypes, Jobs, OthersStay
      <3>2. CASE Cancels(w)
        <4>1. compressor' =
                 [compressor EXCEPT ![w] = [compressor[w] EXCEPT !.at = "next", !.todo = {}]]
          BY <3>2 DEF Cancels, CompressionTypes
        <4> QED
          BY <4>1 DEF CompressionTypes, Jobs, OthersStay
      <3>3. CASE Switches(w) \/ _finish_switch(w) \/ DropsOld(w)
        BY <3>3 DEF Switches, _finish_switch, DropsOld, Moves, CompressionTypes,
           Jobs, OthersStay
      <3>4. CASE \E s \in {"skipped", "failed"} : EncodingEnds(w, s)
        BY <3>4 DEF EncodingEnds, Moves, CompressionTypes, Jobs, OthersStay
      <3>5. ASSUME NEW v \in Videos, optimize_video(w, v)
            PROVE  compressor'[w].batch = compressor[w].batch /\ OthersStay(w)
        <4> DEFINE then == [compressor[w] EXCEPT !.todo = compressor[w].todo \ {v}]
        <4>1. then \in Jobs /\ then.batch = compressor[w].batch
          BY DEF CompressionTypes, Jobs
        <4>2. \/ compressor' = [compressor EXCEPT ![w] = then]
              \/ compressor' = [compressor EXCEPT ![w] =
                    [then EXCEPT !.at = "switched", !.video = v,
                                 !.expected = archive[v].old, !.result = archive[v].path]]
              \/ compressor' = [compressor EXCEPT ![w] =
                    [then EXCEPT !.at = "encoding", !.video = v,
                                 !.expected = archive[v].path, !.result = NoObject]]
          BY <3>5 DEF optimize_video
        <4> HIDE DEF then
        <4>3. CASE compressor' = [compressor EXCEPT ![w] = then]
          BY <4>1, <4>3 DEF CompressionTypes, OthersStay
        <4>4. CASE compressor' # [compressor EXCEPT ![w] = then]
          <5>1. \E at, exp, res : compressor' = [compressor EXCEPT ![w] =
                    [then EXCEPT !.at = at, !.video = v, !.expected = exp, !.result = res]]
            BY <4>2, <4>4
          <5> QED
            BY <4>1, <5>1 DEF CompressionTypes, Jobs, OthersStay
        <4> QED
          BY <4>3, <4>4
      <3> QED
        BY <1>1, <3>1, <3>2, <3>3, <3>4, <3>5
    <2> QED
      BY SMTT(30), <2>1, <2>2 DEF BatchTypes, OthersStay
  <1>2. ASSUME NEW w \in Compressors, NEW b \in delivery, run_compression_batch(w, b)
        PROVE  BatchTypes'
    <2>1. /\ \/ compressor' = [compressor EXCEPT ![w] =
                  [Resting EXCEPT !.at = "next", !.batch = b, !.todo = compression_candidate_ids]]
             \/ UNCHANGED compressor
          /\ delivery' = delivery \ {b}
          /\ UNCHANGED <<batches, cancelAsked, deaths, leaseLosses>>
      BY <1>2 DEF run_compression_batch
    <2>2. OthersStay(w) /\ (compressor'[w].batch = b \/ UNCHANGED compressor)
      BY <2>1 DEF Resting, CompressionTypes, OthersStay
    <2> QED
      BY <2>1, <2>2 DEF BatchTypes, OthersStay
  <1>3. ASSUME NEW w \in Compressors, BatchEnds(w) \/ CompressorDies(w) PROVE BatchTypes'
    <2>1. OthersStay(w) /\ compressor'[w].at = "idle"
      BY <1>3 DEF BatchEnds, CompressorDies, Resting, CompressionTypes, OthersStay
    <2>2. CASE BatchEnds(w)
      BY <2>1, <2>2 DEF BatchEnds, BatchTypes, OthersStay
    <2>3. CASE CompressorDies(w)
      <3>1. delivery' \subseteq 1..batches
        BY <2>3 DEF CompressorDies, BatchTypes
      <3>2. deaths' \in 0..MaxDeaths /\ UNCHANGED <<batches, cancelAsked, leaseLosses>>
        BY <2>3, CompressionAssumption DEF CompressorDies, BatchTypes
      <3> QED
        BY <2>1, <3>1, <3>2 DEF BatchTypes, OthersStay
    <2> QED
      BY <1>3, <2>2, <2>3
  <1>4. CASE compress_all
    BY <1>4, CompressionAssumption DEF compress_all, BatchTypes
  <1>5. CASE LeaseExpires
    BY <1>5, CompressionAssumption DEF LeaseExpires, BatchTypes
  <1>6. CASE \E b \in 1..batches : cancel_batch(b)
    BY <1>6 DEF cancel_batch, BatchTypes
  <1>7. CASE \E v \in Videos : delete_video(v)
    BY <1>7 DEF delete_video, BatchTypes
  <1>8. CASE UNCHANGED compressionVars
    BY <1>8 DEF compressionVars, BatchTypes
  <1> QED
    BY <1>1, <1>2, <1>3, <1>4, <1>5, <1>6, <1>7, <1>8 DEF CompressionNext,
       CompressionSteps

\* Every action keeps the invariant of rows, objects and workers.
LEMMA StepKeepsVideos ==
    CompressionInv /\ BatchTypes /\ [CompressionNext]_compressionVars => CompressionInv'
PROOF
  <1> SUFFICES ASSUME CompressionInv, BatchTypes, [CompressionNext]_compressionVars
               PROVE  CompressionInv'
    OBVIOUS
  <1>1. \A b \in delivery : b \in Nat
    BY DEF BatchTypes
  <1>2. ASSUME NEW w \in Compressors, CompressionSteps(w) \/ CompressorDies(w)
        PROVE  CompressionInv'
    BY <1>1, <1>2, BatchesKeep, CancelsKeeps, SavesKeeps, SwitchesKeeps, FinishKeeps,
       DropsKeeps,
       OptimizeKeeps, EncodingEndsKeeps DEF CompressionSteps
  <1>3. CASE compress_all \/ LeaseExpires \/ \E b \in 1..batches : cancel_batch(b)
    BY <1>3, CompressionStays DEF compress_all, LeaseExpires, cancel_batch
  <1>4. CASE UNCHANGED compressionVars
    BY <1>4, CompressionStays DEF compressionVars
  <1> QED
    BY <1>2, <1>3, <1>4, DeleteKeeps DEF CompressionNext

\* No batch was started at first.
LEMMA BatchesStart == CompressionInit => BatchTypes
PROOF
  BY CompressionAssumption DEF CompressionInit, BatchTypes, Resting

\* The types the invariants give.
LEMMA CompressionTypesAre == CompressionInv /\ BatchTypes => CompressionTypeOK
PROOF
  BY DEF CompressionInv, CompressionTypes, BatchTypes, CompressionTypeOK, Archive, Jobs, Statuses

(* Rows, objects, batches and workers keep their types.                       *)
THEOREM CompressionIsTyped == CompressionSpec => []CompressionTypeOK
PROOF
  <1>1. CompressionInv /\ BatchTypes => CompressionTypeOK
    BY CompressionTypesAre
  <1>2. CompressionInv => CompressionTypes
    BY DEF CompressionInv
  <1> QED
    BY <1>1, <1>2, CompressionStarts, BatchesStart, StepKeepsVideos,
       StepKeepsBatches, PTL
       DEF CompressionSpec

(* The object a row names is stored, and once the batches are at rest nothing *)
(* besides, for any videos, workers and batches: whichever batches overlap    *)
(* because a lease was lost, die in the middle of a switch, are cancelled or  *)
(* delivered again, and whatever is deleted under them.                       *)
THEOREM VideosStay == CompressionSpec => []VideosAreKept
PROOF
  <1>1. CompressionInv => VideosAreKept
    <2> SUFFICES ASSUME CompressionInv, deaths = 0,
                        \A w \in Compressors : compressor[w].at \in {"idle", "next"},
                        NEW v \in Videos, Archived(v)
                 PROVE  {o \in stored : o[1] = v} = {archive[v].path}
      BY DEF VideosAreKept, NothingLeftBehind, CompressionInv
    <2>1. archive[v].path \in stored /\ archive[v].path[1] = v
      BY DEF CompressionInv, RowNamesItsVideo, RowsNameTheirOwn
    <2>2. \A o \in stored : o[1] = v => o = archive[v].path
      BY DEF CompressionInv, NothingIsForgotten, WillDrop
    <2> QED
      BY <2>1, <2>2
  <1>2. CompressionInv => CompressionTypes
    BY DEF CompressionInv
  <1> QED
    BY <1>1, <1>2, CompressionStarts, BatchesStart, StepKeepsVideos,
       StepKeepsBatches, PTL
       DEF CompressionSpec

-----------------------------------------------------------------------------
(***************************************************************************)
(* The music library.  A file is looked for under every other row before   *)
(* it is dropped; what a task has just stored has no row yet, and is safe  *)
(* unless a deletion and the download meet at one file; then the tune of   *)
(* the download is spoiled, and so is that of a conversion that takes its  *)
(* file back from under its row.                                           *)
(***************************************************************************)
AudioFiles == ({"video"} \X Tunes) \cup ({"archive"} \X SongTasks)
SongTaskRecords == [kind : {"none", "over", "resolve", "song", "convert"},
                    at : {"none", "queued", "fetched", "stored", "committed"},
                    tune : SUBSET Tunes, toPlaylist : BOOLEAN]
SongRows == [tune : SUBSET Tunes, file : SUBSET AudioFiles]
Deletions == [at : {"no", "look", "drop"}, file : SUBSET AudioFiles]

MusicTypes ==
    /\ songs \in [SongIds -> SongRows]
    /\ listedSongs \subseteq SongIds
    /\ songTask \in [SongTasks -> SongTaskRecords]
    /\ deleter \in [Deleters -> Deletions]
    /\ spoiled \subseteq Tunes
    /\ losses \in 0..MaxLosses

\* A row, and a task that is under way, are of one tune and one file.
RowsAreOfOneTune ==
    \A i \in Listed : /\ \E v \in Tunes : songs[i].tune = {v}
                      /\ \E f \in AudioFiles : songs[i].file = {f}
IsOfOneTune(t) ==
    /\ songTask[t].at # "none" => \E v \in Tunes : songTask[t].tune = {v}
    /\ songTask[t].at \in {"fetched", "stored", "committed"} =>
          songTask[t].kind \in {"song", "convert"}
    /\ songTask[t].kind \in {"none", "over"} => songTask[t].at = "none"

\* The audio of an archived video is under the name of its conversion, which
\* begins when no row has it, or a row of the tune has lost its file.
ArchiveFile(t) == {<<"archive", t>>}
ConvertsNew(t) ==
    /\ songTask[t].kind \in {"none", "resolve", "song"} =>
          \A i \in SongIds : songs[i].file # ArchiveFile(t)
    /\ songTask[t].kind = "convert" =>
          \A i \in SongIds : songs[i].file = ArchiveFile(t) =>
             /\ songs[i].tune = songTask[t].tune
             /\ songTask[t].tune \subseteq spoiled \/ songTask[t].at \notin {"fetched", "stored"}

\* What a task has stored is there until it has its row, unless its tune is spoiled.
StoredIsThere ==
    \A t \in SongTasks : songTask[t].at = "stored" =>
       \/ songTask[t].tune \subseteq spoiled
       \/ FileOf(t) \subseteq audio /\ \A d \in Deleters : deleter[d].file # FileOf(t)

\* Nobody names the file that is about to be dropped.
DroppedIsUnnamed ==
    \A d \in Deleters : deleter[d].at = "drop" =>
       \A i \in Listed : songs[i].file # deleter[d].file \/ songs[i].tune \subseteq spoiled
OneFileEach ==
    \A d \in Deleters : IF deleter[d].at = "no" THEN deleter[d].file = {}
                         ELSE \E f \in AudioFiles : deleter[d].file = {f}

MusicInv ==
    /\ MusicTypes
    /\ RowsAreOfOneTune
    /\ \A t \in SongTasks : IsOfOneTune(t) /\ ConvertsNew(t)
    /\ StoredIsThere
    /\ DroppedIsUnnamed
    /\ OneFileEach
    /\ SharedAudioStays

\* A file is the conversion's own or the tune's, which no conversion has.
LEMMA FileIs ==
    ASSUME MusicTypes, NEW t \in SongTasks, IsOfOneTune(t), songTask[t].at # "none"
    PROVE  /\ \E f \in AudioFiles : FileOf(t) = {f}
           /\ songTask[t].kind = "convert" => FileOf(t) = ArchiveFile(t)
           /\ \A x \in SongTasks : FileOf(t) = ArchiveFile(x) =>
                 x = t /\ songTask[t].kind = "convert"
PROOF
  <1>1. PICK v \in Tunes : songTask[t].tune = {v}
    BY DEF IsOfOneTune
  <1>2. <<"archive", t>> \in AudioFiles /\ <<"video", v>> \in AudioFiles
    BY DEF AudioFiles
  <1>3. CASE songTask[t].kind = "convert"
    <2>1. FileOf(t) = {<<"archive", t>>}
      BY <1>3 DEF FileOf
    <2> QED
      BY <1>2, <1>3, <2>1 DEF ArchiveFile
  <1>4. CASE songTask[t].kind # "convert"
    <2>1. FileOf(t) = {<<"video", v>>}
      BY <1>1, <1>4 DEF FileOf
    <2>2. \A x \in SongTasks : <<"video", v>> # <<"archive", x>>
      OBVIOUS
    <2> QED
      BY <1>2, <1>4, <2>1, <2>2 DEF ArchiveFile
  <1> QED
    BY <1>3, <1>4

\* The file of a task is what its record says.
LEMMA SameFile ==
    ASSUME NEW t \in SongTasks, songTask'[t].kind = songTask[t].kind,
           songTask'[t].tune = songTask[t].tune
    PROVE  FileOf(t)' = FileOf(t)
PROOF
  BY DEF FileOf

\* What the other tasks are at stays.
OtherTasksStay(t) == \A x \in SongTasks \ {t} : songTask'[x] = songTask[x]

\* The other tasks are at the files they were at.
LEMMA OtherFilesStay ==
    ASSUME NEW t \in SongTasks, OtherTasksStay(t)
    PROVE  \A x \in SongTasks \ {t} : FileOf(x)' = FileOf(x)
PROOF
  BY DEF OtherTasksStay, FileOf

\* A task goes on, ends or is taken up again, and has stored nothing.
LEMMA TaskMoves ==
    ASSUME MusicInv, NEW t \in SongTasks, OtherTasksStay(t),
           songTask' \in [SongTasks -> SongTaskRecords], songTask'[t].at # "stored",
           IsOfOneTune(t)', ConvertsNew(t)', listedSongs' \subseteq Listed,
           losses' \in 0..MaxLosses, UNCHANGED <<songs, audio, deleter, spoiled>>
    PROVE  MusicInv'
PROOF
  <1>1. Listed' = Listed /\ Listed \subseteq SongIds
    BY DEF Listed
  <1>2. MusicTypes' /\ RowsAreOfOneTune' /\ OneFileEach' /\ DroppedIsUnnamed'
    BY <1>1 DEF MusicInv, MusicTypes, RowsAreOfOneTune, OneFileEach, DroppedIsUnnamed
  <1>3. \A x \in SongTasks : IsOfOneTune(x)' /\ ConvertsNew(x)'
    <2> SUFFICES ASSUME NEW x \in SongTasks, x # t PROVE IsOfOneTune(x)' /\ ConvertsNew(x)'
      OBVIOUS
    <2> QED
      BY DEF MusicInv, OtherTasksStay, IsOfOneTune, ConvertsNew
  <1>4. StoredIsThere'
    BY OtherFilesStay DEF MusicInv, StoredIsThere, OtherTasksStay
  <1>5. SharedAudioStays'
    BY <1>1 DEF MusicInv, SharedAudioStays
  <1> QED
    BY <1>2, <1>3, <1>4, <1>5 DEF MusicInv

\* A task that ends, or is lost, holds nothing any more.
LEMMA TaskEndsKeeps ==
    ASSUME MusicInv, NEW t \in SongTasks, TaskEnds(t), listedSongs' \subseteq Listed,
           losses' \in 0..MaxLosses, UNCHANGED <<songs, audio, deleter, spoiled>>
    PROVE  MusicInv'
PROOF
  <1>1. /\ songTask' \in [SongTasks -> SongTaskRecords] /\ OtherTasksStay(t)
        /\ songTask'[t].at = "none" /\ songTask'[t].kind = "over"
    BY DEF TaskEnds, NoSongTask, MusicInv, MusicTypes, SongTaskRecords, OtherTasksStay
  <1>2. IsOfOneTune(t)' /\ ConvertsNew(t)'
    BY <1>1 DEF IsOfOneTune, ConvertsNew
  <1> QED
    BY <1>1, <1>2, TaskMoves DEF MusicInv, MusicTypes

\* A task that resolves, fetches, fails or ends changes no row and no file.
LEMMA TaskStepsKeep ==
    ASSUME MusicInv, NEW t \in SongTasks,
           \/ process_youtube_url_task(t) \/ SongFails(t) \/ AlreadyAvailable(t)
           \/ FetchesAudio(t) \/ Acknowledges(t) \/ TaskIsLost(t) \/ cancel_download_ui(t)
    PROVE  MusicInv'
PROOF
  <1> USE DEF MusicInv
  <1>0. listedSongs \subseteq Listed /\ losses \in 0..MaxLosses /\ songTask[t] \in SongTaskRecords
    BY DEF SharedAudioStays, MusicTypes
  <1>1. CASE SongFails(t) \/ AlreadyAvailable(t) \/ Acknowledges(t) \/ cancel_download_ui(t)
    BY <1>0, <1>1, TaskEndsKeeps
       DEF SongFails, AlreadyAvailable, Acknowledges, cancel_download_ui
  <1>2. CASE process_youtube_url_task(t)
    <2>1. SongsOf(songTask[t].tune) \subseteq Listed
      BY DEF SongsOf
    <2>2. CASE SongsOf(songTask[t].tune) # {}
      <3>1. TaskEnds(t) /\ listedSongs' \subseteq Listed
        BY <1>0, <1>2, <2>1, <2>2 DEF process_youtube_url_task
      <3> QED
        BY <1>0, <1>2, <3>1, TaskEndsKeeps DEF process_youtube_url_task
    <2>3. CASE SongsOf(songTask[t].tune) = {}
      <3>1. /\ songTask' = [songTask EXCEPT ![t].kind = "song"]
            /\ songTask[t].kind = "resolve"
            /\ UNCHANGED <<listedSongs, songs, audio, deleter, spoiled, losses>>
        BY <1>2, <2>3 DEF process_youtube_url_task
      <3>2. /\ songTask' \in [SongTasks -> SongTaskRecords] /\ OtherTasksStay(t)
            /\ songTask'[t].kind = "song" /\ songTask'[t].at = songTask[t].at
            /\ songTask'[t].tune = songTask[t].tune
        BY <3>1 DEF MusicTypes, SongTaskRecords, OtherTasksStay
      <3>3. songTask[t].at \in {"none", "queued"}
        BY <1>0, <3>1 DEF IsOfOneTune, SongTaskRecords
      <3>4. IsOfOneTune(t)' /\ ConvertsNew(t)'
        BY <3>1, <3>2, <3>3 DEF IsOfOneTune, ConvertsNew
      <3> QED
        BY <1>0, <3>1, <3>2, <3>3, <3>4, TaskMoves
    <2> QED
      BY <2>2, <2>3
  <1>3. CASE FetchesAudio(t)
    <2>1. /\ songTask' = [songTask EXCEPT ![t].at = "fetched"]
          /\ songTask[t].kind \in {"song", "convert"} /\ songTask[t].at = "queued"
          /\ songTask[t].kind = "convert" =>
                \/ \A i \in SongIds : ~Finds(t, i)
                \/ \E i \in SongIds : Finds(t, i) /\ ~(songs[i].file \subseteq audio)
          /\ UNCHANGED <<songs, audio, listedSongs, deleter, spoiled, losses>>
      BY <1>3 DEF FetchesAudio, TaskGoes
    <2>2. /\ songTask' \in [SongTasks -> SongTaskRecords] /\ OtherTasksStay(t)
          /\ songTask'[t].at = "fetched" /\ songTask'[t].kind = songTask[t].kind
          /\ songTask'[t].tune = songTask[t].tune
      BY <2>1 DEF MusicTypes, SongTaskRecords, OtherTasksStay
    <2>3. songTask[t].kind = "convert" =>
             \/ songTask[t].tune \subseteq spoiled
             \/ \A i \in SongIds : songs[i].file # ArchiveFile(t)
      <3> SUFFICES ASSUME songTask[t].kind = "convert",
                          NEW i \in SongIds, songs[i].file = ArchiveFile(t)
                   PROVE  songTask[t].tune \subseteq spoiled
        OBVIOUS
      <3>1. songs[i].file # {}
        BY DEF ArchiveFile
      <3>2. i \in Listed
        BY <3>1 DEF Listed, NoSong
      <3>3. songs[i].tune = songTask[t].tune
        BY DEF ConvertsNew
      <3>4. PICK j \in SongIds : Finds(t, j) /\ ~(songs[j].file \subseteq audio)
        BY <2>1, <3>2, <3>3 DEF Finds, SongsOf
      <3>5. j \in Listed /\ songs[j].tune = songTask[t].tune
        BY <3>4 DEF Finds, SongsOf
      <3> QED
        BY <3>4, <3>5 DEF SharedAudioStays
    <2>4. IsOfOneTune(t)' /\ ConvertsNew(t)'
      BY <2>1, <2>2, <2>3 DEF IsOfOneTune, ConvertsNew
    <2> QED
      BY <1>0, <2>1, <2>2, <2>4, TaskMoves
  <1>5. CASE TaskIsLost(t) /\ TaskEnds(t)
    <2>1. losses' \in 0..MaxLosses /\ UNCHANGED <<songs, audio, listedSongs, deleter, spoiled>>
      BY <1>0, <1>5, MusicAssumption DEF TaskIsLost
    <2> QED
      BY <1>0, <1>5, <2>1, TaskEndsKeeps
  <1>4. CASE TaskIsLost(t) /\ TaskGoes(t, "queued")
    <2>1. /\ songTask' = [songTask EXCEPT ![t].at = "queued"]
          /\ songTask[t].kind \in {"song", "convert"} /\ songTask[t].at # "none"
          /\ losses' \in 0..MaxLosses
          /\ UNCHANGED <<songs, audio, listedSongs, deleter, spoiled>>
      BY <1>0, <1>4, MusicAssumption DEF TaskIsLost, TaskGoes, IsOfOneTune
    <2>2. /\ songTask' \in [SongTasks -> SongTaskRecords] /\ OtherTasksStay(t)
          /\ songTask'[t].at = "queued" /\ songTask'[t].kind = songTask[t].kind
          /\ songTask'[t].tune = songTask[t].tune
      BY <2>1 DEF MusicTypes, SongTaskRecords, OtherTasksStay
    <2>3. IsOfOneTune(t)' /\ ConvertsNew(t)'
      BY <2>1, <2>2 DEF IsOfOneTune, ConvertsNew
    <2> QED
      BY <1>0, <2>1, <2>2, <2>3, TaskMoves
  <1> QED
    BY <1>1, <1>2, <1>3, <1>4, <1>5 DEF TaskIsLost

\* A task is started for one tune.
LEMMA StartsKeeps == ASSUME MusicInv, StartsTask PROVE MusicInv'
PROOF
  <1>1. PICK t \in SongTasks, v \in Tunes, kind \in {"resolve", "convert"}, p \in BOOLEAN :
           Starts(t, kind, v, p)
    BY DEF StartsTask
  <1>2. /\ songTask' \in [SongTasks -> SongTaskRecords] /\ OtherTasksStay(t)
        /\ songTask'[t].at = "queued" /\ songTask'[t].kind = kind
        /\ songTask'[t].tune = {v} /\ songTask[t].kind = "none"
    BY <1>1 DEF Starts, MusicInv, MusicTypes, SongTaskRecords, OtherTasksStay
  <1>3. UNCHANGED <<songs, audio, listedSongs, deleter, spoiled, losses>>
    BY DEF StartsTask
  <1>4. IsOfOneTune(t)' /\ ConvertsNew(t)'
    BY <1>2, <1>3 DEF MusicInv, IsOfOneTune, ConvertsNew
  <1> QED
    BY <1>2, <1>3, <1>4, TaskMoves DEF MusicInv, MusicTypes, SharedAudioStays

\* A task stores the file it fetched, and holds it until its row is there.
LEMMA SavesFileKeeps ==
    ASSUME MusicInv, NEW t \in SongTasks, _save_audio_file(t) PROVE MusicInv'
PROOF
  <1> USE DEF MusicInv
  <1>1. /\ songTask' = [songTask EXCEPT ![t].at = "stored"]
        /\ songTask[t].at = "fetched" /\ songTask[t].kind \in {"song", "convert"}
        /\ audio' = audio \cup FileOf(t)
        /\ spoiled \subseteq spoiled' /\ spoiled' \subseteq Tunes
        /\ \/ songTask[t].tune \subseteq spoiled'
           \/ \A d \in Deleters : deleter[d].file # FileOf(t)
        /\ UNCHANGED <<songs, listedSongs, deleter, losses>>
    BY DEF _save_audio_file, TaskGoes, IsOfOneTune, MusicTypes, SongTaskRecords
  <1>2. /\ songTask' \in [SongTasks -> SongTaskRecords] /\ OtherTasksStay(t)
        /\ songTask'[t].at = "stored" /\ songTask'[t].kind = songTask[t].kind
        /\ songTask'[t].tune = songTask[t].tune
    BY <1>1 DEF MusicTypes, SongTaskRecords, OtherTasksStay
  <1>3. FileOf(t)' = FileOf(t) /\ \A x \in SongTasks \ {t} : FileOf(x)' = FileOf(x)
    BY <1>2, SameFile, OtherFilesStay
  <1>4. Listed' = Listed
    BY <1>1 DEF Listed
  <1>5. MusicTypes'
    BY <1>1, <1>2 DEF MusicTypes
  <1>6. RowsAreOfOneTune' /\ OneFileEach' /\ DroppedIsUnnamed'
    BY <1>1, <1>4 DEF RowsAreOfOneTune, OneFileEach, DroppedIsUnnamed
  <1>7. \A x \in SongTasks : IsOfOneTune(x)' /\ ConvertsNew(x)'
    <2>1. UNCHANGED songs /\ spoiled \subseteq spoiled'
      BY <1>1
    <2>2. ConvertsNew(t)'
      BY <1>1, <1>2, <2>1 DEF ConvertsNew
    <2>3. \A x \in SongTasks \ {t} : ConvertsNew(x)'
      BY <1>2, <2>1 DEF ConvertsNew, OtherTasksStay
    <2> QED
      BY <1>1, <1>2, <2>2, <2>3 DEF IsOfOneTune, OtherTasksStay
  <1>8. StoredIsThere'
    BY <1>1, <1>2, <1>3 DEF StoredIsThere, OtherTasksStay
  <1>9. SharedAudioStays'
    BY <1>1, <1>4 DEF SharedAudioStays
  <1> QED
    BY <1>5, <1>6, <1>7, <1>8, <1>9

\* The row of a song names the file its task has stored.
LEMMA InsertsKeeps ==
    ASSUME MusicInv, NEW t \in SongTasks, NEW i \in SongIds, InsertsSong(t, i) PROVE MusicInv'
PROOF
  <1> USE DEF MusicInv
  <1> DEFINE file == FileOf(t)
             tune == songTask[t].tune
  <1>1. /\ songTask' = [songTask EXCEPT ![t].at = "committed"]
        /\ songTask[t].at = "stored" /\ songTask[t].kind \in {"song", "convert"}
        /\ songs' = [songs EXCEPT ![i] = [tune |-> tune, file |-> file]]
        /\ i \notin Listed
        /\ listedSongs' \subseteq listedSongs \cup {i}
        /\ UNCHANGED <<audio, deleter, spoiled, losses>>
    BY DEF InsertsSong, TaskGoes, IsOfOneTune
  <1>2. /\ songTask' \in [SongTasks -> SongTaskRecords] /\ OtherTasksStay(t)
        /\ songTask'[t].at = "committed" /\ songTask'[t].kind = songTask[t].kind
        /\ songTask'[t].tune = songTask[t].tune
    BY <1>1 DEF MusicTypes, SongTaskRecords, OtherTasksStay
  <1>3. /\ \E f \in AudioFiles : file = {f}
        /\ \A x \in SongTasks : file = ArchiveFile(x) => x = t /\ songTask[t].kind = "convert"
    BY <1>1, FileIs
  <1>4. PICK v \in Tunes : tune = {v}
    BY <1>1 DEF IsOfOneTune
  <1>5. \A x \in SongTasks : FileOf(x)' = FileOf(x)
    BY <1>2, SameFile, OtherFilesStay
  <1>50. \/ tune \subseteq spoiled
         \/ file \subseteq audio /\ \A d \in Deleters : deleter[d].file # file
    BY <1>1 DEF StoredIsThere
  <1> HIDE DEF file, tune
  <1>6. /\ songs' \in [SongIds -> SongRows]
        /\ songs'[i].tune = tune /\ songs'[i].file = file
        /\ \A j \in SongIds \ {i} : songs'[j] = songs[j]
    BY <1>1, <1>3, <1>4 DEF MusicTypes, SongRows
  <1>7. Listed' = Listed \cup {i}
    BY <1>3, <1>6 DEF Listed, NoSong
  <1>8. MusicTypes'
    BY <1>1, <1>2, <1>6 DEF MusicTypes
  <1>9. RowsAreOfOneTune' /\ OneFileEach'
    BY <1>1, <1>3, <1>4, <1>6, <1>7 DEF RowsAreOfOneTune, OneFileEach
  <1>10. DroppedIsUnnamed'
    BY <1>1, <1>50, <1>6, <1>7 DEF DroppedIsUnnamed
  <1>11. \A x \in SongTasks : IsOfOneTune(x)' /\ ConvertsNew(x)'
    <2> SUFFICES ASSUME NEW x \in SongTasks PROVE IsOfOneTune(x)' /\ ConvertsNew(x)'
      OBVIOUS
    <2>1. IsOfOneTune(x)'
      BY <1>1, <1>2 DEF IsOfOneTune, OtherTasksStay
    <2>2. ConvertsNew(x)'
      BY <1>1, <1>2, <1>3, <1>6 DEF ConvertsNew, OtherTasksStay, tune
    <2> QED
      BY <2>1, <2>2
  <1>12. StoredIsThere'
    BY <1>1, <1>2, <1>5 DEF StoredIsThere, OtherTasksStay
  <1>13. SharedAudioStays'
    BY <1>1, <1>50, <1>6, <1>7 DEF SharedAudioStays
  <1> QED
    BY <1>8, <1>9, <1>10, <1>11, <1>12, <1>13

\* A row that is not accepted, or cannot be read back: a conversion takes its file
\* back, a download leaves it.
LEMMA TakesBackKeeps ==
    ASSUME MusicInv, NEW t \in SongTasks, InsertFails(t) \/ RefreshFails(t) PROVE MusicInv'
PROOF
  <1> USE DEF MusicInv
  <1>1. /\ TaskEnds(t)
        /\ songTask[t].at \in {"stored", "committed"} /\ songTask[t].kind \in {"song", "convert"}
        /\ audio' = audio \ FileOf(t) \/ audio' = audio
        /\ songTask[t].kind = "song" => audio' = audio
        /\ spoiled \subseteq spoiled' /\ spoiled' \subseteq Tunes
        /\ UNCHANGED <<songs, listedSongs, deleter, losses>>
    BY DEF InsertFails, RefreshFails, IsOfOneTune, MusicTypes, SongTaskRecords
  <1>2. /\ songTask' \in [SongTasks -> SongTaskRecords] /\ OtherTasksStay(t)
        /\ songTask'[t].at = "none" /\ songTask'[t].kind = "over"
    BY <1>1 DEF TaskEnds, NoSongTask, MusicTypes, SongTaskRecords, OtherTasksStay
  <1>3. PICK f \in AudioFiles : FileOf(t) = {f}
    BY <1>1, FileIs
  <1>4. songTask[t].kind = "convert" => FileOf(t) = ArchiveFile(t)
    BY <1>1, FileIs
  <1>5. Listed' = Listed /\ Listed \subseteq SongIds
    BY <1>1 DEF Listed
  <1>6. MusicTypes' /\ RowsAreOfOneTune' /\ OneFileEach'
    BY <1>1, <1>2, <1>5 DEF MusicTypes, RowsAreOfOneTune, OneFileEach
  <1>60. DroppedIsUnnamed'
    BY <1>1, <1>5 DEF DroppedIsUnnamed
  <1>7. \A x \in SongTasks : IsOfOneTune(x)' /\ ConvertsNew(x)'
    <2>1. IsOfOneTune(t)' /\ ConvertsNew(t)'
      BY <1>2 DEF IsOfOneTune, ConvertsNew
    <2>2. \A x \in SongTasks \ {t} : songTask'[x] = songTask[x]
      BY <1>2 DEF OtherTasksStay
    <2>3. \A x \in SongTasks \ {t} : IsOfOneTune(x)'
      BY <2>2 DEF IsOfOneTune
    <2>4. \A x \in SongTasks \ {t} : ConvertsNew(x)'
      BY <1>1, <2>2 DEF ConvertsNew
    <2> QED
      BY <2>1, <2>3, <2>4
  <1>8. StoredIsThere'
    <2> SUFFICES ASSUME NEW x \in SongTasks, songTask'[x].at = "stored"
                 PROVE  \/ songTask'[x].tune \subseteq spoiled'
                        \/ /\ FileOf(x)' \subseteq audio'
                           /\ \A d \in Deleters : deleter'[d].file # FileOf(x)'
      BY DEF StoredIsThere
    <2>1. x # t /\ songTask'[x] = songTask[x] /\ FileOf(x)' = FileOf(x)
      BY <1>2, OtherFilesStay DEF OtherTasksStay
    <2>2. \/ songTask[x].tune \subseteq spoiled
          \/ FileOf(x) \subseteq audio /\ \A d \in Deleters : deleter[d].file # FileOf(x)
      BY <2>1 DEF StoredIsThere
    <2>3. PICK g \in AudioFiles : FileOf(x) = {g}
      BY <2>1, FileIs
    <2>4. songTask[t].kind = "convert" => FileOf(x) # FileOf(t)
      BY <1>4, <2>1, FileIs
    <2> QED
      BY <1>1, <1>3, <2>1, <2>2, <2>3, <2>4
  <1>9. SharedAudioStays'
    <2> SUFFICES ASSUME NEW i \in Listed
                 PROVE  songs[i].file \subseteq audio' \/ songs[i].tune \subseteq spoiled'
      BY <1>1, <1>5 DEF SharedAudioStays
    <2>1. songs[i].file \subseteq audio \/ songs[i].tune \subseteq spoiled
      BY DEF SharedAudioStays
    <2>2. PICK g \in AudioFiles : songs[i].file = {g}
      BY DEF RowsAreOfOneTune
    <2>3. songTask[t].kind = "convert" /\ songs[i].file = FileOf(t) =>
             songs[i].tune \subseteq spoiled'
      <3> SUFFICES ASSUME songTask[t].kind = "convert", songs[i].file = FileOf(t)
                   PROVE  songs[i].tune \subseteq spoiled'
        OBVIOUS
      <3>1. /\ songs[i].tune = songTask[t].tune
            /\ songTask[t].tune \subseteq spoiled \/ songTask[t].at # "stored"
        BY <1>4, <1>5 DEF ConvertsNew
      <3>2. CASE InsertFails(t)
        BY <1>1, <3>1, <3>2 DEF InsertFails
      <3>3. CASE RefreshFails(t)
        <4>1. i \in Naming(FileOf(t))
          BY DEF Naming
        <4> QED
          BY <3>1, <3>3, <4>1 DEF RefreshFails
      <3> QED
        BY <3>2, <3>3
    <2> QED
      BY <1>1, <1>3, <2>1, <2>2, <2>3
  <1> QED
    BY <1>6, <1>60, <1>7, <1>8, <1>9

\* The row goes first; its file is looked at next.
LEMMA DeletesKeeps ==
    ASSUME MusicInv, NEW d \in Deleters, NEW i \in SongIds, DeletesSong(d, i) PROVE MusicInv'
PROOF
  <1> USE DEF MusicInv
  <1>1. /\ i \in Listed
        /\ songs' = [songs EXCEPT ![i] = NoSong]
        /\ listedSongs' = listedSongs \ {i}
        /\ deleter' = [deleter EXCEPT ![d] = [at |-> "look", file |-> songs[i].file]]
        /\ spoiled \subseteq spoiled' /\ spoiled' \subseteq Tunes
        /\ \A t \in SongTasks : FileOf(t) = songs[i].file /\ songTask[t].at = "stored" =>
              songTask[t].tune \subseteq spoiled'
        /\ UNCHANGED <<audio, songTask, losses>>
    BY DEF DeletesSong, MusicTypes, SongTaskRecords
  <1>2. NoSong \in SongRows /\ NoSong.file = {} /\ \A t : NoSong.file # ArchiveFile(t)
    BY DEF NoSong, SongRows, ArchiveFile
  <1> HIDE DEF NoSong
  <1>3. /\ songs' \in [SongIds -> SongRows] /\ songs'[i] = NoSong
        /\ \A j \in SongIds \ {i} : songs'[j] = songs[j]
    BY <1>1, <1>2 DEF MusicTypes
  <1>4. Listed' = Listed \ {i} /\ Listed \subseteq SongIds
    BY <1>3 DEF Listed
  <1>6. songs[i] \in SongRows
    BY DEF MusicTypes
  <1>5. /\ deleter' \in [Deleters -> Deletions]
        /\ deleter'[d].at = "look" /\ deleter'[d].file = songs[i].file
        /\ \A e \in Deleters \ {d} : deleter'[e] = deleter[e]
    BY <1>1, <1>6 DEF MusicTypes, SongRows, Deletions
  <1>7. MusicTypes'
    BY <1>1, <1>3, <1>5 DEF MusicTypes
  <1>8. RowsAreOfOneTune' /\ OneFileEach' /\ DroppedIsUnnamed'
    <2>1. RowsAreOfOneTune'
      BY <1>3, <1>4 DEF RowsAreOfOneTune
    <2>2. OneFileEach'
      BY <1>1, <1>5 DEF RowsAreOfOneTune, OneFileEach
    <2>3. DroppedIsUnnamed'
      BY <1>1, <1>3, <1>4, <1>5 DEF DroppedIsUnnamed
    <2> QED
      BY <2>1, <2>2, <2>3
  <1>9. \A x \in SongTasks : IsOfOneTune(x)' /\ ConvertsNew(x)'
    <2>1. \A x \in SongTasks : IsOfOneTune(x)'
      BY <1>1 DEF IsOfOneTune
    <2>2. \A x \in SongTasks, j \in SongIds :
             songs'[j].file = ArchiveFile(x) => songs'[j] = songs[j]
      BY <1>2, <1>3
    <2>3. \A x \in SongTasks : ConvertsNew(x)'
      BY <1>1, <2>2 DEF ConvertsNew
    <2> QED
      BY <2>1, <2>3
  <1>10. StoredIsThere'
    <2>1. \A x \in SongTasks : FileOf(x)' = FileOf(x)
      BY <1>1 DEF FileOf
    <2> QED
      BY <1>1, <1>5, <2>1 DEF StoredIsThere
  <1>11. SharedAudioStays'
    BY <1>1, <1>3, <1>4 DEF SharedAudioStays
  <1> QED
    BY <1>7, <1>8, <1>9, <1>10, <1>11

\* The deletion looks at the other rows and drops the file.
LEMMA DeleterKeeps ==
    ASSUME MusicInv, NEW d \in Deleters, LooksForOthers(d) \/ _delete_storage_file(d)
    PROVE  MusicInv'
PROOF
  <1> USE DEF MusicInv
  <1>1. UNCHANGED <<songs, listedSongs, songTask, spoiled, losses>>
    BY DEF LooksForOthers, _delete_storage_file
  <1>2. /\ Listed' = Listed
        /\ \A x \in SongTasks : IsOfOneTune(x)' /\ ConvertsNew(x)' /\ FileOf(x)' = FileOf(x)
    BY <1>1 DEF Listed, IsOfOneTune, ConvertsNew, FileOf
  <1>3. PICK f \in AudioFiles : deleter[d].file = {f}
    BY DEF OneFileEach, LooksForOthers, _delete_storage_file
  <1>30. deleter[d] \in Deletions /\ NoDeletion \in Deletions
         /\ NoDeletion.at = "no" /\ NoDeletion.file = {}
    BY DEF MusicTypes, NoDeletion, Deletions
  <1>31. /\ deleter' \in [Deleters -> Deletions]
         /\ \A e \in Deleters \ {d} : deleter'[e] = deleter[e]
         /\ \/ deleter'[d].at = "no" /\ deleter'[d].file = {}
            \/ /\ deleter'[d].at = "drop" /\ deleter'[d].file = {f}
               /\ \A i \in Listed : songs[i].file # {f}
    BY <1>3, <1>30 DEF LooksForOthers, _delete_storage_file, Naming, MusicTypes, Deletions
  <1>32. MusicTypes' /\ RowsAreOfOneTune'
    BY <1>1, <1>2, <1>31 DEF MusicTypes, RowsAreOfOneTune
  <1>33. OneFileEach'
    BY <1>31 DEF OneFileEach
  <1>34. DroppedIsUnnamed'
    BY <1>1, <1>2, <1>31 DEF DroppedIsUnnamed
  <1>35. \A x \in SongTasks : songTask[x].at = "stored" => \E g : FileOf(x) = {g}
    BY FileIs
  <1>36. \A x \in SongTasks : songTask[x].at = "stored" =>
            \/ songTask[x].tune \subseteq spoiled
            \/ /\ FileOf(x) \subseteq audio /\ FileOf(x) # {f}
               /\ \A e \in Deleters : deleter'[e].file # FileOf(x)
    <2> SUFFICES ASSUME NEW x \in SongTasks, songTask[x].at = "stored",
                        ~(songTask[x].tune \subseteq spoiled)
                 PROVE  /\ FileOf(x) \subseteq audio /\ FileOf(x) # {f}
                        /\ \A e \in Deleters : deleter'[e].file # FileOf(x)
      OBVIOUS
    <2>1. FileOf(x) \subseteq audio /\ \A e \in Deleters : deleter[e].file # FileOf(x)
      BY DEF StoredIsThere
    <2>2. PICK g : FileOf(x) = {g}
      BY <1>35
    <2> QED
      BY <1>3, <1>31, <2>1, <2>2
  <1>4. CASE LooksForOthers(d)
    <2>1. UNCHANGED audio
      BY <1>4 DEF LooksForOthers
    <2>2. SharedAudioStays'
      BY <1>1, <1>2, <2>1 DEF SharedAudioStays
    <2>3. StoredIsThere'
      BY <1>1, <1>2, <1>36, <2>1 DEF StoredIsThere
    <2> QED
      BY <1>2, <1>32, <1>33, <1>34, <2>2, <2>3
  <1>5. CASE _delete_storage_file(d)
    <2>1. deleter[d].at = "drop" /\ audio' = audio \ {f}
      BY <1>3, <1>5 DEF _delete_storage_file
    <2>2. StoredIsThere'
      BY <1>1, <1>2, <1>35, <1>36, <2>1 DEF StoredIsThere
    <2>3. \A i \in Listed : songs[i].file # {f} \/ songs[i].tune \subseteq spoiled
      BY <1>3, <2>1 DEF DroppedIsUnnamed
    <2>4. SharedAudioStays'
      BY <1>1, <1>2, <2>1, <2>3 DEF SharedAudioStays, RowsAreOfOneTune
    <2> QED
      BY <1>2, <1>32, <1>33, <1>34, <2>2, <2>4
  <1> QED
    BY <1>4, <1>5

\* Every action keeps the invariant of songs, files and tasks.
LEMMA StepKeepsMusic == MusicInv /\ [MusicNext]_musicVars => MusicInv'
PROOF
  <1> SUFFICES ASSUME MusicInv, [MusicNext]_musicVars PROVE MusicInv'
    OBVIOUS
  <1>1. ASSUME NEW i \in SongIds,
               add_song_to_playlist_ui(i) \/ remove_song_from_playlist_ui(i)
        PROVE  MusicInv'
    <2>1. /\ listedSongs' \subseteq Listed /\ Listed \subseteq SongIds
          /\ UNCHANGED <<songs, audio, songTask, deleter, spoiled, losses>>
      BY <1>1 DEF add_song_to_playlist_ui, remove_song_from_playlist_ui, MusicInv,
                  SharedAudioStays, Listed
    <2>2. Listed' = Listed
      BY <2>1 DEF Listed
    <2>3. MusicTypes' /\ SharedAudioStays'
      BY <2>1, <2>2 DEF MusicInv, MusicTypes, SharedAudioStays
    <2>4. RowsAreOfOneTune' /\ DroppedIsUnnamed' /\ OneFileEach'
      BY <2>1, <2>2 DEF MusicInv, RowsAreOfOneTune, DroppedIsUnnamed, OneFileEach
    <2>5. \A t \in SongTasks : IsOfOneTune(t)' /\ ConvertsNew(t)' /\ FileOf(t)' = FileOf(t)
      BY <2>1 DEF MusicInv, IsOfOneTune, ConvertsNew, FileOf
    <2>6. StoredIsThere'
      BY <2>1, <2>5 DEF MusicInv, StoredIsThere
    <2> QED
      BY <2>3, <2>4, <2>5, <2>6 DEF MusicInv
  <1>2. CASE UNCHANGED musicVars
    BY <1>2 DEF musicVars, MusicInv, MusicTypes, RowsAreOfOneTune, IsOfOneTune,
       ConvertsNew,
                StoredIsThere, DroppedIsUnnamed, OneFileEach, SharedAudioStays,
                Listed, FileOf
  <1> QED
    BY <1>1, <1>2, StartsKeeps, DeleterKeeps, TaskStepsKeep, SavesFileKeeps,
       TakesBackKeeps,
       InsertsKeeps, DeletesKeeps DEF MusicNext

\* No song, no task and no deletion at first.
LEMMA MusicStarts == MusicInit => MusicInv
PROOF
  <1> SUFFICES ASSUME MusicInit PROVE MusicInv
    OBVIOUS
  <1>1. /\ NoSong \in SongRows /\ NoSong.file = {} /\ \A t : NoSong.file # ArchiveFile(t)
        /\ NoSongTask \in SongTaskRecords
        /\ NoSongTask.kind = "none" /\ NoSongTask.at = "none"
        /\ NoDeletion.at = "no" /\ NoDeletion.file = {}
    BY DEF NoSong, SongRows, ArchiveFile, NoSongTask, SongTaskRecords, NoDeletion
  <1>2. Listed = {}
    BY DEF MusicInit, Listed
  <1>3. MusicTypes
    <2>1. deleter \in [Deleters -> Deletions]
      <3>1. NoDeletion \in Deletions
        BY DEF NoDeletion, Deletions
      <3> QED
        BY <3>1 DEF MusicInit
    <2>2. songs \in [SongIds -> SongRows]
      <3>1. NoSong \in SongRows
        BY <1>1
      <3> QED
        BY <3>1 DEF MusicInit
    <2>3. songTask \in [SongTasks -> SongTaskRecords]
      <3>1. NoSongTask \in SongTaskRecords
        BY <1>1
      <3> QED
        BY <3>1 DEF MusicInit
    <2>4. losses \in 0..MaxLosses
      BY MusicAssumption DEF MusicInit
    <2>5. spoiled = {} /\ listedSongs = {}
      BY DEF MusicInit
    <2> QED
      BY <2>1, <2>2, <2>3, <2>4, <2>5 DEF MusicTypes
  <1>4. \A t \in SongTasks : IsOfOneTune(t) /\ ConvertsNew(t)
    BY <1>1 DEF MusicInit, IsOfOneTune, ConvertsNew
  <1>5. StoredIsThere /\ DroppedIsUnnamed /\ OneFileEach
    BY <1>1 DEF MusicInit, StoredIsThere, DroppedIsUnnamed, OneFileEach
  <1>6. RowsAreOfOneTune /\ SharedAudioStays
    BY <1>2 DEF MusicInit, RowsAreOfOneTune, SharedAudioStays
  <1> QED
    BY <1>3, <1>4, <1>5, <1>6 DEF MusicInv

\* The types the invariant gives.
LEMMA MusicTypesAre == ASSUME MusicInv PROVE MusicTypeOK
PROOF
  <1>1. ASSUME NEW i \in Listed
        PROVE  Cardinality(songs[i].tune) = 1 /\ Cardinality(songs[i].file) = 1
    BY FS_Singleton DEF MusicInv, RowsAreOfOneTune
  <1> QED
    BY <1>1 DEF MusicInv, MusicTypes, SongTaskRecords, Deletions, MusicTypeOK

(* Rows, files, tasks and the deletion keep their types.                      *)
THEOREM MusicIsTyped == MusicSpec => []MusicTypeOK
PROOF
  <1>1. MusicInv => MusicTypeOK
    BY MusicTypesAre
  <1> QED
    BY <1>1, MusicStarts, StepKeepsMusic, PTL DEF MusicSpec

(* The file a song names stays in storage, and a playlist lists only songs    *)
(* that are there, for any tunes, songs, tasks and deletions beside each      *)
(* other: rows share a file, a task is delivered again, a conversion is       *)
(* repeated or takes its file back - unless the tune is one of which a        *)
(* deletion and a download were at one file at once, or the refresh of a      *)
(* committed conversion failed.                                               *)
THEOREM SongsKeepTheirAudio == MusicSpec => []SharedAudioStays
PROOF
  BY MusicStarts, StepKeepsMusic, PTL DEF MusicSpec, MusicInv

-----------------------------------------------------------------------------
(***************************************************************************)
(* The files of the storage.  The time of a file that is not sealed yet    *)
(* tells it from every other, so that a file whose time is the one that    *)
(* was read is the one that was read, wherever it was moved.               *)
(***************************************************************************)
Times == 0..(FileCount + MaxChanges + 1)
DiskFiles == [form : Forms, doc : Documents \cup {0}, name : Names \cup {0}, at : Times]
PassRecords == [at : {"idle", "walk", "read", "checked"}, todo : SUBSET Names,
                examined : 0..BatchSize, file : Names \cup {0}, read : DiskFiles,
                fresh : DiskFiles]
UploadRecords == {NoUpload} \cup [name : Names, doc : Documents \cup {0}]
RenameRecords == [from : Names \cup {0}, to : Names \cup {0}, sealed : BOOLEAN,
                  copied : DiskFiles]

StorageTypes ==
    /\ onDisk \in [Names -> DiskFiles]
    /\ unreadable \in [Names -> Times]
    /\ pass \in PassRecords
    /\ upload \in UploadRecords
    /\ rename \in RenameRecords
    /\ changes \in 0..MaxChanges
    /\ kept \subseteq 1..(FileCount + changes)
    /\ lateKnown \in BOOLEAN /\ triedLate \in BOOLEAN /\ raced \in BOOLEAN

Unsealed(f) == f.form \in {"plain", "bare"}

FilesHaveTimes ==
    \A n \in Names : /\ onDisk[n].form = "none" => onDisk[n] = Nothing
                     /\ Unsealed(onDisk[n]) => onDisk[n].at \in 1..(FileCount + changes)
TimesTell ==
    \A n \in Names, m \in Names :
        Unsealed(onDisk[n]) /\ Unsealed(onDisk[m]) /\ onDisk[n].at = onDisk[m].at =>
            onDisk[n].doc = onDisk[m].doc
RenamesApart ==
    rename # NoRename => /\ rename.from \in Names /\ rename.to \in Names
                         /\ rename.from # rename.to

\* What has the time of the file that was read is that file, not yet sealed.
ReadTells ==
    pass.at \in {"read", "checked"} =>
        /\ pass.file \in Names
        /\ pass.read.at \in 1..(FileCount + changes)
        /\ \A n \in Names : Unsealed(onDisk[n]) /\ onDisk[n].at = pass.read.at =>
              onDisk[n].doc = pass.read.doc
        /\ raced \/ (onDisk[pass.file].at = pass.read.at => Unsealed(onDisk[pass.file]))
FreshTells ==
    pass.at = "checked" => raced \/ (pass.fresh # Nothing /\ pass.fresh.doc = pass.read.doc)

KeptIsHeld ==
    raced \/ /\ \A n \in Names : onDisk[n].form = "sealed" => onDisk[n].name = n
             /\ \A d \in kept : \E n \in Names : onDisk[n].doc = d
             /\ \A n \in Names : onDisk[n] # Nothing => onDisk[n].doc \in kept

StorageInv ==
    /\ StorageTypes
    /\ FilesHaveTimes
    /\ TimesTell
    /\ RenamesApart
    /\ ReadTells
    /\ FreshTells
    /\ KeptIsHeld

(* The names in a pass have a first.                                          *)
LEMMA FirstName ==
    ASSUME NEW T, T \subseteq Names, T # {}
    PROVE  (CHOOSE n \in T : \A m \in T : n <= m) \in Names
PROOF
  <1>1. T \subseteq Nat
    BY DEF Names
  <1> DEFINE Less == {ss \in Nat \X Nat : ss[1] < ss[2]}
  <1>2. IsWellFoundedOn(Less, Nat)
    BY NatLessThanWellFounded DEF OpToRel
  <1>3. \E n \in T : \A m \in T : ~(<<m, n>> \in Less)
    <2> HIDE DEF Less
    <2> QED
      BY <1>1, <1>2, WFMin
  <1>4. PICK n \in T : \A m \in T : ~(<<m, n>> \in Less)
    BY <1>3
  <1>5. ASSUME NEW m \in T PROVE n <= m
    <2>1. <<m, n>> \in Nat \X Nat
      BY <1>1
    <2>2. ~(m < n)
      BY <1>4, <2>1
    <2> QED
      BY <1>1, <2>2
  <1> QED
    BY <1>5

\* No file, and no pass, are of the types of a file and of a pass.
LEMMA NothingIsAFile == /\ Nothing \in DiskFiles /\ Nothing.form = "none" /\ Nothing.at = 0
                        /\ NoPass \in PassRecords /\ NoPass.at = "idle"
PROOF
  <1>1. 0 \in Times /\ 0 \in 0..BatchSize
    BY StorageFilesAssumption DEF Times
  <1>2. Nothing \in DiskFiles /\ Nothing.form = "none" /\ Nothing.at = 0
    BY <1>1 DEF Nothing, DiskFiles, Forms
  <1> HIDE DEF Nothing
  <1> QED
    BY <1>1, <1>2 DEF NoPass, PassRecords

\* Disk, requests and clock stay.
DiskStays == UNCHANGED <<onDisk, upload, rename, kept, raced, changes>>

\* A step of the pass that changes no file.
LEMMA PassLooks ==
    ASSUME StorageInv, DiskStays, UNCHANGED lateKnown, pass' \in PassRecords,
           unreadable' \in [Names -> Times], triedLate' \in BOOLEAN,
           ReadTells', FreshTells'
    PROVE  StorageInv'
PROOF
  <1>1. StorageTypes'
    BY DEF StorageInv, StorageTypes, DiskStays
  <1>2. FilesHaveTimes' /\ TimesTell' /\ RenamesApart' /\ KeptIsHeld'
    BY DEF StorageInv, DiskStays, FilesHaveTimes, TimesTell, RenamesApart,
       KeptIsHeld, Unsealed
  <1> QED
    BY <1>1, <1>2 DEF StorageInv

\* The steps of the pass but for the one that replaces a file.
LEMMA PassLooksOn ==
    ASSUME StorageInv,
           \/ PassStarts \/ PassesBy \/ FindsUnreadable \/ ReadsLegacy \/ ChecksFresh \/ PassEnds
    PROVE  StorageInv'
PROOF
  <1> USE DEF StorageInv
  <1>0. /\ pass \in PassRecords /\ onDisk \in [Names -> DiskFiles]
        /\ unreadable \in [Names -> Times] /\ lateKnown \in BOOLEAN /\ triedLate \in BOOLEAN
    BY DEF StorageTypes
  <1>1. pass.todo # {} => Foremost \in Names
    BY <1>0, FirstName DEF Foremost, PassRecords
  <1>2. /\ Walked \in PassRecords /\ Walked.at = "walk"
        /\ \A k \in 0..BatchSize : [Walked EXCEPT !.examined = k] \in PassRecords
        /\ \A k : [Walked EXCEPT !.examined = k].at = "walk"
        /\ Walked.examined = pass.examined
    BY <1>0, NothingIsAFile DEF Walked, PassRecords
  <1>3. DiskStays /\ UNCHANGED lateKnown
    BY DEF PassStarts, PassesBy, FindsUnreadable, ReadsLegacy, ChecksFresh, PassEnds,
       DiskStays
  <1>4. ASSUME pass'.at \in {"idle", "walk"} PROVE ReadTells' /\ FreshTells'
    BY <1>4 DEF ReadTells, FreshTells
  <1>5. CASE PassStarts
    <2>1. pass' = [NoPass EXCEPT !.at = "walk", !.todo = Present] /\ Present \subseteq Names
      BY <1>5 DEF PassStarts, Present
    <2>2. pass' \in PassRecords /\ pass'.at = "walk"
      BY <2>1, NothingIsAFile DEF PassRecords
    <2>3. 0 \in Times
      BY StorageFilesAssumption DEF Times
    <2>4. unreadable' \in [Names -> Times] /\ triedLate' \in BOOLEAN
      BY <1>0, <1>5, <2>3 DEF PassStarts, NoSignature
    <2> QED
      BY <1>3, <1>4, <2>2, <2>4, PassLooks
  <1>6. CASE PassesBy \/ PassEnds
    <2>1. /\ pass' \in PassRecords /\ pass'.at \in {"idle", "walk"}
          /\ UNCHANGED <<unreadable, triedLate>>
      BY <1>2, <1>6, NothingIsAFile DEF PassesBy, PassEnds
    <2> QED
      BY <1>0, <1>3, <1>4, <2>1, PassLooks
  <1>7. CASE FindsUnreadable
    <2>1. /\ pass' = [Walked EXCEPT !.examined = Walked.examined + 1]
          /\ pass.examined < BatchSize /\ pass.todo # {}
          /\ unreadable' = [unreadable EXCEPT ![Foremost] = onDisk[Foremost].at]
          /\ UNCHANGED triedLate
      BY <1>7 DEF FindsUnreadable, Examined
    <2>2. pass.examined + 1 \in 0..BatchSize
      BY <1>0, <2>1, StorageFilesAssumption DEF PassRecords
    <2>3. pass' \in PassRecords /\ pass'.at = "walk"
      BY <1>2, <2>1, <2>2
    <2>4. unreadable' \in [Names -> Times]
      BY <1>0, <1>1, <2>1 DEF DiskFiles
    <2> QED
      BY <1>0, <1>3, <1>4, <2>1, <2>3, <2>4, PassLooks
  <1>8. CASE ReadsLegacy
    <2> DEFINE f == onDisk[Foremost]
    <2>1. /\ pass' = [Walked EXCEPT !.at = "read", !.file = Foremost, !.read = f,
                                    !.examined = pass.examined + 1]
          /\ pass.examined < BatchSize /\ pass.todo # {} /\ f.form = "bare"
          /\ UNCHANGED <<unreadable, triedLate>>
      BY <1>8 DEF ReadsLegacy, Examined
    <2>2. pass.examined + 1 \in 0..BatchSize
      BY <1>0, <2>1, StorageFilesAssumption DEF PassRecords
    <2>3. Foremost \in Names /\ f \in DiskFiles
      BY <1>0, <1>1, <2>1
    <2>4. /\ pass' \in PassRecords /\ pass'.at = "read"
          /\ pass'.file = Foremost /\ pass'.read = f
      BY <1>2, <2>1, <2>2, <2>3 DEF PassRecords
    <2>5. Unsealed(f) /\ f.at \in 1..(FileCount + changes)
      BY <2>1, <2>3 DEF Unsealed, FilesHaveTimes
    <2>6. ReadTells'
      BY <1>3, <2>3, <2>4, <2>5 DEF ReadTells, TimesTell, DiskStays, Unsealed
    <2>7. FreshTells'
      BY <2>4 DEF FreshTells
    <2> QED
      BY <1>0, <1>3, <2>1, <2>4, <2>6, <2>7, PassLooks
  <1>9. CASE ChecksFresh
    <2> DEFINE f == onDisk[pass.file]
    <2>1. pass.at = "read" /\ pass.file \in Names /\ UNCHANGED <<unreadable, triedLate>>
      BY <1>9 DEF ChecksFresh, ReadTells
    <2>2. f \in DiskFiles
      BY <1>0, <2>1
    <2>3. CASE f.at = pass.read.at /\ f # Nothing
      <3>1. pass' = [pass EXCEPT !.at = "checked", !.fresh = f]
        BY <1>9, <2>3 DEF ChecksFresh
      <3>2. /\ pass' \in PassRecords /\ pass'.at = "checked" /\ pass'.fresh = f
            /\ pass'.file = pass.file /\ pass'.read = pass.read
        BY <1>0, <2>2, <3>1 DEF PassRecords
      <3>3. ReadTells'
        BY <1>3, <2>1, <3>2 DEF ReadTells, DiskStays, Unsealed
      <3>4. raced \/ f.doc = pass.read.doc
        BY <2>1, <2>3 DEF ReadTells
      <3>5. FreshTells'
        BY <1>3, <2>3, <3>2, <3>4 DEF FreshTells, DiskStays
      <3> QED
        BY <1>0, <1>3, <2>1, <3>2, <3>3, <3>5, PassLooks
    <2>4. CASE ~(f.at = pass.read.at /\ f # Nothing)
      <3>1. pass' = [pass EXCEPT !.at = "walk", !.file = 0, !.read = Nothing]
        BY <1>9, <2>4 DEF ChecksFresh
      <3>2. pass' \in PassRecords /\ pass'.at = "walk"
        BY <1>0, <3>1, NothingIsAFile DEF PassRecords
      <3> QED
        BY <1>0, <1>3, <1>4, <2>1, <3>2, PassLooks
    <2> QED
      BY <2>3, <2>4
  <1> QED
    BY <1>5, <1>6, <1>7, <1>8, <1>9

\* The clock of the changes.
LEMMA ClockTicks ==
    ASSUME StorageTypes
    PROVE  /\ Now \in Times /\ Now = FileCount + changes + 1 /\ Now > FileCount + changes
           /\ Change => /\ changes' = changes + 1 /\ changes' \in 0..MaxChanges
                        /\ Now \in Documents /\ Now = FileCount + changes'
PROOF
  BY StorageFilesAssumption DEF StorageTypes, Now, Times, Change, Documents

\* A file is written for its name, or one goes: what the pass has read is told
\* from it by its time.
LEMMA PassIsTold ==
    ASSUME StorageInv, UNCHANGED pass, raced => raced', changes' \in {changes, changes + 1},
           \A n \in Names : \/ onDisk'[n] = onDisk[n]
                            \/ onDisk'[n] = Nothing
                            \/ onDisk'[n].at = Now
                            \/ \E m \in Names : onDisk'[n] = onDisk[m] /\ (raced' \/ Unsealed(onDisk[m]))
    PROVE  ReadTells' /\ FreshTells'
PROOF
  <1>1. FreshTells'
    BY DEF StorageInv, FreshTells
  <1>2. ReadTells'
    <2> SUFFICES ASSUME pass.at \in {"read", "checked"} PROVE ReadTells'
      BY DEF ReadTells
    <2>1. /\ pass.file \in Names /\ pass.read.at \in 1..(FileCount + changes)
          /\ \A n \in Names : Unsealed(onDisk[n]) /\ onDisk[n].at = pass.read.at =>
                onDisk[n].doc = pass.read.doc
          /\ raced \/ (onDisk[pass.file].at = pass.read.at => Unsealed(onDisk[pass.file]))
      BY DEF StorageInv, ReadTells
    <2>2. pass.read.at # Now /\ pass.read.at # 0 /\ pass.read.at \in 1..(FileCount + changes')
      BY <2>1, ClockTicks, StorageFilesAssumption DEF StorageInv, StorageTypes
    <2>3. \A n \in Names : Unsealed(onDisk'[n]) /\ onDisk'[n].at = pass.read.at =>
             onDisk'[n].doc = pass.read.doc
      BY <2>1, <2>2, NothingIsAFile DEF Unsealed
    <2>4. raced' \/ (onDisk'[pass.file].at = pass.read.at => Unsealed(onDisk'[pass.file]))
      BY <2>1, <2>2, NothingIsAFile DEF Unsealed
    <2> QED
      BY <2>1, <2>2, <2>3, <2>4 DEF ReadTells, Unsealed
  <1> QED
    BY <1>1, <1>2

\* The envelope that replaces a file holds the document that was read, and that
\* is the one which is there.
LEMMA ReplacesKeeps == ASSUME StorageInv, ReplacesLegacy PROVE StorageInv'
PROOF
  <1> USE DEF StorageInv
  <1> DEFINE p == pass.file
             new == [form |-> "sealed", doc |-> pass.read.doc, name |-> p, at |-> Now]
  <1>1. /\ pass.at = "checked" /\ p \in Names
        /\ raced' = (raced \/ onDisk[p] # pass.fresh)
        /\ onDisk' = [onDisk EXCEPT ![p] = new]
        /\ unreadable' = [unreadable EXCEPT ![p] = NoSignature]
        /\ pass' = [NoPass EXCEPT !.at = "walk", !.todo = pass.todo, !.examined = pass.examined]
        /\ UNCHANGED <<triedLate, lateKnown, upload, rename, kept, changes>>
    BY DEF ReplacesLegacy, ReadTells
  <1>2. /\ pass.read.doc \in Documents \cup {0} /\ Now \in Times /\ 0 \in Times
        /\ onDisk \in [Names -> DiskFiles] /\ unreadable \in [Names -> Times]
    BY ClockTicks, StorageFilesAssumption DEF StorageTypes, PassRecords, DiskFiles,
       Times
  <1>3. /\ new \in DiskFiles /\ new.form = "sealed" /\ new.name = p /\ new.doc = pass.read.doc
        /\ new # Nothing
    BY <1>1, <1>2 DEF DiskFiles, Forms, Nothing
  <1> HIDE DEF new
  <1>4. /\ onDisk' \in [Names -> DiskFiles] /\ onDisk'[p] = new
        /\ \A n \in Names \ {p} : onDisk'[n] = onDisk[n]
    BY <1>1, <1>2, <1>3
  <1>5. pass' \in PassRecords /\ pass'.at = "walk"
    BY <1>1, NothingIsAFile DEF StorageTypes, PassRecords
  <1>6. unreadable' \in [Names -> Times]
    BY <1>1, <1>2 DEF NoSignature
  <1>60. raced' \in BOOLEAN
    BY <1>1
  <1>7. StorageTypes'
    BY <1>1, <1>4, <1>5, <1>6, <1>60 DEF StorageTypes
  <1>8. FilesHaveTimes' /\ TimesTell' /\ RenamesApart'
    BY <1>1, <1>3, <1>4 DEF FilesHaveTimes, TimesTell, RenamesApart, Unsealed
  <1>9. ReadTells' /\ FreshTells'
    BY <1>5 DEF ReadTells, FreshTells
  <1>10. KeptIsHeld'
    <2>1. CASE raced' = TRUE
      BY <2>1 DEF KeptIsHeld
    <2>2. CASE raced' = FALSE
      <3>1. raced = FALSE /\ onDisk[p] = pass.fresh
        BY <1>1, <2>2 DEF StorageTypes
      <3>2. onDisk[p] # Nothing /\ onDisk[p].doc = pass.read.doc
        BY <1>1, <3>1 DEF FreshTells
      <3>3. onDisk[p].doc \in kept
        BY <1>1, <3>1, <3>2 DEF KeptIsHeld
      <3>4. \A n \in Names : onDisk'[n].doc = onDisk[n].doc
        BY <1>3, <1>4, <3>2
      <3>5. \A n \in Names : onDisk'[n] # Nothing => onDisk'[n].doc \in kept
        BY <1>4, <3>1, <3>3, <3>4 DEF KeptIsHeld
      <3>6. \A n \in Names : onDisk'[n].form = "sealed" => onDisk'[n].name = n
        BY <1>3, <1>4, <3>1 DEF KeptIsHeld
      <3> QED
        BY <1>1, <3>1, <3>4, <3>5, <3>6 DEF KeptIsHeld
    <2> QED
      BY <1>60, <2>1, <2>2
  <1> QED
    BY <1>7, <1>8, <1>9, <1>10

\* A file is written, with the time of now.
LEMMA DiskWrites ==
    ASSUME StorageInv, NEW p \in Names, NEW f \in DiskFiles, f.at = Now, f.form # "none",
           onDisk' = [onDisk EXCEPT ![p] = f], Change, UNCHANGED pass, raced => raced'
    PROVE  /\ onDisk' \in [Names -> DiskFiles] /\ onDisk'[p] = f /\ f # Nothing
           /\ \A n \in Names \ {p} : onDisk'[n] = onDisk[n]
           /\ FilesHaveTimes' /\ TimesTell' /\ ReadTells' /\ FreshTells'
PROOF
  <1>1. /\ onDisk' \in [Names -> DiskFiles] /\ onDisk'[p] = f
        /\ \A n \in Names \ {p} : onDisk'[n] = onDisk[n]
    BY DEF StorageInv, StorageTypes
  <1>2. /\ changes' = changes + 1 /\ Now = FileCount + changes' /\ changes \in Nat
        /\ FileCount \in Nat
    BY ClockTicks, StorageFilesAssumption DEF StorageInv, StorageTypes
  <1>3. f # Nothing
    BY NothingIsAFile
  <1>4. FilesHaveTimes'
    BY <1>1, <1>2 DEF StorageInv, FilesHaveTimes, Unsealed
  <1>5. \A n \in Names \ {p} : Unsealed(onDisk[n]) => onDisk[n].at # Now
    BY <1>2 DEF StorageInv, FilesHaveTimes
  <1>6. TimesTell'
    BY <1>1, <1>5 DEF StorageInv, TimesTell, Unsealed
  <1>7. ReadTells' /\ FreshTells'
    BY <1>1, <1>2, PassIsTold
  <1> QED
    BY <1>1, <1>3, <1>4, <1>6, <1>7

\* A file goes.
LEMMA Clears ==
    ASSUME StorageInv, NEW p \in Names, onDisk' = [onDisk EXCEPT ![p] = Nothing],
           changes' \in {changes, changes + 1}, UNCHANGED pass, raced => raced'
    PROVE  /\ onDisk' \in [Names -> DiskFiles] /\ onDisk'[p] = Nothing
           /\ \A n \in Names \ {p} : onDisk'[n] = onDisk[n]
           /\ FilesHaveTimes' /\ TimesTell' /\ ReadTells' /\ FreshTells'
PROOF
  <1>1. /\ onDisk' \in [Names -> DiskFiles] /\ onDisk'[p] = Nothing
        /\ \A n \in Names \ {p} : onDisk'[n] = onDisk[n]
    BY NothingIsAFile DEF StorageInv, StorageTypes
  <1>2. changes \in Nat /\ FileCount \in Nat
    BY StorageFilesAssumption DEF StorageInv, StorageTypes
  <1>3. FilesHaveTimes'
    BY <1>1, <1>2, NothingIsAFile DEF StorageInv, FilesHaveTimes, Unsealed
  <1>4. TimesTell'
    BY <1>1, NothingIsAFile DEF StorageInv, TimesTell, Unsealed
  <1>5. ReadTells' /\ FreshTells'
    BY <1>1, PassIsTold
  <1> QED
    BY <1>1, <1>3, <1>4, <1>5

\* What was brought before is brought after.
LEMMA LaterIsMore ==
    ASSUME NEW first \in Nat, NEW c \in Nat, NEW later \in {c, c + 1},
           NEW K, K \subseteq 1..(first + c)
    PROVE  K \subseteq 1..(first + later)
PROOF
  <1>1. later \in Nat /\ first + c <= first + later
    OBVIOUS
  <1> QED
    BY <1>1

\* What the browser has checked, a key, a restart: no file changes.
LEMMA RequestsWait ==
    ASSUME StorageInv,
           \/ \E n \in Names : UploadChecks(n) \/ \E m \in Names : RenameChecks(n, m)
           \/ KeyIsAdded \/ StorageRestarts
    PROVE  StorageInv'
PROOF
  <1> USE DEF StorageInv
  <1>1. /\ UNCHANGED <<onDisk, kept, raced>> /\ changes' \in {changes, changes + 1}
        /\ changes' \in 0..MaxChanges
    BY ClockTicks DEF UploadChecks, RenameChecks, KeyIsAdded, StorageRestarts,
       Change, StorageTypes
  <1>2. \/ UNCHANGED <<unreadable, triedLate, pass>>
        \/ /\ triedLate' = FALSE /\ unreadable' = [n \in Names |-> NoSignature]
           /\ pass' = NoPass
    BY DEF UploadChecks, RenameChecks, KeyIsAdded, StorageRestarts, passVars
  <1>21. upload' \in UploadRecords
    BY DEF UploadChecks, RenameChecks, KeyIsAdded, StorageRestarts, StorageTypes,
       NoUpload, UploadRecords
  <1>22. lateKnown' \in BOOLEAN
    BY DEF UploadChecks, RenameChecks, KeyIsAdded, StorageRestarts, StorageTypes
  <1>3. rename' \in RenameRecords /\ RenamesApart'
    <2>1. CASE UNCHANGED rename
      BY <2>1 DEF StorageTypes, RenamesApart
    <2>2. CASE rename' = NoRename
      BY <2>2, NothingIsAFile DEF NoRename, RenameRecords, RenamesApart
    <2>3. ASSUME NEW n \in Names, NEW m \in Names, RenameChecks(n, m)
          PROVE  rename' \in RenameRecords /\ RenamesApart'
      <3>1. /\ rename' = [from |-> n, to |-> m, sealed |-> onDisk[n].form = "sealed",
                          copied |-> Nothing]
            /\ n # m
        BY <2>3 DEF RenameChecks
      <3>2. (onDisk[n].form = "sealed") \in BOOLEAN
        OBVIOUS
      <3> QED
        BY <3>1, <3>2, NothingIsAFile DEF RenameRecords, RenamesApart
    <2> QED
      BY <2>1, <2>2, <2>3 DEF UploadChecks, KeyIsAdded, StorageRestarts
  <1>4. StorageTypes'
    <2>1. 0 \in Times
      BY StorageFilesAssumption DEF Times
    <2>2. unreadable' \in [Names -> Times]
      BY <1>2, <2>1 DEF StorageTypes, NoSignature
    <2>20. pass' \in PassRecords
      BY <1>2, NothingIsAFile DEF StorageTypes
    <2>21. triedLate' \in BOOLEAN
      BY <1>2 DEF StorageTypes
    <2>3. kept' \subseteq 1..(FileCount + changes')
      <3>1. kept \subseteq 1..(FileCount + changes) /\ FileCount \in Nat /\ changes \in Nat
        BY StorageFilesAssumption DEF StorageTypes
      <3> QED
        BY <1>1, <3>1, LaterIsMore
    <2> QED
      BY <1>1, <1>21, <1>22, <1>3, <2>2, <2>20, <2>21, <2>3 DEF StorageTypes
  <1>5. FilesHaveTimes' /\ TimesTell'
    BY <1>1, StorageFilesAssumption DEF FilesHaveTimes, TimesTell, Unsealed,
       StorageTypes
  <1>6. ReadTells' /\ FreshTells'
    <2>1. CASE UNCHANGED pass
      BY <1>1, <2>1, PassIsTold
    <2>2. CASE pass' = NoPass
      BY <2>2, NothingIsAFile DEF ReadTells, FreshTells
    <2> QED
      BY <1>2, <2>1, <2>2
  <1>7. KeptIsHeld'
    BY <1>1 DEF KeptIsHeld
  <1> QED
    BY <1>3, <1>4, <1>5, <1>6, <1>7

\* An upload brings a document no file held before.
LEMMA UploadKeeps == ASSUME StorageInv, UploadOpens PROVE StorageInv'
PROOF
  <1> USE DEF StorageInv
  <1> DEFINE f == Plain(Now)
             p == upload.name
  <1>1. /\ Change
        /\ raced' = (raced \/ onDisk[p] # Nothing)
        /\ onDisk' = [onDisk EXCEPT ![p] = f]
        /\ kept' = kept \cup {Now} /\ upload' = [upload EXCEPT !.doc = Now]
        /\ UNCHANGED <<lateKnown, unreadable, triedLate, pass, rename>>
    BY DEF UploadOpens, passVars
  <1>11. p \in Names
    <2>1. upload \in UploadRecords /\ upload # NoUpload /\ upload.doc = 0
      BY DEF UploadOpens, StorageTypes
    <2> QED BY <2>1 DEF UploadRecords, NoUpload
  <1>2. /\ changes' = changes + 1 /\ changes' \in 0..MaxChanges /\ Now \in Documents
        /\ Now \in Times /\ Now = FileCount + changes' /\ FileCount \in Nat /\ changes \in Nat
    BY <1>1, ClockTicks, StorageFilesAssumption DEF StorageTypes
  <1>3. f \in DiskFiles /\ f.at = Now /\ f.form = "plain" /\ f.doc = Now
    BY <1>2 DEF Plain, DiskFiles, Forms
  <1>31. upload' \in UploadRecords
    <2>1. upload \in [name : Names, doc : Documents \cup {0}]
      BY <1>11, StorageFilesAssumption DEF UploadOpens, StorageTypes, UploadRecords
    <2> HIDE DEF f, p
    <2> QED BY <1>1, <1>2, <2>1 DEF UploadRecords
  <1> HIDE DEF f, p
  <1>4. raced => raced'
    BY <1>1
  <1>5. /\ onDisk' \in [Names -> DiskFiles] /\ onDisk'[p] = f /\ f # Nothing
        /\ \A n \in Names \ {p} : onDisk'[n] = onDisk[n]
        /\ FilesHaveTimes' /\ TimesTell' /\ ReadTells' /\ FreshTells'
    BY <1>1, <1>11, <1>3, <1>4, DiskWrites
  <1>6. StorageTypes'
    <2>1. kept' \subseteq 1..(FileCount + changes')
      BY <1>1, <1>2 DEF StorageTypes
    <2>2. raced' \in BOOLEAN
      BY <1>1
    <2> QED
      BY <1>1, <1>2, <1>31, <1>5, <2>1, <2>2 DEF StorageTypes
  <1>7. RenamesApart'
    BY <1>1 DEF RenamesApart
  <1>8. KeptIsHeld'
    <2> SUFFICES ASSUME raced' = FALSE PROVE KeptIsHeld'
      BY <1>6 DEF KeptIsHeld, StorageTypes
    <2>1. raced = FALSE /\ onDisk[p] = Nothing
      BY <1>1 DEF StorageTypes
    <2>2. \A d \in kept : d # 0
      BY DEF StorageTypes
    <2>3. Nothing.doc = 0
      BY DEF Nothing
    <2>4. \A d \in kept' : \E n \in Names : onDisk'[n].doc = d
      BY <1>1, <1>3, <1>11, <1>5, <2>1, <2>2, <2>3 DEF KeptIsHeld
    <2> QED
      BY <1>1, <1>3, <1>11, <1>5, <2>1, <2>4 DEF KeptIsHeld
  <1> QED
    BY <1>5, <1>6, <1>7, <1>8

\* The browser moves a file that was no envelope when it was looked at.
LEMMA MovesKeeps == ASSUME StorageInv, RenameMoves PROVE StorageInv'
PROOF
  <1> USE DEF StorageInv
  <1> DEFINE n == rename.from
             m == rename.to
             f == onDisk[n]
  <1>1. /\ rename # NoRename /\ Change /\ rename' = NoRename
        /\ \/ UNCHANGED <<onDisk, raced>>
           \/ /\ f # Nothing
              /\ onDisk' = [onDisk EXCEPT ![m] = f, ![n] = Nothing]
              /\ raced' = (raced \/ onDisk[m] # Nothing \/ f.form = "sealed")
        /\ UNCHANGED <<lateKnown, unreadable, triedLate, pass, upload, kept>>
    BY DEF RenameMoves, passVars
  <1>2. n \in Names /\ m \in Names /\ n # m
    BY <1>1 DEF RenamesApart
  <1>3. /\ changes' = changes + 1 /\ changes' \in 0..MaxChanges
        /\ FileCount \in Nat /\ changes \in Nat
    BY <1>1, ClockTicks, StorageFilesAssumption DEF StorageTypes
  <1>4. onDisk \in [Names -> DiskFiles] /\ f \in DiskFiles
    BY <1>2 DEF StorageTypes
  <1>5. raced' \in BOOLEAN /\ (raced => raced')
    <2>1. raced \in BOOLEAN
      BY DEF StorageTypes
    <2>2. raced' = raced \/ raced' = (raced \/ onDisk[m] # Nothing \/ f.form = "sealed")
      BY <1>1
    <2> HIDE DEF n, m, f
    <2>3. CASE raced' = raced
      BY <2>1, <2>3
    <2>4. CASE raced' = (raced \/ onDisk[m] # Nothing \/ f.form = "sealed")
      BY <2>4
    <2> QED
      BY <2>2, <2>3, <2>4
  <1>6. \/ UNCHANGED <<onDisk, raced>>
        \/ /\ f # Nothing
           /\ onDisk' \in [Names -> DiskFiles]
           /\ onDisk'[m] = f /\ onDisk'[n] = Nothing
           /\ \A o \in Names \ {n, m} : onDisk'[o] = onDisk[o]
           /\ raced' = (raced \/ onDisk[m] # Nothing \/ f.form = "sealed")
    BY <1>1, <1>2, <1>4, NothingIsAFile
  <1>7. /\ rename' \in RenameRecords /\ RenamesApart'
    BY <1>1, NothingIsAFile DEF NoRename, RenameRecords, RenamesApart
  <1> HIDE DEF n, m, f
  <1>8. f = onDisk[n]
    BY DEF f
  <1>9. StorageTypes'
    <2>1. kept' \subseteq 1..(FileCount + changes')
      BY <1>1, <1>3 DEF StorageTypes
    <2>2. onDisk' \in [Names -> DiskFiles]
      BY <1>4, <1>6
    <2> QED
      BY <1>1, <1>3, <1>5, <1>7, <2>1, <2>2 DEF StorageTypes
  <1>10. FilesHaveTimes'
    BY <1>2, <1>3, <1>6, <1>8, NothingIsAFile DEF FilesHaveTimes, Unsealed
  <1>11. TimesTell'
    BY <1>2, <1>6, <1>8, NothingIsAFile DEF TimesTell, Unsealed
  <1>12. \A o \in Names : \/ onDisk'[o] = onDisk[o]
                          \/ onDisk'[o] = Nothing
                          \/ onDisk'[o].at = Now
                          \/ \E q \in Names : /\ onDisk'[o] = onDisk[q]
                                              /\ raced' \/ Unsealed(onDisk[q])
    <2>1. f # Nothing => raced' \/ Unsealed(f) \/ UNCHANGED <<onDisk, raced>>
      <3>1. f # Nothing => f.form # "none"
        BY <1>2, <1>8 DEF FilesHaveTimes
      <3>2. f.form \in {"none", "plain", "bare", "sealed"}
        BY <1>4 DEF DiskFiles, Forms
      <3> QED
        BY <1>6, <3>1, <3>2 DEF Unsealed
    <2> QED
      BY <1>2, <1>6, <1>8, <2>1
  <1>13. ReadTells' /\ FreshTells'
    BY <1>1, <1>3, <1>5, <1>12, PassIsTold
  <1>14. KeptIsHeld'
    <2>1. CASE UNCHANGED <<onDisk, raced>>
      BY <1>1, <2>1 DEF KeptIsHeld
    <2>2. CASE ~UNCHANGED <<onDisk, raced>>
      <3> SUFFICES ASSUME raced' = FALSE PROVE KeptIsHeld'
        BY <1>5 DEF KeptIsHeld
      <3>1. raced = FALSE /\ onDisk[m] = Nothing /\ f.form # "sealed" /\ f # Nothing
        BY <1>6, <2>2 DEF StorageTypes
      <3>2. \A d \in kept : d # 0
        BY DEF StorageTypes
      <3>3. Nothing.doc = 0
        BY DEF Nothing
      <3>4. \A d \in kept' : \E o \in Names : onDisk'[o].doc = d
        <4> TAKE d \in kept'
        <4>1. PICK o \in Names : onDisk[o].doc = d
          BY <1>1, <3>1 DEF KeptIsHeld
        <4>2. CASE o = n
          BY <1>2, <1>6, <1>8, <2>2, <4>1, <4>2
        <4>3. CASE o # n
          <5>1. o # m
            BY <1>1, <3>1, <3>2, <3>3, <4>1
          <5> QED
            BY <1>6, <2>2, <4>1, <4>3, <5>1
        <4> QED
          BY <4>2, <4>3
      <3>5. \A o \in Names : onDisk'[o].form = "sealed" => onDisk'[o].name = o
        BY <1>2, <1>6, <2>2, <3>1, NothingIsAFile DEF KeptIsHeld
      <3>6. \A o \in Names : onDisk'[o] # Nothing => onDisk'[o].doc \in kept'
        BY <1>1, <1>2, <1>6, <1>8, <2>2, <3>1 DEF KeptIsHeld
      <3> QED
        BY <3>4, <3>5, <3>6 DEF KeptIsHeld
    <2> QED
      BY <2>1, <2>2
  <1> QED
    BY <1>7, <1>9, <1>10, <1>11, <1>13, <1>14

\* A source in an envelope is written again for its new name.
LEMMA ReencryptKeeps == ASSUME StorageInv, reencrypt_to_path PROVE StorageInv'
PROOF
  <1> USE DEF StorageInv
  <1> DEFINE n == rename.from
             m == rename.to
             f == onDisk[n]
             g == IF f.form = "sealed" THEN Sealed(f.doc, m) ELSE [f EXCEPT !.at = Now]
  <1>1. /\ rename # NoRename /\ Change
        /\ \/ rename' = NoRename /\ UNCHANGED <<onDisk, raced>>
           \/ /\ f # Nothing /\ (f.form = "sealed" => f.name = n)
              /\ onDisk' = [onDisk EXCEPT ![m] = g]
              /\ raced' = (raced \/ onDisk[m] # Nothing)
              /\ rename' = [rename EXCEPT !.copied = f]
        /\ UNCHANGED <<lateKnown, unreadable, triedLate, pass, upload, kept>>
    BY DEF reencrypt_to_path, passVars
  <1>2. /\ n \in Names /\ m \in Names /\ n # m
        /\ rename \in RenameRecords
    BY <1>1 DEF RenamesApart, StorageTypes
  <1>3. /\ changes' = changes + 1 /\ changes' \in 0..MaxChanges /\ Now \in Times
        /\ FileCount \in Nat /\ changes \in Nat
    BY <1>1, ClockTicks, StorageFilesAssumption DEF StorageTypes
  <1>4. onDisk \in [Names -> DiskFiles] /\ f \in DiskFiles
    BY <1>2 DEF StorageTypes
  <1>5. /\ g \in DiskFiles /\ g.at = Now /\ g.doc = f.doc /\ g.form = f.form
        /\ g.form = "sealed" => g.name = m
    BY <1>2, <1>3, <1>4 DEF Sealed, DiskFiles, Forms
  <1>6. rename' \in RenameRecords /\ RenamesApart'
    <2>1. CASE rename' = NoRename
      BY <2>1, NothingIsAFile DEF NoRename, RenameRecords, RenamesApart
    <2>2. CASE rename' = [rename EXCEPT !.copied = f]
      <3>1. rename' \in RenameRecords /\ rename'.from = n /\ rename'.to = m
        BY <1>2, <1>4, <2>2 DEF RenameRecords
      <3> QED
        BY <1>2, <3>1 DEF RenamesApart
    <2> QED
      BY <1>1, <2>1, <2>2
  <1>7. f = onDisk[n]
    OBVIOUS
  <1> HIDE DEF n, m, f, g
  <1>8. CASE UNCHANGED <<onDisk, raced>>
    <2>1. StorageTypes'
      <3>1. kept' \subseteq 1..(FileCount + changes')
        BY <1>1, <1>3 DEF StorageTypes
      <3> QED
        BY <1>1, <1>3, <1>6, <1>8, <3>1 DEF StorageTypes
    <2>2. FilesHaveTimes' /\ TimesTell'
      BY <1>3, <1>8 DEF FilesHaveTimes, TimesTell, Unsealed
    <2>3. ReadTells' /\ FreshTells'
      BY <1>1, <1>3, <1>8, PassIsTold
    <2>4. KeptIsHeld'
      BY <1>1, <1>8 DEF KeptIsHeld
    <2> QED
      BY <1>6, <2>1, <2>2, <2>3, <2>4
  <1>9. CASE ~UNCHANGED <<onDisk, raced>>
    <2>1. /\ f # Nothing /\ onDisk' = [onDisk EXCEPT ![m] = g]
          /\ raced' = (raced \/ onDisk[m] # Nothing)
      BY <1>1, <1>9
    <2>2. f.form # "none" /\ f.form = onDisk[n].form
      BY <1>2, <1>7, <2>1 DEF FilesHaveTimes
    <2>3. raced => raced'
      BY <2>1
    <2>4. /\ onDisk' \in [Names -> DiskFiles] /\ onDisk'[m] = g /\ g # Nothing
          /\ \A o \in Names \ {m} : onDisk'[o] = onDisk[o]
          /\ FilesHaveTimes' /\ TimesTell' /\ ReadTells' /\ FreshTells'
      BY <1>1, <1>2, <1>5, <2>1, <2>2, <2>3, DiskWrites
    <2>5. StorageTypes'
      <3>1. kept' \subseteq 1..(FileCount + changes')
        BY <1>1, <1>3 DEF StorageTypes
      <3>2. raced' \in BOOLEAN
        BY <2>1
      <3> QED
        BY <1>1, <1>3, <1>6, <2>4, <3>1, <3>2 DEF StorageTypes
    <2>6. KeptIsHeld'
      <3> SUFFICES ASSUME raced' = FALSE PROVE KeptIsHeld'
        BY <2>5 DEF KeptIsHeld, StorageTypes
      <3>1. raced = FALSE /\ onDisk[m] = Nothing
        BY <2>1 DEF StorageTypes
      <3>2. \A d \in kept : d # 0
        BY DEF StorageTypes
      <3>3. Nothing.doc = 0
        BY DEF Nothing
      <3>4. g.doc \in kept
        BY <1>2, <1>5, <1>7, <2>1, <3>1 DEF KeptIsHeld
      <3>5. \A d \in kept' : \E o \in Names : onDisk'[o].doc = d
        BY <1>1, <2>4, <3>1, <3>2, <3>3 DEF KeptIsHeld
      <3>6. \A o \in Names : onDisk'[o].form = "sealed" => onDisk'[o].name = o
        BY <1>5, <2>4, <3>1 DEF KeptIsHeld
      <3>7. \A o \in Names : onDisk'[o] # Nothing => onDisk'[o].doc \in kept'
        BY <1>1, <2>4, <3>1, <3>4 DEF KeptIsHeld
      <3> QED
        BY <3>5, <3>6, <3>7 DEF KeptIsHeld
    <2> QED
      BY <1>6, <2>4, <2>5, <2>6
  <1> QED
    BY <1>8, <1>9

\* ... and then removed under its old one.
LEMMA UnlinksKeeps == ASSUME StorageInv, RenameUnlinks PROVE StorageInv'
PROOF
  <1> USE DEF StorageInv
  <1> DEFINE n == rename.from
             m == rename.to
             f == rename.copied
  <1>1. /\ rename # NoRename /\ f # Nothing
        /\ onDisk' = [onDisk EXCEPT ![n] = Nothing]
        /\ raced' = (raced \/ onDisk[n] \notin {f, Nothing} \/ onDisk[m].doc # f.doc)
        /\ rename' = NoRename
        /\ UNCHANGED <<lateKnown, unreadable, triedLate, pass, upload, kept, changes>>
    BY DEF RenameUnlinks, passVars
  <1>2. n \in Names /\ m \in Names /\ n # m
    BY <1>1 DEF RenamesApart
  <1>3. rename' \in RenameRecords /\ RenamesApart'
    BY <1>1, NothingIsAFile DEF NoRename, RenameRecords, RenamesApart
  <1> HIDE DEF n, m, f
  <1>4. raced => raced'
    BY <1>1
  <1>5. /\ onDisk' \in [Names -> DiskFiles] /\ onDisk'[n] = Nothing
        /\ \A o \in Names \ {n} : onDisk'[o] = onDisk[o]
        /\ FilesHaveTimes' /\ TimesTell' /\ ReadTells' /\ FreshTells'
    BY <1>1, <1>2, <1>4, Clears
  <1>6. StorageTypes'
    <2>1. raced' \in BOOLEAN
      BY <1>1
    <2> QED
      BY <1>1, <1>3, <1>5, <2>1 DEF StorageTypes
  <1>7. KeptIsHeld'
    <2> SUFFICES ASSUME raced' = FALSE PROVE KeptIsHeld'
      BY <1>6 DEF KeptIsHeld, StorageTypes
    <2>1. raced = FALSE /\ onDisk[n] \in {f, Nothing} /\ onDisk[m].doc = f.doc
      BY <1>1 DEF StorageTypes
    <2>2. \A d \in kept : d # 0
      BY DEF StorageTypes
    <2>3. Nothing.doc = 0
      BY DEF Nothing
    <2>4. \A d \in kept' : \E o \in Names : onDisk'[o].doc = d
      <3> TAKE d \in kept'
      <3>1. PICK o \in Names : onDisk[o].doc = d
        BY <1>1, <2>1 DEF KeptIsHeld
      <3>2. CASE o # n
        BY <1>5, <3>1, <3>2
      <3>3. CASE o = n
        <4>1. onDisk[m].doc = d
          BY <1>1, <2>1, <2>2, <2>3, <3>1, <3>3
        <4> QED
          BY <1>2, <1>5, <4>1
      <3> QED
        BY <3>2, <3>3
    <2>5. \A o \in Names : onDisk'[o].form = "sealed" => onDisk'[o].name = o
      BY <1>5, <2>1, NothingIsAFile DEF KeptIsHeld
    <2>6. \A o \in Names : onDisk'[o] # Nothing => onDisk'[o].doc \in kept'
      BY <1>1, <1>5, <2>1 DEF KeptIsHeld
    <2> QED
      BY <2>4, <2>5, <2>6 DEF KeptIsHeld
  <1> QED
    BY <1>3, <1>5, <1>6, <1>7

\* A file goes, and its document with it when no other copy is left.
LEMMA FileGoes ==
    ASSUME StorageInv, NEW n \in Names, onDisk[n] # Nothing,
           onDisk' = [onDisk EXCEPT ![n] = Nothing],
           kept' = Without(onDisk[n].doc, onDisk'),
           changes' \in {changes, changes + 1}, changes' \in 0..MaxChanges,
           raced => raced', raced' \in BOOLEAN, upload' \in UploadRecords,
           UNCHANGED <<lateKnown, unreadable, triedLate, pass, rename>>
    PROVE  StorageInv'
PROOF
  <1> USE DEF StorageInv
  <1> DEFINE d0 == onDisk[n].doc
  <1>1. kept' = IF \E o \in Names : onDisk'[o].doc = d0 THEN kept ELSE kept \ {d0}
    BY DEF Without
  <1> HIDE DEF d0
  <1>3. /\ onDisk' \in [Names -> DiskFiles] /\ onDisk'[n] = Nothing
        /\ \A o \in Names \ {n} : onDisk'[o] = onDisk[o]
        /\ FilesHaveTimes' /\ TimesTell' /\ ReadTells' /\ FreshTells'
    BY Clears
  <1>4. StorageTypes'
    <2>1. kept' \subseteq kept
      BY <1>1
    <2>2. kept' \subseteq 1..(FileCount + changes')
      <3>1. kept \subseteq 1..(FileCount + changes) /\ FileCount \in Nat /\ changes \in Nat
        BY StorageFilesAssumption DEF StorageTypes
      <3> QED
        BY <2>1, <3>1, LaterIsMore
    <2> QED
      BY <1>3, <2>2 DEF StorageTypes
  <1>5. RenamesApart'
    BY DEF RenamesApart
  <1>6. KeptIsHeld'
    <2> SUFFICES ASSUME raced' = FALSE PROVE KeptIsHeld'
      BY <1>4 DEF KeptIsHeld, StorageTypes
    <2>1. raced = FALSE
      BY DEF StorageTypes
    <2>2. \A d \in kept' : \E o \in Names : onDisk'[o].doc = d
      <3> TAKE d \in kept'
      <3>1. d \in kept
        BY <1>1
      <3>2. PICK o \in Names : onDisk[o].doc = d
        BY <2>1, <3>1 DEF KeptIsHeld
      <3>3. CASE o # n
        BY <1>3, <3>2, <3>3
      <3>4. CASE o = n
        BY <1>1, <3>2, <3>4 DEF d0
      <3> QED
        BY <3>3, <3>4
    <2>3. \A o \in Names : onDisk'[o].form = "sealed" => onDisk'[o].name = o
      BY <1>3, <2>1, NothingIsAFile DEF KeptIsHeld
    <2>4. \A o \in Names : onDisk'[o] # Nothing => onDisk'[o].doc \in kept'
      <3> SUFFICES ASSUME NEW o \in Names, onDisk'[o] # Nothing
                   PROVE  onDisk'[o].doc \in kept'
        OBVIOUS
      <3>1. o # n /\ onDisk'[o] = onDisk[o] /\ onDisk[o].doc \in kept
        BY <1>3, <2>1 DEF KeptIsHeld
      <3>2. CASE \E q \in Names : onDisk'[q].doc = d0
        <4>1. kept' = kept
          BY ONLY <1>1, <3>2
        <4>2. onDisk'[o].doc \in kept
          BY <3>1, Zenon
        <4> QED BY ONLY <4>1, <4>2
      <3>3. CASE onDisk'[o].doc # d0 /\ ~\E q \in Names : onDisk'[q].doc = d0
        <4>1. kept' = kept \ {d0}
          BY <1>1, <3>3, Zenon
        <4>2. onDisk'[o].doc \in kept
          BY <3>1, Zenon
        <4> QED BY ONLY <3>3, <4>1, <4>2, Zenon
      <3> QED
        BY <3>2, <3>3, Zenon
    <2> QED
      BY <2>2, <2>3, <2>4 DEF KeptIsHeld
  <1> QED
    BY <1>3, <1>4, <1>5, <1>6

\* A file is deleted, by its owner or by the module whose it is.
LEMMA FileDeletesKeeps ==
    ASSUME StorageInv, NEW n \in Names, api_delete_entry(n) \/ delete_file(n)
    PROVE  StorageInv'
PROOF
  <1>1. /\ onDisk[n] # Nothing /\ Change
        /\ onDisk' = [onDisk EXCEPT ![n] = Nothing]
        /\ kept' = Without(onDisk[n].doc, onDisk')
        /\ UNCHANGED <<lateKnown, unreadable, triedLate, pass, upload, rename, raced>>
    BY DEF api_delete_entry, delete_file, passVars
  <1>2. changes' = changes + 1 /\ changes' \in 0..MaxChanges
    BY <1>1, ClockTicks DEF StorageInv, StorageTypes
  <1>3. raced' \in BOOLEAN /\ upload' \in UploadRecords
    BY <1>1 DEF StorageInv, StorageTypes
  <1> QED
    BY <1>1, <1>2, <1>3, FileGoes

\* An upload ends: what it wrote stays, or the name is unlinked.
LEMMA UploadEnds ==
    ASSUME StorageInv, api_upload \/ UploadExceeds
    PROVE  StorageInv'
PROOF
  <1> USE DEF StorageInv
  <1>1. upload' = NoUpload /\ NoUpload \in UploadRecords
    BY DEF api_upload, UploadExceeds, UploadRecords
  <1>2. ASSUME UNCHANGED <<onDisk, lateKnown, unreadable, triedLate, pass, rename, kept, raced,
                           changes>>
        PROVE  StorageInv'
    BY <1>1, <1>2 DEF StorageTypes, FilesHaveTimes, TimesTell, RenamesApart, ReadTells,
       FreshTells, KeptIsHeld, Unsealed
  <1>3. CASE api_upload
    BY <1>2, <1>3 DEF api_upload, passVars
  <1>4. CASE UploadExceeds
    <2> DEFINE n == upload.name
    <2>1. /\ onDisk' = [onDisk EXCEPT ![n] = Nothing]
          /\ kept' = Without(onDisk[n].doc, onDisk')
          /\ raced' = (raced \/ onDisk[n].doc \notin {upload.doc, 0})
          /\ UNCHANGED <<lateKnown, unreadable, triedLate, pass, rename, changes>>
      BY <1>4 DEF UploadExceeds, passVars
    <2>2. n \in Names
      <3>1. upload \in UploadRecords /\ upload.doc # 0
        BY <1>4 DEF UploadExceeds, StorageTypes
      <3> QED BY <3>1 DEF UploadRecords, NoUpload
    <2> HIDE DEF n
    <2>3. changes' \in {changes, changes + 1} /\ changes' \in 0..MaxChanges
      BY <2>1 DEF StorageTypes
    <2>4. (raced => raced') /\ raced' \in BOOLEAN
      BY <2>1
    <2>5. CASE onDisk[n] # Nothing
      BY <1>1, <2>1, <2>2, <2>3, <2>4, <2>5, FileGoes
    <2>6. CASE onDisk[n] = Nothing
      <3>1. onDisk' = onDisk
        BY <2>1, <2>2, <2>6 DEF StorageTypes
      <3>2. raced' = raced
        BY <2>1, <2>6 DEF Nothing, StorageTypes
      <3>3. kept' = kept
        BY <2>1, <2>2, <2>6, <3>1 DEF Without
      <3> QED BY <1>2, <2>1, <3>1, <3>2, <3>3
    <2> QED BY <2>5, <2>6
  <1> QED BY <1>3, <1>4

\* A module writes a file of its own over.
LEMMA ModuleWritesKeeps ==
    ASSUME StorageInv, NEW n \in Names, save_file_encrypted(n)
    PROVE  StorageInv'
PROOF
  <1> USE DEF StorageInv
  <1> DEFINE d0 == onDisk[n].doc
             g == Sealed(Now, n)
  <1>1. /\ Change
        /\ onDisk' = [onDisk EXCEPT ![n] = g]
        /\ kept' = (IF \E o \in Names : onDisk'[o].doc = d0 THEN kept ELSE kept \ {d0})
                   \cup {Now}
        /\ UNCHANGED <<lateKnown, unreadable, triedLate, pass, upload, rename, raced>>
    BY DEF save_file_encrypted, passVars, Without
  <1>2. /\ changes' = changes + 1 /\ changes' \in 0..MaxChanges /\ Now \in Times
        /\ Now \in Documents /\ Now = FileCount + changes'
        /\ FileCount \in Nat /\ changes \in Nat
    BY <1>1, ClockTicks, StorageFilesAssumption DEF StorageTypes
  <1>3. g \in DiskFiles /\ g.at = Now /\ g.doc = Now /\ g.form = "sealed" /\ g.name = n
    BY <1>2 DEF Sealed, DiskFiles, Forms
  <1> HIDE DEF d0, g
  <1>4. /\ onDisk' \in [Names -> DiskFiles] /\ onDisk'[n] = g /\ g # Nothing
        /\ \A o \in Names \ {n} : onDisk'[o] = onDisk[o]
        /\ FilesHaveTimes' /\ TimesTell' /\ ReadTells' /\ FreshTells'
    <2>1. raced => raced'
      BY <1>1
    <2> QED
      BY <1>1, <1>3, <2>1, DiskWrites
  <1>5. StorageTypes'
    <2>1. kept' \subseteq kept \cup {Now}
      BY <1>1
    <2>2. kept' \subseteq 1..(FileCount + changes')
      BY <1>2, <2>1 DEF StorageTypes
    <2> QED
      BY <1>1, <1>2, <1>4, <2>2 DEF StorageTypes
  <1>6. RenamesApart'
    BY <1>1 DEF RenamesApart
  <1>7. KeptIsHeld'
    <2> SUFFICES ASSUME raced' = FALSE PROVE KeptIsHeld'
      BY <1>5 DEF KeptIsHeld, StorageTypes
    <2>1. raced = FALSE
      BY <1>1
    <2>2. \A d \in kept' : \E o \in Names : onDisk'[o].doc = d
      <3> TAKE d \in kept'
      <3>1. CASE d = Now
        BY <1>3, <1>4, <3>1
      <3>2. CASE d # Now
        <4>1. d \in kept /\ (d # d0 \/ \E o \in Names : onDisk'[o].doc = d0)
          BY <1>1, <3>2
        <4>2. PICK o \in Names : onDisk[o].doc = d
          BY <2>1, <4>1 DEF KeptIsHeld
        <4>3. CASE o # n
          BY <1>4, <4>2, <4>3
        <4>4. CASE o = n
          BY <4>1, <4>2, <4>4 DEF d0
        <4> QED
          BY <4>3, <4>4
      <3> QED
        BY <3>1, <3>2
    <2>3. \A o \in Names : onDisk'[o].form = "sealed" => onDisk'[o].name = o
      BY <1>3, <1>4, <2>1 DEF KeptIsHeld
    <2>4. \A o \in Names : onDisk'[o] # Nothing => onDisk'[o].doc \in kept'
      <3> SUFFICES ASSUME NEW o \in Names, onDisk'[o] # Nothing
                   PROVE  onDisk'[o].doc \in kept'
        OBVIOUS
      <3>1. CASE o = n
        BY <1>1, <1>3, <1>4, <3>1
      <3>2. CASE o # n
        <4>1. onDisk'[o] = onDisk[o] /\ onDisk[o].doc \in kept
          BY <1>4, <2>1, <3>2 DEF KeptIsHeld
        <4>2. \/ onDisk'[o].doc # d0
              \/ \E q \in Names : onDisk'[q].doc = d0
          OBVIOUS
        <4> QED
          BY <1>1, <4>1, <4>2
      <3> QED
        BY <3>1, <3>2
    <2> QED
      BY <2>2, <2>3, <2>4 DEF KeptIsHeld
  <1> QED
    BY <1>4, <1>5, <1>6, <1>7

\* What an older version left: every file bare, with a time of its own.
LEMMA StorageStarts == ASSUME StorageFilesInit PROVE StorageInv
PROOF
  <1>1. /\ kept \subseteq Names /\ raced = FALSE /\ changes = 0
        /\ onDisk = [n \in Names |->
                        IF n \in kept THEN [form |-> "bare", doc |-> n, name |-> 0, at |-> n]
                        ELSE Nothing]
        /\ pass = NoPass /\ rename = NoRename
    BY StorageFilesAssumption DEF StorageFilesInit
  <1>2. FileCount \in Nat /\ MaxChanges \in Nat /\ 0 \in Times /\ Names = 1..FileCount
    BY StorageFilesAssumption DEF Times, Names
  <1>3. \A n \in Names : [form |-> "bare", doc |-> n, name |-> 0, at |-> n] \in DiskFiles
    BY <1>2 DEF DiskFiles, Forms, Documents, Times
  <1>4. /\ onDisk \in [Names -> DiskFiles]
        /\ \A n \in Names : IF n \in kept
                            THEN /\ onDisk[n].form = "bare" /\ onDisk[n].doc = n
                                 /\ onDisk[n].at = n
                            ELSE onDisk[n] = Nothing
    BY <1>1, <1>3, NothingIsAFile
  <1>5. unreadable \in [Names -> Times]
    BY <1>2 DEF StorageFilesInit, NoSignature
  <1>6. rename \in RenameRecords
    BY <1>1, NothingIsAFile DEF NoRename, RenameRecords
  <1>7. StorageTypes
    <2>1. kept \subseteq 1..(FileCount + changes) /\ changes \in 0..MaxChanges
      BY <1>1, <1>2
    <2> QED
      BY <1>1, <1>4, <1>5, <1>6, <2>1, NothingIsAFile
         DEF StorageTypes, StorageFilesInit, UploadRecords
  <1>8. FilesHaveTimes
    BY <1>1, <1>2, <1>4, NothingIsAFile DEF FilesHaveTimes, Unsealed
  <1>9. TimesTell
    BY <1>4, NothingIsAFile DEF TimesTell, Unsealed
  <1>10. RenamesApart /\ ReadTells /\ FreshTells
    BY <1>1, NothingIsAFile DEF RenamesApart, ReadTells, FreshTells
  <1>11. KeptIsHeld
    BY <1>1, <1>4, NothingIsAFile DEF KeptIsHeld
  <1> QED
    BY <1>7, <1>8, <1>9, <1>10, <1>11 DEF StorageInv

\* Whatever is done next.
LEMMA StepKeepsStorage ==
    ASSUME StorageInv, [StorageFilesNext]_storageVars
    PROVE  StorageInv'
PROOF
  <1>1. CASE _migration_loop
    BY <1>1, PassLooksOn, ReplacesKeeps DEF _migration_loop
  <1>2. CASE \/ UploadOpens \/ api_upload \/ UploadExceeds
             \/ RenameMoves \/ reencrypt_to_path \/ RenameUnlinks
    BY <1>2, UploadKeeps, UploadEnds, MovesKeeps, ReencryptKeeps, UnlinksKeeps
  <1>3. CASE \/ \E n \in Names : UploadChecks(n) \/ \E m \in Names : RenameChecks(n, m)
             \/ KeyIsAdded \/ StorageRestarts
    BY <1>3, RequestsWait
  <1>4. CASE \E n \in Names : \/ api_delete_entry(n) \/ delete_file(n)
                              \/ save_file_encrypted(n)
    BY <1>4, FileDeletesKeeps, ModuleWritesKeeps
  <1>5. CASE UNCHANGED storageVars
    BY <1>5 DEF storageVars, StorageInv, StorageTypes, FilesHaveTimes, TimesTell,
                RenamesApart, ReadTells, FreshTells, KeptIsHeld, Unsealed
  <1> QED
    BY <1>1, <1>2, <1>3, <1>4, <1>5 DEF StorageFilesNext

\* The types the invariant gives.
LEMMA StorageTypesAre == ASSUME StorageInv PROVE StorageFilesTypeOK
PROOF
  <1>1. \A n \in Names : /\ onDisk[n].form \in Forms
                         /\ onDisk[n].doc \in Documents \cup {0}
                         /\ onDisk[n].name \in Names \cup {0}
                         /\ onDisk[n].at \in Times /\ unreadable[n] \in Times
    BY DEF StorageInv, StorageTypes, DiskFiles
  <1>2. /\ pass.at \in {"idle", "walk", "read", "checked"} /\ pass.todo \subseteq Names
        /\ pass.examined \in 0..BatchSize /\ rename.from \in Names \cup {0}
    BY DEF StorageInv, StorageTypes, PassRecords, RenameRecords
  <1>3. kept \subseteq Documents
    <2>1. /\ kept \subseteq 1..(FileCount + changes) /\ changes \in 0..MaxChanges
          /\ FileCount \in Nat /\ MaxChanges \in Nat
      BY StorageFilesAssumption DEF StorageInv, StorageTypes
    <2> QED
      BY <2>1 DEF Documents
  <1> QED
    BY <1>1, <1>2, <1>3 DEF StorageInv, StorageTypes, StorageFilesTypeOK, Times,
       NoUpload, UploadRecords

\* The files, the pass and the requests have the values of their types.
THEOREM StorageIsTyped == StorageFilesSpec => []StorageFilesTypeOK
PROOF
  <1>1. StorageFilesInit => StorageInv
    BY StorageStarts
  <1>2. StorageInv /\ [StorageFilesNext]_storageVars => StorageInv'
    BY StepKeepsStorage
  <1>3. StorageInv => StorageFilesTypeOK
    BY StorageTypesAre
  <1> QED
    BY <1>1, <1>2, <1>3, PTL DEF StorageFilesSpec

\* No document its owner stored and did not delete is lost, or sealed for
\* another name, and none that was deleted comes back, whatever the migration,
\* the browser and a module do at once, unless a change fell between a last
\* check and the act it was for.
THEOREM FilesStay == StorageFilesSpec => []FilesAreKept
PROOF
  <1>1. StorageFilesInit => StorageInv
    BY StorageStarts
  <1>2. StorageInv /\ [StorageFilesNext]_storageVars => StorageInv'
    BY StepKeepsStorage
  <1>3. StorageInv => FilesAreKept
    BY DEF StorageInv, KeptIsHeld, FilesAreKept, Holders, Present
  <1> QED
    BY <1>1, <1>2, <1>3, PTL DEF StorageFilesSpec

-----------------------------------------------------------------------------
(***************************************************************************)
(* The gate before YouTube.  A catalog or stream thread that is extracting *)
(* has a request that waits for it, which keeps the lock or the slot: a    *)
(* request that is cancelled once waits on.                                *)
(***************************************************************************)
Threads == [at : {"none", "gate", "call", "answered", "refused"}, cookies : BOOLEAN,
            fallback : BOOLEAN]
Calls == [at : {"idle", "queued", "waits"}, page : CatalogPages \cup {"none"}, cancels : 0..1]
Waiting == {s \in SlotReads : asked[s].at = "waits"}

YoutubeTypes ==
    /\ sinceCall \in 0..LongestGap
    /\ cooldown \in 0..Backoff
    /\ cached \subseteq CatalogPages
    /\ fetch \in [Calling -> Threads]
    /\ asked \in [Calling -> Calls]

ExtractsForSomebody ==
    \A r \in CatalogReads \cup StreamReads : Extracting(r) => asked[r].at = "waits"
OneHasTheLock ==
    \A r \in CatalogReads, s \in CatalogReads :
        asked[r].at = "waits" /\ asked[s].at = "waits" => r = s
KnowsItsPage == \A r \in CatalogReads : asked[r].at # "idle" => asked[r].page \in CatalogPages
SlotsSuffice == Cardinality(Waiting) <= StreamSlots

YoutubeInv == YoutubeTypes /\ ExtractsForSomebody /\ OneHasTheLock /\ KnowsItsPage
              /\ SlotsSuffice

\* The longest interval and the backoff are numbers of ticks.
LEMMA GapsAreTimes == LongestGap \in Nat /\ Backoff \in Nat
PROOF
  BY YoutubeGateAssumption DEF LongestGap

\* The requests that wait for a stream can be counted.
LEMMA WaitingIsFinite == IsFiniteSet(Waiting) /\ Cardinality(Waiting) \in Nat
PROOF
  <1>1. Waiting \in SUBSET SlotReads
    BY DEF Waiting
  <1> QED
    BY <1>1, CallersAssumption, FS_Subset, FS_CardinalityType

\* Fewer requests wait, or as many.
LEMMA FewerWait ==
    ASSUME SlotsSuffice, Waiting' \subseteq Waiting PROVE SlotsSuffice'
PROOF
  <1>1. Cardinality(Waiting') <= Cardinality(Waiting)
    BY WaitingIsFinite, FS_Subset
  <1>2. IsFiniteSet(Waiting') /\ Cardinality(Waiting') \in Nat
    BY WaitingIsFinite, FS_Subset, FS_CardinalityType
  <1> QED
    BY <1>1, <1>2, WaitingIsFinite, YoutubeGateAssumption DEF SlotsSuffice

OtherThreadsStay(r) == \A s \in Calling \ {r} : fetch'[s] = fetch[s]
OtherCallsStay(r) == \A s \in Calling \ {r} : asked'[s] = asked[s]

\* What the gate and YouTube answer a thread: no thread comes to extract that
\* did not.
LEMMA ThreadGoesOn ==
    ASSUME YoutubeInv, NEW r \in Calling, _wait_for_youtube_slot(r) \/ extract_info(r)
    PROVE  YoutubeInv'
PROOF
  <1> USE DEF YoutubeInv
  <1>1. /\ Extracting(r) /\ UNCHANGED <<asked, cached>>
        /\ sinceCall' \in {0, sinceCall} /\ cooldown' \in {Backoff, cooldown}
    BY DEF _wait_for_youtube_slot, extract_info, Extracting, _open_rate_limit_cooldown
  <1>2. fetch' \in [Calling -> Threads] /\ OtherThreadsStay(r)
    <2>1. CASE \E at \in {"call", "answered", "refused"} : ThreadIs(r, at)
      BY <2>1 DEF ThreadIs, YoutubeTypes, Threads, OtherThreadsStay
    <2>2. CASE ThreadEnds(r)
      BY <2>2 DEF ThreadEnds, NoThread, YoutubeTypes, Threads, OtherThreadsStay
    <2>3. CASE FallsBack(r)
      BY <2>3 DEF FallsBack, Begins, YoutubeTypes, Threads, OtherThreadsStay
    <2> QED
      BY <2>1, <2>2, <2>3 DEF _wait_for_youtube_slot, extract_info, BringsBack
  <1>3. YoutubeTypes'
    BY <1>1, <1>2, GapsAreTimes DEF YoutubeTypes
  <1>4. ExtractsForSomebody' /\ OneHasTheLock' /\ KnowsItsPage'
    BY <1>1, <1>2 DEF ExtractsForSomebody, OneHasTheLock, KnowsItsPage, Extracting,
       OtherThreadsStay, Calling,
                      SlotReads
  <1>5. SlotsSuffice'
    BY <1>1, FewerWait DEF Waiting
  <1> QED
    BY <1>3, <1>4, <1>5

\* A request of a page changes, and its thread with it.
LEMMA RequestChanges ==
    ASSUME YoutubeInv, NEW r \in CatalogReads \cup SlotReads,
           fetch' \in [Calling -> Threads], asked' \in [Calling -> Calls],
           OtherThreadsStay(r), OtherCallsStay(r),
           r \in CatalogReads \cup StreamReads => (Extracting(r)' => asked'[r].at = "waits"),
           r \in CatalogReads /\ asked'[r].at = "waits" =>
              asked[r].at = "waits" \/ extract_lock,
           r \in SlotReads /\ asked'[r].at = "waits" =>
              asked[r].at = "waits" \/ Cardinality(Waiting) < StreamSlots,
           r \in CatalogReads /\ asked'[r].at # "idle" => asked'[r].page \in CatalogPages,
           cached' \subseteq CatalogPages, UNCHANGED <<sinceCall, cooldown>>
    PROVE  YoutubeInv'
PROOF
  <1> USE DEF YoutubeInv
  <1>1. YoutubeTypes'
    BY DEF YoutubeTypes
  <1>2. ExtractsForSomebody'
    BY DEF ExtractsForSomebody, Extracting, OtherThreadsStay, OtherCallsStay,
       Calling, SlotReads
  <1>3. OneHasTheLock' /\ KnowsItsPage'
    BY DEF OneHasTheLock, KnowsItsPage, OtherCallsStay, Calling, extract_lock
  <1>4. SlotsSuffice'
    <2>1. CASE Waiting' \subseteq Waiting
      BY <2>1, FewerWait
    <2>2. CASE ~(Waiting' \subseteq Waiting)
      <3>1. Waiting' \subseteq Waiting \cup {r}
        BY DEF Waiting, OtherCallsStay, Calling
      <3>2. r \in SlotReads /\ asked'[r].at = "waits" /\ asked[r].at # "waits"
        BY <2>2, <3>1 DEF Waiting
      <3>3. r \notin Waiting /\ Cardinality(Waiting) < StreamSlots
        BY <3>2 DEF Waiting
      <3>4. /\ IsFiniteSet(Waiting \cup {r})
            /\ Cardinality(Waiting \cup {r}) = Cardinality(Waiting) + 1
        BY <3>3, WaitingIsFinite, FS_AddElement
      <3>5. /\ Cardinality(Waiting') <= Cardinality(Waiting \cup {r})
            /\ IsFiniteSet(Waiting')
        BY <3>1, <3>4, FS_Subset
      <3>6. Cardinality(Waiting') \in Nat
        BY <3>5, FS_CardinalityType
      <3> QED
        BY <3>3, <3>4, <3>5, <3>6, WaitingIsFinite,
           YoutubeGateAssumption DEF SlotsSuffice
    <2> QED
      BY <2>1, <2>2
  <1> QED
    BY <1>1, <1>2, <1>3, <1>4

\* A request that comes, is cancelled or takes its answer keeps the invariant.
LEMMA RequestsKeep ==
    ASSUME YoutubeInv, MaxYoutubeCancels <= 1, NEW r \in CatalogReads \cup SlotReads,
           \/ r \in CatalogReads /\ (CatalogAsks(r) \/ CatalogTakesLock(r) \/ CatalogAnswers(r))
           \/ r \in SlotReads /\ (StreamAsks(r) \/ StreamAnswers(r))
           \/ Cancelled(r)
    PROVE  YoutubeInv'
PROOF
  <1> USE DEF YoutubeInv, OtherThreadsStay, OtherCallsStay
  <1>0. /\ fetch \in [Calling -> Threads] /\ asked \in [Calling -> Calls]
        /\ r \in Calling /\ cached \subseteq CatalogPages
        /\ NoThread \in Threads /\ NoThread.at = "none"
        /\ NoCall \in Calls /\ NoCall.at = "idle"
    BY DEF YoutubeTypes, Calling, NoThread, NoCall, Threads, Calls
  <1>1. Connected \in BOOLEAN /\ MaxYoutubeCancels \in Nat
    BY YoutubeGateAssumption
  <1> DEFINE begun == [at |-> "gate", cookies |-> Connected, fallback |-> FALSE]
  <1>2. begun \in Threads
    BY <1>1 DEF Threads
  <1>3. CASE r \in CatalogReads /\ CatalogAsks(r)
    <2>1. PICK p \in CatalogPages : /\ asked' = [asked EXCEPT ![r] = Queued(p)]
                                    /\ asked[r].at = "idle"
                                    /\ UNCHANGED <<sinceCall, cooldown, fetch, cached>>
      BY <1>3 DEF CatalogAsks
    <2>2. Queued(p) \in Calls /\ Queued(p).at = "queued" /\ Queued(p).page = p
      BY <1>0 DEF Queued, Calls
    <2>3. asked' \in [Calling -> Calls] /\ asked'[r] = Queued(p) /\ OtherCallsStay(r)
      BY <1>0, <2>1, <2>2
    <2>4. r \in CatalogReads \cup StreamReads => ~Extracting(r)'
      BY <2>1 DEF ExtractsForSomebody, Extracting
    <2> QED
      BY <1>0, <2>1, <2>2, <2>3, <2>4, RequestChanges
  <1>4. CASE r \in CatalogReads /\ CatalogTakesLock(r)
    <2>1. CASE asked[r].page \in cached
      <3>1. /\ asked' = [asked EXCEPT ![r] = NoCall] /\ asked[r].at = "queued"
            /\ UNCHANGED <<sinceCall, cooldown, fetch, cached>>
        BY <1>4, <2>1 DEF CatalogTakesLock
      <3>2. asked' \in [Calling -> Calls] /\ asked'[r].at = "idle" /\ OtherCallsStay(r)
        BY <1>0, <3>1
      <3>3. r \in CatalogReads \cup StreamReads => ~Extracting(r)'
        BY <3>1 DEF ExtractsForSomebody, Extracting
      <3> QED
        BY <1>0, <3>1, <3>2, <3>3, RequestChanges
    <2>2. CASE asked[r].page \notin cached
      <3>1. /\ asked' = [asked EXCEPT ![r].at = "waits"] /\ extract_lock
            /\ fetch' = [fetch EXCEPT ![r] = begun]
            /\ UNCHANGED <<sinceCall, cooldown, cached>>
        BY <1>4, <2>2 DEF CatalogTakesLock, Begins
      <3> HIDE DEF begun
      <3>2. /\ asked' \in [Calling -> Calls] /\ asked'[r].at = "waits" /\ OtherCallsStay(r)
            /\ asked'[r].page = asked[r].page
            /\ fetch' \in [Calling -> Threads] /\ OtherThreadsStay(r)
        BY <1>0, <1>2, <3>1 DEF Calls
      <3>3. r \notin SlotReads /\ asked[r].page \in CatalogPages
        BY <1>4, CallersAssumption DEF CatalogTakesLock, KnowsItsPage
      <3> QED
        BY <1>0, <3>1, <3>2, <3>3, RequestChanges
    <2> QED
      BY <2>1, <2>2
  <1>5. CASE (r \in CatalogReads /\ CatalogAnswers(r)) \/ (r \in SlotReads /\ StreamAnswers(r))
    <2>1. /\ asked' = [asked EXCEPT ![r] = NoCall]
          /\ fetch' = [fetch EXCEPT ![r] = NoThread]
          /\ UNCHANGED <<sinceCall, cooldown>>
      BY <1>5 DEF CatalogAnswers, StreamAnswers, ThreadEnds
    <2>2. /\ asked' \in [Calling -> Calls] /\ asked'[r].at = "idle" /\ OtherCallsStay(r)
          /\ fetch' \in [Calling -> Threads] /\ fetch'[r].at = "none" /\ OtherThreadsStay(r)
      BY <1>0, <2>1
    <2>3. cached' \subseteq CatalogPages
      <3>1. CASE StreamAnswers(r)
        BY <1>0, <3>1 DEF StreamAnswers
      <3>2. CASE CatalogAnswers(r)
        <4>1. CASE r \in CatalogReads
          BY <1>0, <3>2, <4>1 DEF CatalogAnswers, KnowsItsPage
        <4>2. CASE r \notin CatalogReads
          BY <1>0, <1>5, <4>2 DEF StreamAnswers
        <4> QED
          BY <4>1, <4>2
      <3> QED
        BY <1>5, <3>1, <3>2
    <2> QED
      BY <2>1, <2>2, <2>3, RequestChanges DEF Extracting
  <1>6. CASE r \in SlotReads /\ StreamAsks(r)
    <2>1. /\ asked' = [asked EXCEPT ![r].at = "waits"]
          /\ Cardinality(Waiting) < StreamSlots
          /\ fetch' = [fetch EXCEPT ![r] = begun]
          /\ UNCHANGED <<sinceCall, cooldown, cached>>
      BY <1>6 DEF StreamAsks, Begins, Waiting
    <2> HIDE DEF begun
    <2>2. /\ asked' \in [Calling -> Calls] /\ asked'[r].at = "waits" /\ OtherCallsStay(r)
          /\ fetch' \in [Calling -> Threads] /\ OtherThreadsStay(r)
      BY <1>0, <1>2, <2>1 DEF Calls
    <2>3. r \notin CatalogReads
      BY <1>6, CallersAssumption
    <2> QED
      BY <1>0, <2>1, <2>2, <2>3, RequestChanges
  <1>7. CASE Cancelled(r)
    <2>1. /\ asked[r].at \in {"queued", "waits"} /\ asked[r].cancels = 0
          /\ UNCHANGED <<sinceCall, cooldown, fetch, cached>>
      BY <1>0, <1>1, <1>7 DEF Cancelled, Calls
    <2>2. CASE asked[r].at = "queued" \/ r \in CommentReads
      <3>1. asked' = [asked EXCEPT ![r] = NoCall]
        BY <1>7, <2>2 DEF Cancelled
      <3>2. asked' \in [Calling -> Calls] /\ asked'[r].at = "idle" /\ OtherCallsStay(r)
        BY <1>0, <3>1
      <3>3. r \in CatalogReads \cup StreamReads => ~Extracting(r)'
        BY <2>1, <2>2, CallersAssumption DEF ExtractsForSomebody, Extracting, SlotReads
      <3> QED
        BY <1>0, <2>1, <3>2, <3>3, RequestChanges
    <2>3. CASE asked[r].at = "waits" /\ r \notin CommentReads
      <3>1. asked' = [asked EXCEPT ![r] = [asked[r] EXCEPT !.cancels = asked[r].cancels + 1]]
        BY <2>1, <2>3, <1>7 DEF Cancelled
      <3>2. /\ asked' \in [Calling -> Calls] /\ asked'[r].at = "waits" /\ OtherCallsStay(r)
            /\ asked'[r].page = asked[r].page
        BY <1>0, <2>1, <2>3, <3>1 DEF Calls
      <3> QED
        BY <1>0, <2>1, <2>3, <3>2, RequestChanges DEF KnowsItsPage
    <2> QED
      BY <2>1, <2>2, <2>3
  <1> QED
    BY <1>3, <1>4, <1>5, <1>6, <1>7

\* Every action keeps the invariant of the gate.
LEMMA StepKeepsGate ==
    ASSUME YoutubeInv, MaxYoutubeCancels <= 1, [YoutubeGateNext]_youtubeVars PROVE YoutubeInv'
PROOF
  <1> USE DEF YoutubeInv
  <1>1. CASE YoutubeTick
    <2>1. /\ UNCHANGED <<fetch, asked, cached>>
          /\ sinceCall' \in 0..LongestGap /\ cooldown' \in 0..Backoff
      BY <1>1, GapsAreTimes DEF YoutubeTick, YoutubeTypes
    <2> QED
      BY <2>1, FewerWait DEF YoutubeTypes, ExtractsForSomebody, Extracting,
         OneHasTheLock,
                             KnowsItsPage, Waiting
  <1>2. ASSUME NEW p \in CatalogPages, CacheForgets(p) PROVE YoutubeInv'
    <2>1. UNCHANGED <<sinceCall, cooldown, fetch, asked>> /\ cached' \subseteq cached
      BY <1>2 DEF CacheForgets
    <2> QED
      BY <2>1, FewerWait DEF YoutubeTypes, ExtractsForSomebody, Extracting,
         OneHasTheLock,
                             KnowsItsPage, Waiting
  <1>3. ASSUME NEW r \in Downloads, Download(r) PROVE YoutubeInv'
    <2>1. PICK cookies \in BOOLEAN :
             /\ fetch' = [fetch EXCEPT ![r] = [at |-> "gate", cookies |-> cookies,
                                               fallback |-> Connected /\ ~cookies]]
             /\ UNCHANGED <<sinceCall, cooldown, asked, cached>>
      BY <1>3, YoutubeGateAssumption DEF Download, Begins
    <2> DEFINE begun == [at |-> "gate", cookies |-> cookies, fallback |-> Connected /\ ~cookies]
    <2>2. begun \in Threads
      BY YoutubeGateAssumption DEF Threads
    <2> HIDE DEF begun
    <2>3. fetch' \in [Calling -> Threads] /\ OtherThreadsStay(r)
      BY <2>1, <2>2 DEF YoutubeTypes, OtherThreadsStay, begun
    <2>4. r \notin CatalogReads \cup StreamReads
      BY CallersAssumption DEF SlotReads
    <2>5. ExtractsForSomebody'
      BY <2>1, <2>3, <2>4 DEF ExtractsForSomebody, Extracting, OtherThreadsStay,
         Calling, SlotReads
    <2> QED
      BY <2>1, <2>3, <2>5, FewerWait DEF YoutubeTypes, OneHasTheLock, KnowsItsPage,
         Waiting
  <1>4. CASE UNCHANGED youtubeVars
    BY <1>4, FewerWait DEF youtubeVars, YoutubeTypes, ExtractsForSomebody, Extracting,
                           OneHasTheLock, KnowsItsPage, Waiting
  <1> QED
    BY <1>1, <1>2, <1>3, <1>4, ThreadGoesOn, RequestsKeep DEF YoutubeGateNext, Calling

\* The types need no bound on the cancellations: a request that waits counts
\* its first one alone.
GateTyped == YoutubeTypes /\ KnowsItsPage

\* A step of a request that changes its own thread and place keeps them.
LEMMA RequestStaysTyped ==
    ASSUME GateTyped, NEW r \in Calling, NEW f \in Threads, NEW a \in Calls,
           r \in CatalogReads /\ a.at # "idle" => a.page \in CatalogPages,
           fetch' = [fetch EXCEPT ![r] = f], asked' = [asked EXCEPT ![r] = a],
           cached' \subseteq CatalogPages,
           sinceCall' \in 0..LongestGap, cooldown' \in 0..Backoff
    PROVE  GateTyped'
PROOF
  <1>1. YoutubeTypes'
    BY DEF GateTyped, YoutubeTypes
  <1>2. KnowsItsPage'
    BY DEF GateTyped, YoutubeTypes, KnowsItsPage, Calling
  <1> QED
    BY <1>1, <1>2 DEF GateTyped

\* Every action keeps the types of the gate.
LEMMA StepKeepsGateTyped ==
    ASSUME GateTyped, [YoutubeGateNext]_youtubeVars PROVE GateTyped'
PROOF
  <1> USE DEF GateTyped
  <1>1. /\ fetch \in [Calling -> Threads] /\ asked \in [Calling -> Calls]
        /\ cached \subseteq CatalogPages
        /\ sinceCall \in 0..LongestGap /\ cooldown \in 0..Backoff
        /\ 0 \in 0..LongestGap /\ Backoff \in 0..Backoff
    BY GapsAreTimes DEF YoutubeTypes
  <1>2. /\ NoThread \in Threads /\ NoCall \in Calls /\ NoCall.at = "idle"
        /\ Connected \in BOOLEAN
    BY YoutubeGateAssumption DEF NoThread, NoCall, Threads, Calls
  <1>3. /\ \A r \in Calling : fetch[r] \in Threads /\ asked[r] \in Calls
        /\ \A r \in Calling : /\ fetch = [fetch EXCEPT ![r] = fetch[r]]
                              /\ asked = [asked EXCEPT ![r] = asked[r]]
    BY <1>1
  <1>4. \A r \in CatalogReads : asked[r].at # "idle" => asked[r].page \in CatalogPages
    BY DEF KnowsItsPage
  <1>5. CASE YoutubeTick
    BY <1>1, <1>5, GapsAreTimes DEF YoutubeTick, YoutubeTypes, KnowsItsPage
  <1>6. ASSUME NEW r \in Calling, _wait_for_youtube_slot(r) \/ extract_info(r)
        PROVE  GateTyped'
    <2>1. /\ UNCHANGED <<asked, cached>>
          /\ sinceCall' \in 0..LongestGap /\ cooldown' \in 0..Backoff
      BY <1>1, <1>6 DEF _wait_for_youtube_slot, extract_info, _open_rate_limit_cooldown
    <2>2. PICK f \in Threads : fetch' = [fetch EXCEPT ![r] = f]
      <3>1. CASE \E at \in {"call", "answered", "refused"} : ThreadIs(r, at)
        <4>1. PICK at \in {"call", "answered", "refused"} :
                 fetch' = [fetch EXCEPT ![r] = [fetch[r] EXCEPT !.at = at]]
          BY <3>1 DEF ThreadIs
        <4>2. [fetch[r] EXCEPT !.at = at] \in Threads
          BY <1>3 DEF Threads
        <4> QED
          BY <4>1, <4>2
      <3>2. CASE ThreadEnds(r)
        BY <1>2, <3>2 DEF ThreadEnds
      <3>3. CASE FallsBack(r)
        <4>1. [at |-> "gate", cookies |-> TRUE, fallback |-> FALSE] \in Threads
          BY DEF Threads
        <4> QED
          BY <3>3, <4>1 DEF FallsBack, Begins
      <3> QED
        BY <1>6, <3>1, <3>2, <3>3 DEF _wait_for_youtube_slot, extract_info, BringsBack
    <2> QED
      BY <1>1, <1>3, <1>4, <2>1, <2>2, RequestStaysTyped
  <1>7. ASSUME NEW r \in CatalogReads \cup SlotReads,
               \/ r \in CatalogReads /\ (CatalogAsks(r) \/ CatalogTakesLock(r) \/ CatalogAnswers(r))
               \/ r \in SlotReads /\ (StreamAsks(r) \/ StreamAnswers(r))
               \/ Cancelled(r)
        PROVE  GateTyped'
    <2>1. r \in Calling /\ UNCHANGED <<sinceCall, cooldown>>
      BY <1>7 DEF Calling, CatalogAsks, CatalogTakesLock, CatalogAnswers, StreamAsks,
                  StreamAnswers, Cancelled
    <2>2. cached' \subseteq CatalogPages
      <3>1. CASE r \in CatalogReads /\ CatalogAnswers(r)
        BY <1>1, <1>4, <3>1 DEF CatalogAnswers
      <3>2. CASE ~(r \in CatalogReads /\ CatalogAnswers(r))
        BY <1>1, <1>7, <3>2 DEF CatalogAsks, CatalogTakesLock, StreamAsks, StreamAnswers, Cancelled
      <3> QED
        BY <3>1, <3>2
    <2>3. PICK f \in Threads : fetch' = [fetch EXCEPT ![r] = f]
      <3>1. [at |-> "gate", cookies |-> Connected, fallback |-> FALSE] \in Threads
        BY <1>2 DEF Threads
      <3> QED
        BY <1>2, <1>3, <1>7, <2>1, <3>1, Zenon
           DEF CatalogAsks, CatalogTakesLock, CatalogAnswers, StreamAsks, StreamAnswers,
               Cancelled, Begins, ThreadEnds
    <2>4. PICK a \in Calls : /\ asked' = [asked EXCEPT ![r] = a]
                             /\ r \in CatalogReads /\ a.at # "idle" => a.page \in CatalogPages
      <3>1. \A p \in CatalogPages : Queued(p) \in Calls /\ Queued(p).page = p
        BY <1>2 DEF Queued, NoCall, Calls
      <3>2. [asked[r] EXCEPT !.at = "waits"] \in Calls
        BY <1>3, <2>1 DEF Calls
      <3>3. CASE Cancelled(r)
        <4>1. CASE asked[r].at = "queued" \/ asked[r].cancels > 0 \/ r \in CommentReads
          BY <1>2, <3>3, <4>1 DEF Cancelled
        <4>2. CASE ~(asked[r].at = "queued" \/ asked[r].cancels > 0 \/ r \in CommentReads)
          <5>1. asked[r].cancels = 0 /\ asked[r].at = "waits"
            BY <1>3, <2>1, <3>3, <4>2 DEF Cancelled, Calls
          <5> DEFINE a == [asked[r] EXCEPT !.cancels = asked[r].cancels + 1]
          <5>2. a \in Calls /\ a.at = "waits" /\ a.page = asked[r].page
            BY <1>3, <2>1, <5>1 DEF Calls
          <5>3. asked' = [asked EXCEPT ![r] = a]
            BY <3>3, <4>2 DEF Cancelled
          <5> HIDE DEF a
          <5> QED
            BY <1>4, <5>1, <5>2, <5>3
        <4> QED
          BY <4>1, <4>2
      <3>4. CASE r \in CatalogReads /\ CatalogTakesLock(r)
        <4>1. CASE asked[r].page \in cached
          BY <1>2, <3>4, <4>1 DEF CatalogTakesLock
        <4>2. CASE asked[r].page \notin cached
          <5>1. asked[r].page \in CatalogPages
            BY <1>4, <3>4 DEF CatalogTakesLock
          <5>2. [asked[r] EXCEPT !.at = "waits"].page = asked[r].page
            BY <1>3, <2>1 DEF Calls
          <5>3. asked' = [asked EXCEPT ![r] = [asked[r] EXCEPT !.at = "waits"]]
            BY <3>4, <4>2 DEF CatalogTakesLock
          <5> QED
            BY <3>2, <5>1, <5>2, <5>3
        <4> QED
          BY <4>1, <4>2
      <3>5. CASE r \in SlotReads /\ StreamAsks(r)
        <4>1. r \notin CatalogReads
          BY <3>5, CallersAssumption
        <4> QED
          BY <3>2, <3>5, <4>1 DEF StreamAsks
      <3>6. CASE r \in CatalogReads /\ CatalogAsks(r)
        <4>1. PICK p \in CatalogPages : asked' = [asked EXCEPT ![r] = Queued(p)]
          BY <3>6 DEF CatalogAsks
        <4>2. Queued(p) \in Calls /\ Queued(p).page = p
          BY <3>1
        <4> QED
          BY <4>1, <4>2
      <3>7. CASE \/ r \in CatalogReads /\ CatalogAnswers(r)
                 \/ r \in SlotReads /\ StreamAnswers(r)
        BY <1>2, <3>7 DEF CatalogAnswers, StreamAnswers
      <3> QED
        BY <1>7, <3>3, <3>4, <3>5, <3>6, <3>7
    <2> QED
      BY <1>1, <2>1, <2>2, <2>3, <2>4, RequestStaysTyped
  <1>8. ASSUME NEW p \in CatalogPages, CacheForgets(p) PROVE GateTyped'
    BY <1>8 DEF CacheForgets, YoutubeTypes, KnowsItsPage
  <1>9. ASSUME NEW r \in Downloads, Download(r) PROVE GateTyped'
    <2>1. \A cookies \in BOOLEAN :
             [at |-> "gate", cookies |-> cookies, fallback |-> Connected /\ ~cookies] \in Threads
      BY <1>2 DEF Threads
    <2>2. PICK f \in Threads : fetch' = [fetch EXCEPT ![r] = f]
      <3> DEFINE begun(c) == [at |-> "gate", cookies |-> c, fallback |-> Connected /\ ~c]
      <3>1. \A c \in BOOLEAN : begun(c) \in Threads
        BY <2>1
      <3>2. PICK c \in {FALSE, Connected} : Begins(r, c, Connected /\ ~c)
        BY <1>9, Zenon DEF Download
      <3>3. c \in BOOLEAN /\ fetch' = [fetch EXCEPT ![r] = begun(c)]
        BY <1>2, <3>2 DEF Begins
      <3> HIDE DEF begun
      <3> QED
        BY <3>1, <3>3
    <2>3. UNCHANGED <<sinceCall, cooldown, asked, cached>> /\ r \in Calling
      BY <1>9 DEF Download, Calling
    <2> QED
      BY <1>1, <1>3, <1>4, <2>2, <2>3, RequestStaysTyped
  <1>10. CASE UNCHANGED youtubeVars
    BY <1>10 DEF youtubeVars, YoutubeTypes, KnowsItsPage
  <1> QED
    BY <1>5, <1>6, <1>7, <1>8, <1>9, <1>10 DEF YoutubeGateNext

\* Nobody waits and nothing is cached at first.
LEMMA GateStarts == YoutubeGateInit => YoutubeInv
PROOF
  <1> SUFFICES ASSUME YoutubeGateInit PROVE YoutubeInv
    OBVIOUS
  <1>1. /\ NoThread \in Threads /\ NoThread.at = "none"
        /\ NoCall \in Calls /\ NoCall.at = "idle"
    BY DEF NoThread, NoCall, Threads, Calls
  <1>2. sinceCall \in 0..LongestGap /\ cooldown \in 0..Backoff
    BY GapsAreTimes DEF YoutubeGateInit
  <1>3. fetch \in [Calling -> Threads] /\ asked \in [Calling -> Calls] /\ cached = {}
    BY <1>1 DEF YoutubeGateInit
  <1>4. \A r \in Calling : ~Extracting(r) /\ asked[r].at = "idle"
    BY <1>1 DEF YoutubeGateInit, Extracting
  <1>5. Waiting = {}
    BY <1>4 DEF Waiting, Calling
  <1>6. SlotsSuffice
    BY <1>5, FS_EmptySet, YoutubeGateAssumption DEF SlotsSuffice
  <1> QED
    BY <1>2, <1>3, <1>4, <1>6 DEF YoutubeInv, YoutubeTypes, ExtractsForSomebody,
       OneHasTheLock,
       KnowsItsPage, Calling, SlotReads

\* Only the gate lets a call out.
LEMMA TheGateLetsOut ==
    ASSUME YoutubeInv, YoutubeGateNext, NEW r \in Calling,
           fetch'[r].at = "call", fetch'[r] # fetch[r]
    PROVE  cooldown = 0 /\ sinceCall >= (IF fetch'[r].cookies THEN AuthGap ELSE PublicGap)
PROOF
  <1> USE DEF YoutubeInv, YoutubeTypes
  <1>1. ASSUME NEW s \in Calling, fetch' = [fetch EXCEPT ![s].at = "call"], cooldown = 0,
               sinceCall >= Gap(s)
        PROVE  cooldown = 0 /\ sinceCall >= (IF fetch'[r].cookies THEN AuthGap ELSE PublicGap)
    BY <1>1 DEF Threads, Gap
  <1>2. ASSUME NEW s \in Calling, NEW f, f.at # "call", fetch' = [fetch EXCEPT ![s] = f]
        PROVE  FALSE
    BY <1>2
  <1>3. ASSUME NEW s \in Calling, NEW at \in {"answered", "refused"},
               fetch' = [fetch EXCEPT ![s].at = at]
        PROVE  FALSE
    BY <1>3 DEF Threads
  <1>4. NoThread.at # "call"
    BY DEF NoThread
  <1>5. ~(UNCHANGED fetch)
    OBVIOUS
  <1>6. \A cookies, fallback :
           [at |-> "gate", cookies |-> cookies, fallback |-> fallback].at # "call"
    OBVIOUS
  <1>7. ASSUME NEW s \in Calling, _wait_for_youtube_slot(s) \/ extract_info(s)
        PROVE  cooldown = 0 /\ sinceCall >= (IF fetch'[r].cookies THEN AuthGap ELSE PublicGap)
    BY <1>1, <1>2, <1>3, <1>4, <1>6, <1>7 DEF _wait_for_youtube_slot, extract_info,
       BringsBack,
       ThreadIs, ThreadEnds, FallsBack, Begins
  <1>8. ASSUME NEW s \in Calling, \/ CatalogAsks(s) \/ CatalogTakesLock(s) \/ CatalogAnswers(s)
                                  \/ StreamAsks(s) \/ StreamAnswers(s) \/ Cancelled(s)
                                  \/ Download(s)
        PROVE  FALSE
    BY <1>2, <1>4, <1>5, <1>6, <1>8 DEF CatalogAsks, CatalogTakesLock,
       CatalogAnswers, StreamAsks,
       StreamAnswers, Cancelled, Download, ThreadEnds, Begins
  <1>9. ~YoutubeTick /\ \A p : ~CacheForgets(p)
    BY <1>5 DEF YoutubeTick, CacheForgets
  <1> QED
    BY <1>7, <1>8, <1>9 DEF YoutubeGateNext, Calling

\* The types the invariant gives.
LEMMA GateTypesAre == GateTyped => YoutubeGateTypeOK
PROOF
  BY DEF GateTyped, YoutubeTypes, YoutubeGateTypeOK, Threads, Calls

(* The gate, its callers and the cache keep their types, however often a      *)
(* request is cancelled.                                                      *)
THEOREM GateIsTyped == YoutubeGateSpec => []YoutubeGateTypeOK
PROOF
  <1>1. YoutubeGateInit => GateTyped
    BY GateStarts DEF YoutubeInv, GateTyped
  <1>2. GateTyped /\ [YoutubeGateNext]_youtubeVars => GateTyped'
    BY StepKeepsGateTyped
  <1> QED
    BY <1>1, <1>2, GateTypesAre, PTL DEF YoutubeGateSpec

(* Whoever calls YouTube, from whatever process and with whatever fallback,   *)
(* calls after the interval, outside a cooldown, and beside at most one       *)
(* catalog and StreamSlots streams - for any callers, intervals and slots, as *)
(* long as a request is cancelled at most once.                               *)
THEOREM CallsStayRationed ==
    ASSUME MaxYoutubeCancels <= 1 PROVE YoutubeGateSpec => CallsAreRationed
PROOF
  <1>1. ASSUME YoutubeInv, [YoutubeGateNext]_youtubeVars
        PROVE  [\A r \in Calling : fetch'[r].at = "call" /\ fetch'[r] # fetch[r] =>
                  /\ cooldown = 0
                  /\ sinceCall >= IF fetch'[r].cookies THEN AuthGap ELSE PublicGap
                  /\ Cardinality({c \in CatalogReads : Extracting(c)}) <= 1
                  /\ Cardinality({c \in StreamReads : Extracting(c)}) <= StreamSlots]_youtubeVars
    <2> DEFINE Catalog == {c \in CatalogReads : Extracting(c)}
               Streams == {c \in StreamReads : Extracting(c)}
    <2>1. \A c \in Catalog, d \in Catalog : c = d
      BY <1>1 DEF YoutubeInv, ExtractsForSomebody, OneHasTheLock
    <2>2. Cardinality(Catalog) <= 1
      <3>1. CASE Catalog = {}
        BY <3>1, FS_EmptySet
      <3>2. CASE Catalog # {}
        <4>1. PICK c \in Catalog : Catalog = {c}
          BY <2>1, <3>2
        <4> QED
          BY <4>1, FS_Singleton
      <3> QED
        BY <3>1, <3>2
    <2>3. Cardinality(Streams) <= StreamSlots
      <3>1. Streams \in SUBSET Waiting
        BY <1>1 DEF YoutubeInv, ExtractsForSomebody, Waiting, SlotReads
      <3>2. IsFiniteSet(Streams) /\ Cardinality(Streams) <= Cardinality(Waiting)
        BY <3>1, WaitingIsFinite, FS_Subset
      <3>3. Cardinality(Streams) \in Nat
        BY <3>2, FS_CardinalityType
      <3> QED
        BY <1>1, <3>2, <3>3, WaitingIsFinite, YoutubeGateAssumption DEF YoutubeInv,
           SlotsSuffice
    <2> QED
      BY <1>1, <2>2, <2>3, TheGateLetsOut
  <1>2. YoutubeInv /\ [YoutubeGateNext]_youtubeVars => YoutubeInv'
    BY StepKeepsGate
  <1> QED
    BY <1>1, <1>2, GateStarts, PTL DEF YoutubeGateSpec, CallsAreRationed

(***************************************************************************)
(* A revoked share has no session left, for any shares, guests, requests   *)
(* of the owner and size of the index.  That alone is not inductive: a     *)
(* visitor may have found the row active before it was revoked, and the    *)
(* script that clears a share drops the sessions its index lists.  The     *)
(* invariant adds that an index lists every session, that a share is       *)
(* cleared and marked before the commit, and that the mark outlasts the    *)
(* requests that found a share active.                                     *)
(***************************************************************************)
SessionsAreIndexed == \A s \in ShareIds : liveIn[s] \subseteq indexOf[s]

ClearedIsMarked ==
    \A o \in Owners : \A s \in revoking[o].picked \ revoking[o].left :
        s \in marked /\ liveIn[s] = {}

LateVisitorsAreBarred ==
    \A g \in Guests : entering[g] \in revokedShares => entering[g] \in marked

SharesInv ==
    /\ SharesTypeOK /\ SessionsAreIndexed /\ ClearedIsMarked
    /\ LateVisitorsAreBarred /\ RevokedIsShutOut

(* What the script makes of the sessions of a share: they stay sessions, and  *)
(* all of them are in its index.                                              *)
LEMMA CreateKeepsIndex ==
    ASSUME SharesTypeOK, SessionsAreIndexed, NEW s \in ShareIds,
           NEW k \in SessionKeys(s), CREATE_SESSION(s, k)
    PROVE  /\ liveIn' \in [ShareIds -> SUBSET SessionIds]
           /\ indexOf' \in [ShareIds -> SUBSET SessionIds]
           /\ SessionsAreIndexed'
           /\ \A t \in ShareIds \ {s} : liveIn'[t] = liveIn[t]
PROOF
  <1>1. k \in SessionIds
    BY DEF SessionKeys, Unused, SessionIds
  <1>2. PICK listed \in Trimmed(s) :
           /\ liveIn' = [liveIn EXCEPT ![s] = (@ \ (indexOf[s] \ listed)) \cup {k}]
           /\ indexOf' = [indexOf EXCEPT ![s] = listed \cup {k}]
    BY DEF CREATE_SESSION
  <1>3. listed \subseteq indexOf[s] \cap liveIn[s]
    BY <1>2 DEF Trimmed
  <1>4. liveIn[s] \subseteq indexOf[s] /\ indexOf[s] \subseteq SessionIds
    BY DEF SessionsAreIndexed, SharesTypeOK
  <1>5. /\ liveIn' \in [ShareIds -> SUBSET SessionIds]
        /\ indexOf' \in [ShareIds -> SUBSET SessionIds]
    BY <1>1, <1>2, <1>3, <1>4 DEF SharesTypeOK
  <1>6. liveIn'[s] \subseteq indexOf'[s]
    BY <1>2, <1>4 DEF SharesTypeOK
  <1>7. \A t \in ShareIds \ {s} : liveIn'[t] = liveIn[t] /\ indexOf'[t] = indexOf[t]
    BY <1>2 DEF SharesTypeOK
  <1> QED
    BY <1>5, <1>6, <1>7 DEF SessionsAreIndexed

(* No share is revoked, entered or cleared at the start.                      *)
LEMMA InitIsShut == SharesInit => SharesInv
PROOF
  BY SharesAssumption DEF SharesInit, SharesInv, SharesTypeOK, SessionsAreIndexed,
     ClearedIsMarked, LateVisitorsAreBarred, RevokedIsShutOut, NoRevoke

(* A visitor's steps: the script adds no session to a share that is marked,   *)
(* so none to one that is cleared or revoked.                                 *)
LEMMA GuestsKeepInv ==
    ASSUME SharesInv, NEW g \in Guests, GuestSteps(g)
    PROVE  SharesInv'
PROOF
  <1> USE DEF SharesInv
  <1>1. ASSUME NEW s \in ShareIds, ReadsShare(g, s) PROVE SharesInv'
    BY <1>1 DEF ReadsShare, SharesTypeOK, SessionsAreIndexed, ClearedIsMarked,
       LateVisitorsAreBarred, RevokedIsShutOut
  <1>2. CASE _establish_session(g)
    <2> DEFINE s == entering[g]
    <2>1. /\ s \in ShareIds
          /\ entering' = [entering EXCEPT ![g] = NoShare]
          /\ UNCHANGED <<revokedShares, lapsed, marked, revoking>>
      BY <1>2 DEF _establish_session, SharesTypeOK
    <2>2. LateVisitorsAreBarred'
      BY <2>1, SharesAssumption DEF LateVisitorsAreBarred, SharesTypeOK
    <2>3. CASE s \in marked
      <3>1. UNCHANGED <<liveIn, indexOf>>
        BY <1>2, <2>3 DEF _establish_session
      <3> QED
        BY <2>1, <2>2, <3>1 DEF SharesTypeOK, SessionsAreIndexed, ClearedIsMarked,
           RevokedIsShutOut
    <2>4. CASE s \notin marked
      <3>1. PICK k \in SessionKeys(s) : CREATE_SESSION(s, k)
        BY <1>2, <2>4 DEF _establish_session
      <3>2. /\ liveIn' \in [ShareIds -> SUBSET SessionIds]
            /\ indexOf' \in [ShareIds -> SUBSET SessionIds]
            /\ SessionsAreIndexed'
            /\ \A t \in ShareIds \ {s} : liveIn'[t] = liveIn[t]
        BY <2>1, <3>1, CreateKeepsIndex
      <3>3. SharesTypeOK'
        BY <2>1, <3>2 DEF SharesTypeOK
      <3>4. ClearedIsMarked'
        BY <2>1, <2>4, <3>2 DEF ClearedIsMarked, SharesTypeOK
      <3>5. RevokedIsShutOut'
        BY <2>1, <2>4, <3>2 DEF RevokedIsShutOut, LateVisitorsAreBarred, SharesTypeOK
      <3> QED
        BY <2>2, <3>2, <3>3, <3>4, <3>5
    <2> QED
      BY <2>3, <2>4
  <1>3. CASE EntryFails(g)
    BY <1>3, SharesAssumption DEF EntryFails, SharesTypeOK, SessionsAreIndexed,
       ClearedIsMarked, LateVisitorsAreBarred, RevokedIsShutOut
  <1> QED
    BY <1>1, <1>2, <1>3 DEF GuestSteps

(* The owner's steps: a share is cleared and marked before it is revoked.     *)
LEMMA OwnersKeepInv ==
    ASSUME SharesInv, NEW o \in Owners, OwnerSteps(o)
    PROVE  SharesInv'
PROOF
  <1> USE DEF SharesInv
  <1>1. ASSUME NEW picked \in Selections, Flushes(o, picked) PROVE SharesInv'
    <2>1. picked \subseteq ShareIds
      BY <1>1 DEF Selections
    <2> QED
      BY <1>1, <2>1 DEF Flushes, SharesTypeOK, SessionsAreIndexed, ClearedIsMarked,
         LateVisitorsAreBarred, RevokedIsShutOut
  <1>2. ASSUME NEW s \in ShareIds, CLEAR_SHARE_SESSIONS(o, s) PROVE SharesInv'
    <2>1. liveIn'[s] = {} /\ \A t \in ShareIds \ {s} : liveIn'[t] = liveIn[t]
      BY <1>2 DEF CLEAR_SHARE_SESSIONS, SharesTypeOK, SessionsAreIndexed
    <2>2. SharesTypeOK' /\ SessionsAreIndexed'
      BY <1>2 DEF CLEAR_SHARE_SESSIONS, SharesTypeOK, SessionsAreIndexed
    <2>3. ClearedIsMarked'
      BY <1>2, <2>1 DEF CLEAR_SHARE_SESSIONS, SharesTypeOK, ClearedIsMarked
    <2>4. LateVisitorsAreBarred' /\ RevokedIsShutOut'
      BY <1>2, <2>1 DEF CLEAR_SHARE_SESSIONS, SharesTypeOK, LateVisitorsAreBarred,
         RevokedIsShutOut
    <2> QED
      BY <2>2, <2>3, <2>4
  <1>3. CASE RevokeFails(o)
    BY <1>3 DEF RevokeFails, NoRevoke, SharesTypeOK, SessionsAreIndexed, ClearedIsMarked,
       LateVisitorsAreBarred, RevokedIsShutOut
  <1>4. CASE RevokeCommits(o)
    <2>1. \A s \in revoking[o].picked : s \in marked /\ liveIn[s] = {}
      BY <1>4 DEF RevokeCommits, ClearedIsMarked
    <2> QED
      BY <1>4, <2>1 DEF RevokeCommits, NoRevoke, SharesTypeOK, SessionsAreIndexed,
         ClearedIsMarked, LateVisitorsAreBarred, RevokedIsShutOut
  <1> QED
    BY <1>1, <1>2, <1>3, <1>4 DEF OwnerSteps

(* Time only ends sessions, and a mark no request waits behind.               *)
LEMMA TimeKeepsInv ==
    ASSUME SharesInv, NEW s \in ShareIds, TimeSteps(s)
    PROVE  SharesInv'
PROOF
  <1> USE DEF SharesInv
  <1>1. CASE SessionEnds(s)
    BY <1>1 DEF SessionEnds, SharesTypeOK, SessionsAreIndexed, ClearedIsMarked,
       LateVisitorsAreBarred, RevokedIsShutOut
  <1>2. CASE ShareLapses(s)
    BY <1>2 DEF ShareLapses, SharesTypeOK, SessionsAreIndexed, ClearedIsMarked,
       LateVisitorsAreBarred, RevokedIsShutOut
  <1>3. CASE MarkEnds(s)
    BY <1>3 DEF MarkEnds, SharesTypeOK, SessionsAreIndexed, ClearedIsMarked,
       LateVisitorsAreBarred, RevokedIsShutOut
  <1> QED
    BY <1>1, <1>2, <1>3 DEF TimeSteps

\* Every step of visitors, owners and time.
LEMMA StepKeepsShares == ASSUME SharesInv, [SharesNext]_sharesVars PROVE SharesInv'
PROOF
  <1>1. CASE SharesNext
    BY <1>1, GuestsKeepInv, OwnersKeepInv, TimeKeepsInv DEF SharesNext
  <1>2. CASE UNCHANGED sharesVars
    BY <1>2 DEF sharesVars, SharesInv, SharesTypeOK, SessionsAreIndexed, ClearedIsMarked,
       LateVisitorsAreBarred, RevokedIsShutOut
  <1> QED
    BY <1>1, <1>2

(* The invariant holds in every state.                                        *)
LEMMA SharesInvHolds == SharesSpec => []SharesInv
PROOF
  <1>1. SharesInv /\ [SharesNext]_sharesVars => SharesInv'
    BY StepKeepsShares
  <1> QED
    BY InitIsShut, <1>1, PTL DEF SharesSpec

(* A share that was revoked lets nobody in: no visitor it let in before, none *)
(* whose request found it active, none later.                                 *)
THEOREM RevokedStaysShut == SharesSpec => []RevokedIsShutOut
PROOF
  BY SharesInvHolds, PTL DEF SharesInv

-----------------------------------------------------------------------------
(***************************************************************************)
(* The chapters of a title.  WholeSoFar is about every download: what it   *)
(* has behind it has a row.  TidyInv is about a title whose downloads were *)
(* never broken off nor met: there is one at a time, it writes its own     *)
(* branch, and the rows are those of the title's branch but while it is    *)
(* being changed.                                                          *)
(***************************************************************************)
ChapterTexts == Branches \cup {"empty"}
BookRecords ==
    [at : {"unasked", "queued", "inserting", "chapters", "fetched", "completed", "failed"},
     branch : Branches \cup {NoTitle}, sync : BOOLEAN, changed : BOOLEAN, inserts : BOOLEAN,
     todo : SUBSET Chapters, had : SUBSET Chapters, wants : SUBSET Chapters,
     chapter : SUBSET Chapters, found : Nat, failed : BOOLEAN, deleted : BOOLEAN,
     revoked : BOOLEAN]

BookTypes ==
    /\ medium \in {"text", "anime"} /\ title \in Branches \cup {NoTitle}
    /\ chapterRows \in [Chapters -> Seq(ChapterTexts)]
    /\ book \in [BookTasks -> BookRecords]
    /\ untidy \in BOOLEAN /\ upsets \in 0..MaxUpsets
    /\ \A c \in Chapters : Len(chapterRows[c]) <= 2

\* What is ahead of a download, and behind it.
Ahead(b) == b.todo \cup b.chapter
StagesInOrder(b) ==
    /\ b.at \in {"queued", "inserting", "chapters", "fetched"} => b.branch \in Branches
    /\ b.at # "fetched" => b.chapter = {}
    /\ b.at = "fetched" => b.chapter \cap b.todo = {} /\ \E c \in Chapters : b.chapter = {c}
    /\ Ahead(b) \subseteq b.wants
    /\ b.at = "inserting" => b.todo = b.wants
NoTitleNoRows == title = NoTitle => \A c \in Chapters : chapterRows[c] = <<>>
WholeSoFar(b) ==
    medium = "text" /\ b.at \in {"inserting", "chapters", "fetched"} /\ ~b.deleted /\ ~b.failed =>
       \A c \in b.wants \ Ahead(b) : Has(c)

FoundStays(b) == b.at = "fetched" /\ ~b.deleted =>
                    \A c \in b.chapter : b.found <= Len(chapterRows[c])

RowFits(c, branch) == \A i \in DOMAIN chapterRows[c] : chapterRows[c][i] \in {branch, "empty"}
Writing(d) == Downloading(d) /\ ~book[d].deleted
OneDownloads == \A d, e \in BookTasks : Downloading(d) /\ Downloading(e) => d = e
TitleIsKept == \A d \in BookTasks : Writing(d) /\ ~book[d].changed =>
                                       title \in {NoTitle, book[d].branch}
TitleIsChanged ==
    \A d \in BookTasks : Writing(d) /\ book[d].changed /\ ~book[d].failed =>
       /\ \A c \in Chapters \ book[d].wants : chapterRows[c] = <<>>
       /\ \A c \in book[d].wants \ Ahead(book[d]) : RowFits(c, book[d].branch)
       /\ title = book[d].branch \/ book[d].wants \subseteq Ahead(book[d])
RowsFitTitle ==
    (\A d \in BookTasks : Writing(d) => ~book[d].changed) => \A c \in Chapters : RowFits(c, title)
FoundIsThere ==
    \A d \in BookTasks : Writing(d) /\ book[d].at = "fetched" =>
       \A c \in book[d].chapter : book[d].found = Len(chapterRows[c])
TidyInv == OneDownloads /\ TitleIsKept /\ TitleIsChanged /\ RowsFitTitle /\ FoundIsThere

BooksInv ==
    /\ BookTypes /\ NoTitleNoRows
    /\ \A d \in BookTasks : /\ StagesInOrder(book[d]) /\ WholeSoFar(book[d])
                           /\ FoundStays(book[d])
    /\ ~untidy /\ medium = "text" => TidyInv

\* The record of a download, field by field.
LEMMA BookFields ==
    ASSUME NEW b \in BookRecords
    PROVE  /\ b.at \in {"unasked", "queued", "inserting", "chapters", "fetched", "completed",
                        "failed"}
           /\ b.branch \in Branches \cup {NoTitle} /\ b.sync \in BOOLEAN /\ b.changed \in BOOLEAN
           /\ b.inserts \in BOOLEAN /\ b.todo \subseteq Chapters /\ b.had \subseteq Chapters
           /\ b.wants \subseteq Chapters /\ b.chapter \subseteq Chapters /\ b.found \in Nat
           /\ b.failed \in BOOLEAN /\ b.deleted \in BOOLEAN /\ b.revoked \in BOOLEAN
  BY DEF BookRecords

\* A download that was not asked for has nothing ahead and nothing behind.
LEMMA UnaskedIs ==
    /\ Unasked \in BookRecords /\ Unasked.at = "unasked" /\ Unasked.chapter = {}
    /\ Unasked.todo = {} /\ Unasked.wants = {}
  BY DEF Unasked, BookRecords, NoTitle

\* One download changes its record.
LEMMA OneBook ==
    ASSUME BookTypes, NEW d \in BookTasks, NEW r \in BookRecords, Writes(d, r)
    PROVE  /\ book' \in [BookTasks -> BookRecords] /\ book'[d] = r
           /\ \A e \in BookTasks \ {d} : book'[e] = book[e]
  BY DEF BookTypes, Writes

Loads(b) == b.at \in {"inserting", "chapters", "fetched"}
Stores(b) == Loads(b) /\ ~b.deleted

\* The same said of the record.
LEMMA LoadsIs == \A d \in BookTasks : (Downloading(d) <=> Loads(book[d]))
                                      /\ (Writing(d) <=> Stores(book[d]))
  BY DEF Loads, Stores, Downloading, Writing

\* What a record has to be for a title that was never disturbed.
TidyRecord(d, r) ==
    /\ Loads(r) => Loads(book[d]) \/ \A e \in BookTasks \ {d} : ~Downloading(e)
    /\ Stores(r) /\ ~r.changed => title \in {NoTitle, r.branch}
    /\ Stores(r) /\ r.changed /\ ~r.failed =>
          /\ \A c \in Chapters \ r.wants : chapterRows[c] = <<>>
          /\ \A c \in r.wants \ Ahead(r) : RowFits(c, r.branch)
          /\ title = r.branch \/ r.wants \subseteq Ahead(r)
    /\ (Stores(r) => ~r.changed) /\ (\A e \in BookTasks \ {d} : Writing(e) => ~book[e].changed) =>
          \A c \in Chapters : RowFits(c, title)
    /\ Stores(r) /\ r.at = "fetched" => \A c \in r.chapter : r.found = Len(chapterRows[c])

\* A download changes its record, and what holds of an undisturbed title goes on.
LEMMA TidyGoesOn ==
    ASSUME BookTypes, TidyInv, NEW d \in BookTasks, NEW r \in BookRecords, Writes(d, r),
           UNCHANGED <<title, chapterRows>>, TidyRecord(d, r)
    PROVE  TidyInv'
  <1>1. /\ book' \in [BookTasks -> BookRecords] /\ book'[d] = r
        /\ \A e \in BookTasks \ {d} : book'[e] = book[e]
    BY OneBook
  <1>2. /\ \A e \in BookTasks : Downloading(e)' <=> Loads(book'[e])
        /\ \A e \in BookTasks : Writing(e)' <=> Stores(book'[e])
    BY DEF Loads, Stores, Downloading, Writing
  <1>3. /\ \A e \in BookTasks : Downloading(e) <=> Loads(book[e])
        /\ \A e \in BookTasks : Writing(e) <=> Stores(book[e])
    BY LoadsIs
  <1>4. \A c, b : RowFits(c, b)' <=> RowFits(c, b)
    BY DEF RowFits
  <1>5. OneDownloads'
    <2>1. ASSUME NEW e \in BookTasks, NEW f \in BookTasks, Loads(book'[e]), Loads(book'[f])
          PROVE  e = f
      <3>1. CASE Loads(book[d])
        BY <1>1, <1>3, <2>1, <3>1 DEF TidyInv, OneDownloads
      <3>2. CASE ~Loads(book[d])
        <4>1. Loads(r) => \A g \in BookTasks \ {d} : ~Loads(book[g])
          BY <1>3, <3>2 DEF TidyRecord
        <4> QED BY <1>1, <1>3, <2>1, <4>1 DEF TidyInv, OneDownloads
      <3> QED BY <3>1, <3>2
    <2> QED BY <1>2, <2>1 DEF OneDownloads
  <1>6. TitleIsKept'
    <2>1. ASSUME NEW e \in BookTasks, Stores(book'[e]), ~book'[e].changed
          PROVE  title \in {NoTitle, book'[e].branch}
      BY <1>1, <1>3, <2>1 DEF TidyInv, TitleIsKept, TidyRecord
    <2> QED BY <1>2, <2>1 DEF TitleIsKept
  <1>7. TitleIsChanged'
    <2>1. ASSUME NEW e \in BookTasks, Stores(book'[e]), book'[e].changed, ~book'[e].failed
          PROVE  /\ \A c \in Chapters \ book'[e].wants : chapterRows[c] = <<>>
                 /\ \A c \in book'[e].wants \ Ahead(book'[e]) : RowFits(c, book'[e].branch)
                 /\ title = book'[e].branch \/ book'[e].wants \subseteq Ahead(book'[e])
      <3>1. CASE e = d
        BY <1>1, <2>1, <3>1 DEF TidyRecord
      <3>2. CASE e # d
        BY <1>1, <1>3, <2>1, <3>2 DEF TidyInv, TitleIsChanged
      <3> QED BY <3>1, <3>2
    <2> QED BY <1>2, <1>4, <2>1 DEF TitleIsChanged, Ahead
  <1>8. RowsFitTitle'
    <2>1. ASSUME \A e \in BookTasks : Stores(book'[e]) => ~book'[e].changed
          PROVE  \A c \in Chapters : RowFits(c, title)
      <3>1. Stores(r) => ~r.changed
        BY <1>1, <2>1
      <3>2. \A e \in BookTasks \ {d} : Writing(e) => ~book[e].changed
        BY <1>1, <1>3, <2>1
      <3> QED BY <3>1, <3>2 DEF TidyRecord
    <2> QED BY <1>2, <1>4, <2>1 DEF RowsFitTitle
  <1>9. FoundIsThere'
    <2>1. ASSUME NEW e \in BookTasks, Stores(book'[e]), book'[e].at = "fetched"
          PROVE  \A c \in book'[e].chapter : book'[e].found = Len(chapterRows[c])
      BY <1>1, <1>3, <2>1 DEF TidyInv, FoundIsThere, TidyRecord
    <2> QED BY <1>2, <2>1 DEF FoundIsThere
  <1> QED BY <1>5, <1>6, <1>7, <1>8, <1>9 DEF TidyInv

\* A step of one download that leaves title and rows alone.
QuietStep(d, r) ==
    /\ Writes(d, r) /\ UNCHANGED <<medium, title, chapterRows>>
    /\ upsets' \in 0..MaxUpsets /\ untidy' \in BOOLEAN /\ (~untidy' => ~untidy)

\* What the new record has to satisfy for the invariant to hold after the step.
LEMMA QuietKeeps ==
    ASSUME BooksInv, NEW d \in BookTasks, NEW r \in BookRecords, QuietStep(d, r),
           StagesInOrder(r), WholeSoFar(r), FoundStays(r),
           ~untidy' /\ medium = "text" => TidyRecord(d, r)
    PROVE  BooksInv'
  <1>1. BookTypes /\ NoTitleNoRows /\ Writes(d, r) /\ UNCHANGED <<medium, title, chapterRows>>
    BY DEF BooksInv, QuietStep
  <1>2. /\ book' \in [BookTasks -> BookRecords] /\ book'[d] = r
        /\ \A e \in BookTasks \ {d} : book'[e] = book[e]
    BY <1>1, OneBook
  <1>3. BookTypes'
    BY <1>1, <1>2 DEF BookTypes, QuietStep
  <1>4. NoTitleNoRows'
    BY <1>1 DEF NoTitleNoRows
  <1>5. ASSUME NEW e \in BookTasks PROVE /\ StagesInOrder(book'[e]) /\ WholeSoFar(book'[e])
                                            /\ FoundStays(book'[e])
    BY <1>2 DEF BooksInv
  <1>6. \A e \in BookTasks : StagesInOrder(book[e])' /\ WholeSoFar(book[e])' /\ FoundStays(book[e])'
    BY <1>1, <1>5 DEF StagesInOrder, WholeSoFar, FoundStays, Ahead, Has
  <1>7. ~untidy' /\ medium' = "text" => TidyInv'
    BY <1>1, TidyGoesOn DEF BooksInv, QuietStep
  <1> QED BY <1>3, <1>4, <1>6, <1>7 DEF BooksInv

\* A task that is not downloading needs little.
LEMMA IdleKeeps ==
    ASSUME BooksInv, NEW d \in BookTasks, NEW r \in BookRecords, QuietStep(d, r),
           r.at \in {"unasked", "queued", "completed", "failed"}, r.chapter = {}, r.todo = {},
           r.at = "queued" => r.branch \in Branches,
           \/ untidy'
           \/ ~Loads(book[d])
           \/ medium = "text" => \A c \in Chapters : RowFits(c, title)
    PROVE  BooksInv'
  <1>1. StagesInOrder(r) /\ WholeSoFar(r) /\ FoundStays(r)
    BY DEF StagesInOrder, WholeSoFar, FoundStays, Ahead
  <1>2. ~Loads(r) /\ ~Stores(r)
    BY DEF Loads, Stores
  <1>3. ASSUME ~untidy', medium = "text"
        PROVE  TidyRecord(d, r)
    <2>1. RowsFitTitle /\ untidy' \in BOOLEAN /\ ~untidy
      BY <1>3 DEF BooksInv, TidyInv, QuietStep
    <2>2. ASSUME \A e \in BookTasks \ {d} : Writing(e) => ~book[e].changed
          PROVE  \A c \in Chapters : RowFits(c, title)
      <3>1. CASE ~Loads(book[d])
        <4>1. ~Writing(d)
          BY <3>1, LoadsIs DEF Stores
        <4>2. \A e \in BookTasks : Writing(e) => ~book[e].changed
          BY <2>2, <4>1
        <4> QED BY <2>1, <4>2 DEF RowsFitTitle
      <3>2. CASE Loads(book[d])
        BY <1>3, <3>2
      <3> QED BY <3>1, <3>2
    <2> QED BY <1>2, <2>2 DEF TidyRecord
  <1> QED BY <1>1, <1>3, QuietKeeps

\* A request: a task that waits.
LEMMA BookAskedKeeps ==
    ASSUME BooksInv, NEW d \in BookTasks, NEW branch \in Branches, NEW sync \in BOOLEAN,
           Asks(d, branch, sync)
    PROVE  BooksInv'
  <1> DEFINE r == [Unasked EXCEPT !.at = "queued", !.branch = branch, !.sync = sync]
  <1>1. r \in BookRecords /\ r.at = "queued" /\ r.chapter = {} /\ r.todo = {} /\ r.branch = branch
    BY DEF Unasked, BookRecords
  <1>2. QuietStep(d, r) /\ ~Loads(book[d])
    BY DEF Asks, QuietStep, BooksInv, BookTypes, Loads
  <1> HIDE DEF r
  <1> QED BY <1>1, <1>2, IdleKeeps

\* A download ends, or starts again; only one that ends well leaves the title tidy.
LEMMA BookOverKeeps ==
    ASSUME BooksInv, NEW d \in BookTasks, NEW how \in {"completed", "failed"},
           Ends(d, how), UNCHANGED <<medium, title, chapterRows, upsets>>,
           \/ how = "failed"
           \/ ~untidy /\ medium = "text" => \A c \in Chapters : RowFits(c, title)
    PROVE  BooksInv'
  <1> DEFINE r == [Unasked EXCEPT !.at = how]
  <1>1. r \in BookRecords /\ r.at = how /\ r.chapter = {} /\ r.todo = {}
    BY DEF Unasked, BookRecords, NoTitle
  <1>2. QuietStep(d, r)
    BY DEF Ends, Writes, QuietStep, BooksInv, BookTypes
  <1>3. untidy' \/ (medium = "text" => \A c \in Chapters : RowFits(c, title))
    BY DEF Ends, BooksInv, BookTypes
  <1> HIDE DEF r
  <1> QED BY <1>1, <1>2, <1>3, IdleKeeps

\* A worker dies: the task is queued again, or it is over.
LEMMA BookKilledKeeps ==
    ASSUME BooksInv, BooksAssumption, NEW d \in BookTasks, BookIsKilled(d)
    PROVE  BooksInv'
  <1> DEFINE r == [Unasked EXCEPT !.at = "queued", !.branch = book[d].branch,
                                  !.sync = book[d].sync, !.revoked = book[d].revoked]
             over == [Unasked EXCEPT !.at = "failed"]
  <1>1. book[d] \in BookRecords
    BY DEF BooksInv, BookTypes
  <1>0. over \in BookRecords /\ over.at = "failed" /\ over.chapter = {} /\ over.todo = {}
    BY DEF Unasked, BookRecords, NoTitle
  <1>2. r \in BookRecords /\ r.at = "queued" /\ r.chapter = {} /\ r.todo = {}
        /\ r.branch = book[d].branch
    BY ZenonT(60), <1>1, BookFields DEF Unasked, BookRecords
  <1>3. book[d].branch \in Branches
    BY DEF BookIsKilled, Downloading, BooksInv, StagesInOrder
  <1>4. (QuietStep(d, r) \/ QuietStep(d, over)) /\ untidy'
    <2>1. upsets' \in 0..MaxUpsets /\ UNCHANGED <<medium, title, chapterRows>>
      BY DEF BookIsKilled, Upset, BooksInv, BookTypes, BooksAssumption
    <2>2. CASE Ends(d, "failed")
      BY <2>1, <2>2 DEF Ends, Writes, QuietStep
    <2>3. CASE Writes(d, r) /\ untidy' = TRUE
      BY <2>1, <2>3 DEF QuietStep
    <2> QED BY <2>2, <2>3 DEF BookIsKilled
  <1> HIDE DEF r, over
  <1> QED BY <1>0, <1>2, <1>3, <1>4, IdleKeeps

\* A record that only its flag of a cancel tells from the old one.
LEMMA BookCancelKeeps ==
    ASSUME BooksInv, BooksAssumption, NEW d \in BookTasks, cancel_task(d)
    PROVE  BooksInv'
  <1> DEFINE r == [book[d] EXCEPT !.revoked = TRUE]
  <1>1. book[d] \in BookRecords
    BY DEF BooksInv, BookTypes
  <1>2. /\ r \in BookRecords /\ r.at = book[d].at /\ r.branch = book[d].branch
        /\ r.changed = book[d].changed /\ r.todo = book[d].todo /\ r.wants = book[d].wants
        /\ r.chapter = book[d].chapter /\ r.found = book[d].found
        /\ r.failed = book[d].failed /\ r.deleted = book[d].deleted
    BY <1>1 DEF BookRecords
  <1>3. QuietStep(d, r)
    BY DEF cancel_task, Upset, QuietStep, BooksInv, BookTypes, BooksAssumption
  <1>4. StagesInOrder(r) /\ WholeSoFar(r) /\ FoundStays(r)
    <2>1. StagesInOrder(book[d]) /\ WholeSoFar(book[d]) /\ FoundStays(book[d])
      BY DEF BooksInv
    <2> HIDE DEF r
    <2> QED BY <1>2, <2>1 DEF StagesInOrder, WholeSoFar, FoundStays, Ahead
  <1>5. ASSUME ~untidy', medium = "text" PROVE TidyRecord(d, r)
    <2>1. TidyInv
      BY <1>5 DEF cancel_task, BooksInv
    <2>2. /\ (Loads(r) <=> Loads(book[d])) /\ (Stores(r) <=> Writing(d))
          /\ Ahead(r) = Ahead(book[d])
      BY <1>2, LoadsIs DEF Loads, Stores, Ahead
    <2> HIDE DEF r
    <2>3. Stores(r) /\ ~r.changed => title \in {NoTitle, r.branch}
      BY <1>2, <2>1, <2>2 DEF TidyInv, TitleIsKept
    <2>4. Stores(r) /\ r.changed /\ ~r.failed =>
             /\ \A c \in Chapters \ r.wants : chapterRows[c] = <<>>
             /\ \A c \in r.wants \ Ahead(r) : RowFits(c, r.branch)
             /\ title = r.branch \/ r.wants \subseteq Ahead(r)
      BY <1>2, <2>1, <2>2 DEF TidyInv, TitleIsChanged
    <2>5. (Stores(r) => ~r.changed) /\ (\A e \in BookTasks \ {d} : Writing(e) => ~book[e].changed)
             => \A c \in Chapters : RowFits(c, title)
      BY <1>2, <2>1, <2>2 DEF TidyInv, RowsFitTitle
    <2>6. Stores(r) /\ r.at = "fetched" => \A c \in r.chapter : r.found = Len(chapterRows[c])
      BY <1>2, <2>1, <2>2 DEF TidyInv, FoundIsThere
    <2> QED BY <2>2, <2>3, <2>4, <2>5, <2>6 DEF TidyRecord
  <1> HIDE DEF r
  <1> QED BY <1>2, <1>3, <1>4, <1>5, QuietKeeps

\* A download that goes on with the same branch and the same chapters to bring.
LEMMA GoesOn ==
    ASSUME BooksInv, NEW d \in BookTasks, NEW r \in BookRecords, QuietStep(d, r),
           Loads(book[d]), Loads(r), r.branch = book[d].branch, r.changed = book[d].changed,
           r.wants = book[d].wants, r.deleted = book[d].deleted,
           StagesInOrder(r), WholeSoFar(r), FoundStays(r),
           medium = "text" => \/ r.failed \/ ~r.changed
                              \/ Ahead(r) = Ahead(book[d]) /\ ~book[d].failed,
           r.at = "fetched" => \A c \in r.chapter : r.found = Len(chapterRows[c])
    PROVE  BooksInv'
  <1>1. ASSUME ~untidy', medium = "text" PROVE TidyRecord(d, r)
    <2>1. TidyInv
      BY <1>1 DEF QuietStep, BooksInv
    <2>2. Stores(r) <=> Writing(d)
      BY LoadsIs DEF Stores
    <2>3. Stores(r) /\ ~r.changed => title \in {NoTitle, r.branch}
      BY <2>1, <2>2 DEF TidyInv, TitleIsKept
    <2>4. Stores(r) /\ r.changed /\ ~r.failed =>
             /\ \A c \in Chapters \ r.wants : chapterRows[c] = <<>>
             /\ \A c \in r.wants \ Ahead(r) : RowFits(c, r.branch)
             /\ title = r.branch \/ r.wants \subseteq Ahead(r)
      BY <1>1, <2>1, <2>2 DEF TidyInv, TitleIsChanged
    <2>5. (Stores(r) => ~r.changed) /\ (\A e \in BookTasks \ {d} : Writing(e) => ~book[e].changed)
             => \A c \in Chapters : RowFits(c, title)
      BY <2>1, <2>2 DEF TidyInv, RowsFitTitle
    <2>6. Stores(r) /\ r.at = "fetched" => \A c \in r.chapter : r.found = Len(chapterRows[c])
      BY <2>1, <2>2 DEF TidyInv, FoundIsThere
    <2> QED BY <2>3, <2>4, <2>5, <2>6 DEF TidyRecord
  <1> QED BY <1>1, QuietKeeps

\* The title is inserted.
LEMMA TitleInsertKeeps ==
    ASSUME BooksInv, NEW d \in BookTasks, InsertsTitle(d)
    PROVE  BooksInv'
  <1>1. CASE title # NoTitle
    BY <1>1, BookOverKeeps DEF InsertsTitle, Quiet
  <1>2. CASE title = NoTitle
    <2> DEFINE r == [book[d] EXCEPT !.at = "chapters", !.inserts = TRUE]
    <2>1. book[d] \in BookRecords /\ book[d].at = "inserting"
      BY DEF BooksInv, BookTypes, InsertsTitle
    <2>2. /\ r \in BookRecords /\ r.at = "chapters" /\ r.branch = book[d].branch
          /\ r.changed = book[d].changed /\ r.todo = book[d].todo /\ r.wants = book[d].wants
          /\ r.chapter = book[d].chapter /\ r.found = book[d].found
          /\ r.failed = book[d].failed /\ r.deleted = book[d].deleted
      BY <2>1 DEF BookRecords
    <2>3. QuietStep(d, r)
      BY <1>2 DEF InsertsTitle, Quiet, QuietStep, BooksInv, BookTypes
    <2> HIDE DEF r
    <2>4. StagesInOrder(book[d]) /\ WholeSoFar(book[d])
      BY DEF BooksInv
    <2>5. Ahead(r) = Ahead(book[d]) /\ Ahead(r) = r.wants /\ Loads(r) /\ Loads(book[d])
      BY <2>1, <2>2, <2>4 DEF Ahead, Loads, StagesInOrder
    <2>6. StagesInOrder(r) /\ WholeSoFar(r) /\ FoundStays(r)
      BY <2>1, <2>2, <2>4, <2>5 DEF StagesInOrder, WholeSoFar, FoundStays
    <2>7. r.failed \/ ~book[d].failed
      BY <2>1, <2>2, BookFields
    <2> QED BY <2>2, <2>3, <2>5, <2>6, <2>7, GoesOn
  <1> QED BY <1>1, <1>2

\* A chapter that is kept has a row.
LEMMA ChapterKeptKeeps ==
    ASSUME BooksInv, NEW d \in BookTasks, NEW c \in Chapters, KeepsChapter(d, c)
    PROVE  BooksInv'
  <1> DEFINE r == [book[d] EXCEPT !.todo = @ \ {c}]
  <1>1. book[d] \in BookRecords /\ book[d].at = "chapters"
    BY DEF BooksInv, BookTypes, KeepsChapter, TakesChapter
  <1>2. /\ r \in BookRecords /\ r.at = "chapters" /\ r.branch = book[d].branch
        /\ r.changed = book[d].changed /\ r.todo = book[d].todo \ {c}
        /\ r.wants = book[d].wants /\ r.chapter = book[d].chapter /\ r.found = book[d].found
        /\ r.failed = book[d].failed /\ r.deleted = book[d].deleted
    BY <1>1 DEF BookRecords
  <1>3. QuietStep(d, r)
    BY DEF KeepsChapter, Quiet, QuietStep, BooksInv, BookTypes
  <1> HIDE DEF r
  <1>4. StagesInOrder(book[d]) /\ WholeSoFar(book[d])
    BY DEF BooksInv
  <1>5. Has(c) /\ (medium = "anime" \/ ~book[d].changed) /\ Loads(r) /\ Loads(book[d])
    BY <1>1, <1>2 DEF KeepsChapter, Kept, Loads
  <1>6. StagesInOrder(r) /\ FoundStays(r)
    BY <1>1, <1>2, <1>4 DEF StagesInOrder, FoundStays, Ahead
  <1>7. WholeSoFar(r)
    BY <1>1, <1>2, <1>4, <1>5 DEF WholeSoFar, Ahead
  <1> QED BY <1>2, <1>3, <1>5, <1>6, <1>7, GoesOn

\* A chapter that is fetched is ahead until it is saved.
LEMMA ChapterFetchKeeps ==
    ASSUME BooksInv, NEW d \in BookTasks, NEW c \in Chapters, FetchesChapter(d, c)
    PROVE  BooksInv'
  <1> DEFINE r == [book[d] EXCEPT !.at = "fetched", !.todo = @ \ {c}, !.chapter = {c},
                                  !.found = Len(chapterRows[c])]
  <1>1. /\ book[d] \in BookRecords /\ book[d].at = "chapters" /\ c \in book[d].todo
        /\ Len(chapterRows[c]) \in Nat
    BY DEF BooksInv, BookTypes, FetchesChapter, TakesChapter
  <1>2. /\ r \in BookRecords /\ r.at = "fetched" /\ r.branch = book[d].branch
        /\ r.changed = book[d].changed /\ r.todo = book[d].todo \ {c}
        /\ r.wants = book[d].wants /\ r.chapter = {c} /\ r.found = Len(chapterRows[c])
        /\ r.failed = book[d].failed /\ r.deleted = book[d].deleted
    BY <1>1 DEF BookRecords
  <1>3. QuietStep(d, r)
    BY DEF FetchesChapter, Quiet, QuietStep, BooksInv, BookTypes
  <1> HIDE DEF r
  <1>4. StagesInOrder(book[d]) /\ WholeSoFar(book[d])
    BY DEF BooksInv
  <1>5. Loads(r) /\ Loads(book[d]) /\ Ahead(r) = Ahead(book[d])
    BY <1>1, <1>2, <1>4 DEF Loads, Ahead, StagesInOrder
  <1>6. StagesInOrder(r) /\ FoundStays(r)
    BY <1>1, <1>2, <1>4, <1>5 DEF StagesInOrder, FoundStays
  <1>7. WholeSoFar(r)
    BY <1>1, <1>2, <1>4, <1>5 DEF WholeSoFar
  <1>8. \A b \in r.chapter : r.found = Len(chapterRows[b])
    BY <1>2
  <1>9. r.failed \/ ~book[d].failed
    BY <1>1, <1>2, BookFields
  <1> QED BY <1>2, <1>3, <1>5, <1>6, <1>7, <1>8, <1>9, GoesOn

\* A chapter that failed fails its download, where the medium is text.
LEMMA ChapterFailsKeeps ==
    ASSUME BooksInv, NEW d \in BookTasks, ChapterFails(d)
    PROVE  BooksInv'
  <1> DEFINE r == [book[d] EXCEPT !.at = "chapters", !.chapter = {},
                                  !.failed = @ \/ medium = "text"]
  <1>1. book[d] \in BookRecords /\ book[d].at = "fetched"
    BY DEF BooksInv, BookTypes, ChapterFails
  <1>2. /\ r \in BookRecords /\ r.at = "chapters" /\ r.branch = book[d].branch
        /\ r.changed = book[d].changed /\ r.todo = book[d].todo
        /\ r.wants = book[d].wants /\ r.chapter = {}
        /\ r.failed = (book[d].failed \/ medium = "text") /\ r.deleted = book[d].deleted
    BY <1>1 DEF BookRecords
  <1>3. QuietStep(d, r)
    BY DEF ChapterFails, Quiet, QuietStep, BooksInv, BookTypes
  <1> HIDE DEF r
  <1>4. StagesInOrder(book[d])
    BY DEF BooksInv
  <1>5. Loads(r) /\ Loads(book[d])
    BY <1>1, <1>2 DEF Loads
  <1>6. StagesInOrder(r) /\ FoundStays(r)
    BY <1>1, <1>2, <1>4 DEF StagesInOrder, FoundStays, Ahead
  <1>7. WholeSoFar(r)
    BY <1>2 DEF WholeSoFar
  <1> QED BY <1>2, <1>3, <1>5, <1>6, <1>7, GoesOn

\* A download starts: what it is to bring is ahead of it.
LEMMA BookStartsKeeps ==
    ASSUME BooksInv, BooksAssumption, NEW d \in BookTasks, NEW listed \in SUBSET Chapters,
           StartsBook(d, listed)
    PROVE  BooksInv'
  <1> DEFINE missing == IF book[d].sync THEN {c \in listed : ~Has(c)} ELSE listed
             at == IF title = NoTitle THEN "inserting" ELSE "chapters"
             changed == title # NoTitle /\ title # book[d].branch
             r == [book[d] EXCEPT !.at = at, !.todo = missing, !.wants = missing,
                                  !.had = {c \in Chapters : Has(c)}, !.changed = changed]
  <1>1. book[d] \in BookRecords /\ book[d].at = "queued" /\ title \in Branches \cup {NoTitle}
    BY DEF BooksInv, BookTypes, StartsBook
  <1>2. missing \subseteq Chapters /\ changed \in BOOLEAN
    OBVIOUS
  <1>3. /\ r \in BookRecords /\ r.at = at /\ r.branch = book[d].branch /\ r.changed = changed
        /\ r.todo = missing /\ r.wants = missing /\ r.chapter = book[d].chapter
    BY <1>1, <1>2 DEF BookRecords
  <1>4. QuietStep(d, r)
    <2>1. Writes(d, r) /\ Quiet(d) /\ untidy' \in BOOLEAN /\ (~untidy' => ~untidy)
      BY DEF StartsBook
    <2> QED BY <2>1 DEF Quiet, QuietStep, BooksInv, BookTypes
  <1>5. ~untidy' => /\ \A e \in BookTasks \ {d} : ~Downloading(e)
                    /\ changed => \A c \in Chapters \ missing : ~Has(c)
    BY DEF StartsBook
  <1>6. book[d].branch \in Branches /\ book[d].chapter = {}
    BY <1>1 DEF BooksInv, StagesInOrder
  <1>7. at \in {"inserting", "chapters"}
    OBVIOUS
  <1> HIDE DEF r, missing, at
  <1>8. Ahead(r) = r.wants
    BY <1>3, <1>6 DEF Ahead
  <1>9. StagesInOrder(r) /\ WholeSoFar(r) /\ FoundStays(r)
    BY <1>3, <1>6, <1>7, <1>8 DEF StagesInOrder, WholeSoFar, FoundStays
  <1>10. ASSUME ~untidy', medium = "text" PROVE TidyRecord(d, r)
    <2>1. TidyInv /\ ~Writing(d)
      BY <1>1, <1>4, <1>10 DEF QuietStep, BooksInv, Writing, Downloading
    <2>2. Stores(r) /\ ~r.changed => title \in {NoTitle, r.branch}
      BY <1>3
    <2>3. r.changed => \A c \in Chapters \ r.wants : chapterRows[c] = <<>>
      BY <1>3, <1>5, <1>10 DEF Has
    <2>4. (\A e \in BookTasks \ {d} : Writing(e) => ~book[e].changed) =>
             \A c \in Chapters : RowFits(c, title)
      BY <2>1 DEF TidyInv, RowsFitTitle
    <2>5. r.at # "fetched"
      BY <1>3, <1>7
    <2> QED BY <1>5, <1>8, <1>10, <2>2, <2>3, <2>4, <2>5 DEF TidyRecord
  <1> QED BY <1>3, <1>4, <1>9, <1>10, QuietKeeps

\* The title goes, with its rows.
LEMMA TitleGoesKeeps ==
    ASSUME BooksInv, BooksAssumption, delete_media
    PROVE  BooksInv'
  <1>1. /\ title' = NoTitle /\ chapterRows' = [c \in Chapters |-> <<>>] /\ medium' = medium
        /\ book' = [d \in BookTasks |-> [book[d] EXCEPT !.deleted = @ \/ Downloading(d)]]
        /\ untidy' = untidy /\ upsets' \in 0..MaxUpsets
    BY DEF delete_media, Upset, BooksInv, BookTypes, BooksAssumption
  <1>2. \A d \in BookTasks : book[d] \in BookRecords
    BY DEF BooksInv, BookTypes
  <1>3. ASSUME NEW d \in BookTasks
        PROVE  /\ book'[d] \in BookRecords /\ book'[d].at = book[d].at
               /\ book'[d].branch = book[d].branch /\ book'[d].todo = book[d].todo
               /\ book'[d].wants = book[d].wants /\ book'[d].chapter = book[d].chapter
               /\ (Loads(book'[d]) => book'[d].deleted)
               /\ (Downloading(d)' <=> Downloading(d)) /\ ~Writing(d)'
    <2>1. book[d] \in BookRecords /\ book'[d] = [book[d] EXCEPT !.deleted = @ \/ Downloading(d)]
      BY <1>1, <1>2
    <2>2. /\ book'[d] \in BookRecords /\ book'[d].at = book[d].at
          /\ book'[d].branch = book[d].branch /\ book'[d].todo = book[d].todo
          /\ book'[d].wants = book[d].wants /\ book'[d].chapter = book[d].chapter
          /\ book'[d].deleted = (book[d].deleted \/ Downloading(d))
      BY <2>1 DEF BookRecords, Downloading
    <2>3. (Downloading(d)' <=> Downloading(d)) /\ (Loads(book'[d]) <=> Downloading(d))
      BY <2>2 DEF Downloading, Loads
    <2> QED BY <2>2, <2>3 DEF Writing
  <1>4. BookTypes'
    <2>1. book' \in [BookTasks -> BookRecords]
      BY <1>1, <1>3
    <2>2. \A c \in Chapters : Len(chapterRows'[c]) <= 2
      BY <1>1
    <2>3. chapterRows' \in [Chapters -> Seq(ChapterTexts)]
      BY <1>1
    <2> QED BY <1>1, <2>1, <2>2, <2>3 DEF BooksInv, BookTypes
  <1>5. NoTitleNoRows'
    BY <1>1 DEF NoTitleNoRows
  <1>6. ASSUME NEW d \in BookTasks
        PROVE  StagesInOrder(book[d])' /\ WholeSoFar(book[d])' /\ FoundStays(book[d])'
    BY <1>3 DEF BooksInv, StagesInOrder, WholeSoFar, FoundStays, Ahead, Loads
  <1>7. ~untidy' /\ medium' = "text" => TidyInv'
    <2>1. SUFFICES ASSUME TidyInv PROVE TidyInv'
      BY <1>1 DEF BooksInv
    <2>2. OneDownloads'
      BY <1>3, <2>1 DEF TidyInv, OneDownloads
    <2>3. TitleIsKept' /\ TitleIsChanged' /\ FoundIsThere'
      BY <1>3 DEF TitleIsKept, TitleIsChanged, FoundIsThere
    <2>4. RowsFitTitle'
      BY <1>1 DEF RowsFitTitle, RowFits
    <2> QED BY <2>2, <2>3, <2>4 DEF TidyInv
  <1> QED BY <1>4, <1>5, <1>6, <1>7 DEF BooksInv

\* What a title has when the last chapter of an undisturbed download is through.
LEMMA RowsAtTheEnd ==
    ASSUME BooksInv, NEW d \in BookTasks, book[d].at = "chapters", book[d].todo = {},
           ~book[d].failed, ~untidy, medium = "text"
    PROVE  /\ \A c \in Chapters : RowFits(c, title)
           /\ ~book[d].deleted => \A c \in book[d].wants : RowFits(c, book[d].branch)
  <1>1. TidyInv /\ NoTitleNoRows
    BY DEF BooksInv
  <1>2. book[d].wants \ Ahead(book[d]) = book[d].wants /\ Ahead(book[d]) = {}
    BY DEF BooksInv, StagesInOrder, Ahead
  <1>3. Downloading(d) /\ book[d] \in BookRecords
    BY DEF Downloading, BooksInv, BookTypes
  <1>4. \A e \in BookTasks \ {d} : ~Writing(e)
    BY <1>1, <1>3 DEF TidyInv, OneDownloads, Writing
  <1>5. \A c, b : chapterRows[c] = <<>> => RowFits(c, b)
    BY DEF RowFits
  <1>6. CASE Writing(d) /\ book[d].changed
    <2>1. /\ \A c \in Chapters \ book[d].wants : chapterRows[c] = <<>>
          /\ \A c \in book[d].wants : RowFits(c, book[d].branch)
          /\ title = book[d].branch \/ book[d].wants = {}
      BY <1>1, <1>2, <1>6 DEF TidyInv, TitleIsChanged
    <2> QED BY <1>5, <2>1
  <1>7. CASE ~(Writing(d) /\ book[d].changed)
    <2>1. \A c \in Chapters : RowFits(c, title)
      BY <1>1, <1>4, <1>7 DEF TidyInv, RowsFitTitle
    <2>2. ~book[d].deleted => title \in {NoTitle, book[d].branch}
      BY <1>1, <1>3, <1>7 DEF Writing, TidyInv, TitleIsKept
    <2>3. book[d].wants \subseteq Chapters
      BY <1>3, BookFields
    <2> QED BY <1>1, <1>5, <2>1, <2>2, <2>3 DEF NoTitleNoRows
  <1> QED BY <1>6, <1>7

\* A download finishes.
LEMMA BookEndsKeeps ==
    ASSUME BooksInv, NEW d \in BookTasks, FinishesBook(d)
    PROVE  BooksInv'
  <1>1. CASE book[d].failed
    BY <1>1, BookOverKeeps DEF FinishesBook, Quiet
  <1>2. CASE ~book[d].failed
    <2>1. ~untidy /\ medium = "text" => \A c \in Chapters : RowFits(c, title)
      BY <1>2, RowsAtTheEnd DEF FinishesBook
    <2> QED BY <1>2, <2>1, BookOverKeeps DEF FinishesBook, Quiet
  <1> QED BY <1>1, <1>2

\* The rows a chapter has when it is saved.
RowsWith(rows, found, text) == IF found = 0 THEN Append(rows, text) ELSE <<text>> \o Tail(rows)

LEMMA RowsWithIs ==
    ASSUME NEW rows \in Seq(ChapterTexts), NEW found \in Nat, NEW text \in ChapterTexts,
           found < 2, found <= Len(rows), Len(rows) < 2
    PROVE  /\ RowsWith(rows, found, text) \in Seq(ChapterTexts)
           /\ RowsWith(rows, found, text) # <<>>
           /\ Len(RowsWith(rows, found, text)) <= 2
           /\ Len(rows) <= Len(RowsWith(rows, found, text))
           /\ found = Len(rows) => RowsWith(rows, found, text) = <<text>>
  <1>0. Len(rows) \in Nat
    OBVIOUS
  <1>1. CASE found = 0
    <2>1. /\ Append(rows, text) \in Seq(ChapterTexts) /\ Len(Append(rows, text)) = Len(rows) + 1
          /\ Append(rows, text) # <<>>
      BY <1>0
    <2>2. Len(rows) = 0 => Append(rows, text) = <<text>>
      OBVIOUS
    <2>3. RowsWith(rows, found, text) = Append(rows, text)
      BY <1>1 DEF RowsWith
    <2>4. \A n, m \in Nat : n < 2 /\ m = n + 1 => n <= m /\ m <= 2
      OBVIOUS
    <2>5. Len(Append(rows, text)) \in Nat
      BY <2>1
    <2>6. Len(rows) <= Len(Append(rows, text)) /\ Len(Append(rows, text)) <= 2
      BY <1>0, <2>1, <2>4, <2>5
    <2> QED BY <1>0, <1>1, <2>1, <2>2, <2>3, <2>6
  <1>2. CASE found # 0
    <2>1. Len(rows) = 1
      <3>1. \A n, f \in Nat : f <= n /\ n < 2 /\ f # 0 => n = 1
        OBVIOUS
      <3> QED BY <1>0, <1>2, <3>1
    <2>2. PICK x \in ChapterTexts : rows = <<x>>
      <3>1. rows[1] \in ChapterTexts
        <4>1. \A i \in 1..Len(rows) : rows[i] \in ChapterTexts
          OBVIOUS
        <4>2. 1 \in 1..Len(rows)
          BY <2>1
        <4> QED BY <4>1, <4>2
      <3>2. rows = <<rows[1]>>
        BY <2>1
      <3> QED BY <3>1, <3>2
    <2>3. RowsWith(rows, found, text) = <<text>>
      BY <1>2, <2>2 DEF RowsWith
    <2> QED BY <2>1, <2>3
  <1> QED BY <1>1, <1>2

\* A chapter is saved: it has a row of the branch, and so has the title its name.
LEMMA ChapterSavedKeeps ==
    ASSUME BooksInv, BranchesAssumption, NEW d \in BookTasks, NEW c \in Chapters,
           NEW text \in {book[d].branch} \cup IF medium = "text" THEN {"empty"} ELSE {},
           SavesChapter(d, c, text)
    PROVE  BooksInv'
  <1> DEFINE r == [book[d] EXCEPT !.at = "chapters", !.inserts = FALSE, !.chapter = {}]
             rows == RowsWith(chapterRows[c], book[d].found, text)
  <1>1. /\ book[d] \in BookRecords /\ book[d].at = "fetched" /\ book[d].chapter = {c}
        /\ book[d].found < 2 /\ ~book[d].deleted /\ Len(chapterRows[c]) < 2
        /\ title # NoTitle \/ book[d].inserts
        /\ medium' = medium /\ untidy' = untidy /\ upsets' = upsets /\ Writes(d, r)
        /\ title' = IF book[d].changed \/ book[d].inserts THEN book[d].branch ELSE title
    BY DEF SavesChapter, BooksInv, BookTypes
  <1>2. /\ book[d].branch \in Branches /\ book[d].found <= Len(chapterRows[c])
        /\ book[d].chapter \cap book[d].todo = {} /\ Ahead(book[d]) \subseteq book[d].wants
    BY <1>1 DEF BooksInv, StagesInOrder, FoundStays
  <1>3. /\ r \in BookRecords /\ r.at = "chapters" /\ r.branch = book[d].branch
        /\ r.changed = book[d].changed /\ r.todo = book[d].todo /\ r.wants = book[d].wants
        /\ r.chapter = {} /\ r.failed = book[d].failed /\ r.deleted = book[d].deleted
    BY <1>1 DEF BookRecords
  <1>4. BookTypes /\ chapterRows \in [Chapters -> Seq(ChapterTexts)]
    BY DEF BooksInv, BookTypes
  <1>5. text \in ChapterTexts /\ text \in {book[d].branch, "empty"} /\ book[d].found \in Nat
    BY <1>1, <1>2, BookFields DEF ChapterTexts
  <1>6. /\ chapterRows' = [chapterRows EXCEPT ![c] = rows]
        /\ chapterRows' \in [Chapters -> Seq(ChapterTexts)]
        /\ chapterRows'[c] = rows
        /\ \A k \in Chapters \ {c} : chapterRows'[k] = chapterRows[k]
        /\ rows # <<>> /\ Len(rows) <= 2 /\ Len(chapterRows[c]) <= Len(rows)
        /\ book[d].found = Len(chapterRows[c]) => rows = <<text>>
    <2>1. chapterRows' = [chapterRows EXCEPT ![c] = rows]
      BY DEF SavesChapter, RowsWith
    <2>2. chapterRows[c] \in Seq(ChapterTexts)
      BY <1>4
    <2>3. /\ rows \in Seq(ChapterTexts) /\ rows # <<>> /\ Len(rows) <= 2
          /\ Len(chapterRows[c]) <= Len(rows)
          /\ book[d].found = Len(chapterRows[c]) => rows = <<text>>
      BY <1>1, <1>2, <1>5, <2>2, RowsWithIs
    <2> HIDE DEF rows
    <2> QED BY <1>4, <2>1, <2>3
  <1> HIDE DEF r, rows
  <1>7. /\ book' \in [BookTasks -> BookRecords] /\ book'[d] = r
        /\ \A e \in BookTasks \ {d} : book'[e] = book[e]
    BY <1>1, <1>3, <1>4, OneBook
  <1>8. title' # NoTitle /\ title' \in Branches
    BY <1>1, <1>2, <1>4 DEF BranchesAssumption, BookTypes
  <1>9. Ahead(r) = Ahead(book[d]) \ {c} /\ c \in Ahead(book[d])
    BY <1>1, <1>2, <1>3 DEF Ahead
  <1>10. BookTypes'
    <2>1. \A k \in Chapters : Len(chapterRows'[k]) <= 2
      BY <1>4, <1>6 DEF BookTypes
    <2> QED BY <1>1, <1>4, <1>6, <1>7, <1>8, <2>1 DEF BookTypes
  <1>11. NoTitleNoRows'
    BY <1>8 DEF NoTitleNoRows
  <1>12. ASSUME NEW e \in BookTasks
         PROVE  StagesInOrder(book[e])' /\ WholeSoFar(book[e])' /\ FoundStays(book[e])'
    <2>1. StagesInOrder(book[e]) /\ WholeSoFar(book[e]) /\ FoundStays(book[e])
      BY DEF BooksInv
    <2>2. CASE e = d
      <3>1. StagesInOrder(book[e])'
        BY <1>2, <1>3, <1>7, <1>9, <2>2 DEF StagesInOrder, Ahead
      <3>2. FoundStays(book[e])'
        BY <1>3, <1>7, <2>2 DEF FoundStays
      <3>3. ASSUME medium = "text", ~r.failed, NEW k \in r.wants \ Ahead(r)
            PROVE  chapterRows'[k] # <<>>
        <4>1. k \in Chapters
          BY <1>3, BookFields
        <4>2. k # c => chapterRows[k] # <<>>
          BY <1>1, <1>3, <1>9, <2>1, <2>2, <3>3 DEF WholeSoFar, Has
        <4> QED BY <1>6, <4>1, <4>2
      <3>4. WholeSoFar(book[e])'
        BY <1>1, <1>7, <2>2, <3>3 DEF WholeSoFar, Has, Ahead
      <3> QED BY <3>1, <3>2, <3>4
    <2>3. CASE e # d
      <3>1. book'[e] = book[e] /\ book[e] \in BookRecords
        BY <1>4, <1>7, <2>3 DEF BookTypes
      <3>2. \A k \in Chapters : /\ chapterRows[k] # <<>> => chapterRows'[k] # <<>>
                                /\ \A n \in Nat : n <= Len(chapterRows[k]) =>
                                                     n <= Len(chapterRows'[k])
        BY <1>4, <1>6
      <3>3. book[e].wants \subseteq Chapters /\ book[e].chapter \subseteq Chapters
            /\ book[e].found \in Nat
        BY <3>1, BookFields
      <3> QED BY <1>1, <2>1, <3>1, <3>2, <3>3 DEF StagesInOrder, WholeSoFar, FoundStays, Has, Ahead
    <2> QED BY <2>2, <2>3
  <1>13. ASSUME ~untidy, medium = "text", TidyInv PROVE TidyInv'
    <2>1. Downloading(d) /\ Writing(d) /\ Downloading(d)' /\ Writing(d)'
      BY <1>1, <1>3, <1>7 DEF Downloading, Writing
    <2>2. \A e \in BookTasks \ {d} : ~Downloading(e) /\ ~Downloading(e)' /\ ~Writing(e)'
      BY <1>7, <1>13, <2>1 DEF TidyInv, OneDownloads, Downloading, Writing
    <2>3. rows = <<text>>
      BY <1>1, <1>6, <1>13, <2>1 DEF TidyInv, FoundIsThere
    <2> DEFINE Fits(k, b) == \A i \in DOMAIN chapterRows'[k] :
                                chapterRows'[k][i] \in {b, "empty"}
    <2>4. \A b : text \in {b, "empty"} => Fits(c, b)
      BY <1>6, <2>3
    <2>5. \A k \in Chapters \ {c} : \A b : RowFits(k, b) => Fits(k, b)
      BY <1>6 DEF RowFits
    <2>6. OneDownloads'
      BY <2>2 DEF OneDownloads
    <2>7. book[d].changed \/ title \in {NoTitle, book[d].branch}
      BY <1>13, <2>1 DEF TidyInv, TitleIsKept
    <2>8. TitleIsKept'
      BY <1>1, <1>3, <1>7, <2>2, <2>7 DEF TitleIsKept
    <2>9. TitleIsChanged'
      <3>1. ASSUME r.changed, ~r.failed
            PROVE  /\ \A k \in Chapters \ r.wants : chapterRows'[k] = <<>>
                   /\ \A k \in r.wants \ Ahead(r) : Fits(k, r.branch)
                   /\ title' = r.branch
        <4>1. /\ \A k \in Chapters \ book[d].wants : chapterRows[k] = <<>>
              /\ \A k \in book[d].wants \ Ahead(book[d]) : RowFits(k, book[d].branch)
          BY <1>3, <1>13, <2>1, <3>1 DEF TidyInv, TitleIsChanged
        <4>2. \A k \in Chapters \ r.wants : chapterRows'[k] = <<>>
          BY <1>2, <1>3, <1>6, <1>9, <4>1
        <4>3. ASSUME NEW k \in r.wants \ Ahead(r) PROVE Fits(k, r.branch)
          <5>1. k \in Chapters
            BY <1>3, BookFields
          <5>2. CASE k = c
            BY <1>3, <1>5, <2>4, <5>2
          <5>3. CASE k # c
            <6>1. RowFits(k, r.branch)
              BY <1>3, <1>9, <4>1, <5>3
            <6> QED BY <2>5, <5>1, <5>3, <6>1
          <5> QED BY <5>2, <5>3
        <4> QED BY <1>1, <1>3, <3>1, <4>2, <4>3
      <3> QED BY <1>7, <2>2, <3>1 DEF TitleIsChanged, Ahead, RowFits
    <2>10. RowsFitTitle'
      <3>1. CASE book[d].changed
        BY <1>3, <1>7, <2>1, <3>1 DEF RowsFitTitle
      <3>2. CASE ~book[d].changed
        <4>1. \A k \in Chapters : RowFits(k, title)
          BY <1>13, <2>2, <3>2 DEF TidyInv, RowsFitTitle, Writing
        <4>2. title' = book[d].branch
          BY <1>1, <2>7, <3>2
        <4>3. title = NoTitle => \A k \in Chapters : chapterRows[k] = <<>>
          BY DEF BooksInv, NoTitleNoRows
        <4>4. ASSUME NEW k \in Chapters PROVE Fits(k, title')
          <5>1. CASE k = c
            BY <1>5, <2>4, <4>2, <5>1
          <5>2. CASE k # c
            <6>1. RowFits(k, title')
              BY <2>7, <3>2, <4>1, <4>2, <4>3 DEF RowFits
            <6> QED BY <2>5, <5>2, <6>1
          <5> QED BY <5>1, <5>2
        <4> QED BY <4>4 DEF RowsFitTitle, RowFits
      <3> QED BY <3>1, <3>2
    <2>11. FoundIsThere'
      BY <1>3, <1>7, <2>2 DEF FoundIsThere
    <2> QED BY <2>6, <2>8, <2>9, <2>10, <2>11 DEF TidyInv
  <1>14. ~untidy' /\ medium' = "text" => TidyInv'
    BY <1>1, <1>13 DEF BooksInv
  <1> QED BY <1>10, <1>11, <1>12, <1>14 DEF BooksInv

\* Every step keeps the invariant.
LEMMA StepKeepsBooks ==
    ASSUME BooksInv, BooksAssumption, BranchesAssumption, [BooksNext]_bookVars
    PROVE  BooksInv'
  <1>1. CASE UNCHANGED bookVars
    BY <1>1 DEF bookVars, BooksInv, BookTypes, NoTitleNoRows, StagesInOrder, WholeSoFar,
                FoundStays, Ahead, Has, TidyInv, OneDownloads, TitleIsKept, TitleIsChanged,
                RowsFitTitle, FoundIsThere, RowFits, Writing, Downloading
  <1>2. CASE delete_media
    BY <1>2, TitleGoesKeeps
  <1>3. ASSUME NEW d \in BookTasks,
               \/ trigger_download_book(d) \/ sync_media(d) \/ cancel_task(d)
               \/ SourceRefuses(d) \/ InsertsTitle(d) \/ NoticesCancel(d) \/ ChapterFails(d)
               \/ FinishesBook(d) \/ BookIsKilled(d)
               \/ \E listed \in SUBSET Chapters : StartsBook(d, listed)
               \/ \E c \in Chapters :
                     \/ KeepsChapter(d, c) \/ FetchesChapter(d, c)
                     \/ \E text \in {book[d].branch} \cup
                                    IF medium = "text" THEN {"empty"} ELSE {} :
                           SavesChapter(d, c, text)
        PROVE  BooksInv'
    <2>1. CASE trigger_download_book(d)
      BY <2>1, BookAskedKeeps DEF trigger_download_book
    <2>2. CASE sync_media(d)
      <3>1. title \in Branches
        BY <2>2 DEF sync_media, BooksInv, BookTypes
      <3> QED BY <2>2, <3>1, BookAskedKeeps DEF sync_media
    <2>3. CASE SourceRefuses(d)
      BY <2>3, BookOverKeeps DEF SourceRefuses, Quiet
    <2>4. CASE NoticesCancel(d)
      BY <2>4, BookOverKeeps DEF NoticesCancel, Quiet
    <2> QED BY <1>3, <2>1, <2>2, <2>3, <2>4, BookCancelKeeps, TitleInsertKeeps,
               ChapterFailsKeeps, BookEndsKeeps, BookKilledKeeps, BookStartsKeeps,
               ChapterKeptKeeps, ChapterFetchKeeps, ChapterSavedKeeps
  <1> QED BY <1>1, <1>2, <1>3 DEF BooksNext

\* The first state: no title.
LEMMA BooksStart ==
    ASSUME BooksInit, BooksAssumption
    PROVE  BooksInv
  <1>1. BookTypes
    <2>1. Unasked \in BookRecords
      BY UnaskedIs
    <2>2. book \in [BookTasks -> BookRecords]
      BY <2>1 DEF BooksInit
    <2>3. /\ chapterRows = [c \in Chapters |-> <<>>] /\ medium \in {"text", "anime"}
          /\ title = NoTitle /\ untidy = FALSE /\ upsets = 0
      BY DEF BooksInit
    <2>4. /\ chapterRows \in [Chapters -> Seq(ChapterTexts)]
          /\ \A c \in Chapters : Len(chapterRows[c]) <= 2
      BY <2>3
    <2>5. upsets \in 0..MaxUpsets
      BY <2>3 DEF BooksAssumption
    <2> QED BY <2>2, <2>3, <2>4, <2>5 DEF BookTypes
  <1>2. \A d \in BookTasks : book[d] = Unasked
    BY DEF BooksInit
  <1>3. NoTitleNoRows
    BY DEF BooksInit, NoTitleNoRows
  <1>4. StagesInOrder(Unasked) /\ WholeSoFar(Unasked) /\ FoundStays(Unasked)
    BY UnaskedIs DEF StagesInOrder, WholeSoFar, FoundStays, Ahead
  <1>5. TidyInv
    <2>1. \A d \in BookTasks : ~Downloading(d) /\ ~Writing(d)
      BY <1>2, UnaskedIs DEF Downloading, Writing
    <2>2. \A c \in Chapters : RowFits(c, title)
      BY DEF BooksInit, RowFits
    <2> QED BY <2>1, <2>2 DEF TidyInv, OneDownloads, TitleIsKept, TitleIsChanged, RowsFitTitle,
                              FoundIsThere, Writing
  <1> QED BY <1>1, <1>2, <1>3, <1>4, <1>5 DEF BooksInv

\* What a download that completes has brought.
LEMMA CompletesWhole ==
    ASSUME BooksInv, BooksNext, NEW e \in BookTasks, Completes(e), medium = "text",
           ~book[e].deleted, NEW c \in book[e].wants
    PROVE  /\ Has(c)
           /\ ~untidy => RowFits(c, book[e].branch)
  <1>1. book \in [BookTasks -> BookRecords]
    BY DEF BooksInv, BookTypes
  <1>2. ASSUME NEW d \in BookTasks, NEW r, Writes(d, r), r.at # "completed" PROVE FALSE
    BY <1>1, <1>2 DEF Writes, Completes
  <1>3. ASSUME NEW d \in BookTasks, Ends(d, "failed") PROVE FALSE
    <2>1. /\ Writes(d, [Unasked EXCEPT !.at = "failed"])
          /\ [Unasked EXCEPT !.at = "failed"].at = "failed"
      BY <1>3 DEF Ends, Writes, Unasked
    <2> QED BY <1>2, <2>1
  <1>4. ~delete_media
    <2>1. delete_media => book'[e].at = book[e].at
      BY <1>1 DEF delete_media, BookRecords
    <2> QED BY <2>1 DEF Completes
  <1>5. \A d \in BookTasks : ~trigger_download_book(d) /\ ~sync_media(d) /\ ~BookIsKilled(d)
    <2>1. \A d \in BookTasks : \A b, s : ~Asks(d, b, s)
      BY <1>2 DEF Asks, Unasked
    <2>2. \A d \in BookTasks : ~BookIsKilled(d)
      BY <1>2, <1>3 DEF BookIsKilled, Unasked
    <2> QED BY <2>1, <2>2 DEF trigger_download_book, sync_media
  <1>6. \A d \in BookTasks : ~SourceRefuses(d) /\ ~NoticesCancel(d)
    BY <1>3 DEF SourceRefuses, NoticesCancel
  <1>7. ASSUME NEW d \in BookTasks
        PROVE  /\ ~cancel_task(d) /\ ~InsertsTitle(d) /\ ~ChapterFails(d)
               /\ \A listed \in SUBSET Chapters : ~StartsBook(d, listed)
               /\ \A k \in Chapters : /\ ~KeepsChapter(d, k) /\ ~FetchesChapter(d, k)
                                      /\ \A text : ~SavesChapter(d, k, text)
    <2>1. book[d] \in BookRecords
      BY <1>1
    <2>2. ~cancel_task(d)
      BY <1>2, <2>1 DEF cancel_task, BookRecords
    <2>3. ~InsertsTitle(d)
      BY <1>2, <1>3, <2>1 DEF InsertsTitle, BookRecords
    <2>4. ~ChapterFails(d)
      BY <1>2, <2>1 DEF ChapterFails, BookRecords
    <2>5. \A listed \in SUBSET Chapters : ~StartsBook(d, listed)
      BY <1>2, <2>1 DEF StartsBook, BookRecords
    <2>6. \A k \in Chapters : ~KeepsChapter(d, k)
      BY <1>2, <2>1 DEF KeepsChapter, TakesChapter, BookRecords
    <2>7. \A k \in Chapters : ~FetchesChapter(d, k)
      BY <1>2, <2>1 DEF FetchesChapter, BookRecords
    <2>8. \A k \in Chapters : \A text : ~SavesChapter(d, k, text)
      BY <1>2, <2>1 DEF SavesChapter, BookRecords
    <2> QED BY <2>2, <2>3, <2>4, <2>5, <2>6, <2>7, <2>8
  <1>8. PICK d \in BookTasks : FinishesBook(d)
    BY <1>4, <1>5, <1>6, <1>7 DEF BooksNext
  <1>9. ~book[d].failed /\ Ends(d, "completed")
    BY <1>3, <1>8 DEF FinishesBook
  <1>10. d = e
    BY <1>1, <1>9 DEF Ends, Completes
  <1>11. /\ book[e].at = "chapters" /\ book[e].todo = {} /\ Ahead(book[e]) = {}
         /\ book[e].wants \subseteq Chapters
    <2>1. StagesInOrder(book[e]) /\ book[e].at = "chapters" /\ book[e].todo = {}
      BY <1>8, <1>10 DEF FinishesBook, BooksInv
    <2> QED BY <1>1, <2>1, BookFields DEF StagesInOrder, Ahead
  <1>12. Has(c)
    BY <1>9, <1>10, <1>11 DEF BooksInv, WholeSoFar
  <1>13. ~untidy => RowFits(c, book[e].branch)
    BY <1>9, <1>10, <1>11, RowsAtTheEnd
  <1> QED BY <1>12, <1>13

\* The invariant, of every behaviour.
LEMMA BooksInvHolds == BooksSpec => []BooksInv
  <1>1. BooksInit => BooksInv
    BY BooksStart, BooksAssumption
  <1>2. BooksInv /\ [BooksNext]_bookVars => BooksInv'
    BY StepKeepsBooks, BooksAssumption, BranchesAssumption
  <1> QED BY <1>1, <1>2, PTL DEF BooksSpec

\* The types the invariant gives.
LEMMA BookTypesAre == BooksInv => BooksTypeOK
  BY DEF BooksInv, BookTypes, BooksTypeOK, BookRecords

(* A title's rows and downloads have their types, whatever is asked, deleted, *)
(* cancelled or killed; a chapter has two rows at most.                       *)
THEOREM BooksAreTyped == BooksSpec => []BooksTypeOK
  <1> QED BY BookTypesAre, BooksInvHolds, PTL

(* A novel or manga download that reports Completed has a row for each        *)
(* chapter it was to bring, in the branch asked for if no download of the      *)
(* title was broken off, met another or left chapters of another branch.       *)
THEOREM NoChapterIsMissing == BooksSpec => CompletedIsWhole
  <1> DEFINE Whole == \A d \in BookTasks : (Completes(d) /\ medium = "text" /\ ~book[d].deleted) =>
                         \A c \in book[d].wants :
                            /\ Has(c)
                            /\ ~untidy => \A i \in DOMAIN chapterRows[c] :
                                             chapterRows[c][i] \in {book[d].branch, "empty"}
  <1>1. BooksInv /\ [BooksNext]_bookVars => [Whole]_bookVars
    BY CompletesWhole DEF RowFits
  <1> QED BY <1>1, BooksInvHolds, PTL DEF BooksSpec, CompletedIsWhole

-----------------------------------------------------------------------------
(***************************************************************************)
(* The video archive: what its tables, its tasks and their trackers hold.  *)
(***************************************************************************)
ArchiveTasks == [kind : {"none", "sync", "download", "metadata"},
                 at : {"none", "queued", "listing", "entries", "fetching"},
                 clip : SUBSET Clips, inPlaylist : BOOLEAN, todo : SUBSET Clips,
                 links : SUBSET Clips, revoked : BOOLEAN]

\* A task that is over, and one that is sent.
LEMMA TasksHaveTypes ==
    /\ NoTask \in ArchiveTasks
    /\ \A kind \in {"sync", "download", "metadata"}, clip \in SUBSET Clips, inPlaylist \in BOOLEAN :
          Message(kind, clip, inPlaylist) \in ArchiveTasks
  BY DEF NoTask, Message, ArchiveTasks

\* A task ends, with what it tells its tracker; or it aborts.
LEMMA TaskEndsTyped ==
    ASSUME ArchiveTypeOK, NEW t \in TaskIds, NEW told \in {"none", "running", "failed"}
    PROVE  /\ Over(t, told) =>
                 /\ tasks' \in [TaskIds -> ArchiveTasks]
                 /\ tracker' \in [TaskIds -> {"none", "running", "failed"}]
           /\ Aborts(t) => /\ tasks' \in [TaskIds -> ArchiveTasks] /\ tracker' = tracker
                           /\ owed' \subseteq Clips
           /\ DueElsewhere(t) \subseteq Clips
  <1>1. /\ tasks \in [TaskIds -> ArchiveTasks]
        /\ tracker \in [TaskIds -> {"none", "running", "failed"}] /\ owed \subseteq Clips
    BY DEF ArchiveTypeOK, ArchiveTasks
  <1>2. NoTask \in ArchiveTasks
    BY TasksHaveTypes
  <1> QED BY <1>1, <1>2 DEF Over, Aborts, DueElsewhere

\* The steps of a task.
LEMMA TaskStepsTyped ==
    ASSUME ArchiveTypeOK, NEW t \in TaskIds, TaskSteps(t)
    PROVE  ArchiveTypeOK'
  <1>1. /\ tasks \in [TaskIds -> ArchiveTasks]
        /\ tracker \in [TaskIds -> {"none", "running", "failed"}] /\ owed \subseteq Clips
        /\ playlist \subseteq Clips /\ source \subseteq Clips /\ strayed \subseteq Clips
        /\ clips \in [Clips -> {"none", "completed", "auth_required"}]
    BY DEF ArchiveTypeOK, ArchiveTasks
  <1>2. tasks[t] \in ArchiveTasks
    BY <1>1
  <1>3. /\ NoTask \in ArchiveTasks
        /\ \A v \in Clips : Message("download", {v}, TRUE) \in ArchiveTasks
    BY TasksHaveTypes
  <1> DEFINE Types == /\ tasks' \in [TaskIds -> ArchiveTasks]
                      /\ tracker' \in [TaskIds -> {"none", "running", "failed"}]
                      /\ owed' \subseteq Clips /\ strayed' \subseteq Clips
                      /\ playlist' \subseteq Clips
                      /\ clips' \in [Clips -> {"none", "completed", "auth_required"}]
  <1>4. Types /\ UNCHANGED <<source, playlistThere, kills, clicks>> => ArchiveTypeOK'
    BY DEF ArchiveTypeOK, ArchiveTasks
  <1>5. \A at \in {"listing", "fetching"} :
           Proceeds(t, [tasks[t] EXCEPT !.at = at]) =>
              /\ tasks' \in [TaskIds -> ArchiveTasks]
              /\ tracker' \in [TaskIds -> {"none", "running", "failed"}]
    <2>1. \A at \in {"listing", "fetching"} : [tasks[t] EXCEPT !.at = at] \in ArchiveTasks
      BY <1>2 DEF ArchiveTasks
    <2> QED BY <1>1, <2>1 DEF Proceeds
  <1>6. \A told \in {"none", "failed"} :
           Over(t, told) => /\ tasks' \in [TaskIds -> ArchiveTasks]
                            /\ tracker' \in [TaskIds -> {"none", "running", "failed"}]
    BY TaskEndsTyped
  <1>7. \A v \in Clips : Brought(t, v) => /\ tasks' \in [TaskIds -> ArchiveTasks]
                            /\ tracker' \in [TaskIds -> {"none", "running", "failed"}]
                            /\ owed' \subseteq Clips /\ playlist' \subseteq Clips
    BY <1>1, <1>6 DEF Brought
  <1>8. CASE StartsSync(t)
    BY <1>1, <1>4, <1>5, <1>8 DEF StartsSync, archiveTables
  <1>9. CASE ListsSource(t)
    <2>1. CASE playlistThere
      <3>1. [tasks[t] EXCEPT !.at = "entries", !.todo = source \ playlist] \in ArchiveTasks
        BY <1>1, <1>2 DEF ArchiveTasks
      <3>2. tasks' \in [TaskIds -> ArchiveTasks]
        BY <1>1, <1>9, <2>1, <3>1 DEF ListsSource
      <3> QED BY <1>1, <1>4, <1>9, <2>1, <3>2 DEF ListsSource, archiveTables
    <2>2. CASE ~playlistThere
      BY <1>1, <1>4, <1>6, <1>9, <2>2 DEF ListsSource, archiveTables
    <2> QED BY <2>1, <2>2
  <1>10. CASE SourceFails(t)
    BY <1>1, <1>4, <1>6, <1>10, TaskEndsTyped DEF SourceFails, archiveTables
  <1>11. CASE CommitsLinks(t)
    <2>1. CASE tasks[t].links # {} /\ Refused(tasks[t].links)
      BY <1>1, <1>4, <1>11, <2>1, TaskEndsTyped DEF CommitsLinks
    <2>2. CASE ~(tasks[t].links # {} /\ Refused(tasks[t].links))
      <3>1. tasks[t].links \subseteq Clips
        BY <1>2 DEF ArchiveTasks
      <3> QED BY <1>1, <1>4, <1>6, <1>11, <2>2, <3>1 DEF CommitsLinks
    <2> QED BY <2>1, <2>2
  <1>12. CASE Terminates(t)
    BY <1>1, <1>3, <1>4, <1>12, TaskEndsTyped DEF Terminates, archiveTables
  <1>13. ASSUME NEW v \in Clips, LinksEntry(t, v) PROVE ArchiveTypeOK'
    <2>1. CASE Refused({v})
      BY <1>1, <1>4, <1>13, <2>1, TaskEndsTyped DEF LinksEntry, archiveTables
    <2>2. CASE ~Refused({v})
      <3>1. [tasks[t] EXCEPT !.todo = @ \ {v}, !.links = @ \cup {v}] \in ArchiveTasks
        BY <1>2 DEF ArchiveTasks
      <3>2. tasks' \in [TaskIds -> ArchiveTasks]
        BY <1>1, <1>13, <2>2, <3>1 DEF LinksEntry
      <3> QED BY <1>1, <1>4, <1>13, <2>2, <3>2 DEF LinksEntry, archiveTables
    <2> QED BY <2>1, <2>2
  <1>14. ASSUME NEW v \in Clips, dispatch_download(t, v) PROVE ArchiveTypeOK'
    <2>1. [tasks[t] EXCEPT !.todo = @ \ {v}] \in ArchiveTasks
      BY <1>2 DEF ArchiveTasks
    <2>2. [tasks EXCEPT ![t].todo = @ \ {v}] \in [TaskIds -> ArchiveTasks]
      BY <1>1, <2>1
    <2>3. tasks' \in [TaskIds -> ArchiveTasks]
      BY <1>3, <1>14, <2>2 DEF dispatch_download
    <2>4. tracker' \in [TaskIds -> {"none", "running", "failed"}]
      BY <1>1, <1>14 DEF dispatch_download
    <2> QED BY <1>1, <1>4, <1>14, <2>3, <2>4 DEF dispatch_download, archiveTables
  <1>15. ASSUME NEW v \in Clips, StartsDownload(t, v) PROVE ArchiveTypeOK'
    BY <1>1, <1>4, <1>5, <1>7, <1>15 DEF StartsDownload
  <1>16. ASSUME NEW v \in Clips, DownloadFails(t, v) PROVE ArchiveTypeOK'
    BY <1>1, <1>4, <1>6, <1>16 DEF DownloadFails, archiveTables
  <1>17. ASSUME NEW v \in Clips, CommitsClip(t, v) PROVE ArchiveTypeOK'
    BY <1>1, <1>4, <1>7, <1>17 DEF CommitsClip
  <1>18. ASSUME NEW v \in Clips, NEW answer \in {"ok", "auth"}, _sync_video_metadata(t, v, answer)
         PROVE  ArchiveTypeOK'
    BY <1>1, <1>4, <1>6, <1>18 DEF _sync_video_metadata
  <1>19. ASSUME NEW v \in Clips, DispatchFails(t, v) PROVE ArchiveTypeOK'
    BY <1>1, <1>4, <1>19, TaskEndsTyped DEF DispatchFails, archiveTables
  <1> QED BY <1>8, <1>9, <1>10, <1>11, <1>12, <1>13, <1>14, <1>15, <1>16, <1>17, <1>18, <1>19
          DEF TaskSteps

\* The owner's requests, each a click.
LEMMA ClicksTyped ==
    ASSUME ArchiveTypeOK, ArchiveAssumption, OwnerClicks
    PROVE  ArchiveTypeOK'
  <1>1. /\ tasks \in [TaskIds -> ArchiveTasks]
        /\ tracker \in [TaskIds -> {"none", "running", "failed"}] /\ owed \subseteq Clips
        /\ playlist \subseteq Clips /\ playlistThere \in BOOLEAN /\ strayed \subseteq Clips
        /\ clips \in [Clips -> {"none", "completed", "auth_required"}]
    BY DEF ArchiveTypeOK, ArchiveTasks
  <1> DEFINE Types == /\ tasks' \in [TaskIds -> ArchiveTasks]
                      /\ tracker' \in [TaskIds -> {"none", "running", "failed"}]
                      /\ owed' \subseteq Clips /\ playlist' \subseteq Clips
                      /\ playlistThere' \in BOOLEAN
                      /\ clips' \in [Clips -> {"none", "completed", "auth_required"}]
  <1>2. clicks' \in 0..MaxClicks /\ UNCHANGED <<source, strayed, kills>>
    BY DEF OwnerClicks, ArchiveTypeOK, ArchiveAssumption
  <1>3. Types => ArchiveTypeOK'
    BY <1>2 DEF ArchiveTypeOK, ArchiveTasks
  <1>4. \A kind \in {"sync", "download", "metadata"}, clip \in SUBSET Clips, b \in BOOLEAN :
           dispatch_tracked(Message(kind, clip, b)) =>
              /\ tasks' \in [TaskIds -> ArchiveTasks]
              /\ tracker' \in [TaskIds -> {"none", "running", "failed"}]
    <2>1. \A task \in ArchiveTasks :
             dispatch_tracked(task) =>
                /\ tasks' \in [TaskIds -> ArchiveTasks]
                /\ tracker' \in [TaskIds -> {"none", "running", "failed"}]
      BY <1>1 DEF dispatch_tracked
    <2> QED BY <2>1, TasksHaveTypes
  <1>5. CASE sync_playlist_source
    <2>1. dispatch_tracked(Message("sync", {}, TRUE))
      BY <1>5 DEF sync_playlist_source
    <2> QED BY <1>1, <1>3, <1>4, <1>5, <2>1 DEF sync_playlist_source, archiveTables
  <1>6. CASE delete_playlist
    BY <1>1, <1>3, <1>6 DEF delete_playlist
  <1>7. ASSUME NEW v \in Clips, trigger_download(v) PROVE ArchiveTypeOK'
    <2>1. dispatch_tracked(Message("download", {v}, FALSE))
      BY <1>7 DEF trigger_download
    <2> QED BY <1>1, <1>3, <1>4, <1>7, <2>1 DEF trigger_download, archiveTables
  <1>8. ASSUME NEW v \in Clips, sync_video(v) PROVE ArchiveTypeOK'
    <2>1. dispatch_tracked(Message("metadata", {v}, FALSE))
      BY <1>8 DEF sync_video
    <2> QED BY <1>1, <1>3, <1>4, <1>8, <2>1 DEF sync_video, archiveTables
  <1>9. ASSUME NEW v \in Clips, delete_archived_video(v) PROVE ArchiveTypeOK'
    BY <1>1, <1>3, <1>9 DEF delete_archived_video
  <1>10. ASSUME NEW v \in Clips, add_video_to_playlist(v) PROVE ArchiveTypeOK'
    BY <1>1, <1>3, <1>10 DEF add_video_to_playlist
  <1>11. ASSUME NEW v \in Clips, remove_video_from_playlist(v) PROVE ArchiveTypeOK'
    BY <1>1, <1>3, <1>11 DEF remove_video_from_playlist
  <1>12. ASSUME NEW t \in TaskIds, cancel_tracked_task(t) PROVE ArchiveTypeOK'
    <2>1. [tasks[t] EXCEPT !.revoked = (t \notin Spare)] \in ArchiveTasks
      BY ZenonT(60), <1>1 DEF ArchiveTasks
    <2>2. tasks' \in [TaskIds -> ArchiveTasks]
      BY <1>1, <1>12, <2>1 DEF cancel_tracked_task
    <2> QED BY <1>1, <1>3, <1>12, <2>2 DEF cancel_tracked_task, archiveTables
  <1> QED BY <1>5, <1>6, <1>7, <1>8, <1>9, <1>10, <1>11, <1>12 DEF OwnerClicks

\* Every step of the archive.
LEMMA StepKeepsArchive ==
    ASSUME ArchiveTypeOK, ArchiveAssumption, [ArchiveNext]_archiveVars
    PROVE  ArchiveTypeOK'
  <1>1. CASE UNCHANGED archiveVars
    BY <1>1 DEF archiveVars, archiveTables, ArchiveTypeOK
  <1>2. CASE OwnerClicks
    BY <1>2, ClicksTyped
  <1>3. ASSUME NEW v \in Clips, SourceGrows(v) PROVE ArchiveTypeOK'
    BY <1>3 DEF SourceGrows, archiveTables, ArchiveTypeOK
  <1>4. ASSUME NEW t \in TaskIds, TaskSteps(t) PROVE ArchiveTypeOK'
    BY <1>4, TaskStepsTyped
  <1>5. ASSUME NEW t \in TaskIds, TaskIsKilled(t) PROVE ArchiveTypeOK'
    <2>1. tasks \in [TaskIds -> ArchiveTasks]
      BY DEF ArchiveTypeOK, ArchiveTasks
    <2>2. [tasks[t] EXCEPT !.at = "queued", !.todo = {}, !.links = {}] \in ArchiveTasks
      BY <2>1 DEF ArchiveTasks
    <2>3. tasks' \in [TaskIds -> ArchiveTasks]
      BY <1>5, <2>1, <2>2, TasksHaveTypes DEF TaskIsKilled
    <2>5. strayed' \subseteq Clips
      <3>1. owed \subseteq Clips /\ strayed \subseteq Clips
        BY DEF ArchiveTypeOK
      <3> QED BY <1>5, <3>1 DEF TaskIsKilled
    <2>4. kills' \in 0..MaxKills
      BY <1>5 DEF TaskIsKilled, ArchiveTypeOK, ArchiveAssumption
    <2> QED BY <1>5, <2>3, <2>4, <2>5 DEF TaskIsKilled, archiveTables, ArchiveTypeOK, ArchiveTasks
  <1> QED BY <1>1, <1>2, <1>3, <1>4, <1>5 DEF ArchiveNext

\* It starts empty.
LEMMA ArchiveStarts == ASSUME ArchiveInit, ArchiveAssumption PROVE ArchiveTypeOK
  <1>1. tasks \in [TaskIds -> ArchiveTasks]
    BY TasksHaveTypes DEF ArchiveInit
  <1> QED BY <1>1 DEF ArchiveInit, ArchiveTypeOK, ArchiveTasks, ArchiveAssumption

-----------------------------------------------------------------------------
(***************************************************************************)
(* All of them, as the run composes them: a step is one of the part the    *)
(* behaviour chose, and the invariants of the others stay.                 *)
(***************************************************************************)
WorkersInv ==
    /\ CompressionInv /\ BatchTypes /\ ArchiveTypeOK /\ BooksInv /\ MusicInv
    /\ SharesInv /\ StorageInv /\ GateTyped

\* A step of one part leaves the variables of the others alone.
LEMMA StepKeepsWorkers ==
    ASSUME WorkersInv, [WorkersNext]_WorkersVars
    PROVE  WorkersInv'
  <1>1. /\ [CompressionNext]_compressionVars /\ [ArchiveNext]_archiveVars
        /\ [BooksNext]_bookVars /\ [MusicNext]_musicVars /\ [SharesNext]_sharesVars
        /\ [StorageFilesNext]_storageVars /\ [YoutubeGateNext]_youtubeVars
    BY DEF WorkersNext, WorkersVars
  <1>2. CompressionInv' /\ BatchTypes'
    BY <1>1, StepKeepsVideos, StepKeepsBatches DEF WorkersInv, CompressionInv
  <1>3. ArchiveTypeOK'
    BY <1>1, ArchiveAssumption, StepKeepsArchive DEF WorkersInv
  <1>4. BooksInv'
    BY <1>1, BooksAssumption, BranchesAssumption, StepKeepsBooks DEF WorkersInv
  <1>5. MusicInv'
    BY <1>1, StepKeepsMusic DEF WorkersInv
  <1>6. SharesInv'
    BY <1>1, StepKeepsShares DEF WorkersInv
  <1>7. StorageInv'
    BY <1>1, StepKeepsStorage DEF WorkersInv
  <1>8. GateTyped'
    BY <1>1, StepKeepsGateTyped DEF WorkersInv
  <1> QED BY <1>2, <1>3, <1>4, <1>5, <1>6, <1>7, <1>8 DEF WorkersInv

\* The state of every part has its types, whichever part a behaviour is of.
THEOREM WorkersAreTyped == WorkersSpec => []WorkersTypeOK
  <1>1. WorkersInit => WorkersInv
    <2>1. WorkersInit => CompressionInv /\ BatchTypes
      BY CompressionStarts, BatchesStart DEF WorkersInit
    <2>2. WorkersInit => ArchiveTypeOK /\ BooksInv
      BY ArchiveStarts, ArchiveAssumption, BooksStart, BooksAssumption DEF WorkersInit
    <2>3. WorkersInit => MusicInv /\ SharesInv
      BY MusicStarts, InitIsShut DEF WorkersInit
    <2>4. WorkersInit => StorageInv /\ GateTyped
      BY StorageStarts, GateStarts DEF WorkersInit, YoutubeInv, GateTyped
    <2> QED BY <2>1, <2>2, <2>3, <2>4 DEF WorkersInv
  <1>2. WorkersInv => WorkersTypeOK
    <2>1. WorkersInv => CompressionTypeOK /\ ArchiveTypeOK /\ MusicTypeOK
      BY CompressionTypesAre, MusicTypesAre DEF WorkersInv
    <2>2. WorkersInv => SharesTypeOK /\ StorageFilesTypeOK /\ YoutubeGateTypeOK
      BY StorageTypesAre, GateTypesAre DEF WorkersInv, SharesInv
    <2>3. WorkersInv => BooksTypeOK
      BY BookTypesAre DEF WorkersInv
    <2> QED BY <2>1, <2>2, <2>3 DEF WorkersTypeOK
  <1>3. WorkersInv /\ [WorkersNext]_WorkersVars => WorkersInv'
    BY StepKeepsWorkers
  <1> QED BY <1>1, <1>2, <1>3, PTL DEF WorkersSpec
=============================================================================
