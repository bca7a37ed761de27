---------------------------- MODULE VaultImages ----------------------------
(***************************************************************************)
(* The picture of one card (vault/images.py): stored under the application *)
(* key, under the key of its space, or blind under a key of its own that   *)
(* is wrapped for the space.  Unlocks move old pictures to the key of the  *)
(* space, a worker finalizes blind ones, tabs replace it, and the card is  *)
(* deleted, each in steps: a file is stored, the row committed, a file     *)
(* dropped, and any of them may be broken off.                             *)
(***************************************************************************)
EXTENDS Integers

CONSTANTS ImageSpaces,   \* the sealed spaces
          ImageRequests, \* unlocks, workers and requests at once
          MaxPictures,   \* bounds the random names
          BlindEdits     \* whether a picture is replaced while it is blind (none opens then)

ASSUME VaultImagesAssumption ==
    /\ MaxPictures \in Nat \ {0} /\ BlindEdits \in BOOLEAN
    /\ "none" \notin ImageSpaces

VARIABLES card,     \* its row: where it is, the file it names, the wrap of a blind key;
                    \* ghost `moved`: it left the space it was sealed in
          pictures, \* by name: the key each stored file is under
          requests  \* what each holds between two steps

imageVars == <<card, pictures, requests>>

\* Name 0 is made of the id of the card, the others are random; no file is -1.
PictureNames == 0..MaxPictures
NoFile == -1
Key(kind, space, name) == [kind |-> kind, space |-> space, name |-> name]
NoKey == Key("none", "none", 0)
AppKey == Key("app", "none", 0)
FileKey(s) == Key("space", s, 0)
BlindKey(s, n) == Key("blind", s, n)

NoRequest == [step |-> "idle", old |-> NoFile, new |-> NoFile, wrap |-> NoKey, space |-> "none"]

VaultImagesInit ==
    /\ card = [at |-> "absent", space |-> "none", path |-> NoFile, wrap |-> NoKey,
                moved |-> FALSE]
    /\ pictures = [n \in PictureNames |-> NoKey]
    /\ requests = [r \in ImageRequests |-> NoRequest]

\* Random names are taken one after another, and not again.
Taken == {n \in PictureNames : pictures[n] # NoKey}
    \cup {card.path} \cup {requests[r].old : r \in ImageRequests}
    \cup {requests[r].new : r \in ImageRequests}
Random(n) == n \in PictureNames \ {0} /\ n \notin Taken

AtStep(r, step) == requests[r].step = step
StepsTo(r, step) == requests' = [requests EXCEPT ![r].step = step]
Finishes(r) == requests' = [requests EXCEPT ![r] = NoRequest]
Drops(n) == pictures' = IF n \in PictureNames THEN [pictures EXCEPT ![n] = NoKey] ELSE pictures

-----------------------------------------------------------------------------
Creates(row, key) ==
    /\ card.at = "absent"
    /\ card' = row
    /\ pictures' = IF row.path = NoFile THEN pictures ELSE [pictures EXCEPT ![row.path] = key]
    /\ UNCHANGED requests

externalize_image ==
    \/ Creates([card EXCEPT !.at = "plain", !.path = 0], AppKey)
    \/ \E s \in ImageSpaces, n \in PictureNames :
          /\ Random(n)
          /\ Creates([card EXCEPT !.at = "sealed", !.space = s, !.path = n], FileKey(s))

\* A write into a locked space.  What cannot be stored stays in the payload.
externalize_blind_image ==
    \E s \in ImageSpaces, n \in PictureNames :
       /\ Random(n)
       /\ \/ Creates([card EXCEPT !.at = "sealed", !.space = s, !.path = n,
                               !.wrap = BlindKey(s, n)], BlindKey(s, n))
          \/ Creates([card EXCEPT !.at = "sealed", !.space = s], NoKey)

\* A plain card filed into a sealed space: its picture stays as it is.
update_vault_item(s) ==
    /\ card.at = "plain"
    /\ card' = [card EXCEPT !.at = "sealed", !.space = s]
    /\ UNCHANGED <<pictures, requests>>

\* The payload is sealed anew, the files stay under the keys they are under.
move_sealed_item(s) ==
    /\ card.at = "sealed" /\ card.space # s
    /\ card' = [card EXCEPT !.space = s, !.moved = TRUE]
    /\ UNCHANGED <<pictures, requests>>

\* A request that loads the row and goes on with what it saw.
Loads(r, step) ==
    /\ AtStep(r, "idle") /\ card.at \in {"plain", "sealed"}
    /\ requests' = [requests EXCEPT ![r] = [step |-> step, old |-> card.path, new |-> NoFile,
                                            wrap |-> card.wrap, space |-> card.space]]
    /\ UNCHANGED <<card, pictures>>

Stores(r, step) ==
    \E n \in PictureNames :
       /\ Random(n)
       /\ pictures' = [pictures EXCEPT ![n] = FileKey(requests[r].space)]
       /\ requests' = [requests EXCEPT ![r].step = step, ![r].new = n]
       /\ UNCHANGED card

\* Only the columns that a request changed are written; a row that is gone ends it.
Commits(r, row, step) ==
    /\ IF card.at = "deleted" THEN Finishes(r) /\ UNCHANGED card
       ELSE StepsTo(r, step) /\ card' = row
    /\ UNCHANGED pictures

-----------------------------------------------------------------------------
\* heal_collection_images, in an unlock of the space: of one row.
HealLists(r) ==
    /\ card.at = "sealed" /\ card.path = 0 /\ card.wrap = NoKey
    /\ Loads(r, "healLists")

\* Mutant: the file is moved, and the row told after.
HealMoves(r) ==
    /\ AtStep(r, "healLists")
    /\ IF pictures[requests[r].old] = AppKey
       THEN \E n \in PictureNames :
               /\ Random(n)
               /\ pictures' = [pictures EXCEPT ![n] = FileKey(requests[r].space),
                                               ![requests[r].old] = NoKey]
               /\ requests' = [requests EXCEPT ![r].step = "healStores", ![r].new = n]
               /\ UNCHANGED card
       ELSE Finishes(r) /\ UNCHANGED <<card, pictures>>

HealStores(r) ==
    /\ AtStep(r, "healLists")
    /\ IF pictures[requests[r].old] = AppKey THEN Stores(r, "healStores")
       ELSE Finishes(r) /\ UNCHANGED <<card, pictures>>

HealCommits(r) ==
    /\ AtStep(r, "healStores")
    /\ Commits(r, [card EXCEPT !.path = requests[r].new], "healCommits")

HealDrops(r) ==
    /\ AtStep(r, "healCommits")
    /\ Drops(requests[r].old) /\ Finishes(r)
    /\ UNCHANGED card

-----------------------------------------------------------------------------
\* finalize_blind_media_task, of a picture.
FinalizeLists(r) ==
    /\ card.at = "sealed" /\ card.wrap # NoKey
    /\ Loads(r, "finalizeLists")

\* The wrap opens under the key of the space it was made for.
FinalizeStores(r) ==
    LET q == requests[r] IN
    /\ AtStep(r, "finalizeLists")
    /\ IF q.wrap.space = q.space /\ pictures[q.old] = q.wrap THEN Stores(r, "finalizeStores")
       ELSE Finishes(r) /\ UNCHANGED <<card, pictures>>

FinalizeChecks(r) ==
    /\ AtStep(r, "finalizeStores")
    /\ IF card.at = "deleted" \/ card.wrap = NoKey \/ card.path # requests[r].old THEN Finishes(r)
       ELSE StepsTo(r, "finalizeChecks")
    /\ UNCHANGED <<card, pictures>>

FinalizeCommits(r) ==
    /\ AtStep(r, "finalizeChecks")
    /\ Commits(r, [card EXCEPT !.path = requests[r].new, !.wrap = NoKey], "finalizeCommits")

FinalizeDrops(r) ==
    /\ AtStep(r, "finalizeCommits")
    /\ Drops(requests[r].old) /\ Finishes(r)
    /\ UNCHANGED card

-----------------------------------------------------------------------------
\* update_sealed_item with a new picture, or one its payload still carries.
EditLoads(r) ==
    /\ card.at = "sealed" /\ (BlindEdits \/ card.wrap = NoKey)
    /\ Loads(r, "editLoads")

EditStores(r) == AtStep(r, "editLoads") /\ Stores(r, "editStores")

\* The old file goes before the row names the new one.
EditDrops(r) ==
    /\ AtStep(r, "editStores")
    /\ Drops(requests[r].old) /\ StepsTo(r, "editDrops")
    /\ UNCHANGED card

EditCommits(r) ==
    /\ AtStep(r, "editDrops")
    /\ card' = IF card.at = "deleted" THEN card ELSE [card EXCEPT !.path = requests[r].new]
    /\ Finishes(r)
    /\ UNCHANGED pictures

-----------------------------------------------------------------------------
\* delete_vault_item: the files first.
DeleteLoads(r) == Loads(r, "deleteLoads")

DeleteDrops(r) ==
    /\ AtStep(r, "deleteLoads")
    /\ Drops(requests[r].old) /\ StepsTo(r, "deleteDrops")
    /\ UNCHANGED card

DeleteCommits(r) ==
    /\ AtStep(r, "deleteDrops")
    /\ card' = [card EXCEPT !.at = "deleted", !.path = NoFile, !.wrap = NoKey]
    /\ Finishes(r)
    /\ UNCHANGED pictures

\* A process dies, or a commit or a write fails; not after a file was dropped
\* that the row may still name.
Breaks(r) ==
    /\ requests[r].step \notin {"idle", "editDrops", "deleteDrops"}
    /\ Finishes(r)
    /\ UNCHANGED <<card, pictures>>

ImageSteps(r) ==
    \/ HealLists(r) \/ HealStores(r) \/ HealCommits(r) \/ HealDrops(r)
    \/ FinalizeLists(r) \/ FinalizeStores(r) \/ FinalizeChecks(r) \/ FinalizeCommits(r)
    \/ FinalizeDrops(r)
    \/ EditLoads(r) \/ EditStores(r) \/ EditDrops(r) \/ EditCommits(r)
    \/ DeleteLoads(r) \/ DeleteDrops(r) \/ DeleteCommits(r) \/ Breaks(r)

VaultImagesNext ==
    \/ externalize_image \/ externalize_blind_image
    \/ \E s \in ImageSpaces : update_vault_item(s) \/ move_sealed_item(s)
    \/ \E r \in ImageRequests : ImageSteps(r)

VaultImagesSpec == VaultImagesInit /\ [][VaultImagesNext]_imageVars

-----------------------------------------------------------------------------
KeySet == [kind : {"none", "app", "space", "blind"}, space : ImageSpaces \cup {"none"},
           name : PictureNames]
Steps == {"idle", "healLists", "healStores", "healCommits", "finalizeLists", "finalizeStores",
          "finalizeChecks", "finalizeCommits", "editLoads", "editStores", "editDrops",
          "deleteLoads", "deleteDrops"}

VaultImagesTypeOK ==
    /\ card \in [at : {"absent", "plain", "sealed", "deleted"}, space : ImageSpaces \cup {"none"},
                 path : PictureNames \cup {NoFile}, wrap : KeySet, moved : BOOLEAN]
    /\ pictures \in [PictureNames -> KeySet]
    /\ requests \in [ImageRequests -> [step : Steps, old : PictureNames \cup {NoFile},
                                       new : PictureNames \cup {NoFile}, wrap : KeySet,
                                       space : ImageSpaces \cup {"none"}]]

\* image_bytes: the key of the space is tried, then that of the application.
image_bytes ==
    IF card.wrap = NoKey THEN pictures[card.path] \in {AppKey, FileKey(card.space)}
    ELSE pictures[card.path] = card.wrap /\ card.wrap.space = card.space

(* The picture a row names is there and opens the way the row says, whatever  *)
(* unlocks, workers, edits and deletions were under way and wherever they     *)
(* were broken off.  Only what an edit or a deletion has dropped and is about *)
(* to commit is excused; one that was moved is there, under its old keys.     *)
PictureOpens ==
    card.path # NoFile =>
       \/ image_bytes
       \/ card.moved /\ pictures[card.path] # NoKey
       \/ \E r \in ImageRequests : /\ requests[r].step \in {"editDrops", "deleteDrops"}
                                   /\ requests[r].old = card.path
=============================================================================
