---------------------------- MODULE StorageFiles ---------------------------
(***************************************************************************)
(* The files of the local storage (core/storage.py) under the three that   *)
(* change them at once: the background migration that seals, a few in a    *)
(* pass, the files that older versions left under historical keys          *)
(* (core/encryption_migration.py), the storage browser that uploads,       *)
(* renames and deletes (system/storage/router.py), and a module that       *)
(* writes a file of its own.                                               *)
(*                                                                         *)
(* All names end in ".enc", the files the migration looks at, and lie in   *)
(* one folder outside the namespaces of the modules but for Owned.  An     *)
(* envelope is the single-blob one or a chunked one under the application  *)
(* key: both name the path they were sealed for.  A handler that checks,   *)
(* awaits a thread and then acts is two steps; MaxChanges bounds what the *)
(* browser, the module and the environment do.                             *)
(***************************************************************************)
EXTENDS Integers

CONSTANTS FileCount,   \* names of files, in the order of a pass
          Owned,       \* names in a module's namespace
          Legacy,      \* documents an older version left as bare files, if it did
          OldKey,      \* those under a key the settings know
          LateKey,     \* those under a key the owner adds to the file of keys
          BatchSize,   \* ENCRYPTION_MIGRATION_BATCH_SIZE
          MaxChanges

Names == 1..FileCount
Documents == 1..(FileCount + MaxChanges)

ASSUME StorageFilesAssumption ==
    /\ FileCount \in Nat \ {0}
    /\ Owned \subseteq Names /\ Legacy \subseteq Names
    /\ OldKey \subseteq Legacy /\ LateKey \subseteq Legacy \ OldKey
    /\ BatchSize \in Nat \ {0} /\ MaxChanges \in Nat

VARIABLES onDisk,     \* what is under each name
          lateKnown,  \* the late key is in LEGACY_FILE_ENCRYPTION_KEYS_PATH
          unreadable, \* _unreadable_encrypted_files: name -> signature
          triedLate,  \* the late key is among _known_legacy_keys
          pass,       \* the pass of the migration that runs
          upload, rename, \* the browser's requests in flight
          kept,       \* documents their owner stored and did not delete
          raced,      \* a change fell between a last check and its act
          changes     \* what was done, also the clock of the signatures

storageVars == <<onDisk, lateKnown, unreadable, triedLate, pass, upload, rename, kept,
                 raced, changes>>
passVars == <<unreadable, triedLate, pass>>

\* The time of a change, and the document it brings.
Now == FileCount + changes + 1
Forms == {"none", "plain", "bare", "sealed"}
Nothing == [form |-> "none", doc |-> 0, name |-> 0, at |-> 0]
Plain(d) == [form |-> "plain", doc |-> d, name |-> 0, at |-> Now]
Sealed(d, n) == [form |-> "sealed", doc |-> d, name |-> n, at |-> Now]

Present == {n \in Names : onDisk[n] # Nothing}
Holders(d) == {n \in Names : onDisk[n].doc = d}
Opens(d) == d \in OldKey \/ (lateKnown /\ d \in LateKey)

NoPass == [at |-> "idle", todo |-> {}, examined |-> 0, file |-> 0, read |-> Nothing,
           fresh |-> Nothing]
NoUpload == [name |-> 0, doc |-> 0]
NoRename == [from |-> 0, to |-> 0, sealed |-> FALSE, copied |-> Nothing]
NoSignature == 0

StorageFilesInit ==
    /\ kept \in {{}, Legacy}
    /\ onDisk = [n \in Names |->
                    IF n \in kept THEN [form |-> "bare", doc |-> n, name |-> 0, at |-> n]
                    ELSE Nothing]
    /\ lateKnown = FALSE /\ triedLate = FALSE /\ unreadable = [n \in Names |-> NoSignature]
    /\ pass = NoPass /\ upload = NoUpload /\ rename = NoRename
    /\ raced = FALSE /\ changes = 0

-----------------------------------------------------------------------------
\* The keys are read again for every pass, and a set that changed clears what
\* was remembered; the names are listed before the first is opened.
PassStarts ==
    /\ pass.at = "idle"
    /\ triedLate' = lateKnown
    /\ unreadable' = IF triedLate # lateKnown THEN [n \in Names |-> NoSignature] ELSE unreadable
    /\ pass' = [NoPass EXCEPT !.at = "walk", !.todo = Present]
    /\ UNCHANGED <<onDisk, lateKnown, upload, rename, kept, raced, changes>>

Foremost == CHOOSE n \in pass.todo : \A m \in pass.todo : n <= m
Walked == [NoPass EXCEPT !.at = "walk", !.todo = pass.todo \ {Foremost}, !.examined = pass.examined]

\* A name that is gone raises and ends the pass; envelopes, files known to be
\* unreadable and those past the budget are passed by.
PassesBy ==
    LET f == onDisk[Foremost] IN
    /\ pass.at = "walk" /\ pass.todo # {}
    /\ \/ f = Nothing /\ pass' = NoPass
       \/ /\ \/ f.form = "sealed"
             \/ f.form # "none" /\ unreadable[Foremost] = f.at
             \/ f.form # "none" /\ pass.examined >= BatchSize
          /\ pass' = Walked
    /\ UNCHANGED <<unreadable, triedLate, onDisk, lateKnown, upload, rename, kept, raced, changes>>

\* Mutant: one file past the budget is examined.
ExaminesOneMore(f) == /\ pass.at = "walk" /\ pass.todo # {} /\ pass.examined <= BatchSize
                      /\ f.form \in {"plain", "bare"} /\ unreadable[Foremost] # f.at

Examined(f) == /\ pass.at = "walk" /\ pass.todo # {} /\ pass.examined < BatchSize
               /\ f.form \in {"plain", "bare"} /\ unreadable[Foremost] # f.at

\* Mutant: what no key opens is tried again in every pass.
ForgetsUnreadable ==
    LET f == onDisk[Foremost] IN
    /\ Examined(f) /\ ~(f.form = "bare" /\ Opens(f.doc))
    /\ pass' = [Walked EXCEPT !.examined = @ + 1]
    /\ UNCHANGED <<unreadable, triedLate, onDisk, lateKnown, upload, rename, kept, raced, changes>>

\* No key opens it: its size and time of change are remembered.
FindsUnreadable ==
    LET f == onDisk[Foremost] IN
    /\ Examined(f) /\ ~(f.form = "bare" /\ Opens(f.doc))
    /\ unreadable' = [unreadable EXCEPT ![Foremost] = f.at]
    /\ pass' = [Walked EXCEPT !.examined = @ + 1]
    /\ UNCHANGED <<triedLate, onDisk, lateKnown, upload, rename, kept, raced, changes>>

ReadsLegacy ==
    LET f == onDisk[Foremost] IN
    /\ Examined(f) /\ f.form = "bare" /\ Opens(f.doc)
    /\ pass' = [Walked EXCEPT !.at = "read", !.file = Foremost, !.read = f,
                              !.examined = pass.examined + 1]
    /\ UNCHANGED <<unreadable, triedLate, onDisk, lateKnown, upload, rename, kept, raced, changes>>

\* Mutant: the file is not looked at again before it is replaced.
TrustsTheRead ==
    /\ pass.at = "read"
    /\ pass' = [pass EXCEPT !.at = "checked", !.fresh = onDisk[pass.file]]
    /\ UNCHANGED <<unreadable, triedLate, onDisk, lateKnown, upload, rename, kept, raced, changes>>

\* A file that was removed or written since it was read is left alone.
ChecksFresh ==
    /\ pass.at = "read"
    /\ pass' = IF onDisk[pass.file].at = pass.read.at /\ onDisk[pass.file] # Nothing
               THEN [pass EXCEPT !.at = "checked", !.fresh = onDisk[pass.file]]
               ELSE [pass EXCEPT !.at = "walk", !.file = 0, !.read = Nothing]
    /\ UNCHANGED <<unreadable, triedLate, onDisk, lateKnown, upload, rename, kept, raced, changes>>

\* os.replace asks nothing.
ReplacesLegacy ==
    /\ pass.at = "checked"
    /\ raced' = (raced \/ onDisk[pass.file] # pass.fresh)
    /\ onDisk' = [onDisk EXCEPT ![pass.file] =
                    [form |-> "sealed", doc |-> pass.read.doc, name |-> pass.file, at |-> Now]]
    /\ unreadable' = [unreadable EXCEPT ![pass.file] = NoSignature]
    /\ pass' = [NoPass EXCEPT !.at = "walk", !.todo = pass.todo, !.examined = pass.examined]
    /\ UNCHANGED <<triedLate, lateKnown, upload, rename, kept, changes>>

PassEnds ==
    /\ pass.at = "walk" /\ pass.todo = {}
    /\ pass' = NoPass
    /\ UNCHANGED <<unreadable, triedLate, onDisk, lateKnown, upload, rename, kept, raced, changes>>

_migration_loop == \/ PassStarts \/ PassesBy \/ FindsUnreadable \/ ReadsLegacy
                   \/ ChecksFresh \/ ReplacesLegacy \/ PassEnds

-----------------------------------------------------------------------------
Change == changes < MaxChanges /\ changes' = changes + 1

\* A document is gone with its last copy.
Without(d, s) == IF \E n \in Names : s[n].doc = d THEN kept ELSE kept \ {d}

\* Whether a module owns the folder is not asked.
UploadChecks(n) ==
    /\ upload = NoUpload /\ onDisk[n] = Nothing
    /\ upload' = [name |-> n, doc |-> 0]
    /\ UNCHANGED <<onDisk, lateKnown, passVars, rename, kept, raced, changes>>

\* open("wb"): what came to be there meanwhile is written over.  From here on
\* the document is there, as far as its chunks have come.
UploadOpens ==
    LET n == upload.name IN
    /\ upload # NoUpload /\ upload.doc = 0 /\ Change
    /\ raced' = (raced \/ onDisk[n] # Nothing)
    /\ onDisk' = [onDisk EXCEPT ![n] = Plain(Now)]
    /\ kept' = kept \cup {Now}
    /\ upload' = [upload EXCEPT !.doc = Now]
    /\ UNCHANGED <<lateKnown, passVars, rename>>

\* All its chunks are there, or the disk is full: what was written stays.
api_upload ==
    /\ upload.doc # 0 /\ upload' = NoUpload
    /\ UNCHANGED <<onDisk, lateKnown, passVars, rename, kept, raced, changes>>

\* Past MAX_UPLOAD_BYTES the name is unlinked, whatever is there by now.
UploadExceeds ==
    LET n == upload.name IN
    /\ upload.doc # 0 /\ upload' = NoUpload
    /\ onDisk' = [onDisk EXCEPT ![n] = Nothing]
    /\ kept' = Without(onDisk[n].doc, onDisk')
    /\ raced' = (raced \/ onDisk[n].doc \notin {upload.doc, 0})
    /\ UNCHANGED <<lateKnown, passVars, rename, changes>>

\* _carries_our_envelope, and the source is there and the destination is not.
RenameChecks(n, m) ==
    /\ rename = NoRename /\ n \notin Owned /\ m \notin Owned /\ n # m
    /\ onDisk[n] # Nothing /\ onDisk[m] = Nothing
    /\ rename' = [from |-> n, to |-> m, sealed |-> onDisk[n].form = "sealed", copied |-> Nothing]
    /\ UNCHANGED <<onDisk, lateKnown, passVars, upload, kept, raced, changes>>

\* Not an envelope when it was looked at: the file is moved as it is.
RenameMoves ==
    LET n == rename.from  m == rename.to IN
    /\ rename # NoRename /\ ~rename.sealed /\ Change
    /\ IF onDisk[n] = Nothing THEN UNCHANGED <<onDisk, raced>>
       ELSE /\ onDisk' = [onDisk EXCEPT ![m] = onDisk[n], ![n] = Nothing]
            /\ raced' = (raced \/ onDisk[m] # Nothing \/ onDisk[n].form = "sealed")
    /\ rename' = NoRename
    /\ UNCHANGED <<lateKnown, passVars, upload, kept>>

\* reencrypt_to_path: what the source is now is written for the new name and
\* read back; a source that does not open, or is gone, is left as it is.
reencrypt_to_path ==
    LET n == rename.from  m == rename.to  f == onDisk[n] IN
    /\ rename # NoRename /\ rename.sealed /\ rename.copied = Nothing /\ Change
    /\ IF f = Nothing \/ (f.form = "sealed" /\ f.name # n)
       THEN rename' = NoRename /\ UNCHANGED <<onDisk, raced>>
       ELSE /\ onDisk' = [onDisk EXCEPT ![m] = IF f.form = "sealed" THEN Sealed(f.doc, m)
                                               ELSE [f EXCEPT !.at = Now]]
            /\ raced' = (raced \/ onDisk[m] # Nothing)
            /\ rename' = [rename EXCEPT !.copied = f]
    /\ UNCHANGED <<lateKnown, passVars, upload, kept>>

RenameUnlinks ==
    LET n == rename.from IN
    /\ rename # NoRename /\ rename.copied # Nothing
    /\ onDisk' = [onDisk EXCEPT ![n] = Nothing]
    /\ raced' = (raced \/ onDisk[n] \notin {rename.copied, Nothing}
                       \/ onDisk[rename.to].doc # rename.copied.doc)
    /\ rename' = NoRename
    /\ UNCHANGED <<lateKnown, passVars, upload, kept, changes>>

api_delete_entry(n) ==
    /\ n \notin Owned /\ onDisk[n] # Nothing /\ Change
    /\ onDisk' = [onDisk EXCEPT ![n] = Nothing]
    /\ kept' = Without(onDisk[n].doc, onDisk')
    /\ UNCHANGED <<lateKnown, passVars, upload, rename, raced>>

\* A module replaces a file of its own, or removes it.
save_file_encrypted(n) ==
    /\ n \in Owned /\ Change
    /\ onDisk' = [onDisk EXCEPT ![n] = Sealed(Now, n)]
    /\ kept' = Without(onDisk[n].doc, onDisk') \cup {Now}
    /\ UNCHANGED <<lateKnown, passVars, upload, rename, raced>>

delete_file(n) ==
    /\ n \in Owned /\ onDisk[n] # Nothing /\ Change
    /\ onDisk' = [onDisk EXCEPT ![n] = Nothing]
    /\ kept' = Without(onDisk[n].doc, onDisk')
    /\ UNCHANGED <<lateKnown, passVars, upload, rename, raced>>

KeyIsAdded ==
    /\ ~lateKnown /\ Change
    /\ lateKnown' = TRUE
    /\ UNCHANGED <<onDisk, passVars, upload, rename, kept, raced>>

\* What is in memory is gone: the pass, what it remembered, the requests.
StorageRestarts ==
    /\ Change
    /\ unreadable' = [n \in Names |-> NoSignature] /\ triedLate' = FALSE /\ pass' = NoPass
    /\ upload' = NoUpload /\ rename' = NoRename
    /\ UNCHANGED <<onDisk, lateKnown, kept, raced>>

StorageFilesNext ==
    \/ _migration_loop
    \/ UploadOpens \/ api_upload \/ UploadExceeds \/ RenameMoves \/ reencrypt_to_path \/ RenameUnlinks
    \/ KeyIsAdded \/ StorageRestarts
    \/ \E n \in Names : \/ UploadChecks(n) \/ api_delete_entry(n)
                        \/ save_file_encrypted(n) \/ delete_file(n)
                        \/ \E m \in Names : RenameChecks(n, m)

\* The loop sleeps between passes, for 5 seconds or 300.
StorageFilesSpec == /\ StorageFilesInit /\ [][StorageFilesNext]_storageVars
                    /\ WF_storageVars(_migration_loop)

-----------------------------------------------------------------------------
StorageFilesTypeOK ==
    /\ \A n \in Names : /\ onDisk[n].form \in Forms /\ onDisk[n].doc \in Documents \cup {0}
                        /\ onDisk[n].name \in Names \cup {0}
                        /\ {onDisk[n].at, unreadable[n]} \subseteq 0..(FileCount + MaxChanges + 1)
    /\ lateKnown \in BOOLEAN /\ triedLate \in BOOLEAN /\ raced \in BOOLEAN
    /\ pass.at \in {"idle", "walk", "read", "checked"} /\ pass.todo \subseteq Names
    /\ pass.examined \in 0..BatchSize
    /\ upload.name \in Names \cup {0} /\ upload.doc \in Documents \cup {0}
    /\ rename.from \in Names \cup {0}
    /\ kept \subseteq Documents /\ changes \in 0..MaxChanges

(* What an owner stored is under some name, in an envelope that opens under   *)
(* that name, and what was deleted or written over does not come back -       *)
(* whatever the migration, the browser and a module do at the same time, as   *)
(* long as nothing fell between a last check and the act it was for.          *)
FilesAreKept ==
    \/ raced
    \/ /\ \A d \in kept : \E n \in Holders(d) : onDisk[n].form = "sealed" => onDisk[n].name = n
       /\ \A n \in Present : onDisk[n].doc \in kept

(* A file left under a historical key is sealed under the key of today in the *)
(* end, once its key is known: whatever files cannot be read, though a pass   *)
(* examines BatchSize of them and ends at a name that is gone.                *)
LegacyIsSealed ==
    \A d \in OldKey \cup LateKey :
        (Opens(d) /\ d \in kept) ~> (raced \/ \A n \in Holders(d) : onDisk[n].form # "bare")
=============================================================================
