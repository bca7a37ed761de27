------------------------------- MODULE Books -------------------------------
(***************************************************************************)
(* The library of novels, manga and anime (alllib/tasks.py                 *)
(* download_lib_task, router.py): a download reads a title's chapters of   *)
(* one translation branch, and stores and commits them one by one; what is *)
(* already there is kept unless the branch was changed.                    *)
(*                                                                         *)
(* One title.  The work of a task before its chapters is a read of the     *)
(* tables and the insert of the title; a chapter is a fetch that ends in a *)
(* lookup of its row, and a commit.  A title that is inserted or changed   *)
(* is committed with the first chapter.                                    *)
(***************************************************************************)
EXTENDS Integers, Sequences, FiniteSets

CONSTANTS MaxChapter,
          Branches,       \* the translations
          BookTasks,      \* the downloads the owner asks for
          MaxUpsets       \* cancels, deletions and deaths of a worker

ASSUME BooksAssumption == MaxUpsets \in Nat /\ MaxChapter \in Nat

VARIABLES medium,      \* "text" (novels, manga) or "anime"
          title,       \* the committed row: none, or the branch it names
          chapterRows, \* LibChapter: the text of every row a chapter has
          book,        \* the tasks
          untidy,      \* a download was broken off, ran beside another, or left
                       \* chapters of another branch
          upsets       \* how many there were

bookVars == <<medium, title, chapterRows, book, untidy, upsets>>

Chapters == 1..MaxChapter      \* in their order
NoTitle == "none"
ASSUME BranchesAssumption == NoTitle \notin Branches

Unasked == [at |-> "unasked", branch |-> NoTitle, sync |-> FALSE, changed |-> FALSE,
            inserts |-> FALSE, todo |-> {}, had |-> {}, wants |-> {}, chapter |-> {},
            found |-> 0, failed |-> FALSE, deleted |-> FALSE, revoked |-> FALSE]

Upset == upsets < MaxUpsets /\ upsets' = upsets + 1
Downloading(d) == book[d].at \in {"inserting", "chapters", "fetched"}
Has(c) == chapterRows[c] # <<>>
Writes(d, changed) == book' = [book EXCEPT ![d] = changed]
Ends(d, how) ==
    /\ book' = [book EXCEPT ![d] = [Unasked EXCEPT !.at = how]]
    /\ untidy' = (untidy \/ how # "completed")

-----------------------------------------------------------------------------
\* The owner's requests.
Asks(d, branch, sync) ==
    /\ book[d].at = "unasked"
    /\ Writes(d, [Unasked EXCEPT !.at = "queued", !.branch = branch, !.sync = sync])
    /\ UNCHANGED <<medium, title, chapterRows, untidy, upsets>>

trigger_download_book(d) == \E b \in Branches : Asks(d, b, FALSE)
sync_media(d) == title # NoTitle /\ Asks(d, title, TRUE)

\* The rows of the chapters go with the title's.
delete_media ==
    /\ title # NoTitle /\ Upset
    /\ title' = NoTitle
    /\ chapterRows' = [c \in Chapters |-> <<>>]
    /\ book' = [d \in BookTasks |-> [book[d] EXCEPT !.deleted = @ \/ Downloading(d)]]
    /\ UNCHANGED <<medium, untidy>>

cancel_task(d) ==
    /\ book[d].at \notin {"unasked", "completed", "failed"} /\ ~book[d].revoked
    /\ Upset
    /\ Writes(d, [book[d] EXCEPT !.revoked = TRUE])
    /\ UNCHANGED <<medium, title, chapterRows, untidy>>

-----------------------------------------------------------------------------
\* download_lib_task.
Quiet(d) == UNCHANGED <<medium, title, chapterRows, upsets>>

\* The chapters of the branch; a sync leaves out those that have a row.
StartsBook(d, listed) ==
    LET missing == IF book[d].sync THEN {c \in listed : ~Has(c)} ELSE listed
    IN /\ book[d].at = "queued" /\ (book[d].sync \/ listed # {})
       /\ Writes(d, [book[d] EXCEPT !.at = IF title = NoTitle THEN "inserting" ELSE "chapters",
                        !.todo = missing, !.wants = missing,
                        !.had = {c \in Chapters : Has(c)},
                        !.changed = title # NoTitle /\ title # book[d].branch])
       /\ untidy' = (\/ untidy \/ \E e \in BookTasks \ {d} : Downloading(e)
                     \/ title \notin {NoTitle, book[d].branch}
                        /\ \E c \in Chapters \ missing : Has(c))
       /\ Quiet(d)

SourceRefuses(d) ==
    /\ book[d].at = "queued" /\ Ends(d, "failed") /\ Quiet(d)

\* The insert waits for another one that is not committed, and fails after it.
InsertsTitle(d) ==
    /\ book[d].at = "inserting"
    /\ ~\E e \in BookTasks : book[e].inserts
    /\ IF title # NoTitle
       THEN Ends(d, "failed")
       ELSE /\ Writes(d, [book[d] EXCEPT !.at = "chapters", !.inserts = TRUE])
            /\ UNCHANGED untidy
    /\ Quiet(d)

\* At each chapter: it is kept, or fetched.
Kept(d, c) == /\ c \in book[d].had /\ Has(c) /\ Head(chapterRows[c]) # "empty"
              /\ medium = "anime" \/ ~book[d].changed

TakesChapter(d, c) ==
    /\ book[d].at = "chapters" /\ c \in book[d].todo
    /\ \A b \in book[d].todo : c <= b

KeepsChapter(d, c) ==
    /\ TakesChapter(d, c) /\ Kept(d, c)
    /\ Writes(d, [book[d] EXCEPT !.todo = @ \ {c}])
    /\ UNCHANGED untidy /\ Quiet(d)

FetchesChapter(d, c) ==
    /\ TakesChapter(d, c) /\ ~Kept(d, c)
    /\ Writes(d, [book[d] EXCEPT !.at = "fetched", !.todo = @ \ {c}, !.chapter = {c},
                                 !.found = Len(chapterRows[c])])
    /\ UNCHANGED untidy /\ Quiet(d)

\* Mutant: a chapter that failed is left out, in every medium.
SkipsFailed(d) ==
    /\ book[d].at = "fetched"
    /\ Writes(d, [book[d] EXCEPT !.at = "chapters", !.chapter = {}])
    /\ UNCHANGED untidy /\ Quiet(d)

\* The fetch, the lookup (two rows of one chapter) or the commit failed.
ChapterFails(d) ==
    /\ book[d].at = "fetched"
    /\ Writes(d, [book[d] EXCEPT !.at = "chapters", !.chapter = {},
                                 !.failed = @ \/ medium = "text"])
    /\ UNCHANGED untidy /\ Quiet(d)

\* The row that was found is written, or one is added; no constraint is in the
\* way of a second.  A title that is gone lets no chapter in.
SavesChapter(d, c, text) ==
    /\ book[d].at = "fetched" /\ book[d].chapter = {c} /\ book[d].found < 2
    /\ title # NoTitle \/ book[d].inserts
    /\ ~book[d].deleted
    /\ Len(chapterRows[c]) < 2
    /\ chapterRows' = [chapterRows EXCEPT ![c] =
                         IF book[d].found = 0 THEN Append(@, text) ELSE <<text>> \o Tail(@)]
    /\ title' = IF book[d].changed \/ book[d].inserts THEN book[d].branch ELSE title
    /\ Writes(d, [book[d] EXCEPT !.at = "chapters", !.inserts = FALSE, !.chapter = {}])
    /\ UNCHANGED <<medium, untidy, upsets>>

FinishesBook(d) ==
    /\ book[d].at = "chapters" /\ book[d].todo = {}
    /\ IF book[d].failed THEN Ends(d, "failed") ELSE Ends(d, "completed")
    /\ Quiet(d)

-----------------------------------------------------------------------------
\* Cancelled: it finds its tracker gone, or its process is ended.
NoticesCancel(d) ==
    /\ book[d].revoked /\ Ends(d, "failed") /\ Quiet(d)

\* The worker dies: the task is delivered again, or lost with the child that ran it.
BookIsKilled(d) ==
    /\ Downloading(d) /\ Upset
    /\ \/ Ends(d, "failed")
       \/ /\ Writes(d, [Unasked EXCEPT !.at = "queued", !.branch = book[d].branch,
                                       !.sync = book[d].sync, !.revoked = book[d].revoked])
          /\ untidy' = TRUE
    /\ UNCHANGED <<medium, title, chapterRows>>

BooksInit ==
    /\ medium \in {"text", "anime"} /\ title = NoTitle
    /\ chapterRows = [c \in Chapters |-> <<>>]
    /\ book = [d \in BookTasks |-> Unasked]
    /\ untidy = FALSE /\ upsets = 0

BooksNext ==
    \/ delete_media
    \/ \E d \in BookTasks :
          \/ trigger_download_book(d) \/ sync_media(d) \/ cancel_task(d)
          \/ SourceRefuses(d) \/ InsertsTitle(d) \/ NoticesCancel(d) \/ ChapterFails(d)
          \/ FinishesBook(d) \/ BookIsKilled(d)
          \/ \E listed \in SUBSET Chapters : StartsBook(d, listed)
          \/ \E c \in Chapters :
                \/ KeepsChapter(d, c) \/ FetchesChapter(d, c)
                \/ \E text \in {book[d].branch} \cup
                               IF medium = "text" THEN {"empty"} ELSE {} : SavesChapter(d, c, text)

BooksSpec == BooksInit /\ [][BooksNext]_bookVars

-----------------------------------------------------------------------------
BooksTypeOK ==
    /\ medium \in {"text", "anime"} /\ title \in Branches \cup {NoTitle}
    /\ \A c \in Chapters : Len(chapterRows[c]) <= 2
    /\ \A d \in BookTasks : book[d].todo \cup book[d].had \cup book[d].wants \subseteq Chapters
    /\ untidy \in BOOLEAN /\ upsets \in 0..MaxUpsets

(* A novel or manga download that reports Completed has a row for each        *)
(* chapter it was to bring, unless the title was deleted under it; and if no   *)
(* download was ever broken off, ran beside another or left chapters of        *)
(* another branch, every chapter is in the branch that was asked for.          *)
Completes(d) == book[d].at # "completed" /\ book'[d].at = "completed"
CompletedIsWhole ==
    [][\A d \in BookTasks : (Completes(d) /\ medium = "text" /\ ~book[d].deleted) =>
          \A c \in book[d].wants :
             /\ Has(c)
             /\ ~untidy => \A i \in DOMAIN chapterRows[c] :
                              chapterRows[c][i] \in {book[d].branch, "empty"}]_bookVars
=============================================================================
