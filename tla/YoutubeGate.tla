---------------------------- MODULE YoutubeGate ----------------------------
(***************************************************************************)
(* Who calls YouTube through yt-dlp: catalog reads, streams and comments   *)
(* of the pages (youtube/services.py) and the downloads of the workers     *)
(* (core/ytdlp_pipeline.py).  One gate in Redis spaces the calls of all    *)
(* processes and stops them while a cooldown runs.  A page whose request   *)
(* is cancelled leaves a thread behind, which keeps its place until it     *)
(* ends.  Ages are counted in ticks: since the last call, and left of a    *)
(* cooldown.  What InnerTube and the browser read does not come this way.  *)
(***************************************************************************)
EXTENDS Integers, FiniteSets

CONSTANTS CatalogReads, StreamReads, CommentReads, \* requests of the pages
          Downloads,                            \* tasks of the workers
          CatalogPages, Connected,              \* pages of a catalog; is there an account
          PublicGap, AuthGap, Backoff,          \* the intervals, in ticks
          StreamSlots,                          \* threads that read streams at once
          MaxYoutubeCancels                     \* how often one request is cancelled

SlotReads == StreamReads \cup CommentReads
Calling == CatalogReads \cup SlotReads \cup Downloads

\* The mark of the last call lives for four of its own intervals: a longer gap
\* for calls with cookies would not be kept.
ASSUME YoutubeGateAssumption ==
    /\ AuthGap <= 4 * PublicGap
    /\ PublicGap \in Nat /\ AuthGap \in Nat /\ Backoff \in Nat \ {0} /\ StreamSlots \in Nat
    /\ MaxYoutubeCancels \in Nat /\ Connected \in BOOLEAN
    /\ "none" \notin CatalogPages

\* A caller is of one kind.
ASSUME CallersAssumption ==
    /\ IsFiniteSet(CatalogReads) /\ IsFiniteSet(SlotReads)
    /\ CatalogReads \cap (SlotReads \cup Downloads) = {}
    /\ StreamReads \cap (CommentReads \cup Downloads) = {}

VARIABLES sinceCall,   \* ticks since the last call went through, to the longest interval
          cooldown,    \* ticks left of it
          fetch,       \* of each caller: what its thread does, and whether it has cookies
          asked,       \* of each caller: whether it waits or is answered, for which page
          cached       \* pages that are kept for a while

youtubeVars == <<sinceCall, cooldown, fetch, asked, cached>>

LongestGap == IF PublicGap > AuthGap THEN PublicGap ELSE AuthGap
NoThread == [at |-> "none", cookies |-> FALSE, fallback |-> FALSE]
NoCall == [at |-> "idle", page |-> "none", cancels |-> 0]
Queued(page) == [NoCall EXCEPT !.at = "queued", !.page = page]
Extracting(r) == fetch[r].at \in {"gate", "call"}
Gap(r) == IF fetch[r].cookies THEN AuthGap ELSE PublicGap

YoutubeGateInit ==
    /\ sinceCall = LongestGap /\ cooldown = 0
    /\ fetch = [r \in Calling |-> NoThread]
    /\ asked = [r \in Calling |-> NoCall]
    /\ cached = {}

YoutubeTick ==
    /\ sinceCall < LongestGap \/ cooldown > 0
    /\ sinceCall' = IF sinceCall < LongestGap THEN sinceCall + 1 ELSE sinceCall
    /\ cooldown' = IF cooldown > 0 THEN cooldown - 1 ELSE 0
    /\ UNCHANGED <<fetch, asked, cached>>

ThreadIs(r, at) == fetch' = [fetch EXCEPT ![r].at = at]
ThreadEnds(r) == fetch' = [fetch EXCEPT ![r] = NoThread]
\* What it brings is for the request that waits, if one still does.
BringsBack(r, result) == IF asked[r].at = "waits" THEN ThreadIs(r, result) ELSE ThreadEnds(r)
Begins(r, cookies, fallback) ==
    fetch' = [fetch EXCEPT ![r] = [at |-> "gate", cookies |-> cookies, fallback |-> fallback]]

-----------------------------------------------------------------------------
\* The script of the gate: one step in Redis.  One that has to wait tries again.
_wait_for_youtube_slot(r) ==
    /\ fetch[r].at = "gate"
    /\ \/ /\ cooldown > 0
          /\ BringsBack(r, "refused")
          /\ UNCHANGED sinceCall
       \/ /\ cooldown = 0 /\ sinceCall >= Gap(r)
          /\ ThreadIs(r, "call")
          /\ sinceCall' = 0
    /\ UNCHANGED <<cooldown, asked, cached>>

_open_rate_limit_cooldown == cooldown' = Backoff

\* Mutant: the call with cookies is made at once.
CallsAtOnce(r) == fetch' = [fetch EXCEPT ![r] = [at |-> "call", cookies |-> TRUE,
                                                   fallback |-> FALSE]]

\* A call that was refused without cookies is made again with them, where the
\* caller allows it: through the gate, like any other.
FallsBack(r) == Begins(r, TRUE, FALSE)

\* What YouTube answers: the media, a refusal that an account may lift, that
\* there are too many requests, or any other error.
extract_info(r) ==
    /\ fetch[r].at = "call"
    /\ \/ BringsBack(r, "answered") /\ UNCHANGED cooldown
       \/ BringsBack(r, "refused") /\ UNCHANGED cooldown
       \/ BringsBack(r, "refused") /\ _open_rate_limit_cooldown
       \/ fetch[r].fallback /\ FallsBack(r) /\ (UNCHANGED cooldown \/ _open_rate_limit_cooldown)
    /\ UNCHANGED <<sinceCall, asked, cached>>

-----------------------------------------------------------------------------
\* _extract_cached: the cache, the lock, the cache again, a thread.
CatalogAsks(r) ==
    \E p \in CatalogPages \ cached :
       /\ asked[r].at = "idle" /\ fetch[r].at = "none"
       /\ asked' = [asked EXCEPT ![r] = Queued(p)]
       /\ UNCHANGED <<sinceCall, cooldown, fetch, cached>>

extract_lock == \A r \in CatalogReads : asked[r].at # "waits"

CatalogTakesLock(r) ==
    /\ asked[r].at = "queued" /\ extract_lock
    /\ IF asked[r].page \in cached
       THEN asked' = [asked EXCEPT ![r] = NoCall] /\ UNCHANGED fetch
       ELSE /\ asked' = [asked EXCEPT ![r].at = "waits"]
            /\ Begins(r, Connected, FALSE)
    /\ UNCHANGED <<sinceCall, cooldown, cached>>

CatalogAnswers(r) ==
    /\ asked[r].at = "waits" /\ fetch[r].at \in {"answered", "refused"}
    /\ cached' = IF fetch[r].at = "answered" THEN cached \cup {asked[r].page} ELSE cached
    /\ asked' = [asked EXCEPT ![r] = NoCall]
    /\ ThreadEnds(r)
    /\ UNCHANGED <<sinceCall, cooldown>>

\* An entry is five minutes old, gives way to others, or all are cleared.
CacheForgets(p) ==
    /\ p \in cached /\ cached' = cached \ {p}
    /\ UNCHANGED <<sinceCall, cooldown, fetch, asked>>

\* create_stream and comments: a slot, a thread.
StreamAsks(r) ==
    /\ asked[r].at = "idle" /\ fetch[r].at = "none"
    /\ Cardinality({s \in SlotReads : asked[s].at = "waits"}) < StreamSlots
    /\ asked' = [asked EXCEPT ![r].at = "waits"]
    /\ Begins(r, Connected, FALSE)
    /\ UNCHANGED <<sinceCall, cooldown, cached>>

StreamAnswers(r) ==
    /\ asked[r].at = "waits" /\ fetch[r].at \in {"answered", "refused"}
    /\ asked' = [asked EXCEPT ![r] = NoCall]
    /\ ThreadEnds(r)
    /\ UNCHANGED <<sinceCall, cooldown, cached>>

\* Mutant: what the thread does is not waited for.
LeavesItsThread(r) ==
    /\ asked[r].at \in {"queued", "waits"} /\ asked[r].cancels < MaxYoutubeCancels
    /\ asked' = [asked EXCEPT ![r] = NoCall]
    /\ UNCHANGED <<sinceCall, cooldown, fetch, cached>>

\* A cancelled request waits for its thread, and keeps the lock or the slot;
\* one for comments does not.
Cancelled(r) ==
    /\ asked[r].at \in {"queued", "waits"} /\ asked[r].cancels < MaxYoutubeCancels
    /\ asked' = [asked EXCEPT ![r] =
           IF asked[r].at = "queued" \/ asked[r].cancels > 0 \/ r \in CommentReads THEN NoCall
           ELSE [asked[r] EXCEPT !.cancels = @ + 1]]
    /\ UNCHANGED <<sinceCall, cooldown, fetch, cached>>

\* A download of a worker process: the cookies, where there are any, are its
\* fallback, or all it tries.
Download(r) ==
    \E cookies \in {FALSE, Connected} :
       /\ fetch[r].at = "none"
       /\ Begins(r, cookies, Connected /\ ~cookies)
       /\ UNCHANGED <<sinceCall, cooldown, asked, cached>>

YoutubeGateNext ==
    \/ YoutubeTick
    \/ \E r \in Calling : _wait_for_youtube_slot(r) \/ extract_info(r)
    \/ \E r \in CatalogReads : CatalogAsks(r) \/ CatalogTakesLock(r) \/ CatalogAnswers(r)
    \/ \E r \in SlotReads : StreamAsks(r) \/ StreamAnswers(r)
    \/ \E r \in CatalogReads \cup SlotReads : Cancelled(r)
    \/ \E p \in CatalogPages : CacheForgets(p)
    \/ \E r \in Downloads : Download(r)

YoutubeGateSpec == YoutubeGateInit /\ [][YoutubeGateNext]_youtubeVars

-----------------------------------------------------------------------------
YoutubeGateTypeOK ==
    /\ sinceCall \in 0..LongestGap /\ cooldown \in 0..Backoff /\ cached \subseteq CatalogPages
    /\ fetch \in [Calling -> [at : {"none", "gate", "call", "answered", "refused"},
                               cookies : BOOLEAN, fallback : BOOLEAN]]
    /\ asked \in [Calling -> [at : {"idle", "queued", "waits"},
                                page : CatalogPages \cup {"none"}, cancels : 0..1]]

(* Whichever process or thread calls YouTube, first or as a fallback, and      *)
(* whichever requests were cancelled: a call goes out only when the interval   *)
(* since the last one has passed and no cooldown runs, and then at most one    *)
(* catalog and StreamSlots streams are being read (and the comments that were   *)
(* given up).                                                                  *)
CallsAreRationed ==
    [][\A r \in Calling : fetch'[r].at = "call" /\ fetch'[r] # fetch[r] =>
          /\ cooldown = 0
          /\ sinceCall >= IF fetch'[r].cookies THEN AuthGap ELSE PublicGap
          /\ Cardinality({c \in CatalogReads : Extracting(c)}) <= 1
          /\ Cardinality({c \in StreamReads : Extracting(c)}) <= StreamSlots]_youtubeVars
=============================================================================
