---------------------------- MODULE SearchIndex ----------------------------
(***************************************************************************)
(* The search index (app/modules/search) and one module that feeds it.     *)
(* Every flush of an indexed row leaves a row in the refresh outbox.  A    *)
(* search first brings the index up to date: it reads the module's rows    *)
(* page by page, drops what no page showed, deletes the module's outbox    *)
(* rows, and commits all of it with its request.  The rows change between  *)
(* its statements (READ COMMITTED).                                        *)
(*                                                                         *)
(* A row is the number of the write that last touched it, which is its     *)
(* place in the provider's order; 0 is no row.  Requests take the row of   *)
(* search_sync_state before they read a page, so they refresh one at a     *)
(* time.                                                                   *)
(***************************************************************************)
EXTENDS Integers, FiniteSets

CONSTANTS Docs,        \* rows of the module
          PageSize,    \* SearchDocumentsRequest.limit
          MaxWrites,   \* writes of the module
          MaxFailures  \* refreshes that raise, restarts with the module off

ASSUME SearchAssumption == PageSize \in Nat \ {0} /\ MaxWrites \in Nat /\ MaxFailures \in Nat

VARIABLES docRows,    \* the module's table
          writes,     \* how many writes there were
          outbox,     \* search_refresh_outbox: the writes it still names
          searchDocs, \* search_documents
          syncState,  \* search_sync_state of the provider
          refresh,    \* the request that refreshes, if one does
          provided,   \* is the module active in this process
          faults

searchVars == <<docRows, writes, outbox, searchDocs, syncState, refresh, provided, faults>>

Stamps == 0..MaxWrites
Empty == [d \in Docs |-> 0]
NoRefresh == [at |-> "idle", offset |-> 0, seen |-> Empty, purged |-> {}]

SearchInit ==
    /\ docRows = Empty /\ writes = 0 /\ outbox = {} /\ searchDocs = Empty
    /\ syncState = [known |-> FALSE, recent |-> FALSE, error |-> FALSE, tried |-> FALSE]
    /\ refresh = NoRefresh /\ provided = TRUE /\ faults = 0

-----------------------------------------------------------------------------
\* A row is added, edited or deleted, and the same transaction adds its mark.
_enqueue_changed_modules ==
    /\ writes < MaxWrites
    /\ writes' = writes + 1
    /\ outbox' = outbox \cup {writes'}
    /\ \E d \in Docs, stamp \in {0, writes'} :
          (stamp # 0 \/ docRows[d] # 0) /\ docRows' = [docRows EXCEPT ![d] = stamp]
    /\ UNCHANGED <<searchDocs, syncState, refresh, provided, faults>>

\* SYNC_TTL and FAILED_SYNC_RETRY_DELAY run out.
TimePasses ==
    /\ syncState.recent \/ syncState.tried
    /\ syncState' = [syncState EXCEPT !.recent = FALSE, !.tried = FALSE]
    /\ UNCHANGED <<docRows, writes, outbox, searchDocs, refresh, provided, faults>>

\* Mutant: a module without marks in the outbox is left alone.
NeedsMarks(force) ==
    /\ force \/ outbox # {} \/ ~syncState.known \/ syncState.error
    /\ force \/ ~(syncState.known /\ syncState.error /\ syncState.tried)

NeedsSync(force) ==
    /\ force \/ outbox # {} \/ ~syncState.known \/ syncState.error \/ ~syncState.recent
    /\ force \/ ~(syncState.known /\ syncState.error /\ syncState.tried)

\* A search, or a forced reindex.
refresh_index(force) ==
    /\ refresh.at = "idle" /\ provided /\ NeedsSync(force)
    /\ refresh' = [NoRefresh EXCEPT !.at = "pages"]
    /\ UNCHANGED <<docRows, writes, outbox, searchDocs, syncState, provided, faults>>

\* One page of the provider: the rows last written first.
Place(d) == Cardinality({e \in Docs : docRows[e] > docRows[d]})
Page(offset) == {d \in Docs : /\ docRows[d] # 0
                              /\ Place(d) >= offset /\ Place(d) < offset + PageSize}
MoreAfter(offset) == \E d \in Docs : docRows[d] # 0 /\ Place(d) >= offset + PageSize

_sync_provider ==
    /\ refresh.at = "pages"
    /\ refresh' = [refresh EXCEPT
          !.seen = [d \in Docs |-> IF d \in Page(refresh.offset) THEN docRows[d] ELSE @[d]],
          !.offset = @ + PageSize,
          !.at = IF MoreAfter(refresh.offset) THEN "pages" ELSE "purge"]
    /\ UNCHANGED <<docRows, writes, outbox, searchDocs, syncState, provided, faults>>

\* The marks of the module that are committed by now go, all of them.
PurgesOutbox ==
    /\ refresh.at = "purge"
    /\ refresh' = [refresh EXCEPT !.at = "commit", !.purged = outbox]
    /\ UNCHANGED <<docRows, writes, outbox, searchDocs, syncState, provided, faults>>

RefreshCommits ==
    /\ refresh.at = "commit"
    /\ searchDocs' = refresh.seen
    /\ outbox' = outbox \ refresh.purged
    /\ syncState' = [known |-> TRUE, recent |-> TRUE, error |-> FALSE, tried |-> TRUE]
    /\ refresh' = NoRefresh
    /\ UNCHANGED <<docRows, writes, provided, faults>>

\* The provider raises, which rolls the savepoint back and notes the error, or
\* the request dies, which notes nothing.
RefreshFails(noted) ==
    /\ refresh.at # "idle" /\ faults < MaxFailures
    /\ faults' = faults + 1
    /\ refresh' = NoRefresh
    /\ syncState' = IF noted THEN [syncState EXCEPT !.known = TRUE, !.error = TRUE, !.tried = TRUE]
                    ELSE syncState
    /\ UNCHANGED <<docRows, writes, outbox, searchDocs, provided>>

\* A restart with the module switched off or on again.
Restart ==
    /\ faults < MaxFailures
    /\ faults' = faults + 1
    /\ provided' = ~provided /\ refresh' = NoRefresh
    /\ UNCHANGED <<docRows, writes, outbox, searchDocs, syncState>>

\* The next refresh forgets a provider that is gone.
ForgetsProvider ==
    /\ ~provided /\ syncState.known
    /\ searchDocs' = Empty
    /\ syncState' = [known |-> FALSE, recent |-> FALSE, error |-> FALSE, tried |-> FALSE]
    /\ UNCHANGED <<docRows, writes, outbox, refresh, provided, faults>>

SearchRequest == (\E force \in BOOLEAN : refresh_index(force)) \/ ForgetsProvider
RefreshSteps == _sync_provider \/ PurgesOutbox \/ RefreshCommits

SearchNext == \/ _enqueue_changed_modules \/ TimePasses \/ SearchRequest \/ RefreshSteps
              \/ (\E noted \in BOOLEAN : RefreshFails(noted)) \/ Restart

SearchArrives == refresh_index(FALSE) \/ ForgetsProvider
SearchFairness == /\ WF_searchVars(SearchArrives)
                  /\ WF_searchVars(RefreshSteps)
                  /\ WF_searchVars(TimePasses)

SearchSpec == SearchInit /\ [][SearchNext]_searchVars /\ SearchFairness

-----------------------------------------------------------------------------
SearchTypeOK ==
    /\ docRows \in [Docs -> Stamps] /\ searchDocs \in [Docs -> Stamps]
    /\ writes \in Stamps /\ outbox \subseteq 1..MaxWrites /\ faults \in 0..MaxFailures
    /\ syncState \in [known : BOOLEAN, recent : BOOLEAN, error : BOOLEAN, tried : BOOLEAN]
    /\ refresh \in [at : {"idle", "pages", "purge", "commit"}, offset : Nat,
                    seen : [Docs -> Stamps], purged : SUBSET (1..MaxWrites)]
    /\ provided \in BOOLEAN

(* While searches keep coming, the index catches up with the module: a row   *)
(* missed between two pages, whose mark was deleted with the others, is      *)
(* found when the sync is stale; what a module that is off indexed goes.     *)
IndexCatchesUp == []<>(searchDocs = IF provided THEN docRows ELSE Empty)
=============================================================================
