----------------------------- MODULE VaultCards -----------------------------
(***************************************************************************)
(* Cards and spaces of the Vault (app/modules/vault/services.py,           *)
(* sealing.py, router.py): what every endpoint that changes a card or a    *)
(* space leaves in its row.                                                *)
(*                                                                         *)
(* A request is one database session.  The ones whose reads can go stale   *)
(* are two steps, Load and Commit: the row is read, the session key is     *)
(* awaited, and the commit writes the columns the session saw change - no  *)
(* more.  Any number of tabs run requests at once, and any request may die *)
(* between its steps.                                                      *)
(***************************************************************************)
EXTENDS Naturals, FiniteSets, Sequences

CONSTANTS Cards, Spaces,
          Sealed,       \* the spaces created with a passphrase
          Tabs,         \* requests that may be in flight at once
          Alone,        \* the endpoints that run with no other request in flight
          Allowed,      \* the endpoints and input shapes this instance sends
          NoCard, Gone, \* a card not created yet, and one deleted: ids are not reused
          Unfiled, NoBox, Root, Idle

(* Four are shapes of input or of order: a new card under a cover, a stacked *)
(* card filed by itself, a stack put into a stack, and a card that comes into *)
(* a sealed space whose deletion has already listed its cards.               *)
Endpoints == {"create", "createKid", "video", "read", "edit", "file", "fileKid", "stack",
              "nestStack", "delete", "deleteSpace", "orphan", "merge", "nest", "dissolve"}

ASSUME SealedAssumption == Sealed \subseteq Spaces /\ IsFiniteSet(Spaces)
ASSUME AllowedAssumption == Allowed \subseteq Endpoints /\ Alone \subseteq Endpoints
ASSUME NamesAssumption ==
  /\ NoCard \notin Cards /\ Gone \notin Cards /\ NoCard # Gone
  /\ Unfiled \notin Spaces /\ NoBox \notin Spaces /\ Root \notin Spaces
  /\ Idle \notin Tabs

VARIABLES
  card,      \* the committed row of each card, or NoCard, or Gone
  spaces,    \* the spaces that exist
  parent,    \* VaultCollection.parent_id
  unlocked,  \* sealed spaces this owner's tab holds a session key for
  req        \* the request each tab has in flight, with the row it loaded

vars == <<card, spaces, parent, unlocked, req>>

(* A row: `clear` when the readable columns hold what the owner wrote,     *)
(* `box` the space whose inbox key and id the sealed payload is bound to,   *)
(* `real` when that payload holds the owner's content and not blanks,       *)
(* `cover` the card this one is stacked under (parent_id).                  *)
Rows == [space : Spaces \cup {Unfiled}, clear : BOOLEAN,
         box : Spaces \cup {NoBox}, real : BOOLEAN, cover : Cards \cup {NoCard}]
ASSUME MarksAssumption == NoCard \notin Rows /\ Gone \notin Rows

Existing == {c \in Cards : card[c] \notin {NoCard, Gone}}
Kids(c) == {k \in Existing : card[k].cover = c}
is_sealed_collection(s) == s \in Sealed
has_session_key(s) == s \in unlocked

(* seal_item: the payload is whatever the columns hold, then they are       *)
(* blanked; in memory, so a blank column sealed again gives a blank box.    *)
seal_item(row, s) ==
  [row EXCEPT !.space = s, !.box = s, !.real = row.clear, !.clear = FALSE]

(* open_item fills the columns in memory.  The payload opens only under the *)
(* key of the space it was sealed for, and only while the row is there.     *)
can_open(row, key) == row.box # NoBox => row.box = key /\ row.space = key
open_item(row) == IF row.box = NoBox THEN row ELSE [row EXCEPT !.clear = row.real]

(* The UPDATE a commit sends: the columns that differ from the loaded row.  *)
Flush(now, loaded, mine) ==
  [f \in DOMAIN now |-> IF mine[f] # loaded[f] THEN mine[f] ELSE now[f]]

(* Sealing always writes a fresh payload and key, whatever they replace.    *)
FlushSealed(now, loaded, mine) ==
  [Flush(now, loaded, mine) EXCEPT !.box = mine.box, !.real = mine.real]

Init ==
  /\ card = [c \in Cards |-> NoCard]
  /\ spaces = Spaces
  /\ parent = [s \in Spaces |-> Root]
  /\ unlocked = {}
  /\ req = [t \in Tabs |-> Idle]

(* A request starts.  An endpoint in Alone waits for the requests in flight, *)
(* and while it runs no other starts.                                       *)
Starts(endpoint) ==
  /\ endpoint \in Allowed
  /\ endpoint \in Alone => \A t \in Tabs : req[t] = Idle
  /\ \A t \in Tabs : req[t] # Idle => req[t].op \notin Alone

Done(t) == req' = [req EXCEPT ![t] = Idle]

(***************************************************************************)
(* The lock.                                                               *)
(***************************************************************************)
Unlock(s) ==
  /\ s \in (spaces \cap Sealed) \ unlocked
  /\ unlocked' = unlocked \cup {s}
  /\ UNCHANGED <<card, spaces, parent, req>>

Lock(s) ==
  /\ s \in unlocked
  /\ unlocked' = unlocked \ {s}
  /\ UNCHANGED <<card, spaces, parent, req>>

(***************************************************************************)
(* New cards.                                                              *)
(***************************************************************************)
NewRow(s, cover) == [space |-> s, clear |-> TRUE, box |-> NoBox, real |-> FALSE,
                     cover |-> cover]

(* parent_id is taken as it comes: any card there is, whatever its space.   *)
(* Neither the dashboard nor the extension sends one.                       *)
CanCover(cover) == cover = NoCard \/ (cover \in Existing /\ "createKid" \in Allowed)

(* create_item, and create_capture of anything but a video: one commit, and *)
(* the row is sealed before it.                                             *)
create_item(c, s, cover) ==
  /\ Starts("create")
  /\ card[c] = NoCard
  /\ s \in spaces \cup {Unfiled}
  /\ CanCover(cover)
  /\ card' = [card EXCEPT ![c] = IF is_sealed_collection(s)
                                 THEN seal_item(NewRow(s, cover), s) ELSE NewRow(s, cover)]
  /\ UNCHANGED <<spaces, parent, unlocked, req>>

(* create_video_capture_item commits the row to have an id to queue the     *)
(* download for; create_capture seals it after that.                        *)
create_video_capture_item(t, c, s, cover) ==
  /\ Starts("video")
  /\ req[t] = Idle
  /\ card[c] = NoCard
  /\ s \in spaces \cup {Unfiled}
  /\ CanCover(cover)
  /\ card' = [card EXCEPT ![c] = NewRow(s, cover)]
  /\ req' = [req EXCEPT ![t] = [op |-> "video", card |-> c, row |-> NewRow(s, cover), to |-> s]]
  /\ UNCHANGED <<spaces, parent, unlocked>>

create_capture(t) ==
  /\ req[t] # Idle /\ req[t].op = "video"
  /\ LET c == req[t].card
         row == req[t].row
     IN card' = IF is_sealed_collection(row.space) /\ c \in Existing
                THEN [card EXCEPT ![c] = FlushSealed(@, row, seal_item(row, row.space))]
                ELSE card
  /\ Done(t)
  /\ UNCHANGED <<spaces, parent, unlocked>>

(***************************************************************************)
(* One card: read, edit, stack, file.                                      *)
(***************************************************************************)
(* The request reads the row and, for a sealed space, awaits its session    *)
(* key: a read of a locked card never opens it, an edit is refused.         *)
Load(t, c, op, to) ==
  /\ Starts(op)
  /\ req[t] = Idle
  /\ c \in Existing
  /\ is_sealed_collection(card[c].space) =>
       has_session_key(card[c].space) /\ can_open(card[c], card[c].space)
  /\ req' = [req EXCEPT ![t] = [op |-> op, card |-> c, row |-> card[c], to |-> to]]
  /\ UNCHANGED <<card, spaces, parent, unlocked>>

LoadRead(t, c) == is_sealed_collection(card[c].space) /\ Load(t, c, "read", Root)
LoadEdit(t, c) == Load(t, c, "edit", Root)

(* What the dashboard offers when a card is dropped on another's grip        *)
(* (vaultStackRefusal), or taken from its stack; the handler asks for none   *)
(* of it.                                                                   *)
Offered(c, cover) ==
  IF cover = NoCard THEN card[c].cover # NoCard
  ELSE /\ cover \in Existing /\ c # cover
       /\ card[c].space = card[cover].space
       /\ card[cover].cover = NoCard
       /\ Kids(c) # {} => "nestStack" \in Allowed

LoadStack(t, c, cover) == Offered(c, cover) /\ Load(t, c, "stack", cover)

(* The dashboard offers every space but the card's own.  A stacked card can *)
(* be filed alone: from its own view, or from a page without its cover.     *)
LoadFile(t, c, to) ==
  /\ card[c].cover # NoCard => "fileKid" \in Allowed
  /\ to \in (spaces \cup {Unfiled}) \ {card[c].space}
  /\ Load(t, c, "file", to)

(* get_item_by_id, get_items, get_random_item and move_item open the row    *)
(* for the response; the session commits when the handler returns (get_db). *)
get_item_by_id(t) ==
  /\ req[t] # Idle /\ req[t].op = "read"
  /\ LET c == req[t].card
         row == req[t].row
     IN card' = IF c \notin Existing THEN card
                ELSE [card EXCEPT ![c] = Flush(@, row, open_item(row))]
  /\ Done(t)
  /\ UNCHANGED <<spaces, parent, unlocked>>

(* update_sealed_item opens, changes and seals again in one commit;         *)
(* update_vault_item writes the readable columns.                           *)
update_item(t) ==
  /\ req[t] # Idle /\ req[t].op = "edit"
  /\ LET c == req[t].card
         row == req[t].row
         edited == [open_item(row) EXCEPT !.clear = TRUE]
     IN card' = IF c \notin Existing THEN card
                ELSE IF is_sealed_collection(row.space)
                THEN [card EXCEPT ![c] = FlushSealed(@, row, seal_item(edited, row.space))]
                ELSE [card EXCEPT ![c].clear = TRUE]
  /\ Done(t)
  /\ UNCHANGED <<spaces, parent, unlocked>>

(* The same endpoint with a new parent_id, or with none.  The foreign key    *)
(* refuses a cover that is gone.                                            *)
Restack(row, cover) ==
  IF is_sealed_collection(row.space)
  THEN [seal_item(open_item(row), row.space) EXCEPT !.cover = cover]
  ELSE [row EXCEPT !.cover = cover]

stack_card(t) ==
  /\ req[t] # Idle /\ req[t].op = "stack"
  /\ LET c == req[t].card
         row == req[t].row
         cover == req[t].to
     IN card' = IF c \notin Existing \/ cover \notin Existing \cup {NoCard} THEN card
                ELSE IF is_sealed_collection(row.space)
                THEN [card EXCEPT ![c] = FlushSealed(@, row, Restack(row, cover))]
                ELSE [card EXCEPT ![c] = Flush(@, row, Restack(row, cover))]
  /\ Done(t)
  /\ UNCHANGED <<spaces, parent, unlocked>>

(* Mutant: the move re-seals the cover only.                                *)
MovesCoverOnly(t) ==
  /\ req[t] # Idle /\ req[t].op = "file"
  /\ LET c == req[t].card
         row == req[t].row
         to == req[t].to
     IN /\ is_sealed_collection(row.space)
        /\ card' = IF is_sealed_collection(to) /\ to \in spaces /\ c \in Existing
                   THEN [card EXCEPT ![c] =
                           FlushSealed(@, row, seal_item(open_item(row), to))]
                   ELSE card
  /\ Done(t)
  /\ UNCHANGED <<spaces, parent, unlocked>>

(* Mutant: the stack is moved with its cover but not sealed again.          *)
MovesStackUnsealed(t) ==
  /\ req[t] # Idle /\ req[t].op = "file"
  /\ LET c == req[t].card
         row == req[t].row
         to == req[t].to
     IN /\ is_sealed_collection(row.space)
        /\ card' =
             IF is_sealed_collection(to) /\ to \in spaces /\ c \in Existing
             THEN [x \in Cards |->
                     IF x = c THEN FlushSealed(card[x], row, seal_item(open_item(row), to))
                     ELSE IF x \in Kids(c) THEN [card[x] EXCEPT !.space = to] ELSE card[x]]
             ELSE card
  /\ Done(t)
  /\ UNCHANGED <<spaces, parent, unlocked>>

(* move_sealed_item: sealed space to sealed space, cover and stack at once. *)
(* Every row is opened first; one that does not open aborts the move.       *)
move_sealed_item(t) ==
  /\ req[t] # Idle /\ req[t].op = "file"
  /\ LET c == req[t].card
         row == req[t].row
         to == req[t].to
         moved(r) == seal_item(open_item(r), to)
     IN /\ is_sealed_collection(row.space)
        /\ card' =
             IF /\ is_sealed_collection(to) /\ to \in spaces
                /\ c \in Existing
                /\ \A k \in Kids(c) : can_open(card[k], row.space)
             THEN [x \in Cards |->
                     IF x = c THEN FlushSealed(card[x], row, moved(row))
                     ELSE IF x \in Kids(c) THEN moved(card[x]) ELSE card[x]]
             ELSE card
  /\ Done(t)
  /\ UNCHANGED <<spaces, parent, unlocked>>

(* update_vault_item with a new space: a sealed card is refused, a plain    *)
(* one is sealed into a sealed space, and the stack goes with its cover.    *)
update_vault_item(t) ==
  /\ req[t] # Idle /\ req[t].op = "file"
  /\ LET c == req[t].card
         row == req[t].row
         to == req[t].to
         into == is_sealed_collection(to) /\ to # row.space
         refused == row.box # NoBox /\ to # row.space
         kid(r) == IF into THEN seal_item(r, to) ELSE [r EXCEPT !.space = to]
     IN /\ ~is_sealed_collection(row.space)
        /\ card' =
             IF refused \/ c \notin Existing \/ to \notin spaces \cup {Unfiled} THEN card
             ELSE [x \in Cards |->
                     IF x = c /\ into THEN FlushSealed(card[x], row, seal_item(row, to))
                     ELSE IF x = c THEN Flush(card[x], row, [row EXCEPT !.space = to])
                     ELSE IF x \in Kids(c) THEN kid(card[x]) ELSE card[x]]
  /\ Done(t)
  /\ UNCHANGED <<spaces, parent, unlocked>>

(***************************************************************************)
(* Deletion of a card.                                                     *)
(***************************************************************************)
(* The row is loaded and its space must be unlocked: the tab holds a key,   *)
(* whether or not that key opens this card.                                 *)
LoadDelete(t, c) ==
  /\ Starts("delete")
  /\ req[t] = Idle
  /\ c \in Existing
  /\ is_sealed_collection(card[c].space) => has_session_key(card[c].space)
  /\ req' = [req EXCEPT ![t] = [op |-> "delete", card |-> c]]
  /\ UNCHANGED <<card, spaces, parent, unlocked>>

(* Rows gone from the table leave their stacked cards without a cover.      *)
Without(gone) ==
  [c \in Cards |-> IF c \in gone THEN Gone
                   ELSE IF c \in Existing /\ card[c].cover \in gone
                   THEN [card[c] EXCEPT !.cover = NoCard] ELSE card[c]]

(* The DELETE goes by id: wherever the card is by then, locked or not.      *)
delete_item(t) ==
  /\ req[t] # Idle /\ req[t].op = "delete"
  /\ card' = Without({req[t].card} \cap Existing)
  /\ Done(t)
  /\ UNCHANGED <<spaces, parent, unlocked>>

(***************************************************************************)
(* Spaces.                                                                 *)
(***************************************************************************)
Above(tree, s) ==
  LET up[n \in 0..Cardinality(Spaces)] ==
        IF n = 0 THEN {tree[s]} \ {Root}
        ELSE up[n - 1] \cup ({tree[a] : a \in up[n - 1]} \ {Root})
  IN up[Cardinality(Spaces)]

_ancestor_ids(s) == Above(parent, s)

(* The deletion of a space calls itself for every space nested in it, and    *)
(* each call commits.  A call holds its space and the nested ones it has     *)
(* read and not come to; the innermost stands first.                        *)
Call(s) == [space |-> s, kids |-> {d \in spaces : parent[d] = s}]
Deletion(calls) == [op |-> "deleteSpace", calls |-> calls, cards |-> {}, listed |-> FALSE]
DeletesSpaces(t) == req[t] # Idle /\ req[t].op = "deleteSpace"

(* A sealed space has asked for its own passphrase; what is nested in it, or *)
(* in a plain space, goes with it unasked.                                  *)
delete_coll(t, s) ==
  /\ Starts("deleteSpace")
  /\ req[t] = Idle
  /\ s \in spaces
  /\ req' = [req EXCEPT ![t] = Deletion(<<Call(s)>>)]
  /\ UNCHANGED <<card, spaces, parent, unlocked>>

DeletesNested(t, d) ==
  /\ DeletesSpaces(t)
  /\ LET calls == req[t].calls
         left == [Head(calls) EXCEPT !.kids = @ \ {d}]
     IN /\ d \in Head(calls).kids
        /\ req' = [req EXCEPT ![t] = Deletion(<<Call(d), left>> \o Tail(calls))]
  /\ UNCHANGED <<card, spaces, parent, unlocked>>

ListsCards(t) ==
  /\ DeletesSpaces(t)
  /\ Head(req[t].calls).kids = {} /\ ~req[t].listed
  /\ req' = [req EXCEPT ![t].listed = TRUE,
                        ![t].cards = {c \in Existing : card[c].space = Head(req[t].calls).space}]
  /\ UNCHANGED <<card, spaces, parent, unlocked>>

(* The cards listed go with their space, in one commit; one that came after  *)
(* them stays without a space, and so does a space nested there meanwhile.   *)
delete_collection(t) ==
  /\ DeletesSpaces(t)
  /\ req[t].listed
  /\ LET calls == req[t].calls
         s == Head(calls).space
         gone == req[t].cards \cap Existing
         late == {c \in Existing \ gone : card[c].space = s}
     IN /\ is_sealed_collection(s) /\ late # {} => "orphan" \in Allowed
        /\ card' = [c \in Cards |-> IF c \in late THEN [Without(gone)[c] EXCEPT !.space = Unfiled]
                                    ELSE Without(gone)[c]]
        /\ spaces' = spaces \ {s}
        /\ parent' = [x \in Spaces |-> IF x = s \/ parent[x] = s THEN Root ELSE parent[x]]
        /\ unlocked' = unlocked \ {s}
        /\ req' = [req EXCEPT ![t] = IF Len(calls) = 1 THEN Idle ELSE Deletion(Tail(calls))]

(* merge_collections refuses sealed spaces; spaces nested in the emptied    *)
(* one come out at the root.                                                *)
merge_collections(s, into) ==
  /\ Starts("merge")
  /\ s \in spaces \ Sealed
  /\ into \in (spaces \ (Sealed \cup {s})) \cup {Unfiled}
  /\ card' = [c \in Cards |-> IF c \in Existing /\ card[c].space = s
                              THEN [card[c] EXCEPT !.space = into] ELSE card[c]]
  /\ spaces' = spaces \ {s}
  /\ parent' = [x \in Spaces |-> IF x = s \/ parent[x] = s THEN Root ELSE parent[x]]
  /\ UNCHANGED <<unlocked, req>>

(* dissolve_space: what the folder holds moves up.  Only a sealed folder    *)
(* that holds cards is refused.                                             *)
dissolve_space(s) ==
  /\ Starts("dissolve")
  /\ s \in spaces /\ parent[s] # Root
  /\ is_sealed_collection(s) => \A c \in Existing : card[c].space # s
  /\ card' = [c \in Cards |-> IF c \in Existing /\ card[c].space = s
                              THEN [card[c] EXCEPT !.space = parent[s]] ELSE card[c]]
  /\ spaces' = spaces \ {s}
  /\ parent' = [x \in Spaces |-> IF x = s THEN Root
                                 ELSE IF parent[x] = s THEN parent[s] ELSE parent[x]]
  /\ unlocked' = unlocked \ {s}
  /\ UNCHANGED req

(* Mutant: only the target's own parent is looked at.                       *)
LooksOneUp(t, s, to) ==
  /\ Starts("nest")
  /\ req[t] = Idle
  /\ s \in spaces
  /\ to \in (spaces \ {s}) \cup {Root}
  /\ to # Root => s # parent[to]
  /\ req' = [req EXCEPT ![t] = [op |-> "nest", space |-> s, to |-> to]]
  /\ UNCHANGED <<card, spaces, parent, unlocked>>

(* _assert_can_nest walks up from the target; the move is written after.    *)
_assert_can_nest(t, s, to) ==
  /\ Starts("nest")
  /\ req[t] = Idle
  /\ s \in spaces
  /\ to \in (spaces \ {s}) \cup {Root}
  /\ to # Root => s \notin _ancestor_ids(to)
  /\ req' = [req EXCEPT ![t] = [op |-> "nest", space |-> s, to |-> to]]
  /\ UNCHANGED <<card, spaces, parent, unlocked>>

reorder_space(t) ==
  /\ req[t] # Idle /\ req[t].op = "nest"
  /\ parent' = IF req[t].space \in spaces /\ req[t].to \in spaces \cup {Root}
               THEN [parent EXCEPT ![req[t].space] = req[t].to] ELSE parent
  /\ Done(t)
  /\ UNCHANGED <<card, spaces, unlocked>>

(* A request dies with the process or its connection: rolled back.          *)
Abandon(t) ==
  /\ req[t] # Idle
  /\ Done(t)
  /\ UNCHANGED <<card, spaces, parent, unlocked>>

Next ==
  \/ \E s \in Spaces : Unlock(s) \/ Lock(s) \/ dissolve_space(s)
  \/ \E c \in Cards, s \in Spaces \cup {Unfiled}, cover \in Cards \cup {NoCard} :
       create_item(c, s, cover) \/ \E t \in Tabs : create_video_capture_item(t, c, s, cover)
  \/ \E t \in Tabs, c \in Existing :
       \/ LoadRead(t, c) \/ LoadEdit(t, c) \/ LoadDelete(t, c)
       \/ \E s \in Spaces \cup {Unfiled} : LoadFile(t, c, s)
       \/ \E cover \in Cards \cup {NoCard} : LoadStack(t, c, cover)
  \/ \E t \in Tabs, s \in Spaces : delete_coll(t, s) \/ DeletesNested(t, s)
  \/ \E t \in Tabs : \/ create_capture(t) \/ get_item_by_id(t) \/ update_item(t)
                     \/ stack_card(t) \/ move_sealed_item(t) \/ update_vault_item(t)
                     \/ delete_item(t) \/ ListsCards(t) \/ delete_collection(t)
                     \/ reorder_space(t) \/ Abandon(t)
  \/ \E s \in Spaces, to \in Spaces \cup {Unfiled} : merge_collections(s, to)
  \/ \E t \in Tabs, s \in Spaces, to \in Spaces \cup {Root} : _assert_can_nest(t, s, to)

Spec == Init /\ [][Next]_vars

(***************************************************************************)
(* Properties                                                              *)
(***************************************************************************)
TypeOK ==
  /\ card \in [Cards -> Rows \cup {NoCard, Gone}]
  /\ spaces \subseteq Spaces
  /\ parent \in [Spaces -> Spaces \cup {Root}]
  /\ unlocked \subseteq Sealed
  /\ \A t \in Tabs : req[t] # Idle =>
       \/ req[t].op = "nest" /\ req[t].space \in Spaces /\ req[t].to \in Spaces \cup {Root}
       \/ /\ req[t].op \in {"video", "read", "edit", "stack", "file"}
          /\ req[t].card \in Cards /\ req[t].row \in Rows
       \/ req[t].op = "delete" /\ req[t].card \in Cards
       \/ DeletesSpaces(t) /\ req[t].cards \subseteq Cards /\ req[t].calls # <<>>

(* "There must be no second, readable copy of what the owner wrote"         *)
(* (sealing.py:1279): between any two commits, a card of a sealed space is  *)
(* sealed and its readable columns are blank.                               *)
SealedSpaceIsSealed ==
  \A c \in Existing : is_sealed_collection(card[c].space) =>
    card[c].box # NoBox /\ ~card[c].clear

(* "Keeping it readable" (sealing.py:1642): a sealed card opens under the   *)
(* key of the space it stands in, and what opens is what was written.       *)
SealedCardOpens ==
  \A c \in Existing : card[c].box # NoBox =>
    can_open(card[c], card[c].space) /\ card[c].real

(* "A half-moved stack is exactly the state this is meant to avoid"         *)
(* (services.py:625): the cards of a stack stand where its cover stands.    *)
StackStaysTogether ==
  \A c \in Existing : card[c].cover \in Existing =>
    card[c].space = card[card[c].cover].space

(* "A drop cannot build a cycle" (services.py:1228): the space tree stays a *)
(* tree, and no space hangs under one that is gone.                         *)
SpacesFormATree ==
  \A s \in spaces : s \notin _ancestor_ids(s) /\ parent[s] \in spaces \cup {Root}

(* "A session cookie alone must not be enough to wipe a vault"              *)
(* (router.py:882): a card of a locked space is destroyed only by the       *)
(* deletion that asked for the passphrase of that space.                    *)
LockedCardsAreKept ==
  [][\A c \in Existing :
       /\ card'[c] = Gone
       /\ is_sealed_collection(card[c].space) /\ ~has_session_key(card[c].space)
       => \E t \in Tabs : /\ DeletesSpaces(t)
                         /\ req[t].calls[Len(req[t].calls)].space = card[c].space]_vars
=============================================================================
