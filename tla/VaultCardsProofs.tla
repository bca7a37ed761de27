-------------------------- MODULE VaultCardsProofs -------------------------
(***************************************************************************)
(* The cards, the stacks and the spaces of the Vault, for any cards,       *)
(* spaces and tabs, and whatever of the requests a theorem allows.         *)
(*   RequestsInv    what a request that has loaded a row finds at its      *)
(*                  commit: its very row when it runs alone, otherwise a   *)
(*                  row on the same side of the lock                       *)
(*   StacksAreFlat  no stack lies in a stack, so moving a cover and its    *)
(*                  cards moves all there is                               *)
(*   CardsAreWhole  rows, and the rows requests hold, can be opened where  *)
(*                  they stand                                             *)
(*   TreeInv        the walk up from a space ends, and so does the walk    *)
(*                  from where a nesting is about to hang it               *)
(* A commit changes one row or moves a stack; each operation has one lemma *)
(* that says what it does to all four.                                     *)
(***************************************************************************)
EXTENDS VaultCards, FiniteSetTheorems, WellFoundedInduction, TLAPS

(***************************************************************************)
(* What a request that has loaded a row may rely on at its commit.  A      *)
(* filing and a stacking run alone, so they find the very row they loaded; *)
(* any other finds its card gone, or in the sealed space it stood in, or   *)
(* still outside of every sealed space.                                    *)
(***************************************************************************)
CardOps == {"video", "read", "edit", "stack", "file"}
CardRequests == [op : CardOps, card : Cards, row : Rows,
                 to : Spaces \cup {Unfiled, Root, NoCard} \cup Cards]
NestRequests == [op : {"nest"}, space : Spaces, to : Spaces \cup {Root}]
DeleteRequests == [op : {"delete"}, card : Cards]
Calls == [space : Spaces, kids : SUBSET Spaces]
SpaceDeletions == [op : {"deleteSpace"}, calls : Seq(Calls) \ {<<>>},
                   cards : SUBSET Cards, listed : BOOLEAN]
OtherRequests == NestRequests \cup DeleteRequests \cup SpaceDeletions
Requests == CardRequests \cup OtherRequests \cup {Idle}

CardsHaveTypes ==
    /\ card \in [Cards -> Rows \cup {NoCard, Gone}]
    /\ spaces \subseteq Spaces
    /\ parent \in [Spaces -> Spaces \cup {Root}]
    /\ unlocked \subseteq Sealed
    /\ req \in [Tabs -> Requests]

\* The request of tab t has loaded a card; it moves it: files or stacks it.
OnCard(t) == req[t] # Idle /\ req[t].op \in CardOps
Files(t) == req[t] # Idle /\ req[t].op = "file"
Moves(t) == req[t] # Idle /\ req[t].op \in {"file", "stack"}

RequestsAreAllowed ==
    \A t \in Tabs : OnCard(t) => req[t].op \in Allowed /\ card[req[t].card] # NoCard
MovesFit(q) ==
    /\ q.card \in Existing /\ card[q.card] = q.row
    /\ q.op = "file" => /\ q.to \in (Spaces \cup {Unfiled}) \ {q.row.space}
                        /\ q.row.cover # NoCard => "fileKid" \in Allowed
    /\ q.op = "stack" => q.to \in Cards \cup {NoCard} /\ Offered(q.card, q.to)
MovesAreAlone ==
    \A t \in Tabs : Moves(t) => MovesFit(req[t]) /\ \A u \in Tabs \ {t} : req[u] = Idle
RowsStay ==
    \A t \in Tabs : OnCard(t) /\ req[t].card \in Existing =>
       /\ is_sealed_collection(req[t].row.space) =>
             card[req[t].card].space = req[t].row.space
       /\ ~is_sealed_collection(req[t].row.space) /\ "dissolve" \notin Allowed =>
             ~is_sealed_collection(card[req[t].card].space)

RequestsInv == CardsHaveTypes /\ RequestsAreAllowed /\ MovesAreAlone /\ RowsStay

\* What this supposes of the requests: nothing runs beside a filing or a stacking,
\* and nothing comes into a sealed space whose deletion has listed its cards.
MovesAlone == "file" \in Alone /\ "stack" \in Alone /\ "orphan" \notin Allowed

\* No cover lies in a stack itself, and its cards stand where it stands.
StacksAreFlat ==
    \A c \in Existing : card[c].cover # NoCard =>
       /\ card[c].cover \in Existing
       /\ card[card[c].cover].cover = NoCard
       /\ card[c].space = card[card[c].cover].space

\* What a row holds can be had: its box opens where it stands, or it is clear.
Whole(row) ==
    /\ row.box # NoBox => row.box = row.space /\ row.real /\ row.box \in Sealed
    /\ row.box = NoBox => row.clear

CardsAreWhole ==
    /\ \A c \in Existing : Whole(card[c])
    /\ \A t \in Tabs : OnCard(t) => /\ Whole(req[t].row)
                                    /\ req[t].op = "video" => req[t].row.clear

\* The marks are no names, and no space is one.
LEMMA Marks ==
    /\ NoBox \notin Spaces /\ Unfiled \notin Spaces /\ Root \notin Spaces
    /\ Sealed \subseteq Spaces /\ Unfiled \notin Sealed
    /\ NoCard \notin Cards /\ NoCard # Gone /\ NoCard \notin Rows /\ Gone \notin Rows
  BY NamesAssumption, SealedAssumption, MarksAssumption

\* A card that exists has a row.
LEMMA ExistingHasRow ==
    ASSUME CardsHaveTypes
    PROVE  /\ Existing \subseteq Cards /\ \A c \in Existing : card[c] \in Rows
           /\ \A c \in Cards : card[c] \in Rows => c \in Existing
  BY Marks DEF CardsHaveTypes, Existing

\* The same of the rows a step leaves.
LEMMA ExistsAfter ==
    ASSUME CardsHaveTypes'
    PROVE  /\ Existing' \subseteq Cards /\ \A c \in Existing' : card'[c] \in Rows
           /\ \A c \in Cards : card'[c] \in Rows => c \in Existing'
  BY Marks DEF CardsHaveTypes, Existing

\* A row has its fields.
LEMMA RowFields ==
    ASSUME NEW row \in Rows
    PROVE  /\ row.space \in Spaces \cup {Unfiled} /\ row.clear \in BOOLEAN
           /\ row.box \in Spaces \cup {NoBox} /\ row.real \in BOOLEAN
           /\ row.cover \in Cards \cup {NoCard}
  BY DEF Rows

\* Sealing a row binds it to the space, and holds what was readable.
LEMMA SealedRow ==
    ASSUME NEW row \in Rows, NEW s \in Spaces
    PROVE  /\ seal_item(row, s) \in Rows
           /\ seal_item(row, s).space = s /\ seal_item(row, s).box = s
           /\ seal_item(row, s).real = row.clear /\ seal_item(row, s).clear = FALSE
           /\ seal_item(row, s).cover = row.cover
  BY DEF seal_item, Rows

\* Opening a row fills its readable columns, no more.
LEMMA OpenedRow ==
    ASSUME NEW row \in Rows
    PROVE  /\ open_item(row) \in Rows
           /\ open_item(row).space = row.space /\ open_item(row).box = row.box
           /\ open_item(row).real = row.real /\ open_item(row).cover = row.cover
           /\ open_item(row).clear = IF row.box = NoBox THEN row.clear ELSE row.real
  BY DEF open_item, Rows

\* A row written to its columns that differ.
LEMMA FlushedRow ==
    ASSUME NEW now \in Rows, NEW loaded \in Rows, NEW mine \in Rows
    PROVE  /\ Flush(now, loaded, mine) \in Rows
           /\ mine.space = loaded.space => Flush(now, loaded, mine).space = now.space
           /\ mine.cover = loaded.cover => Flush(now, loaded, mine).cover = now.cover
           /\ mine.box = loaded.box => Flush(now, loaded, mine).box = now.box
           /\ mine.real = loaded.real => Flush(now, loaded, mine).real = now.real
           /\ Flush(now, loaded, mine).clear =
                 IF mine.clear # loaded.clear THEN mine.clear ELSE now.clear
           /\ now = loaded => Flush(now, loaded, mine) = mine
  BY DEF Flush, Rows

\* A sealed row always brings its payload.
LEMMA FlushedSealedRow ==
    ASSUME NEW now \in Rows, NEW loaded \in Rows, NEW mine \in Rows
    PROVE  /\ FlushSealed(now, loaded, mine) \in Rows
           /\ mine.space = loaded.space => FlushSealed(now, loaded, mine).space = now.space
           /\ mine.cover = loaded.cover => FlushSealed(now, loaded, mine).cover = now.cover
           /\ FlushSealed(now, loaded, mine).box = mine.box
           /\ FlushSealed(now, loaded, mine).real = mine.real
           /\ FlushSealed(now, loaded, mine).clear =
                 IF mine.clear # loaded.clear THEN mine.clear ELSE now.clear
           /\ now = loaded => FlushSealed(now, loaded, mine) = mine
  <1> DEFINE f == Flush(now, loaded, mine)
  <1>1. /\ f \in Rows
        /\ mine.space = loaded.space => f.space = now.space
        /\ mine.cover = loaded.cover => f.cover = now.cover
        /\ f.clear = IF mine.clear # loaded.clear THEN mine.clear ELSE now.clear
        /\ now = loaded => f = mine
    BY FlushedRow
  <1>2. FlushSealed(now, loaded, mine) = [f EXCEPT !.box = mine.box, !.real = mine.real]
    BY DEF FlushSealed
  <1> HIDE DEF f
  <1> QED BY <1>1, <1>2 DEF Rows

\* No card comes back, and one that stays keeps its sealed space, or stays
\* outside of every sealed space if no space is dissolved.
CardsGoOn == \A c \in Cards : /\ card[c] # NoCard => card'[c] # NoCard
                              /\ card[c] = Gone => card'[c] = Gone
SpacesStay ==
    \A c \in Existing : c \in Existing' =>
       /\ is_sealed_collection(card[c].space) => card'[c].space = card[c].space
       /\ ~is_sealed_collection(card[c].space) /\ "dissolve" \notin Allowed =>
             ~is_sealed_collection(card'[c].space)

\* While a card is moved nothing starts, and a move starts alone.
LEMMA Started ==
    ASSUME MovesAlone, NEW e, Starts(e)
    PROVE  /\ e \in Allowed
           /\ \A u \in Tabs : ~Moves(u)
           /\ e \in {"file", "stack"} => \A u \in Tabs : req[u] = Idle
  BY DEF Starts, Moves, MovesAlone

\* The request of a tab, by its kind.
LEMMA AskedKinds ==
    ASSUME CardsHaveTypes, NEW t \in Tabs
    PROVE  /\ OnCard(t) => req[t] \in CardRequests
           /\ Moves(t) => OnCard(t)
           /\ Files(t) => Moves(t)
           /\ req[t] \in Requests
  BY DEF CardsHaveTypes, Requests, OtherRequests, NestRequests, DeleteRequests, SpaceDeletions,
     OnCard, CardOps, Moves, Files

\* A request that has loaded no card.
LEMMA OtherKinds ==
    ASSUME NEW q \in OtherRequests
    PROVE  q.op \in {"nest", "delete", "deleteSpace"} /\ q.op \notin CardOps
  BY DEF OtherRequests, NestRequests, DeleteRequests, SpaceDeletions, CardOps

\* The card of a request was there when it came, and is there or is gone.
LEMMA AskedCards ==
    ASSUME RequestsInv, NEW t \in Tabs, OnCard(t), CardsGoOn
    PROVE  /\ req[t] \in CardRequests /\ req[t].card \in Cards /\ req[t].row \in Rows
           /\ req[t].op \in CardOps
           /\ card'[req[t].card] # NoCard
           /\ req[t].card \in Existing' => req[t].card \in Existing
  <1>1. req[t] \in CardRequests
    BY AskedKinds DEF RequestsInv
  <1> QED BY <1>1 DEF RequestsInv, RequestsAreAllowed, CardRequests, CardsGoOn, Existing

\* What a request may rely on after a step that leaves the space of its card.
LEMMA RowsStayOn ==
    ASSUME RequestsInv, NEW t \in Tabs, OnCard(t), req'[t] = req[t], CardsGoOn, SpacesStay,
           req[t].card \in Existing'
    PROVE  /\ is_sealed_collection(req'[t].row.space) =>
                 card'[req'[t].card].space = req'[t].row.space
           /\ ~is_sealed_collection(req'[t].row.space) /\ "dissolve" \notin Allowed =>
                 ~is_sealed_collection(card'[req'[t].card].space)
  <1>1. req[t].card \in Existing
    BY AskedCards
  <1> QED BY <1>1 DEF RequestsInv, RowsStay, SpacesStay, is_sealed_collection

\* Requests end, and those that go on and have loaded a card are as they were.
Ending == /\ \A u \in Tabs : OnCard(u)' => req'[u] = req[u]
          /\ \A u \in Tabs : Moves(u)' => \A v \in Tabs : req'[v] = req[v] \/ req'[v] = Idle

\* So it is where every request goes on or ends.
LEMMA EndingIs ==
    ASSUME \A u \in Tabs : req'[u] = req[u] \/ req'[u] = Idle
    PROVE  Ending
  BY DEF Ending, OnCard

\* A step in which requests end, and none that loads a card starts.
LEMMA RequestsEnd ==
    ASSUME RequestsInv, CardsHaveTypes', CardsGoOn, Ending,
           \A u \in Tabs : Moves(u) /\ req'[u] # Idle => card' = card,
           SpacesStay \/ \A u \in Tabs : req'[u] = Idle
    PROVE  RequestsInv'
  <1>1. \A u \in Tabs : OnCard(u)' => /\ OnCard(u) /\ req'[u] = req[u] /\ SpacesStay
    BY DEF OnCard, Ending
  <1>2. RequestsAreAllowed'
    BY <1>1, AskedCards DEF RequestsInv, RequestsAreAllowed
  <1>3. MovesAreAlone'
    <2>1. ASSUME NEW t \in Tabs, Moves(t)'
          PROVE  MovesFit(req[t])' /\ \A u \in Tabs \ {t} : req'[u] = Idle
      <3>1. OnCard(t)' /\ req'[t] # Idle
        BY <2>1 DEF Moves, OnCard, CardOps
      <3>2. req'[t] = req[t] /\ \A v \in Tabs : req'[v] = req[v] \/ req'[v] = Idle
        BY <1>1, <2>1, <3>1 DEF Ending
      <3>3. Moves(t)
        BY <2>1, <3>2 DEF Moves
      <3>4. card' = card
        BY <3>1, <3>3
      <3>5. Existing' = Existing
        BY <3>4 DEF Existing
      <3>6. MovesFit(req[t]) /\ \A u \in Tabs \ {t} : req[u] = Idle
        BY <3>3 DEF RequestsInv, MovesAreAlone
      <3> QED BY <3>2, <3>4, <3>5, <3>6 DEF MovesFit, Offered, Kids
    <2> QED BY <2>1 DEF MovesAreAlone
  <1>4. RowsStay'
    BY <1>1, RowsStayOn DEF RowsStay
  <1> QED BY <1>2, <1>3, <1>4 DEF RequestsInv

\* A step in which a request starts.
LEMMA RequestStarts ==
    ASSUME RequestsInv, CardsHaveTypes', CardsGoOn, SpacesStay,
           NEW t \in Tabs, NEW q \in CardRequests \cup OtherRequests,
           req' = [req EXCEPT ![t] = q], \A u \in Tabs : ~Moves(u),
           q.op \in CardOps => /\ q.op \in Allowed /\ card'[q.card] = q.row
                               /\ q.card \in Existing',
           q.op \in {"file", "stack"} => /\ \A u \in Tabs : req[u] = Idle
                                         /\ card' = card /\ MovesFit(q)
    PROVE  RequestsInv'
  <1>1. /\ req'[t] = q /\ \A u \in Tabs \ {t} : req'[u] = req[u]
    BY DEF RequestsInv, CardsHaveTypes
  <1>2. \A u \in Tabs \ {t} : /\ OnCard(u)' => OnCard(u)
                              /\ ~Moves(u)'
    BY <1>1 DEF OnCard, Moves
  <1>3. OnCard(t)' => q.op \in CardOps /\ q.card \in Existing' /\ card'[q.card] = q.row
    BY <1>1 DEF OnCard
  <1>4. RequestsAreAllowed'
    <2>1. \A u \in Tabs \ {t} : OnCard(u)' =>
             req'[u].op \in Allowed /\ card'[req'[u].card] # NoCard
      BY <1>1, <1>2, AskedCards DEF RequestsInv, RequestsAreAllowed
    <2>2. OnCard(t)' => req'[t].op \in Allowed /\ card'[req'[t].card] # NoCard
      BY <1>1, <1>3 DEF Existing
    <2> QED BY <2>1, <2>2 DEF RequestsAreAllowed
  <1>5. MovesAreAlone'
    <2>1. ASSUME NEW u \in Tabs, Moves(u)'
          PROVE  u = t /\ q.op \in {"file", "stack"}
      BY <1>1, <1>2, <2>1 DEF Moves
    <2>2. ASSUME q.op \in {"file", "stack"}
          PROVE  MovesFit(req[t])' /\ \A u \in Tabs \ {t} : req'[u] = Idle
      <3>1. MovesFit(q) /\ card' = card /\ req'[t] = q
        BY <1>1, <2>2
      <3>2. Existing' = Existing
        BY <3>1 DEF Existing
      <3>3. MovesFit(req[t])'
        BY <3>1, <3>2 DEF MovesFit, Offered, Kids
      <3> QED BY <1>1, <2>2, <3>3
    <2> QED BY <2>1, <2>2 DEF MovesAreAlone
  <1>6. RowsStay'
    <2>1. ASSUME NEW u \in Tabs \ {t}, OnCard(u)', req'[u].card \in Existing'
          PROVE  /\ is_sealed_collection(req'[u].row.space) =>
                       card'[req'[u].card].space = req'[u].row.space
                 /\ ~is_sealed_collection(req'[u].row.space) /\ "dissolve" \notin Allowed =>
                       ~is_sealed_collection(card'[req'[u].card].space)
      BY <1>1, <1>2, <2>1, RowsStayOn
    <2>2. OnCard(t)' => card'[req'[t].card] = req'[t].row
      BY <1>1, <1>3
    <2> QED BY <2>1, <2>2 DEF RowsStay
  <1> QED BY <1>4, <1>5, <1>6 DEF RequestsInv

\* What the theorems suppose of the requests: stacks are filed whole, do not nest and
\* are built by stacking; a card is sealed by the commit that brings it into a sealed space, and
\* no commit carries what a read has opened.
WholeStacks == {"fileKid", "nestStack", "createKid"} \cap Allowed = {}
SealedAtOnce == "read" \notin Allowed /\ "video" \notin Allowed /\ "dissolve" \notin Allowed

RowsAreWhole == \A c \in Existing : Whole(card[c])
AsksAreWhole ==
    \A t \in Tabs : OnCard(t) => /\ Whole(req[t].row)
                                 /\ req[t].op = "video" => req[t].row.clear

\* A step keeps the parts of the invariants, each under what it supposes.
Keeps ==
    /\ RequestsInv'
    /\ WholeStacks /\ StacksAreFlat => StacksAreFlat'
    /\ WholeStacks /\ StacksAreFlat /\ CardsAreWhole => CardsAreWhole'
    /\ SealedAtOnce /\ SealedSpaceIsSealed => SealedSpaceIsSealed'

\* A request that goes on holds the row it held.
LEMMA AsksStayWhole ==
    ASSUME AsksAreWhole, Ending
    PROVE  AsksAreWhole'
  <1>1. \A u \in Tabs : OnCard(u)' => OnCard(u) /\ req'[u] = req[u]
    BY DEF OnCard, Ending
  <1> QED BY <1>1 DEF AsksAreWhole, Whole

\* Both halves of what is whole.
LEMMA Halves ==
    /\ CardsAreWhole <=> RowsAreWhole /\ AsksAreWhole
    /\ RowsAreWhole' /\ AsksAreWhole' => CardsAreWhole'
  BY DEF CardsAreWhole, RowsAreWhole, AsksAreWhole

\* The row of one card changes, and stays in its space.
LEMMA OneRowChanges ==
    ASSUME RequestsInv, NEW c \in Existing, NEW row \in Rows, row.space = card[c].space,
           card' = [card EXCEPT ![c] = row]
    PROVE  /\ card' \in [Cards -> Rows \cup {NoCard, Gone}] /\ card'[c] = row
           /\ Existing' = Existing /\ \A x \in Cards \ {c} : card'[x] = card[x]
           /\ CardsGoOn /\ SpacesStay
           /\ row.cover = card[c].cover /\ StacksAreFlat => StacksAreFlat'
           /\ Whole(row) /\ RowsAreWhole => RowsAreWhole'
           /\ (is_sealed_collection(row.space) => row.box # NoBox /\ ~row.clear)
              /\ SealedSpaceIsSealed => SealedSpaceIsSealed'
  <1>1. CardsHaveTypes /\ c \in Cards /\ card[c] \notin {NoCard, Gone}
    BY DEF RequestsInv, Existing
  <1>2. /\ card' \in [Cards -> Rows \cup {NoCard, Gone}] /\ card'[c] = row
        /\ \A x \in Cards \ {c} : card'[x] = card[x]
    BY <1>1 DEF CardsHaveTypes
  <1>3. Existing' = Existing
    BY <1>1, <1>2, Marks DEF Existing
  <1>4. CardsGoOn
    BY <1>1, <1>2, Marks DEF CardsGoOn
  <1>5. SpacesStay
    BY <1>2, ExistingHasRow, <1>1 DEF SpacesStay
  <1>6. ASSUME row.cover = card[c].cover, StacksAreFlat
        PROVE  StacksAreFlat'
    <2>1. \A x \in Cards : x \in Existing =>
             card'[x].cover = card[x].cover /\ card'[x].space = card[x].space
      BY <1>2, <1>6
    <2> QED BY <1>1, <1>3, <1>6, <2>1, ExistingHasRow DEF StacksAreFlat
  <1>7. Whole(row) /\ RowsAreWhole => RowsAreWhole'
    BY <1>1, <1>2, <1>3, ExistingHasRow DEF RowsAreWhole, Whole
  <1>8. (is_sealed_collection(row.space) => row.box # NoBox /\ ~row.clear)
        /\ SealedSpaceIsSealed => SealedSpaceIsSealed'
    BY <1>1, <1>2, <1>3, ExistingHasRow DEF SealedSpaceIsSealed, is_sealed_collection
  <1> QED BY <1>2, <1>3, <1>4, <1>5, <1>6, <1>7, <1>8

\* The cards stay as they are.
LEMMA CardsSame ==
    ASSUME card' = card
    PROVE  /\ Existing' = Existing /\ CardsGoOn /\ SpacesStay
           /\ StacksAreFlat => StacksAreFlat'
           /\ RowsAreWhole => RowsAreWhole'
           /\ SealedSpaceIsSealed => SealedSpaceIsSealed'
  BY DEF Existing, CardsGoOn, SpacesStay, StacksAreFlat, RowsAreWhole, Whole,
     SealedSpaceIsSealed, is_sealed_collection

\* A step that leaves the cards alone, and in which no request starts.
LEMMA QuietKeeps ==
    ASSUME RequestsInv, CardsHaveTypes', card' = card,
           \A u \in Tabs : req'[u] = req[u] \/ req'[u] = Idle
    PROVE  Keeps
  <1>1. RequestsInv'
    BY CardsSame, EndingIs, RequestsEnd
  <1>2. AsksAreWhole => AsksAreWhole'
    BY EndingIs, AsksStayWhole
  <1> QED BY <1>1, <1>2, CardsSame, Halves DEF Keeps

\* The types of what a step leaves but for the cards.
LEMMA RestIsTyped ==
    ASSUME RequestsInv, card' \in [Cards -> Rows \cup {NoCard, Gone}],
           UNCHANGED <<spaces, parent, unlocked>>,
           req' \in [Tabs -> Requests]
    PROVE  CardsHaveTypes'
  BY DEF RequestsInv, CardsHaveTypes

\* A request that is done.
LEMMA RequestIsDone ==
    ASSUME RequestsInv, NEW t \in Tabs, Done(t)
    PROVE  /\ req' \in [Tabs -> Requests]
           /\ req'[t] = Idle /\ \A u \in Tabs \ {t} : req'[u] = req[u]
           /\ Moves(t) => \A u \in Tabs : req'[u] = Idle
           /\ \A u \in Tabs : req'[u] = req[u] \/ req'[u] = Idle
           /\ Ending
  <1>1. /\ req' \in [Tabs -> Requests] /\ req'[t] = Idle
        /\ \A u \in Tabs \ {t} : req'[u] = req[u]
    BY DEF RequestsInv, CardsHaveTypes, Requests, Done
  <1>2. Moves(t) => \A u \in Tabs : req'[u] = Idle
    BY <1>1 DEF RequestsInv, MovesAreAlone
  <1> QED BY <1>1, <1>2, EndingIs

\* A move under way leaves every other tab idle.
LEMMA NothingBeside ==
    ASSUME RequestsInv, NEW t \in Tabs, req[t] # Idle, ~Moves(t)
    PROVE  \A u \in Tabs : ~Moves(u)
  BY DEF RequestsInv, MovesAreAlone

\* A commit of a request that moves nothing, to the row of its card.
LEMMA OneCommitKeeps ==
    ASSUME RequestsInv, NEW t \in Tabs, OnCard(t), ~Moves(t), req[t].card \in Existing,
           NEW row \in Rows, card' = [card EXCEPT ![req[t].card] = row], Done(t),
           row.space = card[req[t].card].space, row.cover = card[req[t].card].cover,
           CardsAreWhole => Whole(row),
           SealedAtOnce /\ SealedSpaceIsSealed /\ is_sealed_collection(row.space) =>
              row.box # NoBox /\ ~row.clear,
           UNCHANGED <<spaces, parent, unlocked>>
    PROVE  Keeps
  <1>1. PICK c \in Existing : c = req[t].card
    OBVIOUS
  <1>2. /\ card' = [card EXCEPT ![c] = row] /\ row.space = card[c].space
        /\ row.cover = card[c].cover
    BY <1>1
  <1>3. /\ card' \in [Cards -> Rows \cup {NoCard, Gone}] /\ CardsGoOn /\ SpacesStay
        /\ StacksAreFlat => StacksAreFlat'
        /\ Whole(row) /\ RowsAreWhole => RowsAreWhole'
        /\ (is_sealed_collection(row.space) => row.box # NoBox /\ ~row.clear)
           /\ SealedSpaceIsSealed => SealedSpaceIsSealed'
    BY <1>2, OneRowChanges
  <1>4. CardsHaveTypes'
    BY <1>3, RequestIsDone, RestIsTyped
  <1>5. Ending /\ \A u \in Tabs : ~Moves(u)
    BY RequestIsDone, NothingBeside DEF OnCard
  <1>6. RequestsInv'
    BY <1>3, <1>4, <1>5, RequestsEnd
  <1>7. AsksAreWhole => AsksAreWhole'
    BY <1>5, AsksStayWhole
  <1> QED BY <1>3, <1>6, <1>7, Halves DEF Keeps

\* Unlocking and locking touch no card.
LEMMA UnlockKeeps ==
    ASSUME RequestsInv, NEW s \in Spaces, Unlock(s) \/ Lock(s)
    PROVE  Keeps
  <1>1. card' = card /\ req' = req /\ spaces' = spaces /\ parent' = parent /\ unlocked' \subseteq Sealed
    BY DEF Unlock, Lock, RequestsInv, CardsHaveTypes
  <1>2. CardsHaveTypes'
    BY <1>1 DEF RequestsInv, CardsHaveTypes
  <1> QED BY <1>1, <1>2, QuietKeeps

\* A request that dies is rolled back.
LEMMA AbandonKeeps ==
    ASSUME RequestsInv, NEW t \in Tabs, Abandon(t)
    PROVE  Keeps
  <1>1. card' = card /\ UNCHANGED <<spaces, parent, unlocked>> /\ Done(t)
    BY DEF Abandon
  <1>2. CardsHaveTypes'
    BY <1>1, RequestIsDone, RestIsTyped DEF RequestsInv, CardsHaveTypes
  <1> QED BY <1>1, <1>2, RequestIsDone, QuietKeeps

\* A space is nested, or the move was too late.
LEMMA ReorderKeeps ==
    ASSUME RequestsInv, NEW t \in Tabs, reorder_space(t)
    PROVE  Keeps
  <1>1. card' = card /\ UNCHANGED <<spaces, unlocked>> /\ Done(t)
    BY DEF reorder_space
  <1>2. parent' \in [Spaces -> Spaces \cup {Root}]
    BY DEF reorder_space, RequestsInv, CardsHaveTypes
  <1>3. CardsHaveTypes'
    BY <1>1, <1>2, RequestIsDone DEF RequestsInv, CardsHaveTypes
  <1> QED BY <1>1, <1>3, RequestIsDone, QuietKeeps

\* A request that starts and leaves the cards alone.
LEMMA StartKeepsCards ==
    ASSUME RequestsInv, NEW t \in Tabs, NEW q \in CardRequests \cup OtherRequests,
           req' = [req EXCEPT ![t] = q], UNCHANGED <<card, spaces, parent, unlocked>>,
           \A u \in Tabs : ~Moves(u),
           q.op \in CardOps => /\ q.op \in Allowed /\ card[q.card] = q.row
                               /\ q.card \in Existing /\ q.op # "video",
           q.op \in {"file", "stack"} => MovesFit(q) /\ \A u \in Tabs : req[u] = Idle
    PROVE  Keeps
  <1>1. /\ req' \in [Tabs -> Requests]
        /\ req'[t] = q /\ \A u \in Tabs \ {t} : req'[u] = req[u]
    BY DEF RequestsInv, CardsHaveTypes, Requests
  <1>2. CardsHaveTypes'
    BY <1>1, RestIsTyped DEF RequestsInv, CardsHaveTypes
  <1>3. Existing' = Existing /\ CardsGoOn /\ SpacesStay
    BY CardsSame
  <1>4. RequestsInv'
    BY <1>2, <1>3, RequestStarts
  <1>5. RowsAreWhole /\ AsksAreWhole => AsksAreWhole'
    <2>1. \A u \in Tabs \ {t} : OnCard(u)' => OnCard(u) /\ req'[u] = req[u]
      BY <1>1 DEF OnCard
    <2>2. OnCard(t)' => q.op \in CardOps
      BY <1>1 DEF OnCard
    <2> QED BY <1>1, <2>1, <2>2 DEF RowsAreWhole, AsksAreWhole, Whole
  <1> QED BY <1>4, <1>5, CardsSame, Halves DEF Keeps

\* A request that loads no card starts, or goes on.
LEMMA OtherStartKeeps ==
    ASSUME RequestsInv, NEW t \in Tabs, NEW q \in OtherRequests,
           req' = [req EXCEPT ![t] = q], UNCHANGED <<card, spaces, parent, unlocked>>,
           \A u \in Tabs : ~Moves(u)
    PROVE  Keeps
  <1>1. q.op \notin CardOps /\ q.op \notin {"file", "stack"}
    BY OtherKinds DEF CardOps
  <1> QED BY <1>1, StartKeepsCards

\* The walk up from the target of a nesting.
LEMMA NestStartKeeps ==
    ASSUME MovesAlone, RequestsInv, NEW t \in Tabs, NEW s \in Spaces,
           NEW to \in Spaces \cup {Root}, _assert_can_nest(t, s, to)
    PROVE  Keeps
  <1> DEFINE q == [op |-> "nest", space |-> s, to |-> to]
  <1>1. q \in OtherRequests
    BY DEF NestRequests, OtherRequests
  <1>2. /\ req' = [req EXCEPT ![t] = q] /\ UNCHANGED <<card, spaces, parent, unlocked>>
        /\ \A u \in Tabs : ~Moves(u)
    BY Started DEF _assert_can_nest
  <1> HIDE DEF q
  <1> QED BY <1>1, <1>2, OtherStartKeeps

\* A card that is to be deleted is looked at.
LEMMA DeleteStartKeeps ==
    ASSUME MovesAlone, RequestsInv, NEW t \in Tabs, NEW c \in Existing, LoadDelete(t, c)
    PROVE  Keeps
  <1> DEFINE q == [op |-> "delete", card |-> c]
  <1>1. q \in OtherRequests
    BY DEF DeleteRequests, OtherRequests, Existing
  <1>2. /\ req' = [req EXCEPT ![t] = q] /\ UNCHANGED <<card, spaces, parent, unlocked>>
        /\ \A u \in Tabs : ~Moves(u)
    BY Started DEF LoadDelete
  <1> HIDE DEF q
  <1> QED BY <1>1, <1>2, OtherStartKeeps

\* What the deletion of a space holds.
LEMMA SpaceRequest ==
    ASSUME CardsHaveTypes, NEW t \in Tabs, DeletesSpaces(t)
    PROVE  /\ req[t] \in SpaceDeletions /\ req[t].calls \in Seq(Calls) /\ req[t].calls # <<>>
           /\ Head(req[t].calls) \in Calls /\ Tail(req[t].calls) \in Seq(Calls)
  <1>1. req[t] \in SpaceDeletions
    BY AskedKinds DEF DeletesSpaces, Requests, CardRequests, CardOps, OtherRequests,
       NestRequests, DeleteRequests
  <1>2. req[t].calls \in Seq(Calls) /\ req[t].calls # <<>>
    BY <1>1 DEF SpaceDeletions
  <1> QED BY <1>1, <1>2

\* A deletion that has calls to make.
LEMMA DeletionIsOne ==
    ASSUME NEW calls \in Seq(Calls), calls # <<>>
    PROVE  Deletion(calls) \in SpaceDeletions
  BY DEF Deletion, SpaceDeletions

\* When it was not the last call, there is one left.
LEMMA CallsLeft ==
    ASSUME NEW calls \in Seq(Calls), calls # <<>>, Len(calls) # 1
    PROVE  Tail(calls) \in Seq(Calls) /\ Tail(calls) # <<>>
  <1>1. Len(calls) \in Nat /\ Len(calls) # 0
    OBVIOUS
  <1>2. Tail(calls) \in Seq(Calls) /\ Len(Tail(calls)) = Len(calls) - 1
    OBVIOUS
  <1>3. \A n \in Nat : n # 1 => n - 1 # 0
    OBVIOUS
  <1>4. Len(Tail(calls)) # 0
    BY <1>1, <1>2, <1>3, Zenon
  <1>5. Len(<<>>) = 0
    OBVIOUS
  <1>6. Tail(calls) # <<>>
    BY <1>4, <1>5, Zenon
  <1> QED BY <1>2, <1>6, Zenon

\* The deletion of a space is called, calls itself for one nested in it, or lists
\* the cards: what it holds is a deletion still.
LEMMA SpaceCalls ==
    ASSUME CardsHaveTypes, NEW t \in Tabs,
           \/ \E s \in Spaces : delete_coll(t, s) \/ DeletesNested(t, s)
           \/ ListsCards(t)
    PROVE  \E q \in SpaceDeletions : /\ req' = [req EXCEPT ![t] = q]
                                     /\ UNCHANGED <<card, spaces, parent, unlocked>>
  <1>1. \A x \in Spaces : Call(x) \in Calls
    BY DEF Call, Calls, CardsHaveTypes
  <1>2. DeletesSpaces(t) =>
           /\ req[t] \in SpaceDeletions /\ req[t].calls \in Seq(Calls) /\ req[t].calls # <<>>
           /\ Head(req[t].calls) \in Calls /\ Tail(req[t].calls) \in Seq(Calls)
    BY SpaceRequest
  <1> DEFINE Called == \E q \in SpaceDeletions : /\ req' = [req EXCEPT ![t] = q]
                                               /\ UNCHANGED <<card, spaces, parent, unlocked>>
  <1>3. ASSUME NEW s \in Spaces, delete_coll(t, s) PROVE Called
    <2>1. <<Call(s)>> \in Seq(Calls) /\ <<Call(s)>> # <<>>
      BY <1>1
    <2>2. Deletion(<<Call(s)>>) \in SpaceDeletions
      BY <2>1, DeletionIsOne
    <2> QED BY <1>3, <2>2 DEF delete_coll
  <1>4. ASSUME NEW s \in Spaces, DeletesNested(t, s) PROVE Called
    <2> DEFINE calls == req[t].calls
               mine == [Head(calls) EXCEPT !.kids = @ \ {s}]
               new == <<Call(s), mine>> \o Tail(calls)
    <2>1. DeletesSpaces(t) /\ req' = [req EXCEPT ![t] = Deletion(new)]
          /\ UNCHANGED <<card, spaces, parent, unlocked>>
      BY <1>4 DEF DeletesNested
    <2>2. mine \in Calls
      BY <1>2, <2>1 DEF Calls
    <2> HIDE DEF mine
    <2>3. <<Call(s), mine>> \in Seq(Calls) /\ Tail(calls) \in Seq(Calls)
      BY <1>1, <1>2, <2>1, <2>2
    <2>4. new \in Seq(Calls) /\ new # <<>>
      BY <2>3
    <2> HIDE DEF new
    <2>5. Deletion(new) \in SpaceDeletions
      BY <2>4, DeletionIsOne
    <2> QED BY <2>1, <2>5
  <1>5. CASE ListsCards(t)
    <2> DEFINE listed == {c \in Existing : card[c].space = Head(req[t].calls).space}
               q == [req[t] EXCEPT !.listed = TRUE, !.cards = listed]
    <2>1. DeletesSpaces(t) /\ req' = [req EXCEPT ![t] = q]
          /\ UNCHANGED <<card, spaces, parent, unlocked>>
      BY <1>5 DEF ListsCards
    <2>2. listed \subseteq Cards
      BY DEF Existing
    <2> HIDE DEF listed
    <2>3. q \in SpaceDeletions
      BY <1>2, <2>1, <2>2 DEF SpaceDeletions
    <2> QED BY <2>1, <2>3
  <1> QED BY <1>3, <1>4, <1>5

\* None of it touches a card.
LEMMA SpaceCallsKeep ==
    ASSUME MovesAlone, RequestsInv, NEW t \in Tabs,
           \/ \E s \in Spaces : delete_coll(t, s) \/ DeletesNested(t, s)
           \/ ListsCards(t)
    PROVE  Keeps
  <1>1. PICK q \in SpaceDeletions : /\ req' = [req EXCEPT ![t] = q]
                                    /\ UNCHANGED <<card, spaces, parent, unlocked>>
    BY SpaceCalls DEF RequestsInv
  <1>2. \A u \in Tabs : ~Moves(u)
    <2>1. ASSUME NEW s \in Spaces, delete_coll(t, s) PROVE \A u \in Tabs : ~Moves(u)
      BY <2>1, Started DEF delete_coll
    <2>2. DeletesSpaces(t) => \A u \in Tabs : ~Moves(u)
      BY NothingBeside DEF DeletesSpaces, Moves
    <2> QED BY <2>1, <2>2 DEF DeletesNested, ListsCards
  <1> QED BY <1>1, <1>2, OtherStartKeeps DEF OtherRequests

\* A request loads the row of its card.
LEMMA LoadKeeps ==
    ASSUME MovesAlone, RequestsInv, NEW t \in Tabs, NEW c \in Existing,
           NEW op \in {"read", "edit", "stack", "file"},
           NEW to \in Spaces \cup {Unfiled, Root, NoCard} \cup Cards,
           Load(t, c, op, to),
           op = "file" => /\ to \in (Spaces \cup {Unfiled}) \ {card[c].space}
                          /\ card[c].cover # NoCard => "fileKid" \in Allowed,
           op = "stack" => to \in Cards \cup {NoCard} /\ Offered(c, to)
    PROVE  Keeps
  <1> DEFINE q == [op |-> op, card |-> c, row |-> card[c], to |-> to]
  <1>1. /\ q \in CardRequests /\ q.op = op /\ q.card = c /\ q.row = card[c] /\ q.to = to
    BY ExistingHasRow DEF CardRequests, CardOps, RequestsInv
  <1>2. /\ req' = [req EXCEPT ![t] = q] /\ UNCHANGED <<card, spaces, parent, unlocked>>
        /\ Starts(op)
    BY DEF Load
  <1>3. /\ op \in Allowed /\ \A u \in Tabs : ~Moves(u)
        /\ op \in {"file", "stack"} => \A u \in Tabs : req[u] = Idle
    BY <1>2, Started
  <1> HIDE DEF q
  <1>4. op \in {"file", "stack"} => MovesFit(q)
    BY <1>1 DEF MovesFit
  <1> QED BY <1>1, <1>2, <1>3, <1>4, StartKeepsCards

\* A read, an edit, a filing and a stacking load the row.
LEMMA LoadsKeep ==
    ASSUME MovesAlone, RequestsInv, NEW t \in Tabs, NEW c \in Existing,
           \/ LoadRead(t, c) \/ LoadEdit(t, c)
           \/ \E to \in Spaces \cup {Unfiled} : LoadFile(t, c, to)
           \/ \E v \in Cards \cup {NoCard} : LoadStack(t, c, v)
    PROVE  Keeps
  <1>1. CASE LoadRead(t, c)
    BY <1>1, LoadKeeps DEF LoadRead
  <1>2. CASE LoadEdit(t, c)
    BY <1>2, LoadKeeps DEF LoadEdit
  <1>3. ASSUME NEW to \in Spaces \cup {Unfiled}, LoadFile(t, c, to) PROVE Keeps
    <2>1. /\ Load(t, c, "file", to) /\ to # card[c].space
          /\ card[c].cover # NoCard => "fileKid" \in Allowed
      BY <1>3 DEF LoadFile
    <2> QED BY <2>1, LoadKeeps
  <1>4. ASSUME NEW v \in Cards \cup {NoCard}, LoadStack(t, c, v) PROVE Keeps
    <2>1. Load(t, c, "stack", v) /\ Offered(c, v)
      BY <1>4 DEF LoadStack
    <2> QED BY <2>1, LoadKeeps
  <1> QED BY <1>1, <1>2, <1>3, <1>4

\* The row of a video card is sealed, after it was committed.
LEMMA CaptureKeeps ==
    ASSUME RequestsInv, NEW t \in Tabs, create_capture(t)
    PROVE  Keeps
  <1>1. /\ OnCard(t) /\ req[t].op = "video" /\ ~Moves(t) /\ Done(t)
        /\ UNCHANGED <<spaces, parent, unlocked>>
    BY DEF create_capture, OnCard, Moves, CardOps
  <1> DEFINE c == req[t].card
             row == req[t].row
             mine == seal_item(row, row.space)
             new == FlushSealed(card[c], row, mine)
  <1>2. c \in Cards /\ row \in Rows /\ (is_sealed_collection(row.space) => row.space \in Spaces)
    BY <1>1, AskedKinds, Marks DEF is_sealed_collection, RequestsInv, CardRequests
  <1>3. CASE is_sealed_collection(row.space) /\ c \in Existing
    <2>1. card' = [card EXCEPT ![c] = new]
      BY <1>3 DEF create_capture
    <2>2. card[c] \in Rows /\ card[c].space = row.space
      BY <1>1, <1>3, ExistingHasRow DEF RequestsInv, RowsStay
    <2>3. /\ mine \in Rows /\ mine.space = row.space /\ mine.box = row.space
          /\ mine.real = row.clear /\ mine.clear = FALSE /\ mine.cover = row.cover
      BY <1>2, <1>3, SealedRow
    <2> HIDE DEF mine
    <2>4. /\ new \in Rows /\ new.space = card[c].space /\ new.cover = card[c].cover
          /\ new.box = row.space /\ new.real = row.clear
      BY <1>2, <2>2, <2>3, FlushedSealedRow
    <2>5. CardsAreWhole => Whole(new)
      BY <1>1, <1>2, <1>3, <2>2, <2>4, Marks DEF Whole, CardsAreWhole,
         is_sealed_collection
    <2>6. ~SealedAtOnce
      BY <1>1 DEF SealedAtOnce, RequestsInv, RequestsAreAllowed
    <2> HIDE DEF new
    <2> QED BY <1>1, <1>3, <2>1, <2>4, <2>5, <2>6, OneCommitKeeps
  <1>4. CASE ~(is_sealed_collection(row.space) /\ c \in Existing)
    <2>1. card' = card
      BY <1>4 DEF create_capture
    <2>2. CardsHaveTypes'
      BY <1>1, <2>1, RequestIsDone, RestIsTyped DEF RequestsInv, CardsHaveTypes
    <2> QED BY <1>1, <2>1, <2>2, RequestIsDone, QuietKeeps
  <1> QED BY <1>3, <1>4

\* What a read has opened is flushed to the columns the owner had sealed.
LEMMA ReadKeeps ==
    ASSUME RequestsInv, NEW t \in Tabs, get_item_by_id(t)
    PROVE  Keeps
  <1>1. /\ OnCard(t) /\ req[t].op = "read" /\ ~Moves(t) /\ Done(t)
        /\ UNCHANGED <<spaces, parent, unlocked>>
    BY DEF get_item_by_id, OnCard, Moves, CardOps
  <1> DEFINE c == req[t].card
             row == req[t].row
             mine == open_item(row)
             new == Flush(card[c], row, mine)
  <1>2. c \in Cards /\ row \in Rows
    BY <1>1, AskedKinds DEF RequestsInv, CardRequests
  <1>3. CASE c \in Existing
    <2>1. card' = [card EXCEPT ![c] = new]
      BY <1>3 DEF get_item_by_id
    <2>2. card[c] \in Rows
      BY <1>3, ExistingHasRow DEF RequestsInv
    <2>3. /\ mine \in Rows /\ mine.space = row.space /\ mine.box = row.box
          /\ mine.real = row.real /\ mine.cover = row.cover
          /\ mine.clear = IF row.box = NoBox THEN row.clear ELSE row.real
      BY <1>2, OpenedRow
    <2> HIDE DEF mine
    <2>4. /\ new \in Rows /\ new.space = card[c].space /\ new.cover = card[c].cover
          /\ new.box = card[c].box /\ new.real = card[c].real
          /\ new.clear = IF mine.clear # row.clear THEN mine.clear ELSE card[c].clear
      BY <1>2, <2>2, <2>3, FlushedRow
    <2>5. CardsAreWhole => Whole(new)
      BY <1>1, <1>2, <1>3, <2>2, <2>3, <2>4 DEF Whole, CardsAreWhole
    <2>6. ~SealedAtOnce
      BY <1>1 DEF SealedAtOnce, RequestsInv, RequestsAreAllowed
    <2> HIDE DEF new
    <2> QED BY <1>1, <1>3, <2>1, <2>4, <2>5, <2>6, OneCommitKeeps
  <1>4. CASE c \notin Existing
    <2>1. card' = card
      BY <1>4 DEF get_item_by_id
    <2>2. CardsHaveTypes'
      BY <1>1, <2>1, RequestIsDone, RestIsTyped DEF RequestsInv, CardsHaveTypes
    <2> QED BY <1>1, <2>1, <2>2, RequestIsDone, QuietKeeps
  <1> QED BY <1>3, <1>4

\* An edit writes what it changed, or seals the whole row anew.
LEMMA EditKeeps ==
    ASSUME RequestsInv, NEW t \in Tabs, update_item(t)
    PROVE  Keeps
  <1>1. /\ OnCard(t) /\ req[t].op = "edit" /\ ~Moves(t) /\ Done(t)
        /\ UNCHANGED <<spaces, parent, unlocked>>
    BY DEF update_item, OnCard, Moves, CardOps
  <1> DEFINE c == req[t].card
             row == req[t].row
             edited == [open_item(row) EXCEPT !.clear = TRUE]
             mine == seal_item(edited, row.space)
             new == FlushSealed(card[c], row, mine)
             plain == [card[c] EXCEPT !.clear = TRUE]
  <1>2. c \in Cards /\ row \in Rows /\ (is_sealed_collection(row.space) => row.space \in Spaces)
    BY <1>1, AskedKinds, Marks DEF is_sealed_collection, RequestsInv, CardRequests
  <1>3. CASE is_sealed_collection(row.space) /\ c \in Existing
    <2>1. card' = [card EXCEPT ![c] = new]
      BY <1>3 DEF update_item
    <2>2. card[c] \in Rows /\ card[c].space = row.space
      BY <1>1, <1>3, ExistingHasRow DEF RequestsInv, RowsStay
    <2>3. /\ edited \in Rows /\ edited.clear = TRUE /\ edited.cover = row.cover
      <3>1. open_item(row) \in Rows /\ open_item(row).cover = row.cover
        BY <1>2, OpenedRow
      <3> QED BY <3>1 DEF Rows
    <2> HIDE DEF edited
    <2>4. /\ mine \in Rows /\ mine.space = row.space /\ mine.box = row.space
          /\ mine.real = TRUE /\ mine.clear = FALSE /\ mine.cover = row.cover
      BY <1>2, <1>3, <2>3, SealedRow
    <2> HIDE DEF mine
    <2>5. /\ new \in Rows /\ new.space = card[c].space /\ new.cover = card[c].cover
          /\ new.box = row.space /\ new.real = TRUE
          /\ new.clear = IF mine.clear # row.clear THEN mine.clear ELSE card[c].clear
      BY <1>2, <2>2, <2>4, FlushedSealedRow
    <2>6. CardsAreWhole => Whole(new)
      BY <1>3, <2>2, <2>5, Marks DEF Whole, is_sealed_collection
    <2>7. SealedSpaceIsSealed => new.box # NoBox /\ ~new.clear
      BY <1>2, <1>3, <2>2, <2>4, <2>5, Marks, RowFields DEF SealedSpaceIsSealed
    <2> HIDE DEF new
    <2> QED BY <1>1, <1>3, <2>1, <2>5, <2>6, <2>7, OneCommitKeeps
  <1>4. CASE ~is_sealed_collection(row.space) /\ c \in Existing
    <2>1. card' = [card EXCEPT ![c] = plain]
      BY <1>4 DEF update_item
    <2>2. card[c] \in Rows
      BY <1>4, ExistingHasRow DEF RequestsInv
    <2>3. /\ plain \in Rows /\ plain.space = card[c].space /\ plain.cover = card[c].cover
          /\ plain.box = card[c].box /\ plain.real = card[c].real /\ plain.clear = TRUE
      BY <2>2 DEF Rows
    <2> HIDE DEF plain
    <2>4. CardsAreWhole => Whole(plain)
      BY <1>4, <2>3 DEF Whole, CardsAreWhole
    <2>5. SealedAtOnce => ~is_sealed_collection(plain.space)
      BY <1>1, <1>4, <2>3 DEF SealedAtOnce, RequestsInv, RowsStay
    <2> QED BY <1>1, <1>4, <2>1, <2>3, <2>4, <2>5, OneCommitKeeps
  <1>5. CASE c \notin Existing
    <2>1. card' = card
      BY <1>5 DEF update_item
    <2>2. CardsHaveTypes'
      BY <1>1, <2>1, RequestIsDone, RestIsTyped DEF RequestsInv, CardsHaveTypes
    <2> QED BY <1>1, <2>1, <2>2, RequestIsDone, QuietKeeps
  <1> QED BY <1>3, <1>4, <1>5

\* A step that commits while nothing is moved.
LEMMA AtOnceKeeps ==
    ASSUME RequestsInv, CardsHaveTypes', Ending, \A u \in Tabs : ~Moves(u),
           CardsGoOn, SpacesStay,
           WholeStacks /\ StacksAreFlat => StacksAreFlat',
           WholeStacks /\ StacksAreFlat /\ RowsAreWhole => RowsAreWhole',
           SealedAtOnce /\ SealedSpaceIsSealed => SealedSpaceIsSealed'
    PROVE  Keeps
  <1>1. RequestsInv'
    BY RequestsEnd
  <1>2. AsksAreWhole => AsksAreWhole'
    BY AsksStayWhole
  <1> QED BY <1>1, <1>2, Halves DEF Keeps

\* A new card; created with no cover it is in no stack.
LEMMA NewCard ==
    ASSUME RequestsInv, NEW c \in Cards, card[c] = NoCard, NEW row \in Rows,
           card' = [card EXCEPT ![c] = row]
    PROVE  /\ card' \in [Cards -> Rows \cup {NoCard, Gone}] /\ card'[c] = row
           /\ c \in Existing'
           /\ CardsGoOn /\ SpacesStay
           /\ row.cover = NoCard /\ StacksAreFlat => StacksAreFlat'
           /\ Whole(row) /\ RowsAreWhole => RowsAreWhole'
           /\ (is_sealed_collection(row.space) => row.box # NoBox /\ ~row.clear)
              /\ SealedSpaceIsSealed => SealedSpaceIsSealed'
  <1>1. CardsHaveTypes /\ c \notin Existing /\ Existing \subseteq Cards
    BY DEF RequestsInv, Existing
  <1>2. /\ card' \in [Cards -> Rows \cup {NoCard, Gone}] /\ card'[c] = row
        /\ \A x \in Cards \ {c} : card'[x] = card[x]
    BY <1>1 DEF CardsHaveTypes
  <1>3. Existing' = Existing \cup {c}
    BY <1>1, <1>2, Marks DEF Existing
  <1>4. CardsGoOn
    BY <1>1, <1>2, Marks DEF CardsGoOn
  <1>5. SpacesStay
    BY <1>1, <1>2 DEF SpacesStay
  <1>6. ASSUME row.cover = NoCard, StacksAreFlat PROVE StacksAreFlat'
    <2>1. \A x \in Existing : x # c /\ x \in Cards /\ card'[x] = card[x]
      BY <1>1, <1>2
    <2> QED BY <1>2, <1>3, <1>6, <2>1 DEF StacksAreFlat
  <1>7. Whole(row) /\ RowsAreWhole => RowsAreWhole'
    BY <1>1, <1>2, <1>3 DEF RowsAreWhole, Whole
  <1>8. (is_sealed_collection(row.space) => row.box # NoBox /\ ~row.clear)
        /\ SealedSpaceIsSealed => SealedSpaceIsSealed'
    BY <1>1, <1>2, <1>3 DEF SealedSpaceIsSealed, is_sealed_collection
  <1> QED BY <1>2, <1>3, <1>4, <1>5, <1>6, <1>7, <1>8

\* A fresh row, under a cover there is, or under none.
LEMMA FreshRow ==
    ASSUME NEW s \in Spaces \cup {Unfiled}, NEW v \in Cards \cup {NoCard}, CanCover(v)
    PROVE  /\ NewRow(s, v) \in Rows /\ NewRow(s, v).space = s /\ NewRow(s, v).clear = TRUE
           /\ NewRow(s, v).box = NoBox /\ NewRow(s, v).cover = v /\ Whole(NewRow(s, v))
           /\ WholeStacks => v = NoCard
  BY DEF NewRow, Rows, Whole, CanCover, WholeStacks

\* A card is created, sealed by its first commit in a sealed space.
LEMMA CreateKeeps ==
    ASSUME MovesAlone, RequestsInv, NEW c \in Cards, NEW s \in Spaces \cup {Unfiled},
           NEW v \in Cards \cup {NoCard}, create_item(c, s, v)
    PROVE  Keeps
  <1> DEFINE row == IF is_sealed_collection(s) THEN seal_item(NewRow(s, v), s)
                    ELSE NewRow(s, v)
  <1>1. /\ card[c] = NoCard /\ card' = [card EXCEPT ![c] = row] /\ req' = req
        /\ UNCHANGED <<spaces, parent, unlocked>> /\ \A u \in Tabs : ~Moves(u)
        /\ CanCover(v)
    BY Started DEF create_item
  <1>2. /\ row \in Rows /\ row.space = s /\ row.cover = v /\ Whole(row)
        /\ is_sealed_collection(s) => row.box # NoBox /\ ~row.clear
    <2>1. CASE is_sealed_collection(s)
      <3>1. s \in Spaces /\ s \in Sealed /\ s # NoBox
        BY <2>1, Marks DEF is_sealed_collection
      <3>2. PICK n \in Rows : n = NewRow(s, v) /\ n.clear = TRUE /\ n.cover = v
        BY <1>1, FreshRow
      <3>3. row = seal_item(n, s)
        BY <2>1, <3>2
      <3> HIDE DEF row
      <3>4. /\ row \in Rows /\ row.space = s /\ row.box = s /\ row.real = TRUE
            /\ row.clear = FALSE /\ row.cover = v
        BY <3>1, <3>2, <3>3, SealedRow
      <3> QED BY <3>1, <3>4 DEF Whole
    <2>2. CASE ~is_sealed_collection(s)
      BY <1>1, <2>2, FreshRow
    <2> QED BY <2>1, <2>2
  <1> HIDE DEF row
  <1>3. /\ card' \in [Cards -> Rows \cup {NoCard, Gone}] /\ CardsGoOn /\ SpacesStay
        /\ row.cover = NoCard /\ StacksAreFlat => StacksAreFlat'
        /\ RowsAreWhole => RowsAreWhole'
        /\ SealedSpaceIsSealed => SealedSpaceIsSealed'
    BY <1>1, <1>2, NewCard
  <1>4. CardsHaveTypes'
    BY <1>1, <1>3, RestIsTyped DEF RequestsInv, CardsHaveTypes
  <1>5. /\ WholeStacks /\ StacksAreFlat => StacksAreFlat'
        /\ WholeStacks /\ StacksAreFlat /\ RowsAreWhole => RowsAreWhole'
        /\ SealedAtOnce /\ SealedSpaceIsSealed => SealedSpaceIsSealed'
    BY <1>1, <1>2, <1>3, FreshRow
  <1> QED BY <1>1, <1>3, <1>4, <1>5, EndingIs, AtOnceKeeps

\* A video card is committed readable, to have an id.
LEMMA VideoKeeps ==
    ASSUME MovesAlone, RequestsInv, NEW t \in Tabs, NEW c \in Cards,
           NEW s \in Spaces \cup {Unfiled}, NEW v \in Cards \cup {NoCard},
           create_video_capture_item(t, c, s, v)
    PROVE  Keeps
  <1> DEFINE q == [op |-> "video", card |-> c, row |-> NewRow(s, v), to |-> s]
  <1>1. /\ card[c] = NoCard /\ card' = [card EXCEPT ![c] = NewRow(s, v)]
        /\ req' = [req EXCEPT ![t] = q] /\ UNCHANGED <<spaces, parent, unlocked>>
        /\ "video" \in Allowed /\ \A u \in Tabs : ~Moves(u) /\ CanCover(v)
    BY Started DEF create_video_capture_item
  <1>2. /\ q \in CardRequests /\ q.op = "video" /\ q.card = c /\ q.row = NewRow(s, v)
    BY <1>1, FreshRow DEF CardRequests, CardOps
  <1> HIDE DEF q
  <1>3. /\ card' \in [Cards -> Rows \cup {NoCard, Gone}] /\ card'[c] = NewRow(s, v)
        /\ c \in Existing' /\ CardsGoOn /\ SpacesStay
        /\ WholeStacks /\ StacksAreFlat => StacksAreFlat'
        /\ RowsAreWhole => RowsAreWhole'
    <2>1. PICK n \in Rows : n = NewRow(s, v) /\ n.cover = v /\ Whole(n)
      BY <1>1, FreshRow
    <2>2. WholeStacks => v = NoCard
      BY <1>1, FreshRow
    <2> QED BY <1>1, <2>1, <2>2, NewCard
  <1>4. /\ req' \in [Tabs -> Requests]
        /\ req'[t] = q /\ \A u \in Tabs \ {t} : req'[u] = req[u]
    BY <1>1, <1>2 DEF RequestsInv, CardsHaveTypes, Requests
  <1>5. CardsHaveTypes'
    BY <1>1, <1>3, <1>4, RestIsTyped
  <1>6. RequestsInv'
    BY <1>1, <1>2, <1>3, <1>5, RequestStarts
  <1>7. AsksAreWhole => AsksAreWhole'
    <2>1. \A u \in Tabs \ {t} : OnCard(u)' => OnCard(u) /\ req'[u] = req[u]
      BY <1>4 DEF OnCard
    <2>2. Whole(q.row) /\ q.row.clear
      <3>1. PICK n \in Rows : n = NewRow(s, v) /\ n.clear = TRUE /\ Whole(n)
        BY <1>1, FreshRow
      <3> QED BY <1>2, <3>1
    <2> QED BY <1>4, <2>1, <2>2 DEF AsksAreWhole, Whole
  <1>8. ~SealedAtOnce
    BY <1>1 DEF SealedAtOnce
  <1> QED BY <1>3, <1>6, <1>7, <1>8, Halves DEF Keeps

\* A move finds the row it loaded, and alone.
LEMMA MoveFinds ==
    ASSUME RequestsInv, NEW t \in Tabs, Moves(t)
    PROVE  /\ req[t].card \in Existing /\ req[t].row \in Rows
           /\ card[req[t].card] = req[t].row
           /\ MovesFit(req[t])
  BY ExistingHasRow DEF RequestsInv, MovesAreAlone, MovesFit

\* A filing goes to another space; with stacks filed whole its card has no cover.
LEMMA FilingFinds ==
    ASSUME RequestsInv, NEW t \in Tabs, Files(t)
    PROVE  /\ Moves(t) /\ req[t].card \in Existing /\ card[req[t].card] = req[t].row
           /\ req[t].to \in (Spaces \cup {Unfiled}) \ {req[t].row.space}
           /\ req[t].row \in Rows
           /\ WholeStacks => req[t].row.cover = NoCard
  <1>1. Moves(t) /\ req[t].op = "file"
    BY DEF Files, Moves
  <1> QED BY <1>1, MoveFinds DEF MovesFit, WholeStacks

\* A restacked card stays in its space, holds what it held, and is sealed in a sealed
\* space.
LEMMA Restacked ==
    ASSUME NEW r \in Rows, NEW v \in Cards \cup {NoCard}
    PROVE  /\ Restack(r, v) \in Rows
           /\ Restack(r, v).space = r.space /\ Restack(r, v).cover = v
           /\ Whole(r) => Whole(Restack(r, v))
           /\ is_sealed_collection(r.space) => Restack(r, v).box # NoBox /\ ~Restack(r, v).clear
  <1> DEFINE row == Restack(r, v)
  <1> SUFFICES /\ row \in Rows /\ row.space = r.space /\ row.cover = v
               /\ Whole(r) => Whole(row)
               /\ is_sealed_collection(r.space) => row.box # NoBox /\ ~row.clear
    OBVIOUS
  <1>1. CASE is_sealed_collection(r.space)
    <2> DEFINE o == open_item(r)
               m == seal_item(o, r.space)
    <2>1. r.space \in Spaces /\ r.space \in Sealed /\ r.space # NoBox
      BY <1>1, Marks DEF is_sealed_collection
    <2>2. o \in Rows /\ o.clear = IF r.box = NoBox THEN r.clear ELSE r.real
      BY OpenedRow
    <2> HIDE DEF o
    <2>3. /\ m \in Rows /\ m.space = r.space /\ m.box = r.space /\ m.real = o.clear
          /\ m.clear = FALSE
      BY <2>1, <2>2, SealedRow
    <2>4. row = [m EXCEPT !.cover = v]
      BY <1>1 DEF o, Restack
    <2> HIDE DEF m
    <2>5. /\ row \in Rows /\ row.space = r.space /\ row.cover = v /\ row.box = r.space
          /\ row.real = o.clear /\ row.clear = FALSE
      BY <2>3, <2>4 DEF Rows
    <2>6. Whole(r) => row.real
      BY <2>2, <2>5 DEF Whole
    <2> QED BY <2>1, <2>5, <2>6 DEF Whole
  <1>2. CASE ~is_sealed_collection(r.space)
    BY <1>2 DEF Rows, Whole, Restack
  <1> QED BY <1>1, <1>2

\* A card is put on another, or taken out of its stack.
LEMMA StackKeeps ==
    ASSUME RequestsInv, NEW t \in Tabs, stack_card(t)
    PROVE  Keeps
  <1>1. Moves(t) /\ Done(t) /\ UNCHANGED <<spaces, parent, unlocked>> /\ req[t].op = "stack"
    BY DEF stack_card, Moves
  <1>2. PICK c \in Existing, v \in Cards \cup {NoCard} :
           /\ c = req[t].card /\ v = req[t].to /\ card[c] \in Rows /\ card[c] = req[t].row
           /\ Offered(c, v)
    BY <1>1, MoveFinds DEF MovesFit
  <1>3. v = NoCard \/ /\ v \in Existing /\ v # c
                      /\ card[c].space = card[v].space /\ card[v].cover = NoCard
                      /\ Kids(c) # {} => "nestStack" \in Allowed
    BY <1>2 DEF Offered
  <1> DEFINE row == Restack(card[c], v)
  <1>4. /\ row \in Rows /\ row.space = card[c].space /\ row.cover = v
        /\ Whole(card[c]) => Whole(row)
        /\ is_sealed_collection(row.space) => row.box # NoBox /\ ~row.clear
    BY <1>2, Restacked
  <1>5. card' = [card EXCEPT ![c] = row]
    <2>1. card' = IF is_sealed_collection(card[c].space)
                  THEN [card EXCEPT ![c] = FlushSealed(card[c], card[c], Restack(card[c], v))]
                  ELSE [card EXCEPT ![c] = Flush(card[c], card[c], Restack(card[c], v))]
      BY <1>2, <1>3 DEF stack_card
    <2> HIDE DEF row
    <2>2. FlushSealed(card[c], card[c], row) = row /\ Flush(card[c], card[c], row) = row
      BY <1>2, <1>4, FlushedRow, FlushedSealedRow
    <2> QED BY <2>1, <2>2 DEF row
  <1> HIDE DEF row
  <1>6. /\ card' \in [Cards -> Rows \cup {NoCard, Gone}] /\ card'[c] = row
        /\ Existing' = Existing /\ \A x \in Cards \ {c} : card'[x] = card[x]
        /\ CardsGoOn /\ SpacesStay
        /\ Whole(row) /\ RowsAreWhole => RowsAreWhole'
        /\ SealedSpaceIsSealed => SealedSpaceIsSealed'
    BY <1>4, <1>5, OneRowChanges
  <1>7. RowsAreWhole => RowsAreWhole'
    BY <1>4, <1>6 DEF RowsAreWhole
  <1>8. ASSUME WholeStacks, StacksAreFlat PROVE StacksAreFlat'
    <2>1. Existing \subseteq Cards /\ v \notin Cards \ Existing
      BY <1>3, Marks DEF Existing
    <2>2. ASSUME NEW x \in Existing, card'[x].cover # NoCard
          PROVE  /\ card'[x].cover \in Existing
                 /\ card'[card'[x].cover].cover = NoCard
                 /\ card'[x].space = card'[card'[x].cover].space
      <3>1. CASE x = c
        BY <1>3, <1>4, <1>6, <2>1, <2>2, <3>1
      <3>2. CASE x # c
        <4>1. /\ card'[x] = card[x] /\ card[x].cover \in Existing
              /\ card[card[x].cover].cover = NoCard
              /\ card[x].space = card[card[x].cover].space
          BY <1>6, <1>8, <2>1, <2>2, <3>2 DEF StacksAreFlat
        <4>2. CASE card[x].cover = c
          <5>1. x \in Kids(c)
            BY <4>2 DEF Kids
          <5>2. v = NoCard
            BY <1>3, <1>8, <5>1 DEF WholeStacks
          <5> QED BY <1>4, <1>6, <4>1, <4>2, <5>2
        <4>3. CASE card[x].cover # c
          BY <1>6, <2>1, <4>1, <4>3
        <4> QED BY <4>2, <4>3
      <3> QED BY <3>1, <3>2
    <2> QED BY <1>6, <2>2 DEF StacksAreFlat
  <1>9. CardsHaveTypes'
    BY <1>1, <1>6, RequestIsDone, RestIsTyped
  <1>10. \A u \in Tabs : req'[u] = Idle
    BY <1>1, RequestIsDone
  <1>11. RequestsInv'
    BY <1>6, <1>9, <1>10, EndingIs, RequestsEnd
  <1>12. AsksAreWhole'
    BY <1>10 DEF AsksAreWhole, OnCard
  <1> QED BY <1>6, <1>7, <1>8, <1>11, <1>12, Halves DEF Keeps

\* Rows leave the table, their stacked cards stay without a cover, and what is left
\* in a plain space that goes comes out of it.
LEMMA WithoutKeeps ==
    ASSUME RequestsInv, NEW gone \in SUBSET Existing, NEW s,
           NEW late \in SUBSET (Existing \ gone),
           late = {} \/ /\ ~is_sealed_collection(s)
                        /\ late = {c \in Existing \ gone : card[c].space = s},
           card' = [c \in Cards |-> IF c \in late THEN [Without(gone)[c] EXCEPT !.space = Unfiled]
                                    ELSE Without(gone)[c]],
           spaces' \subseteq Spaces, parent' \in [Spaces -> Spaces \cup {Root}],
           unlocked' \subseteq Sealed, req' \in [Tabs -> Requests], Ending,
           \A u \in Tabs : ~Moves(u)
    PROVE  Keeps
  <1>1. CardsHaveTypes /\ Existing \subseteq Cards /\ \A c \in Existing : card[c] \in Rows
    BY ExistingHasRow DEF RequestsInv
  <1>2. \A c \in gone : c \in Cards /\ c # NoCard /\ card'[c] = Gone
    BY <1>1, Marks DEF Without
  <1>3. \A c \in Existing \ gone :
           /\ card'[c] \in Rows
           /\ card'[c].space = IF c \in late THEN Unfiled ELSE card[c].space
           /\ card'[c].clear = card[c].clear /\ card'[c].box = card[c].box
           /\ card'[c].real = card[c].real
           /\ card'[c].cover = IF card[c].cover \in gone THEN NoCard ELSE card[c].cover
    <2>1. ASSUME NEW c \in Existing \ gone
          PROVE  /\ card'[c] \in Rows
                 /\ card'[c].space = IF c \in late THEN Unfiled ELSE card[c].space
                 /\ card'[c].clear = card[c].clear /\ card'[c].box = card[c].box
                 /\ card'[c].real = card[c].real
                 /\ card'[c].cover = IF card[c].cover \in gone THEN NoCard ELSE card[c].cover
      <3> DEFINE r == Without(gone)[c]
      <3>1. card[c] \in Rows
        BY <1>1
      <3>2. r = IF card[c].cover \in gone THEN [card[c] EXCEPT !.cover = NoCard] ELSE card[c]
        BY <1>1 DEF Without
      <3>3. card'[c] = IF c \in late THEN [r EXCEPT !.space = Unfiled] ELSE r
        BY <1>1
      <3> HIDE DEF r
      <3>4. /\ r \in Rows /\ r.space = card[c].space /\ r.clear = card[c].clear
            /\ r.box = card[c].box /\ r.real = card[c].real
            /\ r.cover = IF card[c].cover \in gone THEN NoCard ELSE card[c].cover
        <4>1. CASE card[c].cover \in gone
          BY <3>1, <3>2, <4>1 DEF Rows
        <4>2. CASE card[c].cover \notin gone
          BY <3>1, <3>2, <4>2
        <4> QED BY <4>1, <4>2
      <3>5. CASE c \in late
        BY <3>3, <3>4, <3>5 DEF Rows
      <3>6. CASE c \notin late
        BY <3>3, <3>4, <3>6
      <3> QED BY <3>5, <3>6
    <2> QED BY <2>1
  <1>4. \A c \in Cards \ Existing : card'[c] = card[c] /\ card[c] \in {NoCard, Gone}
    BY <1>1 DEF Without, Existing
  <1>5. card' \in [Cards -> Rows \cup {NoCard, Gone}]
    <2>1. \A c \in Cards : card'[c] \in Rows \cup {NoCard, Gone}
      BY <1>2, <1>3, <1>4
    <2>2. card' = [c \in Cards |-> card'[c]]
      BY SMTT(30)
    <2> QED BY <2>1, <2>2
  <1>6. Existing' = Existing \ gone
    <2>1. \A c \in Cards : c \in Existing' <=> card'[c] \notin {NoCard, Gone}
      BY Zenon DEF Existing
    <2>2. \A c \in Existing \ gone : card'[c] \notin {NoCard, Gone}
      BY <1>3, Marks, Zenon
    <2>3. \A c \in gone : c \notin Existing'
      BY <1>2, <2>1, Zenon
    <2>4. \A c \in Cards \ Existing : c \notin Existing'
      BY <1>4, <2>1, Zenon
    <2>5. Existing' \subseteq Cards
      BY Zenon DEF Existing
    <2> QED BY ONLY <1>1, <2>1, <2>2, <2>3, <2>4, <2>5
  <1>7. CardsHaveTypes'
    BY <1>1, <1>5 DEF CardsHaveTypes
  <1>8. CardsGoOn
    <2> SUFFICES ASSUME NEW c \in Cards
                 PROVE  /\ card[c] # NoCard => card'[c] # NoCard
                        /\ card[c] = Gone => card'[c] = Gone
      BY Zenon DEF CardsGoOn
    <2>1. CASE c \in gone
      BY <1>2, <2>1, Marks, Zenon
    <2>2. CASE c \in Existing \ gone
      <3>1. card[c] # Gone
        BY <2>2 DEF Existing
      <3>2. card'[c] # NoCard
        BY <1>3, <2>2, Marks, Zenon
      <3> QED BY <3>1, <3>2, Zenon
    <2>3. CASE c \notin Existing
      BY <1>4, <2>3, Zenon
    <2> QED BY <2>1, <2>2, <2>3, Zenon
  <1>9. \A c \in late : card[c].space = s /\ ~is_sealed_collection(s)
    OBVIOUS
  <1>10. ~is_sealed_collection(Unfiled)
    BY Marks DEF is_sealed_collection
  <1>11. SpacesStay
    <2>1. ASSUME NEW c \in Existing \ gone
          PROVE  /\ is_sealed_collection(card[c].space) => card'[c].space = card[c].space
                 /\ ~is_sealed_collection(card[c].space) => ~is_sealed_collection(card'[c].space)
      BY <1>3, <1>9, <1>10
    <2> QED BY <1>6, <2>1 DEF SpacesStay
  <1>12. StacksAreFlat => StacksAreFlat'
    <2>1. ASSUME StacksAreFlat, NEW c \in Existing', card'[c].cover # NoCard
          PROVE  /\ card'[c].cover \in Existing'
                 /\ card'[card'[c].cover].cover = NoCard
                 /\ card'[c].space = card'[card'[c].cover].space
      <3>1. /\ c \in Existing \ gone /\ card'[c].cover = card[c].cover
            /\ card[c].cover \notin gone
        BY <1>3, <1>6, <2>1
      <3>2. PICK d \in Existing \ gone : /\ d = card[c].cover /\ card[d].cover = NoCard
                                         /\ card[c].space = card[d].space
        BY <2>1, <3>1 DEF StacksAreFlat
      <3>3. c \in late <=> d \in late
        <4>1. CASE late = {}
          BY <4>1
        <4>2. CASE late = {x \in Existing \ gone : card[x].space = s}
          BY ONLY <3>1, <3>2, <4>2
        <4> QED BY <4>1, <4>2
      <3>4. card'[c].space = card'[d].space
        <4>1. CASE c \in late
          <5>1. card'[c].space = Unfiled
            BY <1>3, <3>1, <4>1, Zenon
          <5>2. card'[d].space = Unfiled
            BY <1>3, <3>2, <3>3, <4>1, Zenon
          <5> QED BY <5>1, <5>2, Zenon
        <4>2. CASE c \notin late
          BY <1>3, <3>1, <3>2, <3>3, <4>2
        <4> QED BY <4>1, <4>2
      <3>5. card'[d].cover = NoCard
        BY <1>3, <3>2
      <3> QED BY <1>6, <3>1, <3>2, <3>4, <3>5
    <2> QED BY <2>1 DEF StacksAreFlat
  <1>13. RowsAreWhole => RowsAreWhole'
    <2>1. ASSUME RowsAreWhole, NEW c \in Existing \ gone PROVE Whole(card'[c])
      <3>1. Whole(card[c])
        BY <2>1 DEF RowsAreWhole
      <3>2. c \in late => card[c].box = NoBox
        BY <1>9, <3>1 DEF Whole, is_sealed_collection
      <3> QED BY <1>3, <3>1, <3>2 DEF Whole
    <2> QED BY <1>6, <2>1 DEF RowsAreWhole, Whole
  <1>14. SealedSpaceIsSealed => SealedSpaceIsSealed'
    <2>1. ASSUME SealedSpaceIsSealed, NEW c \in Existing \ gone,
                 is_sealed_collection(card'[c].space)
          PROVE  card'[c].box # NoBox /\ ~card'[c].clear
      <3>1. card'[c].space = card[c].space
        BY <1>3, <1>10, <2>1
      <3>2. card[c].box # NoBox /\ ~card[c].clear
        BY <2>1, <3>1 DEF SealedSpaceIsSealed
      <3> QED BY <1>3, <3>2
    <2> QED BY <1>6, <2>1 DEF SealedSpaceIsSealed, is_sealed_collection
  <1> QED BY <1>7, <1>8, <1>11, <1>12, <1>13, <1>14, AtOnceKeeps

\* A card is deleted by its id.
LEMMA DeleteKeeps ==
    ASSUME RequestsInv, NEW t \in Tabs, delete_item(t)
    PROVE  Keeps
  <1>1. PICK gone \in SUBSET Existing : gone = {req[t].card} \cap Existing
    OBVIOUS
  <1>2. /\ card' = Without(gone) /\ Done(t) /\ UNCHANGED <<spaces, parent, unlocked>>
        /\ req[t] # Idle /\ ~Moves(t)
    BY <1>1 DEF delete_item, Moves
  <1>3. PICK late \in SUBSET (Existing \ gone) : late = {}
    OBVIOUS
  <1>4. card' = [c \in Cards |-> IF c \in late THEN [Without(gone)[c] EXCEPT !.space = Unfiled]
                                 ELSE Without(gone)[c]]
    BY <1>2, <1>3 DEF Without
  <1>5. /\ spaces' \subseteq Spaces /\ parent' \in [Spaces -> Spaces \cup {Root}]
        /\ unlocked' \subseteq Sealed
    BY <1>2 DEF RequestsInv, CardsHaveTypes
  <1>6. req' \in [Tabs -> Requests] /\ Ending /\ \A u \in Tabs : ~Moves(u)
    BY <1>2, RequestIsDone, NothingBeside
  <1> QED BY <1>3, <1>4, <1>5, <1>6, WithoutKeeps

\* The deletion of a space is done with one: it ends, or goes on with the next.
LEMMA SpaceEnds ==
    ASSUME RequestsInv, NEW t \in Tabs, delete_collection(t)
    PROVE  /\ Head(req[t].calls).space \in Spaces /\ req[t].cards \subseteq Cards
           /\ \A u \in Tabs : ~Moves(u)
           /\ req' \in [Tabs -> Requests] /\ Ending
           /\ req'[t] = Idle \/ req'[t].op = "deleteSpace"
           /\ \A u \in Tabs \ {t} : req'[u] = req[u]
  <1> DEFINE calls == req[t].calls
             q == Deletion(Tail(calls))
  <1>1. DeletesSpaces(t) /\ req' = [req EXCEPT ![t] = IF Len(calls) = 1 THEN Idle ELSE q]
    BY DEF delete_collection
  <1>2. /\ req[t] \in SpaceDeletions /\ calls \in Seq(Calls) /\ calls # <<>>
        /\ Head(calls) \in Calls
    BY <1>1, SpaceRequest DEF RequestsInv
  <1>3. q.op = "deleteSpace"
    BY DEF Deletion
  <1>4. Len(calls) # 1 => q \in SpaceDeletions
    BY <1>2, CallsLeft, DeletionIsOne
  <1> HIDE DEF q
  <1>5. /\ req' \in [Tabs -> Requests]
        /\ req'[t] = Idle \/ (req'[t] = q /\ q.op = "deleteSpace")
        /\ \A u \in Tabs \ {t} : req'[u] = req[u]
    BY <1>1, <1>3, <1>4 DEF RequestsInv, CardsHaveTypes, Requests, OtherRequests
  <1>6. \A u \in Tabs : ~Moves(u)
    BY <1>1, NothingBeside DEF DeletesSpaces, Moves
  <1>7. Ending
    BY <1>5, <1>6 DEF Ending, OnCard, Moves, CardOps
  <1>8. Head(calls).space \in Spaces /\ req[t].cards \subseteq Cards
    BY <1>2 DEF Calls, SpaceDeletions
  <1> QED BY <1>5, <1>6, <1>7, <1>8

\* A space goes with the cards listed; one that came later stays, without a space.
LEMMA SpaceDeleteKeeps ==
    ASSUME MovesAlone, RequestsInv, NEW t \in Tabs, delete_collection(t)
    PROVE  Keeps
  <1>1. PICK s \in Spaces : s = Head(req[t].calls).space
    BY SpaceEnds
  <1>2. PICK gone \in SUBSET Existing : gone = req[t].cards \cap Existing
    OBVIOUS
  <1>3. PICK late \in SUBSET (Existing \ gone) :
           late = {c \in Existing \ gone : card[c].space = s}
    OBVIOUS
  <1>4. /\ is_sealed_collection(s) => late = {}
        /\ card' = [c \in Cards |-> IF c \in late THEN [Without(gone)[c] EXCEPT !.space = Unfiled]
                                    ELSE Without(gone)[c]]
        /\ spaces' = spaces \ {s} /\ unlocked' = unlocked \ {s}
        /\ parent' = [x \in Spaces |-> IF x = s \/ parent[x] = s THEN Root ELSE parent[x]]
    BY <1>1, <1>2, <1>3 DEF delete_collection, MovesAlone
  <1>5. late = {} \/ /\ ~is_sealed_collection(s)
                     /\ late = {c \in Existing \ gone : card[c].space = s}
    BY <1>3, <1>4
  <1>6. /\ spaces' \subseteq Spaces /\ parent' \in [Spaces -> Spaces \cup {Root}]
        /\ unlocked' \subseteq Sealed
    BY <1>4 DEF RequestsInv, CardsHaveTypes
  <1>7. req' \in [Tabs -> Requests] /\ Ending /\ \A u \in Tabs : ~Moves(u)
    BY SpaceEnds
  <1>8. card' = [c \in Cards |-> IF c \in late THEN [Without(gone)[c] EXCEPT !.space = Unfiled]
                                 ELSE Without(gone)[c]]
    BY <1>4
  <1> QED BY <1>5, <1>6, <1>7, <1>8, WithoutKeeps

\* All cards of a space move to another.
LEMMA EmptiedKeeps ==
    ASSUME RequestsInv, NEW s \in Spaces, NEW into \in Spaces \cup {Unfiled},
           card' = [c \in Cards |-> IF c \in Existing /\ card[c].space = s
                                    THEN [card[c] EXCEPT !.space = into] ELSE card[c]],
           is_sealed_collection(s) => \A c \in Existing : card[c].space # s,
           is_sealed_collection(into) => "dissolve" \in Allowed,
           spaces' \subseteq Spaces, parent' \in [Spaces -> Spaces \cup {Root}],
           unlocked' \subseteq Sealed, req' = req, \A u \in Tabs : ~Moves(u)
    PROVE  Keeps
  <1>1. CardsHaveTypes /\ Existing \subseteq Cards /\ \A c \in Existing : card[c] \in Rows
    BY ExistingHasRow DEF RequestsInv
  <1>2. \A c \in Existing :
           /\ card'[c] \in Rows
           /\ card'[c].space = IF card[c].space = s THEN into ELSE card[c].space
           /\ card'[c].clear = card[c].clear /\ card'[c].box = card[c].box
           /\ card'[c].real = card[c].real /\ card'[c].cover = card[c].cover
    <2>1. ASSUME NEW c \in Existing
          PROVE  card'[c] = IF card[c].space = s THEN [card[c] EXCEPT !.space = into] ELSE card[c]
      BY <1>1
    <2> QED BY <1>1, <2>1 DEF Rows
  <1>3. \A c \in Cards \ Existing : card'[c] = card[c] /\ card[c] \in {NoCard, Gone}
    BY <1>1 DEF Existing
  <1>4. card' \in [Cards -> Rows \cup {NoCard, Gone}]
    BY <1>2, <1>3
  <1>5. Existing' = Existing
    BY <1>1, <1>2, <1>3, Marks DEF Existing
  <1>6. CardsHaveTypes'
    BY <1>1, <1>4 DEF CardsHaveTypes
  <1>7. CardsGoOn
    <2>1. \A c \in Existing : card[c] # Gone
      BY DEF Existing
    <2> QED BY <1>2, <1>3, <2>1, Marks DEF CardsGoOn
  <1>8. SpacesStay
    BY ZenonT(60), <1>2, <1>5 DEF SpacesStay
  <1>9. ASSUME StacksAreFlat PROVE StacksAreFlat'
    <2>1. ASSUME NEW c \in Existing, card'[c].cover # NoCard
          PROVE  /\ card'[c].cover \in Existing
                 /\ card'[card'[c].cover].cover = NoCard
                 /\ card'[c].space = card'[card'[c].cover].space
      <3>1. PICK d \in Existing : /\ d = card[c].cover /\ card[d].cover = NoCard
                                  /\ card[c].space = card[d].space
        BY <1>2, <1>9, <2>1 DEF StacksAreFlat
      <3>2. card'[c].cover = d /\ card'[d].cover = NoCard
        BY <1>2, <3>1
      <3>3. /\ card'[c].space = IF card[c].space = s THEN into ELSE card[c].space
            /\ card'[d].space = IF card[d].space = s THEN into ELSE card[d].space
        BY <1>2, <3>1
      <3>4. card'[c].space = card'[d].space
        <4>1. CASE card[c].space = s
          BY <3>1, <3>3, <4>1, Zenon
        <4>2. CASE card[c].space # s
          BY <3>1, <3>3, <4>2, Zenon
        <4> QED BY <4>1, <4>2
      <3> QED BY <3>1, <3>2, <3>4
    <2> QED BY <1>5, <2>1 DEF StacksAreFlat
  <1>10. RowsAreWhole => RowsAreWhole'
    <2>1. ASSUME RowsAreWhole, NEW c \in Existing PROVE Whole(card'[c])
      <3>1. Whole(card[c])
        BY <2>1 DEF RowsAreWhole
      <3>2. card[c].space = s => card[c].box = NoBox
        BY <3>1 DEF Whole, is_sealed_collection
      <3> QED BY <1>2, <3>1, <3>2 DEF Whole
    <2> QED BY <1>5, <2>1 DEF RowsAreWhole, Whole
  <1>11. ASSUME SealedAtOnce, SealedSpaceIsSealed PROVE SealedSpaceIsSealed'
    <2>1. ~is_sealed_collection(into)
      BY <1>11 DEF SealedAtOnce
    <2>2. ASSUME NEW c \in Existing, is_sealed_collection(card'[c].space)
          PROVE  card'[c].box # NoBox /\ ~card'[c].clear
      <3>1. card[c].space # s /\ card'[c].space = card[c].space
        BY <1>2, <2>1, <2>2
      <3>2. card[c].box # NoBox /\ ~card[c].clear
        BY <1>11, <2>2, <3>1 DEF SealedSpaceIsSealed
      <3> QED BY <1>2, <3>2
    <2> QED BY <1>5, <2>2 DEF SealedSpaceIsSealed, is_sealed_collection
  <1> QED BY <1>6, <1>7, <1>8, <1>9, <1>10, <1>11, EndingIs, AtOnceKeeps

\* Two plain spaces are merged; a folder is dissolved into the one above it.
LEMMA MergesKeep ==
    ASSUME MovesAlone, RequestsInv, NEW s \in Spaces,
           \/ \E into \in Spaces \cup {Unfiled} : merge_collections(s, into)
           \/ dissolve_space(s)
    PROVE  Keeps
  <1>1. ASSUME NEW into \in Spaces \cup {Unfiled}, merge_collections(s, into) PROVE Keeps
    <2>1. /\ card' = [c \in Cards |-> IF c \in Existing /\ card[c].space = s
                                      THEN [card[c] EXCEPT !.space = into] ELSE card[c]]
          /\ ~is_sealed_collection(s) /\ ~is_sealed_collection(into)
      BY <1>1, Marks DEF merge_collections, is_sealed_collection
    <2>2. /\ spaces' \subseteq Spaces /\ parent' \in [Spaces -> Spaces \cup {Root}]
          /\ unlocked' \subseteq Sealed /\ req' = req
      BY <1>1 DEF merge_collections, RequestsInv, CardsHaveTypes
    <2>3. \A u \in Tabs : ~Moves(u)
      BY <1>1, Started DEF merge_collections
    <2> QED BY <2>1, <2>2, <2>3, EmptiedKeeps
  <1>2. CASE dissolve_space(s)
    <2>1. parent[s] \in Spaces /\ parent \in [Spaces -> Spaces \cup {Root}]
      BY <1>2 DEF dissolve_space, RequestsInv, CardsHaveTypes
    <2>2. /\ card' = [c \in Cards |-> IF c \in Existing /\ card[c].space = s
                                      THEN [card[c] EXCEPT !.space = parent[s]] ELSE card[c]]
          /\ is_sealed_collection(s) => \A c \in Existing : card[c].space # s
          /\ "dissolve" \in Allowed
      BY <1>2, Started DEF dissolve_space
    <2>3. /\ spaces' \subseteq Spaces /\ parent' \in [Spaces -> Spaces \cup {Root}]
          /\ unlocked' \subseteq Sealed /\ req' = req
      BY <1>2, <2>1 DEF dissolve_space, RequestsInv, CardsHaveTypes
    <2>4. \A u \in Tabs : ~Moves(u)
      BY <1>2, Started DEF dissolve_space
    <2> QED BY <2>1, <2>2, <2>3, <2>4, EmptiedKeeps
  <1> QED BY <1>1, <1>2

\* The row of a card that is filed: sealed for the space it comes to, or moved.
Refile(r, to) == IF is_sealed_collection(to) THEN seal_item(r, to) ELSE [r EXCEPT !.space = to]

\* It stands where it is filed, holds what was readable, and is sealed there.
LEMMA Refiled ==
    ASSUME NEW r \in Rows, NEW to \in Spaces \cup {Unfiled}
    PROVE  /\ Refile(r, to) \in Rows
           /\ Refile(r, to).space = to /\ Refile(r, to).cover = r.cover
           /\ r.clear /\ (is_sealed_collection(to) \/ r.box = NoBox) => Whole(Refile(r, to))
           /\ is_sealed_collection(to) => Refile(r, to).box # NoBox /\ ~Refile(r, to).clear
  <1>1. CASE is_sealed_collection(to)
    <2> DEFINE m == seal_item(r, to)
    <2>1. to \in Spaces /\ to \in Sealed /\ to # NoBox
      BY <1>1, Marks DEF is_sealed_collection
    <2>2. /\ m \in Rows /\ m.space = to /\ m.box = to /\ m.real = r.clear
          /\ m.clear = FALSE /\ m.cover = r.cover
      BY <2>1, SealedRow
    <2>3. Refile(r, to) = m
      BY <1>1 DEF Refile
    <2> HIDE DEF m
    <2> QED BY <2>1, <2>2, <2>3 DEF Whole
  <1>2. CASE ~is_sealed_collection(to)
    <2> DEFINE m == [r EXCEPT !.space = to]
    <2>1. /\ m \in Rows /\ m.space = to /\ m.box = r.box /\ m.clear = r.clear
          /\ m.cover = r.cover
      BY DEF Rows
    <2>2. Refile(r, to) = m
      BY <1>2 DEF Refile
    <2> HIDE DEF m
    <2> QED BY <1>2, <2>1, <2>2 DEF Whole
  <1> QED BY <1>1, <1>2

\* What the filing of a card and of the cards stacked under it leaves.
FiledTo(c, to) ==
    /\ card' \in [Cards -> Rows \cup {NoCard, Gone}]
    /\ \A x \in Cards \ ({c} \cup Kids(c)) : card'[x] = card[x]
    /\ \A x \in {c} \cup Kids(c) :
         /\ card'[x] \in Rows /\ card'[x].space = to /\ card'[x].cover = card[x].cover
         /\ WholeStacks /\ StacksAreFlat /\ RowsAreWhole => Whole(card'[x])
         /\ is_sealed_collection(to) => card'[x].box # NoBox /\ ~card'[x].clear

\* A filing moves the whole stack, and no request is left that relies on a row.
LEMMA FilingKeeps ==
    ASSUME RequestsInv, NEW t \in Tabs, Files(t), Done(t), UNCHANGED <<spaces, parent, unlocked>>,
           FiledTo(req[t].card, req[t].to)
    PROVE  Keeps
  <1>1. PICK c \in Existing, to \in Spaces \cup {Unfiled} :
           /\ c = req[t].card /\ to = req[t].to /\ FiledTo(c, to)
           /\ WholeStacks => card[c].cover = NoCard
    BY FilingFinds
  <1> DEFINE stack == {c} \cup Kids(c)
  <1>2. CardsHaveTypes /\ Existing \subseteq Cards /\ stack \subseteq Existing
    BY ExistingHasRow DEF RequestsInv, Kids
  <1>3. /\ card' \in [Cards -> Rows \cup {NoCard, Gone}]
        /\ \A x \in Cards \ stack : card'[x] = card[x]
        /\ \A x \in stack :
             /\ card'[x] \in Rows /\ card'[x].space = to /\ card'[x].cover = card[x].cover
             /\ WholeStacks /\ StacksAreFlat /\ RowsAreWhole => Whole(card'[x])
             /\ is_sealed_collection(to) => card'[x].box # NoBox /\ ~card'[x].clear
    BY <1>1 DEF FiledTo
  <1>4. \A x \in Existing : x \in stack <=> x = c \/ card[x].cover = c
    BY DEF Kids
  <1> HIDE DEF stack
  <1>5. Existing' = Existing
    BY <1>2, <1>3, Marks DEF Existing
  <1>6. CardsGoOn
    <2>1. \A x \in stack : card[x] # NoCard /\ card[x] # Gone
      BY <1>2 DEF Existing
    <2> QED BY <1>3, <2>1, Marks DEF CardsGoOn
  <1>7. CardsHaveTypes'
    BY <1>3, RequestIsDone, RestIsTyped
  <1>8. \A u \in Tabs : req'[u] = Idle
    BY FilingFinds, RequestIsDone
  <1>9. RequestsInv'
    BY <1>6, <1>7, <1>8, EndingIs, RequestsEnd
  <1>10. ASSUME WholeStacks, StacksAreFlat PROVE StacksAreFlat'
    <2>1. ASSUME NEW x \in Existing, card'[x].cover # NoCard
          PROVE  /\ card'[x].cover \in Existing
                 /\ card'[card'[x].cover].cover = NoCard
                 /\ card'[x].space = card'[card'[x].cover].space
      <3>1. card'[x].cover = card[x].cover
        BY <1>2, <1>3
      <3>2. PICK d \in Existing : /\ d = card[x].cover /\ card[d].cover = NoCard
                                  /\ card[x].space = card[d].space
        BY <1>10, <2>1, <3>1 DEF StacksAreFlat
      <3>3. card'[d].cover = NoCard
        BY <1>2, <1>3, <3>2
      <3>4. x # c /\ x \in stack <=> d = c
        BY <1>1, <1>4, <1>10, <2>1, <3>1, <3>2
      <3>5. d # c => d \notin stack /\ x \notin stack
        <4>1. NoCard # c
          BY <1>2, Marks
        <4> QED BY <1>1, <1>4, <1>10, <2>1, <3>1, <3>2, <4>1
      <3>6. card'[x].space = card'[d].space
        <4>1. CASE d = c
          <5>1. x \in stack /\ d \in stack
            BY <1>4, <3>2, <4>1
          <5> QED BY <1>3, <5>1
        <4>2. CASE d # c
          <5>1. card'[x] = card[x] /\ card'[d] = card[d]
            BY <1>2, <1>3, <3>5, <4>2
          <5> QED BY <3>2, <5>1
        <4> QED BY <4>1, <4>2
      <3> QED BY <3>1, <3>2, <3>3, <3>6
    <2> QED BY <1>5, <2>1 DEF StacksAreFlat
  <1>11. WholeStacks /\ StacksAreFlat /\ RowsAreWhole => RowsAreWhole'
    <2>1. ASSUME WholeStacks, StacksAreFlat, RowsAreWhole, NEW x \in Existing
          PROVE  Whole(card'[x])
      <3>1. CASE x \in stack
        BY <1>3, <2>1, <3>1
      <3>2. CASE x \notin stack
        <4>1. card'[x] = card[x]
          BY <1>2, <1>3, <3>2
        <4> QED BY <2>1, <4>1 DEF RowsAreWhole
      <3> QED BY <3>1, <3>2
    <2> QED BY <1>5, <2>1 DEF RowsAreWhole, Whole
  <1>12. SealedSpaceIsSealed => SealedSpaceIsSealed'
    <2>1. ASSUME SealedSpaceIsSealed, NEW x \in Existing, is_sealed_collection(card'[x].space)
          PROVE  card'[x].box # NoBox /\ ~card'[x].clear
      <3>1. CASE x \in stack
        BY <1>3, <2>1, <3>1
      <3>2. CASE x \notin stack
        <4>1. card'[x] = card[x]
          BY <1>2, <1>3, <3>2
        <4> QED BY <2>1, <4>1 DEF SealedSpaceIsSealed
      <3> QED BY <3>1, <3>2
    <2> QED BY <1>5, <2>1 DEF SealedSpaceIsSealed, is_sealed_collection
  <1>13. AsksAreWhole'
    BY <1>8 DEF AsksAreWhole, OnCard
  <1> QED BY <1>9, <1>10, <1>11, <1>12, <1>13, Halves DEF Keeps

\* A filing that is refused, or too late.
LEMMA RefusedKeeps ==
    ASSUME RequestsInv, NEW t \in Tabs, Files(t), Done(t), UNCHANGED <<spaces, parent, unlocked>>,
           card' = card
    PROVE  Keeps
  <1>1. CardsHaveTypes'
    BY RequestIsDone, RestIsTyped DEF RequestsInv, CardsHaveTypes
  <1> QED BY <1>1, RequestIsDone, QuietKeeps

\* A sealed stack moves to a sealed space: every row is opened and sealed again.
LEMMA SealedMoveKeeps ==
    ASSUME RequestsInv, NEW t \in Tabs, move_sealed_item(t)
    PROVE  Keeps
  <1>1. Files(t) /\ Done(t) /\ UNCHANGED <<spaces, parent, unlocked>>
    BY DEF move_sealed_item, Files
  <1>2. PICK c \in Existing, row \in Rows, to \in Spaces \cup {Unfiled} :
           c = req[t].card /\ row = req[t].row /\ to = req[t].to /\ card[c] = row
    BY <1>1, FilingFinds
  <1> DEFINE moved(r) == seal_item(open_item(r), to)
             opens == /\ is_sealed_collection(to) /\ to \in spaces /\ c \in Existing
                      /\ \A k \in Kids(c) : can_open(card[k], row.space)
  <1>3. card' = IF opens THEN [x \in Cards |-> IF x = c THEN FlushSealed(card[x], row, moved(row))
                                               ELSE IF x \in Kids(c) THEN moved(card[x])
                                               ELSE card[x]]
                ELSE card
    BY <1>2 DEF move_sealed_item
  <1>4. CASE opens
    <2>1. is_sealed_collection(to) /\ to \in Spaces
      BY <1>4, Marks DEF is_sealed_collection
    <2>2. CardsHaveTypes /\ Existing \subseteq Cards /\ Kids(c) \subseteq Existing
      BY ExistingHasRow DEF RequestsInv, Kids
    <2>3. ASSUME NEW r \in Rows
          PROVE  /\ moved(r) \in Rows /\ moved(r).space = to /\ moved(r).cover = r.cover
                 /\ Whole(r) => Whole(moved(r))
                 /\ moved(r).box # NoBox /\ ~moved(r).clear
      <3>1. PICK o \in Rows : /\ o = open_item(r) /\ o.cover = r.cover
                              /\ o.clear = IF r.box = NoBox THEN r.clear ELSE r.real
        BY OpenedRow
      <3>2. moved(r) = Refile(o, to)
        BY <2>1, <3>1 DEF Refile
      <3>3. Whole(r) => o.clear
        BY <3>1 DEF Whole
      <3> HIDE DEF moved
      <3> QED BY <2>1, <3>1, <3>2, <3>3, Refiled
    <2>4. FlushSealed(row, row, moved(row)) = moved(row)
      BY <2>3, FlushedSealedRow
    <2>5. \A x \in {c} \cup Kids(c) : card[x] \in Rows /\ card'[x] = moved(card[x])
      BY <1>2, <1>3, <1>4, <2>2, <2>4, ExistingHasRow
    <2>6. \A x \in Cards \ ({c} \cup Kids(c)) : card'[x] = card[x]
      BY <1>3, <1>4
    <2>7. DOMAIN card' = Cards
      BY <1>3, <1>4
    <2> HIDE DEF moved
    <2>8. card' \in [Cards -> Rows \cup {NoCard, Gone}]
      <3>1. \A x \in Cards : card'[x] \in Rows \cup {NoCard, Gone}
        BY <2>2, <2>3, <2>5, <2>6 DEF CardsHaveTypes
      <3>2. card' = [x \in Cards |-> card'[x]]
        BY <1>3, <1>4
      <3> QED BY <3>1, <3>2
    <2>9. \A x \in {c} \cup Kids(c) : RowsAreWhole => Whole(card[x])
      BY <2>2 DEF RowsAreWhole
    <2>10. FiledTo(c, to)
      BY <2>3, <2>5, <2>6, <2>8, <2>9 DEF FiledTo
    <2> QED BY <1>1, <1>2, <2>10, FilingKeeps
  <1>5. CASE ~opens
    BY <1>1, <1>3, <1>5, RefusedKeeps
  <1> QED BY <1>4, <1>5

\* A plain stack is filed: it is sealed into a sealed space, or moved.
LEMMA PlainMoveKeeps ==
    ASSUME RequestsInv, NEW t \in Tabs, update_vault_item(t)
    PROVE  Keeps
  <1>1. Files(t) /\ Done(t) /\ UNCHANGED <<spaces, parent, unlocked>>
    BY DEF update_vault_item, Files
  <1>2. PICK c \in Existing, row \in Rows, to \in Spaces \cup {Unfiled} :
           /\ c = req[t].card /\ row = req[t].row /\ to = req[t].to /\ card[c] = row
           /\ to # row.space
    BY <1>1, FilingFinds
  <1> DEFINE into == is_sealed_collection(to)
             refused == row.box # NoBox \/ to \notin spaces \cup {Unfiled}
             kid(r) == IF into THEN seal_item(r, to) ELSE [r EXCEPT !.space = to]
  <1>3. /\ ~is_sealed_collection(row.space)
        /\ card' = IF refused THEN card
                   ELSE [x \in Cards |->
                          IF x = c /\ into THEN FlushSealed(card[x], row, seal_item(row, to))
                          ELSE IF x = c THEN Flush(card[x], row, [row EXCEPT !.space = to])
                          ELSE IF x \in Kids(c) THEN kid(card[x]) ELSE card[x]]
    BY <1>2 DEF update_vault_item
  <1>4. CASE ~refused
    <2>1. row.box = NoBox
      BY <1>4
    <2>2. CardsHaveTypes /\ Existing \subseteq Cards /\ Kids(c) \subseteq Existing
      BY ExistingHasRow DEF RequestsInv, Kids
    <2>3. PICK m \in Rows : m = Refile(row, to)
      BY Refiled
    <2>4. /\ into => FlushSealed(row, row, seal_item(row, to)) = m
          /\ ~into => Flush(row, row, [row EXCEPT !.space = to]) = m
      BY <2>3, FlushedRow, FlushedSealedRow DEF Refile
    <2>5. \A r \in Rows : kid(r) = Refile(r, to)
      BY DEF Refile
    <2> HIDE DEF kid
    <2>6. card'[c] = m
      BY <1>2, <1>3, <1>4, <2>2, <2>4
    <2>7. \A x \in Kids(c) : card[x] \in Rows /\ (x # c => card'[x] = Refile(card[x], to))
      <3>1. \A x \in Kids(c) : card[x] \in Rows
        BY <2>2, ExistingHasRow
      <3>2. \A x \in Kids(c) : x # c => card'[x] = kid(card[x])
        BY <1>3, <1>4, <2>2
      <3> QED BY <2>5, <3>1, <3>2
    <2>8. \A x \in {c} \cup Kids(c) : card[x] \in Rows /\ card'[x] = Refile(card[x], to)
      BY <1>2, <2>3, <2>6, <2>7
    <2>9. \A x \in Cards \ ({c} \cup Kids(c)) : card'[x] = card[x]
      BY <1>3, <1>4
    <2>10. card' \in [Cards -> Rows \cup {NoCard, Gone}]
      <3>1. \A x \in Cards : card'[x] \in Rows \cup {NoCard, Gone}
        BY <2>2, <2>8, <2>9, Refiled DEF CardsHaveTypes
      <3>2. card' = [x \in Cards |-> card'[x]]
        BY <1>3, <1>4
      <3> QED BY <3>1, <3>2
    <2>11. ASSUME StacksAreFlat, RowsAreWhole, NEW x \in {c} \cup Kids(c)
           PROVE  card[x].clear /\ card[x].box = NoBox
      <3>1. Whole(card[x])
        BY <2>2, <2>11 DEF RowsAreWhole
      <3>2. card[x].space = row.space
        <4>1. c # NoCard
          BY <2>2, Marks
        <4> QED BY <1>2, <2>11, <4>1 DEF StacksAreFlat, Kids
      <3> QED BY <1>3, <3>1, <3>2 DEF Whole, is_sealed_collection
    <2>12. FiledTo(c, to)
      BY <2>8, <2>9, <2>10, <2>11, Refiled DEF FiledTo
    <2> QED BY <1>1, <1>2, <2>12, FilingKeeps
  <1>5. CASE refused
    BY <1>1, <1>3, <1>5, RefusedKeeps
  <1> QED BY <1>4, <1>5

\* Every step.
LEMMA StepKeepsCards ==
    ASSUME MovesAlone, RequestsInv, [Next]_vars
    PROVE  Keeps
  <1>1. ASSUME NEW s \in Spaces, Unlock(s) \/ Lock(s) \/ dissolve_space(s)
        PROVE  Keeps
    BY <1>1, UnlockKeeps, MergesKeep
  <1>2. ASSUME NEW c \in Cards, NEW s \in Spaces \cup {Unfiled}, NEW v \in Cards \cup {NoCard},
               \/ create_item(c, s, v)
               \/ \E t \in Tabs : create_video_capture_item(t, c, s, v)
        PROVE  Keeps
    BY <1>2, CreateKeeps, VideoKeeps
  <1>3. ASSUME NEW t \in Tabs, NEW c \in Existing,
               \/ LoadRead(t, c) \/ LoadEdit(t, c) \/ LoadDelete(t, c)
               \/ \E s \in Spaces \cup {Unfiled} : LoadFile(t, c, s)
               \/ \E v \in Cards \cup {NoCard} : LoadStack(t, c, v)
        PROVE  Keeps
    BY <1>3, LoadsKeep, DeleteStartKeeps
  <1>4. ASSUME NEW t \in Tabs, NEW s \in Spaces, delete_coll(t, s) \/ DeletesNested(t, s)
        PROVE  Keeps
    BY <1>4, SpaceCallsKeep
  <1>5. ASSUME NEW t \in Tabs,
               \/ create_capture(t) \/ get_item_by_id(t) \/ update_item(t)
               \/ stack_card(t) \/ move_sealed_item(t) \/ update_vault_item(t)
        PROVE  Keeps
    BY <1>5, CaptureKeeps, ReadKeeps, EditKeeps, StackKeeps, SealedMoveKeeps, PlainMoveKeeps
  <1>6. ASSUME NEW t \in Tabs,
               \/ delete_item(t) \/ ListsCards(t) \/ delete_collection(t)
               \/ reorder_space(t) \/ Abandon(t)
        PROVE  Keeps
    BY <1>6, DeleteKeeps, SpaceCallsKeep, SpaceDeleteKeeps, ReorderKeeps, AbandonKeeps
  <1>7. ASSUME NEW s \in Spaces, NEW to \in Spaces \cup {Unfiled}, merge_collections(s, to)
        PROVE  Keeps
    BY <1>7, MergesKeep
  <1>8. ASSUME NEW t \in Tabs, NEW s \in Spaces, NEW to \in Spaces \cup {Root},
               _assert_can_nest(t, s, to)
        PROVE  Keeps
    BY <1>8, NestStartKeeps
  <1>9. CASE UNCHANGED vars
    <2>1. card' = card /\ req' = req /\ UNCHANGED <<spaces, parent, unlocked>>
      BY <1>9 DEF vars
    <2>2. CardsHaveTypes'
      BY <2>1, RestIsTyped DEF RequestsInv, CardsHaveTypes
    <2> QED BY <2>1, <2>2, QuietKeeps
  <1> QED BY <1>1, <1>2, <1>3, <1>4, <1>5, <1>6, <1>7, <1>8, <1>9 DEF Next

\* At first there is no card and no request.
LEMMA StartIsWhole ==
    ASSUME Init
    PROVE  RequestsInv /\ StacksAreFlat /\ CardsAreWhole /\ SealedSpaceIsSealed
  <1>1. Existing = {}
    BY DEF Init, Existing
  <1>2. \A t \in Tabs : req[t] = Idle
    BY DEF Init
  <1>3. CardsHaveTypes
    BY DEF Init, CardsHaveTypes, Requests
  <1> QED BY <1>1, <1>2, <1>3 DEF RequestsInv, RequestsAreAllowed, MovesAreAlone,
             RowsStay, OnCard, Moves, CardOps, StacksAreFlat, CardsAreWhole, SealedSpaceIsSealed

\* "There must be no second, readable copy of what the owner wrote": between any
\* two commits, a card of a sealed space is sealed and its columns are blank -
\* for any number of tabs whose edits, deletions and moves interleave, as long as
\* a filing and a stacking run alone, no card comes into a sealed space whose
\* deletion has listed its cards, no read flushes what it opened, no video card
\* is committed before it is sealed, and no folder is dissolved into a sealed space.
THEOREM NoReadableCopyIsLeft ==
    ASSUME MovesAlone, SealedAtOnce
    PROVE  Spec => []SealedSpaceIsSealed
  <1> DEFINE Inv == RequestsInv /\ SealedSpaceIsSealed
  <1>1. Init => Inv
    BY StartIsWhole
  <1>2. Inv /\ [Next]_vars => Inv'
    BY StepKeepsCards DEF Keeps
  <1>3. Inv => SealedSpaceIsSealed
    OBVIOUS
  <1> HIDE DEF Inv
  <1> QED BY <1>1, <1>2, <1>3, PTL DEF Spec

\* "A half-moved stack is exactly the state this is meant to avoid": the cards of
\* a stack stand where its cover stands, as long as a filing and a stacking run
\* alone, no card comes into a sealed space whose deletion has listed its cards,
\* a stacked card is not filed by itself, no stack is put into a stack, and no
\* card is created under a cover.
THEOREM NoStackIsHalfMoved ==
    ASSUME MovesAlone, WholeStacks
    PROVE  Spec => []StackStaysTogether
  <1> DEFINE Inv == RequestsInv /\ StacksAreFlat
  <1>1. Init => Inv
    BY StartIsWhole
  <1>2. Inv /\ [Next]_vars => Inv'
    BY StepKeepsCards DEF Keeps
  <1>3. Inv => StackStaysTogether
    <2>1. Inv => NoCard \notin Existing
      BY ExistingHasRow, Marks DEF RequestsInv
    <2> QED BY <2>1 DEF StacksAreFlat, StackStaysTogether
  <1> HIDE DEF Inv
  <1> QED BY <1>1, <1>2, <1>3, PTL DEF Spec

\* "Keeping it readable": a sealed card opens under the key of the space it
\* stands in, and what opens is what was written, whatever reads, edits and
\* deletions interleave, under the same suppositions as NoStackIsHalfMoved.
THEOREM SealedCardsOpen ==
    ASSUME MovesAlone, WholeStacks
    PROVE  Spec => []SealedCardOpens
  <1> DEFINE Inv == RequestsInv /\ StacksAreFlat /\ CardsAreWhole
  <1>1. Init => Inv
    BY StartIsWhole
  <1>2. Inv /\ [Next]_vars => Inv'
    BY StepKeepsCards DEF Keeps
  <1>3. Inv => SealedCardOpens
    <2>1. ASSUME Inv, NEW c \in Existing, card[c].box # NoBox
          PROVE  can_open(card[c], card[c].space) /\ card[c].real
      <3>1. Whole(card[c])
        BY <2>1 DEF CardsAreWhole
      <3> QED BY <2>1, <3>1 DEF Whole, can_open
    <2> HIDE DEF Inv
    <2> QED BY <2>1 DEF SealedCardOpens
  <1> HIDE DEF Inv
  <1> QED BY <1>1, <1>2, <1>3, PTL DEF Spec

(***************************************************************************)
(* Types, for any requests that run at once.                               *)
(***************************************************************************)
GoesToPlace(q) == /\ q.op = "file" => q.to \in Spaces \cup {Unfiled}
                  /\ q.op = "stack" => q.to \in Cards \cup {NoCard}
TypesInv == CardsHaveTypes /\ \A t \in Tabs : OnCard(t) => GoesToPlace(req[t])

\* The cards after a step.
RowsRemain == card' \in [Cards -> Rows \cup {NoCard, Gone}]

\* A step of one card.
LEMMA OneRowRemains ==
    ASSUME CardsHaveTypes, NEW c \in Cards, NEW row \in Rows, card' = [card EXCEPT ![c] = row]
    PROVE  RowsRemain
  BY DEF CardsHaveTypes, RowsRemain

\* A step that leaves the cards.
LEMMA SameRowsRemain ==
    ASSUME CardsHaveTypes, card' = card
    PROVE  RowsRemain
  BY DEF CardsHaveTypes, RowsRemain

\* The request of a tab that is about a card.
LEMMA AskedTypes ==
    ASSUME TypesInv, NEW t \in Tabs, OnCard(t)
    PROVE  /\ req[t].card \in Cards /\ req[t].row \in Rows /\ req[t].op \in CardOps
           /\ is_sealed_collection(req[t].row.space) => req[t].row.space \in Spaces
           /\ req[t].op = "file" => req[t].to \in Spaces \cup {Unfiled}
           /\ req[t].op = "stack" => req[t].to \in Cards \cup {NoCard}
  <1>1. req[t] \in CardRequests
    BY AskedKinds DEF TypesInv
  <1> QED BY <1>1, Marks DEF TypesInv, GoesToPlace, CardRequests, is_sealed_collection

\* The commits of one card write a row.
LEMMA CommitsRemain ==
    ASSUME TypesInv, NEW t \in Tabs, create_capture(t) \/ get_item_by_id(t) \/ update_item(t)
    PROVE  RowsRemain
  <1>1. OnCard(t)
    BY DEF create_capture, get_item_by_id, update_item, OnCard, CardOps
  <1>2. PICK c \in Cards, row \in Rows :
           /\ c = req[t].card /\ row = req[t].row
           /\ is_sealed_collection(row.space) => row.space \in Spaces
    BY <1>1, AskedTypes
  <1>3. CASE card' = card
    BY <1>3, SameRowsRemain DEF TypesInv
  <1>4. CASE create_capture(t) /\ card' # card
    <2>1. /\ is_sealed_collection(row.space) /\ c \in Existing
          /\ card' = [card EXCEPT ![c] = FlushSealed(card[c], row, seal_item(row, row.space))]
      BY <1>2, <1>4 DEF create_capture
    <2>2. card[c] \in Rows /\ seal_item(row, row.space) \in Rows
      BY <1>2, <2>1, SealedRow, ExistingHasRow DEF TypesInv
    <2>3. FlushSealed(card[c], row, seal_item(row, row.space)) \in Rows
      BY <2>2, FlushedSealedRow
    <2> QED BY <2>1, <2>3, OneRowRemains DEF TypesInv
  <1>5. CASE get_item_by_id(t) /\ card' # card
    <2>1. c \in Existing /\ card' = [card EXCEPT ![c] = Flush(card[c], row, open_item(row))]
      BY <1>2, <1>5 DEF get_item_by_id
    <2>2. card[c] \in Rows /\ open_item(row) \in Rows
      BY <2>1, OpenedRow, ExistingHasRow DEF TypesInv
    <2>3. Flush(card[c], row, open_item(row)) \in Rows
      BY <2>2, FlushedRow
    <2> QED BY <2>1, <2>3, OneRowRemains DEF TypesInv
  <1>6. CASE update_item(t) /\ card' # card
    <2> DEFINE edited == [open_item(row) EXCEPT !.clear = TRUE]
               mine == seal_item(edited, row.space)
    <2>1. c \in Existing /\ card[c] \in Rows
      BY <1>2, <1>6, ExistingHasRow DEF update_item, TypesInv
    <2>2. CASE is_sealed_collection(row.space)
      <3>1. card' = [card EXCEPT ![c] = FlushSealed(card[c], row, mine)]
        BY <1>2, <1>6, <2>1, <2>2 DEF update_item
      <3>2. edited \in Rows
        <4>1. open_item(row) \in Rows
          BY OpenedRow
        <4> QED BY <4>1 DEF Rows
      <3> HIDE DEF edited
      <3>3. mine \in Rows
        BY <1>2, <2>2, <3>2, SealedRow
      <3> HIDE DEF mine
      <3>4. FlushSealed(card[c], row, mine) \in Rows
        BY <2>1, <3>3, FlushedSealedRow
      <3> QED BY <3>1, <3>4, OneRowRemains DEF TypesInv
    <2>3. CASE ~is_sealed_collection(row.space)
      <3>1. card' = [card EXCEPT ![c] = [card[c] EXCEPT !.clear = TRUE]]
        BY <1>2, <1>6, <2>1, <2>3 DEF update_item
      <3>2. [card[c] EXCEPT !.clear = TRUE] \in Rows
        BY <2>1 DEF Rows
      <3> QED BY <3>1, <3>2, OneRowRemains DEF TypesInv
    <2> QED BY <2>2, <2>3
  <1> QED BY <1>3, <1>4, <1>5, <1>6

\* A filing writes rows.
LEMMA FilingsRemain ==
    ASSUME TypesInv, NEW t \in Tabs, move_sealed_item(t) \/ update_vault_item(t)
    PROVE  RowsRemain
  <1>1. OnCard(t) /\ Files(t)
    BY DEF move_sealed_item, update_vault_item, OnCard, Files, CardOps
  <1>2. PICK c \in Cards, row \in Rows, to \in Spaces \cup {Unfiled} :
           c = req[t].card /\ row = req[t].row /\ to = req[t].to
    BY <1>1, AskedTypes DEF Files
  <1>3. CardsHaveTypes /\ Existing \subseteq Cards /\ Kids(c) \subseteq Existing
    BY ExistingHasRow DEF TypesInv, Kids
  <1>4. \A r \in Rows : open_item(r) \in Rows /\ Refile(r, to) \in Rows
    BY OpenedRow, Refiled
  <1>5. \A r, m \in Rows : Flush(r, row, m) \in Rows /\ FlushSealed(r, row, m) \in Rows
    BY FlushedRow, FlushedSealedRow
  <1>6. \A x \in Existing : card[x] \in Rows
    BY <1>3, ExistingHasRow
  <1>7. CASE card' = card
    BY <1>3, <1>7, SameRowsRemain
  <1>8. CASE move_sealed_item(t) /\ card' # card
    <2>1. /\ is_sealed_collection(to) /\ c \in Existing
          /\ card' = [x \in Cards |->
                       IF x = c THEN FlushSealed(card[x], row, seal_item(open_item(row), to))
                       ELSE IF x \in Kids(c) THEN seal_item(open_item(card[x]), to)
                       ELSE card[x]]
      BY <1>2, <1>8 DEF move_sealed_item
    <2>2. \A r \in Rows : seal_item(open_item(r), to) \in Rows
      <3>1. \A r \in Rows : seal_item(open_item(r), to) = Refile(open_item(r), to)
        BY <2>1 DEF Refile
      <3> QED BY <1>4, <3>1
    <2>3. ASSUME NEW x \in Existing PROVE card'[x] \in Rows
      <3>1. CASE x = c
        BY <1>3, <1>5, <1>6, <2>1, <2>2, <3>1
      <3>2. CASE x # c
        BY <1>3, <1>6, <2>1, <2>2, <3>2
      <3> QED BY <3>1, <3>2
    <2>4. \A x \in Cards \ Existing : card'[x] = card[x]
      BY <1>3, <2>1
    <2>5. card' = [x \in Cards |-> card'[x]]
      BY <2>1
    <2> QED BY <1>3, <2>3, <2>4, <2>5 DEF RowsRemain, CardsHaveTypes
  <1>9. CASE update_vault_item(t) /\ card' # card
    <2> DEFINE into == is_sealed_collection(to) /\ to # row.space
               plain(r) == [r EXCEPT !.space = to]
               kid(r) == IF into THEN seal_item(r, to) ELSE plain(r)
    <2>1. /\ c \in Existing /\ ~is_sealed_collection(row.space)
          /\ card' = [x \in Cards |->
                       IF x = c /\ into THEN FlushSealed(card[x], row, seal_item(row, to))
                       ELSE IF x = c THEN Flush(card[x], row, plain(row))
                       ELSE IF x \in Kids(c) THEN kid(card[x]) ELSE card[x]]
      BY <1>2, <1>9 DEF update_vault_item
    <2>2. into <=> is_sealed_collection(to)
      BY <2>1
    <2>3. \A r \in Rows : /\ is_sealed_collection(to) => seal_item(r, to) \in Rows
                          /\ plain(r) \in Rows
      <3>1. \A r \in Rows : is_sealed_collection(to) => seal_item(r, to) = Refile(r, to)
        BY DEF Refile
      <3>2. \A r \in Rows : plain(r) \in Rows
        BY DEF Rows
      <3> QED BY <1>4, <3>1, <3>2
    <2>4. \A r \in Rows : kid(r) \in Rows
      BY <2>2, <2>3
    <2> HIDE DEF plain, into, kid
    <2>5. ASSUME NEW x \in Existing PROVE card'[x] \in Rows
      <3>1. CASE x = c /\ into
        BY <1>3, <1>5, <1>6, <2>1, <2>2, <2>3, <3>1
      <3>2. CASE x = c /\ ~into
        BY <1>3, <1>5, <1>6, <2>1, <2>3, <3>2
      <3>3. CASE x # c
        BY <1>3, <1>6, <2>1, <2>4, <3>3
      <3> QED BY <3>1, <3>2, <3>3
    <2>6. \A x \in Cards \ Existing : card'[x] = card[x]
      BY <1>3, <2>1
    <2>7. card' = [x \in Cards |-> card'[x]]
      BY <2>1
    <2> QED BY <1>3, <2>5, <2>6, <2>7 DEF RowsRemain, CardsHaveTypes
  <1> QED BY <1>7, <1>8, <1>9

\* A stacking writes a row.
LEMMA StackingRemains ==
    ASSUME TypesInv, NEW t \in Tabs, stack_card(t)
    PROVE  RowsRemain
  <1>1. OnCard(t) /\ req[t].op = "stack"
    BY DEF stack_card, OnCard, CardOps
  <1>2. PICK c \in Cards, row \in Rows, v \in Cards \cup {NoCard} :
           c = req[t].card /\ row = req[t].row /\ v = req[t].to
    BY <1>1, AskedTypes
  <1>3. CASE card' = card
    BY <1>3, SameRowsRemain DEF TypesInv
  <1>4. CASE card' # card
    <2> DEFINE mine == Restack(row, v)
    <2>1. /\ c \in Existing
          /\ \/ card' = [card EXCEPT ![c] = FlushSealed(card[c], row, mine)]
             \/ card' = [card EXCEPT ![c] = Flush(card[c], row, mine)]
      BY <1>2, <1>4 DEF stack_card
    <2>2. card[c] \in Rows /\ mine \in Rows
      BY <1>2, <2>1, Restacked, ExistingHasRow DEF TypesInv
    <2> HIDE DEF mine
    <2>3. FlushSealed(card[c], row, mine) \in Rows /\ Flush(card[c], row, mine) \in Rows
      BY <2>2, FlushedRow, FlushedSealedRow
    <2> QED BY <2>1, <2>3, OneRowRemains DEF TypesInv
  <1> QED BY <1>3, <1>4

\* Cards that go, and those that stay without a space or a cover.
LEMMA WithoutRemains ==
    ASSUME CardsHaveTypes, NEW gone \in SUBSET Existing, NEW late \in SUBSET (Existing \ gone),
           card' = [c \in Cards |-> IF c \in late THEN [Without(gone)[c] EXCEPT !.space = Unfiled]
                                    ELSE Without(gone)[c]]
    PROVE  RowsRemain
  <1>1. Existing \subseteq Cards /\ \A c \in Existing : card[c] \in Rows
    BY ExistingHasRow
  <1>2. ASSUME NEW c \in Existing \ gone PROVE Without(gone)[c] \in Rows
    <2>1. \/ Without(gone)[c] = [card[c] EXCEPT !.cover = NoCard]
          \/ Without(gone)[c] = card[c]
      BY <1>1 DEF Without
    <2>2. [card[c] EXCEPT !.cover = NoCard] \in Rows
      BY <1>1 DEF Rows
    <2> QED BY <1>1, <2>1, <2>2
  <1>3. \A r \in Rows : [r EXCEPT !.space = Unfiled] \in Rows
    BY DEF Rows
  <1>4. \A c \in Cards : Without(gone)[c] \in Rows \cup {NoCard, Gone}
    <2>1. \A c \in gone : Without(gone)[c] = Gone
      BY <1>1 DEF Without
    <2>2. \A c \in Cards \ Existing : Without(gone)[c] = card[c]
      BY DEF Without
    <2> QED BY <1>2, <2>1, <2>2 DEF CardsHaveTypes
  <1> HIDE DEF Without
  <1>5. \A c \in Cards : card'[c] \in Rows \cup {NoCard, Gone}
    BY <1>2, <1>3, <1>4
  <1>6. card' = [c \in Cards |-> card'[c]]
    OBVIOUS
  <1> QED BY <1>5, <1>6 DEF RowsRemain

\* The cards of a space come to another.
LEMMA EmptiedRemains ==
    ASSUME CardsHaveTypes, NEW s, NEW into \in Spaces \cup {Unfiled},
           card' = [c \in Cards |-> IF c \in Existing /\ card[c].space = s
                                    THEN [card[c] EXCEPT !.space = into] ELSE card[c]]
    PROVE  RowsRemain
  <1>1. \A c \in Existing : card[c] \in Rows /\ [card[c] EXCEPT !.space = into] \in Rows
    BY ExistingHasRow DEF Rows
  <1>2. \A c \in Cards : card'[c] \in Rows \cup {NoCard, Gone}
    BY <1>1 DEF CardsHaveTypes
  <1>3. card' = [c \in Cards |-> card'[c]]
    OBVIOUS
  <1> QED BY <1>2, <1>3 DEF RowsRemain

\* Requests that end, or one that starts or goes on, keep their types.
LEMMA TypesStay ==
    ASSUME TypesInv, RowsRemain, spaces' \subseteq Spaces,
           parent' \in [Spaces -> Spaces \cup {Root}], unlocked' \subseteq Sealed,
           \/ req' = req
           \/ \E t \in Tabs : Done(t)
           \/ \E t \in Tabs, q \in CardRequests \cup OtherRequests :
                req' = [req EXCEPT ![t] = q] /\ GoesToPlace(q)
    PROVE  TypesInv'
  <1>1. CASE req' = req \/ \E t \in Tabs : Done(t)
    <2>1. /\ req' \in [Tabs -> Requests]
          /\ \A u \in Tabs : req'[u] = req[u] \/ req'[u] = Idle
      BY <1>1 DEF TypesInv, CardsHaveTypes, Done, Requests
    <2>2. CardsHaveTypes'
      BY <2>1 DEF CardsHaveTypes, RowsRemain
    <2> QED BY <2>1, <2>2 DEF TypesInv, GoesToPlace, OnCard
  <1>2. ASSUME NEW t \in Tabs, NEW q \in CardRequests \cup OtherRequests,
               req' = [req EXCEPT ![t] = q], GoesToPlace(q)
        PROVE  TypesInv'
    <2>1. /\ req' \in [Tabs -> Requests]
          /\ req'[t] = q /\ \A u \in Tabs \ {t} : req'[u] = req[u]
      BY <1>2 DEF TypesInv, CardsHaveTypes, Requests
    <2>2. CardsHaveTypes'
      BY <2>1 DEF CardsHaveTypes, RowsRemain
    <2> QED BY <1>2, <2>1, <2>2 DEF TypesInv, GoesToPlace, OnCard
  <1> QED BY <1>1, <1>2

\* A request that loads no card starts, or goes on.
LEMMA OtherTypes ==
    ASSUME TypesInv, NEW t \in Tabs, NEW q \in OtherRequests,
           req' = [req EXCEPT ![t] = q], UNCHANGED <<card, spaces, parent, unlocked>>
    PROVE  TypesInv'
  <1>1. GoesToPlace(q)
    BY OtherKinds DEF GoesToPlace
  <1>2. RowsRemain
    BY SameRowsRemain DEF TypesInv
  <1> QED BY <1>1, <1>2, TypesStay DEF TypesInv, CardsHaveTypes

\* A commit of a card keeps the types.
LEMMA CommitTypes ==
    ASSUME TypesInv, NEW t \in Tabs,
           \/ create_capture(t) \/ get_item_by_id(t) \/ update_item(t) \/ stack_card(t)
           \/ move_sealed_item(t) \/ update_vault_item(t) \/ Abandon(t)
    PROVE  TypesInv'
  <1>1. Done(t) /\ UNCHANGED <<spaces, parent, unlocked>>
    BY DEF create_capture, get_item_by_id, update_item, stack_card, move_sealed_item,
       update_vault_item, Abandon
  <1>2. RowsRemain
    BY CommitsRemain, FilingsRemain, StackingRemains, SameRowsRemain DEF Abandon, TypesInv
  <1> QED BY <1>1, <1>2, TypesStay DEF TypesInv, CardsHaveTypes

\* The deletion of a card or of a space keeps them.
LEMMA DeleteTypes ==
    ASSUME TypesInv, NEW t \in Tabs, delete_item(t) \/ delete_collection(t)
    PROVE  TypesInv'
  <1>1. CASE delete_item(t)
    <2>0. PICK gone \in SUBSET Existing : gone = {req[t].card} \cap Existing
      OBVIOUS
    <2>1. PICK late \in SUBSET (Existing \ gone) : late = {}
      OBVIOUS
    <2>2. /\ card' = [c \in Cards |-> IF c \in late
                                      THEN [Without(gone)[c] EXCEPT !.space = Unfiled]
                                      ELSE Without(gone)[c]]
          /\ Done(t) /\ UNCHANGED <<spaces, parent, unlocked>>
      BY <1>1, <2>0, <2>1 DEF delete_item, Without
    <2>3. RowsRemain
      BY <2>2, WithoutRemains DEF TypesInv
    <2> QED BY <2>2, <2>3, TypesStay DEF TypesInv, CardsHaveTypes
  <1>2. CASE delete_collection(t)
    <2> DEFINE s == Head(req[t].calls).space
               calls == req[t].calls
               q == Deletion(Tail(calls))
    <2>0. PICK gone \in SUBSET Existing : gone = req[t].cards \cap Existing
      OBVIOUS
    <2>1. PICK late \in SUBSET (Existing \ gone) :
             late = {c \in Existing \ gone : card[c].space = s}
      OBVIOUS
    <2>2. /\ card' = [c \in Cards |-> IF c \in late
                                      THEN [Without(gone)[c] EXCEPT !.space = Unfiled]
                                      ELSE Without(gone)[c]]
          /\ spaces' = spaces \ {s} /\ unlocked' = unlocked \ {s}
          /\ parent' = [x \in Spaces |-> IF x = s \/ parent[x] = s THEN Root ELSE parent[x]]
          /\ DeletesSpaces(t) /\ req' = [req EXCEPT ![t] = IF Len(calls) = 1 THEN Idle ELSE q]
      BY <1>2, <2>0, <2>1 DEF delete_collection
    <2>3. RowsRemain
      BY <2>2, WithoutRemains DEF TypesInv
    <2>4. calls \in Seq(Calls) /\ calls # <<>>
      BY <2>2, SpaceRequest DEF TypesInv
    <2>6. Len(calls) # 1 => q \in SpaceDeletions
      BY <2>4, CallsLeft, DeletionIsOne
    <2> HIDE DEF q
    <2>7. /\ spaces' \subseteq Spaces /\ parent' \in [Spaces -> Spaces \cup {Root}]
          /\ unlocked' \subseteq Sealed
      BY <2>2 DEF TypesInv, CardsHaveTypes
    <2>8. CASE Len(calls) = 1
      BY <2>2, <2>3, <2>7, <2>8, TypesStay DEF Done
    <2>9. CASE Len(calls) # 1
      <3>1. q \in OtherRequests /\ GoesToPlace(q) /\ req' = [req EXCEPT ![t] = q]
        BY <2>2, <2>6, <2>9, OtherKinds DEF OtherRequests, GoesToPlace
      <3> QED BY <2>3, <2>7, <3>1, TypesStay
    <2> QED BY <2>8, <2>9
  <1> QED BY <1>1, <1>2

\* A card is created, or loaded.
LEMMA StartTypes ==
    ASSUME TypesInv, NEW c \in Cards,
           \/ \E s \in Spaces \cup {Unfiled}, v \in Cards \cup {NoCard} :
                \/ create_item(c, s, v)
                \/ \E t \in Tabs : create_video_capture_item(t, c, s, v)
           \/ \E t \in Tabs : \/ LoadRead(t, c) \/ LoadEdit(t, c)
                              \/ \E s \in Spaces \cup {Unfiled} : LoadFile(t, c, s)
                              \/ \E v \in Cards \cup {NoCard} : LoadStack(t, c, v)
    PROVE  TypesInv'
  <1>1. CardsHaveTypes
    BY DEF TypesInv
  <1>2. ASSUME NEW s \in Spaces \cup {Unfiled}, NEW v \in Cards \cup {NoCard}
        PROVE  /\ NewRow(s, v) \in Rows
               /\ is_sealed_collection(s) => seal_item(NewRow(s, v), s) \in Rows
    <2>1. NewRow(s, v) \in Rows
      BY DEF NewRow, Rows
    <2> QED BY <2>1, SealedRow, Marks DEF is_sealed_collection
  <1>3. ASSUME NEW s \in Spaces \cup {Unfiled}, NEW v \in Cards \cup {NoCard},
               create_item(c, s, v)
        PROVE  TypesInv'
    <2>1. PICK row \in Rows : card' = [card EXCEPT ![c] = row]
      BY <1>2, <1>3 DEF create_item
    <2>2. UNCHANGED <<spaces, parent, unlocked, req>>
      BY <1>3 DEF create_item
    <2>3. RowsRemain
      BY <1>1, <2>1, OneRowRemains
    <2> QED BY <1>1, <2>2, <2>3, TypesStay DEF CardsHaveTypes
  <1>4. ASSUME NEW t \in Tabs, NEW s \in Spaces \cup {Unfiled}, NEW v \in Cards \cup {NoCard},
               create_video_capture_item(t, c, s, v)
        PROVE  TypesInv'
    <2> DEFINE q == [op |-> "video", card |-> c, row |-> NewRow(s, v), to |-> s]
    <2>1. /\ card' = [card EXCEPT ![c] = NewRow(s, v)] /\ req' = [req EXCEPT ![t] = q]
          /\ UNCHANGED <<spaces, parent, unlocked>>
      BY <1>4 DEF create_video_capture_item
    <2>2. q \in CardRequests /\ GoesToPlace(q)
      BY <1>2 DEF CardRequests, CardOps, GoesToPlace
    <2>3. RowsRemain
      BY <1>1, <1>2, <2>1, OneRowRemains
    <2> HIDE DEF q
    <2> QED BY <1>1, <2>1, <2>2, <2>3, TypesStay DEF CardsHaveTypes
  <1>5. ASSUME NEW t \in Tabs, NEW op \in {"read", "edit", "stack", "file"},
               NEW to \in Spaces \cup {Unfiled, Root, NoCard} \cup Cards, Load(t, c, op, to),
               op = "file" => to \in Spaces \cup {Unfiled},
               op = "stack" => to \in Cards \cup {NoCard}
        PROVE  TypesInv'
    <2> DEFINE q == [op |-> op, card |-> c, row |-> card[c], to |-> to]
    <2>1. /\ req' = [req EXCEPT ![t] = q] /\ UNCHANGED <<card, spaces, parent, unlocked>>
          /\ c \in Existing
      BY <1>5 DEF Load
    <2>2. card[c] \in Rows
      BY <1>1, <2>1, ExistingHasRow
    <2>3. q \in CardRequests /\ GoesToPlace(q)
      BY <1>5, <2>2 DEF CardRequests, CardOps, GoesToPlace
    <2>4. RowsRemain
      BY <1>1, <2>1, SameRowsRemain
    <2> HIDE DEF q
    <2> QED BY <1>1, <2>1, <2>3, <2>4, TypesStay DEF CardsHaveTypes
  <1>6. ASSUME NEW t \in Tabs, LoadRead(t, c) \/ LoadEdit(t, c) PROVE TypesInv'
    BY <1>5, <1>6 DEF LoadRead, LoadEdit
  <1>7. ASSUME NEW t \in Tabs, NEW s \in Spaces \cup {Unfiled}, LoadFile(t, c, s)
        PROVE  TypesInv'
    BY <1>5, <1>7 DEF LoadFile
  <1>8. ASSUME NEW t \in Tabs, NEW v \in Cards \cup {NoCard}, LoadStack(t, c, v)
        PROVE  TypesInv'
    BY <1>5, <1>8 DEF LoadStack
  <1> QED BY <1>3, <1>4, <1>6, <1>7, <1>8

\* A request that loads no card starts, or a space is nested.
LEMMA OtherStartTypes ==
    ASSUME TypesInv, NEW t \in Tabs,
           \/ \E c \in Cards : LoadDelete(t, c)
           \/ \E s \in Spaces : delete_coll(t, s) \/ DeletesNested(t, s)
           \/ \E s \in Spaces, to \in Spaces \cup {Root} : _assert_can_nest(t, s, to)
           \/ ListsCards(t) \/ reorder_space(t)
    PROVE  TypesInv'
  <1>1. ASSUME NEW c \in Cards, LoadDelete(t, c) PROVE TypesInv'
    <2> DEFINE q == [op |-> "delete", card |-> c]
    <2>1. q \in OtherRequests
      BY DEF DeleteRequests, OtherRequests
    <2>2. req' = [req EXCEPT ![t] = q] /\ UNCHANGED <<card, spaces, parent, unlocked>>
      BY <1>1 DEF LoadDelete
    <2> HIDE DEF q
    <2> QED BY <2>1, <2>2, OtherTypes
  <1>2. CASE (\E s \in Spaces : delete_coll(t, s) \/ DeletesNested(t, s)) \/ ListsCards(t)
    <2>1. PICK q \in SpaceDeletions : /\ req' = [req EXCEPT ![t] = q]
                                      /\ UNCHANGED <<card, spaces, parent, unlocked>>
      BY <1>2, SpaceCalls DEF TypesInv
    <2> QED BY <2>1, OtherTypes DEF OtherRequests
  <1>3. ASSUME NEW s \in Spaces, NEW to \in Spaces \cup {Root}, _assert_can_nest(t, s, to)
        PROVE  TypesInv'
    <2> DEFINE q == [op |-> "nest", space |-> s, to |-> to]
    <2>1. q \in OtherRequests
      BY DEF NestRequests, OtherRequests
    <2>2. req' = [req EXCEPT ![t] = q] /\ UNCHANGED <<card, spaces, parent, unlocked>>
      BY <1>3 DEF _assert_can_nest
    <2> HIDE DEF q
    <2> QED BY <2>1, <2>2, OtherTypes
  <1>4. CASE reorder_space(t)
    <2>1. card' = card /\ UNCHANGED <<spaces, unlocked>> /\ Done(t)
      BY <1>4 DEF reorder_space
    <2>2. parent' \in [Spaces -> Spaces \cup {Root}]
      BY <1>4 DEF reorder_space, TypesInv, CardsHaveTypes
    <2>3. RowsRemain
      BY <2>1, SameRowsRemain DEF TypesInv
    <2> QED BY <2>1, <2>2, <2>3, TypesStay DEF TypesInv, CardsHaveTypes
  <1> QED BY <1>1, <1>2, <1>3, <1>4

\* The lock and the spaces.
LEMMA SpaceTypes ==
    ASSUME TypesInv, NEW s \in Spaces,
           \/ Unlock(s) \/ Lock(s) \/ dissolve_space(s)
           \/ \E into \in Spaces \cup {Unfiled} : merge_collections(s, into)
    PROVE  TypesInv'
  <1>1. /\ CardsHaveTypes /\ spaces \subseteq Spaces /\ unlocked \subseteq Sealed
        /\ parent \in [Spaces -> Spaces \cup {Root}]
    BY DEF TypesInv, CardsHaveTypes
  <1>2. CASE Unlock(s) \/ Lock(s)
    <2>1. /\ card' = card /\ req' = req /\ spaces' = spaces /\ parent' = parent
          /\ unlocked' \subseteq Sealed
      BY <1>1, <1>2 DEF Unlock, Lock
    <2>2. RowsRemain
      BY <1>1, <2>1, SameRowsRemain
    <2> QED BY <1>1, <2>1, <2>2, TypesStay
  <1>3. CASE dissolve_space(s)
    <2>1. parent[s] \in Spaces
      BY <1>1, <1>3 DEF dissolve_space
    <2>2. /\ card' = [c \in Cards |-> IF c \in Existing /\ card[c].space = s
                                      THEN [card[c] EXCEPT !.space = parent[s]] ELSE card[c]]
          /\ spaces' \subseteq spaces /\ unlocked' \subseteq unlocked /\ req' = req
          /\ parent' \in [Spaces -> Spaces \cup {Root}]
      BY <1>1, <1>3, <2>1 DEF dissolve_space
    <2>3. RowsRemain
      BY <1>1, <2>1, <2>2, EmptiedRemains
    <2> QED BY <1>1, <2>2, <2>3, TypesStay
  <1>4. ASSUME NEW into \in Spaces \cup {Unfiled}, merge_collections(s, into) PROVE TypesInv'
    <2>1. /\ card' = [c \in Cards |-> IF c \in Existing /\ card[c].space = s
                                      THEN [card[c] EXCEPT !.space = into] ELSE card[c]]
          /\ spaces' \subseteq spaces /\ unlocked' = unlocked /\ req' = req
          /\ parent' \in [Spaces -> Spaces \cup {Root}]
      BY <1>1, <1>4 DEF merge_collections
    <2>2. RowsRemain
      BY <1>1, <2>1, EmptiedRemains
    <2> QED BY <1>1, <2>1, <2>2, TypesStay
  <1> QED BY <1>2, <1>3, <1>4

\* At first nothing is there.
LEMMA StartIsTyped ==
    ASSUME Init
    PROVE  TypesInv
  BY DEF Init, TypesInv, CardsHaveTypes, OnCard, Requests

\* Every step keeps the types.
LEMMA StepKeepsTypes ==
    ASSUME TypesInv, [Next]_vars
    PROVE  TypesInv'
  <1>1. ASSUME NEW s \in Spaces, Unlock(s) \/ Lock(s) \/ dissolve_space(s)
        PROVE  TypesInv'
    BY <1>1, SpaceTypes
  <1>2. ASSUME NEW c \in Cards, NEW s \in Spaces \cup {Unfiled}, NEW v \in Cards \cup {NoCard},
               \/ create_item(c, s, v)
               \/ \E t \in Tabs : create_video_capture_item(t, c, s, v)
        PROVE  TypesInv'
    BY <1>2, StartTypes
  <1>3. ASSUME NEW t \in Tabs, NEW c \in Existing,
               \/ LoadRead(t, c) \/ LoadEdit(t, c) \/ LoadDelete(t, c)
               \/ \E s \in Spaces \cup {Unfiled} : LoadFile(t, c, s)
               \/ \E v \in Cards \cup {NoCard} : LoadStack(t, c, v)
        PROVE  TypesInv'
    BY <1>3, StartTypes, OtherStartTypes DEF Existing
  <1>4. ASSUME NEW t \in Tabs, NEW s \in Spaces, delete_coll(t, s) \/ DeletesNested(t, s)
        PROVE  TypesInv'
    BY <1>4, OtherStartTypes
  <1>5. ASSUME NEW t \in Tabs,
               \/ create_capture(t) \/ get_item_by_id(t) \/ update_item(t)
               \/ stack_card(t) \/ move_sealed_item(t) \/ update_vault_item(t)
        PROVE  TypesInv'
    BY <1>5, CommitTypes
  <1>6. ASSUME NEW t \in Tabs,
               \/ delete_item(t) \/ ListsCards(t) \/ delete_collection(t)
               \/ reorder_space(t) \/ Abandon(t)
        PROVE  TypesInv'
    BY <1>6, DeleteTypes, OtherStartTypes, CommitTypes
  <1>7. ASSUME NEW s \in Spaces, NEW to \in Spaces \cup {Unfiled}, merge_collections(s, to)
        PROVE  TypesInv'
    BY <1>7, SpaceTypes
  <1>8. ASSUME NEW t \in Tabs, NEW s \in Spaces, NEW to \in Spaces \cup {Root},
               _assert_can_nest(t, s, to)
        PROVE  TypesInv'
    BY <1>8, OtherStartTypes
  <1>9. CASE UNCHANGED vars
    <2>1. card' = card /\ UNCHANGED <<spaces, parent, unlocked, req>>
      BY <1>9 DEF vars
    <2>2. RowsRemain
      BY <2>1, SameRowsRemain DEF TypesInv
    <2> QED BY <2>1, <2>2, TypesStay DEF TypesInv, CardsHaveTypes
  <1> QED BY <1>1, <1>2, <1>3, <1>4, <1>5, <1>6, <1>7, <1>8, <1>9 DEF Next

\* Cards, spaces and requests keep their types, whatever runs at once.
THEOREM CardsAreTyped == Spec => []TypeOK
  <1>1. Init => TypesInv
    BY StartIsTyped
  <1>2. TypesInv /\ [Next]_vars => TypesInv'
    BY StepKeepsTypes
  <1>3. TypesInv => TypeOK
    <2>1. ASSUME CardsHaveTypes, NEW t \in Tabs, req[t] # Idle
          PROVE  \/ /\ req[t].op = "nest" /\ req[t].space \in Spaces
                    /\ req[t].to \in Spaces \cup {Root}
                 \/ /\ req[t].op \in {"video", "read", "edit", "stack", "file"}
                    /\ req[t].card \in Cards /\ req[t].row \in Rows
                 \/ req[t].op = "delete" /\ req[t].card \in Cards
                 \/ DeletesSpaces(t) /\ req[t].cards \subseteq Cards /\ req[t].calls # <<>>
      <3>1. req[t] \in Requests
        BY <2>1, AskedKinds
      <3>2. CASE req[t] \in CardRequests
        BY <3>2 DEF CardRequests, CardOps
      <3>3. CASE req[t] \in NestRequests
        BY <3>3 DEF NestRequests
      <3>4. CASE req[t] \in DeleteRequests
        BY <3>4 DEF DeleteRequests
      <3>5. CASE req[t] \in SpaceDeletions
        BY <2>1, <3>5 DEF SpaceDeletions, DeletesSpaces
      <3> QED BY <2>1, <3>1, <3>2, <3>3, <3>4, <3>5 DEF Requests, OtherRequests
    <2> QED BY <2>1 DEF TypesInv, CardsHaveTypes, TypeOK
  <1> QED BY <1>1, <1>2, <1>3, PTL DEF Spec

(***************************************************************************)
(* The tree of the spaces.  The walk up is a recursive function, so its    *)
(* facts rest on an induction: a set of numbers with 0 and the successor   *)
(* of each of its members is Nat.  (The library states induction for an    *)
(* operator; the finite subsets of a set are well founded without one.)    *)
(***************************************************************************)
\* Every set of numbers that is not empty has a least one.
LEMMA LeastNumber ==
    ASSUME NEW T \in SUBSET Nat, T # {}
    PROVE  \E n \in T : \A m \in T : n <= m
  <1> DEFINE S == FiniteSubsetsOf(Nat)
             R == StrictSubsetOrdering(Nat)
             I == {0..n : n \in T}
  <1>1. IsWellFoundedOn(R, S)
    BY FS_StrictSubsetOrderingWellFounded
  <1>2. I \subseteq S /\ I # {}
    <2>1. ASSUME NEW n \in T PROVE 0..n \in S
      <3>1. IsFiniteSet(0..n)
        BY FS_Interval
      <3> QED BY <3>1 DEF FiniteSubsetsOf
    <2> QED BY <2>1
  <1>3. \A m, n \in T : m < n => <<0..m, 0..n>> \in R
    <2>1. ASSUME NEW m \in T, NEW n \in T, m < n
          PROVE  /\ 0..m \in SUBSET Nat /\ 0..n \in SUBSET Nat /\ 0..m \subseteq 0..n
                 /\ n \in 0..n /\ n \notin 0..m
      BY <2>1
    <2>2. ASSUME NEW m \in T, NEW n \in T, m < n
          PROVE  <<0..m, 0..n>> \in R
      <3> DEFINE A == 0..m
                 B == 0..n
      <3>1. A \in SUBSET Nat /\ B \in SUBSET Nat /\ A \subseteq B /\ A # B
        BY <2>1, <2>2
      <3> HIDE DEF A, B
      <3>2. <<A, B>> \in R
        BY <3>1 DEF StrictSubsetOrdering
      <3> QED BY <3>2 DEF A, B
    <2> QED BY <2>2
  <1> HIDE DEF R, S
  <1>4. \E x \in I : \A y \in I : ~ (<<y, x>> \in R)
    <2> HIDE DEF I
    <2> QED BY <1>1, <1>2, WFMin
  <1>5. PICK n \in T : \A m \in T : ~ (<<0..m, 0..n>> \in R)
    BY <1>4
  <1>6. \A m \in T : ~ (m < n)
    BY <1>3, <1>5, Zenon
  <1> HIDE DEF I
  <1> QED BY <1>6

\* Induction over the numbers, for a set.
LEMMA Induction ==
    ASSUME NEW T \in SUBSET Nat, 0 \in T, \A n \in T : n + 1 \in T
    PROVE  T = Nat
  <1> SUFFICES ASSUME T # Nat PROVE FALSE
    OBVIOUS
  <1>1. PICK n \in Nat \ T : \A m \in Nat \ T : n <= m
    <2>1. Nat \ T \in SUBSET Nat /\ Nat \ T # {}
      OBVIOUS
    <2> QED BY <2>1, LeastNumber
  <1>2. n # 0 /\ n - 1 \in Nat /\ n - 1 \in T
    BY <1>1
  <1> QED BY <1>1, <1>2

\* f is the walk of Above, m spaces far.
StepUp(tree, A) == A \cup ({tree[a] : a \in A} \ {Root})
WalksUp(tree, s, m, f) ==
    f = [n \in 0..m |-> IF n = 0 THEN {tree[s]} \ {Root}
                        ELSE f[n - 1] \cup ({tree[a] : a \in f[n - 1]} \ {Root})]

\* Walks of any length exist.
LEMMA WalkExists ==
    ASSUME NEW tree, NEW s
    PROVE  \A m \in Nat : \E f : WalksUp(tree, s, m, f)
  <1> DEFINE T == {m \in Nat : \E f : WalksUp(tree, s, m, f)}
  <1>1. 0 \in T
    <2> DEFINE f == [n \in 0..0 |-> {tree[s]} \ {Root}]
    <2>1. WalksUp(tree, s, 0, f)
      BY DEF WalksUp
    <2> QED BY <2>1
  <1>2. ASSUME NEW m \in T PROVE m + 1 \in T
    <2>1. PICK f : WalksUp(tree, s, m, f)
      OBVIOUS
    <2> DEFINE g == [n \in 0..(m + 1) |->
                      IF n = m + 1 THEN f[m] \cup ({tree[a] : a \in f[m]} \ {Root}) ELSE f[n]]
    <2>2. \A n \in 0..m : f[n] = IF n = 0 THEN {tree[s]} \ {Root}
                                 ELSE f[n - 1] \cup ({tree[a] : a \in f[n - 1]} \ {Root})
      BY <2>1 DEF WalksUp
    <2>3. ASSUME NEW n \in 0..(m + 1)
          PROVE  g[n] = IF n = 0 THEN {tree[s]} \ {Root}
                        ELSE g[n - 1] \cup ({tree[a] : a \in g[n - 1]} \ {Root})
      <3>1. CASE n = 0
        <4>1. 0 \in 0..m /\ n # m + 1
          BY <3>1
        <4>2. g[n] = f[n]
          BY <4>1
        <4> HIDE DEF g
        <4> QED BY <2>2, <3>1, <4>1, <4>2
      <3>2. CASE n # 0
        <4>1. n - 1 \in 0..m /\ g[n - 1] = f[n - 1]
          BY <3>2
        <4> HIDE DEF g
        <4>2. CASE n = m + 1
          <5>1. n - 1 = m
            BY <4>2
          <5>2. g[n] = f[m] \cup ({tree[a] : a \in f[m]} \ {Root})
            BY <4>2 DEF g
          <5> QED BY <3>2, <4>1, <5>1, <5>2
        <4>3. CASE n # m + 1
          <5>1. n \in 0..m /\ g[n] = f[n]
            BY <4>3 DEF g
          <5> QED BY <2>2, <3>2, <4>1, <5>1
        <4> QED BY <4>2, <4>3
      <3> QED BY <3>1, <3>2
    <2> HIDE DEF g
    <2>4. g = [n \in 0..(m + 1) |-> g[n]]
      BY DEF g
    <2>5. WalksUp(tree, s, m + 1, g)
      BY <2>3, <2>4 DEF WalksUp
    <2> QED BY <2>5
  <1> HIDE DEF T
  <1>3. T = Nat
    <2>1. T \in SUBSET Nat
      BY DEF T
    <2> QED BY <1>1, <1>2, <2>1, Induction
  <1> QED BY <1>3 DEF T

\* What is above a space is where its walk ends.
EndsAbove(tree, s, up) ==
    /\ Cardinality(Spaces) \in Nat
    /\ Above(tree, s) = up[Cardinality(Spaces)]
    /\ up[0] = {tree[s]} \ {Root}
    /\ \A n \in Nat : n + 1 <= Cardinality(Spaces) => up[n + 1] = StepUp(tree, up[n])

LEMMA AboveIsWalk ==
    ASSUME NEW tree, NEW s
    PROVE  \E up : EndsAbove(tree, s, up)
  <1> DEFINE N == Cardinality(Spaces)
             up == CHOOSE f : WalksUp(tree, s, N, f)
  <1>1. N \in Nat
    BY SealedAssumption, FS_CardinalityType
  <1>2. WalksUp(tree, s, N, up)
    BY <1>1, WalkExists
  <1>3. Above(tree, s) = up[N]
    BY DEF Above, WalksUp
  <1> HIDE DEF up, N
  <1>4. \A n \in 0..N : up[n] = IF n = 0 THEN {tree[s]} \ {Root}
                                ELSE up[n - 1] \cup ({tree[a] : a \in up[n - 1]} \ {Root})
    BY <1>2 DEF WalksUp
  <1>5. up[0] = {tree[s]} \ {Root}
    <2>1. 0 \in 0..N
      BY <1>1
    <2> QED BY <1>4, <2>1
  <1>6. ASSUME NEW n \in Nat, n + 1 <= N PROVE up[n + 1] = StepUp(tree, up[n])
    <2>1. n + 1 \in 0..N /\ n + 1 # 0 /\ (n + 1) - 1 = n
      BY <1>1, <1>6
    <2>2. up[n + 1] = up[(n + 1) - 1] \cup ({tree[a] : a \in up[(n + 1) - 1]} \ {Root})
      BY <1>4, <2>1
    <2> QED BY <2>1, <2>2 DEF StepUp
  <1> QED BY <1>1, <1>3, <1>5, <1>6 DEF N, EndsAbove

\* What is above a space is the least set that has its parent and the parents of
\* its own members: no longer walk finds more.
LEMMA AboveLeast ==
    ASSUME NEW tree, NEW s, NEW U, tree[s] # Root => tree[s] \in U,
           \A a \in U : tree[a] # Root => tree[a] \in U
    PROVE  Above(tree, s) \subseteq U
  <1> DEFINE N == Cardinality(Spaces)
  <1> PICK up : EndsAbove(tree, s, up)
    BY AboveIsWalk
  <1>1. /\ N \in Nat /\ Above(tree, s) = up[N] /\ up[0] = {tree[s]} \ {Root}
        /\ \A n \in Nat : n + 1 <= N => up[n + 1] = StepUp(tree, up[n])
    BY DEF EndsAbove
  <1> HIDE DEF N
  <1> DEFINE T == {n \in Nat : n <= N => up[n] \subseteq U}
  <1>2. 0 \in T
    BY <1>1
  <1>3. ASSUME NEW n \in T PROVE n + 1 \in T
    <2>1. n + 1 <= N => n <= N
      BY <1>1
    <2> QED BY <1>1, <2>1 DEF StepUp
  <1>4. T \in SUBSET Nat
    OBVIOUS
  <1> HIDE DEF T
  <1>5. N \in T
    BY <1>1, <1>2, <1>3, <1>4, Induction
  <1> QED BY <1>1, <1>5 DEF T

\* It is a set of spaces with the parent, and closed.
LEMMA AboveClosed ==
    ASSUME NEW tree \in [Spaces -> Spaces \cup {Root}], NEW s \in Spaces
    PROVE  /\ Above(tree, s) \subseteq Spaces
           /\ tree[s] # Root => tree[s] \in Above(tree, s)
           /\ \A a \in Above(tree, s) : tree[a] # Root => tree[a] \in Above(tree, s)
  <1> DEFINE N == Cardinality(Spaces)
             Closed(A) == \A a \in A : tree[a] # Root => tree[a] \in A
  <1> PICK up : EndsAbove(tree, s, up)
    BY AboveIsWalk
  <1>1. /\ N \in Nat /\ Above(tree, s) = up[N] /\ up[0] = {tree[s]} \ {Root}
        /\ \A n \in Nat : n + 1 <= N => up[n + 1] = StepUp(tree, up[n])
    BY DEF EndsAbove
  <1>2. Above(tree, s) \subseteq Spaces
    <2>1. \A a \in Spaces : tree[a] # Root => tree[a] \in Spaces
      OBVIOUS
    <2> QED BY <2>1, AboveLeast
  <1> DEFINE T == {n \in Nat : n <= N =>
                     /\ up[n] \subseteq Spaces
                     /\ tree[s] # Root => tree[s] \in up[n]
                     /\ Closed(up[n]) \/ n + 1 <= Cardinality(up[n])}
  <1>3. 0 \in T
    <2>1. up[0] \subseteq Spaces /\ (tree[s] # Root => tree[s] \in up[0])
      BY <1>1
    <2>2. Closed(up[0]) \/ 1 <= Cardinality(up[0])
      <3>1. CASE tree[s] = Root
        BY <1>1, <3>1
      <3>2. CASE tree[s] # Root
        <4>1. up[0] = {tree[s]}
          BY <1>1, <3>2
        <4>2. Cardinality({tree[s]}) = 1
          BY FS_Singleton
        <4> QED BY <4>1, <4>2
      <3> QED BY <3>1, <3>2
    <2> HIDE DEF Closed, N
    <2> QED BY <2>1, <2>2
  <1>4. ASSUME NEW n \in T PROVE n + 1 \in T
    <2> SUFFICES ASSUME n + 1 <= N
                 PROVE  /\ up[n + 1] \subseteq Spaces
                        /\ tree[s] # Root => tree[s] \in up[n + 1]
                        /\ Closed(up[n + 1]) \/ n + 2 <= Cardinality(up[n + 1])
      <3> HIDE DEF Closed, N
      <3> QED OBVIOUS
    <2>1. n \in Nat /\ n <= N
      BY <1>1
    <2>2. /\ up[n] \subseteq Spaces
          /\ tree[s] # Root => tree[s] \in up[n]
          /\ Closed(up[n]) \/ n + 1 <= Cardinality(up[n])
      <3> HIDE DEF Closed, N
      <3> QED BY <2>1
    <2>3. up[n + 1] = StepUp(tree, up[n])
      BY <1>1, <2>1
    <2>4. up[n + 1] \subseteq Spaces /\ up[n] \subseteq up[n + 1]
      BY <2>2, <2>3 DEF StepUp
    <2>5. CASE Closed(up[n])
      <3>1. up[n + 1] = up[n]
        BY <2>3, <2>5 DEF StepUp
      <3> QED BY <2>2, <2>5, <3>1
    <2>6. CASE ~Closed(up[n])
      <3>1. PICK a \in up[n] : tree[a] # Root /\ tree[a] \notin up[n]
        BY <2>6
      <3>2. tree[a] \in up[n + 1]
        BY <2>3, <3>1 DEF StepUp
      <3>3. IsFiniteSet(up[n]) /\ IsFiniteSet(up[n + 1])
        BY <2>2, <2>4, SealedAssumption, FS_Subset
      <3>4. Cardinality(up[n] \cup {tree[a]}) = Cardinality(up[n]) + 1
        BY <3>1, <3>3, FS_AddElement
      <3>5. Cardinality(up[n] \cup {tree[a]}) <= Cardinality(up[n + 1])
        BY <2>4, <3>2, <3>3, FS_Subset
      <3>6. /\ n + 1 <= Cardinality(up[n]) /\ Cardinality(up[n]) \in Nat
            /\ Cardinality(up[n + 1]) \in Nat
        BY <2>2, <2>6, <3>3, FS_CardinalityType
      <3>7. n + 2 <= Cardinality(up[n + 1])
        BY <2>1, <3>4, <3>5, <3>6
      <3> QED BY <2>2, <2>4, <3>7
    <2> QED BY <2>5, <2>6
  <1> HIDE DEF T
  <1>5. N \in T
    <2>1. T \in SUBSET Nat
      BY DEF T
    <2> QED BY <1>1, <1>3, <1>4, <2>1, Induction
  <1>6. /\ tree[s] # Root => tree[s] \in up[N]
        /\ Closed(up[N]) \/ N + 1 <= Cardinality(up[N])
    <2> HIDE DEF Closed
    <2> QED BY <1>1, <1>5 DEF T
  <1>7. Cardinality(up[N]) <= N
    BY <1>1, <1>2, SealedAssumption, FS_Subset
  <1>8. Closed(up[N])
    <2>1. Cardinality(up[N]) \in Nat
      BY <1>1, <1>2, SealedAssumption, FS_Subset, FS_CardinalityType
    <2> HIDE DEF Closed, N
    <2> QED BY <1>1, <1>6, <1>7, <2>1
  <1> QED BY <1>1, <1>2, <1>6, <1>8

\* The request of tab t nests a space.
Nests(t) == req[t] # Idle /\ req[t].op = "nest"

\* What keeps the tree: no space is above itself, none hangs under one that is
\* gone, and a nesting under way is alone and goes to no space below its own.
IsTree(tree) ==
    /\ tree \in [Spaces -> Spaces \cup {Root}]
    /\ \A s \in Spaces : s \notin Above(tree, s)
Hangs(tree, there) ==
    /\ there \subseteq Spaces
    /\ \A s \in there : tree[s] \in there \cup {Root}
NestsAreAlone ==
    \A t \in Tabs : Nests(t) =>
       /\ \A u \in Tabs \ {t} : req[u] = Idle
       /\ req[t].space \in Spaces /\ req[t].to \in Spaces \cup {Root}
       /\ req[t].to # Root => /\ req[t].to # req[t].space
                              /\ req[t].space \notin Above(parent, req[t].to)
TreeInv == DOMAIN req = Tabs /\ IsTree(parent) /\ Hangs(parent, spaces) /\ NestsAreAlone

\* What is above a space above another is above that one too.
LEMMA AboveTransitive ==
    ASSUME NEW tree \in [Spaces -> Spaces \cup {Root}], NEW s \in Spaces,
           NEW a \in Above(tree, s)
    PROVE  a \in Spaces /\ Above(tree, a) \subseteq Above(tree, s)
  BY AboveClosed, AboveLeast

\* Taking spaces to the root, or one up, leaves a tree.
LEMMA LiftedTree ==
    ASSUME NEW tree, IsTree(tree), NEW new \in [Spaces -> Spaces \cup {Root}],
           \A s \in Spaces : new[s] # Root => new[s] \in Above(tree, s)
    PROVE  IsTree(new)
  <1>1. ASSUME NEW s \in Spaces PROVE Above(new, s) \subseteq Above(tree, s)
    <2> DEFINE U == Above(tree, s)
    <2>1. new[s] # Root => new[s] \in U
      OBVIOUS
    <2>2. ASSUME NEW a \in U, new[a] # Root PROVE new[a] \in U
      <3>1. a \in Spaces /\ Above(tree, a) \subseteq U
        BY AboveTransitive DEF IsTree
      <3> QED BY <2>2, <3>1
    <2> HIDE DEF U
    <2>3. Above(new, s) \subseteq U
      BY <2>1, <2>2, AboveLeast
    <2> QED BY <2>3 DEF U
  <1> QED BY <1>1 DEF IsTree

\* Hanging a space under one that is not below it leaves a tree.
LEMMA NestedTree ==
    ASSUME NEW tree, IsTree(tree), NEW s \in Spaces, NEW to \in Spaces \cup {Root},
           to # Root => to # s /\ s \notin Above(tree, to)
    PROVE  IsTree([tree EXCEPT ![s] = to])
  <1> DEFINE new == [tree EXCEPT ![s] = to]
  <1>1. /\ tree \in [Spaces -> Spaces \cup {Root}] /\ new \in [Spaces -> Spaces \cup {Root}]
        /\ new[s] = to /\ \A x \in Spaces \ {s} : new[x] = tree[x]
    BY DEF IsTree
  <1> HIDE DEF new
  <1>2. CASE to = Root
    <2>1. \A x \in Spaces : new[x] # Root => new[x] \in Above(tree, x)
      BY <1>1, <1>2, AboveClosed
    <2> QED BY <1>1, <2>1, LiftedTree DEF new
  <1>3. CASE to # Root
    <2> DEFINE V == {to} \cup Above(tree, to)
    <2>1. /\ s \notin V /\ V \subseteq Spaces
          /\ \A a \in V : a # s /\ (tree[a] # Root => tree[a] \in V)
      BY <1>1, <1>3, AboveClosed
    <2>2. \A a \in V : new[a] # Root => new[a] \in V
      BY <1>1, <2>1
    <2>3. \A x \in Spaces : x \in V => Above(tree, x) \subseteq V
      BY <2>1, AboveLeast
    <2> HIDE DEF V
    <2>4. to \in V
      BY DEF V
    <2>5. Above(new, s) \subseteq V
      BY <1>1, <2>2, <2>4, AboveLeast
    <2>6. ASSUME NEW x \in Spaces \ {s}, s \notin Above(tree, x)
          PROVE  Above(new, x) \subseteq Above(tree, x)
      <3> DEFINE U == Above(tree, x)
      <3>1. /\ tree[x] # Root => tree[x] \in U
            /\ \A a \in U : a \in Spaces /\ a # s /\ (tree[a] # Root => tree[a] \in U)
        BY <1>1, <2>6, AboveClosed
      <3> HIDE DEF U
      <3>2. Above(new, x) \subseteq U
        BY <1>1, <3>1, AboveLeast
      <3> QED BY <3>2 DEF U
    <2>7. ASSUME NEW x \in Spaces \ {s}, s \in Above(tree, x)
          PROVE  Above(new, x) \subseteq Above(tree, x) \cup V /\ x \notin V
      <3> DEFINE U == Above(tree, x)
      <3>1. /\ tree[x] # Root => tree[x] \in U
            /\ \A a \in U : a \in Spaces /\ (tree[a] # Root => tree[a] \in U)
        BY <1>1, AboveClosed
      <3>2. x \notin V
        BY <2>1, <2>3, <2>7
      <3> HIDE DEF U
      <3>3. \A a \in U \cup V : new[a] # Root => new[a] \in U \cup V
        BY <1>1, <2>2, <2>4, <3>1
      <3>4. Above(new, x) \subseteq U \cup V
        BY <1>1, <3>1, <3>3, AboveLeast
      <3> QED BY <3>2, <3>4 DEF U
    <2>8. \A x \in Spaces : x \notin Above(new, x)
      BY <2>1, <2>5, <2>6, <2>7 DEF IsTree
    <2> QED BY <1>1, <2>8 DEF IsTree, new
  <1> QED BY <1>2, <1>3

\* A step that leaves the tree, and in which no nesting starts or one ends.
LEMMA TreeStays ==
    ASSUME TreeInv, UNCHANGED <<spaces, parent>>, DOMAIN req' = Tabs,
           \/ \A u \in Tabs : req'[u] = req[u] \/ req'[u] = Idle
           \/ \A u \in Tabs : ~(req'[u] # Idle /\ req'[u].op = "nest")
    PROVE  TreeInv'
  <1>1. IsTree(parent') /\ Hangs(parent', spaces')
    BY DEF TreeInv
  <1>2. NestsAreAlone'
    BY DEF TreeInv, NestsAreAlone, Nests
  <1> QED BY <1>1, <1>2 DEF TreeInv, IsTree, Hangs

\* Nothing starts beside a nesting, and a nesting starts alone.
LEMMA NestStarts ==
    ASSUME "nest" \in Alone, NEW e, Starts(e)
    PROVE  /\ \A u \in Tabs : ~Nests(u)
           /\ e = "nest" => \A u \in Tabs : req[u] = Idle
  BY DEF Starts, Nests

\* A request is done.
LEMMA DoneEnds ==
    ASSUME TreeInv, NEW t \in Tabs, Done(t)
    PROVE  DOMAIN req' = Tabs /\ \A u \in Tabs : req'[u] = req[u] \/ req'[u] = Idle
  BY DEF TreeInv, Done

\* A request of another kind starts.
LEMMA OtherStarts ==
    ASSUME "nest" \in Alone, TreeInv, NEW t \in Tabs, NEW q, NEW e, Starts(e),
           req' = [req EXCEPT ![t] = q], q.op # "nest", UNCHANGED <<spaces, parent>>
    PROVE  TreeInv'
  <1>1. DOMAIN req' = Tabs /\ req'[t] = q /\ \A u \in Tabs \ {t} : req'[u] = req[u]
    BY DEF TreeInv
  <1>2. \A u \in Tabs : ~(req'[u] # Idle /\ req'[u].op = "nest")
    BY <1>1, NestStarts DEF Nests
  <1> QED BY <1>1, <1>2, TreeStays

\* A space is deleted: what was nested there meanwhile comes to the root.
LEMMA DeleteKeepsTree ==
    ASSUME TypesInv, TreeInv, NEW t \in Tabs, delete_collection(t)
    PROVE  TreeInv'
  <1> DEFINE calls == req[t].calls
             q == Deletion(Tail(calls))
  <1>1. PICK s : s = Head(req[t].calls).space
    OBVIOUS
  <1>2. /\ spaces' = spaces \ {s} /\ DeletesSpaces(t)
        /\ req' = [req EXCEPT ![t] = IF Len(calls) = 1 THEN Idle ELSE q]
        /\ parent' = [x \in Spaces |-> IF x = s \/ parent[x] = s THEN Root ELSE parent[x]]
    BY <1>1 DEF delete_collection
  <1>3. parent \in [Spaces -> Spaces \cup {Root}]
    BY DEF TreeInv, IsTree
  <1>4. parent' \in [Spaces -> Spaces \cup {Root}]
    BY <1>2, <1>3
  <1>5. \A x \in Spaces : parent'[x] # Root => parent'[x] \in Above(parent, x)
    BY <1>2, <1>3, AboveClosed
  <1>6. IsTree(parent')
    BY <1>4, <1>5, LiftedTree DEF TreeInv
  <1>7. ASSUME NEW x \in spaces' PROVE parent'[x] \in spaces' \cup {Root}
    <2>1. x \in spaces /\ x \in Spaces /\ x # s /\ parent[x] \in spaces \cup {Root}
      BY <1>2 DEF TreeInv, Hangs
    <2>2. CASE parent[x] = s
      BY <1>2, <2>1, <2>2
    <2>3. CASE parent[x] # s
      <3>1. parent'[x] = parent[x]
        BY <1>2, <2>1, <2>3
      <3> QED BY <1>2, <2>1, <2>3, <3>1
    <2> QED BY <2>2, <2>3
  <1>8. Hangs(parent', spaces')
    BY <1>2, <1>7 DEF TreeInv, Hangs
  <1>10. q.op = "deleteSpace"
    BY DEF Deletion
  <1>11. \A u \in Tabs : ~Nests(u)
    BY <1>2 DEF TreeInv, NestsAreAlone, Nests, DeletesSpaces
  <1> HIDE DEF q
  <1>12. /\ DOMAIN req' = Tabs /\ \A u \in Tabs \ {t} : req'[u] = req[u]
         /\ req'[t] = Idle \/ req'[t].op = "deleteSpace"
    BY <1>2, <1>10 DEF TreeInv
  <1>13. NestsAreAlone'
    BY <1>11, <1>12 DEF NestsAreAlone, Nests
  <1> QED BY <1>6, <1>8, <1>12, <1>13 DEF TreeInv, IsTree, Hangs

\* A space is merged into another: what was nested in it comes to the root.
LEMMA MergeKeepsTree ==
    ASSUME "nest" \in Alone, TreeInv, NEW s \in Spaces, NEW into, merge_collections(s, into)
    PROVE  TreeInv'
  <1>1. /\ req' = req /\ spaces' = spaces \ {s} /\ \A u \in Tabs : ~Nests(u)
        /\ parent' = [x \in Spaces |-> IF x = s \/ parent[x] = s THEN Root ELSE parent[x]]
    BY NestStarts DEF merge_collections
  <1>2. parent \in [Spaces -> Spaces \cup {Root}]
    BY DEF TreeInv, IsTree
  <1>3. parent' \in [Spaces -> Spaces \cup {Root}]
    BY <1>1, <1>2
  <1>4. \A x \in Spaces : parent'[x] # Root => parent'[x] \in Above(parent, x)
    BY <1>1, <1>2, AboveClosed
  <1>5. IsTree(parent')
    BY <1>3, <1>4, LiftedTree DEF TreeInv
  <1>6. ASSUME NEW x \in spaces' PROVE parent'[x] \in spaces' \cup {Root}
    <2>1. x \in spaces /\ x \in Spaces /\ x # s /\ parent[x] \in spaces \cup {Root}
      BY <1>1 DEF TreeInv, Hangs
    <2>2. CASE parent[x] = s
      BY <1>1, <2>1, <2>2
    <2>3. CASE parent[x] # s
      <3>1. parent'[x] = parent[x]
        BY <1>1, <2>1, <2>3
      <3> QED BY <1>1, <2>1, <2>3, <3>1
    <2> QED BY <2>2, <2>3
  <1>7. Hangs(parent', spaces')
    BY <1>1, <1>6 DEF TreeInv, Hangs
  <1>8. NestsAreAlone' /\ DOMAIN req' = Tabs
    BY <1>1 DEF TreeInv, NestsAreAlone, Nests
  <1> QED BY <1>5, <1>7, <1>8 DEF TreeInv, IsTree, Hangs

\* A folder is dissolved: what was nested in it comes one up.
LEMMA DissolveKeepsTree ==
    ASSUME "nest" \in Alone, TreeInv, NEW s \in Spaces, dissolve_space(s)
    PROVE  TreeInv'
  <1>1. /\ req' = req /\ spaces' = spaces \ {s} /\ \A u \in Tabs : ~Nests(u)
        /\ s \in spaces /\ parent[s] # Root
        /\ parent' = [x \in Spaces |-> IF x = s THEN Root
                                       ELSE IF parent[x] = s THEN parent[s] ELSE parent[x]]
    BY NestStarts DEF dissolve_space
  <1>2. parent \in [Spaces -> Spaces \cup {Root}]
    BY DEF TreeInv, IsTree
  <1>3. parent' \in [Spaces -> Spaces \cup {Root}]
    BY <1>1, <1>2
  <1>4. ASSUME NEW x \in Spaces, parent'[x] # Root PROVE parent'[x] \in Above(parent, x)
    <2>1. x # s /\ parent'[x] = IF parent[x] = s THEN parent[s] ELSE parent[x]
      BY <1>1, <1>4
    <2>2. s # Root
      BY Marks
    <2>3. CASE parent[x] = s
      <3>1. s \in Above(parent, x)
        BY <1>2, <2>2, <2>3, AboveClosed
      <3>2. parent[s] \in Above(parent, x)
        BY <1>1, <1>2, <3>1, AboveClosed
      <3> QED BY <2>1, <2>3, <3>2
    <2>4. CASE parent[x] # s
      <3>1. parent'[x] = parent[x]
        BY <2>1, <2>4
      <3> QED BY <1>2, <1>4, <3>1, AboveClosed
    <2> QED BY <2>3, <2>4
  <1>5. IsTree(parent')
    BY <1>3, <1>4, LiftedTree DEF TreeInv
  <1>6. parent[s] # s
    BY <1>1, <1>2, AboveClosed DEF TreeInv, IsTree
  <1>7. ASSUME NEW x \in spaces' PROVE parent'[x] \in spaces' \cup {Root}
    <2>1. x \in spaces /\ x \in Spaces /\ x # s /\ parent[x] \in spaces \cup {Root}
      BY <1>1 DEF TreeInv, Hangs
    <2>2. CASE parent[x] = s
      <3>1. parent'[x] = parent[s] /\ parent[s] \in spaces
        BY <1>1, <2>1, <2>2 DEF TreeInv, Hangs
      <3> QED BY <1>1, <1>6, <3>1
    <2>3. CASE parent[x] # s
      <3>1. parent'[x] = parent[x]
        BY <1>1, <2>1, <2>3
      <3> QED BY <1>1, <2>1, <2>3, <3>1
    <2> QED BY <2>2, <2>3
  <1>8. Hangs(parent', spaces')
    BY <1>1, <1>7 DEF TreeInv, Hangs
  <1>9. NestsAreAlone' /\ DOMAIN req' = Tabs
    BY <1>1 DEF TreeInv, NestsAreAlone, Nests
  <1> QED BY <1>5, <1>8, <1>9 DEF TreeInv, IsTree, Hangs

\* The walk up finds the target outside of the branch that moves.
LEMMA NestStartKeepsTree ==
    ASSUME "nest" \in Alone, TreeInv, NEW t \in Tabs, NEW s \in Spaces,
           NEW to \in Spaces \cup {Root}, _assert_can_nest(t, s, to)
    PROVE  TreeInv'
  <1> DEFINE q == [op |-> "nest", space |-> s, to |-> to]
  <1>1. /\ req' = [req EXCEPT ![t] = q] /\ UNCHANGED <<spaces, parent>>
        /\ \A u \in Tabs : req[u] = Idle
        /\ to # Root => to # s /\ s \notin Above(parent, to)
    BY NestStarts, Marks DEF _assert_can_nest, _ancestor_ids
  <1>2. q.space = s /\ q.to = to
    OBVIOUS
  <1> HIDE DEF q
  <1>3. DOMAIN req' = Tabs /\ req'[t] = q /\ \A u \in Tabs \ {t} : req'[u] = Idle
    BY <1>1 DEF TreeInv
  <1>4. NestsAreAlone'
    <2>1. \A u \in Tabs : (req'[u] # Idle => u = t)
      BY <1>3
    <2> QED BY <1>1, <1>2, <1>3, <2>1 DEF NestsAreAlone, Nests
  <1>5. IsTree(parent') /\ Hangs(parent', spaces')
    BY <1>1 DEF TreeInv
  <1> QED BY <1>3, <1>4, <1>5 DEF TreeInv, IsTree, Hangs

\* The move is written.
LEMMA ReorderKeepsTree ==
    ASSUME TreeInv, NEW t \in Tabs, reorder_space(t)
    PROVE  TreeInv'
  <1>1. PICK s \in Spaces, to \in Spaces \cup {Root} :
           /\ s = req[t].space /\ to = req[t].to
           /\ to # Root => to # s /\ s \notin Above(parent, to)
           /\ \A u \in Tabs \ {t} : req[u] = Idle
    BY DEF reorder_space, TreeInv, NestsAreAlone, Nests
  <1>2. /\ parent' = IF s \in spaces /\ to \in spaces \cup {Root}
                     THEN [parent EXCEPT ![s] = to] ELSE parent
        /\ Done(t) /\ spaces' = spaces
    BY <1>1 DEF reorder_space
  <1>3. IsTree(parent')
    BY <1>1, <1>2, NestedTree DEF TreeInv
  <1>4. Hangs(parent', spaces')
    BY <1>2 DEF TreeInv, Hangs, IsTree
  <1>5. DOMAIN req' = Tabs /\ \A u \in Tabs : req'[u] = Idle
    BY <1>1, <1>2, DoneEnds DEF Done, TreeInv
  <1>6. NestsAreAlone'
    BY <1>5 DEF NestsAreAlone, Nests
  <1> QED BY <1>3, <1>4, <1>5, <1>6 DEF TreeInv, IsTree, Hangs

\* Every step keeps the tree.
LEMMA StepKeepsTree ==
    ASSUME "nest" \in Alone, TypesInv, TreeInv, [Next]_vars
    PROVE  TreeInv'
  <1> DEFINE Same == UNCHANGED <<spaces, parent, req>>
             Ends(t) == UNCHANGED <<spaces, parent>> /\ Done(t)
  <1>1. Same => TreeInv'
    BY TreeStays DEF TreeInv
  <1>2. \A t \in Tabs : Ends(t) => TreeInv'
    BY DoneEnds, TreeStays
  <1>3. ASSUME NEW s \in Spaces, Unlock(s) \/ Lock(s) \/ dissolve_space(s)
        PROVE  TreeInv'
    BY <1>1, <1>3, DissolveKeepsTree DEF Unlock, Lock
  <1>4. ASSUME NEW c \in Cards, NEW s \in Spaces \cup {Unfiled}, NEW v \in Cards \cup {NoCard},
               \/ create_item(c, s, v)
               \/ \E t \in Tabs : create_video_capture_item(t, c, s, v)
        PROVE  TreeInv'
    <2>1. CASE create_item(c, s, v)
      BY <1>1, <2>1 DEF create_item
    <2>2. ASSUME NEW t \in Tabs, create_video_capture_item(t, c, s, v) PROVE TreeInv'
      <3> DEFINE q == [op |-> "video", card |-> c, row |-> NewRow(s, v), to |-> s]
      <3>1. Starts("video") /\ req' = [req EXCEPT ![t] = q] /\ UNCHANGED <<spaces, parent>>
        BY <2>2 DEF create_video_capture_item
      <3>2. q.op # "nest"
        OBVIOUS
      <3> HIDE DEF q
      <3> QED BY <3>1, <3>2, OtherStarts
    <2> QED BY <1>4, <2>1, <2>2
  <1>5. ASSUME NEW t \in Tabs, NEW c, NEW op, NEW to, Load(t, c, op, to), op # "nest"
        PROVE  TreeInv'
    <2> DEFINE q == [op |-> op, card |-> c, row |-> card[c], to |-> to]
    <2>1. Starts(op) /\ req' = [req EXCEPT ![t] = q] /\ UNCHANGED <<spaces, parent>>
      BY <1>5 DEF Load
    <2>2. q.op # "nest"
      BY <1>5
    <2> HIDE DEF q
    <2> QED BY <2>1, <2>2, OtherStarts
  <1>6. ASSUME NEW t \in Tabs, NEW c, LoadDelete(t, c) PROVE TreeInv'
    <2> DEFINE q == [op |-> "delete", card |-> c]
    <2>1. Starts("delete") /\ req' = [req EXCEPT ![t] = q] /\ UNCHANGED <<spaces, parent>>
      BY <1>6 DEF LoadDelete
    <2>2. q.op # "nest"
      OBVIOUS
    <2> HIDE DEF q
    <2> QED BY <2>1, <2>2, OtherStarts
  <1>7. ASSUME NEW t \in Tabs, NEW c \in Existing,
               \/ LoadRead(t, c) \/ LoadEdit(t, c) \/ LoadDelete(t, c)
               \/ \E s \in Spaces \cup {Unfiled} : LoadFile(t, c, s)
               \/ \E v \in Cards \cup {NoCard} : LoadStack(t, c, v)
        PROVE  TreeInv'
    BY <1>5, <1>6, <1>7 DEF LoadRead, LoadEdit, LoadFile, LoadStack
  <1>8. ASSUME NEW t \in Tabs,
               \/ \E s \in Spaces : delete_coll(t, s) \/ DeletesNested(t, s)
               \/ ListsCards(t)
        PROVE  TreeInv'
    <2>1. PICK q \in SpaceDeletions : /\ req' = [req EXCEPT ![t] = q]
                                      /\ UNCHANGED <<card, spaces, parent, unlocked>>
      BY <1>8, SpaceCalls DEF TypesInv
    <2>2. q.op # "nest"
      BY DEF SpaceDeletions
    <2>3. \A u \in Tabs : ~Nests(u)
      BY <1>8, NestStarts DEF delete_coll, DeletesNested, ListsCards, DeletesSpaces, TreeInv,
         NestsAreAlone, Nests
    <2>4. /\ DOMAIN req' = Tabs
          /\ \A u \in Tabs : ~(req'[u] # Idle /\ req'[u].op = "nest")
      BY <2>1, <2>2, <2>3 DEF TreeInv, Nests
    <2> QED BY <2>1, <2>4, TreeStays
  <1>9. ASSUME NEW t \in Tabs,
               \/ create_capture(t) \/ get_item_by_id(t) \/ update_item(t)
               \/ stack_card(t) \/ move_sealed_item(t) \/ update_vault_item(t)
        PROVE  TreeInv'
    BY <1>2, <1>9 DEF create_capture, get_item_by_id, update_item, stack_card,
       move_sealed_item, update_vault_item
  <1>10. ASSUME NEW t \in Tabs,
                \/ delete_item(t) \/ ListsCards(t) \/ delete_collection(t)
                \/ reorder_space(t) \/ Abandon(t)
         PROVE  TreeInv'
    BY <1>2, <1>8, <1>10, DeleteKeepsTree, ReorderKeepsTree DEF delete_item, Abandon
  <1>11. ASSUME NEW s \in Spaces, NEW to \in Spaces \cup {Unfiled}, merge_collections(s, to)
         PROVE  TreeInv'
    BY <1>11, MergeKeepsTree
  <1>12. ASSUME NEW t \in Tabs, NEW s \in Spaces, NEW to \in Spaces \cup {Root},
                _assert_can_nest(t, s, to)
         PROVE  TreeInv'
    BY <1>12, NestStartKeepsTree
  <1>13. CASE UNCHANGED vars
    BY <1>1, <1>13 DEF vars
  <1> QED BY <1>3, <1>4, <1>7, <1>8, <1>9, <1>10, <1>11, <1>12, <1>13 DEF Next

\* A walk from the root finds nothing.
LEMMA NothingAboveRoot ==
    ASSUME NEW tree, NEW s \in Spaces, tree[s] = Root
    PROVE  Above(tree, s) = {}
  <1> DEFINE U == {}
  <1>1. \A a \in U : tree[a] # Root => tree[a] \in U
    OBVIOUS
  <1>2. U = {}
    OBVIOUS
  <1> HIDE DEF U
  <1>3. Above(tree, s) \subseteq U
    BY <1>1, AboveLeast
  <1> QED BY <1>2, <1>3

\* "A drop cannot build a cycle": the spaces stay a tree, of any depth and any
\* number, whatever is nested, merged, dissolved or deleted, as long as a nesting
\* runs with no other request between its walk up and its write.
THEOREM NoDropBuildsACycle ==
    ASSUME "nest" \in Alone
    PROVE  Spec => []SpacesFormATree
  <1>1. Init => TypesInv /\ TreeInv
    <2> SUFFICES ASSUME Init PROVE TreeInv
      BY StartIsTyped
    <2>1. parent \in [Spaces -> Spaces \cup {Root}] /\ \A s \in Spaces : parent[s] = Root
      BY DEF Init
    <2>2. IsTree(parent) /\ Hangs(parent, spaces)
      BY <2>1, NothingAboveRoot DEF IsTree, Hangs, Init
    <2>3. DOMAIN req = Tabs /\ NestsAreAlone
      BY DEF Init, NestsAreAlone, Nests
    <2> QED BY <2>2, <2>3 DEF TreeInv
  <1>2. TypesInv /\ TreeInv /\ [Next]_vars => TypesInv' /\ TreeInv'
    BY StepKeepsTypes, StepKeepsTree
  <1>3. TreeInv => SpacesFormATree
    BY DEF TreeInv, IsTree, Hangs, SpacesFormATree, _ancestor_ids
  <1> QED BY <1>1, <1>2, <1>3, PTL DEF Spec
=============================================================================
