----------------------------- MODULE VaultOrder ----------------------------
(***************************************************************************)
(* The manual order of the cards of one space (vault/services.py,          *)
(* POSITION_STEP to place_new_card): a drop between two neighbours reads   *)
(* their positions, writes the midpoint, and numbers the space afresh when *)
(* nothing fits between them.  Requests of several tabs read before one    *)
(* another's commits.                                                      *)
(*                                                                         *)
(* Positions are whole numbers of a unit no larger than half of            *)
(* POSITION_MIN_GAP; a midpoint is rounded down to it.  A card is its id,  *)
(* the order of creation.  Every card has a position (vault_0009 gave one  *)
(* to those that had none) and its space is not left.                      *)
(***************************************************************************)
EXTENDS Integers, FiniteSets

CONSTANTS Cards, AtStart, Tabs, NoCard,
          POSITION_STEP, POSITION_MIN_GAP,
          MaxDrops   \* bounds the requests

ASSUME VaultOrderAssumption ==
    /\ IsFiniteSet(Cards) /\ Cards \subseteq Nat /\ AtStart \subseteq Cards
    /\ NoCard \notin Cards
    /\ POSITION_MIN_GAP \in Nat /\ POSITION_MIN_GAP >= 2
    /\ POSITION_STEP \in Nat /\ POSITION_STEP >= POSITION_MIN_GAP

VARIABLES grid,     \* the cards of the space
          position, \* of each card
          drop,     \* what a tab's request has read
          drops

orderVars == <<grid, position, drop, drops>>

NoDrop == [at |-> "idle", card |-> NoCard, before |-> NoCard, after |-> NoCard,
           low |-> 0, high |-> 0]

\* What _renumber gives: created_at first, then id, whatever the positions were.
Index(c) == Cardinality({d \in grid : d < c})
_renumber == [c \in Cards |-> IF c \in grid THEN Index(c) * POSITION_STEP ELSE position[c]]

VaultOrderInit ==
    /\ grid = AtStart /\ drops = 0
    /\ position = [c \in Cards |-> Cardinality({d \in AtStart : d < c}) * POSITION_STEP]
    /\ drop = [t \in Tabs |-> NoDrop]

-----------------------------------------------------------------------------
\* Where a card goes between a and b, either of which may be missing; low and
\* high are their positions.
_midpoint(a, b, low, high) ==
    IF a = NoCard THEN (IF b = NoCard THEN 0 ELSE high - POSITION_STEP)
    ELSE IF b = NoCard THEN low + POSITION_STEP ELSE (low + high) \div 2

\* The tab names the neighbours, and may see an order that is no more.
_neighbour_positions(t, c, a, b) ==
    /\ drop[t].at = "idle" /\ drops < MaxDrops
    /\ c \in grid /\ {a, b} \subseteq grid \cup {NoCard} /\ c \notin {a, b}
    /\ a = b => a = NoCard
    /\ drop' = [drop EXCEPT ![t] =
                  [at |-> "read", card |-> c, before |-> a, after |-> b,
                   low |-> IF a = NoCard THEN 0 ELSE position[a],
                   high |-> IF b = NoCard THEN 0 ELSE position[b]]]
    /\ drops' = drops + 1
    /\ UNCHANGED <<grid, position>>

Squeezed(d) == /\ d.before # NoCard /\ d.after # NoCard
               /\ d.low - d.high < POSITION_MIN_GAP /\ d.high - d.low < POSITION_MIN_GAP

\* Mutant: the card is placed by what was read before the space was numbered afresh.
PlacesByOldNumbers(t) ==
    LET d == drop[t] IN
    /\ d.at = "read"
    /\ position' = [IF Squeezed(d) THEN _renumber ELSE position EXCEPT
                      ![d.card] = _midpoint(d.before, d.after, d.low, d.high)]
    /\ drop' = [drop EXCEPT ![t] = NoDrop]
    /\ UNCHANGED <<grid, drops>>

PlacedAmong(p, d) == [p EXCEPT ![d.card] =
    _midpoint(d.before, d.after, IF d.before = NoCard THEN 0 ELSE p[d.before],
                                 IF d.after = NoCard THEN 0 ELSE p[d.after])]

\* The rest of the request and its commit: one row, or every row of the space.
reorder_card(t) ==
    LET d == drop[t] IN
    /\ d.at = "read"
    /\ position' = IF Squeezed(d) THEN PlacedAmong(_renumber, d)
                   ELSE [position EXCEPT ![d.card] = _midpoint(d.before, d.after, d.low, d.high)]
    /\ drop' = [drop EXCEPT ![t] = NoDrop]
    /\ UNCHANGED <<grid, drops>>

\* A new card reads the least position, and is committed before or after others.
ReadsFront(t, c) ==
    /\ drop[t].at = "idle" /\ drops < MaxDrops
    /\ c \notin grid /\ \A u \in Tabs : drop[u].card # c
    /\ \A d \in Cards \ grid : c <= d \/ \E u \in Tabs : drop[u].card = d
    /\ \E low \in {position[e] : e \in grid} \cup {0} :
          /\ \A e \in grid : low <= position[e]
          /\ grid # {} => \E e \in grid : low = position[e]
          /\ drop' = [drop EXCEPT ![t] =
                          [at |-> "new", card |-> c, before |-> NoCard, after |-> NoCard,
                           low |-> low, high |-> 0]]
    /\ drops' = drops + 1
    /\ UNCHANGED <<grid, position>>

place_new_card(t) ==
    LET d == drop[t] IN
    /\ d.at = "new"
    /\ grid' = grid \cup {d.card}
    /\ position' = [position EXCEPT ![d.card] = d.low - POSITION_STEP]
    /\ drop' = [drop EXCEPT ![t] = NoDrop]
    /\ UNCHANGED drops

VaultOrderNext ==
    \E t \in Tabs :
       \/ \E c \in Cards, a, b \in Cards \cup {NoCard} : _neighbour_positions(t, c, a, b)
       \/ \E c \in Cards : ReadsFront(t, c)
       \/ reorder_card(t) \/ place_new_card(t)

VaultOrderSpec == VaultOrderInit /\ [][VaultOrderNext]_orderVars

-----------------------------------------------------------------------------
Drops == [at : {"idle", "read", "new"}, card : Cards \cup {NoCard},
          before : Cards \cup {NoCard}, after : Cards \cup {NoCard}, low : Int, high : Int]

VaultOrderTypeOK ==
    /\ grid \subseteq Cards /\ drops \in Nat
    /\ position \in [Cards -> Int]
    /\ drop \in [Tabs -> Drops]
    /\ \A t \in Tabs : LET d == drop[t] IN
          /\ d.at = "new" => d.card \in Cards
          /\ d.at = "read" => /\ d.card \in grid /\ d.card \notin {d.before, d.after}
                              /\ {d.before, d.after} \subseteq grid \cup {NoCard}
                              /\ d.before = d.after => d.before = NoCard

\* The neighbours are where the request read them.
Unmoved(d) == /\ d.before # NoCard => position[d.before] = d.low
              /\ d.after # NoCard => position[d.after] = d.high

\* Between its neighbours, whichever of them is the lower now.
Between(p, d) ==
    LET x == p[d.card] IN
    /\ d.before # NoCard /\ d.after = NoCard => p[d.before] < x
    /\ d.before = NoCard /\ d.after # NoCard => x < p[d.after]
    /\ d.before # NoCard /\ d.after # NoCard =>
          \/ p[d.before] < x /\ x < p[d.after]
          \/ p[d.after] < x /\ x < p[d.before]

DropsLand(t) == drop[t].at = "read" /\ drop'[t].at = "idle" /\ Unmoved(drop[t])
                   => Between(position', drop[t])

(* A card that is dropped lands strictly between the neighbours it was        *)
(* dropped between, and never on one of them: however close they were pushed  *)
(* together, and though the space was numbered afresh on the way, as long as  *)
(* no other tab moved them between the read and the commit.                   *)
DropLands == [][\A t \in Tabs : DropsLand(t)]_orderVars
=============================================================================
