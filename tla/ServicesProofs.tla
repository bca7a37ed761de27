---------------------------- MODULE ServicesProofs -------------------------
(***************************************************************************)
(* What the services keep, each by itself and for any parameters: a        *)
(* tabletop room (Tabletop), the order of the cards of a space             *)
(* (VaultOrder), the hands a room deals (TabletopDeal), the unlock         *)
(* throttle (VaultThrottle), the search index (SearchIndex) and the        *)
(* planner (Planner).                                                      *)
(***************************************************************************)
EXTENDS MCServices, FiniteSetTheorems, TLAPS

(***************************************************************************)
(* A tabletop room, for any players, host requests and limit: its types,   *)
(* and that its seats are 0, 1, ... with no gap.  The invariant            *)
(* is inductive together with the types: a join takes the seat whose       *)
(* number is the number of seats, and a swap takes the two seats it gives. *)
(***************************************************************************)
(* Who has joined is a finite set, whose cardinality is a natural number.     *)
LEMMA JoinedIsFinite ==
    IsFiniteSet(Joined) /\ Cardinality(Joined) \in Nat
PROOF
  <1>1. IsFiniteSet(Players) /\ Joined \subseteq Players
    BY TabletopAssumption DEF Joined
  <1>2. IsFiniteSet(Joined)
    BY <1>1, FS_Subset
  <1> QED
    BY <1>2, FS_CardinalityType

(* An empty room has its types and no seat taken.                             *)
LEMMA InitInOrder == TabletopInit => TabletopTypeOK /\ SeatsInOrder
PROOF
  <1> SUFFICES ASSUME TabletopInit PROVE TabletopTypeOK /\ SeatsInOrder
    OBVIOUS
  <1>1. TabletopTypeOK
    BY DEF TabletopInit, TabletopTypeOK, RoomStatuses
  <1>2. Joined = {}
    BY DEF TabletopInit, Joined
  <1>3. Cardinality(Joined) = 0
    BY <1>2, FS_EmptySet
  <1>4. SeatsInOrder
    BY <1>2, <1>3, TabletopAssumption DEF SeatsInOrder
  <1> QED
    BY <1>1, <1>4

(* Every step keeps the types.                                                *)
LEMMA NextKeepsTypes ==
    TabletopTypeOK /\ [TabletopNext]_tabletopVars => TabletopTypeOK'
PROOF
  <1> SUFFICES ASSUME TabletopTypeOK, [TabletopNext]_tabletopVars PROVE TabletopTypeOK'
    OBVIOUS
  <1> USE DEF TabletopTypeOK, RoomStatuses
  <1>1. ASSUME NEW r \in Players \cup HostRequests, LoadsRoom(r) PROVE TabletopTypeOK'
    BY <1>1 DEF LoadsRoom
  <1>2. ASSUME NEW p \in Players, join_room(p) PROVE TabletopTypeOK'
    <2>1. CASE UNCHANGED <<seat, ticket>>
      BY <1>2, <2>1 DEF join_room, Answered
    <2>2. CASE Seats(p)
      <3>1. Cardinality(Joined) \in Nat
        BY JoinedIsFinite
      <3> QED
        BY <1>2, <2>2, <3>1 DEF join_room, Answered, Seats
    <2> QED
      BY <1>2, <2>1, <2>2 DEF join_room, Refuses
  <1>3. ASSUME NEW p \in Players, set_participant_role(p) PROVE TabletopTypeOK'
    BY <1>3 DEF set_participant_role
  <1>4. ASSUME NEW h \in HostRequests, start_room(h) PROVE TabletopTypeOK'
    BY <1>4 DEF start_room, Answered, Joined
  <1>5. ASSUME NEW p \in Players, NEW q \in Players, swap_participants(p, q)
        PROVE  TabletopTypeOK'
    BY <1>5 DEF swap_participants
  <1>6. CASE end_game
    BY <1>6 DEF end_game
  <1>7. CASE close_room
    BY <1>7 DEF close_room
  <1>8. CASE UNCHANGED tabletopVars
    BY <1>8 DEF tabletopVars
  <1> QED
    BY <1>1, <1>2, <1>3, <1>4, <1>5, <1>6, <1>7, <1>8 DEF TabletopNext

(* A step that leaves the seats alone leaves them in order.                   *)
LEMMA SameSeats ==
    ASSUME SeatsInOrder, UNCHANGED seat PROVE SeatsInOrder'
PROOF
  BY DEF SeatsInOrder, Joined

(* A join that is admitted takes the next seat.                               *)
LEMMA JoinTakesNext ==
    ASSUME TabletopTypeOK, SeatsInOrder, NEW p \in Players, join_room(p)
    PROVE  SeatsInOrder'
PROOF
  <1> DEFINE n == Cardinality(Joined)
  <1>1. n \in Nat /\ IsFiniteSet(Joined)
    BY JoinedIsFinite
  <1>2. CASE UNCHANGED seat
    BY <1>2, SameSeats
  <1>3. CASE p \notin Joined /\ n < RoomLimit /\ seat' = [seat EXCEPT ![p] = n]
    <2>1. n # NoSeat
      BY <1>1, TabletopAssumption
    <2>2. Joined' = Joined \cup {p}
      BY <1>3, <2>1 DEF TabletopTypeOK, Joined
    <2>3. Cardinality(Joined') = n + 1
      BY <1>1, <1>3, <2>2, FS_AddElement
    <2>4. \A q \in Joined : seat'[q] = seat[q]
      BY <1>3 DEF TabletopTypeOK, Joined
    <2>5. seat'[p] = n
      BY <1>3 DEF TabletopTypeOK
    <2>6. {seat'[q] : q \in Joined'} = {seat[q] : q \in Joined} \cup {n}
      BY <2>2, <2>4, <2>5
    <2>7. (0..(n - 1)) \cup {n} = 0..((n + 1) - 1)
      BY <1>1
    <2>8. {seat'[q] : q \in Joined'} = 0..(Cardinality(Joined') - 1)
      BY <2>3, <2>6, <2>7 DEF SeatsInOrder
    <2>9. Cardinality(Joined') <= RoomLimit
      BY <1>1, <1>3, <2>3, TabletopAssumption
    <2> QED
      BY <2>8, <2>9 DEF SeatsInOrder
  <1> QED
    BY <1>2, <1>3 DEF join_room, Seats, Refuses

(* A swap gives each of two players the seat of the other.                    *)
LEMMA SwapKeepsSeats ==
    ASSUME TabletopTypeOK, SeatsInOrder, NEW p \in Players, NEW q \in Players,
           swap_participants(p, q)
    PROVE  SeatsInOrder'
PROOF
  <1>1. p \in Joined /\ q \in Joined /\ seat[p] # NoSeat /\ seat[q] # NoSeat
    BY DEF swap_participants, Joined
  <1>2. seat' = [r \in Players |-> IF r = p THEN seat[q] ELSE IF r = q THEN seat[p] ELSE seat[r]]
    BY DEF swap_participants, TabletopTypeOK
  <1>3. Joined' = Joined
    BY <1>1, <1>2 DEF Joined
  <1>4. \A v : (\E r \in Joined : seat'[r] = v) <=> (\E r \in Joined : seat[r] = v)
    <2>1. \A r \in Joined : \E t \in Joined : seat'[r] = seat[t]
      BY <1>1, <1>2 DEF Joined
    <2>2. \A r \in Joined : \E t \in Joined : seat[r] = seat'[t]
      BY <1>1, <1>2 DEF Joined
    <2> QED
      BY <2>1, <2>2
  <1>5. {seat'[r] : r \in Joined'} = {seat[r] : r \in Joined}
    BY <1>3, <1>4
  <1> QED
    BY <1>3, <1>5 DEF SeatsInOrder

(* Every step keeps the seats in order.                                       *)
LEMMA NextKeepsOrder ==
    TabletopTypeOK /\ SeatsInOrder /\ [TabletopNext]_tabletopVars => SeatsInOrder'
PROOF
  <1> SUFFICES ASSUME TabletopTypeOK, SeatsInOrder, [TabletopNext]_tabletopVars
               PROVE  SeatsInOrder'
    OBVIOUS
  <1>1. ASSUME NEW p \in Players, join_room(p) PROVE SeatsInOrder'
    BY <1>1, JoinTakesNext
  <1>2. ASSUME NEW p \in Players, NEW q \in Players, swap_participants(p, q)
        PROVE  SeatsInOrder'
    BY <1>2, SwapKeepsSeats
  <1>3. CASE UNCHANGED seat
    BY <1>3, SameSeats
  <1> QED
    BY <1>1, <1>2, <1>3
    DEF TabletopNext, tabletopVars, LoadsRoom, set_participant_role, start_room,
        end_game, close_room

(* A room and its requests keep their types, for any players and any limit.   *)
THEOREM RoomTypes == TabletopSpec => []TabletopTypeOK
PROOF
  <1>1. TabletopInit => TabletopTypeOK
    BY InitInOrder
  <1> QED
    BY <1>1, NextKeepsTypes, PTL DEF TabletopSpec

(* Whatever joins interleave with swaps, starts and the closing of the room,  *)
(* its seats are 0, 1, ... with no gap and within the limit.                  *)
THEOREM SeatsStayInOrder == TabletopSpec => []SeatsInOrder
PROOF
  <1> DEFINE IInv == TabletopTypeOK /\ SeatsInOrder
  <1>1. TabletopInit => IInv
    BY InitInOrder
  <1>2. IInv /\ [TabletopNext]_tabletopVars => IInv'
    BY NextKeepsTypes, NextKeepsOrder
  <1>3. IInv => SeatsInOrder
    OBVIOUS
  <1> QED
    BY <1>1, <1>2, <1>3, PTL DEF TabletopSpec

(***************************************************************************)
(* The order of the cards of a space, for any cards, tabs, step and gap of *)
(* the assumption: its types, and that a drop lands                        *)
(* strictly between its neighbours.  When they are far enough apart, the   *)
(* midpoint does; when they are not, the fresh numbers of two cards are a  *)
(* step apart, since a card that is older than another has fewer before it.*)
(***************************************************************************)
(* The midpoint of two numbers two units apart is neither of them.           *)
LEMMA MidpointLies ==
    ASSUME NEW x \in Int, NEW y \in Int, y - x >= 2
    PROVE  /\ (x + y) \div 2 \in Int /\ x < (x + y) \div 2 /\ (x + y) \div 2 < y
           /\ (y + x) \div 2 \in Int /\ x < (y + x) \div 2 /\ (y + x) \div 2 < y
PROOF
  BY SMT

(* Different multiples of a step are a step apart.                            *)
LEMMA MultiplesLieApart ==
    ASSUME NEW i \in Nat, NEW j \in Nat, i < j, NEW k \in Nat
    PROVE  /\ i * k \in Nat /\ j * k \in Nat
           /\ j * k - i * k >= k
PROOF
  <1> DEFINE n == j - i
  <1>1. n \in Nat /\ n >= 1 /\ j = i + n
    OBVIOUS
  <1> HIDE DEF n
  <1>2. (i + n) * k = i * k + n * k
    BY <1>1, SMT
  <1>3. n * k >= k
    BY <1>1, SMT
  <1>4. i * k \in Nat /\ j * k \in Nat /\ n * k \in Nat
    BY <1>1, SMT
  <1> QED
    BY <1>1, <1>2, <1>3, <1>4

(* _renumber gives an older card of the space the lower number, and any two   *)
(* of them numbers a step apart.                                              *)
LEMMA RenumberSpreads ==
    ASSUME VaultOrderTypeOK, NEW c \in grid, NEW d \in grid, c < d
    PROVE  /\ Index(c) \in Nat /\ Index(d) \in Nat /\ Index(c) < Index(d)
PROOF
  <1> DEFINE Older(e) == {f \in grid : f < e}
  <1>1. IsFiniteSet(grid) /\ grid \subseteq Nat
    BY VaultOrderAssumption, FS_Subset DEF VaultOrderTypeOK
  <1>2. Older(d) \in SUBSET grid /\ Older(c) \in SUBSET Older(d)
    <2>1. \A f \in grid : f < c => f < d
      BY <1>1
    <2> QED
      BY <2>1
  <1>3. IsFiniteSet(Older(d)) /\ IsFiniteSet(Older(c))
    BY <1>1, <1>2, FS_Subset
  <1>4. Cardinality(Older(c)) <= Cardinality(Older(d))
    BY <1>2, <1>3, FS_Subset
  <1>5. Older(c) # Older(d)
    <2>1. ~(c < c)
      BY <1>1
    <2>2. c \in Older(d) /\ c \notin Older(c)
      BY <2>1
    <2> QED
      BY <2>2
  <1>6. Cardinality(Older(c)) # Cardinality(Older(d))
    BY <1>2, <1>3, <1>5, FS_Subset
  <1>7. Cardinality(Older(c)) \in Nat /\ Cardinality(Older(d)) \in Nat
    BY <1>3, FS_CardinalityType
  <1> QED
    BY <1>4, <1>6, <1>7 DEF Index

(* What a request renumbers and what it places are numbers.                   *)
LEMMA RenumberTypes ==
    ASSUME VaultOrderTypeOK
    PROVE  _renumber \in [Cards -> Int]
PROOF
  <1>1. IsFiniteSet(grid)
    BY VaultOrderAssumption, FS_Subset DEF VaultOrderTypeOK
  <1>2. \A c : {f \in grid : f < c} \in SUBSET grid
    OBVIOUS
  <1>3. \A c : Cardinality({f \in grid : f < c}) \in Nat
    BY <1>1, <1>2, FS_Subset, FS_CardinalityType
  <1>4. \A c \in Cards : Index(c) * POSITION_STEP \in Int
    <2> SUFFICES ASSUME NEW c \in Cards PROVE Index(c) * POSITION_STEP \in Int
      OBVIOUS
    <2>1. Index(c) \in Nat
      BY <1>3 DEF Index
    <2> QED
      BY <2>1, VaultOrderAssumption, SMT
  <1> QED
    BY <1>4 DEF _renumber, VaultOrderTypeOK

(* A midpoint is a number.                                                    *)
LEMMA MidpointTypes ==
    ASSUME NEW a, NEW b, NEW low \in Int, NEW high \in Int
    PROVE  _midpoint(a, b, low, high) \in Int
PROOF
  <1>1. (low + high) \div 2 \in Int /\ low + POSITION_STEP \in Int /\ high - POSITION_STEP \in Int
    BY VaultOrderAssumption, SMT
  <1> QED
    BY <1>1 DEF _midpoint

(* A space begins with its types.                                             *)
LEMMA InitOrdered == VaultOrderInit => VaultOrderTypeOK
PROOF
  <1> SUFFICES ASSUME VaultOrderInit PROVE VaultOrderTypeOK
    OBVIOUS
  <1>1. IsFiniteSet(AtStart)
    BY VaultOrderAssumption, FS_Subset
  <1>2. \A c : {f \in AtStart : f < c} \in SUBSET AtStart
    OBVIOUS
  <1>3. \A c : Cardinality({f \in AtStart : f < c}) \in Nat
    BY <1>1, <1>2, FS_Subset, FS_CardinalityType
  <1>4. \A c \in Cards : Cardinality({f \in AtStart : f < c}) * POSITION_STEP \in Int
    <2> SUFFICES ASSUME NEW c \in Cards
                 PROVE Cardinality({f \in AtStart : f < c}) * POSITION_STEP \in Int
      OBVIOUS
    <2> DEFINE i == Cardinality({f \in AtStart : f < c})
    <2>1. i \in Nat
      BY <1>3
    <2> HIDE DEF i
    <2>2. i * POSITION_STEP \in Int
      BY <2>1, VaultOrderAssumption, SMT
    <2> QED
      BY <2>2 DEF i
  <1>5. position \in [Cards -> Int]
    BY <1>4 DEF VaultOrderInit
  <1>6. drop \in [Tabs -> Drops] /\ \A t \in Tabs : drop[t].at = "idle"
    BY DEF VaultOrderInit, NoDrop, Drops
  <1> QED
    BY <1>5, <1>6, VaultOrderAssumption DEF VaultOrderInit, VaultOrderTypeOK

(* Every step keeps the types.                                                *)
LEMMA NextKeepsOrderTypes ==
    VaultOrderTypeOK /\ [VaultOrderNext]_orderVars => VaultOrderTypeOK'
PROOF
  <1> SUFFICES ASSUME VaultOrderTypeOK, [VaultOrderNext]_orderVars PROVE VaultOrderTypeOK'
    OBVIOUS
  <1>1. ASSUME NEW t \in Tabs, NEW c \in Cards, NEW a \in Cards \cup {NoCard},
               NEW b \in Cards \cup {NoCard}, _neighbour_positions(t, c, a, b)
        PROVE VaultOrderTypeOK'
    <2>1. [at |-> "read", card |-> c, before |-> a, after |-> b,
           low |-> IF a = NoCard THEN 0 ELSE position[a],
           high |-> IF b = NoCard THEN 0 ELSE position[b]] \in Drops
      BY DEF Drops, VaultOrderTypeOK
    <2> QED
      BY <1>1, <2>1 DEF _neighbour_positions, VaultOrderTypeOK, Drops
  <1>2. ASSUME NEW t \in Tabs, NEW c \in Cards, ReadsFront(t, c) PROVE VaultOrderTypeOK'
    <2> DEFINE New(low) == [at |-> "new", card |-> c, before |-> NoCard, after |-> NoCard,
                            low |-> low, high |-> 0]
    <2>1. PICK low \in {position[e] : e \in grid} \cup {0} :
             drop' = [drop EXCEPT ![t] = New(low)]
      BY <1>2 DEF ReadsFront
    <2>2. low \in Int
      BY DEF VaultOrderTypeOK
    <2>3. New(low) \in Drops /\ New(low).at = "new" /\ New(low).card = c
      BY <2>2 DEF Drops
    <2>4. drop' \in [Tabs -> Drops] /\ drop'[t] = New(low)
          /\ \A u \in Tabs \ {t} : drop'[u] = drop[u]
      BY <2>1, <2>3 DEF VaultOrderTypeOK
    <2>5. grid' = grid /\ position' = position /\ drops' \in Nat
      BY <1>2 DEF ReadsFront, VaultOrderTypeOK
    <2> HIDE DEF New
    <2> QED
      BY <2>3, <2>4, <2>5 DEF VaultOrderTypeOK
  <1>3. ASSUME NEW t \in Tabs, reorder_card(t) PROVE VaultOrderTypeOK'
    <2> DEFINE d == drop[t]
    <2>1. d \in Drops /\ d.card \in grid /\ grid \subseteq Cards
      BY <1>3 DEF reorder_card, VaultOrderTypeOK
    <2>2. \A low, high \in Int : _midpoint(d.before, d.after, low, high) \in Int
      BY MidpointTypes
    <2>3. position' \in [Cards -> Int]
      <3>1. _midpoint(d.before, d.after, d.low, d.high) \in Int
        BY <2>1, <2>2 DEF Drops
      <3>2. /\ (IF d.before = NoCard THEN 0 ELSE _renumber[d.before]) \in Int
            /\ (IF d.after = NoCard THEN 0 ELSE _renumber[d.after]) \in Int
        BY <2>1, RenumberTypes DEF Drops
      <3>3. PlacedAmong(_renumber, d) \in [Cards -> Int]
        BY <2>1, <2>2, <3>2, RenumberTypes DEF PlacedAmong
      <3> QED
        BY <1>3, <2>1, <3>1, <3>3 DEF reorder_card, VaultOrderTypeOK
    <2>4. NoDrop \in Drops
      BY DEF NoDrop, Drops
    <2>5. drop' \in [Tabs -> Drops] /\ drop'[t].at = "idle"
          /\ \A u \in Tabs \ {t} : drop'[u] = drop[u]
      BY <1>3, <2>4 DEF reorder_card, VaultOrderTypeOK, NoDrop
    <2>6. grid' = grid /\ drops' = drops
      BY <1>3 DEF reorder_card
    <2> QED
      BY <2>3, <2>5, <2>6 DEF VaultOrderTypeOK
  <1>4. ASSUME NEW t \in Tabs, place_new_card(t) PROVE VaultOrderTypeOK'
    <2>1. drop[t] \in Drops /\ drop[t].card \in Cards
      BY <1>4 DEF place_new_card, VaultOrderTypeOK
    <2>2. drop[t].low - POSITION_STEP \in Int
      BY <2>1, VaultOrderAssumption DEF Drops
    <2>3. position' \in [Cards -> Int] /\ grid' = grid \cup {drop[t].card}
      BY <1>4, <2>1, <2>2 DEF place_new_card, VaultOrderTypeOK
    <2>4. NoDrop \in Drops
      BY DEF NoDrop, Drops
    <2>5. drop' \in [Tabs -> Drops] /\ drop'[t].at = "idle"
          /\ \A u \in Tabs \ {t} : drop'[u] = drop[u]
      BY <1>4, <2>4 DEF place_new_card, VaultOrderTypeOK, NoDrop
    <2> QED
      BY <1>4, <2>1, <2>3, <2>5 DEF place_new_card, VaultOrderTypeOK
  <1>5. CASE UNCHANGED orderVars
    BY <1>5 DEF orderVars, VaultOrderTypeOK
  <1> QED
    BY <1>1, <1>2, <1>3, <1>4, <1>5 DEF VaultOrderNext

(* A committed drop is between its neighbours, if they were where it read     *)
(* them: by the numbers it read, or by the fresh ones.                        *)
LEMMA ReorderLands ==
    ASSUME VaultOrderTypeOK, NEW t \in Tabs, reorder_card(t), Unmoved(drop[t])
    PROVE  Between(position', drop[t])
PROOF
  <1> DEFINE d == drop[t]
  <1>1. /\ d \in Drops /\ d.card \in grid /\ d.card # d.before /\ d.card # d.after
        /\ grid \subseteq Cards /\ position \in [Cards -> Int]
        /\ d.before \in grid \cup {NoCard} /\ d.after \in grid \cup {NoCard}
        /\ d.before = d.after => d.before = NoCard
    BY DEF reorder_card, VaultOrderTypeOK
  <1>2. d.low \in Int /\ d.high \in Int
    BY <1>1 DEF Drops
  <1>3. CASE ~Squeezed(d)
    <2>1. position' = [position EXCEPT ![d.card] = _midpoint(d.before, d.after, d.low, d.high)]
      BY <1>3 DEF reorder_card
    <2>2. /\ position'[d.card] = _midpoint(d.before, d.after, d.low, d.high)
          /\ d.before # NoCard => position'[d.before] = d.low
          /\ d.after # NoCard => position'[d.after] = d.high
      BY <1>1, <2>1 DEF Unmoved
    <2>3. CASE d.before # NoCard /\ d.after # NoCard
      <3>1. d.low - d.high >= 2 \/ d.high - d.low >= 2
        BY <1>2, <1>3, <2>3, VaultOrderAssumption DEF Squeezed
      <3>2. position'[d.card] = (d.low + d.high) \div 2
        BY <2>2, <2>3 DEF _midpoint
      <3> QED
        BY <1>2, <2>2, <2>3, <3>1, <3>2, MidpointLies DEF Between
    <2>4. CASE d.before = NoCard \/ d.after = NoCard
      BY <1>2, <2>2, <2>4, VaultOrderAssumption DEF Between, _midpoint
    <2> QED
      BY <2>3, <2>4
  <1>4. CASE Squeezed(d)
    <2>1. /\ d.before \in grid /\ d.after \in grid /\ d.before # d.after
          /\ d.before # NoCard /\ d.after # NoCard
      BY <1>1, <1>4 DEF Squeezed
    <2> DEFINE low == _renumber[d.before]
               high == _renumber[d.after]
    <2>2. position' = PlacedAmong(_renumber, d)
      BY <1>4 DEF reorder_card
    <2>3. /\ position'[d.card] = (low + high) \div 2
          /\ position'[d.before] = low /\ position'[d.after] = high
      BY <1>1, <2>1, <2>2, RenumberTypes DEF PlacedAmong, _midpoint
    <2>4. /\ low \in Int /\ high \in Int
          /\ low = Index(d.before) * POSITION_STEP /\ high = Index(d.after) * POSITION_STEP
      BY <1>1, <2>1, RenumberTypes DEF _renumber
    <2>5. d.before < d.after \/ d.after < d.before
      <3>1. d.before \in Nat /\ d.after \in Nat
        BY <1>1, <2>1, VaultOrderAssumption
      <3>2. \A i, j \in Nat : i # j => i < j \/ j < i
        BY SMT
      <3> QED
        BY <2>1, <3>1, <3>2
    <2>6. CASE d.before < d.after
      <3>1. Index(d.before) \in Nat /\ Index(d.after) \in Nat /\ Index(d.before) < Index(d.after)
        BY <2>1, <2>6, RenumberSpreads
      <3>2. high - low >= POSITION_STEP
        BY <2>4, <3>1, MultiplesLieApart, VaultOrderAssumption
      <3>3. high - low >= 2
        BY <2>4, <3>2, VaultOrderAssumption
      <3>4. low < (low + high) \div 2 /\ (low + high) \div 2 < high
        BY <2>4, <3>3, MidpointLies
      <3> QED
        BY <2>1, <2>3, <3>4 DEF Between
    <2>7. CASE d.after < d.before
      <3>1. Index(d.before) \in Nat /\ Index(d.after) \in Nat /\ Index(d.after) < Index(d.before)
        BY <2>1, <2>7, RenumberSpreads
      <3>2. low - high >= POSITION_STEP
        BY <2>4, <3>1, MultiplesLieApart, VaultOrderAssumption
      <3>3. low - high >= 2
        BY <2>4, <3>2, VaultOrderAssumption
      <3>4. high < (low + high) \div 2 /\ (low + high) \div 2 < low
        BY <2>4, <3>3, MidpointLies
      <3> QED
        BY <2>1, <2>3, <3>4 DEF Between
    <2> QED
      BY <2>5, <2>6, <2>7
  <1> QED
    BY <1>3, <1>4

(* Only reorder_card takes a drop that has read its neighbours to its end.    *)
LEMMA NextLands ==
    VaultOrderTypeOK /\ [VaultOrderNext]_orderVars => \A t \in Tabs : DropsLand(t)
PROOF
  <1> SUFFICES ASSUME VaultOrderTypeOK, [VaultOrderNext]_orderVars, NEW t \in Tabs,
                      drop[t].at = "read", drop'[t].at = "idle", Unmoved(drop[t])
               PROVE  Between(position', drop[t])
    BY DEF DropsLand
  <1>1. drop' # drop
    OBVIOUS
  <1>2. \A u \in Tabs, c \in Cards, a, b \in Cards \cup {NoCard} :
           ~_neighbour_positions(u, c, a, b)
    BY DEF _neighbour_positions, VaultOrderTypeOK
  <1>3. \A u \in Tabs, c \in Cards : ~ReadsFront(u, c)
    BY DEF ReadsFront, VaultOrderTypeOK
  <1>4. \A u \in Tabs : ~place_new_card(u)
    BY DEF place_new_card, VaultOrderTypeOK
  <1>5. PICK u \in Tabs : reorder_card(u)
    BY <1>1, <1>2, <1>3, <1>4 DEF VaultOrderNext, orderVars
  <1>6. u = t
    BY <1>5 DEF reorder_card, VaultOrderTypeOK
  <1> QED
    BY <1>5, <1>6, ReorderLands

(* The order keeps its types, for any cards, tabs and positions.              *)
THEOREM OrderTypes == VaultOrderSpec => []VaultOrderTypeOK
PROOF
  <1> QED
    BY InitOrdered, NextKeepsOrderTypes, PTL DEF VaultOrderSpec

(* A card that is dropped between two neighbours lands strictly between them, *)
(* for any step and gap of at least two units and any number of cards.        *)
THEOREM DropsLandBetween == VaultOrderSpec => DropLands
PROOF
  <1>1. VaultOrderTypeOK /\ [VaultOrderNext]_orderVars
           => [\A t \in Tabs : DropsLand(t)]_orderVars
    BY NextLands
  <1> QED
    BY <1>1, OrderTypes, PTL DEF VaultOrderSpec, DropLands

(***************************************************************************)
(* The hands dealt to a room.                                              *)
(***************************************************************************)
\* A hand of mafia, or the base of a hand of the clocktower, has a role for each.
LEMMA BaseFits ==
    ASSUME NEW n \in 5..15
    PROVE  /\ \A i \in 1..4 : Mafia[n][i] \in 0..MafiaPool[i]
           /\ Mafia[n][1] + Mafia[n][2] + Mafia[n][3] + Mafia[n][4] = n
           /\ Clocktower[n][1] \in 3..9 /\ Clocktower[n][2] \in 0..2
           /\ Clocktower[n][3] \in 1..3 /\ Clocktower[n][4] = 1
           /\ Clocktower[n][1] + Clocktower[n][2] + Clocktower[n][3] + Clocktower[n][4] = n
           /\ n <= 6 => Clocktower[n][1] = 3 /\ Clocktower[n][2] <= 1 /\ Clocktower[n][3] = 1
  BY SMTT(30) DEF Mafia, Clocktower, MafiaPool

\* A script has so many roles that a base hand fits it.
LEMMA ScriptsHave ==
    ASSUME NEW s \in DOMAIN Scripts
    PROVE  /\ Scripts[s].pool \in {<<13, 4, 4, 1>>, <<13, 4, 4, 4>>, <<6, 2, 2, 1>>}
           /\ s \notin TeensyScripts => Scripts[s].pool \in {<<13, 4, 4, 1>>, <<13, 4, 4, 4>>}
           /\ \/ Scripts[s].bends \subseteq {"baron"} \/ Scripts[s].bends \subseteq {"godfather"}
              \/ Scripts[s].bends \subseteq {"fang_gu", "vigormortis"}
  <1>1. s \in {"trouble_brewing", "bad_moon_rising", "sects_and_violets", "no_greater_joy",
               "over_the_river", "laissez_un_faire"}
    BY DEF Scripts
  <1> QED BY <1>1 DEF Scripts, TeensyScripts, Standard, Teensy

\* A team too many of a hand taken from another keeps its number.
LEMMA BentFits ==
    ASSUME NEW s \in DOMAIN Scripts, NEW n \in 5..15, s \in TeensyScripts => n <= 6,
           NEW delta \in -2..2, NEW o \in Int, o = Clamp(Clocktower[n][2] + delta, Scripts[s].pool[2]),
           hand' = [players |-> n, pool |-> Scripts[s].pool,
                    roles |-> <<Clocktower[n][1] - (o - Clocktower[n][2]), o,
                                Clocktower[n][3], Clocktower[n][4]>>]
    PROVE  HandFits'
  <1>1. /\ Clocktower[n][1] \in 3..9 /\ Clocktower[n][2] \in 0..2
        /\ Clocktower[n][3] \in 1..3 /\ Clocktower[n][4] = 1
        /\ Clocktower[n][1] + Clocktower[n][2] + Clocktower[n][3] + Clocktower[n][4] = n
        /\ n <= 6 => Clocktower[n][1] = 3 /\ Clocktower[n][2] <= 1 /\ Clocktower[n][3] = 1
    BY BaseFits
  <1> DEFINE p == Scripts[s].pool
             b == Clocktower[n]
  <1>2. /\ p[1] \in Nat /\ p[2] \in Nat /\ p[3] \in Nat /\ p[4] \in Nat /\ p[4] >= 1
        /\ \/ p[1] = 13 /\ p[2] = 4 /\ p[3] = 4
           \/ p[1] = 6 /\ p[2] = 2 /\ p[3] = 2 /\ n <= 6
    BY ScriptsHave
  <1>3. hand'.players = n /\ hand'.pool = p
        /\ hand'.roles = <<b[1] - (o - b[2]), o, b[3], b[4]>>
    OBVIOUS
  <1> HIDE DEF p, b
  <1>4. /\ b[1] \in 3..9 /\ b[2] \in 0..2 /\ b[3] \in 1..3 /\ b[4] = 1
        /\ b[1] + b[2] + b[3] + b[4] = n
        /\ n <= 6 => b[1] = 3 /\ b[2] <= 1 /\ b[3] = 1
        /\ o = Clamp(b[2] + delta, p[2])
    BY <1>1 DEF b, p
  <1>5. o \in 0..p[2] /\ o - b[2] \in -2..2
    <2>1. b[2] \in 0..p[2]
      BY <1>2, <1>4
    <2>2. b[2] \in Int /\ p[2] \in Nat /\ delta \in Int
      BY <1>2, <1>4
    <2> DEFINE x == b[2]
               y == p[2]
    <2> HIDE DEF x, y
    <2>3. x \in 0..y /\ y \in Nat /\ o = IF x + delta < 0 THEN 0 ELSE IF x + delta > y THEN y ELSE x + delta
      BY <1>4, <2>1, <2>2 DEF Clamp, x, y
    <2>4. o \in 0..y /\ o - x \in -2..2
      BY <2>3
    <2> QED BY <2>4 DEF x, y
  <1>6. b[1] - (o - b[2]) \in 0..p[1] /\ b[3] \in 0..p[3] /\ b[4] \in 0..p[4]
        /\ (b[1] - (o - b[2])) + o + b[3] + b[4] = n
    <2> DEFINE x1 == b[1]
               x2 == b[2]
               x3 == b[3]
               x4 == b[4]
    <2>1. x1 \in 3..9 /\ x2 \in 0..2 /\ x3 \in 1..3 /\ x4 = 1 /\ x1 + x2 + x3 + x4 = n
          /\ o \in Int /\ o - x2 \in -2..2 /\ (n <= 6 => x1 = 3 /\ x3 = 1)
      BY <1>4, <1>5
    <2>2. x1 - (o - x2) \in 1..11 /\ (n <= 6 => x1 - (o - x2) <= 5)
          /\ (x1 - (o - x2)) + o + x3 + x4 = n
      <3> HIDE DEF x1, x2, x3, x4
      <3> QED BY <2>1
    <2> QED BY <1>2, <2>1, <2>2
  <1>7. /\ hand'.roles[1] = b[1] - (o - b[2]) /\ hand'.roles[2] = o
        /\ hand'.roles[3] = b[3] /\ hand'.roles[4] = b[4]
    BY <1>3
  <1>8. \A team \in 1..4 : hand'.roles[team] \in 0..hand'.pool[team]
    <2>1. \A team \in 1..4 : team = 1 \/ team = 2 \/ team = 3 \/ team = 4
      OBVIOUS
    <2> QED BY <1>3, <1>5, <1>6, <1>7, <2>1
  <1> QED BY <1>3, <1>6, <1>7, <1>8 DEF HandFits

\* "So a full room can start": whatever roles are drawn, a hand has a role for each
\* player, and the script has the roles it asks for, from five to fifteen players.
THEOREM HandsFit == DealSpec => []HandFits
  <1>1. DealInit => HandFits
    <2>1. \A team \in 1..4 : team = 1 \/ team = 2 \/ team = 3 \/ team = 4
      OBVIOUS
    <2>2. ASSUME DealInit PROVE HandFits
      <3>1. hand.players = 0 /\ hand.roles = <<0, 0, 0, 0>> /\ hand.pool = <<0, 0, 0, 0>>
        BY <2>2 DEF DealInit, NoHand
      <3> QED BY <2>1, <3>1 DEF HandFits
    <2> QED BY <2>2
  <1>2. HandFits /\ [DealNext]_hand => HandFits'
    <2> SUFFICES ASSUME HandFits, [DealNext]_hand PROVE HandFits'
      OBVIOUS
    <2>1. ASSUME NEW n \in 5..15, deal_mafia(n) PROVE HandFits'
      <3>1. /\ hand'.players = n /\ hand'.pool = MafiaPool /\ hand'.roles = Mafia[n]
        BY <2>1 DEF deal_mafia
      <3> QED BY SMTT(30), <3>1, BaseFits DEF HandFits
    <2>2. ASSUME NEW s \in DOMAIN Scripts, NEW n \in 5..15, s \in TeensyScripts => n <= 6,
                 assign_roles(s, n)
          PROVE  HandFits'
      <3> DEFINE Adds(drawn, role, k) == IF role \in drawn THEN k ELSE 0
                 bend(drawn) == Adds(drawn, "baron", 2) + Adds(drawn, "fang_gu", 1)
                                - Adds(drawn, "vigormortis", 1)
                                + Adds(drawn, "godfather", IF Clocktower[n][2] = 0 THEN 1 ELSE -1)
                 left(drawn) == Clamp(Clocktower[n][2] + bend(drawn), Scripts[s].pool[2])
      <3>1. PICK drawn \in Drawn(s, n) :
               hand' = [players |-> n, pool |-> Scripts[s].pool,
                        roles |-> <<Clocktower[n][1] - (left(drawn) - Clocktower[n][2]),
                                    left(drawn), Clocktower[n][3], Clocktower[n][4]>>]
        BY <2>2 DEF assign_roles
      <3>2. drawn \subseteq Scripts[s].bends
        BY <3>1 DEF Drawn
      <3>3. bend(drawn) \in -2..2
        <4>1. \/ drawn \subseteq {"baron"} \/ drawn \subseteq {"godfather"}
              \/ drawn \subseteq {"fang_gu", "vigormortis"}
          BY <3>2, ScriptsHave, Zenon
        <4> QED BY <4>1
      <3>4. left(drawn) \in Int
        <4>1. Scripts[s].pool[2] \in Int /\ Clocktower[n][2] \in Int
          BY ScriptsHave, BaseFits
        <4> QED BY <3>3, <4>1 DEF Clamp
      <3> HIDE DEF bend
      <3> QED BY ZenonT(60), <2>2, <3>1, <3>3, <3>4, BentFits
    <2>3. CASE UNCHANGED hand
      BY <2>3 DEF HandFits
    <2> QED BY <2>1, <2>2, <2>3 DEF DealNext
  <1> QED BY <1>1, <1>2, PTL DEF DealSpec

(***************************************************************************)
(* The unlock throttle.  A request holds the key it is about, and a guess  *)
(* that has passed the gate counts on each key until it is counted there:  *)
(* when it passed, the key had free attempts left.                         *)
(***************************************************************************)
\* A request is about the key of the vault, or of its own host.
CallersKeys ==
    \A c \in Callers : /\ caller[c].key \in {Vault, HostOf[c]}
                       /\ caller[c].at \in {"idle", "kdf"} => caller[c].key = Vault
ThrottleInv == TypeOK /\ CallersKeys

\* A power of two is a positive number: as many as a set has subsets.
LEMMA PowersOfTwo ==
    ASSUME NEW n \in Nat
    PROVE  2 ^ n \in Nat \ {0}
  <1>1. IsFiniteSet(1..n) /\ Cardinality(1..n) = n
    BY FS_Interval
  <1>2. IsFiniteSet(SUBSET (1..n)) /\ Cardinality(SUBSET (1..n)) = 2 ^ n
    BY <1>1, FS_SUBSET
  <1>3. Cardinality(SUBSET (1..n)) \in Nat /\ SUBSET (1..n) # {}
    BY <1>2, FS_CardinalityType
  <1>4. Cardinality(SUBSET (1..n)) # 0
    BY <1>2, <1>3, FS_EmptySet
  <1> QED BY <1>2, <1>3, <1>4

\* Nobody waits for a key that has free attempts left, and only for such.
LEMMA FreeAttempts ==
    ASSUME NEW failures \in Nat, NEW free \in Nat, NEW cap \in Nat \ {0}
    PROVE  _backoff(failures, free, cap) \in Nat
            /\ (_backoff(failures, free, cap) = 0 <=> failures <= free)
  <1>1. CASE failures <= free
    BY <1>1 DEF _backoff
  <1>2. CASE ~(failures <= free)
    <2>1. failures - free - 1 \in Nat
      BY <1>2
    <2>2. 2 ^ (failures - free - 1) \in Nat \ {0}
      BY <2>1, PowersOfTwo
    <2> DEFINE p == 2 ^ (failures - free - 1)
    <2>3. p \in Nat \ {0} /\ _backoff(failures, free, cap) = Least(cap, p)
      BY <1>2, <2>2 DEF _backoff
    <2> HIDE DEF p
    <2> QED BY <1>2, <2>3 DEF Least
  <1> QED BY <1>1, <1>2

\* The keys of a request.
LEMMA KeysAre ==
    /\ Vault \in Keys
    /\ \A c \in Callers : HostOf[c] \in Hosts /\ HostOf[c] \in Keys /\ HostOf[c] # Vault
    /\ \A k \in Keys : k = Vault \/ k \in Hosts
  BY HostsAssumption DEF Keys

\* The next key of a request is its host's, or none.
LEMMA NextKeyIs ==
    ASSUME ThrottleInv, NEW c \in Callers, NEW at \in {"count", "clear"}
    PROVE  \/ caller[c].key = Vault /\ NextKey(c, at) = [at |-> at, key |-> HostOf[c]]
           \/ caller[c].key = HostOf[c] /\ caller[c].key # Vault /\ NextKey(c, at) = Idle
  BY KeysAre DEF ThrottleInv, CallersKeys, NextKey

\* A step of one request keeps the types, if where it stands has them.
LEMMA RequestGoesOn ==
    ASSUME ThrottleInv, NEW c \in Callers, NEW r, caller' = [caller EXCEPT ![c] = r],
           r \in [at : {"idle", "kdf", "count", "expire", "clear"}, key : Keys],
           r.key \in {Vault, HostOf[c]}, r.at \in {"idle", "kdf"} => r.key = Vault,
           count' \in [Keys -> Nat], ttl' \in [Keys -> 0..FailTTL]
    PROVE  ThrottleInv' /\ caller'[c] = r /\ \A d \in Callers \ {c} : caller'[d] = caller[d]
  <1>1. caller'[c] = r /\ \A d \in Callers \ {c} : caller'[d] = caller[d]
    BY DEF ThrottleInv, TypeOK
  <1>2. TypeOK'
    BY DEF ThrottleInv, TypeOK
  <1>3. CallersKeys'
    BY <1>1 DEF ThrottleInv, CallersKeys
  <1> QED BY <1>1, <1>2, <1>3 DEF ThrottleInv

\* A request that stands at r, of host h, is a guess that k has not counted yet.
Counts(r, h, k) == \/ r.at = "kdf" /\ k \in {Vault, h}
                   \/ r.at = "count" /\ r.key = k
                   \/ r.at \in {"count", "expire"} /\ r.key = Vault /\ k = h
Free(k) == IF k = Vault THEN VaultFree ELSE HostFree
Owners(k) == IF k = Vault THEN Callers ELSE {c \in Callers : HostOf[c] = k}

Bounded(n, G, k) == n + Cardinality(G) <= Free(k) + Cardinality(Owners(k))
GuessesInv == ThrottleInv /\ \A k \in Keys : Bounded(count[k], Guessing(k), k)

\* What a step may do to a key: count a guess, forget some, or let one in that is
\* still free.
CountsOn(k) == \/ count'[k] <= count[k] /\ Guessing(k)' \subseteq Guessing(k)
               \/ count'[k] = count[k] + 1
                  /\ \E c \in Guessing(k) : Guessing(k)' \subseteq Guessing(k) \ {c}
               \/ count'[k] <= Free(k)

\* The guesses at a key are those of its callers.
LEMMA GuessesAre ==
    ASSUME ThrottleInv, NEW k \in Keys
    PROVE  /\ Guessing(k) = {c \in Callers : Counts(caller[c], HostOf[c], k)}
           /\ Guessing(k) \subseteq Owners(k)
           /\ IsFiniteSet(Owners(k)) /\ Cardinality(Owners(k)) \in Nat
  <1>1. Guessing(k) = {c \in Callers : Counts(caller[c], HostOf[c], k)}
    BY DEF Guessing, Counts
  <1>2. ASSUME NEW c \in Callers, Counts(caller[c], HostOf[c], k) PROVE c \in Owners(k)
    BY <1>2, KeysAre DEF Counts, Owners, ThrottleInv, CallersKeys
  <1>3. Owners(k) \subseteq Callers
    BY DEF Owners
  <1>4. IsFiniteSet(Owners(k)) /\ Cardinality(Owners(k)) \in Nat
    BY <1>3, CallersAssumption, FS_Subset, FS_CardinalityType
  <1> QED BY <1>1, <1>2, <1>4

\* Counting one guess less for one counted keeps a key within its bound.
LEMMA CountingKeeps ==
    ASSUME ThrottleInv, ThrottleInv', NEW k \in Keys, Bounded(count[k], Guessing(k), k), CountsOn(k)
    PROVE  Bounded(count'[k], Guessing(k)', k)
  <1> DEFINE G == Guessing(k)
             H == Guessing(k)'
             O == Owners(k)
  <1>1. G \subseteq O /\ IsFiniteSet(O) /\ Cardinality(O) \in Nat
    BY GuessesAre
  <1>2. H \subseteq O
    <2>1. H = {c \in Callers : Counts(caller'[c], HostOf[c], k)}
      BY DEF Guessing, Counts
    <2>2. ASSUME NEW c \in Callers, Counts(caller'[c], HostOf[c], k) PROVE c \in O
      BY <2>2, KeysAre DEF Counts, Owners, ThrottleInv, CallersKeys
    <2> QED BY <2>1, <2>2
  <1>3. count[k] \in Nat /\ count'[k] \in Nat /\ Free(k) \in Nat
    BY LimitsAssumption DEF ThrottleInv, TypeOK, Free
  <1>4. IsFiniteSet(G) /\ IsFiniteSet(H) /\ Cardinality(G) \in Nat /\ Cardinality(H) \in Nat
    BY <1>1, <1>2, FS_Subset, FS_CardinalityType
  <1>5. Cardinality(H) <= Cardinality(O)
    BY <1>1, <1>2, FS_Subset
  <1>6. H \subseteq G => Cardinality(H) <= Cardinality(G)
    BY <1>4, FS_Subset
  <1>7. ASSUME NEW c \in G, H \subseteq G \ {c} PROVE Cardinality(H) + 1 <= Cardinality(G)
    <2>1. Cardinality(G \ {c}) = Cardinality(G) - 1 /\ IsFiniteSet(G \ {c})
      BY <1>4, FS_RemoveElement
    <2>2. Cardinality(H) <= Cardinality(G \ {c})
      BY <1>7, <2>1, FS_Subset
    <2> QED BY <1>4, <2>1, <2>2
  <1>8. count[k] + Cardinality(G) <= Free(k) + Cardinality(O)
    BY DEF Bounded
  <1>9. \/ count'[k] <= count[k] /\ H \subseteq G
        \/ count'[k] = count[k] + 1 /\ \E c \in G : H \subseteq G \ {c}
        \/ count'[k] <= Free(k)
    BY DEF CountsOn
  <1> HIDE DEF G, H, O
  <1>10. count'[k] + Cardinality(H) <= Free(k) + Cardinality(O)
    <2>1. CASE count'[k] <= count[k] /\ H \subseteq G
      BY <1>1, <1>3, <1>4, <1>6, <1>8, <2>1
    <2>2. CASE count'[k] = count[k] + 1 /\ \E c \in G : H \subseteq G \ {c}
      <3>1. Cardinality(H) + 1 <= Cardinality(G)
        BY <1>7, <2>2
      <3> QED BY <1>1, <1>3, <1>4, <1>8, <2>2, <3>1
    <2>3. CASE count'[k] <= Free(k)
      BY <1>1, <1>3, <1>4, <1>5, <2>3
    <2> QED BY <1>9, <2>1, <2>2, <2>3
  <1> QED BY <1>10 DEF Bounded, H, O

\* When one request moves, the guesses of the others stay where they are.
LEMMA OthersStay ==
    ASSUME ThrottleInv, ThrottleInv', NEW c \in Callers, NEW k \in Keys,
           \A d \in Callers \ {c} : caller'[d] = caller[d]
    PROVE  /\ (Counts(caller'[c], HostOf[c], k) => Counts(caller[c], HostOf[c], k))
                 => Guessing(k)' \subseteq Guessing(k)
           /\ ~Counts(caller'[c], HostOf[c], k) => Guessing(k)' \subseteq Guessing(k) \ {c}
           /\ Counts(caller[c], HostOf[c], k) => c \in Guessing(k)
  <1>1. Guessing(k) = {d \in Callers : Counts(caller[d], HostOf[d], k)}
    BY GuessesAre
  <1>2. Guessing(k)' = {d \in Callers : Counts(caller'[d], HostOf[d], k)}
    BY DEF Guessing, Counts
  <1>3. \A d \in Callers : Counts(caller'[d], HostOf[d], k) =>
           d = c \/ Counts(caller[d], HostOf[d], k)
    OBVIOUS
  <1> QED BY <1>1, <1>2, <1>3

\* Every action keeps the types and counts on.
LEMMA AdmitCounts ==
    ASSUME ThrottleInv, NEW c \in Callers, Admit(c)
    PROVE  ThrottleInv' /\ (HostCap # 0 /\ VaultCap # 0 => \A k \in Keys : CountsOn(k))
  <1>1. caller' = [caller EXCEPT ![c] = KDF] /\ count' = count /\ ttl' = ttl
    BY DEF Admit
  <1>2. KDF \in [at : {"idle", "kdf", "count", "expire", "clear"}, key : Keys]
        /\ KDF.key = Vault /\ KDF.at = "kdf"
    BY KeysAre DEF KDF
  <1>3. ThrottleInv' /\ caller'[c] = KDF /\ \A d \in Callers \ {c} : caller'[d] = caller[d]
    BY <1>1, <1>2, RequestGoesOn DEF ThrottleInv, TypeOK
  <1>4. count[Vault] \in Nat /\ count[HostOf[c]] \in Nat
    BY KeysAre DEF ThrottleInv, TypeOK
  <1>5. HostCap # 0 /\ VaultCap # 0 => count[Vault] <= VaultFree /\ count[HostOf[c]] <= HostFree
    <2> SUFFICES ASSUME HostCap # 0, VaultCap # 0
                 PROVE  count[Vault] <= VaultFree /\ count[HostOf[c]] <= HostFree
      OBVIOUS
    <2> DEFINE v == _backoff(count[Vault], VaultFree, VaultCap)
               h == _backoff(count[HostOf[c]], HostFree, HostCap)
    <2>1. /\ v \in Nat /\ (v = 0 <=> count[Vault] <= VaultFree)
          /\ h \in Nat /\ (h = 0 <=> count[HostOf[c]] <= HostFree)
      BY <1>4, FreeAttempts, LimitsAssumption
    <2>2. (IF v > h THEN v ELSE h) = 0
      BY DEF Admit, unlock_backoff_seconds
    <2> HIDE DEF v, h
    <2> QED BY <2>1, <2>2
  <1>6. ASSUME HostCap # 0, VaultCap # 0, NEW k \in Keys PROVE CountsOn(k)
    <2>1. CASE k \in {Vault, HostOf[c]}
      BY <1>1, <1>5, <1>6, <2>1, KeysAre DEF CountsOn, Free
    <2>2. CASE k \notin {Vault, HostOf[c]}
      <3>1. ~Counts(caller'[c], HostOf[c], k)
        BY <1>2, <1>3, <2>2 DEF Counts
      <3>2. Guessing(k)' \subseteq Guessing(k)
        BY <1>3, <3>1, OthersStay
      <3>3. count[k] \in Nat
        BY DEF ThrottleInv, TypeOK
      <3> QED BY <1>1, <3>2, <3>3 DEF CountsOn
    <2> QED BY <2>1, <2>2
  <1> QED BY <1>3, <1>6

\* The key derivation answers: a wrong guess counts from now on as one to be counted.
LEMMA AnswerCounts ==
    ASSUME ThrottleInv, NEW c \in Callers, Answer(c)
    PROVE  ThrottleInv' /\ \A k \in Keys : CountsOn(k)
  <1>1. PICK at \in {"count", "clear"} :
           caller' = [caller EXCEPT ![c] = [at |-> at, key |-> Vault]]
    BY DEF Answer, WrongPassphrase, RightPassphrase
  <1>2. caller[c] = KDF /\ count' = count /\ ttl' = ttl
    BY DEF Answer, WrongPassphrase, RightPassphrase
  <1> DEFINE r == [at |-> at, key |-> Vault]
  <1>3. r \in [at : {"idle", "kdf", "count", "expire", "clear"}, key : Keys]
        /\ r.key = Vault /\ r.at = at
    BY KeysAre
  <1> HIDE DEF r
  <1>4. ThrottleInv' /\ caller'[c] = r /\ \A d \in Callers \ {c} : caller'[d] = caller[d]
    BY <1>1, <1>2, <1>3, RequestGoesOn DEF ThrottleInv, TypeOK, r
  <1>5. ASSUME NEW k \in Keys PROVE CountsOn(k)
    <2>1. Counts(caller'[c], HostOf[c], k) => Counts(caller[c], HostOf[c], k)
      BY <1>2, <1>3, <1>4 DEF Counts, KDF
    <2>2. Guessing(k)' \subseteq Guessing(k)
      BY <1>4, <2>1, OthersStay
    <2>3. count[k] \in Nat
      BY DEF ThrottleInv, TypeOK
    <2> QED BY <1>2, <2>2, <2>3 DEF CountsOn
  <1> QED BY <1>4, <1>5

\* A failure is counted on the key it is about, and there is one guess less to
\* count there; with the vault's key done, the host's is still to come.
LEMMA FailureCounts ==
    ASSUME ThrottleInv, NEW c \in Callers, record_unlock_failure(c)
    PROVE  ThrottleInv' /\ \A k \in Keys : CountsOn(k)
  <1> DEFINE k0 == caller[c].key
             r == IF count[k0] + 1 = 1 THEN [at |-> "expire", key |-> k0] ELSE NextKey(c, "count")
  <1>1. /\ caller[c].at = "count" /\ count' = [count EXCEPT ![k0] = count[k0] + 1]
        /\ caller' = [caller EXCEPT ![c] = r] /\ ttl' = ttl
    BY DEF record_unlock_failure
  <1>2. k0 \in {Vault, HostOf[c]} /\ k0 \in Keys /\ count[k0] \in Nat
    BY KeysAre DEF ThrottleInv, CallersKeys, TypeOK
  <1>3. \/ r = [at |-> "expire", key |-> k0]
        \/ k0 = Vault /\ r = [at |-> "count", key |-> HostOf[c]]
        \/ k0 = HostOf[c] /\ k0 # Vault /\ r = Idle
    BY NextKeyIs
  <1> HIDE DEF r
  <1>4. /\ r \in [at : {"idle", "kdf", "count", "expire", "clear"}, key : Keys]
        /\ r.key \in {Vault, HostOf[c]} /\ r.at # "kdf"
        /\ r.at = "idle" => r.key = Vault
    BY <1>2, <1>3, KeysAre DEF Idle
  <1>5. count' \in [Keys -> Nat] /\ count'[k0] = count[k0] + 1
        /\ \A k \in Keys \ {k0} : count'[k] = count[k]
    BY <1>1, <1>2 DEF ThrottleInv, TypeOK
  <1>6. ThrottleInv' /\ caller'[c] = r /\ \A d \in Callers \ {c} : caller'[d] = caller[d]
    BY <1>1, <1>4, <1>5, RequestGoesOn DEF ThrottleInv, TypeOK
  <1>7. ASSUME NEW k \in Keys PROVE CountsOn(k)
    <2>1. CASE k = k0
      <3>1. Counts(caller[c], HostOf[c], k) /\ ~Counts(caller'[c], HostOf[c], k)
        BY <1>1, <1>2, <1>3, <1>6, <2>1, KeysAre DEF Counts, Idle
      <3>2. c \in Guessing(k) /\ Guessing(k)' \subseteq Guessing(k) \ {c}
        BY <1>6, <3>1, OthersStay
      <3> QED BY <1>5, <2>1, <3>2 DEF CountsOn
    <2>2. CASE k # k0
      <3>1. Counts(caller'[c], HostOf[c], k) => Counts(caller[c], HostOf[c], k)
        BY <1>1, <1>2, <1>3, <1>6, <2>2, KeysAre DEF Counts, Idle
      <3>2. Guessing(k)' \subseteq Guessing(k)
        BY <1>6, <3>1, OthersStay
      <3>3. count'[k] = count[k] /\ count[k] \in Nat
        BY <1>5, <2>2 DEF ThrottleInv, TypeOK
      <3> QED BY <3>2, <3>3 DEF CountsOn
    <2> QED BY <2>1, <2>2
  <1> QED BY <1>6, <1>7

\* A key whose window is set anew keeps its count, and its request goes on.
LEMMA ExpireCounts ==
    ASSUME ThrottleInv, NEW c \in Callers, Expire(c)
    PROVE  ThrottleInv' /\ \A k \in Keys : CountsOn(k)
  <1> DEFINE k0 == caller[c].key
             r == NextKey(c, "count")
  <1>1. /\ caller[c].at = "expire" /\ count' = count /\ caller' = [caller EXCEPT ![c] = r]
        /\ \/ ttl' = [ttl EXCEPT ![k0] = IF count[k0] = 0 THEN 0 ELSE FailTTL]
           \/ ttl' = ttl
    BY DEF Expire
  <1>2. \/ k0 = Vault /\ r = [at |-> "count", key |-> HostOf[c]]
        \/ k0 = HostOf[c] /\ k0 # Vault /\ r = Idle
    BY NextKeyIs
  <1> HIDE DEF r
  <1>3. /\ r \in [at : {"idle", "kdf", "count", "expire", "clear"}, key : Keys]
        /\ r.key \in {Vault, HostOf[c]} /\ r.at # "kdf"
        /\ r.at = "idle" => r.key = Vault
    BY <1>2, KeysAre DEF Idle
  <1>4. ttl' \in [Keys -> 0..FailTTL]
    BY <1>1, LimitsAssumption DEF ThrottleInv, TypeOK
  <1>5. ThrottleInv' /\ caller'[c] = r /\ \A d \in Callers \ {c} : caller'[d] = caller[d]
    BY <1>1, <1>3, <1>4, RequestGoesOn DEF ThrottleInv, TypeOK
  <1>6. ASSUME NEW k \in Keys PROVE CountsOn(k)
    <2>1. Counts(caller'[c], HostOf[c], k) => Counts(caller[c], HostOf[c], k)
      BY <1>1, <1>2, <1>5, KeysAre DEF Counts, Idle
    <2>2. Guessing(k)' \subseteq Guessing(k)
      BY <1>5, <2>1, OthersStay
    <2>3. count[k] \in Nat
      BY DEF ThrottleInv, TypeOK
    <2> QED BY <1>1, <2>2, <2>3 DEF CountsOn
  <1> QED BY <1>5, <1>6

\* A key that is cleared has no count.
LEMMA ClearCounts ==
    ASSUME ThrottleInv, NEW c \in Callers, clear_unlock_failures(c)
    PROVE  ThrottleInv' /\ \A k \in Keys : CountsOn(k)
  <1> DEFINE k0 == caller[c].key
             r == NextKey(c, "clear")
  <1>1. /\ caller[c].at = "clear" /\ count' = [count EXCEPT ![k0] = 0]
        /\ ttl' = [ttl EXCEPT ![k0] = 0] /\ caller' = [caller EXCEPT ![c] = r]
    BY DEF clear_unlock_failures
  <1>2. \/ k0 = Vault /\ r = [at |-> "clear", key |-> HostOf[c]]
        \/ k0 = HostOf[c] /\ k0 # Vault /\ r = Idle
    BY NextKeyIs
  <1> HIDE DEF r
  <1>3. /\ r \in [at : {"idle", "kdf", "count", "expire", "clear"}, key : Keys]
        /\ r.key \in {Vault, HostOf[c]} /\ r.at \in {"idle", "clear"}
        /\ r.at = "idle" => r.key = Vault
    BY <1>2, KeysAre DEF Idle
  <1>4. /\ ttl' \in [Keys -> 0..FailTTL] /\ count' \in [Keys -> Nat]
        /\ \A k \in Keys : count'[k] <= count[k]
    BY <1>1, LimitsAssumption DEF ThrottleInv, TypeOK
  <1>5. ThrottleInv' /\ caller'[c] = r /\ \A d \in Callers \ {c} : caller'[d] = caller[d]
    BY <1>1, <1>3, <1>4, RequestGoesOn DEF ThrottleInv, TypeOK
  <1>6. ASSUME NEW k \in Keys PROVE CountsOn(k)
    <2>1. ~Counts(caller'[c], HostOf[c], k)
      BY <1>3, <1>5 DEF Counts
    <2>2. Guessing(k)' \subseteq Guessing(k)
      BY <1>5, <2>1, OthersStay
    <2> QED BY <1>4, <2>2 DEF CountsOn
  <1> QED BY <1>5, <1>6

\* A count whose time runs out is gone; the others stay.
LEMMA TickCounts ==
    ASSUME ThrottleInv, Tick
    PROVE  ThrottleInv' /\ \A k \in Keys : CountsOn(k)
  <1>1. ThrottleInv' /\ \A k \in Keys : count'[k] <= count[k]
    <2>1. \A k \in Keys : /\ count[k] \in Nat /\ ttl[k] \in 0..FailTTL
                          /\ count'[k] = IF ttl[k] = 1 THEN 0 ELSE count[k]
                          /\ ttl'[k] = IF ttl[k] = 0 THEN 0 ELSE ttl[k] - 1
      BY DEF Tick, ThrottleInv, TypeOK
    <2>2. \A k \in Keys : ttl'[k] \in 0..FailTTL /\ count'[k] \in Nat /\ count'[k] <= count[k]
      BY <2>1, LimitsAssumption
    <2>3. ttl' \in [Keys -> 0..FailTTL] /\ count' \in [Keys -> Nat] /\ caller' = caller
      BY <2>2 DEF Tick
    <2> QED BY <2>2, <2>3 DEF ThrottleInv, TypeOK, CallersKeys
  <1>2. \A k \in Keys : Guessing(k)' = Guessing(k)
    BY DEF Tick, Guessing
  <1> QED BY <1>1, <1>2 DEF CountsOn

\* Every step of the throttle keeps the types; it keeps the bound as long as a
\* caller without free attempts is made to wait at all.
LEMMA StepCounts ==
    ASSUME ThrottleInv, [Next]_vars
    PROVE  /\ ThrottleInv'
           /\ HostCap # 0 /\ VaultCap # 0 /\ GuessesInv => GuessesInv'
  <1>1. CASE Next
    <2>1. ThrottleInv' /\ (HostCap # 0 /\ VaultCap # 0 => \A k \in Keys : CountsOn(k))
      BY <1>1, AdmitCounts, AnswerCounts, FailureCounts, ExpireCounts, ClearCounts, TickCounts
         DEF Next, Record
    <2> QED BY <2>1, CountingKeeps DEF GuessesInv
  <1>2. CASE UNCHANGED vars
    BY <1>2 DEF vars, GuessesInv, ThrottleInv, TypeOK, CallersKeys, Bounded, Guessing
  <1> QED BY <1>1, <1>2

\* Nobody guesses at first.
LEMMA ThrottleStarts == ASSUME Init PROVE GuessesInv
  <1>1. ThrottleInv
    BY KeysAre, LimitsAssumption DEF Init, ThrottleInv, TypeOK, CallersKeys, Idle
  <1>2. ASSUME NEW k \in Keys PROVE Bounded(count[k], Guessing(k), k)
    <2>1. count[k] = 0 /\ Guessing(k) = {}
      BY <1>2 DEF Init, Guessing, Idle
    <2>2. Cardinality(Guessing(k)) = 0 /\ Cardinality(Owners(k)) \in Nat /\ Free(k) \in Nat
      BY <1>1, <2>1, GuessesAre, FS_EmptySet, LimitsAssumption DEF Free
    <2> QED BY <2>1, <2>2 DEF Bounded
  <1> QED BY <1>1, <1>2 DEF GuessesInv

\* Counters, expiries and requests keep their types, for any callers and limits.
THEOREM ThrottleIsTyped == Spec => []TypeOK
  <1>1. Init => ThrottleInv
    BY ThrottleStarts DEF GuessesInv
  <1>2. ThrottleInv /\ [Next]_vars => ThrottleInv'
    BY StepCounts
  <1>3. ThrottleInv => TypeOK
    BY DEF ThrottleInv
  <1> QED BY <1>1, <1>2, <1>3, PTL DEF Spec

\* Guessing in parallel buys one guess for each request under way and no more: a
\* counter never passes its free attempts by more than the callers there are, on
\* the vault's axis and on every host's, if neither limit of a wait is zero.
THEOREM GuessesStayBounded ==
    ASSUME HostCap # 0, VaultCap # 0
    PROVE  Spec => []GuessesAreBounded
  <1>1. Init => GuessesInv
    BY ThrottleStarts
  <1>2. GuessesInv /\ [Next]_vars => GuessesInv'
    BY StepCounts DEF GuessesInv
  <1>3. GuessesInv => GuessesAreBounded
    <2>1. ASSUME GuessesInv PROVE GuessesAreBounded
      <3>1. Vault \in Keys /\ \A h \in Hosts : h \in Keys /\ h # Vault
        BY HostsAssumption DEF Keys
      <3>2. Bounded(count[Vault], Guessing(Vault), Vault)
        BY <2>1, <3>1 DEF GuessesInv
      <3>3. \A h \in Hosts : Bounded(count[h], Guessing(h), h)
        BY <2>1, <3>1 DEF GuessesInv
      <3> QED BY <3>1, <3>2, <3>3 DEF GuessesAreBounded, Bounded, Free, Owners
    <2> QED BY <2>1
  <1> QED BY <1>1, <1>2, <1>3, PTL DEF Spec

(***************************************************************************)
(* The search index.                                                       *)
(***************************************************************************)
\* A write is stamped with its number, and marked with it.
LEMMA WriteIsTyped == ASSUME SearchTypeOK, _enqueue_changed_modules PROVE SearchTypeOK'
  <1>1. writes' \in Stamps /\ writes' \in 1..MaxWrites /\ outbox' \subseteq 1..MaxWrites
    BY SearchAssumption DEF _enqueue_changed_modules, SearchTypeOK, Stamps
  <1>2. docRows' \in [Docs -> Stamps]
    <2>1. PICK d \in Docs, stamp \in {0, writes'} : docRows' = [docRows EXCEPT ![d] = stamp]
      BY DEF _enqueue_changed_modules
    <2>2. stamp \in Stamps
      BY <1>1, SearchAssumption DEF Stamps
    <2> QED BY <2>1, <2>2 DEF SearchTypeOK
  <1> QED BY <1>1, <1>2 DEF _enqueue_changed_modules, SearchTypeOK

\* A refresh goes on, is read page by page, and ends.
Refreshes == [at : {"idle", "pages", "purge", "commit"}, offset : Nat,
              seen : [Docs -> Stamps], purged : SUBSET (1..MaxWrites)]

\* A refresh that is not running, and a snapshot of no documents, are typed.
LEMMA NoRefreshIs == NoRefresh \in Refreshes /\ Empty \in [Docs -> Stamps]
  <1>1. Empty \in [Docs -> Stamps]
    BY SearchAssumption DEF Empty, Stamps
  <1> QED BY <1>1 DEF NoRefresh, Refreshes

\* Every step of a refresh keeps the types.
LEMMA RefreshIsTyped ==
    ASSUME SearchTypeOK, RefreshSteps \/ \E force \in BOOLEAN : refresh_index(force)
    PROVE  SearchTypeOK'
  <1>1. refresh \in Refreshes
    BY DEF SearchTypeOK, Refreshes
  <1>2. ASSUME NEW force \in BOOLEAN, refresh_index(force) PROVE SearchTypeOK'
    <2>1. [NoRefresh EXCEPT !.at = "pages"] \in Refreshes
      BY SMTT(30), NoRefreshIs DEF Refreshes
    <2> QED BY <1>2, <2>1 DEF refresh_index, SearchTypeOK, Refreshes
  <1>3. CASE _sync_provider
    <2> DEFINE f == [d \in Docs |-> IF d \in Page(refresh.offset) THEN docRows[d]
                                    ELSE refresh.seen[d]]
               a == IF MoreAfter(refresh.offset) THEN "pages" ELSE "purge"
    <2>1. f \in [Docs -> Stamps] /\ a \in {"pages", "purge"}
      BY <1>1 DEF SearchTypeOK, Refreshes
    <2>2. refresh.offset + PageSize \in Nat
      BY <1>1, SearchAssumption DEF Refreshes
    <2>3. refresh' = [refresh EXCEPT !.seen = f, !.offset = refresh.offset + PageSize, !.at = a]
      BY <1>3 DEF _sync_provider
    <2> HIDE DEF f, a
    <2>4. refresh' \in Refreshes
      BY <1>1, <2>1, <2>2, <2>3 DEF Refreshes
    <2> QED BY <1>3, <2>4 DEF _sync_provider, SearchTypeOK, Refreshes
  <1>4. CASE PurgesOutbox
    <2>1. refresh' = [refresh EXCEPT !.at = "commit", !.purged = outbox]
      BY <1>4 DEF PurgesOutbox
    <2>2. refresh' \in Refreshes
      BY <1>1, <2>1 DEF SearchTypeOK, Refreshes
    <2> QED BY <1>4, <2>2 DEF PurgesOutbox, SearchTypeOK, Refreshes
  <1>5. CASE RefreshCommits
    BY <1>1, <1>5, NoRefreshIs DEF RefreshCommits, SearchTypeOK, Refreshes
  <1> QED BY <1>2, <1>3, <1>4, <1>5 DEF RefreshSteps

\* So does what happens beside it: time, a forgotten provider, a failure, a restart.
LEMMA OtherSearchIsTyped ==
    ASSUME SearchTypeOK, TimePasses \/ ForgetsProvider \/ Restart
                         \/ \E noted \in BOOLEAN : RefreshFails(noted)
    PROVE  SearchTypeOK'
  <1>1. CASE TimePasses
    BY <1>1 DEF TimePasses, SearchTypeOK
  <1>2. CASE ForgetsProvider
    BY <1>2, NoRefreshIs DEF ForgetsProvider, SearchTypeOK
  <1>3. CASE Restart
    BY <1>3, NoRefreshIs, SearchAssumption DEF Restart, SearchTypeOK, Refreshes
  <1>4. ASSUME NEW noted \in BOOLEAN, RefreshFails(noted) PROVE SearchTypeOK'
    <2>1. syncState' \in [known : BOOLEAN, recent : BOOLEAN, error : BOOLEAN, tried : BOOLEAN]
      BY <1>4 DEF RefreshFails, SearchTypeOK
    <2> QED BY <1>4, <2>1, NoRefreshIs, SearchAssumption DEF RefreshFails, SearchTypeOK, Refreshes
  <1> QED BY <1>1, <1>2, <1>3, <1>4

\* Every step of the index keeps its types.
LEMMA StepKeepsSearch == SearchTypeOK /\ [SearchNext]_searchVars => SearchTypeOK'
  <1>1. ASSUME SearchTypeOK, UNCHANGED searchVars PROVE SearchTypeOK'
    BY <1>1 DEF searchVars, SearchTypeOK
  <1> QED BY <1>1, WriteIsTyped, RefreshIsTyped, OtherSearchIsTyped
       DEF SearchNext, SearchRequest

\* An index that was never filled is typed.
LEMMA SearchStarts == SearchInit => SearchTypeOK
  BY NoRefreshIs, SearchAssumption DEF SearchInit, SearchTypeOK, Refreshes, Stamps

\* Rows, marks, the index and its refresh keep their types.
THEOREM SearchIsTyped == SearchSpec => []SearchTypeOK
  BY SearchStarts, StepKeepsSearch, PTL DEF SearchSpec

(***************************************************************************)
(* The planner.  A pass holds the reminders it still has to push, those it *)
(* pushed and the events it rolls; the invariant says what a commit finds  *)
(* of them.  PushesInv counts: the pushes of a reminder that is not        *)
(* settled are those of passes that still hold it, or failed; once it is   *)
(* settled, only passes that loaded it before can push it again, and no    *)
(* more passes are under way than the chains there are.                    *)
(***************************************************************************)
AgendaRows == [kind : {"none", "task", "event"},
               status : {"open", "done", "cancelled", "gone"},
               at : 0..(MaxClock + 1), remind : 0..Never, notified : BOOLEAN,
               repeats : BOOLEAN, doneAt : 0..MaxItems, series : 0..MaxItems]
PassStates == [at : {"idle", "task", "event", "commit"}, now : 0..MaxClock,
               todo : SUBSET Ids, marks : SUBSET Ids, rolls : SUBSET Ids]

Active == {w \in Sweepers : sweep[w].at # "idle"}
ToPush(i) == {w \in Sweepers : i \in sweep[w].todo}
Pushed(i) == {w \in Sweepers : i \in sweep[w].marks}
Settled(i) == i <= made /\ (agenda[i].notified \/ agenda[i].status = "gone")

RowsInOrder ==
    \A i \in Ids : /\ i > made => agenda[i] = NoRow /\ pushes[i] = 0
                   /\ agenda[i].series <= made
                   /\ agenda[i].status = "gone" => agenda[i].kind = "none" /\ agenda[i].series = 0
                   /\ agenda[i].kind = "none" => agenda[i].status = "gone"
PassesInOrder ==
    \A w \in Sweepers :
       /\ sweep[w].todo \cup sweep[w].marks \cup sweep[w].rolls \subseteq 1..made
       /\ sweep[w].todo \cap sweep[w].marks = {}
       /\ sweep[w].at = "idle" => sweep[w] = NoSweep
       /\ sweep[w].at = "commit" => sweep[w].todo = {}
       /\ sweep[w].at = "task" =>
             \A i \in sweep[w].todo \cup sweep[w].marks : agenda[i].kind # "event"
       /\ \A i \in sweep[w].rolls : agenda[i].kind # "task"
ChainInv == Loops <= lapses + (IF armed THEN 1 ELSE 0)
PushesInv ==
    \A i \in Ids : /\ ~Settled(i) => pushes[i] <= Cardinality(Pushed(i)) + failed
                   /\ Settled(i) => pushes[i] + Cardinality(ToPush(i)) <= 1 + lapses + failed

OpenEvent(i) == agenda[i].kind = "event" /\ agenda[i].status = "open"
NoFork == \A i, j \in Ids : OpenEvent(i) /\ OpenEvent(j) /\ agenda[i].series # 0
                            /\ agenda[i].series = agenda[j].series => i = j
RollsAlone ==
    \A w \in Sweepers : \A i \in sweep[w].rolls, j \in Ids :
       j # i /\ agenda[i].series # 0 /\ agenda[j].kind = "event"
          /\ (OpenEvent(j) \/ j \in sweep[w].rolls) => agenda[j].series # agenda[i].series
SeriesInv == lapses = 0 => NoFork /\ RollsAlone

PlannerInv == PlannerTypeOK /\ RowsInOrder /\ PassesInOrder /\ ChainInv
ExactInv == PlannerInv /\ PushesInv /\ SeriesInv

\* The ranks of the members of a finite set of numbers are 1, 2, ... without gap.
LEMMA RanksAre ==
    ASSUME NEW S, S \subseteq Nat, IsFiniteSet(S)
    PROVE  /\ Cardinality(S) \in Nat
           /\ \A i \in S : Rank(i, S) \in 1..Cardinality(S)
           /\ \A m \in 1..Cardinality(S) : \E i \in S : Rank(i, S) = m
  <1> DEFINE below(i) == {j \in S : j <= i}
             f == [i \in S |-> Rank(i, S)]
             n == Cardinality(S)
  <1>1. n \in Nat
    BY FS_CardinalityType
  <1>2. ASSUME NEW i \in S PROVE Rank(i, S) = Cardinality(below(i)) /\ Rank(i, S) \in 1..n
                                 /\ IsFiniteSet(below(i))
    <2>1. below(i) \subseteq S /\ i \in below(i)
      BY <1>2
    <2>2. IsFiniteSet(below(i)) /\ Cardinality(below(i)) <= n /\ Cardinality(below(i)) \in Nat
      BY <2>1, FS_Subset, FS_CardinalityType
    <2>3. Cardinality(below(i)) # 0
      BY <2>1, <2>2, FS_EmptySet
    <2>4. Rank(i, S) = Cardinality(below(i))
      BY DEF Rank
    <2> QED BY <1>1, <2>2, <2>3, <2>4
  <1>3. ASSUME NEW i \in S, NEW j \in S, i < j PROVE Rank(i, S) < Rank(j, S)
    <2>1. below(i) \subseteq below(j) /\ j \in below(j) /\ j \notin below(i)
      <3>1. i \in Nat /\ j \in Nat /\ i < j /\ \A x \in S : x \in Nat
        BY <1>3
      <3>2. \A x \in S : x <= i => x <= j
        BY <3>1
      <3>3. j <= j /\ ~(j <= i)
        BY <3>1
      <3> QED BY <1>3, <3>2, <3>3
    <2>2. Cardinality(below(i)) <= Cardinality(below(j))
          /\ Cardinality(below(i)) # Cardinality(below(j))
      BY <1>2, <2>1, FS_Subset
    <2> HIDE DEF below
    <2> QED BY <1>1, <1>2, <2>2
  <1>4. f \in [S -> 1..n] /\ \A i \in S : f[i] = Rank(i, S)
    BY <1>2
  <1> HIDE DEF f, n
  <1>a. f \in Injection(S, 1..n)
    <2>1. ASSUME NEW i \in S, NEW j \in S, f[i] = f[j] PROVE i = j
      <3>1. i \in Int /\ j \in Int
        OBVIOUS
      <3>2. Rank(i, S) \in Nat /\ Rank(i, S) = Rank(j, S)
        BY <1>1, <1>2, <1>4, <2>1
      <3>3. ~(i < j) /\ ~(j < i)
        BY <1>3, <2>1, <3>2
      <3> QED BY <3>1, <3>3
    <2> QED BY <1>4, <2>1 DEF Injection, IsInjective
  <1>5. IsFiniteSet(1..n) /\ Cardinality(1..n) = n
    BY <1>1, FS_Interval
  <1>6. f \in Surjection(S, 1..n)
    BY <1>a, <1>5, FS_Injection DEF n
  <1>7. \A m \in 1..n : \E i \in S : f[i] = m
    BY <1>6 DEF Surjection
  <1> QED BY <1>1, <1>2, <1>7 DEF f, n

\* What a pass loads is due, and not settled.
LEMMA BatchIs ==
    ASSUME PlannerTypeOK, RowsInOrder, NEW kind \in {"task", "event"}, NEW now
    PROVE  \A i \in Batch(kind, now) : i \in Ids /\ i \in 1..made /\ ~Settled(i)
            /\ agenda[i].kind = kind
  <1> SUFFICES ASSUME NEW i \in Batch(kind, now)
               PROVE  i \in Ids /\ i \in 1..made /\ ~Settled(i) /\ agenda[i].kind = kind
    OBVIOUS
  <1>1. i \in Ids /\ agenda[i].kind = kind /\ agenda[i].status = "open" /\ ~agenda[i].notified
    BY DEF Batch, Rows, Open
  <1>2. i \in 1..made
    <2>1. i \in Int /\ i >= 1 /\ made \in Int /\ i <= made
      BY <1>1 DEF RowsInOrder, NoRow, Ids, PlannerTypeOK
    <2> QED BY <2>1
  <1> QED BY <1>1, <1>2 DEF Settled

\* The rows are typed, field by field.
LEMMA RowFields ==
    ASSUME NEW r \in AgendaRows
    PROVE  /\ r.kind \in {"none", "task", "event"}
           /\ r.status \in {"open", "done", "cancelled", "gone"}
           /\ r.at \in 0..(MaxClock + 1) /\ r.remind \in 0..Never /\ r.notified \in BOOLEAN
           /\ r.repeats \in BOOLEAN /\ r.doneAt \in 0..MaxItems /\ r.series \in 0..MaxItems
  BY DEF AgendaRows

\* The place of a row that is not there is typed like a row.
LEMMA NoRowIs == NoRow \in AgendaRows
  BY PlannerAssumption DEF NoRow, AgendaRows, Never

\* A row that is made is open, of its kind and series, and not yet notified.
LEMMA NewRowIs ==
    ASSUME NEW kind \in {"task", "event"}, NEW at \in 0..(MaxClock + 1), NEW remind \in 0..Never,
           NEW repeats \in BOOLEAN, NEW series \in 0..MaxItems
    PROVE  /\ NewRow(kind, at, remind, repeats, series) \in AgendaRows
           /\ NewRow(kind, at, remind, repeats, series).kind = kind
           /\ NewRow(kind, at, remind, repeats, series).status = "open"
           /\ NewRow(kind, at, remind, repeats, series).series = series
           /\ NewRow(kind, at, remind, repeats, series).notified = FALSE
  <1>1. NoRow \in AgendaRows /\ NoRow.doneAt = 0 /\ NoRow.notified = FALSE
    BY NoRowIs DEF NoRow
  <1> DEFINE r == NewRow(kind, at, remind, repeats, series)
  <1>2. r = [NoRow EXCEPT !.kind = kind, !.status = "open", !.at = at, !.remind = remind,
                          !.repeats = repeats, !.series = series]
    BY DEF NewRow
  <1> QED BY <1>1, <1>2 DEF AgendaRows

\* What a commit makes of a row, and of an event that repeats.
MarkedRow(i, S, R) == [agenda[i] EXCEPT !.notified = @ \/ i \in S,
                                        !.status = IF i \in R THEN "done" ELSE @]
SpawnedRow(i) ==
    LET next == next_occurrence(agenda[i].at)
        remind == IF agenda[i].remind = Never THEN Never
                  ELSE agenda[i].remind + next - agenda[i].at
    IN NewRow("event", next, remind, TRUE, agenda[i].series)

\* A commit marks the rows it pushed, closes those it rolled, and changes no other.
LEMMA MarkedIs ==
    ASSUME agenda \in [Ids -> AgendaRows], NEW i \in Ids, NEW S, NEW R
    PROVE  /\ MarkedRow(i, S, R) \in AgendaRows
           /\ MarkedRow(i, S, R).kind = agenda[i].kind
           /\ MarkedRow(i, S, R).series = agenda[i].series
           /\ i \in R => MarkedRow(i, S, R).status = "done"
           /\ i \notin R => MarkedRow(i, S, R).status = agenda[i].status
           /\ i \in S => MarkedRow(i, S, R).notified = TRUE
           /\ i \notin S => MarkedRow(i, S, R).notified = agenda[i].notified
           /\ i \notin S \cup R => MarkedRow(i, S, R) = agenda[i]
  <1> DEFINE a == agenda[i]
             n == a.notified \/ i \in S
             s == IF i \in R THEN "done" ELSE a.status
  <1>1. a \in AgendaRows /\ a.notified \in BOOLEAN
    BY DEF AgendaRows
  <1>2. n \in BOOLEAN /\ (i \in S => n = TRUE) /\ (i \notin S => n = a.notified)
    BY <1>1
  <1>3. s \in {"open", "done", "cancelled", "gone"} /\ (i \in R => s = "done")
        /\ (i \notin R => s = a.status)
    BY <1>1 DEF AgendaRows
  <1>4. MarkedRow(i, S, R) = [a EXCEPT !.notified = n, !.status = s]
    BY DEF MarkedRow
  <1> HIDE DEF a, n, s
  <1>5. /\ MarkedRow(i, S, R) \in AgendaRows
        /\ MarkedRow(i, S, R).kind = a.kind /\ MarkedRow(i, S, R).series = a.series
        /\ MarkedRow(i, S, R).status = s /\ MarkedRow(i, S, R).notified = n
        /\ MarkedRow(i, S, R).at = a.at /\ MarkedRow(i, S, R).remind = a.remind
        /\ MarkedRow(i, S, R).repeats = a.repeats /\ MarkedRow(i, S, R).doneAt = a.doneAt
    BY <1>1, <1>2, <1>3, <1>4 DEF AgendaRows
  <1>6. n = a.notified /\ s = a.status => MarkedRow(i, S, R) = a
    <2>1. MarkedRow(i, S, R) \in AgendaRows /\ a \in AgendaRows
      BY <1>1, <1>5
    <2> QED BY <1>5, <2>1 DEF AgendaRows
  <1> QED BY <1>2, <1>3, <1>5, <1>6 DEF a

\* The next instance of an event is open, not notified, and of the same series.
LEMMA SpawnedIs ==
    ASSUME agenda \in [Ids -> AgendaRows], NEW i \in Ids
    PROVE  /\ SpawnedRow(i) \in AgendaRows /\ SpawnedRow(i).kind = "event"
           /\ SpawnedRow(i).status = "open" /\ SpawnedRow(i).notified = FALSE
           /\ SpawnedRow(i).series = agenda[i].series
  <1> DEFINE a == agenda[i]
             next == next_occurrence(a.at)
             remind == IF a.remind = Never THEN Never ELSE a.remind + next - a.at
  <1>1. a \in AgendaRows /\ a.at \in 0..(MaxClock + 1) /\ a.remind \in 0..Never
        /\ a.series \in 0..MaxItems /\ MaxClock \in Nat
    BY PlannerAssumption DEF AgendaRows
  <1>2. next \in 0..(MaxClock + 1) /\ next - a.at \in {0, 1}
    BY <1>1 DEF next_occurrence
  <1>3. remind \in 0..Never
    <2> HIDE DEF next
    <2>1. a.remind # Never => a.remind \in 0..(MaxClock + 1)
      BY <1>1 DEF Never
    <2> QED BY <1>1, <1>2, <2>1 DEF Never
  <1>4. SpawnedRow(i) = NewRow("event", next, remind, TRUE, a.series)
    BY DEF SpawnedRow
  <1> HIDE DEF next, remind, a
  <1>5. "event" \in {"task", "event"} /\ TRUE \in BOOLEAN
    OBVIOUS
  <1> DEFINE r == NewRow("event", next, remind, TRUE, a.series)
  <1>6. /\ r \in AgendaRows /\ r.kind = "event" /\ r.status = "open" /\ r.notified = FALSE
        /\ r.series = a.series
    <2>1. next \in 0..(MaxClock + 1) /\ a.series \in 0..MaxItems
      BY <1>1, <1>2
    <2>2. r \in AgendaRows
      BY <2>1, <1>3, <1>5, NewRowIs
    <2>3. NoRow \in AgendaRows /\ NoRow.notified = FALSE
      BY NoRowIs DEF NoRow
    <2>4. r.kind = "event" /\ r.status = "open" /\ r.series = a.series
      BY <2>3 DEF NewRow, AgendaRows
    <2>5. r.notified = FALSE
      BY <2>3 DEF NewRow, AgendaRows
    <2> QED BY <2>2, <2>3, <2>4, <2>5
  <1> HIDE DEF r
  <1>7. SpawnedRow(i) = r
    BY <1>4 DEF r
  <1> QED BY <1>6, <1>7 DEF a

\* A commit changes the rows there are in place, and puts one instance for each rolled
\* event behind them, in the order of their ids.
LEMMA RolledIs ==
    ASSUME PlannerTypeOK, RowsInOrder, NEW S, NEW R, S \subseteq 1..made, R \subseteq 1..made,
           made + Cardinality(R) <= MaxItems
    PROVE  /\ Cardinality(R) \in Nat /\ Rolled(S, R) \in [Ids -> AgendaRows]
           /\ \A k \in Ids : k <= made => Rolled(S, R)[k] = MarkedRow(k, S, R)
           /\ \A k \in Ids : k > made /\ k <= made + Cardinality(R) =>
                 \E i \in R : made + Rank(i, R) = k /\ Rolled(S, R)[k] = SpawnedRow(i)
           /\ \A k \in Ids : k > made + Cardinality(R) => Rolled(S, R)[k] = NoRow
  <1>1. made \in Nat /\ made <= MaxItems /\ MaxItems \in Nat /\ agenda \in [Ids -> AgendaRows]
    BY PlannerAssumption DEF PlannerTypeOK, AgendaRows
  <1>2. IsFiniteSet(R) /\ R \subseteq Nat
    <2>1. IsFiniteSet(1..made)
      BY <1>1, FS_Interval
    <2>2. 1..made \subseteq Nat
      BY <1>1
    <2> QED BY <2>1, <2>2, FS_Subset
  <1>3. /\ Cardinality(R) \in Nat
        /\ \A m \in 1..Cardinality(R) : \E i \in R : Rank(i, R) = m
    BY <1>2, RanksAre
  <1> DEFINE Source(k) == CHOOSE i \in R : made + Rank(i, R) = k
             T(k) == IF k > made /\ k <= made + Cardinality(R) THEN SpawnedRow(Source(k))
                     ELSE MarkedRow(k, S, R)
  <1>4. Rolled(S, R) = [k \in Ids |-> T(k)]
    BY DEF Rolled, MarkedRow, SpawnedRow
  <1>5. ASSUME NEW k \in Ids, k > made, k <= made + Cardinality(R)
        PROVE  Source(k) \in R /\ made + Rank(Source(k), R) = k
    <2>1. k - made \in 1..Cardinality(R)
      BY <1>1, <1>3, <1>5 DEF Ids
    <2>2. PICK i \in R : Rank(i, R) = k - made
      BY <1>3, <2>1
    <2>3. made + Rank(i, R) = k
      BY <1>1, <1>5, <2>2 DEF Ids
    <2> QED BY <2>2, <2>3
  <1>6. R \subseteq Ids
    BY <1>1 DEF Ids
  <1> HIDE DEF Source
  <1>7. ASSUME NEW k \in Ids PROVE T(k) \in AgendaRows
    BY <1>1, <1>5, <1>6, MarkedIs, SpawnedIs
  <1>8. ASSUME NEW k \in Ids, k > made + Cardinality(R) PROVE T(k) = NoRow
    <2>1. k > made /\ k \notin S \cup R
      BY <1>1, <1>3, <1>8 DEF Ids
    <2>2. agenda[k] = NoRow
      BY <2>1 DEF RowsInOrder
    <2>3. T(k) = MarkedRow(k, S, R)
      BY <1>1, <1>3, <1>8, <2>1 DEF Ids
    <2>4. MarkedRow(k, S, R) = agenda[k]
      BY <1>1, <2>1, MarkedIs
    <2> QED BY <2>2, <2>3, <2>4
  <1>9. ASSUME NEW k \in Ids, k <= made PROVE T(k) = MarkedRow(k, S, R)
    BY <1>1, <1>9 DEF Ids
  <1>10. \A k \in Ids : Rolled(S, R)[k] = T(k)
    BY <1>4
  <1>11. Rolled(S, R) \in [Ids -> AgendaRows]
    BY <1>4, <1>7
  <1>12. ASSUME NEW k \in Ids, k > made, k <= made + Cardinality(R)
         PROVE  \E i \in R : made + Rank(i, R) = k /\ Rolled(S, R)[k] = SpawnedRow(i)
    BY <1>5, <1>10, <1>12
  <1> HIDE DEF T
  <1> QED BY <1>3, <1>8, <1>9, <1>10, <1>11, <1>12

\* Two sets of passes that differ at most in one.
LEMMA OneMore ==
    ASSUME NEW A, NEW B, NEW w, IsFiniteSet(A), A \ {w} = B \ {w}
    PROVE  /\ Cardinality(A) \in Nat /\ Cardinality(B) \in Nat
           /\ Cardinality(B) = Cardinality(A) + (IF w \in B THEN 1 ELSE 0)
                                              - (IF w \in A THEN 1 ELSE 0)
  <1>1. IsFiniteSet(A \ {w}) /\ IsFiniteSet((A \ {w}) \cup {w}) /\ IsFiniteSet(B)
    <2>1. IsFiniteSet(A \ {w})
      BY FS_RemoveElement
    <2>2. IsFiniteSet((A \ {w}) \cup {w})
      BY <2>1, FS_AddElement
    <2>3. B \subseteq (A \ {w}) \cup {w}
      OBVIOUS
    <2> QED BY <2>1, <2>2, <2>3, FS_Subset
  <1>2. /\ Cardinality(A \ {w}) = IF w \in A THEN Cardinality(A) - 1 ELSE Cardinality(A)
        /\ Cardinality(B \ {w}) = IF w \in B THEN Cardinality(B) - 1 ELSE Cardinality(B)
    BY <1>1, FS_RemoveElement
  <1>3. Cardinality(A) \in Nat /\ Cardinality(B) \in Nat
    BY <1>1, FS_CardinalityType
  <1> QED BY <1>2, <1>3

\* Passes are counted by numbers, and each holds a reminder once.
LEMMA PassesAre ==
    /\ IsFiniteSet(Active) /\ Cardinality(Active) \in Nat
    /\ \A i \in Ids : /\ IsFiniteSet(ToPush(i)) /\ Cardinality(ToPush(i)) \in Nat
                      /\ IsFiniteSet(Pushed(i)) /\ Cardinality(Pushed(i)) \in Nat
    /\ PassesInOrder => \A i \in Ids : Cardinality(ToPush(i)) + Cardinality(Pushed(i))
                                          <= Cardinality(Active)
  <1>1. IsFiniteSet(Sweepers)
    BY PlannerAssumption
  <1>2. Active \subseteq Sweepers
    BY DEF Active
  <1>3. ASSUME NEW i PROVE ToPush(i) \subseteq Sweepers /\ Pushed(i) \subseteq Sweepers
    BY DEF ToPush, Pushed
  <1>4. IsFiniteSet(Active) /\ Cardinality(Active) \in Nat
    BY <1>1, <1>2, FS_Subset, FS_CardinalityType
  <1>5. ASSUME NEW i
        PROVE  /\ IsFiniteSet(ToPush(i)) /\ Cardinality(ToPush(i)) \in Nat
               /\ IsFiniteSet(Pushed(i)) /\ Cardinality(Pushed(i)) \in Nat
    BY <1>1, <1>3, FS_Subset, FS_CardinalityType
  <1>6. ASSUME PassesInOrder, NEW i
        PROVE  Cardinality(ToPush(i)) + Cardinality(Pushed(i)) <= Cardinality(Active)
    <2>1. ToPush(i) \cap Pushed(i) = {}
      BY <1>6 DEF PassesInOrder, ToPush, Pushed
    <2>2. ToPush(i) \cup Pushed(i) \subseteq Active
      BY <1>6 DEF PassesInOrder, ToPush, Pushed, Active, NoSweep
    <2>3. Cardinality(ToPush(i) \cup Pushed(i)) =
             Cardinality(ToPush(i)) + Cardinality(Pushed(i)) - Cardinality(ToPush(i) \cap Pushed(i))
      BY <1>5, FS_Union
    <2>4. Cardinality(ToPush(i) \cap Pushed(i)) = 0
      BY <2>1, FS_EmptySet
    <2>5. Cardinality(ToPush(i) \cup Pushed(i)) <= Cardinality(Active)
      BY <1>4, <2>2, FS_Subset
    <2> QED BY <1>5, <2>3, <2>4, <2>5
  <1> QED BY <1>4, <1>5, <1>6

\* What the types say, and that there are no more passes than chains.
LEMMA PlannerTypes ==
    ASSUME PlannerTypeOK
    PROVE  /\ made \in Nat /\ made <= MaxItems /\ MaxItems \in Nat
           /\ agenda \in [Ids -> AgendaRows] /\ sweep \in [Sweepers -> PassStates]
           /\ pushes \in [Ids -> Nat] /\ armed \in BOOLEAN
           /\ queued \in Nat /\ unacked \in Nat /\ lapses \in Nat /\ failed \in Nat
           /\ unsent \in Nat
           /\ Loops = queued + unacked + Cardinality(Active)
           /\ ChainInv => Cardinality(Active) <= 1 + lapses
  <1>1. /\ made \in Nat /\ made <= MaxItems /\ MaxItems \in Nat
        /\ agenda \in [Ids -> AgendaRows] /\ sweep \in [Sweepers -> PassStates]
        /\ pushes \in [Ids -> Nat] /\ armed \in BOOLEAN
        /\ queued \in Nat /\ unacked \in Nat /\ lapses \in Nat /\ failed \in Nat
        /\ unsent \in Nat
    BY PlannerAssumption DEF PlannerTypeOK, AgendaRows, PassStates
  <1>2. Loops = queued + unacked + Cardinality(Active)
    BY DEF Loops, Active
  <1>3. ASSUME ChainInv PROVE Cardinality(Active) <= 1 + lapses
    <2>1. Loops <= lapses + 1
      <3>1. Loops <= lapses + (IF armed THEN 1 ELSE 0) /\ Loops \in Nat
        BY <1>1, <1>2, <1>3, PassesAre DEF ChainInv
      <3> QED BY <1>1, <3>1
    <2> QED BY <1>1, <1>2, <2>1, PassesAre
  <1> QED BY <1>1, <1>2, <1>3

\* The types, put together again.
LEMMA TypesAgain ==
    /\ clock \in 0..MaxClock /\ made \in 0..MaxItems /\ requests \in 0..MaxRequests
    /\ agenda \in [Ids -> AgendaRows] /\ sweep \in [Sweepers -> PassStates]
    /\ pushes \in [Ids -> Nat] /\ armed \in BOOLEAN
    /\ queued \in Nat /\ unacked \in Nat /\ lapses \in Nat /\ failed \in Nat
    /\ unsent \in Nat
    => PlannerTypeOK
  BY DEF PlannerTypeOK, AgendaRows, PassStates

\* What a request of the owner may do to a row: nothing, delete it, or change it in
\* place; an event it opens again has left its series.
RowKept(o, r) ==
    \/ r = o \/ r = NoRow
    \/ /\ o.status # "gone" /\ r.status # "gone"
       /\ r.kind = o.kind /\ r.notified = o.notified /\ r.series \in {o.series, 0}
       /\ r.kind = "event" /\ r.status = "open" /\ r.series # 0 =>
             o.status = "open" /\ r.series = o.series
AgendaGoesOn ==
    /\ made' \in {made, made + 1} /\ made' <= MaxItems /\ agenda' \in [Ids -> AgendaRows]
    /\ \A i \in Ids : i <= made => RowKept(agenda[i], agenda'[i])
    /\ \A i \in Ids : i > made' => agenda'[i] = agenda[i]
    /\ \A i \in Ids : i > made /\ i <= made' =>
          /\ agenda'[i].kind # "none" /\ agenda'[i].status = "open"
          /\ agenda'[i].series = made' /\ ~agenda'[i].notified

\* A request keeps the rows in order, and what the passes under way hold of them.
LEMMA OwnerKeepsRows ==
    ASSUME PlannerTypeOK, RowsInOrder, PassesInOrder, AgendaGoesOn,
           UNCHANGED <<sweep, pushes>>
    PROVE  RowsInOrder' /\ PassesInOrder'
  <1>1. made \in Nat /\ made' \in Nat /\ made <= made' /\ made' <= made + 1
        /\ MaxItems \in Nat /\ agenda \in [Ids -> AgendaRows]
    BY PlannerTypes DEF AgendaGoesOn
  <1>2. ASSUME NEW i \in Ids
        PROVE  /\ i > made' => agenda'[i] = NoRow /\ pushes'[i] = 0
               /\ agenda'[i].series <= made'
               /\ agenda'[i].status = "gone" => agenda'[i].kind = "none" /\ agenda'[i].series = 0
               /\ agenda'[i].kind = "none" => agenda'[i].status = "gone"
    <2>1. i \in Int /\ agenda[i].series \in Nat /\ agenda[i].series <= made
          /\ (agenda[i].status = "gone" => agenda[i].kind = "none" /\ agenda[i].series = 0)
          /\ (agenda[i].kind = "none" => agenda[i].status = "gone")
          /\ (i > made => agenda[i] = NoRow /\ pushes[i] = 0)
      BY <1>1 DEF Ids, RowsInOrder, AgendaRows
    <2>2. NoRow.status = "gone" /\ NoRow.kind = "none" /\ NoRow.series = 0
      BY DEF NoRow
    <2>3. CASE i <= made
      <3>1. RowKept(agenda[i], agenda'[i])
        BY <2>3 DEF AgendaGoesOn
      <3> QED BY <1>1, <2>1, <2>2, <2>3, <3>1 DEF RowKept
    <2>4. CASE i > made'
      <3>1. agenda'[i] = agenda[i]
        BY <2>4 DEF AgendaGoesOn
      <3> QED BY <1>1, <2>1, <2>2, <2>4, <3>1
    <2>5. CASE i > made /\ i <= made'
      BY <1>1, <2>1, <2>5 DEF AgendaGoesOn
    <2> QED BY <1>1, <2>1, <2>3, <2>4, <2>5
  <1>3. \A i \in Ids : i <= made => agenda'[i].kind \in {agenda[i].kind, "none"}
    BY DEF AgendaGoesOn, RowKept, NoRow
  <1>4. 1..made \subseteq Ids /\ 1..made \subseteq 1..made' /\ \A i \in 1..made : i <= made
    BY <1>1, PlannerTypes DEF Ids
  <1>5. PassesInOrder'
    <2>1. ASSUME NEW w \in Sweepers
          PROVE  /\ sweep[w].at = "task" =>
                       \A i \in sweep[w].todo \cup sweep[w].marks : agenda'[i].kind # "event"
                 /\ \A i \in sweep[w].rolls : agenda'[i].kind # "task"
                 /\ sweep[w].todo \cup sweep[w].marks \cup sweep[w].rolls \subseteq 1..made'
      BY <1>3, <1>4 DEF PassesInOrder
    <2>2. sweep' = sweep
      OBVIOUS
    <2> QED BY <2>1, <2>2 DEF PassesInOrder
  <1>6. RowsInOrder'
    BY <1>2 DEF RowsInOrder
  <1> QED BY <1>5, <1>6

\* A request pushes nothing, and what it settles no two chains can push again.
LEMMA OwnerKeepsPushes ==
    ASSUME PlannerTypeOK, RowsInOrder, PassesInOrder, ChainInv, AgendaGoesOn,
           UNCHANGED <<sweep, pushes, failed, lapses>>, PushesInv
    PROVE  PushesInv'
  <1>1. made \in Nat /\ made' \in Nat /\ made <= made' /\ made' <= made + 1
    BY PlannerTypes DEF AgendaGoesOn
  <1> SUFFICES ASSUME NEW i \in Ids
               PROVE  /\ ~Settled(i)' => pushes'[i] <= Cardinality(Pushed(i)') + failed'
                      /\ Settled(i)' => pushes'[i] + Cardinality(ToPush(i)') <= 1 + lapses' + failed'
    BY DEF PushesInv
  <1>2. pushes'[i] = pushes[i] /\ Pushed(i)' = Pushed(i) /\ ToPush(i)' = ToPush(i)
        /\ failed' = failed /\ lapses' = lapses
    BY DEF Pushed, ToPush
  <1>3. /\ ~Settled(i) => pushes[i] <= Cardinality(Pushed(i)) + failed
        /\ Settled(i) => pushes[i] + Cardinality(ToPush(i)) <= 1 + lapses + failed
    BY DEF PushesInv
  <1>4. /\ pushes[i] \in Nat /\ failed \in Nat /\ lapses \in Nat
        /\ Cardinality(Active) <= 1 + lapses
    BY PlannerTypes
  <1>5. /\ Cardinality(Pushed(i)) \in Nat /\ Cardinality(ToPush(i)) \in Nat
        /\ Cardinality(Active) \in Nat
        /\ Cardinality(ToPush(i)) + Cardinality(Pushed(i)) <= Cardinality(Active)
    BY PassesAre
  <1>6. pushes[i] <= Cardinality(Pushed(i)) + failed \/ Settled(i)
    BY <1>3
  <1>7. Settled(i) => Settled(i)'
    <2>1. SUFFICES ASSUME Settled(i) PROVE Settled(i)'
      OBVIOUS
    <2>2. i <= made /\ (agenda[i].notified \/ agenda[i].status = "gone") /\ i \in Int
      BY <2>1 DEF Settled, Ids
    <2>3. i <= made' /\ RowKept(agenda[i], agenda'[i])
      BY <1>1, <2>2 DEF AgendaGoesOn
    <2> QED BY <2>2, <2>3 DEF RowKept, Settled, NoRow
  <1>8. Settled(i)' => pushes[i] + Cardinality(ToPush(i)) <= 1 + lapses + failed
    BY <1>3, <1>4, <1>5, <1>6
  <1> QED BY <1>2, <1>3, <1>7, <1>8

\* A request opens no second instance of a series.
LEMMA OwnerKeepsSeries ==
    ASSUME PlannerTypeOK, RowsInOrder, PassesInOrder, AgendaGoesOn,
           UNCHANGED <<sweep, lapses>>, SeriesInv
    PROVE  SeriesInv'
  <1>1. made \in Nat /\ made' \in Nat /\ made <= made' /\ made' <= made + 1
        /\ agenda \in [Ids -> AgendaRows] /\ MaxItems \in Nat
    BY PlannerTypes DEF AgendaGoesOn
  <1> SUFFICES ASSUME lapses = 0 PROVE NoFork' /\ RollsAlone'
    BY DEF SeriesInv
  <1>2. NoFork /\ RollsAlone
    BY DEF SeriesInv
  <1>3. ASSUME NEW i \in Ids, agenda'[i].series # 0
        PROVE  /\ agenda[i].series = agenda'[i].series \/ agenda'[i].series > made
               /\ OpenEvent(i)' => (OpenEvent(i) /\ agenda[i].series = agenda'[i].series)
                                   \/ (i = made' /\ agenda'[i].series > made)
               /\ i <= made => agenda[i].series = agenda'[i].series
    <2>a. NoRow.series = 0
      BY DEF NoRow
    <2>1. i \in Int /\ (i > made => agenda[i] = NoRow) /\ NoRow.series = 0
      BY <2>a DEF Ids, RowsInOrder
    <2>2. CASE i <= made
      <3>1. RowKept(agenda[i], agenda'[i])
        BY <2>2 DEF AgendaGoesOn
      <3> QED BY <1>3, <2>1, <3>1 DEF RowKept, OpenEvent
    <2>3. CASE i > made /\ i <= made'
      <3>1. i = made' /\ agenda'[i].series = made'
        BY <1>1, <2>1, <2>3 DEF AgendaGoesOn
      <3> QED BY <1>1, <2>1, <2>3, <3>1
    <2>4. CASE i > made'
      <3>1. agenda'[i] = NoRow
        BY <1>1, <2>1, <2>4 DEF AgendaGoesOn
      <3> QED BY <1>3, <2>1, <3>1
    <2> QED BY <1>1, <2>1, <2>2, <2>3, <2>4
  <1>4. \A i \in Ids : agenda[i].series <= made /\ agenda[i].series \in Nat
    BY <1>1 DEF RowsInOrder, AgendaRows
  <1>5. NoFork'
    <2>1. ASSUME NEW i \in Ids, NEW j \in Ids, OpenEvent(i)', OpenEvent(j)', agenda'[i].series # 0,
                 agenda'[i].series = agenda'[j].series
          PROVE  i = j
      <3>1. (OpenEvent(i) /\ agenda[i].series = agenda'[i].series)
            \/ (i = made' /\ agenda'[i].series > made)
        BY <1>3, <2>1
      <3>2. (OpenEvent(j) /\ agenda[j].series = agenda'[j].series)
            \/ (j = made' /\ agenda'[j].series > made)
        BY <1>3, <2>1
      <3>3. ~(agenda[i].series > made) /\ ~(agenda[j].series > made)
        BY <1>1, <1>4
      <3>4. CASE i = made' /\ agenda'[i].series > made
        BY <2>1, <3>2, <3>3, <3>4
      <3>5. CASE OpenEvent(i) /\ agenda[i].series = agenda'[i].series
        BY <1>2, <2>1, <3>2, <3>3, <3>5 DEF NoFork
      <3> QED BY <3>1, <3>4, <3>5
    <2> QED BY <2>1 DEF NoFork
  <1>6. RollsAlone'
    <2>1. ASSUME NEW w \in Sweepers, NEW i \in sweep[w].rolls, NEW j \in Ids, j # i,
                 agenda'[i].series # 0, agenda'[j].kind = "event",
                 OpenEvent(j)' \/ j \in sweep[w].rolls
          PROVE  agenda'[j].series # agenda'[i].series
      <3>1. i \in Ids /\ i <= made /\ (j \in sweep[w].rolls => j <= made)
        BY <1>1, PlannerTypes DEF PassesInOrder, Ids
      <3>2. agenda[i].series = agenda'[i].series
        BY <1>3, <2>1, <3>1
      <3> SUFFICES ASSUME agenda'[j].series = agenda'[i].series PROVE FALSE
        OBVIOUS
      <3>3. agenda'[j].series # 0 /\ ~(agenda'[j].series > made)
        BY <1>1, <1>4, <2>1, <3>1, <3>2
      <3>4. agenda[j].series = agenda'[j].series
        BY <1>3, <3>3
      <3>5. j <= made
        <4>a. NoRow.series = 0
          BY DEF NoRow
        <4>1. j \in Int /\ (j > made => agenda[j] = NoRow) /\ NoRow.series = 0
          BY <4>a DEF Ids, RowsInOrder
        <4> QED BY <1>1, <3>3, <3>4, <4>1
      <3>6. agenda[j].kind = "event"
        <4>1. RowKept(agenda[j], agenda'[j])
          BY <3>5 DEF AgendaGoesOn
        <4> QED BY <2>1, <4>1 DEF RowKept, NoRow
      <3>7. OpenEvent(j) \/ j \in sweep[w].rolls
        BY <1>3, <2>1, <3>3
      <3> QED BY <1>2, <2>1, <3>2, <3>4, <3>6, <3>7 DEF RollsAlone
    <2> QED BY <2>1 DEF RollsAlone
  <1> QED BY <1>5, <1>6

\* Every request of the owner goes on with the agenda so.
LEMMA CreateGoesOn ==
    ASSUME PlannerTypeOK, NEW row \in AgendaRows, Create(row), row.kind # "none",
           row.status = "open", row.series = made + 1, row.notified = FALSE
    PROVE  AgendaGoesOn
  <1>1. made \in Nat /\ made < MaxItems /\ MaxItems \in Nat /\ agenda \in [Ids -> AgendaRows]
        /\ made' = made + 1 /\ agenda' = [agenda EXCEPT ![made + 1] = row]
    BY PlannerTypes DEF Create
  <1>2. made + 1 \in Ids /\ \A i \in Ids : i \in Int
    BY <1>1 DEF Ids
  <1>3. agenda' \in [Ids -> AgendaRows] /\ agenda'[made + 1] = row
        /\ \A i \in Ids : i # made + 1 => agenda'[i] = agenda[i]
    BY <1>1, <1>2
  <1> QED BY <1>1, <1>2, <1>3 DEF AgendaGoesOn, RowKept

\* A step that makes no row goes on with those there are.
LEMMA ChangeGoesOn ==
    ASSUME PlannerTypeOK, RowsInOrder, made' = made, agenda' \in [Ids -> AgendaRows],
           \A i \in Ids : RowKept(agenda[i], agenda'[i])
    PROVE  AgendaGoesOn
  <1>1. made \in Nat /\ made <= MaxItems
    BY PlannerTypes
  <1>2. ASSUME NEW i \in Ids, i > made PROVE agenda'[i] = agenda[i]
    <2>1. agenda[i] = NoRow /\ NoRow.status = "gone"
      <3>1. NoRow.status = "gone"
        BY DEF NoRow
      <3> QED BY <1>2, <3>1 DEF RowsInOrder
    <2> QED BY <2>1 DEF RowKept
  <1>3. \A i \in Ids : i \in Int
    BY DEF Ids
  <1> QED BY <1>1, <1>2, <1>3 DEF AgendaGoesOn

\* An edit: a row opened again by hand leaves its series.
LEMMA UpdatedGoesOn ==
    ASSUME PlannerTypeOK, RowsInOrder, NEW i \in Ids, NEW status \in {"open", "done", "cancelled"},
           NEW remind \in 0..Never, Exists(i), Updated(i, status, remind), made' = made
    PROVE  AgendaGoesOn
  <1> DEFINE a == agenda[i]
             s == IF status = "open" /\ ~Open(i) THEN 0 ELSE a.series
             d == CASE status = "open" -> 0
                    [] status = "done" /\ a.doneAt = 0 -> made
                    [] OTHER -> a.doneAt
  <1>1. agenda \in [Ids -> AgendaRows] /\ a \in AgendaRows /\ made \in 0..MaxItems
          /\ MaxItems \in Nat
    BY PlannerTypes DEF PlannerTypeOK
  <1>2. s \in {a.series, 0} /\ s \in 0..MaxItems
        /\ (status = "open" /\ s # 0 => a.status = "open" /\ s = a.series)
    BY <1>1 DEF AgendaRows, Open
  <1>3. d \in 0..MaxItems
    BY <1>1 DEF AgendaRows
  <1> DEFINE r == [a EXCEPT !.status = status, !.remind = remind, !.series = s, !.doneAt = d]
  <1>4. agenda' = [agenda EXCEPT ![i] = r]
    BY <1>1 DEF Updated, AgendaRows
  <1> HIDE DEF s, d, a
  <1>5. r \in AgendaRows /\ r.kind = a.kind /\ r.notified = a.notified /\ r.series = s
        /\ r.status = status
    BY <1>1, <1>2, <1>3 DEF AgendaRows
  <1>6. a.status # "gone"
    BY DEF Exists, a
  <1> HIDE DEF r
  <1>7. RowKept(a, r)
    BY <1>2, <1>5, <1>6 DEF RowKept
  <1>8. agenda'[i] = r /\ \A j \in Ids : j # i => agenda'[j] = agenda[j]
    BY <1>1, <1>4
  <1>9. agenda' \in [Ids -> AgendaRows]
    BY <1>1, <1>4, <1>5
  <1>10. \A j \in Ids : RowKept(agenda[j], agenda'[j])
    BY <1>7, <1>8 DEF RowKept, a
  <1> QED BY <1>9, <1>10, ChangeGoesOn

\* A deletion.
LEMMA DeletedGoesOn ==
    ASSUME PlannerTypeOK, RowsInOrder, NEW rows, Deleted(rows), made' = made
    PROVE  AgendaGoesOn
  <1>1. agenda \in [Ids -> AgendaRows]
    BY PlannerTypes
  <1>2. \A j \in Ids : agenda'[j] = NoRow \/ agenda'[j] = agenda[j]
    BY <1>1 DEF Deleted
  <1>3. agenda' \in [Ids -> AgendaRows]
    BY <1>1, NoRowIs DEF Deleted
  <1> QED BY <1>2, <1>3, ChangeGoesOn DEF RowKept

\* A completion: a task that repeats is followed by the next, in a series of its own.
LEMMA CompleteGoesOn ==
    ASSUME PlannerTypeOK, RowsInOrder, NEW i \in Ids, complete_task(i)
    PROVE  AgendaGoesOn
  <1> DEFINE a == agenda[i]
             r == [a EXCEPT !.status = "done", !.doneAt = made]
             done == [agenda EXCEPT ![i] = r]
             next == next_occurrence(a.at)
             remind == IF a.remind = Never THEN Never ELSE next
             new == NewRow("task", next, remind, TRUE, made + 1)
  <1>1. agenda \in [Ids -> AgendaRows] /\ a \in AgendaRows /\ made \in 0..MaxItems
          /\ MaxItems \in Nat
    BY PlannerTypes DEF PlannerTypeOK
  <1>2. a.kind = "task" /\ a.status # "gone" /\ i <= made
    <2>1. a.kind = "task" /\ a.status # "gone"
      BY DEF complete_task, Rows, Exists
    <2>2. NoRow.status = "gone" /\ i \in Int
      BY DEF NoRow, Ids
    <2> QED BY <1>1, <2>1, <2>2 DEF RowsInOrder
  <1>3. r \in AgendaRows /\ RowKept(a, r)
    <2>1. r \in AgendaRows /\ r.kind = a.kind /\ r.status = "done" /\ r.series = a.series
          /\ r.notified = a.notified
      BY <1>1 DEF AgendaRows
    <2> QED BY <1>2, <2>1 DEF RowKept
  <1>4. done \in [Ids -> AgendaRows] /\ done[i] = r /\ \A j \in Ids : j # i => done[j] = agenda[j]
    BY <1>1, <1>3
  <1>5. [agenda EXCEPT ![i].status = "done", ![i].doneAt = made] = done
    BY <1>1 DEF AgendaRows
  <1>6. \/ made < MaxItems /\ made' = made + 1 /\ agenda' = [done EXCEPT ![made + 1] = new]
        \/ agenda' = done /\ made' = made
    <2> HIDE DEF done
    <2> QED BY <1>5 DEF complete_task
  <1>7. next \in 0..(MaxClock + 1) /\ remind \in 0..Never
    <2>1. a.at \in 0..(MaxClock + 1) /\ MaxClock \in Nat
      BY <1>1, PlannerAssumption DEF AgendaRows
    <2>2. next \in 0..(MaxClock + 1)
      BY <2>1 DEF next_occurrence
    <2> HIDE DEF next
    <2> QED BY <2>1, <2>2 DEF Never
  <1> HIDE DEF next, remind, r
  <1>8. CASE agenda' = done /\ made' = made
    <2>1. \A j \in Ids : RowKept(agenda[j], agenda'[j])
      BY <1>3, <1>4, <1>8 DEF RowKept
    <2> HIDE DEF done
    <2> QED BY <1>4, <1>8, <2>1, ChangeGoesOn
  <1>9. CASE made < MaxItems /\ made' = made + 1 /\ agenda' = [done EXCEPT ![made + 1] = new]
    <2>1. made + 1 \in Ids /\ made + 1 \in 0..MaxItems /\ \A j \in Ids : j \in Int
      BY <1>1, <1>9 DEF Ids
    <2>2. "task" \in {"task", "event"} /\ TRUE \in BOOLEAN
      OBVIOUS
    <2>3. new \in AgendaRows
      BY <1>7, <2>1, <2>2, NewRowIs
    <2>4. new.kind = "task" /\ new.status = "open" /\ new.series = made + 1 /\ ~new.notified
      <3>1. NoRow \in AgendaRows /\ ~NoRow.notified
        BY NoRowIs DEF NoRow
      <3> QED BY <3>1 DEF NewRow, AgendaRows
    <2> HIDE DEF new, done
    <2>5. agenda' \in [Ids -> AgendaRows] /\ agenda'[made + 1] = new
          /\ \A j \in Ids : j # made + 1 => agenda'[j] = done[j]
      BY <1>4, <1>9, <2>1, <2>3
    <2>6. ASSUME NEW j \in Ids, j <= made PROVE RowKept(agenda[j], agenda'[j])
      <3>1. agenda'[j] = done[j]
        BY <1>1, <2>1, <2>5, <2>6
      <3> QED BY <1>3, <1>4, <3>1 DEF RowKept, a
    <2>7. ASSUME NEW j \in Ids, j > made' PROVE agenda'[j] = agenda[j]
      <3>1. j # made + 1 /\ j # i
        BY <1>1, <1>2, <1>9, <2>1, <2>7
      <3> QED BY <1>4, <2>5, <3>1
    <2>8. ASSUME NEW j \in Ids, j > made, j <= made' PROVE j = made + 1
      BY <1>1, <1>9, <2>1, <2>8
    <2> QED BY <1>1, <1>9, <2>4, <2>5, <2>6, <2>7, <2>8 DEF AgendaGoesOn
  <1> QED BY <1>6, <1>8, <1>9

\* A completion undone, with the tasks it takes back.
LEMMA UndoCompleteGoesOn ==
    ASSUME PlannerTypeOK, RowsInOrder, NEW i \in Ids, undo_complete(i)
    PROVE  AgendaGoesOn
  <1> DEFINE a == agenda[i]
             r == [a EXCEPT !.status = "open", !.doneAt = 0]
  <1>1. agenda \in [Ids -> AgendaRows] /\ a \in AgendaRows /\ 0 \in 0..MaxItems /\ made' = made
    BY PlannerTypes DEF undo_complete
  <1>2. a.kind = "task" /\ a.status # "gone"
    BY DEF undo_complete, Rows, Exists
  <1>3. PICK twins : agenda' = [j \in Ids |-> IF j \in twins THEN NoRow ELSE IF j = i THEN r
                                              ELSE agenda[j]]
    BY DEF undo_complete
  <1>4. r \in AgendaRows /\ r.kind = a.kind /\ r.status = "open" /\ r.series = a.series
        /\ r.notified = a.notified
    BY <1>1 DEF AgendaRows
  <1>5. RowKept(a, r)
    BY <1>2, <1>4 DEF RowKept
  <1> HIDE DEF r
  <1>6. agenda' \in [Ids -> AgendaRows]
    BY <1>1, <1>3, <1>4, NoRowIs
  <1>7. \A j \in Ids : RowKept(agenda[j], agenda'[j])
    BY <1>3, <1>5 DEF RowKept
  <1> QED BY <1>1, <1>6, <1>7, ChangeGoesOn

\* A message is sent, or it is not.
LEMMA SendsIs ==
    ASSUME queued \in Nat, unsent \in Nat, Sends
    PROVE  /\ queued' \in Nat /\ unsent' \in Nat
           /\ queued' <= queued + 1
  BY DEF Sends

\* Arming adds a chain only where there is no flag.
LEMMA ArmingKeepsChain ==
    ASSUME PlannerTypeOK, ensure_sweep_armed, sweep' = sweep
    PROVE  /\ armed' \in BOOLEAN /\ queued' \in Nat /\ unacked' \in Nat /\ lapses' = lapses
           /\ unsent' \in Nat
           /\ ChainInv => ChainInv'
  <1>1. queued \in Nat /\ unacked \in Nat /\ lapses \in Nat /\ Cardinality(Active) \in Nat
        /\ unsent \in Nat /\ armed \in BOOLEAN
        /\ Loops = queued + unacked + Cardinality(Active)
    BY PlannerTypes, PassesAre
  <1>2. Active' = Active /\ Loops' = queued' + unacked' + Cardinality(Active')
    BY DEF Active, Loops
  <1>3. /\ unacked' = unacked /\ lapses' = lapses
        /\ \/ armed' = armed /\ queued' = queued /\ unsent' \in {unsent, unsent + 1}
           \/ ~armed /\ armed' = TRUE /\ Sends
    BY DEF ensure_sweep_armed
  <1>4. CASE armed' = armed /\ queued' = queued /\ unsent' \in {unsent, unsent + 1}
    <2>1. ChainInv => ChainInv'
      BY <1>1, <1>2, <1>3, <1>4 DEF ChainInv
    <2> QED BY <1>1, <1>3, <1>4, <2>1
  <1>5. CASE ~armed /\ armed' = TRUE /\ Sends
    <2>1. queued' \in Nat /\ unsent' \in Nat /\ queued' <= queued + 1
      BY <1>1, <1>5, SendsIs
    <2>2. (IF armed THEN 1 ELSE 0) = 0 /\ (IF armed' THEN 1 ELSE 0) = 1
      BY <1>5
    <2>3. ChainInv => ChainInv'
      BY <1>1, <1>2, <1>3, <2>1, <2>2 DEF ChainInv
    <2> QED BY <1>1, <1>3, <1>5, <2>1, <2>3
  <1> QED BY <1>3, <1>4, <1>5

\* A step that leaves the chain and the passes alone.
LEMMA ChainStays ==
    ASSUME PlannerTypeOK, UNCHANGED <<plannerChain, sweep>>
    PROVE  /\ armed' \in BOOLEAN /\ queued' \in Nat /\ unacked' \in Nat /\ lapses' = lapses
           /\ unsent' \in Nat
           /\ ChainInv => ChainInv'
  <1>1. armed' = armed /\ queued' = queued /\ unacked' = unacked /\ lapses' = lapses
          /\ sweep' = sweep /\ unsent' = unsent
    BY DEF plannerChain
  <1>2. armed \in BOOLEAN /\ queued \in Nat /\ unacked \in Nat /\ unsent \in Nat
    BY PlannerTypes
  <1> QED BY <1>1, <1>2 DEF ChainInv, Loops

\* All requests of the owner.
OwnerFrame ==
    /\ AgendaGoesOn /\ UNCHANGED <<sweep, pushes, failed, lapses, clock>>
    /\ armed' \in BOOLEAN /\ queued' \in Nat /\ unacked' \in Nat /\ unsent' \in Nat
    /\ ChainInv => ChainInv'

\* Each request is one of these.
LEMMA OwnerActsAre ==
    ASSUME PlannerTypeOK, RowsInOrder, OwnerActs
    PROVE  OwnerFrame /\ requests' \in 0..MaxRequests
  <1>1. requests' \in 0..MaxRequests
    BY PlannerAssumption DEF OwnerActs, PlannerTypeOK
  <1>2. ASSUME NEW k \in {"task", "event"}, NEW t \in 0..MaxClock, NEW r \in BOOLEAN,
               create_item(k, t, r)
        PROVE  OwnerFrame
    <2> DEFINE new == NewRow(k, t, t, r, made + 1)
    <2>1. Create(new) /\ ensure_sweep_armed /\ UNCHANGED <<clock, sweep, pushes, failed>>
      BY <1>2 DEF create_item
    <2>2. made + 1 \in 0..MaxItems
      BY <2>1, PlannerTypes DEF Create
    <2>3. t \in 0..(MaxClock + 1) /\ t \in 0..Never
      BY PlannerAssumption DEF Never
    <2>4. new \in AgendaRows
      BY <2>2, <2>3, NewRowIs
    <2>5. new.kind = k /\ new.status = "open" /\ new.series = made + 1 /\ new.notified = FALSE
      <3>1. NoRow \in AgendaRows /\ NoRow.notified = FALSE
        BY NoRowIs DEF NoRow
      <3> QED BY <3>1 DEF NewRow, AgendaRows
    <2> HIDE DEF new
    <2>6. AgendaGoesOn
      BY <2>1, <2>4, <2>5, CreateGoesOn
    <2> QED BY <2>1, <2>6, ArmingKeepsChain DEF OwnerFrame
  <1>3. ASSUME NEW i \in Ids, NEW s \in {"open", "done", "cancelled"},
               update_item(i, s, agenda[i].remind)
        PROVE  OwnerFrame
    <2>1. agenda[i].remind \in 0..Never
      BY PlannerTypes DEF AgendaRows
    <2>2. Exists(i) /\ Updated(i, s, agenda[i].remind) /\ made' = made /\ ensure_sweep_armed
          /\ UNCHANGED <<clock, sweep, pushes, failed>>
      BY <1>3 DEF update_item
    <2>3. AgendaGoesOn
      BY <2>1, <2>2, UpdatedGoesOn
    <2> QED BY <2>2, <2>3, ArmingKeepsChain DEF OwnerFrame
  <1>4. ASSUME NEW i \in Ids, NEW t \in 0..(MaxClock + 1), snooze_task(i, t) PROVE OwnerFrame
    <2>1. t \in 0..Never
      BY PlannerAssumption DEF Never
    <2>2. Exists(i) /\ Updated(i, "open", t) /\ made' = made
          /\ UNCHANGED <<clock, plannerChain, sweep, pushes, failed>>
      BY <1>4 DEF snooze_task, Rows
    <2>3. AgendaGoesOn
      BY <2>1, <2>2, UpdatedGoesOn
    <2> QED BY <2>2, <2>3, ChainStays DEF OwnerFrame
  <1>5. ASSUME NEW i \in Ids, complete_task(i) \/ undo_complete(i) PROVE OwnerFrame
    <2>1. UNCHANGED <<clock, plannerChain, sweep, pushes, failed>>
      BY <1>5 DEF complete_task, undo_complete
    <2>2. AgendaGoesOn
      BY <1>5, CompleteGoesOn, UndoCompleteGoesOn
    <2> QED BY <2>1, <2>2, ChainStays DEF OwnerFrame
  <1>6. ASSUME NEW i \in Ids, delete_item(i) PROVE OwnerFrame
    <2>1. UNCHANGED <<clock, made, plannerChain, sweep, pushes, failed>> /\ \E rows : Deleted(rows)
      BY <1>6 DEF delete_item
    <2>2. AgendaGoesOn
      BY <2>1, DeletedGoesOn
    <2> QED BY <2>1, <2>2, ChainStays DEF OwnerFrame
  <1>7. ASSUME NEW k, undo_create(k) PROVE OwnerFrame
    <2>1. UNCHANGED <<clock, made, plannerChain, sweep, pushes, failed>> /\ \E rows : Deleted(rows)
      BY <1>7 DEF undo_create
    <2>2. AgendaGoesOn
      BY <2>1, DeletedGoesOn
    <2> QED BY <2>1, <2>2, ChainStays DEF OwnerFrame
  <1>8. OwnerFrame
    BY <1>2, <1>3, <1>4, <1>5, <1>6, <1>7 DEF OwnerActs
  <1> QED BY <1>1, <1>8

\* The requests of the owner keep the invariant.
LEMMA OwnerKeeps ==
    ASSUME PlannerInv, OwnerActs
    PROVE  PlannerInv' /\ (PushesInv => PushesInv') /\ (SeriesInv => SeriesInv')
  <1>1. PlannerTypeOK /\ RowsInOrder /\ PassesInOrder /\ ChainInv
    BY DEF PlannerInv
  <1>2. OwnerFrame /\ requests' \in 0..MaxRequests
    BY <1>1, OwnerActsAre
  <1>3. AgendaGoesOn /\ UNCHANGED <<sweep, pushes, failed, lapses, clock>>
    BY <1>2 DEF OwnerFrame
  <1>4. RowsInOrder' /\ PassesInOrder' /\ (PushesInv => PushesInv') /\ (SeriesInv => SeriesInv')
    BY <1>1, <1>3, OwnerKeepsRows, OwnerKeepsPushes, OwnerKeepsSeries
  <1>5. ChainInv'
    BY <1>1, <1>2 DEF OwnerFrame
  <1>6. PlannerTypeOK'
    <2>1. /\ agenda' \in [Ids -> AgendaRows] /\ armed' \in BOOLEAN /\ queued' \in Nat
          /\ unacked' \in Nat /\ unsent' \in Nat /\ requests' \in 0..MaxRequests
      BY <1>2 DEF OwnerFrame, AgendaGoesOn
    <2>2. made' \in 0..MaxItems
      BY <1>1, <1>3, PlannerTypes DEF AgendaGoesOn
    <2>3. /\ clock' \in 0..MaxClock /\ sweep' \in [Sweepers -> PassStates]
          /\ pushes' \in [Ids -> Nat] /\ lapses' \in Nat /\ failed' \in Nat
      BY <1>1, <1>3, PlannerTypes DEF PlannerTypeOK
    <2> QED BY <2>1, <2>2, <2>3 DEF PlannerTypeOK, AgendaRows, PassStates
  <1> QED BY <1>4, <1>5, <1>6 DEF PlannerInv

\* The chain: a flag that lapses may start another, one that expires finds none, a
\* message handed out again is still one.
LEMMA ChainKeeps ==
    ASSUME PlannerInv,
           \/ arm_sweep_on_worker_ready \/ FlagLapses \/ FlagExpires
           \/ Redelivers \/ ClockTicks
    PROVE  PlannerInv' /\ (PushesInv => PushesInv') /\ (SeriesInv => SeriesInv')
  <1>1. PlannerTypeOK /\ RowsInOrder /\ PassesInOrder /\ ChainInv
    BY DEF PlannerInv
  <1>2. /\ UNCHANGED <<agenda, made, requests, sweep, pushes, failed>>
        /\ lapses' \in {lapses, lapses + 1}
    BY DEF arm_sweep_on_worker_ready, FlagLapses, FlagExpires, Redelivers, ClockTicks,
           plannerRows, plannerChain, ensure_sweep_armed
  <1>3. /\ lapses \in Nat /\ failed \in Nat /\ queued \in Nat /\ unacked \in Nat
        /\ unsent \in Nat
        /\ Cardinality(Active) \in Nat
        /\ Loops = queued + unacked + Cardinality(Active)
    BY <1>1, PlannerTypes, PassesAre
  <1>4. Active' = Active /\ Loops' = queued' + unacked' + Cardinality(Active')
        /\ \A i \in Ids : Pushed(i)' = Pushed(i) /\ ToPush(i)' = ToPush(i) /\ Settled(i)' = Settled(i)
    BY <1>2 DEF Active, Loops, Pushed, ToPush, Settled
  <1>5. armed' \in BOOLEAN /\ queued' \in Nat /\ unacked' \in Nat /\ lapses' \in Nat
        /\ unsent' \in Nat /\ clock' \in 0..MaxClock /\ ChainInv'
    <2>1. CASE arm_sweep_on_worker_ready
      BY <1>1, <1>2, <2>1, <1>3, ArmingKeepsChain DEF arm_sweep_on_worker_ready, plannerRows, PlannerTypeOK
    <2>2. CASE FlagLapses
      <3>1. armed /\ armed' = FALSE /\ lapses' = lapses + 1 /\ queued' = queued
            /\ unacked' = unacked /\ unsent' = unsent /\ clock' = clock
        BY <2>2 DEF FlagLapses, plannerRows
      <3>2. (IF armed THEN 1 ELSE 0) = 1 /\ (IF armed' THEN 1 ELSE 0) = 0 /\ armed' \in BOOLEAN
        BY <3>1
      <3>3. Loops <= lapses + 1
        BY <1>1, <3>2 DEF ChainInv
      <3>4. Loops' = Loops
        BY <1>3, <1>4, <3>1
      <3>5. ChainInv'
        BY <1>3, <3>1, <3>2, <3>3, <3>4 DEF ChainInv
      <3> QED BY <1>1, <1>3, <3>1, <3>2, <3>5 DEF PlannerTypeOK
    <2>3. CASE Redelivers
      <3>1. armed' = armed /\ lapses' = lapses /\ queued' = queued + 1 /\ unacked' = unacked - 1
            /\ unacked > 0 /\ unsent' = unsent /\ clock' = clock
        BY <2>3 DEF Redelivers, plannerRows
      <3>2. Loops' = Loops /\ queued' \in Nat /\ unacked' \in Nat
        BY <1>3, <1>4, <3>1
      <3> QED BY <1>1, <1>3, <3>1, <3>2 DEF PlannerTypeOK, ChainInv
    <2>4. CASE ClockTicks
      <3>1. plannerChain' = plannerChain /\ sweep' = sweep /\ clock' \in 0..MaxClock
        BY <1>1, <2>4, PlannerAssumption DEF ClockTicks, PlannerTypeOK
      <3> QED BY <1>1, <1>3, <3>1, ChainStays
    <2>5. CASE FlagExpires
      <3>1. Loops = 0 /\ armed' = FALSE /\ lapses' = lapses /\ queued' = queued
            /\ unacked' = unacked /\ unsent' = unsent /\ clock' = clock
        BY <2>5 DEF FlagExpires, plannerRows
      <3>2. Loops' = 0
        BY <1>3, <1>4, <3>1
      <3>3. ChainInv'
        BY <1>3, <3>1, <3>2 DEF ChainInv
      <3>4. armed' \in BOOLEAN /\ clock' \in 0..MaxClock
        BY <1>1, <3>1 DEF PlannerTypeOK
      <3> QED BY <1>3, <3>1, <3>3, <3>4
    <2> QED BY <2>1, <2>2, <2>3, <2>4, <2>5
  <1>6. PlannerTypeOK'
    <2>1. UNCHANGED <<agenda, made, requests, sweep, pushes, failed>>
      BY <1>2
    <2> QED BY <1>1, <1>5, <2>1 DEF PlannerTypeOK
  <1>7. RowsInOrder' /\ PassesInOrder'
    BY <1>1, <1>2 DEF RowsInOrder, PassesInOrder
  <1>8. ASSUME PushesInv PROVE PushesInv'
    <2>1. ASSUME NEW i \in Ids
          PROVE  /\ ~Settled(i)' => pushes'[i] <= Cardinality(Pushed(i)') + failed'
                 /\ Settled(i)' => pushes'[i] + Cardinality(ToPush(i)') <= 1 + lapses' + failed'
      <3>1. /\ ~Settled(i) => pushes[i] <= Cardinality(Pushed(i)) + failed
            /\ Settled(i) => pushes[i] + Cardinality(ToPush(i)) <= 1 + lapses + failed
        BY <1>8 DEF PushesInv
      <3>2. pushes[i] \in Nat /\ Cardinality(ToPush(i)) \in Nat
        BY <1>1, PlannerTypes, PassesAre
      <3> QED BY <1>2, <1>3, <1>4, <3>1, <3>2
    <2> QED BY <2>1 DEF PushesInv
  <1>9. ASSUME SeriesInv PROVE SeriesInv'
    <2>1. lapses' = 0 => lapses = 0
      BY <1>2, <1>3
    <2> QED BY <1>2, <1>9, <2>1 DEF SeriesInv, NoFork, RollsAlone, OpenEvent
  <1> QED BY <1>5, <1>6, <1>7, <1>8, <1>9 DEF PlannerInv

\* One pass moves: who holds what, before and after.
B2N(b) == IF b THEN 1 ELSE 0

\* The counts follow the one pass that moves.
LEMMA PassMoves ==
    ASSUME PlannerTypeOK, NEW w \in Sweepers, NEW p \in PassStates, sweep' = [sweep EXCEPT ![w] = p]
    PROVE  /\ sweep' \in [Sweepers -> PassStates] /\ sweep'[w] = p
           /\ \A v \in Sweepers \ {w} : sweep'[v] = sweep[v]
           /\ Cardinality(Active') = Cardinality(Active) + B2N(p.at # "idle")
                                                         - B2N(sweep[w].at # "idle")
           /\ \A i \in Ids :
                 /\ Cardinality(ToPush(i)') = Cardinality(ToPush(i)) + B2N(i \in p.todo)
                                                                     - B2N(i \in sweep[w].todo)
                 /\ Cardinality(Pushed(i)') = Cardinality(Pushed(i)) + B2N(i \in p.marks)
                                                                     - B2N(i \in sweep[w].marks)
  <1>1. sweep \in [Sweepers -> PassStates]
    BY PlannerTypes
  <1>2. /\ sweep' \in [Sweepers -> PassStates] /\ sweep'[w] = p
        /\ \A v \in Sweepers \ {w} : sweep'[v] = sweep[v]
    BY <1>1
  <1>3. Cardinality(Active') = Cardinality(Active) + B2N(p.at # "idle") - B2N(sweep[w].at # "idle")
    <2>1. Active \ {w} = Active' \ {w} /\ (w \in Active' <=> p.at # "idle")
          /\ (w \in Active <=> sweep[w].at # "idle")
      BY <1>2 DEF Active
    <2>2. IsFiniteSet(Active)
      BY PassesAre
    <2> QED BY <2>1, <2>2, OneMore DEF B2N
  <1>4. ASSUME NEW i \in Ids
        PROVE  Cardinality(ToPush(i)') = Cardinality(ToPush(i)) + B2N(i \in p.todo)
                                                                - B2N(i \in sweep[w].todo)
    <2>1. ToPush(i) \ {w} = ToPush(i)' \ {w} /\ (w \in ToPush(i)' <=> i \in p.todo)
          /\ (w \in ToPush(i) <=> i \in sweep[w].todo)
      BY <1>2 DEF ToPush
    <2>2. IsFiniteSet(ToPush(i))
      BY PassesAre
    <2> QED BY <2>1, <2>2, OneMore DEF B2N
  <1>5. ASSUME NEW i \in Ids
        PROVE  Cardinality(Pushed(i)') = Cardinality(Pushed(i)) + B2N(i \in p.marks)
                                                                - B2N(i \in sweep[w].marks)
    <2>1. Pushed(i) \ {w} = Pushed(i)' \ {w} /\ (w \in Pushed(i)' <=> i \in p.marks)
          /\ (w \in Pushed(i) <=> i \in sweep[w].marks)
      BY <1>2 DEF Pushed
    <2>2. IsFiniteSet(Pushed(i))
      BY PassesAre
    <2> QED BY <2>1, <2>2, OneMore DEF B2N
  <1> QED BY <1>2, <1>3, <1>4, <1>5

\* What the invariant says of one pass.
PassFits(p) ==
    /\ p.todo \cup p.marks \cup p.rolls \subseteq 1..made
    /\ p.todo \cap p.marks = {}
    /\ p.at = "idle" => p = NoSweep
    /\ p.at = "commit" => p.todo = {}
    /\ p.at = "task" => \A i \in p.todo \cup p.marks : agenda[i].kind # "event"
    /\ \A i \in p.rolls : agenda[i].kind # "task"

\* All passes fit.
LEMMA PassesFit == PassesInOrder <=> \A w \in Sweepers : PassFits(sweep[w])
  BY DEF PassesInOrder, PassFits

\* A step of one pass that leaves the agenda alone: the pass it becomes fits, and a
\* message it took or sends is the one counted, unless it is lost.
PassStep(w, p) ==
    /\ sweep' = [sweep EXCEPT ![w] = p] /\ UNCHANGED <<plannerRows, armed, lapses>>
    /\ queued' \in Nat /\ unacked' \in Nat /\ failed' \in Nat /\ unsent' \in Nat
    /\ queued' + unacked' + B2N(p.at # "idle") <= queued + unacked + B2N(sweep[w].at # "idle")
    /\ pushes' \in [Ids -> Nat]
    /\ \A i \in Ids : i > made => pushes'[i] = 0

\* Such a step keeps rows, passes and chain in order.
LEMMA PassGoesOn ==
    ASSUME PlannerInv, NEW w \in Sweepers, NEW p \in PassStates, PassFits(p), PassStep(w, p)
    PROVE  PlannerInv'
  <1>1. PlannerTypeOK /\ RowsInOrder /\ PassesInOrder /\ ChainInv
    BY DEF PlannerInv
  <1>2. UNCHANGED <<clock, agenda, made, requests, armed, lapses>>
        /\ sweep' = [sweep EXCEPT ![w] = p]
    BY DEF PassStep, plannerRows
  <1>3. /\ sweep' \in [Sweepers -> PassStates] /\ sweep'[w] = p
        /\ \A v \in Sweepers \ {w} : sweep'[v] = sweep[v]
        /\ Cardinality(Active') = Cardinality(Active) + B2N(p.at # "idle")
                                                      - B2N(sweep[w].at # "idle")
    BY <1>1, <1>2, PassMoves
  <1>4. PlannerTypeOK'
    <2>1. queued' \in Nat /\ unacked' \in Nat /\ failed' \in Nat /\ unsent' \in Nat /\ pushes' \in [Ids -> Nat]
      BY DEF PassStep
    <2> QED BY <1>1, <1>2, <1>3, <2>1 DEF PlannerTypeOK, PassStates
  <1>5. RowsInOrder'
    BY <1>1, <1>2 DEF RowsInOrder, PassStep
  <1>6. PassesInOrder'
    <2>1. \A v \in Sweepers : PassFits(sweep[v])
      BY <1>1, PassesFit
    <2>2. \A v \in Sweepers : PassFits(sweep'[v])
      BY <1>3, <2>1
    <2> QED BY <1>2, <2>2 DEF PassesInOrder, PassFits
  <1>7. ChainInv'
    <2>1. B2N(p.at # "idle") \in Nat /\ B2N(sweep[w].at # "idle") \in Nat
      BY DEF B2N
    <2>2. queued \in Nat /\ unacked \in Nat /\ lapses \in Nat /\ Cardinality(Active) \in Nat
          /\ Loops = queued + unacked + Cardinality(Active)
      BY <1>1, PlannerTypes, PassesAre
    <2>3. Loops' = queued' + unacked' + Cardinality(Active')
      BY DEF Loops, Active
    <2>4. queued' \in Nat /\ unacked' \in Nat
          /\ queued' + unacked' + B2N(p.at # "idle")
                <= queued + unacked + B2N(sweep[w].at # "idle")
      BY DEF PassStep
    <2>5. Loops' <= Loops /\ Loops \in Nat /\ Loops' \in Int
      BY <1>3, <2>1, <2>2, <2>3, <2>4
    <2>6. armed' = armed /\ lapses' = lapses /\ (IF armed THEN 1 ELSE 0) \in Nat
      BY <1>2
    <2> QED BY <1>1, <2>2, <2>5, <2>6 DEF ChainInv
  <1> QED BY <1>4, <1>5, <1>6, <1>7 DEF PlannerInv

\* What such a step may do to the counts of a reminder.
LEMMA PassPushes ==
    ASSUME PlannerInv, NEW w \in Sweepers, NEW p \in PassStates, PassStep(w, p), PushesInv,
           \A i \in Ids :
              /\ ~Settled(i) => pushes'[i] + B2N(i \in sweep[w].marks) + failed
                                   <= pushes[i] + B2N(i \in p.marks) + failed'
              /\ Settled(i) => pushes'[i] + B2N(i \in p.todo) + failed
                                   <= pushes[i] + B2N(i \in sweep[w].todo) + failed'
    PROVE  PushesInv'
  <1>1. PlannerTypeOK
    BY DEF PlannerInv
  <1>2. UNCHANGED <<agenda, made, lapses>> /\ sweep' = [sweep EXCEPT ![w] = p]
    BY DEF PassStep, plannerRows
  <1>3. ASSUME NEW i \in Ids
        PROVE  /\ ~Settled(i)' => pushes'[i] <= Cardinality(Pushed(i)') + failed'
               /\ Settled(i)' => pushes'[i] + Cardinality(ToPush(i)') <= 1 + lapses' + failed'
    <2>1. Settled(i)' = Settled(i) /\ lapses' = lapses
      BY <1>2 DEF Settled
    <2>2. /\ Cardinality(ToPush(i)') = Cardinality(ToPush(i)) + B2N(i \in p.todo)
                                                              - B2N(i \in sweep[w].todo)
          /\ Cardinality(Pushed(i)') = Cardinality(Pushed(i)) + B2N(i \in p.marks)
                                                              - B2N(i \in sweep[w].marks)
      BY ZenonT(60), <1>1, <1>2, PassMoves
    <2>3. /\ B2N(i \in p.todo) \in Nat /\ B2N(i \in sweep[w].todo) \in Nat
          /\ B2N(i \in p.marks) \in Nat /\ B2N(i \in sweep[w].marks) \in Nat
      BY DEF B2N
    <2>4. /\ pushes[i] \in Nat /\ pushes'[i] \in Nat /\ failed \in Nat /\ failed' \in Nat
          /\ lapses \in Nat /\ Cardinality(ToPush(i)) \in Nat /\ Cardinality(Pushed(i)) \in Nat
      BY <1>1, PlannerTypes, PassesAre DEF PassStep
    <2>5. /\ ~Settled(i) => pushes[i] <= Cardinality(Pushed(i)) + failed
          /\ Settled(i) => pushes[i] + Cardinality(ToPush(i)) <= 1 + lapses + failed
      BY DEF PushesInv
    <2> QED BY <2>1, <2>2, <2>3, <2>4, <2>5
  <1> QED BY <1>3 DEF PushesInv

\* What a pass rolls it takes from the active instances, of which a series has one.
LEMMA PassSeries ==
    ASSUME PlannerInv, NEW w \in Sweepers, NEW p \in PassStates, PassStep(w, p), SeriesInv,
           p.rolls \subseteq sweep[w].rolls \/ p.rolls \subseteq {i \in Ids : OpenEvent(i)}
    PROVE  SeriesInv'
  <1>1. PlannerTypeOK
    BY DEF PlannerInv
  <1>2. UNCHANGED <<agenda, lapses>> /\ sweep' = [sweep EXCEPT ![w] = p]
    BY DEF PassStep, plannerRows
  <1>3. sweep'[w] = p /\ \A v \in Sweepers \ {w} : sweep'[v] = sweep[v]
    BY <1>1, <1>2, PassMoves
  <1> SUFFICES ASSUME lapses = 0 PROVE NoFork' /\ RollsAlone'
    BY <1>2 DEF SeriesInv
  <1>4. NoFork /\ RollsAlone
    BY DEF SeriesInv
  <1>5. NoFork'
    BY <1>2, <1>4 DEF NoFork, OpenEvent
  <1>6. ASSUME NEW v \in Sweepers, NEW i \in sweep'[v].rolls, NEW j \in Ids, j # i,
               agenda[i].series # 0, agenda[j].kind = "event",
               OpenEvent(j) \/ j \in sweep'[v].rolls
        PROVE  agenda[j].series # agenda[i].series
    <2>1. CASE v # w
      BY <1>3, <1>4, <1>6, <2>1 DEF RollsAlone
    <2>2. CASE v = w /\ p.rolls \subseteq sweep[w].rolls
      BY <1>3, <1>4, <1>6, <2>2 DEF RollsAlone
    <2>3. CASE v = w /\ p.rolls \subseteq {k \in Ids : OpenEvent(k)}
      BY <1>3, <1>4, <1>6, <2>3 DEF NoFork
    <2> QED BY <2>1, <2>2, <2>3
  <1>7. RollsAlone'
    BY <1>2, <1>6 DEF RollsAlone, OpenEvent
  <1> QED BY <1>5, <1>7

\* A pass that has not begun, or is over, holds nothing.
LEMMA NoSweepIs ==
    /\ NoSweep \in PassStates /\ NoSweep.at = "idle" /\ NoSweep.todo = {} /\ NoSweep.marks = {}
    /\ NoSweep.rolls = {}
  <1>1. 0 \in 0..MaxClock
    BY PlannerAssumption
  <1> QED BY <1>1 DEF NoSweep, PassStates

PassKeeps == PlannerInv' /\ (PushesInv => PushesInv') /\ (SeriesInv => SeriesInv')

\* A pass takes its message and loads the tasks that are due.
LEMMA StartKeeps ==
    ASSUME PlannerInv, NEW w \in Sweepers, SweepStarts(w)
    PROVE  PassKeeps
  <1> DEFINE T == Batch("task", clock)
             p == [NoSweep EXCEPT !.at = "task", !.now = clock, !.todo = T]
  <1>1. PlannerTypeOK /\ RowsInOrder /\ PassesInOrder /\ clock \in 0..MaxClock
    BY DEF PlannerInv, PlannerTypeOK
  <1>2. sweep[w].at = "idle" /\ queued > 0 /\ queued' = queued - 1
          /\ sweep' = [sweep EXCEPT ![w] = p]
        /\ UNCHANGED <<plannerRows, armed, unacked, lapses, unsent, pushes, failed>>
    BY DEF SweepStarts
  <1>3. \A i \in T : i \in Ids /\ i \in 1..made /\ ~Settled(i) /\ agenda[i].kind = "task"
    BY <1>1, BatchIs
  <1> HIDE DEF T
  <1>4. p \in PassStates /\ p.at = "task" /\ p.todo = T /\ p.marks = {} /\ p.rolls = {}
    <2>1. T \subseteq Ids
      BY <1>3
    <2> QED BY <1>1, <2>1, NoSweepIs DEF PassStates
  <1> HIDE DEF p
  <1>5. PassFits(p)
    BY <1>3, <1>4 DEF PassFits
  <1>6. sweep[w].marks = {} /\ sweep[w].todo = {} /\ sweep[w].rolls = {}
    BY <1>1, <1>2, NoSweepIs DEF PassesInOrder
  <1>7. PassStep(w, p)
    <2>1. B2N(p.at # "idle") = 1 /\ B2N(sweep[w].at # "idle") = 0
      BY <1>2, <1>4 DEF B2N
    <2>2. /\ queued \in Nat /\ unacked \in Nat /\ failed \in Nat /\ unsent \in Nat
          /\ pushes \in [Ids -> Nat]
      BY <1>1, PlannerTypes
    <2>3. \A i \in Ids : i > made => pushes[i] = 0
      BY <1>1 DEF RowsInOrder
    <2> QED BY <1>2, <2>1, <2>2, <2>3 DEF PassStep
  <1>8. ASSUME NEW i \in Ids
        PROVE  /\ ~Settled(i) => pushes'[i] + B2N(i \in sweep[w].marks) + failed
                                    <= pushes[i] + B2N(i \in p.marks) + failed'
               /\ Settled(i) => pushes'[i] + B2N(i \in p.todo) + failed
                                    <= pushes[i] + B2N(i \in sweep[w].todo) + failed'
    <2>1. pushes'[i] = pushes[i] /\ failed' = failed /\ pushes[i] \in Nat /\ failed \in Nat
      BY <1>1, <1>2, PlannerTypes
    <2>2. Settled(i) => i \notin p.todo
      BY <1>3, <1>4
    <2>3. i \notin p.marks /\ i \notin sweep[w].marks /\ i \notin sweep[w].todo
      BY <1>4, <1>6
    <2> QED BY <2>1, <2>2, <2>3 DEF B2N
  <1>9. p.rolls \subseteq sweep[w].rolls
    BY <1>4
  <1> QED BY <1>4, <1>5, <1>7, <1>8, <1>9, PassGoesOn, PassPushes, PassSeries DEF PassKeeps

\* A reminder is pushed: one more push of a pass that holds it.
LEMMA PushKeeps ==
    ASSUME PlannerInv, NEW w \in Sweepers, push_notification(w)
    PROVE  PassKeeps
  <1>1. PlannerTypeOK /\ RowsInOrder /\ PassesInOrder /\ sweep \in [Sweepers -> PassStates]
        /\ sweep[w] \in PassStates
    BY PlannerTypes DEF PlannerInv
  <1>2. PICK k \in sweep[w].todo : /\ pushes' = [pushes EXCEPT ![k] = @ + 1]
                                   /\ sweep' = [sweep EXCEPT ![w].todo = @ \ {k},
                                                             ![w].marks = @ \cup {k}]
    BY DEF push_notification
  <1> DEFINE p == [sweep[w] EXCEPT !.todo = sweep[w].todo \ {k}, !.marks = sweep[w].marks \cup {k}]
  <1>3. sweep' = [sweep EXCEPT ![w] = p] /\ UNCHANGED <<plannerRows, plannerChain, failed>>
    BY <1>1, <1>2 DEF push_notification, PassStates
  <1>4. PassFits(sweep[w])
    BY <1>1, PassesFit
  <1>5. k \in Ids /\ k \in 1..made /\ k \notin sweep[w].marks
    BY <1>1, <1>2, <1>4 DEF PassFits, PassStates
  <1>6. /\ p \in PassStates /\ p.at = sweep[w].at /\ p.todo = sweep[w].todo \ {k}
        /\ p.marks = sweep[w].marks \cup {k} /\ p.rolls = sweep[w].rolls /\ p.now = sweep[w].now
    <2>1. sweep[w].todo \ {k} \in SUBSET Ids /\ sweep[w].marks \cup {k} \in SUBSET Ids
      BY <1>1, <1>5 DEF PassStates
    <2> QED BY <1>1, <2>1 DEF PassStates
  <1> HIDE DEF p
  <1>7. PassFits(p)
    <2>1. sweep[w].at # "idle"
      BY <1>2, <1>4, NoSweepIs DEF PassFits
    <2>2. sweep[w].at # "commit"
      BY <1>2, <1>4 DEF PassFits
    <2> QED BY <1>2, <1>4, <1>5, <1>6, <2>1, <2>2 DEF PassFits
  <1>8. pushes' \in [Ids -> Nat] /\ pushes'[k] = pushes[k] + 1
        /\ \A i \in Ids : i # k => pushes'[i] = pushes[i]
    BY <1>1, <1>2, <1>5, PlannerTypes
  <1>9. PassStep(w, p)
    <2>1. queued \in Nat /\ unacked \in Nat /\ failed \in Nat /\ unsent \in Nat /\ made \in Nat
      BY <1>1, PlannerTypes
    <2>2. \A i \in Ids : i > made => pushes'[i] = 0
      <3>1. \A i \in Ids : i > made => i # k
        BY <1>5, <2>1
      <3> QED BY <1>1, <1>8, <3>1 DEF RowsInOrder
    <2>3. UNCHANGED <<armed, queued, unacked, lapses, unsent>>
      BY <1>3 DEF plannerChain
    <2>4. B2N(p.at # "idle") = B2N(sweep[w].at # "idle") /\ B2N(sweep[w].at # "idle") \in Nat
      BY <1>6 DEF B2N
    <2>5. UNCHANGED <<plannerRows, failed>>
      BY <1>3
    <2> HIDE DEF B2N
    <2> QED BY <1>3, <1>8, <2>1, <2>2, <2>3, <2>4, <2>5 DEF PassStep
  <1>10. ASSUME NEW i \in Ids
         PROVE  /\ ~Settled(i) => pushes'[i] + B2N(i \in sweep[w].marks) + failed
                                     <= pushes[i] + B2N(i \in p.marks) + failed'
                /\ Settled(i) => pushes'[i] + B2N(i \in p.todo) + failed
                                     <= pushes[i] + B2N(i \in sweep[w].todo) + failed'
    <2>1. failed' = failed /\ pushes[i] \in Nat /\ failed \in Nat
      BY <1>1, <1>3, PlannerTypes
    <2>2. CASE i = k
      <3>1. i \in p.marks /\ i \notin sweep[w].marks /\ i \in sweep[w].todo /\ i \notin p.todo
        BY <1>2, <1>5, <1>6, <2>2
      <3> QED BY <1>8, <2>1, <2>2, <3>1 DEF B2N
    <2>3. CASE i # k
      <3>1. (i \in p.marks <=> i \in sweep[w].marks) /\ (i \in sweep[w].todo <=> i \in p.todo)
        BY <1>6, <2>3
      <3> QED BY <1>8, <2>1, <2>3, <3>1 DEF B2N
    <2> QED BY <2>2, <2>3
  <1>11. p.rolls \subseteq sweep[w].rolls
    BY <1>6
  <1> QED BY <1>6, <1>7, <1>9, <1>10, <1>11, PassGoesOn, PassPushes, PassSeries DEF PassKeeps

\* The pass loads the events that are due: none of them is a task it pushed.
LEMMA TurnKeeps ==
    ASSUME PlannerInv, NEW w \in Sweepers, TurnsToEvents(w)
    PROVE  PassKeeps
  <1> DEFINE T == Batch("event", sweep[w].now)
             p == [sweep[w] EXCEPT !.at = "event", !.todo = T]
  <1>1. PlannerTypeOK /\ RowsInOrder /\ PassesInOrder /\ sweep \in [Sweepers -> PassStates]
        /\ sweep[w] \in PassStates
    BY PlannerTypes DEF PlannerInv
  <1>2. sweep[w].at = "task" /\ sweep[w].todo = {}
        /\ UNCHANGED <<plannerRows, plannerChain, pushes, failed>>
    BY DEF TurnsToEvents
  <1>3. \A i \in T : i \in Ids /\ i \in 1..made /\ ~Settled(i) /\ agenda[i].kind = "event"
    BY <1>1, BatchIs
  <1>b. sweep' = [sweep EXCEPT ![w].at = "event", ![w].todo = T]
    BY DEF TurnsToEvents
  <1> HIDE DEF T
  <1>4. sweep' = [sweep EXCEPT ![w] = p]
    BY <1>1, <1>b DEF PassStates
  <1>5. PassFits(sweep[w])
    BY <1>1, PassesFit
  <1>6. /\ p \in PassStates /\ p.at = "event" /\ p.todo = T
        /\ p.marks = sweep[w].marks /\ p.rolls = sweep[w].rolls
    <2>1. T \in SUBSET Ids
      BY <1>3
    <2> QED BY <1>1, <2>1 DEF PassStates
  <1> HIDE DEF p
  <1>7. PassFits(p)
    BY <1>2, <1>3, <1>5, <1>6 DEF PassFits
  <1>8. PassStep(w, p)
    <2>1. B2N(p.at # "idle") = 1 /\ B2N(sweep[w].at # "idle") = 1
      BY <1>2, <1>6 DEF B2N
    <2>2. /\ queued \in Nat /\ unacked \in Nat /\ failed \in Nat /\ unsent \in Nat
          /\ pushes \in [Ids -> Nat]
      BY <1>1, PlannerTypes
    <2>3. \A i \in Ids : i > made => pushes[i] = 0
      BY <1>1 DEF RowsInOrder
    <2>4. UNCHANGED <<plannerRows, armed, queued, unacked, lapses, unsent, pushes, failed>>
      BY <1>2 DEF plannerChain
    <2> QED BY <1>4, <2>1, <2>2, <2>3, <2>4 DEF PassStep
  <1>9. ASSUME NEW i \in Ids
        PROVE  /\ ~Settled(i) => pushes'[i] + B2N(i \in sweep[w].marks) + failed
                                    <= pushes[i] + B2N(i \in p.marks) + failed'
               /\ Settled(i) => pushes'[i] + B2N(i \in p.todo) + failed
                                    <= pushes[i] + B2N(i \in sweep[w].todo) + failed'
    <2>1. pushes'[i] = pushes[i] /\ failed' = failed /\ pushes[i] \in Nat /\ failed \in Nat
      BY <1>1, <1>2, PlannerTypes
    <2>2. (Settled(i) => i \notin p.todo) /\ i \notin sweep[w].todo /\ p.marks = sweep[w].marks
      BY <1>2, <1>3, <1>6
    <2> QED BY <2>1, <2>2 DEF B2N
  <1>10. p.rolls \subseteq sweep[w].rolls
    BY <1>6
  <1> QED BY <1>6, <1>7, <1>8, <1>9, <1>10, PassGoesOn, PassPushes, PassSeries DEF PassKeeps

\* The pass loads the events that ended and repeat: active instances all.
LEMMA RollKeeps ==
    ASSUME PlannerInv, NEW w \in Sweepers, _roll_past_events(w)
    PROVE  PassKeeps
  <1> DEFINE R == {i \in Rows("event") : /\ Open(i) /\ agenda[i].repeats
                                         /\ agenda[i].at <= sweep[w].now /\ made < MaxItems}
             p == [sweep[w] EXCEPT !.at = "commit", !.rolls = R]
  <1>1. PlannerTypeOK /\ RowsInOrder /\ PassesInOrder /\ sweep \in [Sweepers -> PassStates]
        /\ sweep[w] \in PassStates
    BY PlannerTypes DEF PlannerInv
  <1>2. sweep[w].at = "event" /\ sweep[w].todo = {}
        /\ UNCHANGED <<plannerRows, plannerChain, pushes, failed>>
        /\ sweep' = [sweep EXCEPT ![w].at = "commit", ![w].rolls = R]
    BY DEF _roll_past_events
  <1>3. ASSUME NEW i \in R PROVE i \in Ids /\ i \in 1..made /\ agenda[i].kind = "event"
          /\ OpenEvent(i)
    <2>1. i \in Ids /\ agenda[i].kind = "event" /\ agenda[i].status = "open"
      BY <1>3 DEF Rows, Open
    <2>2. made \in Nat
      BY <1>1, PlannerTypes
    <2>3. ~(i > made)
      BY <1>1, <2>1 DEF RowsInOrder, NoRow
    <2>4. i \in 1..made
      BY <2>1, <2>2, <2>3 DEF Ids
    <2> QED BY <2>1, <2>4 DEF OpenEvent
  <1> HIDE DEF R
  <1>4. sweep' = [sweep EXCEPT ![w] = p]
    BY <1>1, <1>2 DEF PassStates
  <1>5. PassFits(sweep[w])
    BY <1>1, PassesFit
  <1>6. /\ p \in PassStates /\ p.at = "commit" /\ p.todo = {}
        /\ p.marks = sweep[w].marks /\ p.rolls = R
    <2>1. R \in SUBSET Ids
      BY <1>3
    <2> QED BY <1>1, <1>2, <2>1 DEF PassStates
  <1> HIDE DEF p
  <1>7. PassFits(p)
    BY <1>2, <1>3, <1>5, <1>6 DEF PassFits
  <1>8. PassStep(w, p)
    <2>1. B2N(p.at # "idle") = 1 /\ B2N(sweep[w].at # "idle") = 1
      BY <1>2, <1>6 DEF B2N
    <2>2. /\ queued \in Nat /\ unacked \in Nat /\ failed \in Nat /\ unsent \in Nat
          /\ pushes \in [Ids -> Nat]
      BY <1>1, PlannerTypes
    <2>3. \A i \in Ids : i > made => pushes[i] = 0
      BY <1>1 DEF RowsInOrder
    <2>4. UNCHANGED <<plannerRows, armed, queued, unacked, lapses, unsent, pushes, failed>>
      BY <1>2 DEF plannerChain
    <2> QED BY <1>4, <2>1, <2>2, <2>3, <2>4 DEF PassStep
  <1>9. ASSUME NEW i \in Ids
        PROVE  /\ ~Settled(i) => pushes'[i] + B2N(i \in sweep[w].marks) + failed
                                    <= pushes[i] + B2N(i \in p.marks) + failed'
               /\ Settled(i) => pushes'[i] + B2N(i \in p.todo) + failed
                                    <= pushes[i] + B2N(i \in sweep[w].todo) + failed'
    <2>1. pushes'[i] = pushes[i] /\ failed' = failed /\ pushes[i] \in Nat /\ failed \in Nat
      BY <1>1, <1>2, PlannerTypes
    <2>2. i \notin p.todo /\ p.marks = sweep[w].marks
      BY <1>6
    <2> QED BY <2>1, <2>2 DEF B2N
  <1>10. p.rolls \subseteq {i \in Ids : OpenEvent(i)}
    BY <1>3, <1>6
  <1> QED BY <1>6, <1>7, <1>8, <1>9, <1>10, PassGoesOn, PassPushes, PassSeries DEF PassKeeps

\* Nothing added changes no bound.
LEMMA AddsNothing ==
    ASSUME NEW a \in Nat, NEW b \in Nat, NEW c \in Nat, NEW d \in Nat, a + b <= c + d + 1
    PROVE  a + b + 0 <= c + d + 1
  OBVIOUS

\* A pass that is over without a commit has failed, and its message is another's, or
\* lost.
LEMMA FailedKeeps ==
    ASSUME PlannerInv, NEW w \in Sweepers, sweep[w].at # "idle", failed' = failed + 1,
           sweep' = [sweep EXCEPT ![w] = NoSweep], UNCHANGED <<plannerRows, armed, lapses, pushes>>,
           queued' \in Nat, unacked' \in Nat, unsent' \in Nat,
           queued' + unacked' <= queued + unacked + 1
    PROVE  PassKeeps
  <1>1. PlannerTypeOK /\ RowsInOrder
    BY DEF PlannerInv
  <1>2. PassFits(NoSweep)
    BY NoSweepIs DEF PassFits
  <1>3. PassStep(w, NoSweep)
    <2>1. B2N(NoSweep.at # "idle") = 0 /\ B2N(sweep[w].at # "idle") = 1
      BY NoSweepIs DEF B2N
    <2>2. /\ queued \in Nat /\ unacked \in Nat /\ failed \in Nat /\ unsent \in Nat
          /\ pushes \in [Ids -> Nat]
      BY <1>1, PlannerTypes
    <2>3. \A i \in Ids : i > made => pushes'[i] = 0
      BY <1>1 DEF RowsInOrder
    <2>4. queued' + unacked' + B2N(NoSweep.at # "idle")
             <= queued + unacked + B2N(sweep[w].at # "idle")
      <3>1. queued' \in Nat /\ unacked' \in Nat /\ queued' + unacked' <= queued + unacked + 1
        OBVIOUS
      <3>2. queued \in Nat /\ unacked \in Nat
        BY <2>2
      <3>3. queued' + unacked' + 0 <= queued + unacked + 1
        BY <3>1, <3>2, AddsNothing, Zenon
      <3> QED BY <2>1, <3>3, Zenon
    <2>5. failed' \in Nat /\ pushes' \in [Ids -> Nat]
      BY <2>2
    <2> QED BY <2>3, <2>4, <2>5 DEF PassStep
  <1>4. ASSUME NEW i \in Ids
        PROVE  /\ ~Settled(i) => pushes'[i] + B2N(i \in sweep[w].marks) + failed
                                    <= pushes[i] + B2N(i \in NoSweep.marks) + failed'
               /\ Settled(i) => pushes'[i] + B2N(i \in NoSweep.todo) + failed
                                    <= pushes[i] + B2N(i \in sweep[w].todo) + failed'
    <2>1. pushes'[i] = pushes[i] /\ failed' = failed + 1 /\ pushes[i] \in Nat /\ failed \in Nat
      BY <1>1, PlannerTypes
    <2>2. i \notin NoSweep.todo /\ i \notin NoSweep.marks
      BY NoSweepIs
    <2> QED BY <2>1, <2>2 DEF B2N
  <1>5. NoSweep.rolls \subseteq sweep[w].rolls
    BY NoSweepIs
  <1> QED BY <1>2, <1>3, <1>4, <1>5, NoSweepIs, PassGoesOn, PassPushes, PassSeries DEF PassKeeps

\* A pass commits: it marks what it pushed, closes what it rolled and makes the next.
LEMMA CommitKeeps ==
    ASSUME PlannerInv, NEW w \in Sweepers, SweepEnds(w),
           \A i \in sweep[w].marks \cup sweep[w].rolls : Exists(i),
           made + Cardinality(sweep[w].rolls) <= MaxItems
    PROVE  PassKeeps
  <1> DEFINE S == sweep[w].marks
             R == sweep[w].rolls
             n == Cardinality(R)
  <1>1. PlannerTypeOK /\ RowsInOrder /\ PassesInOrder /\ ChainInv
    BY DEF PlannerInv
  <1>2. /\ sweep[w].at = "commit" /\ agenda' = Rolled(S, R) /\ made' = made + n /\ armed' = TRUE
        /\ failed' = failed /\ Sends /\ sweep' = [sweep EXCEPT ![w] = NoSweep]
        /\ UNCHANGED <<clock, requests, unacked, lapses, pushes>>
    BY DEF SweepEnds, Commits
  <1>a. queued' \in Nat /\ unsent' \in Nat /\ queued' <= queued + 1
    BY <1>1, <1>2, PlannerTypes, SendsIs
  <1>3. PassFits(sweep[w])
    BY <1>1, PassesFit
  <1>4. S \subseteq 1..made /\ R \subseteq 1..made /\ sweep[w].todo = {}
    BY <1>2, <1>3 DEF PassFits
  <1>5. \A i \in S \cup R : agenda[i].status # "gone"
    BY DEF Exists
  <1>6. \A i \in R : agenda[i].kind = "event"
    <2>1. ASSUME NEW i \in R PROVE agenda[i].kind = "event"
      <3>1. i \in Ids
        BY <1>1, <1>4, PlannerTypes DEF Ids
      <3>2. agenda[i].kind # "task" /\ agenda[i].kind # "none"
        BY <1>1, <1>3, <1>5, <3>1 DEF PassFits, RowsInOrder
      <3>3. agenda[i].kind \in {"none", "task", "event"}
        BY <1>1, <3>1, PlannerTypes, RowFields
      <3> QED BY <3>2, <3>3
    <2> QED BY <2>1
  <1>7. /\ made \in Nat /\ n \in Nat /\ made' \in Nat /\ made <= made' /\ made' <= MaxItems
        /\ MaxItems \in Nat /\ R \subseteq Ids /\ S \subseteq Ids /\ 1..made \subseteq Ids
        /\ agenda \in [Ids -> AgendaRows] /\ agenda' \in [Ids -> AgendaRows]
    <2>1. n \in Nat /\ agenda' \in [Ids -> AgendaRows]
      BY <1>1, <1>2, <1>4, RolledIs
    <2>2. made \in Nat /\ MaxItems \in Nat /\ made <= MaxItems /\ agenda \in [Ids -> AgendaRows]
      BY <1>1, PlannerTypes
    <2>3. 1..made \subseteq Ids
      BY <2>2 DEF Ids
    <2> HIDE DEF n, S, R
    <2>4. made' \in Nat /\ made <= made'
      BY <1>2, <2>1, <2>2
    <2>5. made' <= MaxItems
      BY <1>2 DEF n, R
    <2> QED BY <1>4, <2>1, <2>2, <2>3, <2>4, <2>5
  <1>8. ASSUME NEW k \in Ids, k <= made
        PROVE  /\ agenda'[k].kind = agenda[k].kind /\ agenda'[k].series = agenda[k].series
               /\ k \in R => agenda'[k].status = "done"
               /\ k \notin R => agenda'[k].status = agenda[k].status
               /\ k \in S => agenda'[k].notified = TRUE
               /\ k \notin S => agenda'[k].notified = agenda[k].notified
    <2>1. agenda'[k] = MarkedRow(k, S, R)
      BY <1>1, <1>2, <1>4, <1>8, RolledIs
    <2> HIDE DEF S, R
    <2>2. /\ MarkedRow(k, S, R).kind = agenda[k].kind
                /\ MarkedRow(k, S, R).series = agenda[k].series
          /\ k \in R => MarkedRow(k, S, R).status = "done"
          /\ k \notin R => MarkedRow(k, S, R).status = agenda[k].status
      BY <1>7, MarkedIs
    <2>3. k \in S => MarkedRow(k, S, R).notified = TRUE
      BY <1>7, MarkedIs
    <2>4. k \notin S => MarkedRow(k, S, R).notified = agenda[k].notified
      BY <1>7, MarkedIs
    <2> HIDE DEF MarkedRow
    <2> QED BY <2>1, <2>2, <2>3, <2>4
  <1>9. ASSUME NEW k \in Ids, k > made, k <= made'
        PROVE  /\ agenda'[k].kind = "event" /\ agenda'[k].status = "open"
               /\ agenda'[k].notified = FALSE
               /\ \E i \in R : made + Rank(i, R) = k /\ agenda'[k].series = agenda[i].series
    <2>1. PICK i \in R : made + Rank(i, R) = k /\ agenda'[k] = SpawnedRow(i)
      BY <1>1, <1>2, <1>4, <1>9, RolledIs
    <2>2. i \in Ids
      BY <1>7
    <2> HIDE DEF S, R
    <2> QED BY <1>7, <2>1, <2>2, SpawnedIs
  <1>10. ASSUME NEW k \in Ids, k > made' PROVE agenda'[k] = NoRow
    BY <1>1, <1>2, <1>4, <1>10, RolledIs
  <1>11. \A k \in Ids : k \in Int
    BY DEF Ids
  <1> DEFINE F == /\ sweep' \in [Sweepers -> PassStates] /\ sweep'[w] = NoSweep
                  /\ \A v \in Sweepers \ {w} : sweep'[v] = sweep[v]
  <1>12. F
    BY <1>1, <1>2, NoSweepIs, PassMoves
  <1>13. Cardinality(Active') = Cardinality(Active) - 1
    <2>1. Cardinality(Active') = Cardinality(Active) + B2N(NoSweep.at # "idle")
                                                     - B2N(sweep[w].at # "idle")
      BY <1>1, <1>2, NoSweepIs, PassMoves
    <2>2. B2N(NoSweep.at # "idle") = 0 /\ B2N(sweep[w].at # "idle") = 1
      BY <1>2, NoSweepIs DEF B2N
    <2>3. Cardinality(Active) \in Nat
      BY PassesAre
    <2> QED BY <2>1, <2>2, <2>3
  <1> HIDE DEF S, R, n
  <1>14. PlannerTypeOK'
    <2>1. queued' \in Nat /\ unacked' \in Nat /\ failed' \in Nat /\ unsent' \in Nat
          /\ lapses' \in Nat /\ pushes' \in [Ids -> Nat] /\ armed' \in BOOLEAN
      BY <1>1, <1>2, <1>a, PlannerTypes
    <2>2. clock' \in 0..MaxClock /\ requests' \in 0..MaxRequests /\ made' \in 0..MaxItems
      BY <1>1, <1>2, <1>7 DEF PlannerTypeOK
    <2> QED BY <1>7, <1>12, <2>1, <2>2 DEF PlannerTypeOK, AgendaRows, PassStates
  <1>15. RowsInOrder'
    <2>1. ASSUME NEW k \in Ids
          PROVE  /\ k > made' => agenda'[k] = NoRow /\ pushes'[k] = 0
                 /\ agenda'[k].series <= made'
                 /\ agenda'[k].status = "gone" => agenda'[k].kind = "none" /\ agenda'[k].series = 0
                 /\ agenda'[k].kind = "none" => agenda'[k].status = "gone"
      <3>1. /\ k > made => agenda[k] = NoRow /\ pushes[k] = 0
            /\ agenda[k].series <= made /\ agenda[k].series \in Nat
            /\ agenda[k].status = "gone" => agenda[k].kind = "none" /\ agenda[k].series = 0
            /\ agenda[k].kind = "none" => agenda[k].status = "gone"
        BY <1>1, <1>7 DEF RowsInOrder, AgendaRows
      <3>2. CASE k <= made
        <4>1. /\ agenda'[k].kind = agenda[k].kind /\ agenda'[k].series = agenda[k].series
              /\ k \in R => agenda'[k].status = "done"
              /\ k \notin R => agenda'[k].status = agenda[k].status
          BY <1>8, <3>2
        <4>2. k \in R => agenda[k].status # "gone"
          BY <1>5
        <4>3. ~(k > made') /\ agenda[k].series <= made'
          BY <1>7, <1>11, <3>1, <3>2
        <4> QED BY <3>1, <4>1, <4>2, <4>3
      <3>3. CASE k > made /\ k <= made'
        <4>1. PICK i \in R : agenda'[k].series = agenda[i].series
          BY <1>9, <3>3
        <4>2. i \in Ids /\ agenda[i].series <= made /\ agenda[i].series \in Nat
          BY <1>1, <1>7 DEF RowsInOrder, AgendaRows
        <4>3. agenda'[k].kind = "event" /\ agenda'[k].status = "open"
          BY <1>9, <3>3
        <4>4. ~(k > made') /\ agenda'[k].series <= made'
          BY <1>7, <1>11, <3>3, <4>1, <4>2
        <4> QED BY <4>3, <4>4
      <3>4. CASE k > made'
        <4>1. NoRow.series = 0 /\ NoRow.status = "gone" /\ NoRow.kind = "none"
          BY DEF NoRow
        <4> QED BY <1>2, <1>7, <1>10, <1>11, <3>1, <3>4, <4>1
      <3> QED BY <1>7, <1>11, <3>2, <3>3, <3>4
    <2> QED BY <2>1 DEF RowsInOrder
  <1>16. PassesInOrder'
    <2>1. ASSUME NEW i \in 1..made PROVE agenda'[i].kind = agenda[i].kind
      <3>1. i \in Ids /\ i <= made
        BY <1>7
      <3> QED BY <1>8, <3>1
    <2>2. 1..made \subseteq 1..made'
      BY <1>7
    <2>3. ASSUME NEW v \in Sweepers
          PROVE  /\ sweep'[v].todo \cup sweep'[v].marks \cup sweep'[v].rolls \subseteq 1..made'
                 /\ sweep'[v].todo \cap sweep'[v].marks = {}
                 /\ sweep'[v].at = "idle" => sweep'[v] = NoSweep
                 /\ sweep'[v].at = "commit" => sweep'[v].todo = {}
                 /\ sweep'[v].at = "task" =>
                       \A i \in sweep'[v].todo \cup sweep'[v].marks : agenda'[i].kind # "event"
                 /\ \A i \in sweep'[v].rolls : agenda'[i].kind # "task"
      <3>1. CASE v = w
        BY <1>12, <3>1, NoSweepIs
      <3>2. CASE v # w
        <4>1. sweep'[v] = sweep[v] /\ PassFits(sweep[v])
          BY <1>1, <1>12, <3>2, PassesFit
        <4> QED BY <2>1, <2>2, <4>1 DEF PassFits
      <3> QED BY <3>1, <3>2
    <2> HIDE DEF F
    <2> QED BY <2>3 DEF PassesInOrder
  <1>17. ChainInv'
    <2>1. Loops = queued + unacked + Cardinality(Active) /\ queued \in Nat /\ unacked \in Nat
          /\ lapses \in Nat /\ Cardinality(Active) \in Nat
      BY <1>1, PlannerTypes, PassesAre
    <2>2. Loops' = queued' + unacked' + Cardinality(Active')
      BY DEF Loops, Active
    <2>3. Loops' <= Loops /\ Loops' \in Int
      BY <1>2, <1>a, <1>13, <2>1, <2>2
    <2>4. (IF armed THEN 1 ELSE 0) \in {0, 1} /\ (IF armed' THEN 1 ELSE 0) = 1
      BY <1>2
    <2>5. Loops <= lapses + 1
      BY <1>1, <2>1, <2>4 DEF ChainInv
    <2> QED BY <1>2, <2>1, <2>3, <2>4, <2>5 DEF ChainInv
  <1>18. ASSUME PushesInv PROVE PushesInv'
    <2>1. ASSUME NEW i \in Ids
          PROVE  /\ ~Settled(i)' => pushes'[i] <= Cardinality(Pushed(i)') + failed'
                 /\ Settled(i)' => pushes'[i] + Cardinality(ToPush(i)') <= 1 + lapses' + failed'
      <3>1. /\ ~Settled(i) => pushes[i] <= Cardinality(Pushed(i)) + failed
            /\ Settled(i) => pushes[i] + Cardinality(ToPush(i)) <= 1 + lapses + failed
        BY <1>18 DEF PushesInv
      <3>2. /\ pushes'[i] = pushes[i] /\ lapses' = lapses /\ failed' = failed
            /\ pushes[i] \in Nat /\ lapses \in Nat /\ failed \in Nat
            /\ Cardinality(ToPush(i)) \in Nat /\ Cardinality(Pushed(i)) \in Nat
            /\ Cardinality(Active) \in Nat /\ Cardinality(Active) <= 1 + lapses
            /\ Cardinality(ToPush(i)) + Cardinality(Pushed(i)) <= Cardinality(Active)
        BY <1>1, <1>2, PlannerTypes, PassesAre
      <3>3. /\ Cardinality(ToPush(i)') = Cardinality(ToPush(i))
            /\ i \notin S => Cardinality(Pushed(i)') = Cardinality(Pushed(i))
            /\ Cardinality(Pushed(i)') \in Nat
        <4>1. /\ Cardinality(ToPush(i)') = Cardinality(ToPush(i)) + B2N(i \in NoSweep.todo)
                                                                  - B2N(i \in sweep[w].todo)
              /\ Cardinality(Pushed(i)') = Cardinality(Pushed(i)) + B2N(i \in NoSweep.marks)
                                                                  - B2N(i \in S)
          BY <1>1, <1>2, NoSweepIs, PassMoves DEF S
        <4>2. B2N(i \in NoSweep.todo) = 0 /\ B2N(i \in NoSweep.marks) = 0
              /\ B2N(i \in sweep[w].todo) = 0 /\ (i \notin S => B2N(i \in S) = 0)
          BY <1>4, NoSweepIs DEF B2N
        <4>3. Cardinality(Pushed(i)') \in Nat
          <5>1. Pushed(i)' \subseteq Sweepers
            BY DEF Pushed
          <5>2. IsFiniteSet(Pushed(i)')
            BY <5>1, PlannerAssumption, FS_Subset
          <5> QED BY <5>2, FS_CardinalityType
        <4> QED BY <3>2, <4>1, <4>2, <4>3
      <3>4. CASE i > made
        <4>1. pushes[i] = 0
          BY <1>1, <3>4 DEF RowsInOrder
        <4>2. ~Settled(i)'
          <5>1. CASE i <= made'
            <6>1. agenda'[i].status = "open" /\ agenda'[i].notified = FALSE
              BY <1>9, <3>4, <5>1
            <6> QED BY <6>1 DEF Settled
          <5>2. CASE ~(i <= made')
            BY <5>2 DEF Settled
          <5> QED BY <5>1, <5>2
        <4> QED BY <3>2, <3>3, <4>1, <4>2
      <3>5. CASE i <= made
        <4>a. i <= made'
          BY <1>7, <1>11, <3>5
        <4>b. /\ i \in R => agenda'[i].status = "done" /\ agenda[i].status # "gone"
              /\ i \notin R => agenda'[i].status = agenda[i].status
          BY <1>5, <1>8, <3>5
        <4>c. agenda'[i].status = "gone" <=> agenda[i].status = "gone"
          BY <4>b
        <4>d. /\ i \in S => agenda'[i].notified
              /\ i \notin S => agenda'[i].notified = agenda[i].notified
          BY <1>8, <3>5
        <4>1. Settled(i) => Settled(i)'
          BY <3>5, <4>a, <4>c, <4>d DEF Settled
        <4>2. i \notin S => (Settled(i)' => Settled(i))
          BY <3>5, <4>a, <4>c, <4>d DEF Settled
        <4>3. i \in S => Settled(i)'
          BY <3>5, <4>a, <4>c, <4>d DEF Settled
        <4> QED BY <3>1, <3>2, <3>3, <4>1, <4>2, <4>3
      <3> QED BY <1>7, <1>11, <3>4, <3>5
    <2> QED BY <2>1 DEF PushesInv
  <1>19. ASSUME SeriesInv PROVE SeriesInv'
    <2> SUFFICES ASSUME lapses = 0 PROVE NoFork' /\ RollsAlone'
      BY <1>2 DEF SeriesInv
    <2>1. NoFork /\ RollsAlone
      BY <1>19 DEF SeriesInv
    <2>2. \A v \in Sweepers : sweep'[v].rolls = {}
      <3>1. Cardinality(Active) <= 1 /\ Cardinality(Active) \in Nat
        BY <1>1, PlannerTypes, PassesAre
      <3>2. IsFiniteSet(Active) /\ w \in Active
        BY <1>2, PassesAre DEF Active
      <3>3. IsFiniteSet(Active \ {w}) /\ Cardinality(Active \ {w}) = Cardinality(Active) - 1
        BY <3>2, FS_RemoveElement
      <3>4. Active \ {w} = {}
        <4>1. Cardinality(Active \ {w}) \in Nat
          BY <3>3, FS_CardinalityType
        <4>2. Cardinality(Active \ {w}) = 0
          BY <3>1, <3>3, <4>1
        <4> QED BY <3>3, <4>2, FS_EmptySet
      <3>5. \A v \in Sweepers \ {w} : sweep[v].at = "idle"
        BY <3>4 DEF Active
      <3> QED BY <1>1, <1>12, <3>5, NoSweepIs DEF PassesInOrder
    <2>3. RollsAlone'
      BY <2>2 DEF RollsAlone
    <2>4. ASSUME NEW k \in Ids, OpenEvent(k)', agenda'[k].series # 0
          PROVE  \/ OpenEvent(k) /\ k \notin R /\ agenda'[k].series = agenda[k].series
                 \/ \E i \in R : made + Rank(i, R) = k /\ agenda'[k].series = agenda[i].series
      <3>1. CASE k <= made
        BY <1>8, <2>4, <3>1 DEF OpenEvent
      <3>2. CASE k > made /\ k <= made'
        BY <1>9, <3>2
      <3>3. CASE k > made'
        <4>1. NoRow.series = 0
          BY DEF NoRow
        <4> QED BY <1>10, <2>4, <3>3, <4>1
      <3> QED BY <1>7, <1>11, <3>1, <3>2, <3>3
    <2>5. ASSUME NEW i \in R, NEW j \in Ids, agenda[i].series # 0,
                 agenda[i].series = agenda[j].series, OpenEvent(j) \/ j \in R
          PROVE  j = i
      <3>1. agenda[j].kind = "event"
        BY <1>6, <2>5 DEF OpenEvent
      <3> QED BY <2>1, <2>5, <3>1 DEF RollsAlone, R
    <2>6. ASSUME NEW i \in Ids, NEW j \in Ids, OpenEvent(i)', OpenEvent(j)', agenda'[i].series # 0,
                 agenda'[i].series = agenda'[j].series
          PROVE  i = j
      <3>1. \/ OpenEvent(i) /\ i \notin R /\ agenda'[i].series = agenda[i].series
            \/ \E s \in R : made + Rank(s, R) = i /\ agenda'[i].series = agenda[s].series
        BY <2>4, <2>6
      <3>2. \/ OpenEvent(j) /\ j \notin R /\ agenda'[j].series = agenda[j].series
            \/ \E s \in R : made + Rank(s, R) = j /\ agenda'[j].series = agenda[s].series
        BY <2>4, <2>6
      <3>3. CASE OpenEvent(i) /\ i \notin R /\ agenda'[i].series = agenda[i].series
        <4>1. CASE OpenEvent(j) /\ j \notin R /\ agenda'[j].series = agenda[j].series
          BY <2>1, <2>6, <3>3, <4>1 DEF NoFork
        <4>2. ASSUME NEW s \in R, agenda'[j].series = agenda[s].series PROVE FALSE
          <5>1. i = s
            BY <2>5, <2>6, <3>3, <4>2
          <5> QED BY <3>3, <5>1
        <4> QED BY <3>2, <4>1, <4>2
      <3>4. ASSUME NEW s \in R, made + Rank(s, R) = i, agenda'[i].series = agenda[s].series
            PROVE  i = j
        <4>1. CASE OpenEvent(j) /\ j \notin R /\ agenda'[j].series = agenda[j].series
          <5>1. j = s
            BY <2>5, <2>6, <3>4, <4>1
          <5> QED BY <4>1, <5>1
        <4>2. ASSUME NEW t \in R, made + Rank(t, R) = j, agenda'[j].series = agenda[t].series
              PROVE  i = j
          <5>1. t \in Ids /\ t = s
            BY <1>7, <2>5, <2>6, <3>4, <4>2
          <5> QED BY <3>4, <4>2, <5>1
        <4> QED BY <3>2, <4>1, <4>2
      <3> QED BY <3>1, <3>3, <3>4
    <2>7. NoFork'
      BY <2>6 DEF NoFork
    <2> QED BY <2>3, <2>7
  <1> QED BY <1>14, <1>15, <1>16, <1>17, <1>18, <1>19 DEF PassKeeps, PlannerInv

\* Every step keeps the invariant, and so all of it.
LEMMA StepKeepsPlanner ==
    ASSUME PlannerInv, [PlannerNext]_plannerVars
    PROVE  PassKeeps
  <1>0. queued \in Nat /\ unacked \in Nat /\ unsent \in Nat
    BY PlannerTypes DEF PlannerInv
  <1>1. ASSUME NEW w \in Sweepers, SweepEnds(w) PROVE PassKeeps
    <2>1. CASE /\ \A i \in sweep[w].marks \cup sweep[w].rolls : Exists(i)
               /\ made + Cardinality(sweep[w].rolls) <= MaxItems
      BY <1>1, <2>1, CommitKeeps
    <2>2. CASE ~(/\ \A i \in sweep[w].marks \cup sweep[w].rolls : Exists(i)
                 /\ made + Cardinality(sweep[w].rolls) <= MaxItems)
      <3>1. /\ sweep[w].at # "idle" /\ failed' = failed + 1 /\ Sends
            /\ sweep' = [sweep EXCEPT ![w] = NoSweep]
            /\ UNCHANGED <<clock, requests, agenda, made, armed, unacked, lapses, pushes>>
        BY <1>1, <2>2 DEF SweepEnds
      <3>2. queued' \in Nat /\ unsent' \in Nat /\ unacked' \in Nat
            /\ queued' + unacked' <= queued + unacked + 1
        BY <1>0, <3>1, SendsIs
      <3> QED BY <3>1, <3>2, FailedKeeps DEF plannerRows
    <2> QED BY <2>1, <2>2
  <1>2. ASSUME NEW w \in Sweepers, WorkerIsKilled(w) PROVE PassKeeps
    <2>1. /\ sweep[w].at # "idle" /\ failed' = failed + 1 /\ queued' = queued
          /\ unacked' \in {unacked, unacked + 1} /\ unsent' = unsent
          /\ sweep' = [sweep EXCEPT ![w] = NoSweep]
          /\ UNCHANGED <<plannerRows, armed, lapses, pushes>>
      BY <1>2 DEF WorkerIsKilled
    <2>2. queued' \in Nat /\ unacked' \in Nat /\ unsent' \in Nat
          /\ queued' + unacked' <= queued + unacked + 1
      <3>1. queued' = queued /\ unsent' = unsent
        BY <2>1
      <3>2. unacked' = unacked \/ unacked' = unacked + 1
        BY <2>1
      <3> QED BY ONLY <1>0, <3>1, <3>2
    <2> QED BY <2>1, <2>2, FailedKeeps
  <1>3. ASSUME NEW w \in Sweepers, Sweeps(w) PROVE PassKeeps
    BY <1>1, <1>3, StartKeeps, PushKeeps, TurnKeeps, RollKeeps DEF Sweeps
  <1>4. CASE UNCHANGED plannerVars
    <2>1. UNCHANGED <<clock, agenda, made, requests, armed, queued, unacked, lapses, unsent,
                      sweep, pushes, failed>>
      BY <1>4 DEF plannerVars, plannerRows, plannerChain
    <2>2. PlannerTypeOK' /\ RowsInOrder'
      BY <2>1 DEF PlannerInv, PlannerTypeOK, RowsInOrder
    <2>3. PassesInOrder'
      BY <2>1 DEF PlannerInv, PassesInOrder
    <2>4. ChainInv'
      BY <2>1 DEF PlannerInv, ChainInv, Loops
    <2>5. PushesInv => PushesInv'
      BY <2>1 DEF PushesInv, Settled, Pushed, ToPush
    <2>6. SeriesInv => SeriesInv'
      BY <2>1 DEF SeriesInv, NoFork, OpenEvent, RollsAlone
    <2> QED BY <2>2, <2>3, <2>4, <2>5, <2>6 DEF PassKeeps, PlannerInv
  <1>5. CASE \/ OwnerActs \/ ClockTicks \/ FlagLapses \/ FlagExpires
             \/ arm_sweep_on_worker_ready \/ Redelivers
    BY <1>5, OwnerKeeps, ChainKeeps DEF PassKeeps
  <1> QED BY <1>2, <1>3, <1>4, <1>5 DEF PlannerNext

\* An agenda of no rows, no flag and no pass: the invariant holds at first.
LEMMA PlannerStarts == PlannerInit => ExactInv
  <1> SUFFICES ASSUME PlannerInit PROVE ExactInv
    OBVIOUS
  <1>1. /\ clock = 0 /\ made = 0 /\ requests = 0 /\ agenda = [i \in Ids |-> NoRow]
        /\ armed = FALSE /\ queued = 0 /\ unacked = 0 /\ lapses = 0 /\ unsent = 0
        /\ sweep = [w \in Sweepers |-> NoSweep] /\ pushes = [i \in Ids |-> 0] /\ failed = 0
    BY DEF PlannerInit
  <1>2. PlannerTypeOK
    <2>1. clock \in 0..MaxClock /\ made \in 0..MaxItems /\ requests \in 0..MaxRequests
      BY <1>1, PlannerAssumption
    <2>2. agenda \in [Ids -> AgendaRows] /\ sweep \in [Sweepers -> PassStates]
          /\ pushes \in [Ids -> Nat]
      BY <1>1, NoRowIs, NoSweepIs
    <2> QED BY <1>1, <2>1, <2>2, TypesAgain
  <1>3. NoRow.status = "gone" /\ NoRow.kind = "none" /\ NoRow.series = 0
    BY DEF NoRow
  <1>4. RowsInOrder
    BY <1>1, <1>3 DEF RowsInOrder
  <1>5. PassesInOrder
    BY <1>1, NoSweepIs DEF PassesInOrder
  <1>6. Active = {}
    BY <1>1, NoSweepIs DEF Active
  <1>7. ChainInv
    <2>1. Cardinality(Active) = 0
      BY <1>6, FS_EmptySet
    <2>2. Loops = 0
      BY <1>1, <2>1 DEF Loops, Active
    <2> QED BY <1>1, <2>2 DEF ChainInv
  <1>8. PushesInv
    <2>1. ASSUME NEW i \in Ids
          PROVE  ~Settled(i) /\ pushes[i] <= Cardinality(Pushed(i)) + failed
      <3>1. ~(i <= made) /\ pushes[i] = 0
        BY <1>1 DEF Ids
      <3>2. Cardinality(Pushed(i)) \in Nat
        BY PassesAre
      <3> QED BY <1>1, <3>1, <3>2 DEF Settled
    <2> QED BY <2>1 DEF PushesInv
  <1>9. SeriesInv
    BY <1>1, <1>3, NoSweepIs DEF SeriesInv, NoFork, RollsAlone, OpenEvent
  <1> QED BY <1>2, <1>4, <1>5, <1>7, <1>8, <1>9 DEF ExactInv, PlannerInv

\* Rows, passes and messages keep their types: ids and clocks stay in their bounds,
\* and no message count falls below zero.
THEOREM PlannerIsTyped == PlannerSpec => []PlannerTypeOK
  <1>1. PlannerInit => PlannerInv
    BY PlannerStarts DEF ExactInv
  <1>2. PlannerInv /\ [PlannerNext]_plannerVars => PlannerInv'
    BY StepKeepsPlanner DEF PassKeeps
  <1>3. PlannerInv => PlannerTypeOK
    BY DEF PlannerInv
  <1> QED BY <1>1, <1>2, <1>3, PTL DEF PlannerSpec

\* What the invariant says of the property.
LEMMA ExactIsOnce == ExactInv => NothingTwice
  <1> SUFFICES ASSUME ExactInv PROVE RemindedOnce /\ SeriesDoesNotFork
    BY DEF NothingTwice
  <1>1. PlannerTypeOK /\ RowsInOrder /\ PassesInOrder /\ ChainInv /\ PushesInv /\ SeriesInv
    BY DEF ExactInv, PlannerInv
  <1>2. lapses \in Nat /\ failed \in Nat /\ Loops \in Nat /\ Cardinality(Active) \in Nat
        /\ Cardinality(Active) <= 1 + lapses
    BY <1>1, PlannerTypes, PassesAre
  <1>3. Loops <= 1 + lapses
    <2>1. (IF armed THEN 1 ELSE 0) \in {0, 1}
      BY <1>1, PlannerTypes
    <2> QED BY <1>1, <1>2, <2>1 DEF ChainInv
  <1>4. ASSUME NEW i \in Ids PROVE pushes[i] <= 1 + lapses + failed
    <2>1. /\ pushes[i] \in Nat /\ Cardinality(ToPush(i)) \in Nat /\ Cardinality(Pushed(i)) \in Nat
          /\ Cardinality(ToPush(i)) + Cardinality(Pushed(i)) <= Cardinality(Active)
      BY <1>1, PlannerTypes, PassesAre
    <2>2. \/ pushes[i] <= Cardinality(Pushed(i)) + failed
          \/ pushes[i] + Cardinality(ToPush(i)) <= 1 + lapses + failed
      BY <1>1 DEF PushesInv
    <2> QED BY <1>2, <2>1, <2>2
  <1>5. SeriesDoesNotFork
    BY <1>1 DEF SeriesDoesNotFork, SeriesInv, NoFork, OpenEvent, Rows, Open
  <1> QED BY <1>3, <1>4, <1>5 DEF RemindedOnce

\* A reminder is pushed once, but for the passes that failed and the chains a lost flag
\* started; while none was lost, a series of events has one active instance.
THEOREM NothingIsDoneTwice == PlannerSpec => []NothingTwice
  <1>1. ExactInv /\ [PlannerNext]_plannerVars => ExactInv'
    BY StepKeepsPlanner DEF PassKeeps, ExactInv
  <1> QED BY <1>1, PlannerStarts, ExactIsOnce, PTL DEF PlannerSpec

(***************************************************************************)
(* All of them, as the run composes them: a step is one of the service the *)
(* behaviour chose, and the types of the others stay.                      *)
(***************************************************************************)
ServicesInv == ThrottleInv /\ PlannerInv /\ SearchTypeOK /\ TabletopTypeOK /\ VaultOrderTypeOK

\* A step of one service leaves the variables of the others alone.
LEMMA StepKeepsServices ==
    ASSUME ServicesInv, [ServicesNext]_ServicesVars
    PROVE  ServicesInv'
  <1>1. [Next]_vars /\ [PlannerNext]_plannerVars /\ [SearchNext]_searchVars
        /\ [TabletopNext]_tabletopVars /\ [VaultOrderNext]_orderVars
    BY DEF ServicesNext, ServicesVars
  <1>2. ThrottleInv'
    BY <1>1, StepCounts DEF ServicesInv
  <1>3. PlannerInv'
    BY <1>1, StepKeepsPlanner DEF ServicesInv, PassKeeps
  <1>4. SearchTypeOK'
    BY <1>1, StepKeepsSearch DEF ServicesInv
  <1>5. TabletopTypeOK'
    BY <1>1, NextKeepsTypes DEF ServicesInv
  <1>6. VaultOrderTypeOK'
    BY <1>1, NextKeepsOrderTypes DEF ServicesInv
  <1> QED BY <1>2, <1>3, <1>4, <1>5, <1>6 DEF ServicesInv

\* The state of every service has its types, whichever service a behaviour is of.
THEOREM ServicesAreTyped == ServicesSpec => []ServicesTypeOK
  <1>1. ServicesInit => ServicesInv
    <2>1. ServicesInit => ThrottleInv /\ PlannerInv /\ SearchTypeOK
      BY ThrottleStarts, PlannerStarts, SearchStarts
         DEF ServicesInit, GuessesInv, ExactInv
    <2>2. ServicesInit => TabletopTypeOK /\ VaultOrderTypeOK
      BY InitInOrder, InitOrdered DEF ServicesInit
    <2> QED BY <2>1, <2>2 DEF ServicesInv
  <1>2. ServicesInv => ServicesTypeOK
    BY DEF ServicesInv, ThrottleInv, PlannerInv, ServicesTypeOK
  <1> QED BY <1>1, <1>2, StepKeepsServices, PTL DEF ServicesSpec
=============================================================================
