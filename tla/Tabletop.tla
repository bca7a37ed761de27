------------------------------ MODULE Tabletop -----------------------------
(***************************************************************************)
(* A tabletop room (app/modules/tabletop_games): players join by its code, *)
(* the host starts the game, reseats players, ends and closes the room.    *)
(*                                                                         *)
(* A request loads the room first and takes the room's row lock later; what*)
(* it loaded is not read again.  From the lock to its commit it is one     *)
(* step.                                                                   *)
(***************************************************************************)
EXTENDS Integers, FiniteSets

CONSTANTS Players, HostRequests,  \* who joins; requests the host has under way
          RoomLimit,       \* config["player_limit"] of the room
          NoSeat

ASSUME TabletopAssumption ==
    /\ RoomLimit \in Nat /\ IsFiniteSet(Players) /\ NoSeat \notin Nat
    /\ Players \cap HostRequests = {}

VARIABLES roomStatus,  \* "lobby", "playing", "ended", "closed"
          seat,        \* the seat of a participant, NoSeat before it joins
          inPlay,      \* participants with a role
          ticket,      \* participants whose token still opens the room
          loaded       \* the status a request in flight saw, "none" without one

tabletopVars == <<roomStatus, seat, inPlay, ticket, loaded>>

RoomStatuses == {"lobby", "playing", "ended", "closed"}
Joined == {p \in Players : seat[p] # NoSeat}

-----------------------------------------------------------------------------
\* A player's join, the host's start.  A player with a token is sent to the room.
LoadsRoom(r) ==
    /\ loaded[r] = "none"
    /\ r \in Players => roomStatus # "closed" /\ r \notin ticket
    /\ loaded' = [loaded EXCEPT ![r] = roomStatus]
    /\ UNCHANGED <<roomStatus, seat, inPlay, ticket>>

Answered(r) == loaded[r] # "none" /\ loaded' = [loaded EXCEPT ![r] = "none"]

Seats(p) == /\ seat' = [seat EXCEPT ![p] = Cardinality(Joined)]
            /\ ticket' = ticket \cup {p}
Refuses == UNCHANGED <<seat, ticket>>

\* A nickname that is taken is refused, so a participant is its player.
join_room(p) ==
    LET admits == loaded[p] = "lobby" /\ p \notin Joined /\ Cardinality(Joined) < RoomLimit
    IN /\ Answered(p)
       /\ IF admits THEN Seats(p) ELSE Refuses
       /\ UNCHANGED <<roomStatus, inPlay>>

\* The hand has a role for each of player_limit seats and zip is strict: with
\* fewer players nothing is committed.
start_room(h) ==
    LET starts == loaded[h] = "lobby" /\ Cardinality(Joined) = RoomLimit
    IN /\ Answered(h)
       /\ roomStatus' = IF starts THEN "playing" ELSE roomStatus
       /\ inPlay' = IF starts THEN Joined ELSE inPlay
       /\ UNCHANGED <<seat, ticket>>

\* Ends a room whatever its status was.
end_game == /\ roomStatus' = "ended"
            /\ UNCHANGED <<seat, inPlay, ticket, loaded>>

close_room == /\ roomStatus # "closed"
              /\ roomStatus' = "closed" /\ ticket' = {}
              /\ UNCHANGED <<seat, inPlay, loaded>>

\* Mutant: the seats are written one after the other from the changed row.
SwapsInPlace(p, q) ==
    /\ p \in Joined /\ q \in Joined /\ p # q
    /\ seat' = [seat EXCEPT ![p] = seat[q]]
    /\ UNCHANGED <<roomStatus, inPlay, ticket, loaded>>

swap_participants(p, q) ==
    /\ p \in Joined /\ q \in Joined /\ p # q
    /\ seat' = [seat EXCEPT ![p] = seat[q], ![q] = seat[p]]
    /\ UNCHANGED <<roomStatus, inPlay, ticket, loaded>>

\* The host gives a player a role by hand, in any status of the room.
set_participant_role(p) ==
    /\ p \in Joined
    /\ inPlay' = inPlay \cup {p}
    /\ UNCHANGED <<roomStatus, seat, ticket, loaded>>

-----------------------------------------------------------------------------
TabletopInit ==
    /\ roomStatus = "lobby" /\ inPlay = {} /\ ticket = {}
    /\ seat = [p \in Players |-> NoSeat]
    /\ loaded = [r \in Players \cup HostRequests |-> "none"]

TabletopNext ==
    \/ \E r \in Players \cup HostRequests : LoadsRoom(r)
    \/ \E p \in Players : join_room(p) \/ set_participant_role(p)
    \/ \E h \in HostRequests : start_room(h)
    \/ \E p, q \in Players : swap_participants(p, q)
    \/ end_game \/ close_room

TabletopSpec == TabletopInit /\ [][TabletopNext]_tabletopVars

(* The state of a room and of its requests has its types.                     *)
TabletopTypeOK ==
    /\ roomStatus \in RoomStatuses
    /\ seat \in [Players -> Nat \cup {NoSeat}]
    /\ inPlay \subseteq Players /\ ticket \subseteq Players
    /\ loaded \in [Players \cup HostRequests -> RoomStatuses \cup {"none"}]

(* Players who join at the same moment and are reseated hold the seats 0, 1,  *)
(* ... with no gap and no seat held twice, and never more of them than the    *)
(* room takes, however late the lock finds the room they loaded.              *)
SeatsInOrder == /\ {seat[p] : p \in Joined} = 0..(Cardinality(Joined) - 1)
                /\ Cardinality(Joined) <= RoomLimit
=============================================================================
