---------------------------- MODULE TabletopDeal ---------------------------
(***************************************************************************)
(* The hands of roles the two tabletop games deal (games/mafia/game.py,    *)
(* games/blood_on_the_clocktower/game.py) to a full room.  A script offers *)
(* so many roles of each team: townsfolk, outsiders, minions, demons; four *)
(* roles, once drawn, bend the distribution.                               *)
(***************************************************************************)
EXTENDS Integers, FiniteSets

VARIABLE hand   \* players, the roles dealt of each team, what the script has

\* Mutant: a minion too many for the script's five once the room is large.
MiscountsFull == [n \in 5..15 |->
    LET minions == (n - 1) \div 2 IN <<n - 1 - minions, 0, minions, 1>>]

Mafia == [n \in 5..15 |->
    LET minions == IF n < 6 THEN 1 ELSE (n - 3) \div 3 IN <<n - 1 - minions, 0, minions, 1>>]

Clocktower == [n \in 5..15 |->
    LET evil == IF n < 10 THEN 1 ELSE IF n < 13 THEN 2 ELSE 3
        outsiders == IF n < 7 THEN n - 5 ELSE (n - 7) % 3
    IN <<n - outsiders - evil - 1, outsiders, evil, 1>>]

Standard == <<13, 4, 4, 4>>
Teensy == <<6, 2, 2, 1>>
Scripts == [trouble_brewing |-> [pool |-> <<13, 4, 4, 1>>, bends |-> {"baron"}],
            bad_moon_rising |-> [pool |-> Standard, bends |-> {"godfather"}],
            sects_and_violets |-> [pool |-> Standard, bends |-> {"fang_gu", "vigormortis"}],
            no_greater_joy |-> [pool |-> Teensy, bends |-> {"baron"}],
            over_the_river |-> [pool |-> Teensy, bends |-> {"godfather"}],
            laissez_un_faire |-> [pool |-> Teensy, bends |-> {}]]
TeensyScripts == {"no_greater_joy", "over_the_river", "laissez_un_faire"}
MafiaPool == <<10, 0, 5, 1>>

NoHand == [players |-> 0, roles |-> <<0, 0, 0, 0>>, pool |-> <<0, 0, 0, 0>>]

deal_mafia(n) == hand' = [players |-> n, roles |-> Mafia[n], pool |-> MafiaPool]

Clamp(n, top) == IF n < 0 THEN 0 ELSE IF n > top THEN top ELSE n

\* Which of the bending roles the samples of minions and demons hold.
Drawn(script, n) ==
    LET outsiders == Clocktower[n][2]
        barred == IF outsiders + 2 > Scripts[script].pool[2] THEN {"baron"} ELSE {}
        free == Scripts[script].bends \ barred
    IN {d \in SUBSET free : Cardinality(d \cap {"fang_gu", "vigormortis"}) <= 1}

assign_roles(script, n) ==
    \E drawn \in Drawn(script, n) :
       LET base == Clocktower[n]
           pool == Scripts[script].pool
           Adds(role, k) == IF role \in drawn THEN k ELSE 0
           delta == Adds("baron", 2) + Adds("fang_gu", 1) - Adds("vigormortis", 1)
                    + Adds("godfather", IF base[2] = 0 THEN 1 ELSE -1)
           outsiders == Clamp(base[2] + delta, pool[2])
       IN hand' = [players |-> n, pool |-> pool,
                   roles |-> <<base[1] - (outsiders - base[2]), outsiders, base[3], base[4]>>]

DealInit == hand = NoHand

DealNext ==
    /\ hand = NoHand
    /\ \/ \E n \in 5..15 : deal_mafia(n)
       \/ \E s \in DOMAIN Scripts, n \in 5..15 :
             (s \in TeensyScripts => n <= 6) /\ assign_roles(s, n)

DealSpec == DealInit /\ [][DealNext]_hand

(* Whatever roles are drawn, a hand has one role for each player and asks no  *)
(* team of the script for more roles than it has, so a full room can start.   *)
HandFits == /\ hand.roles[1] + hand.roles[2] + hand.roles[3] + hand.roles[4] = hand.players
            /\ \A team \in 1..4 : hand.roles[team] \in 0..hand.pool[team]
=============================================================================
