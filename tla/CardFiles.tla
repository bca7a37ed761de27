------------------------------ MODULE CardFiles ------------------------------
(***************************************************************************)
(* What Vault promises about the files of its cards, with no pass, ledger, *)
(* crash or path in sight: opening a slot gives what was stored in it; a   *)
(* v1 file may turn, once and for good, into its v2 copy; and a file goes  *)
(* away only together with the other files of its card.                    *)
(***************************************************************************)
CONSTANTS Slots,       \* file columns of rows
          Cards,       \* the cards that own them
          CardOf,      \* the card a slot belongs to
          Contents     \* what may have been stored in a slot

VARIABLE content       \* what a reader who opens the slot is given

Init == content \in [Slots -> Contents]

Upgrade(s) ==
  /\ content[s] = "v1"
  /\ content' = [content EXCEPT ![s] = "v2"]

Erase(c) ==
  /\ \E s \in Slots : CardOf[s] = c /\ content[s] # "gone"
  /\ content' = [s \in Slots |-> IF CardOf[s] = c THEN "gone" ELSE content[s]]

Next ==
  \/ \E s \in Slots : Upgrade(s)
  \/ \E c \in Cards : Erase(c)

Spec == Init /\ [][Next]_content
=============================================================================
