---------------------------- MODULE MCVaultCards ----------------------------
EXTENDS VaultCards, TLC
CONSTANTS c1, c2, plain, s1, s2

(* Cards, tabs and the two sealed spaces are interchangeable. *)
Symmetry == {p @@ q @@ r : p \in Permutations(Cards), q \in Permutations(Tabs),
                           r \in Permutations({s1, s2})}
=============================================================================
