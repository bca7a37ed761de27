------------------------ MODULE MCVaultMediaUpgrade ------------------------
EXTENDS VaultMediaUpgrade, TLC

(* Passes are interchangeable, and every property is a safety property.     *)
PassSymmetry == Permutations(Passes)

MCSlots == 1..2
MCCards == {"a", "b"}
MCCardOf == [s \in MCSlots |-> IF s = 1 THEN "a" ELSE "b"]
=============================================================================
