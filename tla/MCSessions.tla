----------------------------- MODULE MCSessions -----------------------------
(***************************************************************************)
(* What the owner has open - the tabs of the Vault, its pictures and its   *)
(* players, the browser runtime, the turns with MIKU and the goals it      *)
(* comes back to - in parts that share no state with one another, checked  *)
(* by one run: a behaviour is a behaviour of one of them, chosen at its    *)
(* start, and the variables of the others stay as they begin.              *)
(***************************************************************************)
EXTENDS VaultSession, VaultImages, SealedRange, MikuTurns, Goals, Browser, TLC

Symmetry == Permutations(Tabs)

VARIABLE session

Parts == {"vault", "images", "range", "miku", "goals", "browser"}
SessionsVars ==
    <<session, vars, imageVars, rangeVars, mikuVars, goalsVars, browserVars>>

SessionsInit ==
    /\ session \in Parts
    /\ Init /\ VaultImagesInit /\ SealedRangeInit /\ MikuTurnsInit
    /\ GoalsInit /\ BrowserInit
    /\ session # "range" => object.form = "whole" /\ object.length = 1

SessionsNext ==
    /\ UNCHANGED session
    /\ \/ /\ session = "vault" /\ Next
          /\ UNCHANGED <<imageVars, rangeVars, mikuVars, goalsVars, browserVars>>
       \/ /\ session = "images" /\ VaultImagesNext
          /\ UNCHANGED <<vars, rangeVars, mikuVars, goalsVars, browserVars>>
       \/ /\ session = "range" /\ SealedRangeNext
          /\ UNCHANGED <<vars, imageVars, mikuVars, goalsVars, browserVars>>
       \/ /\ session = "miku" /\ MikuTurnsNext
          /\ UNCHANGED <<vars, imageVars, rangeVars, goalsVars, browserVars>>
       \/ /\ session = "goals" /\ GoalsNext
          /\ UNCHANGED <<vars, imageVars, rangeVars, mikuVars, browserVars>>
       \/ /\ session = "browser" /\ BrowserNext
          /\ UNCHANGED <<vars, imageVars, rangeVars, mikuVars, goalsVars>>

SessionsSpec ==
    SessionsInit /\ [][SessionsNext]_SessionsVars

(* The state of every part has its types.                                   *)
SessionsTypeOK ==
    /\ TypeOK /\ VaultImagesTypeOK /\ SealedRangeTypeOK /\ MikuTypeOK
    /\ GoalsTypeOK /\ BrowserTypeOK
=============================================================================
