---------------------- MODULE VaultMediaUpgradeProofs ----------------------
(***************************************************************************)
(* For any number of rows, passes and deletes: the media migration never   *)
(* costs a row its file.                                                   *)
(***************************************************************************)
EXTENDS VaultMediaUpgrade, FiniteSetTheorems, TLAPS, WellFoundedInduction

(***************************************************************************)
(* The inductive strengthening of RowKeepsItsFile and DoneIsMoved: where   *)
(* each path of a slot may be used, what its two objects can be, and what  *)
(* a pass has established at each of its labels.                           *)
(***************************************************************************)
Copy(s) == upgraded_path(Original(s))
Kept(s) == row[s] # NoPath /\ del[CardOf[s]] # "wiped"

PathInv ==
  \A s \in Slots :
    /\ row[s] \in {Original(s), Copy(s), NoPath}
    /\ \A w \in Passes : listed[w][s] \in {Original(s), Copy(s), NoPath}
    /\ \A w \in Passes : s \in todo[w] => listed[w][s] # NoPath

FileInv ==
  \A s \in Slots :
    /\ file[Original(s)] \in {origin[s], "absent"}
    /\ file[Copy(s)] \in {"absent", "v2", "torn"}
    /\ file[Copy(s)] = "v2" => origin[s] = "v1"
    /\ file[Copy(s)] = "torn" => origin[s] = "short"
    /\ row[s] = Copy(s) => origin[s] = "v1"
    /\ Kept(s) /\ row[s] = Original(s) => file[Original(s)] = origin[s]
    /\ Kept(s) /\ row[s] = Copy(s) => file[Copy(s)] = "v2"
    /\ ledger[Copy(s)] # "done"
    /\ ledger[Original(s)] = "done" => row[s] # Original(s)

PassInv(w) ==
  pc[w] \in {"rewrite", "repoint", "mark", "drop"} =>
    /\ todo[w] # {}
    /\ PathOf(w) = Original(Current(w))
    /\ pc[w] = "repoint" => origin[Current(w)] = "v1"
    /\ pc[w] = "repoint" /\ Kept(Current(w)) => file[Copy(Current(w))] = "v2"
    /\ pc[w] \in {"mark", "drop"} => row[Current(w)] # Original(Current(w))

IInv == TypeOK /\ PathInv /\ FileInv /\ \A w \in Passes : PassInv(w)

(* A pass with work left is at the first slot of it: a non-empty set of     *)
(* slot numbers has a least element (the order_by of the listing query).    *)
LEMMA CurrentIsListed ==
  ASSUME TypeOK, NEW w \in Passes, todo[w] # {}
  PROVE  Current(w) \in todo[w] /\ Current(w) \in Slots
<1>1. todo[w] \subseteq Nat /\ todo[w] \subseteq Slots
  BY SlotsAssumption DEF TypeOK
<1> DEFINE Less == {ss \in Nat \X Nat : ss[1] < ss[2]}
<1>2. IsWellFoundedOn(Less, Nat)
  BY NatLessThanWellFounded DEF OpToRel
<1>3. \E x \in todo[w] : \A y \in todo[w] : ~(<<y, x>> \in Less)
  <2> HIDE DEF Less
  <2> QED BY <1>1, <1>2, WFMin
<1>4. PICK x \in todo[w] : \A y \in todo[w] : ~(<<y, x>> \in Less)
  BY <1>3
<1>5. ASSUME NEW y \in todo[w] PROVE x <= y
  <2>1. <<y, x>> \in Nat \X Nat
    BY <1>1
  <2>2. ~(y < x)
    BY <1>4, <2>1
  <2> QED BY <1>1, <2>2
<1> QED BY <1>1, <1>5 DEF Current

(* Every file column starts on the object it was migrated from.             *)
LEMMA InitInductive == Init => IInv
<1> SUFFICES ASSUME Init PROVE IInv
  OBVIOUS
<1> USE SlotsAssumption, CardOfAssumption, NoPathAssumption, BoundsAssumption
<1>1. TypeOK
  <2>1. file \in [Paths -> Objects]
    BY DEF Init, Paths, Objects
  <2>2. row \in [Slots -> Paths \cup {NoPath}]
    BY DEF Init, Paths, Original
  <2> QED BY <2>1, <2>2 DEF Init, TypeOK, NoReport
<1>2. PathInv
  BY DEF Init, PathInv, Paths, Original
<1>3. FileInv
  BY DEF Init, FileInv, Kept, Copy, upgraded_path, Paths, Original, Objects
<1>4. \A w \in Passes : PassInv(w)
  BY DEF Init, PassInv
<1> QED BY <1>1, <1>2, <1>3, <1>4 DEF IInv
(* The pass a step belongs to changes its own list only: every other pass   *)
(* stays at the slot it was at.                                             *)
LEMMA SameCurrent ==
  ASSUME NEW v, todo'[v] = todo[v], listed'[v] = listed[v]
  PROVE  Current(v)' = Current(v) /\ PathOf(v)' = PathOf(v)
BY DEF Current, PathOf

(* The two names a slot's file can have are different, and no two slots     *)
(* share a name (upgraded_envelope_path adds its marker to the path).       *)
LEMMA PathFacts ==
  /\ NoPath \notin Paths
  /\ \A s \in Slots : Original(s) \in Paths /\ Copy(s) \in Paths
  /\ \A s \in Slots : Original(s).slot = s /\ Copy(s).slot = s
  /\ \A s, u \in Slots : Original(s) # Copy(u)
  /\ \A s, u \in Slots : Original(s) = Original(u) => s = u
  /\ \A s, u \in Slots : Copy(s) = Copy(u) => s = u
BY NoPathAssumption DEF Paths, Original, Copy, upgraded_path

(* A new pass only reads rows.                                              *)
LEMMA StartPassInductive ==
  ASSUME IInv, NEW w \in Passes, StartPass(w)
  PROVE  IInv'
<1> USE CardOfAssumption, BoundsAssumption, PathFacts
<1> USE DEF IInv, Goto, Finish, CountPending, _record, delVars, boundVars, passVars
<1>0. todo[w] # {} => Current(w) \in todo[w] /\ Current(w) \in Slots
  BY CurrentIsListed
<1>1. TypeOK'
  BY <1>0 DEF StartPass, media_files_needing_upgrade, Live, TypeOK, Objects, PathInv, PathOf
<1>2. PathInv'
  BY <1>0 DEF StartPass, media_files_needing_upgrade, Live, PathInv, PathOf, TypeOK
<1>3. FileInv'
  BY <1>0 DEF StartPass, FileInv, PathInv, PassInv, PathOf, Kept, TypeOK
<1>4. ASSUME NEW v \in Passes PROVE PassInv(v)'
  <2>1. CASE v = w
    BY <2>1, <1>0, SameCurrent
       DEF StartPass, FileInv, PathInv, PassInv, PathOf, Kept, TypeOK, seekable_envelope_version
  <2>2. CASE v # w
    <3>1. Current(v)' = Current(v) /\ PathOf(v)' = PathOf(v)
      BY <2>2, SameCurrent DEF StartPass, TypeOK
    <3>2. todo[v] # {} => Current(v) \in Slots
      BY CurrentIsListed
    <3> QED BY <2>2, <3>1, <3>2, <1>0 DEF StartPass, FileInv, PassInv, Kept, TypeOK
  <2> QED BY <2>1, <2>2
<1> QED BY <1>1, <1>2, <1>3, <1>4

(* Skipping a recorded failure touches no file.                             *)
LEMMA SkipFailedInductive ==
  ASSUME IInv, NEW w \in Passes, SkipFailed(w)
  PROVE  IInv'
<1> USE CardOfAssumption, BoundsAssumption, PathFacts
<1> USE DEF IInv, Goto, Finish, CountPending, _record, delVars, boundVars, passVars
<1>0. todo[w] # {} => Current(w) \in todo[w] /\ Current(w) \in Slots
  BY CurrentIsListed
<1>1. TypeOK'
  BY <1>0 DEF SkipFailed, TypeOK, Objects, PathInv, PathOf
<1>2. PathInv'
  BY <1>0 DEF SkipFailed, PathInv, PathOf, TypeOK
<1>3. FileInv'
  BY <1>0 DEF SkipFailed, FileInv, PathInv, PassInv, PathOf, Kept, TypeOK
<1>4. ASSUME NEW v \in Passes PROVE PassInv(v)'
  <2>1. CASE v = w
    BY <2>1, <1>0, SameCurrent
       DEF SkipFailed, FileInv, PathInv, PassInv, PathOf, Kept, TypeOK, seekable_envelope_version
  <2>2. CASE v # w
    <3>1. Current(v)' = Current(v) /\ PathOf(v)' = PathOf(v)
      BY <2>2, SameCurrent DEF SkipFailed, TypeOK
    <3>2. todo[v] # {} => Current(v) \in Slots
      BY CurrentIsListed
    <3> QED BY <2>2, <3>1, <3>2, <1>0 DEF SkipFailed, FileInv, PassInv, Kept, TypeOK
  <2> QED BY <2>1, <2>2
<1> QED BY <1>1, <1>2, <1>3, <1>4

(* A missing object costs a ledger entry only.                              *)
LEMMA ProbeMissingInductive ==
  ASSUME IInv, NEW w \in Passes, ProbeMissing(w)
  PROVE  IInv'
<1> USE CardOfAssumption, BoundsAssumption, PathFacts
<1> USE DEF IInv, Goto, Finish, CountPending, _record, delVars, boundVars, passVars
<1>0. todo[w] # {} => Current(w) \in todo[w] /\ Current(w) \in Slots
  BY CurrentIsListed
<1>1. TypeOK'
  BY <1>0 DEF ProbeMissing, TypeOK, Objects, PathInv, PathOf
<1>2. PathInv'
  BY <1>0 DEF ProbeMissing, PathInv, PathOf, TypeOK
<1>3. FileInv'
  BY <1>0 DEF ProbeMissing, FileInv, PathInv, PassInv, PathOf, Kept, TypeOK
<1>4. ASSUME NEW v \in Passes PROVE PassInv(v)'
  <2>1. CASE v = w
    BY <2>1, <1>0, SameCurrent
       DEF ProbeMissing, FileInv, PathInv, PassInv, PathOf, Kept, TypeOK, seekable_envelope_version
  <2>2. CASE v # w
    <3>1. Current(v)' = Current(v) /\ PathOf(v)' = PathOf(v)
      BY <2>2, SameCurrent DEF ProbeMissing, TypeOK
    <3>2. todo[v] # {} => Current(v) \in Slots
      BY CurrentIsListed
    <3> QED BY <2>2, <3>1, <3>2, <1>0 DEF ProbeMissing, FileInv, PassInv, Kept, TypeOK
  <2> QED BY <2>1, <2>2
<1> QED BY <1>1, <1>2, <1>3, <1>4

(* A plain or v2 object is left alone.                                      *)
LEMMA ProbeCurrentInductive ==
  ASSUME IInv, NEW w \in Passes, ProbeCurrent(w)
  PROVE  IInv'
<1> USE CardOfAssumption, BoundsAssumption, PathFacts
<1> USE DEF IInv, Goto, Finish, CountPending, _record, delVars, boundVars, passVars
<1>0. todo[w] # {} => Current(w) \in todo[w] /\ Current(w) \in Slots
  BY CurrentIsListed
<1>1. TypeOK'
  BY <1>0 DEF ProbeCurrent, TypeOK, Objects, PathInv, PathOf
<1>2. PathInv'
  BY <1>0 DEF ProbeCurrent, PathInv, PathOf, TypeOK
<1>3. FileInv'
  BY <1>0 DEF ProbeCurrent, FileInv, PathInv, PassInv, PathOf, Kept, TypeOK
<1>4. ASSUME NEW v \in Passes PROVE PassInv(v)'
  <2>1. CASE v = w
    BY <2>1, <1>0, SameCurrent
       DEF ProbeCurrent, FileInv, PathInv, PassInv, PathOf, Kept, TypeOK, seekable_envelope_version
  <2>2. CASE v # w
    <3>1. Current(v)' = Current(v) /\ PathOf(v)' = PathOf(v)
      BY <2>2, SameCurrent DEF ProbeCurrent, TypeOK
    <3>2. todo[v] # {} => Current(v) \in Slots
      BY CurrentIsListed
    <3> QED BY <2>2, <3>1, <3>2, <1>0 DEF ProbeCurrent, FileInv, PassInv, Kept, TypeOK
  <2> QED BY <2>1, <2>2
<1> QED BY <1>1, <1>2, <1>3, <1>4

(* Only an original path has a v1 header, so the rewrite starts from one.   *)
LEMMA ProbeV1Inductive ==
  ASSUME IInv, NEW w \in Passes, ProbeV1(w)
  PROVE  IInv'
<1> USE CardOfAssumption, BoundsAssumption, PathFacts
<1> USE DEF IInv, Goto, Finish, CountPending, _record, delVars, boundVars, passVars
<1>0. todo[w] # {} => Current(w) \in todo[w] /\ Current(w) \in Slots
  BY CurrentIsListed
<1>1. TypeOK'
  BY <1>0 DEF ProbeV1, TypeOK, Objects, PathInv, PathOf
<1>2. PathInv'
  BY <1>0 DEF ProbeV1, PathInv, PathOf, TypeOK
<1>3. FileInv'
  BY <1>0 DEF ProbeV1, FileInv, PathInv, PassInv, PathOf, Kept, TypeOK
<1>4. ASSUME NEW v \in Passes PROVE PassInv(v)'
  <2>1. CASE v = w
    BY <2>1, <1>0, SameCurrent
       DEF ProbeV1, FileInv, PathInv, PassInv, PathOf, Kept, TypeOK, seekable_envelope_version
  <2>2. CASE v # w
    <3>1. Current(v)' = Current(v) /\ PathOf(v)' = PathOf(v)
      BY <2>2, SameCurrent DEF ProbeV1, TypeOK
    <3>2. todo[v] # {} => Current(v) \in Slots
      BY CurrentIsListed
    <3> QED BY <2>2, <3>1, <3>2, <1>0 DEF ProbeV1, FileInv, PassInv, Kept, TypeOK
  <2> QED BY <2>1, <2>2
<1> QED BY <1>1, <1>2, <1>3, <1>4

(* The copy goes to the marked name, beside the original.                   *)
LEMMA RewriteInductive ==
  ASSUME IInv, NEW w \in Passes, Rewrite(w)
  PROVE  IInv'
<1> USE CardOfAssumption, BoundsAssumption, PathFacts
<1> USE DEF IInv, Goto, Finish, CountPending, _record, delVars, boundVars, passVars
<1>0. todo[w] # {} => Current(w) \in todo[w] /\ Current(w) \in Slots
  BY CurrentIsListed
<1>a. todo[w] # {} /\ PathOf(w) = Original(Current(w))
  BY DEF Rewrite, PassInv
<1>b. upgraded_path(PathOf(w)) = Copy(Current(w))
  BY <1>a DEF Copy
<1>1. TypeOK'
  BY <1>0, <1>a, <1>b DEF Rewrite, TypeOK, Objects, PathInv, PathOf
<1>2. PathInv'
  BY <1>0, <1>a, <1>b DEF Rewrite, PathInv, PathOf, TypeOK
<1>3. FileInv'
  BY <1>0, <1>a, <1>b DEF Rewrite, FileInv, PathInv, PassInv, PathOf, Kept, TypeOK
<1>4. ASSUME NEW v \in Passes PROVE PassInv(v)'
  <2>1. CASE v = w
    BY <2>1, <1>0, <1>a, <1>b, SameCurrent
       DEF Rewrite, FileInv, PathInv, PassInv, PathOf, Kept, TypeOK, seekable_envelope_version
  <2>2. CASE v # w
    <3>1. Current(v)' = Current(v) /\ PathOf(v)' = PathOf(v)
      BY <2>2, SameCurrent DEF Rewrite, TypeOK
    <3>2. todo[v] # {} => Current(v) \in Slots
      BY CurrentIsListed
    <3> QED BY <2>2, <3>1, <3>2, <1>0, <1>a, <1>b DEF Rewrite, FileInv, PassInv, Kept, TypeOK
  <2> QED BY <2>1, <2>2
<1> QED BY <1>1, <1>2, <1>3, <1>4

(* A failed rewrite can only spoil a marked name no row points at.          *)
LEMMA RewriteFailsInductive ==
  ASSUME IInv, NEW w \in Passes, RewriteFails(w)
  PROVE  IInv'
<1> USE CardOfAssumption, BoundsAssumption, PathFacts
<1> USE DEF IInv, Goto, Finish, CountPending, _record, delVars, boundVars, passVars
<1>0. todo[w] # {} => Current(w) \in todo[w] /\ Current(w) \in Slots
  BY CurrentIsListed
<1>a. todo[w] # {} /\ PathOf(w) = Original(Current(w))
  BY DEF RewriteFails, PassInv
<1>b. upgraded_path(PathOf(w)) = Copy(Current(w))
  BY <1>a DEF Copy
<1>1. TypeOK'
  BY <1>0, <1>a, <1>b DEF RewriteFails, TypeOK, Objects, PathInv, PathOf
<1>2. PathInv'
  BY <1>0, <1>a, <1>b DEF RewriteFails, PathInv, PathOf, TypeOK
<1>3. FileInv'
  BY <1>0, <1>a, <1>b DEF RewriteFails, FileInv, PathInv, PassInv, PathOf, Kept, TypeOK
<1>4. ASSUME NEW v \in Passes PROVE PassInv(v)'
  <2>1. CASE v = w
    BY <2>1, <1>0, <1>a, <1>b, SameCurrent
       DEF RewriteFails, FileInv, PathInv, PassInv, PathOf, Kept, TypeOK, seekable_envelope_version
  <2>2. CASE v # w
    <3>1. Current(v)' = Current(v) /\ PathOf(v)' = PathOf(v)
      BY <2>2, SameCurrent DEF RewriteFails, TypeOK
    <3>2. todo[v] # {} => Current(v) \in Slots
      BY CurrentIsListed
    <3> QED BY <2>2, <3>1, <3>2, <1>0, <1>a, <1>b DEF RewriteFails, FileInv, PassInv, Kept, TypeOK
  <2> QED BY <2>1, <2>2
<1> QED BY <1>1, <1>2, <1>3, <1>4

(* The row moves to a copy that is already verified.                        *)
LEMMA RepointInductive ==
  ASSUME IInv, NEW w \in Passes, Repoint(w)
  PROVE  IInv'
<1> USE CardOfAssumption, BoundsAssumption, PathFacts
<1> USE DEF IInv, Goto, Finish, CountPending, _record, delVars, boundVars, passVars
<1>0. todo[w] # {} => Current(w) \in todo[w] /\ Current(w) \in Slots
  BY CurrentIsListed
<1>a. todo[w] # {} /\ PathOf(w) = Original(Current(w))
  BY DEF Repoint, PassInv
<1>b. upgraded_path(PathOf(w)) = Copy(Current(w))
  BY <1>a DEF Copy
<1>1. TypeOK'
  BY <1>0, <1>a, <1>b DEF Repoint, TypeOK, Objects, PathInv, PathOf
<1>2. PathInv'
  BY <1>0, <1>a, <1>b DEF Repoint, PathInv, PathOf, TypeOK
<1>3. FileInv'
  BY <1>0, <1>a, <1>b DEF Repoint, FileInv, PathInv, PassInv, PathOf, Kept, TypeOK
<1>4. ASSUME NEW v \in Passes PROVE PassInv(v)'
  <2>1. CASE v = w
    BY <2>1, <1>0, <1>a, <1>b, SameCurrent
       DEF Repoint, FileInv, PathInv, PassInv, PathOf, Kept, TypeOK, seekable_envelope_version
  <2>2. CASE v # w
    <3>1. Current(v)' = Current(v) /\ PathOf(v)' = PathOf(v)
      BY <2>2, SameCurrent DEF Repoint, TypeOK
    <3>2. todo[v] # {} => Current(v) \in Slots
      BY CurrentIsListed
    <3> QED BY <2>2, <3>1, <3>2, <1>0, <1>a, <1>b DEF Repoint, FileInv, PassInv, Kept, TypeOK
  <2> QED BY <2>1, <2>2
<1> QED BY <1>1, <1>2, <1>3, <1>4

(* A failed commit leaves the row where it was.                             *)
LEMMA RepointFailsInductive ==
  ASSUME IInv, NEW w \in Passes, RepointFails(w)
  PROVE  IInv'
<1> USE CardOfAssumption, BoundsAssumption, PathFacts
<1> USE DEF IInv, Goto, Finish, CountPending, _record, delVars, boundVars, passVars
<1>0. todo[w] # {} => Current(w) \in todo[w] /\ Current(w) \in Slots
  BY CurrentIsListed
<1>a. todo[w] # {} /\ PathOf(w) = Original(Current(w))
  BY DEF RepointFails, PassInv
<1>1. TypeOK'
  BY <1>0, <1>a DEF RepointFails, TypeOK, Objects, PathInv, PathOf
<1>2. PathInv'
  BY <1>0, <1>a DEF RepointFails, PathInv, PathOf, TypeOK
<1>3. FileInv'
  BY <1>0, <1>a DEF RepointFails, FileInv, PathInv, PassInv, PathOf, Kept, TypeOK
<1>4. ASSUME NEW v \in Passes PROVE PassInv(v)'
  <2>1. CASE v = w
    BY <2>1, <1>0, <1>a, SameCurrent
       DEF RepointFails, FileInv, PathInv, PassInv, PathOf, Kept, TypeOK, seekable_envelope_version
  <2>2. CASE v # w
    <3>1. Current(v)' = Current(v) /\ PathOf(v)' = PathOf(v)
      BY <2>2, SameCurrent DEF RepointFails, TypeOK
    <3>2. todo[v] # {} => Current(v) \in Slots
      BY CurrentIsListed
    <3> QED BY <2>2, <3>1, <3>2, <1>0, <1>a DEF RepointFails, FileInv, PassInv, Kept, TypeOK
  <2> QED BY <2>1, <2>2
<1> QED BY <1>1, <1>2, <1>3, <1>4

(* The ledger says done only after the row has moved.                       *)
LEMMA MarkDoneInductive ==
  ASSUME IInv, NEW w \in Passes, MarkDone(w)
  PROVE  IInv'
<1> USE CardOfAssumption, BoundsAssumption, PathFacts
<1> USE DEF IInv, Goto, Finish, CountPending, _record, delVars, boundVars, passVars
<1>0. todo[w] # {} => Current(w) \in todo[w] /\ Current(w) \in Slots
  BY CurrentIsListed
<1>a. todo[w] # {} /\ PathOf(w) = Original(Current(w))
  BY DEF MarkDone, PassInv
<1>1. TypeOK'
  BY <1>0, <1>a DEF MarkDone, TypeOK, Objects, PathInv, PathOf
<1>2. PathInv'
  BY <1>0, <1>a DEF MarkDone, PathInv, PathOf, TypeOK
<1>3. FileInv'
  BY <1>0, <1>a DEF MarkDone, FileInv, PathInv, PassInv, PathOf, Kept, TypeOK
<1>4. ASSUME NEW v \in Passes PROVE PassInv(v)'
  <2>1. CASE v = w
    BY <2>1, <1>0, <1>a, SameCurrent
       DEF MarkDone, FileInv, PathInv, PassInv, PathOf, Kept, TypeOK, seekable_envelope_version
  <2>2. CASE v # w
    <3>1. Current(v)' = Current(v) /\ PathOf(v)' = PathOf(v)
      BY <2>2, SameCurrent DEF MarkDone, TypeOK
    <3>2. todo[v] # {} => Current(v) \in Slots
      BY CurrentIsListed
    <3> QED BY <2>2, <3>1, <3>2, <1>0, <1>a DEF MarkDone, FileInv, PassInv, Kept, TypeOK
  <2> QED BY <2>1, <2>2
<1> QED BY <1>1, <1>2, <1>3, <1>4

(* The original is removed only when the row no longer names it.            *)
LEMMA DropOldInductive ==
  ASSUME IInv, NEW w \in Passes, DropOld(w)
  PROVE  IInv'
<1> USE CardOfAssumption, BoundsAssumption, PathFacts
<1> USE DEF IInv, Goto, Finish, CountPending, _record, delVars, boundVars, passVars
<1>0. todo[w] # {} => Current(w) \in todo[w] /\ Current(w) \in Slots
  BY CurrentIsListed
<1>a. todo[w] # {} /\ PathOf(w) = Original(Current(w))
  BY DEF DropOld, PassInv
<1>1. TypeOK'
  BY <1>0, <1>a DEF DropOld, TypeOK, Objects, PathInv, PathOf
<1>2. PathInv'
  BY <1>0, <1>a DEF DropOld, PathInv, PathOf, TypeOK
<1>3. FileInv'
  BY <1>0, <1>a DEF DropOld, FileInv, PathInv, PassInv, PathOf, Kept, TypeOK
<1>4. ASSUME NEW v \in Passes PROVE PassInv(v)'
  <2>1. CASE v = w
    BY <2>1, <1>0, <1>a, SameCurrent
       DEF DropOld, FileInv, PathInv, PassInv, PathOf, Kept, TypeOK, seekable_envelope_version
  <2>2. CASE v # w
    <3>1. Current(v)' = Current(v) /\ PathOf(v)' = PathOf(v)
      BY <2>2, SameCurrent DEF DropOld, TypeOK
    <3>2. todo[v] # {} => Current(v) \in Slots
      BY CurrentIsListed
    <3> QED BY <2>2, <3>1, <3>2, <1>0, <1>a DEF DropOld, FileInv, PassInv, Kept, TypeOK
  <2> QED BY <2>1, <2>2
<1> QED BY <1>1, <1>2, <1>3, <1>4

(* Finishing a pass changes no file.                                        *)
LEMMA FinishPassInductive ==
  ASSUME IInv, NEW w \in Passes, FinishPass(w)
  PROVE  IInv'
<1> USE CardOfAssumption, BoundsAssumption, PathFacts
<1> USE DEF IInv, Goto, Finish, CountPending, _record, delVars, boundVars, passVars
<1>0. todo[w] # {} => Current(w) \in todo[w] /\ Current(w) \in Slots
  BY CurrentIsListed
<1>1. TypeOK'
  BY <1>0 DEF FinishPass, TypeOK, Objects, PathInv, PathOf
<1>2. PathInv'
  BY <1>0 DEF FinishPass, PathInv, PathOf, TypeOK
<1>3. FileInv'
  BY <1>0 DEF FinishPass, FileInv, PathInv, PassInv, PathOf, Kept, TypeOK
<1>4. ASSUME NEW v \in Passes PROVE PassInv(v)'
  <2>1. CASE v = w
    BY <2>1, <1>0, SameCurrent
       DEF FinishPass, FileInv, PathInv, PassInv, PathOf, Kept, TypeOK, seekable_envelope_version
  <2>2. CASE v # w
    <3>1. Current(v)' = Current(v) /\ PathOf(v)' = PathOf(v)
      BY <2>2, SameCurrent DEF FinishPass, TypeOK
    <3>2. todo[v] # {} => Current(v) \in Slots
      BY CurrentIsListed
    <3> QED BY <2>2, <3>1, <3>2, <1>0 DEF FinishPass, FileInv, PassInv, Kept, TypeOK
  <2> QED BY <2>1, <2>2
<1> QED BY <1>1, <1>2, <1>3, <1>4

(* A kill forgets the list and nothing else.                                *)
LEMMA CrashInductive ==
  ASSUME IInv, NEW w \in Passes, Crash(w)
  PROVE  IInv'
<1> USE CardOfAssumption, BoundsAssumption, PathFacts
<1> USE DEF IInv, Goto, Finish, CountPending, _record, delVars, boundVars, passVars
<1>0. todo[w] # {} => Current(w) \in todo[w] /\ Current(w) \in Slots
  BY CurrentIsListed
<1>1. TypeOK'
  BY <1>0 DEF Crash, TypeOK, Objects, PathInv, PathOf
<1>2. PathInv'
  BY <1>0 DEF Crash, PathInv, PathOf, TypeOK
<1>3. FileInv'
  BY <1>0 DEF Crash, FileInv, PathInv, PassInv, PathOf, Kept, TypeOK
<1>4. ASSUME NEW v \in Passes PROVE PassInv(v)'
  <2>1. CASE v = w
    BY <2>1, <1>0, SameCurrent
       DEF Crash, FileInv, PathInv, PassInv, PathOf, Kept, TypeOK, seekable_envelope_version
  <2>2. CASE v # w
    <3>1. Current(v)' = Current(v) /\ PathOf(v)' = PathOf(v)
      BY <2>2, SameCurrent DEF Crash, TypeOK
    <3>2. todo[v] # {} => Current(v) \in Slots
      BY CurrentIsListed
    <3> QED BY <2>2, <3>1, <3>2, <1>0 DEF Crash, FileInv, PassInv, Kept, TypeOK
  <2> QED BY <2>1, <2>2
<1> QED BY <1>1, <1>2, <1>3, <1>4

(* Forgetting failures never makes a record say done.                       *)
LEMMA retry_failedInductive ==
  ASSUME IInv, retry_failed
  PROVE  IInv'
<1> USE CardOfAssumption, BoundsAssumption, PathFacts
<1> USE DEF IInv, delVars, boundVars, passVars
<1>1. TypeOK'
  BY DEF retry_failed, TypeOK, Objects, NoReport
<1>2. PathInv'
  BY DEF retry_failed, PathInv, TypeOK
<1>3. FileInv'
  BY DEF retry_failed, FileInv, PathInv, Kept, TypeOK
<1>4. ASSUME NEW v \in Passes PROVE PassInv(v)'
  <2>1. Current(v)' = Current(v) /\ PathOf(v)' = PathOf(v)
    BY SameCurrent DEF retry_failed
  <2>2. todo[v] # {} => Current(v) \in Slots
    BY CurrentIsListed
  <2> QED BY <2>1, <2>2 DEF retry_failed, FileInv, PassInv, Kept, TypeOK
<1> QED BY <1>1, <1>2, <1>3, <1>4

(* A delete reads the row.                                                  *)
LEMMA LoadForDeleteInductive ==
  ASSUME IInv, NEW c \in Cards, LoadForDelete(c)
  PROVE  IInv'
<1> USE CardOfAssumption, BoundsAssumption, PathFacts
<1> USE DEF IInv, delVars, boundVars, passVars
<1>1. TypeOK'
  BY DEF LoadForDelete, TypeOK, Objects, NoReport
<1>2. PathInv'
  BY DEF LoadForDelete, PathInv, TypeOK
<1>3. FileInv'
  BY DEF LoadForDelete, FileInv, PathInv, Kept, TypeOK
<1>4. ASSUME NEW v \in Passes PROVE PassInv(v)'
  <2>1. Current(v)' = Current(v) /\ PathOf(v)' = PathOf(v)
    BY SameCurrent DEF LoadForDelete
  <2>2. todo[v] # {} => Current(v) \in Slots
    BY CurrentIsListed
  <2> QED BY <2>1, <2>2 DEF LoadForDelete, FileInv, PassInv, Kept, TypeOK
<1> QED BY <1>1, <1>2, <1>3, <1>4

(* A delete removes the files of its own card only.                         *)
LEMMA DeleteFilesInductive ==
  ASSUME IInv, NEW c \in Cards, DeleteFiles(c)
  PROVE  IInv'
<1> USE CardOfAssumption, BoundsAssumption, PathFacts
<1> USE DEF IInv, delVars, boundVars, passVars
<1>1. TypeOK'
  BY DEF DeleteFiles, TypeOK, Objects, NoReport
<1>2. PathInv'
  BY DEF DeleteFiles, PathInv, TypeOK
<1>3. FileInv'
  BY DEF DeleteFiles, FileInv, PathInv, Kept, TypeOK
<1>4. ASSUME NEW v \in Passes PROVE PassInv(v)'
  <2>1. Current(v)' = Current(v) /\ PathOf(v)' = PathOf(v)
    BY SameCurrent DEF DeleteFiles
  <2>2. todo[v] # {} => Current(v) \in Slots
    BY CurrentIsListed
  <2> QED BY <2>1, <2>2 DEF DeleteFiles, FileInv, PassInv, Kept, TypeOK
<1> QED BY <1>1, <1>2, <1>3, <1>4

(* A deleted row names no file.                                             *)
LEMMA DeleteRowInductive ==
  ASSUME IInv, NEW c \in Cards, DeleteRow(c)
  PROVE  IInv'
<1> USE CardOfAssumption, BoundsAssumption, PathFacts
<1> USE DEF IInv, delVars, boundVars, passVars
<1>1. TypeOK'
  BY DEF DeleteRow, TypeOK, Objects, NoReport
<1>2. PathInv'
  BY DEF DeleteRow, PathInv, TypeOK
<1>3. FileInv'
  BY DEF DeleteRow, FileInv, PathInv, Kept, TypeOK
<1>4. ASSUME NEW v \in Passes PROVE PassInv(v)'
  <2>1. Current(v)' = Current(v) /\ PathOf(v)' = PathOf(v)
    BY SameCurrent DEF DeleteRow
  <2>2. todo[v] # {} => Current(v) \in Slots
    BY CurrentIsListed
  <2> QED BY <2>1, <2>2 DEF DeleteRow, FileInv, PassInv, Kept, TypeOK
<1> QED BY <1>1, <1>2, <1>3, <1>4

(* Every step of every process keeps the inductive invariant.               *)
LEMMA NextInductive == IInv /\ [Next]_vars => IInv'
<1> SUFFICES ASSUME IInv, [Next]_vars PROVE IInv'
  OBVIOUS
<1>1. CASE UNCHANGED vars
  BY <1>1 DEF vars, IInv, TypeOK, PathInv, FileInv, PassInv, Kept, PathOf, Current
<1>2. ASSUME NEW w \in Passes, StartPass(w) \/ PassStep(w) \/ Crash(w)
      PROVE  IInv'
  <2>1. CASE StartPass(w)    BY <2>1, StartPassInductive
  <2>2. CASE SkipFailed(w)   BY <2>2, SkipFailedInductive
  <2>3. CASE ProbeMissing(w) BY <2>3, ProbeMissingInductive
  <2>4. CASE ProbeCurrent(w) BY <2>4, ProbeCurrentInductive
  <2>5. CASE ProbeV1(w)      BY <2>5, ProbeV1Inductive
  <2>6. CASE Rewrite(w)      BY <2>6, RewriteInductive
  <2>7. CASE RewriteFails(w) BY <2>7, RewriteFailsInductive
  <2>8. CASE Repoint(w)      BY <2>8, RepointInductive
  <2>9. CASE RepointFails(w) BY <2>9, RepointFailsInductive
  <2>10. CASE MarkDone(w)    BY <2>10, MarkDoneInductive
  <2>11. CASE DropOld(w)     BY <2>11, DropOldInductive
  <2>12. CASE FinishPass(w)  BY <2>12, FinishPassInductive
  <2>13. CASE Crash(w)       BY <2>13, CrashInductive
  <2> QED BY <1>2, <2>1, <2>2, <2>3, <2>4, <2>5, <2>6, <2>7, <2>8, <2>9,
             <2>10, <2>11, <2>12, <2>13 DEF PassStep
<1>3. CASE retry_failed
  BY <1>3, retry_failedInductive
<1>4. ASSUME NEW c \in Cards, LoadForDelete(c) \/ DeleteFiles(c) \/ DeleteRow(c)
      PROVE  IInv'
  BY <1>4, LoadForDeleteInductive, DeleteFilesInductive, DeleteRowInductive
<1> QED BY <1>1, <1>2, <1>3, <1>4 DEF Next

LEMMA AlwaysIInv == Spec => []IInv
BY InitInductive, NextInductive, PTL DEF Spec

(* The state of the migration is well formed for every number of rows,      *)
(* cards and passes.                                                        *)
THEOREM TypeCorrect == Spec => []TypeOK
<1>1. IInv => TypeOK
  BY DEF IInv
<1> QED BY <1>1, AlwaysIInv, PTL

(* For every vault and any number of passes, kills, retries and deletes, a  *)
(* row names the object it began with or that object's verified copy, and   *)
(* no row still names a path the ledger calls done.                         *)
THEOREM RowsKeepTheirFiles == Spec => [](RowKeepsItsFile /\ DoneIsMoved)
<1>1. IInv => RowKeepsItsFile /\ DoneIsMoved
  BY CardOfAssumption, PathFacts
     DEF IInv, TypeOK, PathInv, FileInv, Kept, RowKeepsItsFile, DoneIsMoved
<1> QED BY <1>1, AlwaysIInv, PTL

(* No pass, however stale its listing, moves a row back from its v2 copy.   *)
THEOREM CopiesAreFinal == Spec => NeverBackToV1
<1> DEFINE Final == \A s \in Slots : row[s] \in Paths /\ row[s].v2name =>
                      row'[s] = NoPath \/ row'[s] = row[s]
<1>1. IInv /\ [Next]_vars => [Final]_vars
  <2> SUFFICES ASSUME IInv, Next, NEW s \in Slots, row[s] \in Paths, row[s].v2name
               PROVE  row'[s] = NoPath \/ row'[s] = row[s]
    BY DEF vars
  <2>1. row[s] = Copy(s)
    BY PathFacts DEF IInv, PathInv, Original, Copy
  <2>2. ASSUME NEW w \in Passes, Repoint(w)
        PROVE  row'[s] = row[s]
    <3>1. Current(w) \in Slots /\ PathOf(w) = Original(Current(w))
      BY <2>2, CurrentIsListed DEF Repoint, IInv, PassInv
    <3> QED BY <2>1, <2>2, <3>1 DEF Repoint, Copy, IInv, TypeOK
  <2>3. ASSUME NEW w \in Passes, StartPass(w) \/ PassStep(w) \/ Crash(w), ~Repoint(w)
        PROVE  row' = row
    BY <2>3 DEF PassStep, StartPass, SkipFailed, ProbeMissing, ProbeCurrent, ProbeV1,
       Rewrite, RewriteFails, RepointFails, MarkDone, DropOld, FinishPass, Crash
  <2>4. ASSUME NEW c \in Cards, LoadForDelete(c) \/ DeleteFiles(c) \/ DeleteRow(c)
        PROVE  row'[s] = NoPath \/ row'[s] = row[s]
    BY <2>4 DEF LoadForDelete, DeleteFiles, DeleteRow
  <2>5. retry_failed => row' = row
    BY DEF retry_failed
  <2> QED BY <2>2, <2>3, <2>4, <2>5 DEF Next
<1> QED BY <1>1, AlwaysIInv, PTL DEF Spec, NeverBackToV1

(* While rows and deletes stand still, a step changes no file a reader can  *)
(* reach: the inductive invariant fixes what each name of a row holds.      *)
LEMMA RowsFixContents ==
  ASSUME IInv, IInv', UNCHANGED <<origin, row, del>>
  PROVE  Opened' = Opened
<1>1. ASSUME NEW s \in Slots, Kept(s)
      PROVE  file'[row[s]] = file[row[s]]
  <2>1. Kept(s)' /\ row'[s] = row[s]
    BY <1>1 DEF Kept
  <2>2. row[s] \in {Original(s), Copy(s)}
    BY <1>1 DEF IInv, PathInv, Kept
  <2>3. CASE row[s] = Original(s)
    BY <1>1, <2>1, <2>3 DEF IInv, FileInv
  <2>4. CASE row[s] = Copy(s)
    BY <1>1, <2>1, <2>4 DEF IInv, FileInv
  <2> QED BY <2>2, <2>3, <2>4
<1> QED BY <1>1 DEF Opened, Kept

(* A committed row is the one step at which a reader sees the v2 copy; if   *)
(* the row was there already, the reader sees nothing.                      *)
LEMMA RepointIsUpgrade ==
  ASSUME IInv, IInv', NEW w \in Passes, Repoint(w)
  PROVE  (\E s \in Slots : Files!Upgrade(s)) \/ Opened' = Opened
<1>0. Current(w) \in Slots
  BY CurrentIsListed DEF Repoint, IInv, PassInv
<1>s. PICK s \in Slots : s = Current(w)
  BY <1>0
<1>1. s \in Slots /\ PathOf(w) = Original(s) /\ origin[s] = "v1"
  BY <1>s DEF Repoint, IInv, PassInv
<1>2. row' = [row EXCEPT ![s] = Copy(s)] /\ UNCHANGED <<file, del, origin>>
  BY <1>s, <1>1 DEF Repoint, Copy, delVars
<1>3. Opened' = [Opened EXCEPT ![s] = IF del[CardOf[s]] = "wiped" THEN "gone" ELSE file[Copy(s)]]
  <2>1. row'[s] = Copy(s) /\ Copy(s) # NoPath
    BY <1>2, PathFacts DEF IInv, TypeOK
  <2>2. \A u \in Slots : u # s => row'[u] = row[u]
    BY <1>2 DEF IInv, TypeOK
  <2>3. Opened'[s] = IF del[CardOf[s]] = "wiped" THEN "gone" ELSE file[Copy(s)]
    BY <1>2, <2>1 DEF Opened
  <2>4. ASSUME NEW u \in Slots, u # s
        PROVE  Opened'[u] = Opened[u]
    BY <1>2, <2>2, <2>4 DEF Opened
  <2>5. Opened \in [Slots -> {Opened[u] : u \in Slots}]
    BY DEF Opened
  <2>6. DOMAIN Opened' = Slots /\ Opened' = [u \in Slots |-> Opened'[u]]
    BY DEF Opened
  <2> QED BY <2>3, <2>4, <2>5, <2>6
<1>4. row[s] # NoPath
  BY <1>s DEF Repoint
<1>5. CASE del[CardOf[s]] = "wiped"
  BY <1>1, <1>3, <1>5 DEF Opened
<1>6. CASE del[CardOf[s]] # "wiped" /\ row[s] = Copy(s)
  <2>1. Opened[s] = file[Copy(s)]
    BY <1>1, <1>4, <1>6 DEF Opened
  <2>2. Opened' = [Opened EXCEPT ![s] = Opened[s]]
    BY <1>3, <1>6, <2>1
  <2>3. Opened = [u \in Slots |-> Opened[u]]
    BY DEF Opened
  <2>4. [Opened EXCEPT ![s] = Opened[s]] = Opened
    <3> DEFINE Now == Opened
    <3>1. Now = [u \in Slots |-> Now[u]]
      BY <2>3
    <3> HIDE DEF Now
    <3>2. [Now EXCEPT ![s] = Now[s]] = Now
      BY <3>1
    <3> QED BY <3>2 DEF Now
  <2> QED BY <2>2, <2>4
<1>7. CASE del[CardOf[s]] # "wiped" /\ row[s] = Original(s)
  <2>1. file[Original(s)] = "v1" /\ file[Copy(s)] = "v2"
    BY <1>s, <1>1, <1>4, <1>7 DEF IInv, FileInv, PassInv, Kept, Repoint
  <2>2. Opened[s] = "v1"
    BY <1>1, <1>4, <1>7, <2>1 DEF Opened
  <2> QED BY <1>1, <1>3, <1>7, <2>1, <2>2 DEF Files!Upgrade
<1> QED BY <1>1, <1>4, <1>5, <1>6, <1>7 DEF IInv, PathInv

(* The files of a card are gone for a reader when their removal starts, all *)
(* of them at once.                                                         *)
LEMMA DeleteIsErase ==
  ASSUME IInv, IInv', NEW c \in Cards, DeleteFiles(c) \/ DeleteRow(c)
  PROVE  Files!Erase(c) \/ Opened' = Opened
<1> USE CardOfAssumption, PathFacts
<1>1. CASE DeleteFiles(c)
  <2>1. \A s \in Slots : CardOf[s] = c => Opened'[s] = "gone"
    BY <1>1 DEF DeleteFiles, Opened, IInv, TypeOK
  <2>2. ASSUME NEW s \in Slots, CardOf[s] # c
        PROVE  Opened'[s] = Opened[s]
    <3>1. row'[s] = row[s] /\ del'[CardOf[s]] = del[CardOf[s]]
      BY <1>1, <2>2 DEF DeleteFiles, IInv, TypeOK
    <3>2. row[s] # NoPath => file'[row[s]] = file[row[s]]
      BY <1>1, <2>2 DEF DeleteFiles, IInv, TypeOK, PathInv
    <3> QED BY <3>1, <3>2 DEF Opened
  <2>3. Opened' = [s \in Slots |-> IF CardOf[s] = c THEN "gone" ELSE Opened[s]]
    BY <2>1, <2>2 DEF Opened
  <2>4. CASE \E s \in Slots : CardOf[s] = c /\ Opened[s] # "gone"
    BY <2>3, <2>4 DEF Files!Erase
  <2>5. CASE \A s \in Slots : CardOf[s] = c => Opened[s] = "gone"
    <3>1. \A s \in Slots : Opened'[s] = Opened[s]
      BY <2>1, <2>2, <2>5
    <3> QED BY <3>1 DEF Opened
  <2> QED BY <2>4, <2>5
<1>2. CASE DeleteRow(c)
  <2>1. ASSUME NEW s \in Slots
        PROVE  Opened'[s] = Opened[s]
    BY <1>2, <2>1 DEF DeleteRow, Opened, IInv, TypeOK
  <2> QED BY <2>1 DEF Opened
<1> QED BY <1>1, <1>2

(* For every vault, any number of passes, kills, retries and deletes: what  *)
(* readers see of the migration is a behaviour of the abstract store.       *)
THEOREM ImplementsCardFiles == Spec => ReadersSeeOneFile
<1>1. ASSUME Init PROVE Files!Init
  <2>1. ASSUME NEW s \in Slots PROVE Opened[s] = origin[s]
    <3>1. row[s] = Original(s) /\ Original(s) \in Paths /\ row[s] # NoPath
      BY <1>1, PathFacts DEF Init
    <3>2. del[CardOf[s]] # "wiped" /\ file[Original(s)] = origin[s]
      BY <1>1, <3>1, CardOfAssumption DEF Init, Original
    <3> QED BY <3>1, <3>2 DEF Opened
  <2>2. Opened = [s \in Slots |-> Opened[s]]
    BY DEF Opened
  <2> QED BY <1>1, <2>1, <2>2 DEF Init, Files!Init
<1>2. IInv /\ IInv' /\ [Next]_vars => [Files!Next]_Opened
  <2> SUFFICES ASSUME IInv, IInv', [Next]_vars
               PROVE  Files!Next \/ Opened' = Opened
    OBVIOUS
  <2>1. CASE UNCHANGED vars
    BY <2>1, RowsFixContents DEF vars
  <2>2. ASSUME NEW w \in Passes, Repoint(w)
        PROVE  Files!Next \/ Opened' = Opened
    BY <2>2, RepointIsUpgrade DEF Files!Next
  <2>3. ASSUME NEW w \in Passes, StartPass(w) \/ PassStep(w) \/ Crash(w), ~Repoint(w)
        PROVE  Opened' = Opened
    <3>1. UNCHANGED <<origin, row, del>>
      BY <2>3 DEF PassStep, StartPass, SkipFailed, ProbeMissing, ProbeCurrent, ProbeV1,
         Rewrite, RewriteFails, RepointFails, MarkDone, DropOld, FinishPass, Crash, delVars
    <3> QED BY <3>1, RowsFixContents
  <2>4. ASSUME NEW c \in Cards, LoadForDelete(c)
        PROVE  Opened' = Opened
    <3>1. /\ UNCHANGED <<row, file>> /\ del[c] = "no"
          /\ del' = [del EXCEPT ![c] = "loaded"]
      BY <2>4 DEF LoadForDelete
    <3>2. \A s \in Slots : del'[CardOf[s]] = "wiped" <=> del[CardOf[s]] = "wiped"
      BY <3>1, CardOfAssumption DEF IInv, TypeOK
    <3> QED BY <3>1, <3>2 DEF Opened
  <2>5. ASSUME NEW c \in Cards, DeleteFiles(c) \/ DeleteRow(c)
        PROVE  Files!Next \/ Opened' = Opened
    BY <2>5, DeleteIsErase DEF Files!Next
  <2>6. CASE retry_failed
    BY <2>6, RowsFixContents DEF retry_failed, delVars
  <2> QED BY <2>1, <2>2, <2>3, <2>4, <2>5, <2>6 DEF Next
<1> QED BY <1>1, <1>2, AlwaysIInv, PTL DEF Spec, ReadersSeeOneFile, Files!Spec

(***************************************************************************)
(* What "nothing pending" rests on: a pass that has counted nothing has    *)
(* left nothing behind in the part of its list that it is done with.       *)
(***************************************************************************)
FirstHeaders == {"v1", "keyed", "short"}

Settled(s) ==
  \/ row[s] = NoPath
  \/ ledger[row[s]] = "failed"
  \/ file[row[s]] \notin FirstHeaders

CountInv(w) ==
  pc[w] # "idle" /\ left[w] = 0 =>
    /\ pc[w] \notin {"mark", "drop"}
    /\ \A s \in Slots \ todo[w] : Settled(s)

ListedInv(w) ==
  \A s \in todo[w] : listed[w][s] = Copy(s) => row[s] # Original(s)

ReportInv ==
  /\ \A w \in Passes : CountInv(w) /\ ListedInv(w)
  /\ report = 0 => \A s \in Slots : Settled(s)

(* No step gives a row its first path back, overwrites the object there or, *)
(* without --retry-failed, forgets that it failed.                          *)
LEMMA OriginalsOnlyGo ==
  ASSUME IInv, IInv', Next, retries' = 0, NEW s \in Slots, row'[s] = Original(s)
  PROVE  /\ row[s] = Original(s)
         /\ file'[Original(s)] \in {file[Original(s)], "absent"}
         /\ ledger[Original(s)] = "failed" => ledger'[Original(s)] = "failed"
<1> USE CardOfAssumption, PathFacts
<1> DEFINE Goes == /\ row[s] = Original(s)
                   /\ file'[Original(s)] \in {file[Original(s)], "absent"}
                   /\ ledger[Original(s)] = "failed" => ledger'[Original(s)] = "failed"
<1>1. ASSUME NEW w \in Passes, StartPass(w) \/ PassStep(w) \/ Crash(w)
      PROVE  Goes
  <2>0. pc[w] \in {"rewrite", "repoint", "mark", "drop"} =>
          Current(w) \in Slots /\ PathOf(w) = Original(Current(w))
    BY CurrentIsListed DEF IInv, PassInv
  <2>1. CASE StartPass(w)
    BY <2>1 DEF StartPass
  <2>2. CASE SkipFailed(w)
    BY <2>2 DEF SkipFailed
  <2>3. CASE ProbeMissing(w)
    BY <2>3 DEF ProbeMissing, _record, IInv, TypeOK
  <2>4. CASE ProbeCurrent(w)
    BY <2>4 DEF ProbeCurrent
  <2>5. CASE ProbeV1(w)
    <3>1. PathOf(w) = Original(s) => ledger[Original(s)] # "failed"
      BY <2>5 DEF ProbeV1
    <3> QED BY <2>5, <3>1 DEF ProbeV1, _record, IInv, TypeOK
  <2>6. CASE Rewrite(w)
    <3>1. upgraded_path(PathOf(w)) = Copy(Current(w)) /\ Current(w) \in Slots
      BY <2>6, <2>0 DEF Rewrite, Copy
    <3> QED BY <2>6, <3>1 DEF Rewrite, IInv, TypeOK
  <2>7. CASE RewriteFails(w)
    <3>1. upgraded_path(PathOf(w)) = Copy(Current(w)) /\ Current(w) \in Slots
      BY <2>7, <2>0 DEF RewriteFails, Copy
    <3> QED BY <2>7, <3>1 DEF RewriteFails, _record, IInv, TypeOK
  <2>8. CASE Repoint(w)
    <3>1. upgraded_path(PathOf(w)) = Copy(Current(w)) /\ Current(w) \in Slots
      BY <2>8, <2>0 DEF Repoint, Copy
    <3> QED BY <2>8, <3>1 DEF Repoint, IInv, TypeOK
  <2>9. CASE RepointFails(w)
    BY <2>9 DEF RepointFails, _record, IInv, TypeOK
  <2>10. CASE MarkDone(w)
    <3>1. row[Current(w)] # Original(Current(w)) /\ Current(w) \in Slots
      BY <2>10, <2>0 DEF MarkDone, IInv, PassInv
    <3>2. row' = row /\ file' = file /\ PathOf(w) = Original(Current(w))
      BY <2>10, <2>0 DEF MarkDone
    <3>3. PathOf(w) # Original(s)
      BY <3>1, <3>2
    <3> QED BY <2>10, <3>2, <3>3 DEF MarkDone, _record, IInv, TypeOK
  <2>11. CASE DropOld(w)
    BY <2>11 DEF DropOld, IInv, TypeOK
  <2>12. CASE FinishPass(w)
    BY <2>12 DEF FinishPass
  <2>13. CASE Crash(w)
    BY <2>13 DEF Crash
  <2> QED BY <1>1, <2>1, <2>2, <2>3, <2>4, <2>5, <2>6, <2>7, <2>8, <2>9,
             <2>10, <2>11, <2>12, <2>13 DEF PassStep
<1>2. ~retry_failed
  BY DEF retry_failed, IInv, TypeOK
<1>3. ASSUME NEW c \in Cards, LoadForDelete(c) \/ DeleteFiles(c) \/ DeleteRow(c)
      PROVE  Goes
  <2>1. CASE LoadForDelete(c)
    BY <2>1 DEF LoadForDelete
  <2>2. CASE DeleteFiles(c)
    BY <2>2 DEF DeleteFiles, IInv, TypeOK
  <2>3. CASE DeleteRow(c)
    BY <2>3 DEF DeleteRow, IInv, TypeOK
  <2> QED BY <1>3, <2>1, <2>2, <2>3
<1> QED BY <1>1, <1>2, <1>3 DEF Next

(* A row that is settled stays so: it moves to a copy only, or goes.        *)
LEMMA SettledStays ==
  ASSUME IInv, IInv', Next, retries' = 0, NEW s \in Slots, Settled(s)
  PROVE  Settled(s)'
<1>1. row'[s] \in {Original(s), Copy(s), NoPath}
  BY DEF IInv, PathInv
<1>2. CASE row'[s] = NoPath
  BY <1>2 DEF Settled
<1>3. CASE row'[s] = Copy(s)
  <2>1. file'[Copy(s)] \in {"absent", "v2", "torn"}
    BY DEF IInv, FileInv
  <2> QED BY <1>3, <2>1 DEF Settled, FirstHeaders
<1>4. CASE row'[s] = Original(s)
  BY <1>4, OriginalsOnlyGo, PathFacts DEF Settled, FirstHeaders
<1> QED BY <1>1, <1>2, <1>3, <1>4

(* A pass whose limit reaches every row lists every row that has a file.    *)
LEMMA ListReachesAll ==
  ASSUME Limit >= Cardinality(Slots)
  PROVE  media_files_needing_upgrade = Live
<1>1. ASSUME NEW s \in Live
      PROVE  Cardinality({t \in Live : t <= s}) <= Limit
  <2> DEFINE Before == {t \in Live : t <= s}
  <2>1. Before \subseteq Slots
    BY DEF Live
  <2> HIDE DEF Before
  <2>2. IsFiniteSet(Before) /\ Cardinality(Before) <= Cardinality(Slots)
    BY <2>1, SlotsAssumption, FS_Subset
  <2>3. Cardinality(Before) \in Nat /\ Cardinality(Slots) \in Nat
    BY <2>2, SlotsAssumption, FS_CardinalityType
  <2>4. Cardinality(Before) <= Limit
    BY <2>2, <2>3, BoundsAssumption
  <2> QED BY <2>4 DEF Before
<1> QED BY <1>1 DEF media_files_needing_upgrade

(* What a pass leaves without counting it is settled: a failure of an       *)
(* earlier pass, or a file that is plain or in the new envelope.            *)
LEMMA LeftIsSettled ==
  ASSUME IInv, NEW w \in Passes, ListedInv(w), SkipFailed(w) \/ ProbeCurrent(w)
  PROVE  Current(w) \in Slots /\ Settled(Current(w))
<1>1. Current(w) \in todo[w] /\ Current(w) \in Slots
  BY CurrentIsListed DEF IInv, SkipFailed, ProbeCurrent
<1>s. PICK s \in Slots : s = Current(w)
  BY <1>1
<1>2. PathOf(w) \in {Original(s), Copy(s)} /\ row[s] \in {Original(s), Copy(s), NoPath}
  BY <1>1, <1>s DEF IInv, PathInv, PathOf
<1>3. CASE row[s] = NoPath
  BY <1>s, <1>3 DEF Settled
<1>4. CASE row[s] = Copy(s)
  BY <1>s, <1>4 DEF IInv, FileInv, Settled, FirstHeaders
<1>5. CASE row[s] = Original(s)
  <2>1. PathOf(w) = row[s]
    BY <1>1, <1>s, <1>2, <1>5 DEF ListedInv, PathOf
  <2>2. CASE SkipFailed(w)
    BY <1>s, <2>1, <2>2 DEF SkipFailed, Settled
  <2>3. CASE ProbeCurrent(w)
    BY <1>s, <2>1, <2>3 DEF ProbeCurrent, Settled, FirstHeaders, seekable_envelope_version
  <2> QED BY <2>2, <2>3
<1> QED BY <1>s, <1>2, <1>3, <1>4, <1>5

(* What each step does to the lists and counts: its own pass lists, counts, *)
(* or leaves a slot that LeftIsSettled is about; every other stays.         *)
LEMMA CountsAreKept ==
  ASSUME IInv, IInv', ReportInv, Next, retries' = 0, Limit >= Cardinality(Slots),
         NEW w \in Passes
  PROVE  CountInv(w)' /\ ListedInv(w)'
<1> DEFINE Same(v) == /\ pc'[v] = pc[v] /\ left'[v] = left[v]
                      /\ todo'[v] = todo[v] /\ listed'[v] = listed[v]
<1>0. \A s \in Slots : Settled(s) => Settled(s)'
  BY SettledStays
<1>r. \A s \in Slots : row'[s] = Original(s) => row[s] = Original(s)
  BY OriginalsOnlyGo
<1>t. todo[w] \subseteq Slots /\ todo'[w] \subseteq Slots
  BY DEF IInv, TypeOK
<1>1. ASSUME todo'[w] \subseteq todo[w], listed'[w] = listed[w] PROVE ListedInv(w)'
  BY <1>1, <1>r, <1>t DEF ReportInv, ListedInv
<1>2. ASSUME Same(w) PROVE CountInv(w)'
  BY <1>0, <1>2 DEF ReportInv, CountInv
<1>3. CASE StartPass(w)
  <2>1. todo'[w] = Live /\ listed'[w] = row /\ row' = row /\ pc'[w] = "probe"
    BY <1>3, ListReachesAll DEF StartPass, Goto, IInv, TypeOK
  <2>2. ListedInv(w)'
    BY <2>1, PathFacts DEF ListedInv, Live
  <2>3. \A s \in Slots \ todo'[w] : row'[s] = NoPath
    BY <2>1 DEF Live
  <2>4. CountInv(w)'
    BY <2>1, <2>3 DEF CountInv, Settled
  <2> QED BY <2>2, <2>4
<1>4. CASE SkipFailed(w) \/ ProbeCurrent(w)
  <2>1. Current(w) \in Slots /\ Settled(Current(w))
    BY <1>4, LeftIsSettled DEF ReportInv
  <2>2. /\ pc'[w] = "probe" /\ pc[w] = "probe" /\ left'[w] = left[w]
        /\ todo'[w] = todo[w] \ {Current(w)} /\ listed'[w] = listed[w]
    BY <1>4 DEF SkipFailed, ProbeCurrent, Finish, IInv, TypeOK
  <2>3. left[w] = 0 => \A s \in Slots \ todo'[w] : Settled(s)
    BY <2>1, <2>2 DEF ReportInv, CountInv
  <2>4. CountInv(w)'
    BY <1>0, <2>2, <2>3 DEF CountInv
  <2> QED BY <1>1, <2>2, <2>4
<1>5. CASE ProbeMissing(w) \/ RewriteFails(w) \/ Repoint(w) \/ RepointFails(w)
  <2>1. left'[w] # 0
    BY <1>5 DEF ProbeMissing, RewriteFails, Repoint, RepointFails, CountPending, IInv, TypeOK
  <2>2. todo'[w] \subseteq todo[w] /\ listed'[w] = listed[w]
    BY <1>5 DEF ProbeMissing, RewriteFails, Repoint, RepointFails, Finish, IInv, TypeOK
  <2> QED BY <1>1, <2>1, <2>2 DEF CountInv
<1>6. CASE ProbeV1(w) \/ Rewrite(w)
  <2>1. /\ pc'[w] \notin {"mark", "drop"} /\ pc[w] # "idle" /\ left'[w] = left[w]
        /\ todo'[w] = todo[w] /\ listed'[w] = listed[w]
    BY <1>6 DEF ProbeV1, Rewrite, Goto, IInv, TypeOK
  <2>2. CountInv(w)'
    BY <1>0, <2>1 DEF ReportInv, CountInv
  <2> QED BY <1>1, <2>1, <2>2
<1>7. CASE MarkDone(w) \/ DropOld(w)
  <2>1. pc[w] \in {"mark", "drop"} /\ left'[w] = left[w]
    BY <1>7 DEF MarkDone, DropOld
  <2>2. left[w] # 0
    BY <2>1 DEF ReportInv, CountInv
  <2>3. todo'[w] \subseteq todo[w] /\ listed'[w] = listed[w]
    BY <1>7 DEF MarkDone, DropOld, Finish, IInv, TypeOK
  <2> QED BY <1>1, <2>1, <2>2, <2>3 DEF CountInv
<1>8. CASE FinishPass(w) \/ Crash(w)
  <2>1. pc'[w] = "idle" /\ todo'[w] \subseteq todo[w] /\ listed'[w] = listed[w]
    BY <1>8 DEF FinishPass, Crash, Goto, IInv, TypeOK
  <2> QED BY <1>1, <2>1 DEF CountInv
<1>9. ASSUME NEW v \in Passes, v # w, StartPass(v) \/ PassStep(v) \/ Crash(v)
      PROVE  Same(w)
  BY <1>9 DEF PassStep, StartPass, SkipFailed, ProbeMissing, ProbeCurrent, ProbeV1, Rewrite,
     RewriteFails, Repoint, RepointFails, MarkDone, DropOld, FinishPass, Crash, Goto, Finish,
     CountPending, IInv, TypeOK
<1>10. ASSUME NEW c \in Cards, LoadForDelete(c) \/ DeleteFiles(c) \/ DeleteRow(c)
       PROVE  Same(w)
  BY <1>10 DEF LoadForDelete, DeleteFiles, DeleteRow, passVars
<1>11. retry_failed => Same(w)
  BY DEF retry_failed
<1>12. Same(w) => CountInv(w)' /\ ListedInv(w)'
  BY <1>1, <1>2
<1> HIDE DEF Same
<1> QED BY <1>3, <1>4, <1>5, <1>6, <1>7, <1>8, <1>9, <1>10, <1>11, <1>12 DEF Next, PassStep

(* Every step keeps the counts of the passes honest.                        *)
LEMMA ReportInductive ==
  ASSUME IInv, IInv', ReportInv, [Next]_vars, retries' = 0, Limit >= Cardinality(Slots)
  PROVE  ReportInv'
<1>1. CASE UNCHANGED vars
  BY <1>1 DEF vars, ReportInv, CountInv, ListedInv, Settled
<1>2. CASE Next
  <2>1. \A w \in Passes : CountInv(w)' /\ ListedInv(w)'
    BY <1>2, CountsAreKept
  <2>2. \A s \in Slots : Settled(s) => Settled(s)'
    BY <1>2, SettledStays
  <2>3. ASSUME NEW w \in Passes, FinishPass(w), report' = 0
        PROVE  \A s \in Slots : Settled(s)
    <3>1. pc[w] = "probe" /\ todo[w] = {} /\ left[w] = 0
      BY <2>3 DEF FinishPass
    <3> QED BY <3>1 DEF ReportInv, CountInv
  <2>4. ASSUME NEW w \in Passes, StartPass(w) \/ PassStep(w) \/ Crash(w), ~FinishPass(w)
        PROVE  report' = report
    BY <2>4 DEF PassStep, StartPass, SkipFailed, ProbeMissing, ProbeCurrent, ProbeV1, Rewrite,
       RewriteFails, Repoint, RepointFails, MarkDone, DropOld, Crash
  <2>5. ASSUME NEW c \in Cards, LoadForDelete(c) \/ DeleteFiles(c) \/ DeleteRow(c)
        PROVE  report' = report
    BY <2>5 DEF LoadForDelete, DeleteFiles, DeleteRow, passVars
  <2>6. ~retry_failed
    BY DEF retry_failed, IInv, TypeOK
  <2>7. report' = 0 => \A s \in Slots : Settled(s)
    BY <1>2, <2>3, <2>4, <2>5, <2>6 DEF Next, ReportInv
  <2> QED BY <2>1, <2>2, <2>7 DEF ReportInv
<1> QED BY <1>1, <1>2

(* Once failures were tried again, they were.                               *)
LEMMA RetriesOnlyGrow ==
  ASSUME IInv, [Next]_vars, retries' = 0
  PROVE  retries = 0
<1>1. ASSUME NEW w \in Passes, StartPass(w) \/ PassStep(w) \/ Crash(w)
      PROVE  retries' = retries
  BY <1>1 DEF PassStep, StartPass, SkipFailed, ProbeMissing, ProbeCurrent, ProbeV1, Rewrite,
     RewriteFails, Repoint, RepointFails, MarkDone, DropOld, FinishPass, Crash, boundVars
<1>2. ASSUME NEW c \in Cards, LoadForDelete(c) \/ DeleteFiles(c) \/ DeleteRow(c)
      PROVE  retries' = retries
  BY <1>2 DEF LoadForDelete, DeleteFiles, DeleteRow, boundVars
<1>3. ~retry_failed
  BY DEF retry_failed, IInv, TypeOK
<1> QED BY <1>1, <1>2, <1>3 DEF Next, vars

(* However many passes run, are killed or overlap, and whatever is deleted  *)
(* meanwhile: under a limit that reaches every row, and until failures are  *)
(* tried again, a pass that reports nothing pending tells the truth.        *)
THEOREM ReportsAreFinal ==
  ASSUME Limit >= Cardinality(Slots)
  PROVE  Spec => []ReportIsFinal
<1> DEFINE Until == retries = 0 => ReportInv
<1>1. Init => Until
  BY PathFacts DEF Init, ReportInv, CountInv, ListedInv, NoReport
<1>2. IInv /\ IInv' /\ Until /\ [Next]_vars => Until'
  BY RetriesOnlyGrow, ReportInductive
<1>3. Until => ReportIsFinal
  BY DEF ReportInv, ReportIsFinal, Settled, FirstHeaders
<1> QED BY <1>1, <1>2, <1>3, AlwaysIInv, PTL DEF Spec
=============================================================================
