---------------------------- MODULE VaultThrottle ---------------------------
(***************************************************************************)
(* The unlock throttle of one sealed vault (app/modules/vault/sealing.py,  *)
(* the /unlock route of router.py): failed passphrases are counted in      *)
(* Redis on two axes, the vault's and the caller's host, and the counters  *)
(* decide, before any key derivation, whether a caller has to wait.        *)
(*                                                                         *)
(* Every Redis command is a step of its own: callers overlap, and a        *)
(* counter's INCR and its EXPIRE are two commands.  Time counts down.      *)
(***************************************************************************)
EXTENDS Integers, FiniteSets

CONSTANTS Callers,       \* requests that may be under way at once
          Hosts,         \* client addresses
          HostOf,        \* the address each caller comes from
          Vault,         \* the vault-wide axis
          HostFree, HostCap,     \* UNLOCK_HOST_FREE_ATTEMPTS, ..._MAX_BACKOFF_SECONDS
          VaultFree, VaultCap,   \* the same for the vault's axis
          FailTTL,       \* UNLOCK_FAIL_TTL_SECONDS
          ExpireMayFail  \* may an EXPIRE be lost after its INCR

ASSUME HostsAssumption == HostOf \in [Callers -> Hosts] /\ Vault \notin Hosts
ASSUME CallersAssumption == IsFiniteSet(Callers)
ASSUME LimitsAssumption == /\ {HostFree, HostCap, VaultFree, VaultCap} \subseteq Nat
                           /\ FailTTL \in Nat \ {0}
                           /\ ExpireMayFail \in BOOLEAN

Keys == {Vault} \cup Hosts

VARIABLES count,   \* vault_unlock_fail:<key>; 0 is no key
          ttl,     \* what is left of it; 0 on a key that never expires
          caller   \* where a caller's request is, and on which axis

vars == <<count, ttl, caller>>

Idle == [at |-> "idle", key |-> Vault]
KDF == [at |-> "kdf", key |-> Vault]

Init == /\ count = [k \in Keys |-> 0]
        /\ ttl = [k \in Keys |-> 0]
        /\ caller = [c \in Callers |-> Idle]

-----------------------------------------------------------------------------
Least(m, n) == IF m < n THEN m ELSE n

_backoff(failures, free, cap) ==
    IF failures <= free THEN 0 ELSE Least(cap, 2 ^ (failures - free - 1))

\* Mutant: only the vault's own axis is looked at.
WaitsForVault(c) == _backoff(count[Vault], VaultFree, VaultCap)

unlock_backoff_seconds(c) ==
    LET ofVault == _backoff(count[Vault], VaultFree, VaultCap)
        ofHost == _backoff(count[HostOf[c]], HostFree, HostCap)
    IN IF ofVault > ofHost THEN ofVault ELSE ofHost

\* A request is let through to the KDF.  One that has to wait is answered 429,
\* before any derivation, and leaves no trace.
Admit(c) ==
    /\ caller[c] = Idle
    /\ unlock_backoff_seconds(c) = 0
    /\ caller' = [caller EXCEPT ![c] = KDF]
    /\ UNCHANGED <<count, ttl>>

\* The passphrase is wrong, or right.
WrongPassphrase(c) ==
    /\ caller[c] = KDF
    /\ caller' = [caller EXCEPT ![c] = [at |-> "count", key |-> Vault]]
    /\ UNCHANGED <<count, ttl>>

RightPassphrase(c) ==
    /\ caller[c] = KDF
    /\ caller' = [caller EXCEPT ![c] = [at |-> "clear", key |-> Vault]]
    /\ UNCHANGED <<count, ttl>>

\* Both loops over the keys take the vault's axis first, then the host's.
NextKey(c, at) ==
    IF caller[c].key = Vault THEN [at |-> at, key |-> HostOf[c]] ELSE Idle

\* Mutant: only the vault's axis is given an expiry.
ExpiresOneAxis(c) ==
    LET k == caller[c].key IN
    /\ caller[c].at = "count"
    /\ count' = [count EXCEPT ![k] = @ + 1]
    /\ caller' = [caller EXCEPT ![c] =
           IF count[k] + 1 = 1 /\ k = Vault THEN [at |-> "expire", key |-> k]
           ELSE NextKey(c, "count")]
    /\ UNCHANGED ttl

\* record_unlock_failure: INCR, and an EXPIRE of its own only after the first.
record_unlock_failure(c) ==
    LET k == caller[c].key IN
    /\ caller[c].at = "count"
    /\ count' = [count EXCEPT ![k] = @ + 1]
    /\ caller' = [caller EXCEPT ![c] =
           IF count[k] + 1 = 1 THEN [at |-> "expire", key |-> k] ELSE NextKey(c, "count")]
    /\ UNCHANGED ttl

Expire(c) ==
    LET k == caller[c].key IN
    /\ caller[c].at = "expire"
    /\ caller' = [caller EXCEPT ![c] = NextKey(c, "count")]
    /\ ttl' \in {[ttl EXCEPT ![k] = IF count[k] = 0 THEN 0 ELSE FailTTL]}
                \cup (IF ExpireMayFail THEN {ttl} ELSE {})
    /\ UNCHANGED count

\* Mutant: a right passphrase takes one failure back.
TakesOneBack(c) ==
    LET k == caller[c].key IN
    /\ caller[c].at = "clear"
    /\ count' = [count EXCEPT ![k] = @ - 1]
    /\ caller' = [caller EXCEPT ![c] = NextKey(c, "clear")]
    /\ UNCHANGED ttl

clear_unlock_failures(c) ==
    LET k == caller[c].key IN
    /\ caller[c].at = "clear"
    /\ count' = [count EXCEPT ![k] = 0]
    /\ ttl' = [ttl EXCEPT ![k] = 0]
    /\ caller' = [caller EXCEPT ![c] = NextKey(c, "clear")]

Tick ==
    /\ count' = [k \in Keys |-> IF ttl[k] = 1 THEN 0 ELSE count[k]]
    /\ ttl' = [k \in Keys |-> IF ttl[k] = 0 THEN 0 ELSE ttl[k] - 1]
    /\ UNCHANGED caller

Answer(c) == WrongPassphrase(c) \/ RightPassphrase(c)
Record(c) == record_unlock_failure(c) \/ Expire(c) \/ clear_unlock_failures(c)

Next == \/ \E c \in Callers : Admit(c) \/ Answer(c) \/ Record(c)
        \/ Tick

\* Time passes, and a request under way goes on; nobody has to try again.
Fairness == WF_vars(Tick) /\ \A c \in Callers : WF_vars(Answer(c)) /\ WF_vars(Record(c))

Spec == Init /\ [][Next]_vars
FairSpec == Spec /\ Fairness

-----------------------------------------------------------------------------
TypeOK == /\ count \in [Keys -> Nat]
          /\ ttl \in [Keys -> 0..FailTTL]
          /\ caller \in [Callers -> [at : {"idle", "kdf", "count", "expire", "clear"},
                                     key : Keys]]

\* Guesses under way on a key: past the gate, not yet counted there.
Guessing(k) == {c \in Callers :
    \/ caller[c].at = "kdf" /\ k \in {Vault, HostOf[c]}
    \/ caller[c].at = "count" /\ caller[c].key = k
    \/ caller[c].at \in {"count", "expire"} /\ caller[c].key = Vault /\ k = HostOf[c]}

\* Guessing in parallel buys no more than one guess per request under way: a
\* counter never passes its free attempts by more than the callers there are.
GuessesAreBounded ==
    /\ count[Vault] + Cardinality(Guessing(Vault)) <= VaultFree + Cardinality(Callers)
    /\ \A h \in Hosts : count[h] + Cardinality(Guessing(h))
           <= HostFree + Cardinality({c \in Callers : HostOf[c] = h})

\* A caller who is refused is let in again some day without the passphrase:
\* each counter expires on its own.
RefusalEnds == \A c \in Callers :
    unlock_backoff_seconds(c) > 0 ~> unlock_backoff_seconds(c) = 0
=============================================================================
