------------------------------- MODULE Browser -----------------------------
(***************************************************************************)
(* Signing in through the browser runtime: the web process asks another    *)
(* container for browser sessions (core/browser_client.py), keeps the      *)
(* cookies of a signed in session as a snapshot on disk                    *)
(* (core/browser_snapshots.py), and revokes them when the owner            *)
(* disconnects the account.  One browser policy.                           *)
(*                                                                         *)
(* The web process serializes starts, saves and revocations of a policy    *)
(* under a lock of its own.  The runtime takes starts and closes one at a  *)
(* time, in the order they came (asyncio.Lock); a call that only reads a   *)
(* session does not wait for them.  A worker reads the snapshot with no    *)
(* lock.  A signature of the account is its number; 0 is signed out.       *)
(***************************************************************************)
EXTENDS Integers, Sequences, FiniteSets

CONSTANTS Visitors,          \* requests under way in the web process
          BROWSER_RUNTIME_ENABLED,  \* the setting, for the life of the deployment
          MAX_LIVE_SESSIONS,
          MaxSessions, MaxLogins,
          MaxBrowserFaults,         \* answers given up, processes restarted
          LegacyAtStart,     \* the snapshot has the old name when we begin
          LoneReads          \* no worker reads while the files are removed

ASSUME BrowserAssumption ==
    /\ BROWSER_RUNTIME_ENABLED \in BOOLEAN
    /\ MAX_LIVE_SESSIONS \in Nat \ {0} /\ MaxSessions \in Nat
    /\ MaxLogins \in Nat /\ MaxBrowserFaults \in Nat
    /\ LegacyAtStart \in BOOLEAN /\ LoneReads \in BOOLEAN /\ IsFiniteSet(Visitors)
    /\ LegacyAtStart => MaxLogins # 0

VARIABLES windows,   \* the sessions the runtime ever opened
          errands,   \* starts and closes it has been sent and not carried out
          snapshot, legacy,   \* the file, and the one of the old name
          policyLock,         \* the visitor that holds it
          visitor,            \* what a request is at
          reader,             \* what a worker is at
          logins, revoked,    \* signatures so far; those a revocation ended
          browserFaults             \* answers given up and restarts so far

browserVars == <<windows, errands, snapshot, legacy, policyLock, visitor, reader,
                 logins, revoked, browserFaults>>
browserFiles == <<snapshot, legacy, reader, revoked>>

Nobody == "nobody"
ASSUME NobodyAssumption == Nobody \notin Visitors

Away == [at |-> "away", window |-> 0, login |-> 0]
Windows == DOMAIN windows
LiveWindows == {n \in Windows : windows[n].mode # "closed"}
Interactive == {n \in LiveWindows : windows[n].mode = "interactive"}
Shut(some) == [n \in Windows |-> IF n \in some THEN [mode |-> "closed", login |-> 0]
                                                ELSE windows[n]]

GoesTo(k, at) == visitor' = [visitor EXCEPT ![k].at = at]
Leaves(k) == visitor' = [visitor EXCEPT ![k] = Away]
Takes(k) == policyLock = Nobody /\ policyLock' = k
Gives(k) == policyLock' = IF policyLock = k THEN Nobody ELSE policyLock
Sends(k, errand) == errands' = Append(errands, [errand EXCEPT !.for = k])
Errand(kind, mode, login, window) ==
    [kind |-> kind, mode |-> mode, login |-> login, window |-> window, for |-> Nobody]

-----------------------------------------------------------------------------
(* The web process.                                                        *)

\* start: the snapshot is loaded and sent along.  _load_sync gives a snapshot of
\* the old name its new one.
_load_sync == IF snapshot # 0 THEN snapshot ELSE legacy
Renamed == snapshot' = _load_sync /\ legacy' = IF snapshot = 0 THEN 0 ELSE legacy

start(k, mode) ==
    /\ BROWSER_RUNTIME_ENABLED
    /\ visitor[k] = Away /\ Takes(k)
    /\ Renamed
    /\ Sends(k, Errand("start", mode, _load_sync, 0))
    /\ GoesTo(k, "starting")
    /\ UNCHANGED <<windows, reader, revoked, logins, browserFaults>>

\* close: of the owner, or at the end of a catalogue page.
close(k, n) ==
    /\ \/ visitor[k] = Away /\ n \in LiveWindows
       \/ visitor[k].at = "browsing" /\ visitor[k].window = n
    /\ Sends(k, Errand("close", "", 0, n))
    /\ GoesTo(k, "closing")
    /\ UNCHANGED <<windows, browserFiles, policyLock, logins, browserFaults>>

\* save_snapshot: the session is looked up, then its state is fetched under the
\* lock and written.
SaveLooks(k, n) ==
    /\ visitor[k] = Away /\ n \in LiveWindows
    /\ visitor' = [visitor EXCEPT ![k] = [Away EXCEPT !.at = "seen", !.window = n]]
    /\ UNCHANGED <<windows, errands, browserFiles, policyLock, logins, browserFaults>>

Exportable(n) == n \in LiveWindows /\ windows[n].login # 0

\* Mutant: the state is fetched before the lock is taken.
FetchesUnlocked(k) ==
    /\ visitor[k].at = "seen" /\ UNCHANGED policyLock
    /\ IF Exportable(visitor[k].window)
       THEN visitor' = [visitor EXCEPT ![k].at = "saving",
                                       ![k].login = windows[visitor[k].window].login]
       ELSE Leaves(k)
    /\ UNCHANGED <<windows, errands, browserFiles, logins, browserFaults>>

SaveFetches(k) ==
    /\ visitor[k].at = "seen" /\ policyLock = Nobody
    /\ IF Exportable(visitor[k].window)
       THEN /\ policyLock' = k
            /\ visitor' = [visitor EXCEPT ![k].at = "saving",
                                          ![k].login = windows[visitor[k].window].login]
       ELSE Leaves(k) /\ UNCHANGED policyLock
    /\ UNCHANGED <<windows, errands, browserFiles, logins, browserFaults>>

_save_sync(k) ==
    /\ visitor[k].at = "saving"
    /\ snapshot' = visitor[k].login
    /\ Leaves(k) /\ Gives(k)
    /\ UNCHANGED <<windows, errands, legacy, reader, revoked, logins, browserFaults>>

\* delete_snapshot: close the sessions, if the runtime is enabled, then remove
\* one file and the other.
delete_snapshot(k) ==
    /\ visitor[k] = Away /\ Takes(k)
    /\ IF BROWSER_RUNTIME_ENABLED
       THEN Sends(k, Errand("closePolicy", "", 0, 0)) /\ GoesTo(k, "revoking")
       ELSE UNCHANGED errands /\ GoesTo(k, "unlinking")
    /\ UNCHANGED <<windows, browserFiles, logins, browserFaults>>

UnlinksNew(k) ==
    /\ visitor[k].at = "unlinking"
    /\ LoneReads => reader = "idle"
    /\ snapshot' = 0
    /\ GoesTo(k, "unlinkingOld")
    /\ UNCHANGED <<windows, errands, legacy, reader, policyLock, revoked, logins, browserFaults>>

UnlinksOld(k) ==
    /\ visitor[k].at = "unlinkingOld"
    /\ legacy' = 0
    /\ revoked' = logins
    /\ Leaves(k) /\ Gives(k)
    /\ UNCHANGED <<windows, errands, snapshot, reader, logins, browserFaults>>

\* The runtime does not answer in time; what it was sent it still carries out.
GivesUp(k) ==
    /\ visitor[k].at \in {"starting", "closing", "revoking"}
    /\ errands' = [i \in DOMAIN errands |->
                     IF errands[i].for = k THEN [errands[i] EXCEPT !.for = Nobody]
                     ELSE errands[i]]
    /\ browserFaults < MaxBrowserFaults /\ browserFaults' = browserFaults + 1
    /\ Leaves(k) /\ Gives(k)
    /\ UNCHANGED <<windows, browserFiles, logins>>

-----------------------------------------------------------------------------
(* The runtime carries out the errand at the head; who waits for it hears. *)

Answers(e, at, window) ==
    /\ errands' = Tail(errands)
    /\ IF e.for = Nobody THEN UNCHANGED <<visitor, policyLock>>
       ELSE /\ visitor' = [visitor EXCEPT ![e.for] = IF at = "away" THEN Away
                                                     ELSE [Away EXCEPT !.at = at, !.window = window]]
            /\ IF at = "unlinking" THEN UNCHANGED policyLock ELSE Gives(e.for)

\* An interactive session takes the place of the one before, and may then fail.
RuntimeStarts ==
    /\ errands # <<>> /\ Head(errands).kind = "start"
    /\ LET e == Head(errands)
           replaced == IF e.mode = "interactive" THEN Interactive ELSE {}
           room == Cardinality(LiveWindows \ replaced) < MAX_LIVE_SESSIONS
       IN \/ /\ room /\ Len(windows) < MaxSessions
             /\ windows' = Append(Shut(replaced), [mode |-> e.mode, login |-> e.login])
             /\ Answers(e, IF e.mode = "headless" THEN "browsing" ELSE "away", Len(windows) + 1)
          \/ windows' = Shut(replaced) /\ Answers(e, "away", 0)
    /\ UNCHANGED <<browserFiles, logins, browserFaults>>

RuntimeCloses ==
    /\ errands # <<>> /\ Head(errands).kind = "close"
    /\ windows' = Shut({Head(errands).window})
    /\ Answers(Head(errands), "away", 0)
    /\ UNCHANGED <<browserFiles, logins, browserFaults>>

\* A browser that fails to close ends the loop, and the sessions after it stay.
close_policy ==
    /\ errands # <<>> /\ Head(errands).kind = "closePolicy"
    /\ \/ windows' = Shut(LiveWindows) /\ Answers(Head(errands), "unlinking", 0)
       \/ \E n \in LiveWindows : /\ windows' = Shut({m \in LiveWindows : m <= n})
                                 /\ Answers(Head(errands), "away", 0)
    /\ UNCHANGED <<browserFiles, logins, browserFaults>>

\* Nobody has used the session for idle_timeout_seconds.
_watchdog(n) ==
    /\ n \in LiveWindows
    /\ windows' = Shut({n})
    /\ UNCHANGED <<errands, browserFiles, policyLock, visitor, logins, browserFaults>>

\* The owner signs in at the site, in the window.
SignsIn(n) ==
    /\ n \in Interactive /\ logins < MaxLogins
    /\ logins' = logins + 1
    /\ windows' = [windows EXCEPT ![n].login = logins']
    /\ UNCHANGED <<errands, browserFiles, policyLock, visitor, browserFaults>>

-----------------------------------------------------------------------------
\* cookies_for_scope_sync of a worker: which file there is, then its renaming.
ReaderOpens ==
    /\ reader = "idle" /\ _load_sync # 0
    /\ LoneReads => \A k \in Visitors : visitor[k].at # "unlinkingOld"
    /\ reader' = IF snapshot = 0 THEN "renaming" ELSE "reading"
    /\ UNCHANGED <<windows, errands, snapshot, legacy, revoked, policyLock, visitor, logins,
                   browserFaults>>

ReaderEnds ==
    /\ reader # "idle" /\ reader' = "idle"
    /\ IF reader = "renaming" /\ legacy # 0
       THEN snapshot' = legacy /\ legacy' = 0
       ELSE UNCHANGED <<snapshot, legacy>>
    /\ UNCHANGED <<windows, errands, revoked, policyLock, visitor, logins, browserFaults>>

\* The web process is restarted; the runtime keeps what it was sent.
WebRestarts ==
    /\ browserFaults < MaxBrowserFaults /\ browserFaults' = browserFaults + 1
    /\ visitor' = [k \in Visitors |-> Away] /\ policyLock' = Nobody
    /\ errands' = [i \in DOMAIN errands |-> [errands[i] EXCEPT !.for = Nobody]]
    /\ UNCHANGED <<windows, browserFiles, logins>>

\* The runtime is restarted; who waits for it gets an error.
RuntimeRestarts ==
    /\ browserFaults < MaxBrowserFaults /\ browserFaults' = browserFaults + 1
    /\ windows' = Shut(Windows) /\ errands' = <<>>
    /\ visitor' = [k \in Visitors |-> IF visitor[k].at \in {"starting", "closing", "revoking"}
                                      THEN Away ELSE visitor[k]]
    /\ policyLock' = IF policyLock # Nobody /\ visitor'[policyLock] = Away THEN Nobody
                     ELSE policyLock
    /\ UNCHANGED <<browserFiles, logins>>

BrowserInit ==
    /\ windows = <<>> /\ errands = <<>> /\ snapshot = 0
    /\ logins = (IF LegacyAtStart THEN 1 ELSE 0) /\ legacy = logins
    /\ policyLock = Nobody /\ visitor = [k \in Visitors |-> Away]
    /\ reader = "idle" /\ revoked = 0 /\ browserFaults = 0

BrowserNext ==
    \/ \E k \in Visitors :
          \/ \E mode \in {"interactive", "headless"} : start(k, mode)
          \/ \E n \in Windows : close(k, n) \/ SaveLooks(k, n)
          \/ SaveFetches(k) \/ _save_sync(k)
          \/ delete_snapshot(k) \/ UnlinksNew(k) \/ UnlinksOld(k)
          \/ GivesUp(k)
    \/ RuntimeStarts \/ RuntimeCloses \/ close_policy
    \/ \E n \in Windows : _watchdog(n) \/ SignsIn(n)
    \/ ReaderOpens \/ ReaderEnds \/ WebRestarts \/ RuntimeRestarts

BrowserSpec == BrowserInit /\ [][BrowserNext]_browserVars

-----------------------------------------------------------------------------
(* The sessions, files and requests have their types.                         *)
BrowserTypeOK ==
    /\ Len(windows) \in 0..MaxSessions
    /\ \A n \in Windows : /\ windows[n].mode \in {"interactive", "headless", "closed"}
                          /\ windows[n].login \in 0..logins
    /\ \A i \in DOMAIN errands : errands[i].kind \in {"start", "close", "closePolicy"}
    /\ snapshot \in 0..logins /\ legacy \in 0..logins /\ revoked \in 0..logins
    /\ policyLock \in Visitors \cup {Nobody}
    /\ \A k \in Visitors : visitor[k].at \in {"away", "starting", "browsing", "closing", "seen",
                                              "saving", "revoking", "unlinking", "unlinkingOld"}
    /\ logins \in 0..MaxLogins /\ browserFaults \in 0..MaxBrowserFaults

(* A revocation that was answered is final: no snapshot and no open session   *)
(* carries a signature made before it, whatever saves and starts were under   *)
(* way, were given up or were left behind by a process that was restarted.    *)
RevokeIsFinal ==
    LET Ended(login) == login \in 1..revoked
    IN /\ ~Ended(snapshot) /\ ~Ended(legacy)
       /\ \A n \in LiveWindows : ~Ended(windows[n].login)
=============================================================================
