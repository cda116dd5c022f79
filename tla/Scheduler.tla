------------------------------ MODULE Scheduler ------------------------------
(***************************************************************************)
(* Who may work on the vault, and when: the admin's logins, the runs over   *)
(* all courses that the admin or the timer starts, the retention job, and   *)
(* the auto-logout that locks the vault behind an admin who went away.      *)
(*                                                                         *)
(* Node runs one callback at a time, so an action is what happens between   *)
(* two awaits.  Time is counted in minutes, in counters that stop at their  *)
(* limits, so the number of states is finite however long the server runs.  *)
(* A run's effect on a course is what module SyncEngine describes; here it  *)
(* has an outcome only.  SINKA_LOCK_CMD and all intervals are configured.   *)
(***************************************************************************)
EXTENDS Naturals

CONSTANTS
    Browsers,       \* what an admin may be logged in from
    Timer,          \* the scheduler, as a caller of runAllCourses
    Courses,        \* (provider, courseId) pairs
    Uploads,        \* upload sessions
    None,
    IdleLimit,      \* AUTO_LOGOUT_MINUTES
    SyncEvery,      \* SYNC_INTERVAL_MINUTES
    RetainEvery,    \* RETENTION_EVERY_MS, in minutes
    Duration,       \* how long an upload session stays open
    MaxFailures     \* bound on failures to read the registry

ASSUME TimesAssumption ==
    /\ {IdleLimit, SyncEvery, RetainEvery, Duration} \subseteq Nat \ {0} /\ MaxFailures \in Nat
ASSUME CallersAssumption == Timer \notin Browsers
ASSUME NoneAssumption ==
    None \notin Courses /\ \A S \in (SUBSET Courses) \cup SUBSET Browsers : S # None

VARIABLES
    mounted,        \* the vault is unlocked
    logins,         \* browsers whose login session has isAdmin
    registry,       \* per course: not registered, or its lastSync
    open,           \* per upload session: minutes until it expires, 0 when not open
    running,        \* the flag in run-all.js
    run,            \* per caller: the courses its run still has to do, or None
    at,             \* per caller: the course it is syncing, or None
    idle,           \* minutes since the last admin request
    sinceSync,      \* minutes since lastSyncAt
    sinceRetention, \* minutes since lastRetentionAt
    due,            \* the interval timer has fired and tick has not run yet
    clearing,       \* session files autoLogout has yet to remove, or None
    retaining,      \* runRetention is at work
    failures,       \* failures so far
    fresh,          \* ghost: browsers that logged in since autoLogout listed the sessions
    missed          \* ghost: browsers whose session file autoLogout failed to list or to remove

clocks == <<idle, sinceSync, sinceRetention>>
vars == <<mounted, logins, registry, open, running, run, at, clocks, due, clearing, retaining,
          failures, fresh, missed>>

Callers == Browsers \cup {Timer}
Outcomes == {"ok", "skipped", "error"}

TypeOK ==
    /\ mounted \in BOOLEAN /\ logins \in SUBSET Browsers
    /\ registry \in [Courses -> Outcomes \cup {"absent", "new"}]
    /\ open \in [Uploads -> 0 .. Duration]
    /\ running \in BOOLEAN /\ run \in [Callers -> (SUBSET Courses) \cup {None}]
    /\ at \in [Callers -> Courses \cup {None}]
    /\ idle \in 0 .. IdleLimit /\ sinceSync \in 0 .. SyncEvery
    /\ sinceRetention \in 0 .. RetainEvery
    /\ due \in BOOLEAN /\ clearing \in (SUBSET Browsers) \cup {None}
    /\ retaining \in BOOLEAN /\ failures \in 0 .. MaxFailures
    /\ fresh \in SUBSET Browsers /\ missed \in SUBSET Browsers

NoRuns == [c \in Callers |-> None]

Init ==
    /\ mounted = FALSE /\ logins = {}
    /\ registry = [k \in Courses |-> "absent"] /\ open = [u \in Uploads |-> 0]
    /\ running = FALSE /\ run = NoRuns /\ at = NoRuns
    /\ idle = 0 /\ sinceSync = SyncEvery /\ sinceRetention = RetainEvery
    /\ due = FALSE /\ clearing = None /\ retaining = FALSE
    /\ failures = 0 /\ fresh = {} /\ missed = {}

-----------------------------------------------------------------------------
(* The admin.                                                              *)

(* The password unlocks the vault and the browser gets a session file of   *)
(* its own: the old one is gone, and autoLogout has not listed the new one. *)
Login(b) ==
    /\ mounted' = TRUE /\ logins' = logins \cup {b}
    /\ fresh' = fresh \cup {b} /\ missed' = missed \ {b}
    /\ clearing' = IF clearing = None THEN None ELSE clearing \ {b}
    /\ UNCHANGED <<registry, open, running, run, at, clocks, due, retaining, failures>>

(* The vault is locked whatever is at work in it. *)
Logout(b) ==
    /\ mounted' = FALSE /\ logins' = logins \ {b}
    /\ UNCHANGED <<registry, open, running, run, at, clocks, due, clearing, retaining, failures,
                   fresh, missed>>

(* requireAdmin lets the request through and it counts as activity. *)
Admitted(b) ==
    /\ b \in logins /\ mounted
    /\ idle' = 0
    /\ UNCHANGED <<mounted, logins, sinceSync, sinceRetention, due, clearing, retaining,
                   fresh, missed>>

Request(b) ==
    /\ Admitted(b)
    /\ UNCHANGED <<registry, open, running, run, at, failures>>

AddCourse(b, k) ==
    /\ Admitted(b)
    /\ registry' = [registry EXCEPT ![k] = "new"]
    /\ UNCHANGED <<open, running, run, at, failures>>

RemoveCourse(b, k) ==
    /\ Admitted(b)
    /\ registry' = [registry EXCEPT ![k] = "absent"]
    /\ UNCHANGED <<open, running, run, at, failures>>

CreateSession(b, u) ==
    /\ Admitted(b) /\ open[u] = 0
    /\ open' = [open EXCEPT ![u] = Duration]
    /\ UNCHANGED <<registry, running, run, at, failures>>

CloseSession(b, u) ==
    /\ Admitted(b)
    /\ open' = [open EXCEPT ![u] = 0]
    /\ UNCHANGED <<registry, running, run, at, failures>>

-----------------------------------------------------------------------------
(* runAllCourses.                                                          *)

Registered == {k \in Courses : registry[k] # "absent"}

RunAnyway(c) ==                 \* mutant of RunAll: the flag is not looked at
    /\ running' = TRUE /\ run' = [run EXCEPT ![c] = Registered] /\ UNCHANGED failures

(* The second caller is turned away.  readRegistry comes after the flag is *)
(* set and before the try: when it throws, nobody clears the flag again.   *)
RunAll(c) ==
    \/ running /\ UNCHANGED <<running, run, failures>>
    \/ ~running /\ running' = TRUE /\ run' = [run EXCEPT ![c] = Registered] /\ UNCHANGED failures
    \/ /\ ~running /\ running' = TRUE
       /\ failures < MaxFailures /\ failures' = failures + 1
       /\ UNCHANGED run

StartSync(b) ==
    /\ Admitted(b) /\ run[b] = None /\ RunAll(b)
    /\ UNCHANGED <<registry, open, at>>

(* recordSyncResult re-reads the registry, which a locked vault hides. *)
RecordAlways(k, outcome) == registry' = [registry EXCEPT ![k] = outcome]   \* mutant of Record
Record(k, outcome) ==
    registry' = IF mounted /\ k \in Registered THEN [registry EXCEPT ![k] = outcome] ELSE registry

(* Done with course k, one way or the other. *)
Outcome(c, k, outcome) ==
    /\ run' = [run EXCEPT ![c] = @ \ {k}]
    /\ Record(k, outcome)
    /\ UNCHANGED <<mounted, logins, open, running, clocks, due, clearing, retaining, failures, fresh,
                   missed>>

IsNext(c, k) == run[c] # None /\ k \in run[c] /\ at[c] = None

(* An unknown provider, or one without credentials: they lie in the vault, *)
(* so a run that goes on after the vault was locked passes over the rest.  *)
PassOver(c, k, outcome) ==
    /\ IsNext(c, k) /\ outcome \in {"skipped", "error"} /\ Outcome(c, k, outcome)
    /\ UNCHANGED at

BeginCourse(c, k) ==
    /\ IsNext(c, k) /\ mounted
    /\ at' = [at EXCEPT ![c] = k]
    /\ UNCHANGED <<mounted, logins, registry, open, running, run, clocks, due, clearing, retaining,
                   failures, fresh, missed>>

(* runSync returns or throws. *)
EndCourse(c, k, outcome) ==
    /\ run[c] # None /\ at[c] = k /\ outcome \in {"ok", "error"} /\ Outcome(c, k, outcome)
    /\ at' = [at EXCEPT ![c] = None]

(* The tail of tick: it does not ask again whether the vault is unlocked.  *)
Retain ==
    IF sinceRetention = RetainEvery
    THEN retaining' = TRUE /\ sinceRetention' = 0
    ELSE UNCHANGED <<retaining, sinceRetention>>

FlagStays(c) ==                     \* mutant of EndRun: the flag is never cleared
    /\ run[c] = {}
    /\ run' = [run EXCEPT ![c] = None] /\ UNCHANGED at
    /\ IF c = Timer THEN Retain ELSE UNCHANGED <<retaining, sinceRetention>>
    /\ UNCHANGED <<mounted, logins, registry, open, running, idle, sinceSync, due, clearing, failures,
                   fresh, missed>>

EndRun(c) ==
    /\ run[c] = {}
    /\ run' = [run EXCEPT ![c] = None] /\ running' = FALSE /\ UNCHANGED at
    /\ IF c = Timer THEN Retain ELSE UNCHANGED <<retaining, sinceRetention>>
    /\ UNCHANGED <<mounted, logins, registry, open, idle, sinceSync, due, clearing, failures,
                   fresh, missed>>

-----------------------------------------------------------------------------
(* The timer.                                                              *)

Later(n, limit) == IF n < limit THEN n + 1 ELSE limit

ExpiresTwice ==                 \* mutant of Minute: what has expired expires again
    /\ ~due /\ due' = TRUE
    /\ idle' = Later(idle, IdleLimit)
    /\ sinceSync' = Later(sinceSync, SyncEvery)
    /\ sinceRetention' = Later(sinceRetention, RetainEvery)
    /\ open' = [u \in Uploads |-> open[u] - 1]
    /\ UNCHANGED <<mounted, logins, registry, running, run, at, clearing, retaining, failures,
                   fresh, missed>>

NeverExpires ==                 \* mutant of Minute: expiresAt is not looked at
    /\ ~due /\ due' = TRUE
    /\ idle' = Later(idle, IdleLimit)
    /\ sinceSync' = Later(sinceSync, SyncEvery)
    /\ sinceRetention' = Later(sinceRetention, RetainEvery)
    /\ UNCHANGED <<mounted, logins, registry, open, running, run, at, clearing, retaining, failures,
                   fresh, missed>>

Minute ==
    /\ ~due /\ due' = TRUE
    /\ idle' = Later(idle, IdleLimit)
    /\ sinceSync' = Later(sinceSync, SyncEvery)
    /\ sinceRetention' = Later(sinceRetention, RetainEvery)
    /\ open' = [u \in Uploads |-> IF open[u] = 0 THEN 0 ELSE open[u] - 1]
    /\ UNCHANGED <<mounted, logins, registry, running, run, at, clearing, retaining, failures,
                   fresh, missed>>

(* A bound: an auto-logout is over before the next tick. *)
Ticks == due /\ due' = FALSE /\ clearing = None /\ UNCHANGED <<mounted, logins, registry, open, idle>>

LogoutDue == idle = IdleLimit /\ ~running /\ \A u \in Uploads : open[u] = 0

TickLocked ==
    /\ Ticks /\ ~mounted
    /\ UNCHANGED <<running, run, at, sinceSync, sinceRetention, clearing, retaining, failures,
                   fresh, missed>>

(* autoLogout: list the session files, remove them one by one, then lock.  *)
(* A directory that cannot be read counts as an empty one.                 *)
TickLogout ==
    /\ Ticks /\ mounted /\ LogoutDue
    /\ \/ clearing' = logins /\ missed' = {}
       \/ clearing' = {} /\ missed' = logins
    /\ fresh' = {}
    /\ UNCHANGED <<running, run, at, sinceSync, sinceRetention, retaining, failures>>

TickSync ==
    /\ Ticks /\ mounted /\ ~LogoutDue /\ sinceSync = SyncEvery
    /\ sinceSync' = 0
    /\ run[Timer] = None            \* a bound: one tick at a time waits for its run
    /\ RunAll(Timer)
    /\ IF run' = run THEN Retain ELSE UNCHANGED <<retaining, sinceRetention>>
    /\ UNCHANGED <<at, clearing, fresh, missed>>

TickRetain ==
    /\ Ticks /\ mounted /\ ~LogoutDue
    /\ sinceSync < SyncEvery \/ run[Timer] # None
    /\ Retain
    /\ UNCHANGED <<running, run, at, sinceSync, clearing, failures, fresh, missed>>

KeepsLogin(b) ==                \* mutant of ClearLogin: the file stays
    /\ clearing # None /\ b \in clearing
    /\ clearing' = clearing \ {b}
    /\ UNCHANGED <<mounted, logins, registry, open, running, run, at, clocks, due, retaining, failures,
                   fresh, missed>>

ClearLogin(b) ==
    /\ clearing # None /\ b \in clearing
    /\ logins' = logins \ {b} /\ clearing' = clearing \ {b}
    /\ UNCHANGED <<mounted, registry, open, running, run, at, clocks, due, retaining, failures,
                   fresh, missed>>

(* A file cannot be removed: it stays, and so do the ones listed behind it. *)
ClearFails ==
    /\ clearing # None /\ clearing # {}
    /\ clearing' = {} /\ missed' = missed \cup clearing
    /\ UNCHANGED <<mounted, logins, registry, open, running, run, at, clocks, due, retaining, failures,
                   fresh>>

AutoLock ==
    /\ clearing = {} /\ clearing' = None /\ mounted' = FALSE
    /\ UNCHANGED <<logins, registry, open, running, run, at, clocks, due, retaining, failures,
                   fresh, missed>>

EndRetention ==
    /\ retaining /\ retaining' = FALSE
    /\ UNCHANGED <<mounted, logins, registry, open, running, run, at, clocks, due, clearing, failures,
                   fresh, missed>>

(* The process dies with all it knew and every cookie with it; the vault   *)
(* stays mounted unless the machine went down as well.                     *)
Restart ==
    /\ mounted' \in {mounted, FALSE} /\ logins' = {}
    /\ running' = FALSE /\ run' = NoRuns /\ at' = NoRuns
    /\ idle' = 0 /\ sinceSync' = SyncEvery /\ sinceRetention' = RetainEvery
    /\ due' = FALSE /\ clearing' = None /\ retaining' = FALSE
    /\ fresh' = {} /\ missed' = {}
    /\ UNCHANGED <<registry, open, failures>>

Admin == \E b \in Browsers :
    \/ Login(b) \/ Logout(b) \/ Request(b) \/ StartSync(b)
    \/ \E k \in Courses : AddCourse(b, k) \/ RemoveCourse(b, k)
    \/ \E u \in Uploads : CreateSession(b, u) \/ CloseSession(b, u)

Tick == TickLocked \/ TickLogout \/ TickSync \/ TickRetain
Runs == \E c \in Callers :
    \/ EndRun(c)
    \/ \E k \in Courses :
        \/ BeginCourse(c, k)
        \/ \E outcome \in Outcomes : PassOver(c, k, outcome) \/ EndCourse(c, k, outcome)
LockUp == AutoLock \/ ClearFails \/ \E b \in Browsers : ClearLogin(b)

Next == Admin \/ Runs \/ Minute \/ Tick \/ LockUp \/ EndRetention \/ Restart

Spec == Init /\ [][Next]_vars

(* Time passes, the timer fires every minute, and a run, once started, gets *)
(* through its courses; the admin, and the power supply, owe nobody a step. *)
Fairness == WF_vars(Minute) /\ WF_vars(Tick) /\ WF_vars(Runs) /\ WF_vars(LockUp) /\ WF_vars(EndRetention)
FairSpec == Spec /\ Fairness

-----------------------------------------------------------------------------
(* Properties.                                                             *)

(* However the admin's clicks, the timer and restarts fall together, two   *)
(* engines never work over the same folders.                               *)
OneRun == \A c, d \in Callers : run[c] # None /\ run[d] # None => c = d

(* A course removed while a run is going over it does not come back when   *)
(* the run records its outcome.                                            *)
RemovedStaysRemoved ==
    [][\A k \in Courses : registry[k] = "absent" /\ registry'[k] # "absent"
           => \E b \in Browsers : AddCourse(b, k)]_vars

(* The auto-logout leaves no login behind but those made while it was at   *)
(* it and those whose session files it failed to list or to remove: with   *)
(* these the vault is locked all the same.                                 *)
CookiesDie == [][AutoLock => logins' \subseteq fresh \cup missed]_vars

(* Once the admin is gone for good and the server stays up, the vault gets  *)
(* locked, whatever runs, retention jobs and upload sessions he left behind; *)
(* a failure to read the registry is the exception (see RunAll).            *)
LockedInTheEnd ==
    (<>[][~Admin /\ ~Restart]_vars /\ [](failures = 0)) => <>[]~mounted

(* Every run ends and lets the next one in. *)
RunsEnd == [](failures = 0) => []<>~running

(* An auto-logout waits for the sync run in flight and for the upload      *)
(* sessions that are still open.                                           *)
LockDeferred == [][AutoLock => ~running /\ \A u \in Uploads : open[u] = 0]_vars

(* Nothing runs while the vault is locked: no engine is at work on a       *)
(* course whose directory has gone from under it.                          *)
NothingRunsLocked == mounted \/ \A c \in Callers : at[c] = None
=============================================================================
