--------------------------- MODULE SchedulerProofs ---------------------------
(***************************************************************************)
(* For any number of browsers, courses and upload sessions, and through     *)
(* restarts: the flag in run-all.js keeps two runs apart, a course that was *)
(* removed stays removed, and the auto-logout leaves no old login behind    *)
(* but those whose session files it could not list or remove.               *)
(***************************************************************************)
EXTENDS Scheduler, TLAPS

(* A run is under way only while the flag is up.  The converse does not hold: *)
(* a registry that cannot be read leaves the flag up with no run.             *)
FlagUp == \A c \in Callers : run[c] # None => running

Inv == TypeOK /\ FlagUp /\ OneRun

(* TypeOK in three parts: what is counted, what is held, and the flags. *)
Counters ==
    /\ open \in [Uploads -> 0 .. Duration]
    /\ idle \in 0 .. IdleLimit /\ sinceSync \in 0 .. SyncEvery
    /\ sinceRetention \in 0 .. RetainEvery /\ failures \in 0 .. MaxFailures
Things ==
    /\ logins \in SUBSET Browsers /\ fresh \in SUBSET Browsers /\ missed \in SUBSET Browsers
    /\ registry \in [Courses -> Outcomes \cup {"absent", "new"}]
    /\ run \in [Callers -> (SUBSET Courses) \cup {None}]
    /\ at \in [Callers -> Courses \cup {None}]
    /\ clearing \in (SUBSET Browsers) \cup {None}
Flags ==
    /\ mounted \in BOOLEAN /\ running \in BOOLEAN /\ due \in BOOLEAN /\ retaining \in BOOLEAN

LEMMA TypeParts == TypeOK <=> Counters /\ Things /\ Flags
BY DEF TypeOK, Counters, Things, Flags

LEMMA InitInv == Init => Inv
<1> SUFFICES ASSUME Init PROVE Inv OBVIOUS
<1>1. Counters BY TimesAssumption DEF Init, Counters
<1>2. Things
    <2>1. run \in [Callers -> (SUBSET Courses) \cup {None}] BY DEF Init, NoRuns
    <2>2. registry \in [Courses -> Outcomes \cup {"absent", "new"}] BY DEF Init
    <2>3. logins \in SUBSET Browsers /\ fresh \in SUBSET Browsers /\ missed \in SUBSET Browsers
          /\ clearing \in (SUBSET Browsers) \cup {None}
        <3>1. logins = {} /\ fresh = {} /\ missed = {} /\ clearing = None BY DEF Init
        <3> QED BY <3>1
    <2>4. at \in [Callers -> Courses \cup {None}] BY DEF Init, NoRuns
    <2> QED BY <2>1, <2>2, <2>3, <2>4 DEF Things
<1>3. Flags BY DEF Init, Flags
<1>4. FlagUp /\ OneRun BY DEF Init, NoRuns, FlagUp, OneRun
<1> QED BY <1>1, <1>2, <1>3, <1>4, TypeParts DEF Inv

(* Most steps leave the runs and the flag alone: only types are at stake. *)
LEMMA RunsAlone ==
    ASSUME Inv, running' = running, run' = run, Counters', Flags',
           registry' \in [Courses -> Outcomes \cup {"absent", "new"}],
           logins' \in SUBSET Browsers, fresh' \in SUBSET Browsers,
           missed' \in SUBSET Browsers, at' \in [Callers -> Courses \cup {None}],
           clearing' \in (SUBSET Browsers) \cup {None}
    PROVE  Inv'
<1>1. Things /\ FlagUp /\ OneRun BY TypeParts DEF Inv
<1>2. Things' BY <1>1 DEF Things
<1>3. FlagUp' BY <1>1 DEF FlagUp
<1>4. OneRun' BY <1>1 DEF OneRun
<1>5. TypeOK' BY <1>2, TypeParts DEF TypeOK, Counters, Things, Flags
<1> QED BY <1>3, <1>4, <1>5 DEF Inv

(* A caller admitted by RunAll: the flag was down, so nobody else runs. *)
LEMMA Entered ==
    ASSUME NEW c \in Callers, Inv, RunAll(c)
    PROVE  /\ running' \in BOOLEAN
           /\ run' \in [Callers -> (SUBSET Courses) \cup {None}]
           /\ failures' \in 0 .. MaxFailures
           /\ FlagUp' /\ OneRun'
<1>1. Counters /\ Things /\ Flags /\ FlagUp /\ OneRun BY TypeParts DEF Inv
<1>2. CASE running /\ UNCHANGED <<running, run, failures>>
    <2>1. running' = running /\ run' = run /\ failures' = failures BY <1>2
    <2>2. FlagUp' BY <1>1, <2>1 DEF FlagUp
    <2>3. OneRun' BY <1>1, <2>1 DEF OneRun
    <2>4. running' \in BOOLEAN BY <1>1, <2>1 DEF Flags
    <2> QED BY <1>1, <2>1, <2>2, <2>3, <2>4 DEF Things, Counters
<1>3. CASE /\ ~running /\ running' = TRUE
           /\ run' = [run EXCEPT ![c] = Registered] /\ UNCHANGED failures
    <2>1. \A d \in Callers : run[d] = None BY <1>1, <1>3 DEF FlagUp
    <2>2. run' \in [Callers -> (SUBSET Courses) \cup {None}] BY <1>1, <1>3 DEF Things, Registered
    <2>3. \A d \in Callers \ {c} : run'[d] = run[d] BY <1>1, <1>3 DEF Things
    <2>4. FlagUp' BY <1>3 DEF FlagUp
    <2>5. OneRun' BY <2>1, <2>3 DEF OneRun
    <2>6. failures' \in 0 .. MaxFailures BY <1>1, <1>3 DEF Counters
    <2> QED BY <1>3, <2>2, <2>4, <2>5, <2>6
<1>4. CASE /\ ~running /\ running' = TRUE
           /\ failures < MaxFailures /\ failures' = failures + 1 /\ UNCHANGED run
    <2>1. failures' \in 0 .. MaxFailures BY <1>1, <1>4, TimesAssumption DEF Counters
    <2>2. FlagUp' BY <1>4 DEF FlagUp
    <2>3. OneRun' BY <1>1, <1>4 DEF OneRun
    <2> QED BY <1>1, <1>4, <2>1, <2>2, <2>3 DEF Things
<1> QED BY <1>2, <1>3, <1>4 DEF RunAll

(* What the admin does. *)
LEMMA AdminInv == ASSUME Inv, Admin PROVE Inv'
<1>0. Counters /\ Things /\ Flags BY TypeParts DEF Inv
<1>1. PICK b \in Browsers :
          \/ Login(b) \/ Logout(b) \/ Request(b) \/ StartSync(b)
          \/ \E k \in Courses : AddCourse(b, k) \/ RemoveCourse(b, k)
          \/ \E u \in Uploads : CreateSession(b, u) \/ CloseSession(b, u)
    BY DEF Admin
<1>2. CASE Login(b)
    <2>1. mounted' = TRUE /\ running' = running /\ due' = due /\ retaining' = retaining
          /\ run' = run
        BY <1>2 DEF Login
    <2>2. Flags' BY <1>0, <2>1 DEF Flags
    <2>3. Counters' BY <1>0, <1>2 DEF Login, Counters, clocks
    <2> QED BY <1>0, <1>2, <2>1, <2>2, <2>3, RunsAlone DEF Login, Things
<1>3. CASE Logout(b)
    <2>1. mounted' = FALSE /\ running' = running /\ due' = due /\ retaining' = retaining
          /\ run' = run
        BY <1>3 DEF Logout
    <2>2. Flags' BY <1>0, <2>1 DEF Flags
    <2>3. Counters' BY <1>0, <1>3 DEF Logout, Counters, clocks
    <2> QED BY <1>0, <1>3, <2>1, <2>2, <2>3, RunsAlone DEF Logout, Things
<1>4. ASSUME Admitted(b), UNCHANGED <<running, run, at, failures>>,
             registry' \in [Courses -> Outcomes \cup {"absent", "new"}],
             open' \in [Uploads -> 0 .. Duration]
      PROVE  Inv'
    <2>1. mounted' = mounted /\ running' = running /\ due' = due /\ retaining' = retaining
        BY <1>4 DEF Admitted
    <2>2. Flags' BY <1>0, <2>1 DEF Flags
    <2>3. Counters' BY <1>0, <1>4, TimesAssumption DEF Admitted, Counters
    <2> QED BY <1>0, <1>4, <2>2, <2>3, RunsAlone DEF Admitted, Things
<1>5. CASE Request(b) BY <1>0, <1>4, <1>5 DEF Request, Counters, Things
<1>6. ASSUME NEW k \in Courses, AddCourse(b, k) \/ RemoveCourse(b, k) PROVE Inv'
    <2>1. registry' \in [Courses -> Outcomes \cup {"absent", "new"}]
        BY <1>0, <1>6 DEF AddCourse, RemoveCourse, Things
    <2> QED BY <1>0, <1>4, <1>6, <2>1 DEF AddCourse, RemoveCourse, Counters
<1>7. ASSUME NEW u \in Uploads, CreateSession(b, u) \/ CloseSession(b, u) PROVE Inv'
    <2>1. open' \in [Uploads -> 0 .. Duration]
        BY <1>0, <1>7, TimesAssumption DEF CreateSession, CloseSession, Counters
    <2> QED BY <1>0, <1>4, <1>7, <2>1 DEF CreateSession, CloseSession, Things
<1>8. CASE StartSync(b)
    <2>1. mounted' = mounted /\ due' = due /\ retaining' = retaining
        BY <1>8 DEF StartSync, Admitted
    <2>2. b \in Callers BY DEF Callers
    <2>3. /\ running' \in BOOLEAN /\ run' \in [Callers -> (SUBSET Courses) \cup {None}]
          /\ failures' \in 0 .. MaxFailures /\ FlagUp' /\ OneRun'
        BY <1>8, <2>2, Entered DEF StartSync
    <2>4. Flags' BY <1>0, <2>1, <2>3 DEF Flags
    <2>5. Counters' BY <1>0, <1>8, <2>3, TimesAssumption DEF StartSync, Admitted, Counters
    <2>6. Things' BY <1>0, <1>8, <2>3 DEF StartSync, Admitted, Things
    <2>7. TypeOK' BY <2>4, <2>5, <2>6 DEF TypeOK, Counters, Things, Flags
    <2> QED BY <2>3, <2>7 DEF Inv
<1> QED BY <1>1, <1>2, <1>3, <1>5, <1>6, <1>7, <1>8

(* A run goes through its courses and lets the flag down when it is done; *)
(* the timer's goes on to the retention job.                              *)
LEMMA RunsInv == ASSUME Inv, Runs PROVE Inv'
<1>0. Counters /\ Things /\ Flags /\ FlagUp /\ OneRun BY TypeParts DEF Inv
<1>1. PICK c \in Callers :
          \/ EndRun(c)
          \/ \E k \in Courses :
              \/ BeginCourse(c, k)
              \/ \E outcome \in Outcomes : PassOver(c, k, outcome) \/ EndCourse(c, k, outcome)
    BY DEF Runs
<1>2. CASE EndRun(c)
    <2>1. run' = [run EXCEPT ![c] = None] /\ running' = FALSE /\ run[c] # None
        BY <1>0, <1>2, NoneAssumption DEF EndRun
    <2>2. \A d \in Callers \ {c} : run[d] = None BY <1>0, <2>1 DEF OneRun
    <2>3. \A d \in Callers : run'[d] = None BY <1>0, <2>1, <2>2 DEF Things
    <2>4. run' \in [Callers -> (SUBSET Courses) \cup {None}] BY <1>0, <2>1 DEF Things
    <2>5. FlagUp' /\ OneRun' BY <2>3 DEF FlagUp, OneRun
    <2>6. Counters' BY <1>0, <1>2, TimesAssumption DEF EndRun, Retain, Counters
    <2>7. Things' BY <1>0, <1>2, <2>4 DEF EndRun, Things
    <2>8. mounted' = mounted /\ due' = due /\ retaining' \in {retaining, TRUE}
        BY <1>2 DEF EndRun, Retain
    <2>9. Flags' BY <1>0, <2>1, <2>8 DEF Flags
    <2>10. TypeOK' BY <2>6, <2>7, <2>9 DEF TypeOK, Counters, Things, Flags
    <2> QED BY <2>5, <2>10 DEF Inv
<1>3. ASSUME NEW k \in Courses, NEW outcome \in Outcomes, run[c] # None, Outcome(c, k, outcome),
             at' \in [Callers -> Courses \cup {None}]
      PROVE  Inv'
    <2>1. run' = [run EXCEPT ![c] = run[c] \ {k}] /\ running' = running BY <1>3 DEF Outcome
    <2>2. run[c] \in SUBSET Courses BY <1>0, <1>3 DEF Things
    <2>3. run' \in [Callers -> (SUBSET Courses) \cup {None}] BY <1>0, <2>1, <2>2 DEF Things
    <2>4. \A d \in Callers : run'[d] # None => run[d] # None BY <1>0, <1>3, <2>1 DEF Things
    <2>5. FlagUp' BY <1>0, <2>1, <2>4 DEF FlagUp
    <2>6. OneRun' BY <1>0, <2>4 DEF OneRun
    <2>7. registry' \in [Courses -> Outcomes \cup {"absent", "new"}]
        BY <1>0, <1>3 DEF Outcome, Record, Things
    <2>8. Things' BY <1>0, <1>3, <2>3, <2>7 DEF Outcome, Things
    <2>9. Counters' BY <1>0, <1>3 DEF Outcome, clocks, Counters
    <2>10. mounted' = mounted /\ due' = due /\ retaining' = retaining BY <1>3 DEF Outcome
    <2>11. Flags' BY <1>0, <2>1, <2>10 DEF Flags
    <2>12. TypeOK' BY <2>8, <2>9, <2>11 DEF TypeOK, Counters, Things, Flags
    <2> QED BY <2>5, <2>6, <2>12 DEF Inv
<1>4. ASSUME NEW k \in Courses, NEW outcome \in Outcomes, PassOver(c, k, outcome) PROVE Inv'
    BY <1>0, <1>3, <1>4 DEF PassOver, IsNext, Things
<1>5. ASSUME NEW k \in Courses, NEW outcome \in Outcomes, EndCourse(c, k, outcome) PROVE Inv'
    <2>1. at' \in [Callers -> Courses \cup {None}] BY <1>0, <1>5 DEF EndCourse, Things
    <2> QED BY <1>3, <1>5, <2>1 DEF EndCourse
<1>6. ASSUME NEW k \in Courses, BeginCourse(c, k) PROVE Inv'
    <2>1. mounted' = mounted /\ running' = running /\ due' = due /\ retaining' = retaining
          /\ run' = run
        BY <1>6 DEF BeginCourse
    <2>2. Flags' BY <1>0, <2>1 DEF Flags
    <2>3. Counters' BY <1>0, <1>6 DEF BeginCourse, clocks, Counters
    <2>4. at' \in [Callers -> Courses \cup {None}] BY <1>0, <1>6 DEF BeginCourse, Things
    <2> QED BY <1>0, <1>6, <2>1, <2>2, <2>3, <2>4, RunsAlone DEF BeginCourse, Things
<1> QED BY <1>1, <1>2, <1>4, <1>5, <1>6

(* Time passes. *)
LEMMA MinuteInv == ASSUME Inv, Minute PROVE Inv'
<1>0. Counters /\ Things /\ Flags BY TypeParts DEF Inv
<1>1. mounted' = mounted /\ running' = running /\ due' = TRUE /\ retaining' = retaining
    BY DEF Minute
<1>2. Flags' BY <1>0, <1>1 DEF Flags
<1>3. ASSUME NEW n \in Nat, NEW limit \in Nat, n <= limit PROVE Later(n, limit) \in 0 .. limit
    BY <1>3 DEF Later
<1>4. open' \in [Uploads -> 0 .. Duration] BY <1>0, TimesAssumption DEF Minute, Counters
<1>5. /\ idle' \in 0 .. IdleLimit /\ sinceSync' \in 0 .. SyncEvery
      /\ sinceRetention' \in 0 .. RetainEvery
    BY <1>0, <1>3, TimesAssumption DEF Minute, Counters
<1>6. Counters' BY <1>0, <1>4, <1>5 DEF Minute, Counters
<1> QED BY <1>0, <1>2, <1>6, RunsAlone DEF Minute, Things

(* The timer's tick, whichever way it goes. *)
LEMMA TickInv == ASSUME Inv, Tick PROVE Inv'
<1>0. Counters /\ Things /\ Flags BY TypeParts DEF Inv
<1>1. mounted' = mounted /\ due' = FALSE /\ logins' \in SUBSET Browsers
    BY <1>0 DEF Tick, TickLocked, TickLogout, TickSync, TickRetain, Ticks, Things
<1>2. CASE TickLocked
    <2>1. retaining' = retaining /\ running' = running BY <1>2 DEF TickLocked
    <2>2. Flags' BY <1>0, <1>1, <2>1 DEF Flags
    <2>3. Counters' BY <1>0, <1>2 DEF TickLocked, Ticks, Counters
    <2> QED BY <1>0, <1>2, <2>2, <2>3, RunsAlone DEF TickLocked, Ticks, Things
<1>3. CASE TickLogout
    <2>1. retaining' = retaining /\ running' = running BY <1>3 DEF TickLogout
    <2>2. Flags' BY <1>0, <1>1, <2>1 DEF Flags
    <2>3. Counters' BY <1>0, <1>3 DEF TickLogout, Ticks, Counters
    <2> QED BY <1>0, <1>3, <2>2, <2>3, RunsAlone DEF TickLogout, Ticks, Things
<1>4. CASE TickRetain
    <2>1. retaining' \in {retaining, TRUE} /\ running' = running BY <1>4 DEF TickRetain, Retain
    <2>2. Flags' BY <1>0, <1>1, <2>1 DEF Flags
    <2>3. Counters' BY <1>0, <1>4, TimesAssumption DEF TickRetain, Retain, Ticks, Counters
    <2> QED BY <1>0, <1>4, <2>2, <2>3, RunsAlone DEF TickRetain, Ticks, Things
<1>5. CASE TickSync
    <2>1. Timer \in Callers BY DEF Callers
    <2>2. /\ running' \in BOOLEAN /\ run' \in [Callers -> (SUBSET Courses) \cup {None}]
          /\ failures' \in 0 .. MaxFailures /\ FlagUp' /\ OneRun'
        BY <1>5, <2>1, Entered DEF TickSync
    <2>3. retaining' \in {retaining, TRUE} BY <1>5 DEF TickSync, Retain
    <2>4. Flags' BY <1>0, <1>1, <2>2, <2>3 DEF Flags
    <2>5. sinceRetention' \in 0 .. RetainEvery
        BY <1>0, <1>5, TimesAssumption DEF TickSync, Retain, Counters
    <2>6. Counters' BY <1>0, <1>5, <2>2, <2>5, TimesAssumption DEF TickSync, Ticks, Counters
    <2>7. Things' BY <1>0, <1>5, <2>2 DEF TickSync, Ticks, Things
    <2>8. TypeOK' BY <2>4, <2>6, <2>7 DEF TypeOK, Counters, Things, Flags
    <2> QED BY <2>2, <2>8 DEF Inv
<1> QED BY <1>2, <1>3, <1>4, <1>5 DEF Tick

(* The auto-logout, and the end of a retention job. *)
LEMMA LockUpInv == ASSUME Inv, LockUp \/ EndRetention PROVE Inv'
<1>0. Counters /\ Things /\ Flags BY TypeParts DEF Inv
<1>1. CASE AutoLock
    <2>1. mounted' = FALSE /\ running' = running /\ due' = due /\ retaining' = retaining
        BY <1>1 DEF AutoLock
    <2>2. Flags' BY <1>0, <2>1 DEF Flags
    <2>3. Counters' BY <1>0, <1>1 DEF AutoLock, clocks, Counters
    <2> QED BY <1>0, <1>1, <2>2, <2>3, RunsAlone DEF AutoLock, Things
<1>2. ASSUME NEW b \in Browsers, ClearLogin(b) PROVE Inv'
    <2>1. mounted' = mounted /\ running' = running /\ due' = due /\ retaining' = retaining
        BY <1>2 DEF ClearLogin
    <2>2. Flags' BY <1>0, <2>1 DEF Flags
    <2>3. Counters' BY <1>0, <1>2 DEF ClearLogin, clocks, Counters
    <2>4. clearing \in SUBSET Browsers BY <1>0, <1>2 DEF ClearLogin, Things
    <2> QED BY <1>0, <1>2, <2>2, <2>3, <2>4, RunsAlone DEF ClearLogin, Things
<1>3. CASE EndRetention
    <2>1. mounted' = mounted /\ running' = running /\ due' = due /\ retaining' = FALSE
        BY <1>3 DEF EndRetention
    <2>2. Flags' BY <1>0, <2>1 DEF Flags
    <2>3. Counters' BY <1>0, <1>3 DEF EndRetention, clocks, Counters
    <2> QED BY <1>0, <1>3, <2>2, <2>3, RunsAlone DEF EndRetention, Things
<1>4. CASE ClearFails
    <2>1. mounted' = mounted /\ running' = running /\ due' = due /\ retaining' = retaining
        BY <1>4 DEF ClearFails
    <2>2. Flags' BY <1>0, <2>1 DEF Flags
    <2>3. Counters' BY <1>0, <1>4 DEF ClearFails, clocks, Counters
    <2>4. clearing \in SUBSET Browsers BY <1>0, <1>4 DEF ClearFails, Things
    <2> QED BY <1>0, <1>4, <2>2, <2>3, <2>4, RunsAlone DEF ClearFails, Things
<1> QED BY <1>1, <1>2, <1>3, <1>4 DEF LockUp

(* A restart forgets the flag and every run. *)
LEMMA RestartInv == ASSUME Inv, Restart PROVE Inv'
<1>0. Counters /\ Things /\ Flags BY TypeParts DEF Inv
<1>1. run' = NoRuns /\ running' = FALSE /\ mounted' \in {mounted, FALSE} /\ due' = FALSE
      /\ retaining' = FALSE
    BY DEF Restart
<1>2. Flags' BY <1>0, <1>1 DEF Flags
<1>3. run' \in [Callers -> (SUBSET Courses) \cup {None}] BY <1>1 DEF NoRuns
<1>4. logins' = {} /\ fresh' = {} /\ missed' = {} /\ clearing' = None /\ registry' = registry
    BY DEF Restart
<1>9. at' \in [Callers -> Courses \cup {None}] BY DEF Restart, NoRuns
<1>5. Things' BY <1>0, <1>3, <1>4, <1>9 DEF Things
<1>6. Counters' BY <1>0, TimesAssumption DEF Restart, Counters
<1>7. FlagUp' /\ OneRun' BY <1>1 DEF NoRuns, FlagUp, OneRun
<1>8. TypeOK' BY <1>2, <1>5, <1>6 DEF TypeOK, Counters, Things, Flags
<1> QED BY <1>7, <1>8 DEF Inv

LEMMA Inductive == Inv /\ [Next]_vars => Inv'
<1> SUFFICES ASSUME Inv, [Next]_vars PROVE Inv' OBVIOUS
<1>1. CASE Next
    BY <1>1, AdminInv, RunsInv, MinuteInv, TickInv, LockUpInv, RestartInv DEF Next
<1>2. CASE UNCHANGED vars
    <2>0. Counters /\ Things /\ Flags BY TypeParts DEF Inv
    <2>1. mounted' = mounted /\ running' = running /\ due' = due /\ retaining' = retaining
        BY <1>2 DEF vars
    <2>2. Flags' BY <2>0, <2>1 DEF Flags
    <2>3. Counters' BY <2>0, <1>2 DEF vars, clocks, Counters
    <2> QED BY <2>0, <1>2, <2>2, <2>3, RunsAlone DEF vars, Things
<1> QED BY <1>1, <1>2

(* Every variable keeps to its type: the clocks stop at their limits, an    *)
(* upload session does not expire below zero, a run holds courses only.     *)
THEOREM SchedulerTypes == Spec => []TypeOK
<1>1. Inv => TypeOK BY DEF Inv
<1> QED BY <1>1, InitInv, Inductive, PTL DEF Spec

(* The flag in run-all.js keeps two runs apart, whoever starts them and     *)
(* wherever the process is restarted.                                       *)
THEOREM OneRunAtATime == Spec => []OneRun
<1>1. Inv => OneRun BY DEF Inv
<1> QED BY <1>1, InitInv, Inductive, PTL DEF Spec

-----------------------------------------------------------------------------
(* What a step may do to the registry and to the logins.                   *)

(* recordSyncResult leaves alone what is not registered. *)
LEMMA RecordKeepsAbsent ==
    ASSUME TypeOK, NEW k \in Courses, NEW l \in Courses, NEW outcome, Record(l, outcome),
           registry[k] = "absent"
    PROVE  registry'[k] = "absent"
BY DEF Record, Registered, TypeOK

LEMMA OnlyAdded ==
    ASSUME TypeOK, [Next]_vars, NEW k \in Courses, registry[k] = "absent", registry'[k] # "absent"
    PROVE  \E b \in Browsers : AddCourse(b, k)
<1>1. CASE Admin
    <2>1. PICK b \in Browsers :
              \/ Login(b) \/ Logout(b) \/ Request(b) \/ StartSync(b)
              \/ \E l \in Courses : AddCourse(b, l) \/ RemoveCourse(b, l)
              \/ \E u \in Uploads : CreateSession(b, u) \/ CloseSession(b, u)
        BY <1>1 DEF Admin
    <2>2. ASSUME NEW l \in Courses, AddCourse(b, l) PROVE l = k
        BY <2>2 DEF AddCourse, TypeOK
    <2>3. ASSUME NEW l \in Courses PROVE ~RemoveCourse(b, l)
        BY DEF RemoveCourse, TypeOK
    <2>4. PICK l \in Courses : AddCourse(b, l) \/ RemoveCourse(b, l)
        BY <2>1 DEF Login, Logout, Request, StartSync, CreateSession, CloseSession
    <2> QED BY <2>2, <2>3, <2>4
<1>2. CASE Runs
    BY <1>2, RecordKeepsAbsent DEF Runs, EndRun, BeginCourse, PassOver, EndCourse, Outcome
<1>3. CASE Minute \/ Tick \/ LockUp \/ EndRetention \/ Restart \/ UNCHANGED vars
    BY <1>3 DEF Minute, Tick, TickLocked, TickLogout, TickSync, TickRetain, Ticks, LockUp, AutoLock,
                ClearLogin, ClearFails, EndRetention, Restart, vars
<1> QED BY <1>1, <1>2, <1>3 DEF Next

(* A course the admin has removed comes back by his own hand only, even     *)
(* when a run that started before records its outcome afterwards.          *)
THEOREM RemovalIsFinal == Spec => RemovedStaysRemoved
<1>1. TypeOK /\ [Next]_vars
          => [\A k \in Courses : registry[k] = "absent" /\ registry'[k] # "absent"
                  => \E b \in Browsers : AddCourse(b, k)]_vars
    BY OnlyAdded
<1> QED BY <1>1, SchedulerTypes, PTL DEF Spec, RemovedStaysRemoved

(* While the auto-logout is at work, every login is on its list, newer than *)
(* the list, or one whose session file it failed to list or to remove.      *)
Listed == clearing # None => logins \subseteq fresh \cup clearing \cup missed

LEMMA ListedStep == TypeOK /\ Listed /\ [Next]_vars => Listed'
<1> SUFFICES ASSUME TypeOK, Listed, [Next]_vars PROVE Listed'
    OBVIOUS
<1>0. None \notin SUBSET Browsers BY NoneAssumption
<1>1. ASSUME NEW b \in Browsers, Login(b) PROVE Listed'
    BY <1>0, <1>1 DEF Listed, Login, TypeOK
<1>2. ASSUME NEW b \in Browsers, Logout(b) PROVE Listed'
    BY <1>2 DEF Listed, Logout
<1>3. ASSUME NEW b \in Browsers, ClearLogin(b) PROVE Listed'
    BY <1>3 DEF Listed, ClearLogin
<1>4. CASE TickLogout
    BY <1>4 DEF Listed, TickLogout, Ticks
<1>9. CASE ClearFails
    BY <1>9 DEF Listed, ClearFails
<1>5. CASE AutoLock \/ Restart
    BY <1>5 DEF Listed, AutoLock, Restart
<1>6. ASSUME NEW b \in Browsers,
             \/ Request(b) \/ StartSync(b)
             \/ \E k \in Courses : AddCourse(b, k) \/ RemoveCourse(b, k)
             \/ \E u \in Uploads : CreateSession(b, u) \/ CloseSession(b, u)
      PROVE  Listed'
    BY <1>6 DEF Listed, Request, StartSync, AddCourse, RemoveCourse, CreateSession, CloseSession, Admitted
<1>7. CASE Runs \/ Minute \/ EndRetention \/ UNCHANGED vars
    BY <1>7 DEF Listed, Runs, EndRun, BeginCourse, PassOver, EndCourse, Outcome, Minute, EndRetention, vars
<1>8. CASE TickLocked \/ TickSync \/ TickRetain
    BY <1>8 DEF Listed, TickLocked, TickSync, TickRetain, Ticks
<1> QED BY <1>1, <1>2, <1>3, <1>4, <1>5, <1>6, <1>7, <1>8, <1>9 DEF Next, Admin, Tick, LockUp

(* The auto-logout removes login files one by one while others log in, and  *)
(* locks the vault whether or not that worked: when it does, a login that   *)
(* was there when it began is left only if its file could not be listed or  *)
(* removed.                                                                *)
THEOREM OldLoginsDie == Spec => CookiesDie
<1>1. Init => Listed BY DEF Init, Listed
<1>2. ASSUME Listed, AutoLock PROVE logins' \subseteq fresh \cup missed
    <2>1. None # {} BY NoneAssumption
    <2> QED BY <1>2, <2>1 DEF Listed, AutoLock
<1>3. Listed => [AutoLock => logins' \subseteq fresh \cup missed]_vars BY <1>2
<1> QED BY <1>1, <1>3, ListedStep, SchedulerTypes, PTL DEF Spec, CookiesDie
=============================================================================
