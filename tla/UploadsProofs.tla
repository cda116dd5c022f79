---------------------------- MODULE UploadsProofs ----------------------------
(***************************************************************************)
(* For any number of sessions, directories, batches and files.  A place is  *)
(* found for every file; however uploads and sweeps overlap, a record leaves *)
(* a log only to a sweep that means it or that began before it was added,   *)
(* and every file but those is in a log; with a directory per session no    *)
(* file is written over, every note is about the file it is shown with, and *)
(* an erasure erases.                                                      *)
(***************************************************************************)
EXTENDS Uploads, FiniteSetTheorems, FunctionTheorems, SequenceTheorems, WellFoundedInduction, TLAPS

-----------------------------------------------------------------------------
(* The first free version of a name.                                       *)

LEMMA FilesFinite == IsFiniteSet(Files) /\ Cardinality(Files) \in Nat
<1> DEFINE Of(u) == {<<u, i>> : i \in DOMAIN Batch[u]}
           T == {Of(u) : u \in Uploads}
           g == [u \in Uploads |-> Of(u)]
<1>1. ASSUME NEW u \in Uploads PROVE IsFiniteSet(Of(u))
    <2> DEFINE S == 1 .. Len(Batch[u])
               f == [i \in S |-> <<u, i>>]
    <2>1. Len(Batch[u]) \in Nat /\ DOMAIN Batch[u] = S
        BY UploadsAssumption
    <2>2. f \in Surjection(S, Of(u))
        <3>1. f \in [S -> Of(u)] BY <2>1
        <3>2. \A t \in Of(u) : \E i \in S : f[i] = t BY <2>1
        <3> QED BY <3>1, <3>2, Fun_IsSurj
    <2>3. IsFiniteSet(S) BY <2>1, FS_Interval
    <2> QED BY <2>2, <2>3, FS_Surjection
<1>2. IsFiniteSet(T)
    <2>1. g \in [Uploads -> T] OBVIOUS
    <2>2. \A t \in T : \E u \in Uploads : g[u] = t OBVIOUS
    <2>3. g \in Surjection(Uploads, T) BY <2>1, <2>2, Fun_IsSurj
    <2> QED BY <2>3, FS_Surjection, UploadsAssumption
<1>3. \A t \in T : IsFiniteSet(t) BY <1>1
<1>4. Files = UNION T BY DEF Files
<1>5. IsFiniteSet(Files) BY <1>2, <1>3, <1>4, FS_UNION
<1> QED BY <1>5, FS_CardinalityType

(* p may hold the i-th file of u, whatever its version. *)
NamedFor(p, u, i) ==
    /\ p \in Places /\ p.dir = Dest[Into[u]]
    /\ p.pupil = Pupil[u] /\ p.name = Batch[u][i]

(* No file is in two places. *)
Once == \A p, q \in Places : disk[p] = disk[q] /\ disk[p] # None => p = q

LEMMA LeastOf ==
    ASSUME NEW S, S \subseteq Nat, S # {}
    PROVE  \E n \in S : \A m \in S : ~(m < n)
<1> DEFINE R == {x \in Nat \X Nat : x[1] < x[2]}
<1>1. IsWellFoundedOn(OpToRel(<, Nat), Nat) BY NatLessThanWellFounded
<1>2. OpToRel(<, Nat) = R BY DEF OpToRel
<1>3. IsWellFoundedOn(R, Nat) BY <1>1, <1>2
<1>4. PICK n \in S : \A m \in S : ~ <<m, n>> \in R
    <2> HIDE DEF R
    <2> QED BY <1>3, WFMin
<1> QED BY <1>4

(* uniqueName always finds a name, and the directory lacks it: as many      *)
(* versions as there are files cannot all be taken by the others.          *)
LEMMA FreePlaceFound ==
    ASSUME disk \in [Places -> Files \cup {None}], Once,
           NEW u \in Uploads, NEW i \in DOMAIN Batch[u],
           \A p \in Places : disk[p] # <<u, i>>
    PROVE  NamedFor(FreePlace(u, i), u, i) /\ disk[FreePlace(u, i)] = None
<1> DEFINE N == Cardinality(Files)
           Version(n) == [dir |-> Dest[Into[u]], pupil |-> Pupil[u], name |-> Batch[u][i], version |-> n]
           Rest == Files \ {<<u, i>>}
           f == [n \in 1 .. N |-> disk[Version(n)]]
           Free == {n \in 1 .. N : disk[Version(n)] = None}
<1>1. N \in Nat /\ IsFiniteSet(Files) BY FilesFinite
<1>2. \A n \in 1 .. N : Version(n) \in Places /\ NamedFor(Version(n), u, i)
    <2>1. Dest[Into[u]] \in Dirs BY UploadsAssumption
    <2>2. Pupil[u] \in Pupils BY DEF Pupils
    <2>3. Batch[u][i] \in Originals BY DEF Originals
    <2> QED BY <2>1, <2>2, <2>3 DEF Places, NamedFor
<1>3. <<u, i>> \in Files BY DEF Files
<1>4. Free # {}
    <2> SUFFICES ASSUME Free = {} PROVE FALSE
        OBVIOUS
    <2>1. f \in [1 .. N -> Rest] BY <1>2
    <2>2. \A m, n \in 1 .. N : f[m] = f[n] => m = n
        <3> SUFFICES ASSUME NEW m \in 1 .. N, NEW n \in 1 .. N, disk[Version(m)] = disk[Version(n)]
                     PROVE  m = n
            OBVIOUS
        <3>1. Version(m) \in Places /\ Version(n) \in Places BY <1>2
        <3>2. disk[Version(m)] # None OBVIOUS
        <3>3. Version(m) = Version(n) BY <3>1, <3>2 DEF Once
        <3>4. Version(m).version = Version(n).version BY <3>3
        <3> QED BY <3>4
    <2>3. f \in Injection(1 .. N, Rest) BY <2>1, <2>2 DEF Injection, IsInjective
    <2>4. IsFiniteSet(Rest) /\ Cardinality(Rest) = N - 1 BY <1>1, <1>3, FS_RemoveElement
    <2>5. Cardinality(1 .. N) <= Cardinality(Rest) BY <2>3, <2>4, FS_Injection
    <2>6. Cardinality(1 .. N) = N BY <1>1, FS_Interval
    <2> QED BY <1>1, <2>4, <2>5, <2>6
<1>5. PICK n \in Free : \A m \in Free : ~(m < n)
    <2>1. Free \subseteq Nat BY <1>1
    <2> HIDE DEF Free
    <2> QED BY <1>4, <2>1, LeastOf
<1>6. /\ Version(n) \in {Version(k) : k \in 1 .. N}
      /\ disk[Version(n)] = None
      /\ \A k \in 1 .. N : k < Version(n).version => disk[Version(k)] # None
    BY <1>5
<1>7. /\ FreePlace(u, i) \in {Version(k) : k \in 1 .. N}
      /\ disk[FreePlace(u, i)] = None
    BY <1>6 DEF FreePlace
<1> QED BY <1>2, <1>7

-----------------------------------------------------------------------------
(* The inductive invariant.  TypeOK needs it: a file has a name to go to    *)
(* because no file is in two places, and that because a handler has put     *)
(* down the files before the one it is at, and no other.                   *)

Moving(u) == job[u].pc \in {"moving", "moved"}

JobShape == \A u \in Uploads :
    /\ job[u].pc \in {"none", "received", "queued"} => job[u].next = 1
    /\ Moving(u) => NamedFor(job[u].place, u, job[u].next) /\ Holds(u, Into[u])

SweepShape == \A j \in Sweeps :
    /\ sweep[j].pc \in {"files", "waiting"} => sweep[j].at \in Sessions
    /\ sweep[j].pc = "waiting" => sweep[j].picked = {}
    /\ Sweeping(j) /\ j = "erasure" => sweep[j].who \in Pupils
    /\ sweep[j].pc = "idle" => sweep[j].keys = {}
    /\ \A r \in sweep[j].picked : r.place \in sweep[j].keys

(* What is on disk was put there by a handler that is past it. *)
OnDisk == \A p \in Places : \A u \in Uploads : \A i \in DOMAIN Batch[u] :
    disk[p] = <<u, i>> =>
        /\ NamedFor(p, u, i)
        /\ job[u].pc \notin {"none", "received", "queued"}
        /\ Moving(u) => i < job[u].next \/ (i = job[u].next /\ job[u].pc = "moved")

IInv == TypeOK /\ JobShape /\ SweepShape /\ Once /\ OnDisk

(* TypeOK in parts: the stores, the handlers, the sweeps, the locks, the    *)
(* ghosts and the counters.                                                *)
Stores ==
    /\ session \in [Sessions -> {"none", "open", "closed", "removed"}]
    /\ created \in [Sessions -> 0 .. MaxClock]
    /\ log \in [Sessions -> SUBSET Records]
    /\ disk \in [Places -> Files \cup {None}] /\ notes \in [Places -> Files \cup {None}]
    /\ accounted \subseteq Pupils
Jobs ==
    /\ job \in [Uploads -> [pc : {"none", "received", "queued", "moving", "moved", "ok", "failed"},
                           next : Nat, place : Places \cup {None}]]
    /\ \A u \in Uploads : Busy(u) => job[u].next \in DOMAIN Batch[u]
Sweepers ==
    sweep \in [Sweeps -> [pc : {"idle", "session", "files", "waiting"}, who : Pupils \cup {None},
                          cutoff : 0 .. MaxClock, todo : SUBSET Sessions,
                          at : Sessions \cup {None}, picked : SUBSET Records,
                          keep : SUBSET Records, keys : SUBSET Places]]
Chains == chain \in [Sessions -> Seq(Uploads \cup Sweeps)]
Ghosts == added \in [Sweeps -> SUBSET Files] /\ lost \subseteq Files
Counters == clock \in 0 .. MaxClock /\ faults \in 0 .. MaxFaults /\ erasures \in 0 .. MaxErasures

LEMMA TypeOKParts == TypeOK <=> Stores /\ Jobs /\ Sweepers /\ Chains /\ Ghosts /\ Counters
BY DEF TypeOK, Stores, Jobs, Sweepers, Chains, Ghosts, Counters

LEMMA InitIInv == Init => IInv
<1> SUFFICES ASSUME Init PROVE IInv
    OBVIOUS
<1>1. Stores BY UploadsAssumption DEF Init, Stores
<1>2. Jobs
    BY UploadsAssumption DEF Init, Jobs, IdleJob, Busy
<1>3. Sweepers BY UploadsAssumption DEF Init, Sweepers, IdleSweep
<1>4. Chains BY DEF Init, Chains
<1>5. Counters BY UploadsAssumption DEF Init, Counters
<1>6. JobShape BY DEF Init, JobShape, IdleJob, Moving
<1>7. SweepShape BY DEF Init, SweepShape, IdleSweep, Sweeping
<1>8. Once BY DEF Init, Once
<1>9. OnDisk BY UploadsAssumption DEF Init, OnDisk, Files
<1>10. Ghosts BY DEF Init, Ghosts
<1> QED BY <1>1, <1>2, <1>3, <1>4, <1>5, <1>6, <1>7, <1>8, <1>9, <1>10, TypeOKParts DEF IInv

(* The lock of a session: who moves files holds it, so one does at a time.  *)
LEMMA OneMover ==
    ASSUME JobShape, NEW u \in Uploads, NEW v \in Uploads, Moving(u), Moving(v), Into[u] = Into[v]
    PROVE  u = v
BY DEF JobShape, Holds

LEMMA QueuedBehind ==
    ASSUME Chains, NEW s \in Sessions, NEW t \in Uploads \cup Sweeps,
           chain' = [chain EXCEPT ![s] = Append(@, t)]
    PROVE  Chains' /\ \A r \in Sessions, x \in Uploads \cup Sweeps : Holds(x, r) => Holds(x, r)'
<1>1. chain[s] \in Seq(Uploads \cup Sweeps) BY DEF Chains
<1>2. Append(chain[s], t) \in Seq(Uploads \cup Sweeps) BY <1>1
<1>3. chain[s] # <<>> => Append(chain[s], t) # <<>> /\ Head(Append(chain[s], t)) = Head(chain[s])
    BY <1>1
<1> QED BY <1>2, <1>3 DEF Chains, Holds

LEMMA LockReleased ==
    ASSUME Chains, NEW s \in Sessions, NEW t, Holds(t, s), chain' = [chain EXCEPT ![s] = Tail(@)]
    PROVE  Chains' /\ \A r \in Sessions \ {s}, x \in Uploads \cup Sweeps : Holds(x, r) => Holds(x, r)'
<1>1. chain[s] \in Seq(Uploads \cup Sweeps) /\ chain[s] # <<>> BY DEF Chains, Holds
<1>2. Tail(chain[s]) \in Seq(Uploads \cup Sweeps) BY <1>1
<1> QED BY <1>2 DEF Chains, Holds

(* What each action leaves alone. *)
LEMMA QuietSteps ==
    ASSUME \/ \E s \in Sessions : CreateSession(s) \/ CloseSession(s) \/ RemoveSession(s)
           \/ \E p \in Places : AddNote(p) \/ DeleteNotes(p)
           \/ Tick \/ UNCHANGED vars
    PROVE  UNCHANGED <<log, disk, job, chain, sweep>>
BY DEF CreateSession, CloseSession, RemoveSession, AddNote, DeleteNotes, AdminStep, Tick, stored, vars

LEMMA SweepKeepsJobs ==
    ASSUME \/ \E who \in Pupils : StartErasure(who)
           \/ StartRetention
           \/ \E j \in Sweeps : Sweep(j) \/ RemoveFails(j) \/ WriteFails(j)
    PROVE  UNCHANGED job
BY DEF StartErasure, StartRetention, Sweep, RemoveFails, WriteFails, ReadLog, WriteLog, Finish, EraseFile, SweepStep

LEMMA FirstName ==
    ASSUME IInv, NEW u \in Uploads, job[u].pc = "queued"
    PROVE  NamedFor(FreePlace(u, 1), u, 1) /\ disk[FreePlace(u, 1)] = None
<1>1. 1 \in DOMAIN Batch[u] BY UploadsAssumption
<1>2. \A p \in Places : disk[p] # <<u, 1>> BY <1>1 DEF IInv, OnDisk
<1> QED BY <1>1, <1>2, FreePlaceFound DEF IInv, TypeOK

LEMMA NextName ==
    ASSUME IInv, NEW u \in Uploads, job[u].pc = "moved", job[u].next < Len(Batch[u])
    PROVE  /\ job[u].next + 1 \in DOMAIN Batch[u]
           /\ NamedFor(FreePlace(u, job[u].next + 1), u, job[u].next + 1)
           /\ disk[FreePlace(u, job[u].next + 1)] = None
<1> DEFINE i == job[u].next + 1
<1>1. job[u].next \in Nat BY DEF IInv, TypeOK
<1>2. Batch[u] \in Seq(Originals) BY UploadsAssumption
<1>3. i \in DOMAIN Batch[u] BY <1>1, <1>2
<1>4. \A p \in Places : disk[p] # <<u, i>> BY <1>1, <1>3 DEF IInv, OnDisk, Moving
<1> HIDE DEF i
<1>5. NamedFor(FreePlace(u, i), u, i) /\ disk[FreePlace(u, i)] = None
    BY <1>3, <1>4, FreePlaceFound DEF IInv, TypeOK
<1> QED BY <1>3, <1>5 DEF i

LEMMA JobsStep == IInv /\ [Next]_vars => Jobs'
<1> SUFFICES ASSUME IInv, [Next]_vars PROVE Jobs'
    OBVIOUS
<1>0. Jobs BY TypeOKParts DEF IInv
<1>1. ASSUME NEW u \in Uploads, Post(u) PROVE Jobs'
    <2>1. 1 \in DOMAIN Batch[u] BY UploadsAssumption
    <2>2. job[u].next = 1 BY <1>1 DEF Post, IInv, JobShape
    <2> QED BY <1>0, <1>1, <2>1, <2>2 DEF Post, Jobs, Busy
<1>2. ASSUME NEW u \in Uploads, Enqueue(u) PROVE Jobs'
    BY <1>0, <1>2 DEF Enqueue, Jobs, Busy
<1>3. ASSUME NEW u \in Uploads, Start(u) PROVE Jobs'
    <2>1. FreePlace(u, 1) \in Places BY <1>3, FirstName DEF Start, NamedFor
    <2> QED BY <1>0, <1>3, <2>1 DEF Start, Jobs, Busy
<1>4. ASSUME NEW u \in Uploads, Rename(u) PROVE Jobs'
    BY <1>0, <1>4 DEF Rename, Jobs, Busy
<1>5. ASSUME NEW u \in Uploads, Log(u) PROVE Jobs'
    <2>1. CASE job[u].next < Len(Batch[u])
        <3> DEFINE i == job[u].next + 1
        <3>1. i \in DOMAIN Batch[u] /\ FreePlace(u, i) \in Places
            BY <1>5, <2>1, NextName DEF Log, NamedFor
        <3>2. job' = [job EXCEPT ![u] = [pc |-> "moving", next |-> i, place |-> FreePlace(u, i)]]
            BY <1>5, <2>1 DEF Log
        <3>3. i \in Nat BY <1>0 DEF Jobs
        <3> HIDE DEF i
        <3> QED BY <1>0, <3>1, <3>2, <3>3 DEF Jobs, Busy
    <2>2. CASE ~(job[u].next < Len(Batch[u]))
        <3>1. job' = [job EXCEPT ![u] = [IdleJob EXCEPT !.pc = "ok"]]
            BY <1>5, <2>2 DEF Log
        <3> QED BY <1>0, <3>1 DEF Jobs, Busy, IdleJob
    <2> QED BY <2>1, <2>2
<1>6. ASSUME NEW u \in Uploads, MoveFails(u) \/ LogFails(u) PROVE Jobs'
    BY <1>0, <1>6 DEF MoveFails, LogFails, Jobs, Busy, IdleJob
<1>7. CASE Restart
    BY <1>0, <1>7 DEF Restart, Jobs, Busy, IdleJob
<1>8. ASSUME UNCHANGED job PROVE Jobs'
    BY <1>0, <1>8 DEF Jobs, Busy
<1> QED BY <1>1, <1>2, <1>3, <1>4, <1>5, <1>6, <1>7, <1>8, QuietSteps, SweepKeepsJobs DEF Next, Admin, Handler

LEMMA ChainsStep == IInv /\ [Next]_vars => Chains'
<1> SUFFICES ASSUME IInv, [Next]_vars PROVE Chains'
    OBVIOUS
<1>0. Chains /\ Sweepers BY TypeOKParts DEF IInv
<1>1. \A u \in Uploads : Into[u] \in Sessions BY UploadsAssumption
<1>2. ASSUME NEW u \in Uploads, Enqueue(u) PROVE Chains'
    BY <1>0, <1>1, <1>2, QueuedBehind DEF Enqueue
<1>3. ASSUME NEW u \in Uploads, Log(u) \/ MoveFails(u) \/ LogFails(u) PROVE Chains'
    <2>1. Holds(u, Into[u]) BY <1>3 DEF Log, MoveFails, LogFails, IInv, JobShape, Moving
    <2> QED BY <1>0, <1>1, <1>3, <2>1, LockReleased DEF Log, MoveFails, LogFails, Chains
<1>4. ASSUME NEW j \in Sweeps, NEW r, EraseFile(j, r) PROVE Chains'
    <2>1. sweep[j].at \in Sessions BY <1>4 DEF EraseFile, IInv, SweepShape
    <2> QED BY <1>0, <1>4, <2>1, QueuedBehind DEF EraseFile, Chains
<1>5. ASSUME NEW j \in Sweeps, WriteLog(j) \/ WriteFails(j) PROVE Chains'
    <2>1. sweep[j].at \in Sessions BY <1>5 DEF WriteLog, WriteFails, IInv, SweepShape
    <2> QED BY <1>0, <1>5, <2>1, LockReleased DEF WriteLog, WriteFails
<1>6. CASE Restart BY <1>6 DEF Restart, Chains
<1>7. ASSUME UNCHANGED chain PROVE Chains'
    BY <1>0, <1>7 DEF Chains
<1>8. ASSUME \/ \E u \in Uploads : Post(u) \/ Start(u) \/ Rename(u)
             \/ \E who \in Pupils : StartErasure(who)
             \/ StartRetention \/ \E j \in Sweeps : ReadLog(j) \/ Finish(j) \/ RemoveFails(j)
      PROVE  UNCHANGED chain
    BY <1>8 DEF Post, Start, Rename, StartErasure, StartRetention, ReadLog, Finish, RemoveFails
<1> QED BY <1>2, <1>3, <1>4, <1>5, <1>6, <1>7, <1>8, QuietSteps DEF Next, Admin, Handler, Sweep

LEMMA StoresStep == IInv /\ [Next]_vars => Stores' /\ Counters'
<1> SUFFICES ASSUME IInv, [Next]_vars PROVE Stores' /\ Counters'
    OBVIOUS
<1>0. Stores /\ Counters /\ Sweepers /\ Jobs BY TypeOKParts DEF IInv
<1>1. ASSUME NEW s \in Sessions, CreateSession(s) \/ CloseSession(s) \/ RemoveSession(s)
      PROVE  Stores' /\ Counters'
    BY <1>0, <1>1 DEF CreateSession, CloseSession, RemoveSession, AdminStep, Stores, Counters
<1>2. ASSUME NEW p \in Places, AddNote(p) \/ DeleteNotes(p) PROVE Stores' /\ Counters'
    BY <1>0, <1>2 DEF AddNote, DeleteNotes, AdminStep, Stores, Counters
<1>3. ASSUME NEW u \in Uploads, Post(u) \/ Enqueue(u) \/ Start(u) PROVE Stores' /\ Counters'
    BY <1>0, <1>3 DEF Post, Enqueue, Start, UploadStep, Stores, Counters
<1>4. ASSUME NEW u \in Uploads, Rename(u) PROVE Stores' /\ Counters'
    <2>1. job[u].place \in Places BY <1>4 DEF Rename, IInv, JobShape, Moving, NamedFor
    <2>2. <<u, job[u].next>> \in Files BY <1>0, <1>4 DEF Rename, Jobs, Busy, Files
    <2> QED BY <1>0, <1>4, <2>1, <2>2 DEF Rename, UploadStep, Stores, Counters
<1>5. ASSUME NEW u \in Uploads, Log(u) PROVE Stores' /\ Counters'
    <2> DEFINE r == [file |-> <<u, job[u].next>>, place |-> job[u].place, at |-> clock]
    <2>1. job[u].place \in Places BY <1>5 DEF Log, IInv, JobShape, Moving, NamedFor
    <2>2. <<u, job[u].next>> \in Files BY <1>0, <1>5 DEF Log, Jobs, Busy, Files
    <2>3. r \in Records BY <1>0, <2>1, <2>2 DEF Records, Counters
    <2>4. log' = [log EXCEPT ![Into[u]] = @ \cup {r}] BY <1>5 DEF Log
    <2>5. UNCHANGED <<session, created, disk, notes, accounted, clock, faults, erasures>>
        BY <1>5 DEF Log, UploadStep
    <2> HIDE DEF r
    <2> QED BY <1>0, <2>3, <2>4, <2>5 DEF Stores, Counters
<1>6. ASSUME NEW u \in Uploads, MoveFails(u) \/ LogFails(u) PROVE Stores' /\ Counters'
    BY <1>0, <1>6, UploadsAssumption DEF MoveFails, LogFails, Fault, UploadStep, Stores, Counters
<1>7. ASSUME NEW who \in Pupils, StartErasure(who) PROVE Stores' /\ Counters'
    BY <1>0, <1>7, UploadsAssumption DEF StartErasure, SweepStep, Stores, Counters
<1>8. ASSUME StartRetention \/ \E j \in Sweeps : ReadLog(j) PROVE Stores' /\ Counters'
    BY <1>0, <1>8 DEF StartRetention, ReadLog, SweepStep, Stores, Counters
<1>9. ASSUME NEW j \in Sweeps, NEW r \in sweep[j].picked, EraseFile(j, r) PROVE Stores' /\ Counters'
    BY <1>0, <1>9 DEF EraseFile, SweepStep, Stores, Counters
<1>10. ASSUME NEW j \in Sweeps, WriteLog(j) PROVE Stores' /\ Counters'
    <2>1. sweep[j].keep \in SUBSET Records BY <1>0 DEF Sweepers
    <2> QED BY <1>0, <1>10, <2>1 DEF WriteLog, SweepStep, Stores, Counters
<1>11. ASSUME NEW j \in Sweeps, Finish(j) PROVE Stores' /\ Counters'
    <2>1. j = "erasure" => sweep[j].who \in Pupils
        BY <1>11 DEF Finish, IInv, SweepShape, Sweeping
    <2>2. notes' \in [Places -> Files \cup {None}] BY <1>0, <1>11 DEF Finish, Stores
    <2>3. session' \in [Sessions -> {"none", "open", "closed", "removed"}]
        BY <1>0, <1>11 DEF Finish, Stores
    <2>4. accounted' \subseteq Pupils BY <1>0, <1>11, <2>1 DEF Finish, Stores
    <2> QED BY <1>0, <1>11, <2>2, <2>3, <2>4 DEF Finish, SweepStep, Stores, Counters
<1>12. ASSUME NEW j \in Sweeps, RemoveFails(j) \/ WriteFails(j) PROVE Stores' /\ Counters'
    BY <1>0, <1>12, UploadsAssumption DEF RemoveFails, WriteFails, Fault, SweepStep, Stores, Counters
<1>13. CASE Restart
    BY <1>0, <1>13, UploadsAssumption DEF Restart, Fault, stored, Stores, Counters
<1>14. CASE Tick
    BY <1>0, <1>14, UploadsAssumption DEF Tick, stored, Stores, Counters
<1>15. CASE UNCHANGED vars
    BY <1>0, <1>15 DEF vars, stored, Stores, Counters
<1> QED BY <1>1, <1>2, <1>3, <1>4, <1>5, <1>6, <1>7, <1>8, <1>9, <1>10, <1>11, <1>12, <1>13, <1>14,
           <1>15 DEF Next, Admin, Handler, Sweep

(* A sweep that has just begun. *)
LEMMA BeginTypes ==
    ASSUME Sweepers, Counters, Stores, NEW j \in Sweeps, NEW who \in Pupils \cup {None}, Begin(j, who)
    PROVE  Sweepers'
<1>1. Registered \in SUBSET Sessions BY DEF Registered
<1> QED BY <1>1 DEF Sweepers, Begin, IdleSweep, Counters

(* One sweep changes: the others keep their shape. *)
Shaped(j, x) ==
    /\ x.pc \in {"files", "waiting"} => x.at \in Sessions
    /\ x.pc = "waiting" => x.picked = {}
    /\ x.pc # "idle" /\ j = "erasure" => x.who \in Pupils
    /\ x.pc = "idle" => x.keys = {}
    /\ \A r \in x.picked : r.place \in x.keys

LEMMA ShapeStep ==
    ASSUME Sweepers, SweepShape, NEW j \in Sweeps, NEW x, sweep' = [sweep EXCEPT ![j] = x], Shaped(j, x)
    PROVE  SweepShape'
<1>1. sweep'[j] = x /\ \A i \in Sweeps : i # j => sweep'[i] = sweep[i] BY DEF Sweepers
<1>2. SweepShape <=> \A i \in Sweeps : Shaped(i, sweep[i]) BY DEF SweepShape, Shaped, Sweeping
<1>3. SweepShape' <=> \A i \in Sweeps : Shaped(i, sweep'[i]) BY DEF SweepShape, Shaped, Sweeping
<1>4. \A i \in Sweeps : Shaped(i, sweep'[i])
    <2> HIDE DEF Shaped
    <2> QED BY <1>1, <1>2
<1> QED BY <1>3, <1>4

(* What readLog has a sweep do: pass over a session, or pick records of it. *)
Picked(j, s) == {r \in log[s] : Selects(j, r)}

LEMMA ReadLogDoes ==
    ASSUME Sweepers, Stores, NEW j \in Sweeps, ReadLog(j)
    PROVE  \E s \in sweep[j].todo :
        /\ sweep[j].pc = "session" /\ s \in Sessions
        /\ Sweepers' /\ sweep' = [sweep EXCEPT ![j] = sweep'[j]]
        /\ sweep'[j].who = sweep[j].who /\ sweep'[j].cutoff = sweep[j].cutoff
        /\ sweep'[j].todo = sweep[j].todo \ {s}
        /\ \/ /\ Picked(j, s) = {}
              /\ sweep'[j].pc = "session" /\ sweep'[j].at = sweep[j].at
              /\ sweep'[j].picked = sweep[j].picked /\ sweep'[j].keep = sweep[j].keep
              /\ sweep'[j].keys = sweep[j].keys
           \/ /\ sweep'[j].pc = "files" /\ sweep'[j].at = s
              /\ sweep'[j].picked = Picked(j, s) /\ sweep'[j].keep = log[s] \ Picked(j, s)
              /\ sweep'[j].keys = sweep[j].keys \cup {r.place : r \in Picked(j, s)}
<1> DEFINE past(s) == [sweep[j] EXCEPT !.todo = sweep[j].todo \ {s}]
<1>1. PICK s \in sweep[j].todo :
        sweep' = [sweep EXCEPT ![j] =
            IF Picked(j, s) = {} THEN past(s)
            ELSE [past(s) EXCEPT !.pc = "files", !.at = s,
                                 !.picked = Picked(j, s), !.keep = log[s] \ Picked(j, s),
                                 !.keys = sweep[j].keys \cup {r.place : r \in Picked(j, s)}]]
    BY DEF ReadLog, Picked
<1>2. s \in Sessions /\ sweep[j].pc = "session" BY DEF ReadLog, Sweepers
<1>3. log[s] \subseteq Records /\ Picked(j, s) \subseteq Records BY <1>2 DEF Stores, Picked
<1>4. {r.place : r \in Picked(j, s)} \subseteq Places BY <1>3 DEF Records
<1>5. ASSUME NEW x, sweep' = [sweep EXCEPT ![j] = x]
      PROVE  sweep' = [sweep EXCEPT ![j] = sweep'[j]] /\ sweep'[j] = x
    BY <1>5 DEF Sweepers
<1>8. /\ past(s).who = sweep[j].who /\ past(s).cutoff = sweep[j].cutoff
      /\ past(s).todo = sweep[j].todo \ {s}
      /\ past(s).pc = sweep[j].pc /\ past(s).at = sweep[j].at
      /\ past(s).picked = sweep[j].picked /\ past(s).keep = sweep[j].keep
      /\ past(s).keys = sweep[j].keys
    BY DEF Sweepers
<1> DEFINE Shapes == [pc : {"idle", "session", "files", "waiting"}, who : Pupils \cup {None},
                      cutoff : 0 .. MaxClock, todo : SUBSET Sessions,
                      at : Sessions \cup {None}, picked : SUBSET Records,
                      keep : SUBSET Records, keys : SUBSET Places]
<1>9. past(s) \in Shapes BY DEF Sweepers
<1> HIDE DEF past
<1>6. CASE Picked(j, s) = {}
    <2>1. sweep' = [sweep EXCEPT ![j] = past(s)] BY <1>1, <1>6
    <2>2. sweep'[j] = past(s) BY <1>5, <2>1
    <2>3. Sweepers' BY <1>9, <2>1 DEF Sweepers
    <2> QED BY <1>2, <1>5, <1>6, <1>8, <2>1, <2>2, <2>3
<1>7. CASE Picked(j, s) # {}
    <2>1. ASSUME NEW P \in SUBSET Records, NEW Q \in SUBSET Records, NEW K \in SUBSET Places,
                 sweep' = [sweep EXCEPT ![j] = [past(s) EXCEPT !.pc = "files", !.at = s,
                                                        !.picked = P, !.keep = Q, !.keys = K]]
          PROVE  /\ Sweepers'
                 /\ sweep'[j].who = past(s).who /\ sweep'[j].cutoff = past(s).cutoff
                 /\ sweep'[j].todo = past(s).todo
                 /\ sweep'[j].pc = "files" /\ sweep'[j].at = s
                 /\ sweep'[j].picked = P /\ sweep'[j].keep = Q /\ sweep'[j].keys = K
        <3> DEFINE x == [past(s) EXCEPT !.pc = "files", !.at = s, !.picked = P, !.keep = Q, !.keys = K]
        <3>1. sweep'[j] = x BY <1>5, <2>1
        <3>2. x \in Shapes BY <1>2, <1>9
        <3>3. /\ x.who = past(s).who /\ x.cutoff = past(s).cutoff /\ x.todo = past(s).todo
              /\ x.pc = "files" /\ x.at = s /\ x.picked = P /\ x.keep = Q /\ x.keys = K
            BY <1>9
        <3>4. sweep' = [sweep EXCEPT ![j] = x] BY <2>1
        <3> HIDE DEF x
        <3>5. Sweepers' BY <3>2, <3>4 DEF Sweepers
        <3> QED BY <3>1, <3>3, <3>5
    <2> DEFINE K == sweep[j].keys \cup {r.place : r \in Picked(j, s)}
               Q == log[s] \ Picked(j, s)
    <2>2. K \in SUBSET Places BY <1>4 DEF Sweepers
    <2>3. Q \in SUBSET Records /\ Picked(j, s) \in SUBSET Records BY <1>3
    <2>4. sweep' = [sweep EXCEPT ![j] = [past(s) EXCEPT !.pc = "files", !.at = s,
                                                 !.picked = Picked(j, s), !.keep = Q, !.keys = K]]
        BY <1>1, <1>7
    <2> HIDE DEF K, Q
    <2>5. sweep' = [sweep EXCEPT ![j] = sweep'[j]] BY <1>5, <2>4
    <2>6. /\ Sweepers'
          /\ sweep'[j].who = past(s).who /\ sweep'[j].cutoff = past(s).cutoff
          /\ sweep'[j].todo = past(s).todo
          /\ sweep'[j].pc = "files" /\ sweep'[j].at = s
          /\ sweep'[j].picked = Picked(j, s) /\ sweep'[j].keep = Q /\ sweep'[j].keys = K
        BY <2>1, <2>2, <2>3, <2>4
    <2> QED BY <1>2, <1>8, <2>5, <2>6 DEF K, Q
<1> QED BY <1>6, <1>7

LEMMA SweepersStep == IInv /\ [Next]_vars => Sweepers' /\ SweepShape'
<1> SUFFICES ASSUME IInv, [Next]_vars PROVE Sweepers' /\ SweepShape'
    OBVIOUS
<1>0. Stores /\ Sweepers /\ Counters /\ SweepShape BY TypeOKParts DEF IInv
<1>1. ASSUME NEW who \in Pupils, StartErasure(who) PROVE Sweepers' /\ SweepShape'
    <2>1. Begin("erasure", who) BY <1>1 DEF StartErasure
    <2>2. Sweepers' BY <1>0, <2>1, BeginTypes DEF Sweeps
    <2>3. SweepShape' BY <1>0, <2>1 DEF Begin, IdleSweep, Sweepers, SweepShape, Sweeping
    <2> QED BY <2>2, <2>3
<1>2. CASE StartRetention
    <2>1. Begin("retention", None) BY <1>2 DEF StartRetention
    <2>2. Sweepers' BY <1>0, <2>1, BeginTypes DEF Sweeps
    <2>3. SweepShape' BY <1>0, <2>1 DEF Begin, IdleSweep, Sweepers, SweepShape, Sweeping
    <2> QED BY <2>2, <2>3
<1>3. ASSUME NEW j \in Sweeps, ReadLog(j) PROVE Sweepers' /\ SweepShape'
    <2>1. PICK s \in sweep[j].todo :
            /\ sweep[j].pc = "session" /\ s \in Sessions
            /\ Sweepers' /\ sweep' = [sweep EXCEPT ![j] = sweep'[j]]
            /\ sweep'[j].who = sweep[j].who
            /\ \/ /\ sweep'[j].pc = "session" /\ sweep'[j].at = sweep[j].at
                  /\ sweep'[j].picked = sweep[j].picked /\ sweep'[j].keys = sweep[j].keys
               \/ /\ sweep'[j].pc = "files" /\ sweep'[j].at = s
                  /\ sweep'[j].picked = Picked(j, s)
                  /\ sweep'[j].keys = sweep[j].keys \cup {r.place : r \in Picked(j, s)}
        BY <1>0, <1>3, ReadLogDoes
    <2>2. \A r \in sweep'[j].picked : r.place \in sweep'[j].keys
        <3>1. CASE sweep'[j].pc = "session" BY <1>0, <2>1, <3>1 DEF SweepShape
        <3>2. CASE sweep'[j].pc # "session" BY <2>1, <3>2
        <3> QED BY <3>1, <3>2
    <2>3. Shaped(j, sweep'[j]) BY <1>0, <2>1, <2>2 DEF SweepShape, Shaped, Sweeping
    <2>4. SweepShape' BY <1>0, <2>1, <2>3, ShapeStep
    <2> QED BY <2>1, <2>4
<1>4. ASSUME NEW j \in Sweeps, NEW r \in sweep[j].picked, EraseFile(j, r) PROVE Sweepers' /\ SweepShape'
    <2> DEFINE x == [sweep[j] EXCEPT !.picked = @ \ {r},
                                     !.pc = IF sweep[j].picked = {r} THEN "waiting" ELSE "files"]
    <2>1. sweep' = [sweep EXCEPT ![j] = x] BY <1>0, <1>4 DEF EraseFile, Sweepers
    <2>2. sweep[j] \in [pc : {"idle", "session", "files", "waiting"}, who : Pupils \cup {None},
                         cutoff : 0 .. MaxClock, todo : SUBSET Sessions,
                         at : Sessions \cup {None}, picked : SUBSET Records,
                         keep : SUBSET Records, keys : SUBSET Places]
        BY <1>0 DEF Sweepers
    <2>3. Sweepers' BY <1>0, <2>1, <2>2 DEF Sweepers
    <2>4. /\ x.pc = IF sweep[j].picked = {r} THEN "waiting" ELSE "files"
          /\ x.picked = sweep[j].picked \ {r}
          /\ x.at = sweep[j].at /\ x.who = sweep[j].who /\ x.keys = sweep[j].keys
        BY <2>2
    <2>5. sweep[j].pc = "files" BY <1>4 DEF EraseFile
    <2> HIDE DEF x
    <2>6. Shaped(j, x) BY <1>0, <2>4, <2>5 DEF SweepShape, Shaped, Sweeping
    <2>7. SweepShape' BY <1>0, <2>1, <2>6, ShapeStep
    <2> QED BY <2>3, <2>7
<1>5. ASSUME NEW j \in Sweeps, WriteLog(j) PROVE Sweepers' /\ SweepShape'
    <2>1. sweep' = [sweep EXCEPT ![j] = [sweep[j] EXCEPT !.pc = "session", !.at = None, !.keep = {}]]
        BY <1>0, <1>5 DEF WriteLog, Sweepers
    <2>2. Sweepers' BY <1>0, <2>1 DEF Sweepers
    <2>3. SweepShape' BY <1>0, <1>5, <2>1 DEF WriteLog, Sweepers, SweepShape, Sweeping
    <2> QED BY <2>2, <2>3
<1>6. ASSUME NEW j \in Sweeps, Finish(j) \/ RemoveFails(j) \/ WriteFails(j)
      PROVE  Sweepers' /\ SweepShape'
    <2>1. sweep' = [sweep EXCEPT ![j] = IdleSweep] BY <1>6 DEF Finish, RemoveFails, WriteFails, Ends
    <2>2. Sweepers' BY <1>0, <2>1, UploadsAssumption DEF Sweepers, IdleSweep
    <2>3. SweepShape' BY <1>0, <2>1 DEF Sweepers, SweepShape, Sweeping, IdleSweep
    <2> QED BY <2>2, <2>3
<1>7. CASE Restart
    <2>1. sweep' = [j \in Sweeps |-> IdleSweep] BY <1>7 DEF Restart
    <2>2. Sweepers' BY <2>1, UploadsAssumption DEF Sweepers, IdleSweep
    <2>3. SweepShape' BY <2>1 DEF SweepShape, Sweeping, IdleSweep
    <2> QED BY <2>2, <2>3
<1>8. ASSUME UNCHANGED sweep PROVE Sweepers' /\ SweepShape'
    BY <1>0, <1>8 DEF Sweepers, SweepShape, Sweeping
<1>9. ASSUME NEW u \in Uploads, Post(u) \/ Handler(u) PROVE UNCHANGED sweep
    BY <1>9 DEF Post, Handler, Enqueue, Start, Rename, Log, MoveFails, LogFails, UploadStep
<1> QED BY <1>1, <1>2, <1>3, <1>4, <1>5, <1>6, <1>7, <1>8, <1>9, QuietSteps DEF Next, Admin, Sweep

LEMMA GhostsStep == IInv /\ [Next]_vars => Ghosts'
<1> SUFFICES ASSUME IInv, [Next]_vars PROVE Ghosts'
    OBVIOUS
<1>0. Stores /\ Jobs /\ Sweepers /\ Ghosts BY TypeOKParts DEF IInv
<1>1. ASSUME NEW files \in SUBSET Files, Adds(files), lost' \subseteq Files PROVE Ghosts'
    BY <1>0, <1>1 DEF Adds, Ghosts
<1>2. ASSUME NEW u \in Uploads, Log(u) PROVE Ghosts'
    <2>1. <<u, job[u].next>> \in Files BY <1>0, <1>2 DEF Log, Jobs, Busy, Files
    <2> QED BY <1>0, <1>1, <1>2, <2>1 DEF Log, UploadStep, Ghosts
<1>3. ASSUME NEW j \in Sweeps, WriteLog(j) PROVE Ghosts'
    <2>1. sweep[j].keep \subseteq Records BY <1>0 DEF Sweepers
    <2>2. {r.file : r \in sweep[j].keep \ log[sweep[j].at]} \in SUBSET Files
        BY <2>1 DEF Records
    <2>3. lost' \subseteq Files BY <1>0, <1>3 DEF WriteLog, Ghosts
    <2> QED BY <1>1, <1>3, <2>2, <2>3 DEF WriteLog
<1>4. ASSUME NEW j \in Sweeps, Finish(j) \/ RemoveFails(j) \/ WriteFails(j) PROVE Ghosts'
    BY <1>0, <1>4 DEF Finish, RemoveFails, WriteFails, Ends, Ghosts
<1>5. CASE Restart BY <1>0, <1>5 DEF Restart, Ghosts
<1>6. ASSUME UNCHANGED ghosts PROVE Ghosts' BY <1>0, <1>6 DEF ghosts, Ghosts
<1>7. ASSUME \/ \E s \in Sessions : CreateSession(s) \/ CloseSession(s) \/ RemoveSession(s)
             \/ \E p \in Places : AddNote(p) \/ DeleteNotes(p)
             \/ \E who \in Pupils : StartErasure(who)
             \/ \E u \in Uploads : Post(u) \/ Enqueue(u) \/ Start(u) \/ Rename(u) \/ MoveFails(u) \/ LogFails(u)
             \/ \E j \in Sweeps : ReadLog(j) \/ \E r \in sweep[j].picked : EraseFile(j, r)
             \/ StartRetention \/ Tick \/ UNCHANGED vars
      PROVE  UNCHANGED ghosts
    BY <1>7 DEF CreateSession, CloseSession, RemoveSession, AddNote, DeleteNotes, AdminStep, StartErasure,
                Post, Enqueue, Start, Rename, MoveFails, LogFails, UploadStep, ReadLog, EraseFile,
                StartRetention, Tick, vars, ghosts
<1> QED BY <1>2, <1>3, <1>4, <1>5, <1>6, <1>7 DEF Next, Admin, Handler, Sweep

LEMMA JobShapeStep == IInv /\ [Next]_vars => JobShape'
<1> SUFFICES ASSUME IInv, [Next]_vars PROVE JobShape'
    OBVIOUS
<1>0. JobShape /\ Jobs /\ Chains /\ SweepShape BY TypeOKParts DEF IInv
<1>1. \A u \in Uploads : Into[u] \in Sessions BY UploadsAssumption
<1>2. ASSUME UNCHANGED job,
             \A r \in Sessions, x \in Uploads \cup Sweeps : Holds(x, r) => Holds(x, r)'
      PROVE  JobShape'
    BY <1>0, <1>1, <1>2 DEF JobShape, Moving, NamedFor
<1>3. ASSUME UNCHANGED <<job, chain>> PROVE JobShape'
    BY <1>0, <1>3 DEF JobShape, Moving, NamedFor, Holds
<1>4. ASSUME NEW u \in Uploads, Post(u) PROVE JobShape'
    BY <1>0, <1>4 DEF Post, Jobs, JobShape, Moving, NamedFor, Holds
<1>5. ASSUME NEW u \in Uploads, Enqueue(u) PROVE JobShape'
    <2>1. \A r \in Sessions, x \in Uploads \cup Sweeps : Holds(x, r) => Holds(x, r)'
        BY <1>0, <1>1, <1>5, QueuedBehind DEF Enqueue
    <2>2. job' = [job EXCEPT ![u].pc = "received"] \/ job' = [job EXCEPT ![u].pc = "queued"]
        BY <1>5 DEF Enqueue
    <2>3. job[u].pc = "received" BY <1>5 DEF Enqueue
    <2> QED BY <1>0, <1>1, <2>1, <2>2, <2>3 DEF Jobs, JobShape, Moving, NamedFor
<1>6. ASSUME NEW u \in Uploads, Start(u) PROVE JobShape'
    <2>1. NamedFor(FreePlace(u, 1), u, 1) BY <1>6, FirstName DEF Start
    <2>2. job[u].next = 1 /\ Holds(u, Into[u]) BY <1>0, <1>6 DEF Start, JobShape
    <2>3. /\ job'[u].pc = "moving" /\ job'[u].next = 1 /\ job'[u].place = FreePlace(u, 1)
          /\ \A v \in Uploads : v # u => job'[v] = job[v]
          /\ UNCHANGED chain
        BY <1>0, <1>6, <2>2 DEF Start, Jobs
    <2> HIDE DEF FreePlace
    <2> QED BY <1>0, <2>1, <2>2, <2>3 DEF JobShape, Moving, NamedFor, Holds
<1>7. ASSUME NEW u \in Uploads, Rename(u) PROVE JobShape'
    BY <1>0, <1>7 DEF Rename, Jobs, JobShape, Moving, NamedFor, Holds
<1>8. ASSUME NEW u \in Uploads, Log(u) \/ MoveFails(u) \/ LogFails(u),
             job' = [job EXCEPT ![u] = [IdleJob EXCEPT !.pc = "ok"]]
             \/ job' = [job EXCEPT ![u] = [IdleJob EXCEPT !.pc = "failed"]],
             chain' = [chain EXCEPT ![Into[u]] = Tail(@)]
      PROVE  JobShape'
    <2>1. Moving(u) BY <1>8 DEF Log, MoveFails, LogFails, Moving
    <2>2. \A r \in Sessions \ {Into[u]}, x \in Uploads \cup Sweeps : Holds(x, r) => Holds(x, r)'
        BY <1>0, <1>1, <1>8, <2>1, LockReleased DEF JobShape
    <2>3. \A v \in Uploads : v # u /\ Moving(v) => Into[v] # Into[u]
        BY <1>0, <2>1, OneMover
    <2>4. job'[u].pc \in {"ok", "failed"} /\ \A v \in Uploads : v # u => job'[v] = job[v]
        BY <1>0, <1>8 DEF Jobs, IdleJob
    <2> QED BY <1>0, <1>1, <2>2, <2>3, <2>4 DEF JobShape, Moving, NamedFor
<1>9. ASSUME NEW u \in Uploads, Log(u) PROVE JobShape'
    <2>1. CASE job[u].next < Len(Batch[u])
        <3> DEFINE i == job[u].next + 1
        <3>1. NamedFor(FreePlace(u, i), u, i) BY <1>9, <2>1, NextName DEF Log
        <3>2. Holds(u, Into[u]) BY <1>0, <1>9 DEF Log, JobShape, Moving
        <3>3. /\ job' = [job EXCEPT ![u] = [pc |-> "moving", next |-> i, place |-> FreePlace(u, i)]]
              /\ UNCHANGED chain
            BY <1>9, <2>1 DEF Log
        <3>4. /\ job'[u].pc = "moving" /\ job'[u].next = i /\ job'[u].place = FreePlace(u, i)
              /\ \A v \in Uploads : v # u => job'[v] = job[v]
            BY <1>0, <3>3 DEF Jobs
        <3> HIDE DEF i
        <3> QED BY <1>0, <3>1, <3>2, <3>3, <3>4 DEF JobShape, Moving, NamedFor, Holds
    <2>2. CASE ~(job[u].next < Len(Batch[u]))
        BY <1>8, <1>9, <2>2 DEF Log
    <2> QED BY <2>1, <2>2
<1>10. ASSUME NEW u \in Uploads, MoveFails(u) \/ LogFails(u) PROVE JobShape'
    BY <1>8, <1>10 DEF MoveFails, LogFails
<1>11. CASE Restart
    <2>1. \A u \in Uploads : ~Busy(u)' BY <1>0, <1>11 DEF Restart, Jobs, Busy, IdleJob
    <2>2. \A u \in Uploads : job'[u].pc = "none" => job'[u].next = 1
        BY <1>0, <1>11 DEF Restart, Jobs, Busy, IdleJob, JobShape
    <2> QED BY <2>1, <2>2 DEF JobShape, Busy, Moving
<1>12. ASSUME NEW j \in Sweeps, NEW r, EraseFile(j, r) PROVE JobShape'
    <2>1. sweep[j].at \in Sessions BY <1>0, <1>12 DEF EraseFile, SweepShape
    <2>2. UNCHANGED job BY <1>12 DEF EraseFile, SweepStep
    <2>3. CASE UNCHANGED chain BY <1>3, <2>2, <2>3
    <2>4. CASE chain' = [chain EXCEPT ![sweep[j].at] = Append(@, j)]
        BY <1>0, <1>2, <2>1, <2>2, <2>4, QueuedBehind
    <2> QED BY <1>12, <2>3, <2>4 DEF EraseFile
<1>13. ASSUME NEW j \in Sweeps, WriteLog(j) \/ WriteFails(j) PROVE JobShape'
    <2>1. sweep[j].at \in Sessions /\ Holds(j, sweep[j].at)
        BY <1>0, <1>13 DEF WriteLog, WriteFails, SweepShape
    <2>2. \A r \in Sessions \ {sweep[j].at}, x \in Uploads \cup Sweeps : Holds(x, r) => Holds(x, r)'
        BY <1>0, <1>13, <2>1, LockReleased DEF WriteLog, WriteFails
    <2>3. \A u \in Uploads : Moving(u) => Into[u] # sweep[j].at
        BY <1>0, <2>1, UploadsAssumption DEF JobShape, Holds
    <2>4. UNCHANGED job BY <1>13 DEF WriteLog, WriteFails, SweepStep
    <2> QED BY <1>0, <1>1, <2>2, <2>3, <2>4 DEF JobShape, Moving, NamedFor
<1>14. ASSUME \/ \E who \in Pupils : StartErasure(who)
              \/ StartRetention \/ \E j \in Sweeps : ReadLog(j) \/ Finish(j) \/ RemoveFails(j)
       PROVE  UNCHANGED <<job, chain>>
    BY <1>14 DEF StartErasure, StartRetention, ReadLog, Finish, RemoveFails, SweepStep
<1> QED BY <1>3, <1>4, <1>5, <1>6, <1>7, <1>9, <1>10, <1>11, <1>12, <1>13, <1>14, QuietSteps
        DEF Next, Admin, Handler, Sweep

LEMMA OnDiskStep == IInv /\ [Next]_vars => Once' /\ OnDisk'
<1> SUFFICES ASSUME IInv, [Next]_vars PROVE Once' /\ OnDisk'
    OBVIOUS
<1>0. Once /\ OnDisk /\ Stores /\ Jobs /\ JobShape BY TypeOKParts DEF IInv
<1>1. ASSUME UNCHANGED <<disk, job>> PROVE Once' /\ OnDisk'
    BY <1>0, <1>1 DEF Once, OnDisk, NamedFor, Moving
<1>2. ASSUME NEW u \in Uploads, Post(u) \/ Enqueue(u) PROVE Once' /\ OnDisk'
    <2>1. /\ job[u].pc \in {"none", "received"} /\ UNCHANGED disk
          /\ \A v \in Uploads : v # u => job'[v] = job[v]
        BY <1>0, <1>2 DEF Post, Enqueue, Jobs
    <2>2. \A p \in Places : \A i \in DOMAIN Batch[u] : disk[p] # <<u, i>>
        BY <1>0, <2>1 DEF OnDisk
    <2> QED BY <1>0, <2>1, <2>2 DEF Once, OnDisk, NamedFor, Moving
<1>3. ASSUME NEW u \in Uploads, Start(u) PROVE Once' /\ OnDisk'
    <2>1. /\ job[u].pc = "queued" /\ UNCHANGED disk
          /\ \A v \in Uploads : v # u => job'[v] = job[v]
        BY <1>0, <1>3 DEF Start, Jobs
    <2>2. \A p \in Places : \A i \in DOMAIN Batch[u] : disk[p] # <<u, i>>
        BY <1>0, <2>1 DEF OnDisk
    <2> QED BY <1>0, <2>1, <2>2 DEF Once, OnDisk, NamedFor, Moving
<1>4. ASSUME NEW u \in Uploads, Rename(u) PROVE Once' /\ OnDisk'
    <2> DEFINE q == job[u].place
               n == job[u].next
    <2>1. /\ job[u].pc = "moving" /\ disk' = [disk EXCEPT ![q] = <<u, n>>]
          /\ job'[u].pc = "moved" /\ job'[u].next = n
          /\ \A v \in Uploads : v # u => job'[v] = job[v]
        BY <1>0, <1>4 DEF Rename, Jobs
    <2>2. NamedFor(q, u, n) /\ n \in DOMAIN Batch[u]
        BY <1>0, <2>1 DEF JobShape, Jobs, Busy, Moving
    <2>3. q \in Places BY <2>2 DEF NamedFor
    <2>4. \A p \in Places : disk[p] # <<u, n>>
        <3>1. n \in Nat BY <1>0 DEF Jobs
        <3> QED BY <1>0, <2>1, <2>2, <3>1 DEF OnDisk, Moving
    <2>5. \A p \in Places : disk'[p] = IF p = q THEN <<u, n>> ELSE disk[p]
        BY <1>0, <2>1 DEF Stores
    <2> HIDE DEF q, n
    <2>6. Once' BY <1>0, <2>4, <2>5 DEF Once
    <2>7. OnDisk'
        <3> SUFFICES ASSUME NEW p \in Places, NEW v \in Uploads, NEW i \in DOMAIN Batch[v],
                            disk'[p] = <<v, i>>
                     PROVE  /\ NamedFor(p, v, i)
                            /\ job'[v].pc \notin {"none", "received", "queued"}
                            /\ Moving(v)' => i < job'[v].next \/ (i = job'[v].next /\ job'[v].pc = "moved")
            BY DEF OnDisk, NamedFor
        <3>1. CASE p = q BY <2>1, <2>2, <2>5, <3>1
        <3>2. CASE p # q
            <4>1. disk[p] = <<v, i>> BY <2>5, <3>2
            <4>2. /\ NamedFor(p, v, i)
                  /\ job[v].pc \notin {"none", "received", "queued"}
                  /\ Moving(v) => i < job[v].next \/ (i = job[v].next /\ job[v].pc = "moved")
                BY <1>0, <4>1 DEF OnDisk
            <4>3. CASE v = u BY <2>1, <4>2, <4>3 DEF Moving, n
            <4>4. CASE v # u BY <2>1, <4>2, <4>4 DEF Moving
            <4> QED BY <4>3, <4>4
        <3> QED BY <3>1, <3>2
    <2> QED BY <2>6, <2>7
<1>5. ASSUME NEW u \in Uploads, UNCHANGED disk, Busy(u),
             job' = [job EXCEPT ![u] = [IdleJob EXCEPT !.pc = "ok"]]
             \/ job' = [job EXCEPT ![u] = [IdleJob EXCEPT !.pc = "failed"]]
      PROVE  Once' /\ OnDisk'
    <2>1. job'[u].pc \in {"ok", "failed"} /\ \A v \in Uploads : v # u => job'[v] = job[v]
        BY <1>0, <1>5 DEF Jobs, IdleJob
    <2> QED BY <1>0, <1>5, <2>1 DEF Once, OnDisk, NamedFor, Moving
<1>6. ASSUME NEW u \in Uploads, Log(u) PROVE Once' /\ OnDisk'
    <2>1. CASE job[u].next < Len(Batch[u])
        <3> DEFINE m == job[u].next + 1
        <3>1. /\ job' = [job EXCEPT ![u] = [pc |-> "moving", next |-> m, place |-> FreePlace(u, m)]]
              /\ job[u].pc = "moved" /\ UNCHANGED disk
            BY <1>6, <2>1 DEF Log
        <3>2. /\ job'[u].pc = "moving" /\ job'[u].next = m
              /\ \A v \in Uploads : v # u => job'[v] = job[v]
            BY <1>0, <3>1 DEF Jobs
        <3>3. job[u].next \in Nat BY <1>0 DEF Jobs
        <3>4. \A p \in Places : \A i \in DOMAIN Batch[u] : disk[p] = <<u, i>> => NamedFor(p, u, i) /\ i < m
            <4>1. \A i \in DOMAIN Batch[u] : i \in Nat BY UploadsAssumption
            <4> QED BY <1>0, <3>1, <3>3, <4>1 DEF OnDisk, Moving
        <3> HIDE DEF m
        <3> QED BY <1>0, <3>1, <3>2, <3>4 DEF Once, OnDisk, NamedFor, Moving
    <2>2. CASE ~(job[u].next < Len(Batch[u]))
        BY <1>5, <1>6, <2>2 DEF Log, Busy
    <2> QED BY <2>1, <2>2
<1>7. ASSUME NEW u \in Uploads, MoveFails(u) \/ LogFails(u) PROVE Once' /\ OnDisk'
    BY <1>5, <1>7 DEF MoveFails, LogFails, Busy
<1>8. ASSUME NEW j \in Sweeps, NEW r \in sweep[j].picked, EraseFile(j, r) PROVE Once' /\ OnDisk'
    <2>1. UNCHANGED job /\ \A p \in Places : disk'[p] \in {disk[p], None}
        BY <1>0, <1>8 DEF EraseFile, SweepStep, Stores
    <2>2. \A u \in Uploads : \A i \in DOMAIN Batch[u] : <<u, i>> # None
        BY UploadsAssumption DEF Files
    <2>3. Once' BY <1>0, <2>1 DEF Once
    <2>4. \A p \in Places : \A u \in Uploads : \A i \in DOMAIN Batch[u] :
              disk'[p] = <<u, i>> => disk[p] = <<u, i>>
        BY <2>1, <2>2
    <2>5. OnDisk' BY <1>0, <2>1, <2>4 DEF OnDisk, NamedFor, Moving
    <2> QED BY <2>3, <2>5
<1>9. CASE Restart
    <2>1. UNCHANGED disk BY <1>9 DEF Restart, stored
    <2>2. \A u \in Uploads : job'[u] = job[u] \/ job'[u].pc = "failed"
        BY <1>0, <1>9 DEF Restart, Jobs, IdleJob
    <2>3. Once' BY <1>0, <2>1 DEF Once
    <2>4. \A u \in Uploads : Moving(u)' => job'[u] = job[u]
        BY <2>2 DEF Moving
    <2>5. OnDisk' BY <1>0, <2>1, <2>2, <2>4 DEF OnDisk, NamedFor, Moving
    <2> QED BY <2>3, <2>5
<1>10. ASSUME \/ \E who \in Pupils : StartErasure(who)
              \/ StartRetention
              \/ \E j \in Sweeps : ReadLog(j) \/ WriteLog(j) \/ Finish(j) \/ RemoveFails(j) \/ WriteFails(j)
       PROVE  UNCHANGED <<disk, job>>
    BY <1>10 DEF StartErasure, StartRetention, ReadLog, WriteLog, Finish, RemoveFails, WriteFails, SweepStep
<1> QED BY <1>1, <1>2, <1>3, <1>4, <1>6, <1>7, <1>8, <1>9, <1>10, QuietSteps DEF Next, Admin, Handler, Sweep

LEMMA InductiveIInv == IInv /\ [Next]_vars => IInv'
<1> SUFFICES ASSUME IInv, [Next]_vars PROVE IInv'
    OBVIOUS
<1>1. Stores' /\ Jobs' /\ Sweepers' /\ Chains' /\ Ghosts' /\ Counters'
    BY JobsStep, ChainsStep, StoresStep, SweepersStep, GhostsStep
<1>2. TypeOK' BY <1>1 DEF TypeOK, Stores, Jobs, Sweepers, Chains, Ghosts, Counters
<1> QED BY <1>2, SweepersStep, JobShapeStep, OnDiskStep DEF IInv

(* What sessions, directories, handlers and sweeps hold keeps its type: in *)
(* particular a handler always has a place for the file it is at.          *)
THEOREM UploadTypes == Spec => []TypeOK
<1>1. IInv => TypeOK BY DEF IInv
<1> QED BY <1>1, InitIInv, InductiveIInv, PTL DEF Spec

-----------------------------------------------------------------------------
(* No file is written over, when each session has a directory of its own.  *)

OwnDirectories == \A s, t \in Sessions : Dest[s] = Dest[t] => s = t

FreeAhead == \A u \in Uploads : job[u].pc = "moving" => disk[job[u].place] = None

LEMMA FreeAheadStep == OwnDirectories /\ IInv /\ FreeAhead /\ [Next]_vars => FreeAhead'
<1> SUFFICES ASSUME OwnDirectories, IInv, FreeAhead, [Next]_vars PROVE FreeAhead'
    OBVIOUS
<1>0. Stores /\ Jobs /\ JobShape BY TypeOKParts DEF IInv
<1>1. ASSUME UNCHANGED <<disk, job>> PROVE FreeAhead'
    BY <1>1 DEF FreeAhead
<1>2. ASSUME NEW u \in Uploads, UNCHANGED disk, job'[u].pc # "moving",
             \A v \in Uploads : v # u => job'[v] = job[v]
      PROVE  FreeAhead'
    BY <1>2 DEF FreeAhead
<1>3. ASSUME NEW u \in Uploads, UNCHANGED disk, disk[job'[u].place] = None,
             \A v \in Uploads : v # u => job'[v] = job[v]
      PROVE  FreeAhead'
    BY <1>3 DEF FreeAhead
<1>4. ASSUME NEW u \in Uploads, Post(u) \/ Enqueue(u) \/ MoveFails(u) \/ LogFails(u) PROVE FreeAhead'
    <2>1. /\ UNCHANGED disk /\ job'[u].pc # "moving"
          /\ \A v \in Uploads : v # u => job'[v] = job[v]
        BY <1>0, <1>4 DEF Post, Enqueue, MoveFails, LogFails, Jobs, IdleJob
    <2> QED BY <1>2, <2>1
<1>5. ASSUME NEW u \in Uploads, Start(u) PROVE FreeAhead'
    <2>1. disk[FreePlace(u, 1)] = None BY <1>5, FirstName DEF Start
    <2>2. /\ UNCHANGED disk /\ job'[u].place = FreePlace(u, 1)
          /\ \A v \in Uploads : v # u => job'[v] = job[v]
        BY <1>0, <1>5 DEF Start, Jobs
    <2> QED BY <1>3, <2>1, <2>2
<1>6. ASSUME NEW u \in Uploads, Rename(u) PROVE FreeAhead'
    <2>1. Moving(u) /\ NamedFor(job[u].place, u, job[u].next)
        BY <1>0, <1>6 DEF Rename, JobShape, Moving
    <2>2. /\ job'[u].pc = "moved" /\ \A v \in Uploads : v # u => job'[v] = job[v]
          /\ \A p \in Places : p # job[u].place => disk'[p] = disk[p]
        BY <1>0, <1>6 DEF Rename, Jobs, Stores
    <2> SUFFICES ASSUME NEW v \in Uploads, job'[v].pc = "moving" PROVE disk'[job'[v].place] = None
        BY DEF FreeAhead
    <2>3. v # u /\ job'[v] = job[v] /\ Moving(v) BY <2>2 DEF Moving
    <2>4. NamedFor(job[v].place, v, job[v].next) BY <1>0, <2>3 DEF JobShape
    <2>5. Into[v] # Into[u] BY <1>0, <2>1, <2>3, OneMover
    <2>6. Dest[Into[v]] # Dest[Into[u]] BY <2>5, UploadsAssumption DEF OwnDirectories
    <2>7. job[v].place # job[u].place BY <2>1, <2>4, <2>6 DEF NamedFor
    <2> QED BY <2>2, <2>3, <2>4, <2>7 DEF FreeAhead, NamedFor
<1>7. ASSUME NEW u \in Uploads, Log(u) PROVE FreeAhead'
    <2>0. UNCHANGED disk BY <1>7 DEF Log
    <2>1. CASE job[u].next < Len(Batch[u])
        <3> DEFINE i == job[u].next + 1
        <3>1. disk[FreePlace(u, i)] = None BY <1>7, <2>1, NextName DEF Log
        <3>2. job' = [job EXCEPT ![u] = [pc |-> "moving", next |-> i, place |-> FreePlace(u, i)]]
            BY <1>7, <2>1 DEF Log
        <3>3. job'[u].place = FreePlace(u, i) /\ \A v \in Uploads : v # u => job'[v] = job[v]
            BY <1>0, <3>2 DEF Jobs
        <3> QED BY <1>3, <2>0, <3>1, <3>3
    <2>2. CASE ~(job[u].next < Len(Batch[u]))
        <3>1. job' = [job EXCEPT ![u] = [IdleJob EXCEPT !.pc = "ok"]] BY <1>7, <2>2 DEF Log
        <3>2. job'[u].pc = "ok" /\ \A v \in Uploads : v # u => job'[v] = job[v]
            BY <1>0, <3>1 DEF Jobs, IdleJob
        <3> QED BY <1>2, <2>0, <3>2
    <2> QED BY <2>1, <2>2
<1>8. ASSUME NEW j \in Sweeps, NEW r \in sweep[j].picked, EraseFile(j, r) PROVE FreeAhead'
    <2>1. UNCHANGED job /\ \A p \in Places : disk'[p] \in {disk[p], None}
        BY <1>0, <1>8 DEF EraseFile, SweepStep, Stores
    <2>2. \A u \in Uploads : job[u].pc = "moving" => job[u].place \in Places
        BY <1>0 DEF JobShape, Moving, NamedFor
    <2> QED BY <2>1, <2>2 DEF FreeAhead
<1>9. CASE Restart
    <2>1. UNCHANGED disk BY <1>9 DEF Restart, stored
    <2>2. \A u \in Uploads : job'[u].pc # "moving"
        BY <1>0, <1>9 DEF Restart, Jobs, IdleJob, Busy
    <2> QED BY <2>2 DEF FreeAhead
<1>10. ASSUME \/ \E who \in Pupils : StartErasure(who)
              \/ StartRetention
              \/ \E j \in Sweeps : ReadLog(j) \/ WriteLog(j) \/ Finish(j) \/ RemoveFails(j) \/ WriteFails(j)
       PROVE  UNCHANGED <<disk, job>>
    BY <1>10 DEF StartErasure, StartRetention, ReadLog, WriteLog, Finish, RemoveFails, WriteFails, SweepStep
<1> QED BY <1>1, <1>4, <1>5, <1>6, <1>7, <1>8, <1>9, <1>10, QuietSteps DEF Next, Admin, Handler, Sweep

(* Only a rename and an erased file change the disk. *)
LEMMA DiskSteps ==
    ASSUME IInv, [Next]_vars
    PROVE  \/ UNCHANGED disk
           \/ \E u \in Uploads : Rename(u) /\ \A p \in Places \ {job[u].place} : disk'[p] = disk[p]
           \/ \E j \in Sweeps : \E r \in sweep[j].picked :
                  EraseFile(j, r) /\ \A p \in Places : disk'[p] = IF p = r.place THEN None ELSE disk[p]
<1>0. Stores BY TypeOKParts DEF IInv
<1>1. ASSUME NEW u \in Uploads, Rename(u)
      PROVE  \A p \in Places \ {job[u].place} : disk'[p] = disk[p]
    BY <1>0, <1>1 DEF Rename, Stores
<1>2. ASSUME NEW j \in Sweeps, NEW r, EraseFile(j, r)
      PROVE  \A p \in Places : disk'[p] = IF p = r.place THEN None ELSE disk[p]
    BY <1>0, <1>2 DEF EraseFile, Stores
<1>3. ASSUME \/ \E u \in Uploads : Post(u) \/ Enqueue(u) \/ Start(u) \/ Log(u) \/ MoveFails(u) \/ LogFails(u)
             \/ \E who \in Pupils : StartErasure(who)
             \/ StartRetention \/ Restart
             \/ \E j \in Sweeps : ReadLog(j) \/ WriteLog(j) \/ Finish(j) \/ RemoveFails(j) \/ WriteFails(j)
      PROVE  UNCHANGED disk
    BY <1>3 DEF Post, Enqueue, Start, Log, MoveFails, LogFails, StartErasure, StartRetention, Restart, stored,
                ReadLog, WriteLog, Finish, RemoveFails, WriteFails
<1> QED BY <1>1, <1>2, <1>3, QuietSteps DEF Next, Admin, Handler, Sweep

(* Uploads to one session take turns, those to different sessions keep to   *)
(* their directories: a name that was free when it was chosen is free when  *)
(* the file arrives, also after failures, restarts and amid sweeps.         *)
THEOREM NothingOverwritten == ASSUME OwnDirectories PROVE Spec => NoOverwrite
<1>1. Init => FreeAhead BY DEF Init, FreeAhead, IdleJob
<1>2. ASSUME IInv, FreeAhead, [Next]_vars
      PROVE  \A p \in Places : disk'[p] \in {disk[p], None} \/ disk[p] = None
    <2>1. ASSUME NEW u \in Uploads, Rename(u) PROVE disk[job[u].place] = None
        BY <1>2, <2>1 DEF Rename, FreeAhead
    <2> QED BY <1>2, <2>1, DiskSteps
<1>3. IInv /\ FreeAhead /\ [Next]_vars
          => [\A p \in Places : disk'[p] \in {disk[p], None} \/ disk[p] = None]_vars
    BY <1>2
<1> QED BY <1>1, <1>3, InitIInv, InductiveIInv, FreeAheadStep, PTL DEF Spec, NoOverwrite

-----------------------------------------------------------------------------
(* What a step does to one sweep, to the logs and to the ghosts.           *)

LEMMA SweepMoves ==
    ASSUME IInv, [Next]_vars, NEW j \in Sweeps
    PROVE  \/ sweep'[j] = sweep[j]
           \/ sweep'[j] = IdleSweep /\ (Finish(j) \/ RemoveFails(j) \/ WriteFails(j) \/ Restart)
           \/ (\E who \in Pupils \cup {None} : Begin(j, who)) /\ UNCHANGED <<session, log, disk, notes, ghosts>>
           \/ ReadLog(j) \/ WriteLog(j) \/ \E r \in sweep[j].picked : EraseFile(j, r)
<1>0. Sweepers BY TypeOKParts DEF IInv
<1>1. ASSUME NEW i \in Sweeps, Sweep(i) \/ RemoveFails(i) \/ WriteFails(i), i # j PROVE sweep'[j] = sweep[j]
    BY <1>0, <1>1 DEF Sweep, ReadLog, WriteLog, Finish, EraseFile, RemoveFails, WriteFails, Ends, Sweepers
<1>2. ASSUME Finish(j) \/ RemoveFails(j) \/ WriteFails(j) PROVE sweep'[j] = IdleSweep
    BY <1>0, <1>2 DEF Finish, RemoveFails, WriteFails, Ends, Sweepers
<1>3. CASE \E i \in Sweeps : Sweep(i) \/ RemoveFails(i) \/ WriteFails(i)
    BY <1>1, <1>2, <1>3 DEF Sweep
<1>4. CASE Restart BY <1>4 DEF Restart
<1>5. ASSUME NEW i \in Sweeps, NEW who \in Pupils \cup {None}, Begin(i, who),
             UNCHANGED <<session, log, disk, notes, ghosts>>
      PROVE  \/ sweep'[j] = sweep[j]
             \/ (\E x \in Pupils \cup {None} : Begin(j, x)) /\ UNCHANGED <<session, log, disk, notes, ghosts>>
    <2>1. CASE i = j BY <1>5, <2>1
    <2>2. CASE i # j BY <1>0, <1>5, <2>2 DEF Begin, Sweepers
    <2> QED BY <2>1, <2>2
<1>6. CASE StartRetention \/ \E who \in Pupils : StartErasure(who)
    BY <1>5, <1>6 DEF StartRetention, StartErasure, Sweeps
<1>7. ASSUME NEW u \in Uploads, Post(u) \/ Handler(u) PROVE UNCHANGED sweep
    BY <1>7 DEF Post, Handler, Enqueue, Start, Rename, Log, MoveFails, LogFails, UploadStep
<1> QED BY <1>3, <1>4, <1>6, <1>7, QuietSteps DEF Next, Admin

(* Only a handler's entry and a sweep's new log change a log. *)
LEMMA LogSteps ==
    ASSUME [Next]_vars
    PROVE  UNCHANGED log \/ (\E u \in Uploads : Log(u)) \/ (\E j \in Sweeps : WriteLog(j))
<1>1. ASSUME \/ \E u \in Uploads : Post(u) \/ Enqueue(u) \/ Start(u) \/ Rename(u) \/ MoveFails(u) \/ LogFails(u)
             \/ \E who \in Pupils : StartErasure(who)
             \/ StartRetention \/ Restart
             \/ \E j \in Sweeps : \/ ReadLog(j) \/ Finish(j) \/ RemoveFails(j) \/ WriteFails(j)
                                  \/ \E r \in sweep[j].picked : EraseFile(j, r)
      PROVE  UNCHANGED log
    BY <1>1 DEF Post, Enqueue, Start, Rename, MoveFails, LogFails, StartErasure, StartRetention, Restart,
                stored, ReadLog, Finish, RemoveFails, WriteFails, EraseFile
<1> QED BY <1>1, QuietSteps DEF Next, Admin, Handler, Sweep

(* What a log gains is news to every sweep at work, and stays so while it is. *)
LEMMA NewEntries ==
    ASSUME IInv, [Next]_vars, NEW s \in Sessions, NEW r \in log'[s] \ log[s], NEW j \in Sweeps, Sweeping(j)
    PROVE  r.file \in added'[j]
<1>0. Stores /\ Sweepers /\ SweepShape BY TypeOKParts DEF IInv
<1>1. ASSUME NEW files, Adds(files), r.file \in files PROVE r.file \in added'[j]
    BY <1>1 DEF Adds
<1>2. ASSUME NEW u \in Uploads, Log(u) PROVE r.file \in added'[j]
    <2>1. r.file = <<u, job[u].next>> BY <1>0, <1>2, UploadsAssumption DEF Log, Stores
    <2> QED BY <1>1, <1>2, <2>1 DEF Log
<1>3. ASSUME NEW i \in Sweeps, WriteLog(i) PROVE r.file \in added'[j]
    <2>1. sweep[i].at \in Sessions BY <1>0, <1>3 DEF WriteLog, SweepShape
    <2>2. s = sweep[i].at /\ r \in sweep[i].keep \ log[sweep[i].at]
        BY <1>0, <1>3, <2>1 DEF WriteLog, Stores
    <2>3. r.file \in {x.file : x \in sweep[i].keep \ log[sweep[i].at]} BY <2>2
    <2> QED BY <1>1, <1>3, <2>3 DEF WriteLog
<1> QED BY <1>2, <1>3, LogSteps

LEMMA GhostsGrow ==
    ASSUME IInv, [Next]_vars
    PROVE  /\ lost \subseteq lost'
           /\ \A j \in Sweeps : Sweeping(j) /\ Sweeping(j)' => added[j] \subseteq added'[j]
<1>0. Sweepers /\ Ghosts BY TypeOKParts DEF IInv
<1> DEFINE Goal == /\ lost \subseteq lost'
                   /\ \A j \in Sweeps : Sweeping(j) /\ Sweeping(j)' => added[j] \subseteq added'[j]
<1>1. ASSUME NEW u \in Uploads, Log(u) PROVE Goal
    BY <1>1 DEF Log, UploadStep, Adds
<1>2. ASSUME NEW j \in Sweeps, WriteLog(j) PROVE Goal
    BY <1>2 DEF WriteLog, Adds
<1>3. ASSUME NEW j \in Sweeps, Finish(j) \/ RemoveFails(j) \/ WriteFails(j) PROVE Goal
    <2>1. Ends(j) BY <1>3 DEF Finish, RemoveFails, WriteFails
    <2>2. ~Sweeping(j)' BY <1>0, <2>1 DEF Ends, Sweepers, IdleSweep, Sweeping
    <2>3. \A i \in Sweeps : i # j => added'[i] = added[i] BY <1>0, <2>1 DEF Ends, Ghosts
    <2> QED BY <2>1, <2>2, <2>3 DEF Ends
<1>4. CASE Restart
    <2>1. \A j \in Sweeps : ~Sweeping(j)' BY <1>4 DEF Restart, IdleSweep, Sweeping
    <2> QED BY <1>4, <2>1 DEF Restart
<1>5. ASSUME \/ \E s \in Sessions : CreateSession(s) \/ CloseSession(s) \/ RemoveSession(s)
             \/ \E p \in Places : AddNote(p) \/ DeleteNotes(p)
             \/ \E who \in Pupils : StartErasure(who)
             \/ \E u \in Uploads : Post(u) \/ Enqueue(u) \/ Start(u) \/ Rename(u) \/ MoveFails(u) \/ LogFails(u)
             \/ \E j \in Sweeps : ReadLog(j) \/ \E r \in sweep[j].picked : EraseFile(j, r)
             \/ StartRetention \/ Tick \/ UNCHANGED vars
      PROVE  Goal
    <2>1. UNCHANGED <<added, lost>>
        BY <1>5 DEF CreateSession, CloseSession, RemoveSession, AddNote, DeleteNotes, AdminStep, StartErasure,
                    Post, Enqueue, Start, Rename, MoveFails, LogFails, UploadStep, ReadLog, EraseFile,
                    StartRetention, Tick, vars, ghosts
    <2> QED BY <2>1
<1> QED BY <1>1, <1>2, <1>3, <1>4, <1>5 DEF Next, Admin, Handler, Sweep

(* The handler of f is past it: f is never put down again. *)
Past(f) == /\ job[f[1]].pc \notin {"none", "received", "queued"}
           /\ Moving(f[1]) => f[2] < job[f[1]].next

LEMMA PastStays == ASSUME IInv, [Next]_vars, NEW f \in Files, Past(f) PROVE Past(f)'
<1>0. Jobs BY TypeOKParts DEF IInv
<1> DEFINE w == f[1]
<1>1. w \in Uploads /\ f[2] \in Nat
    <2>1. PICK u \in Uploads : \E i \in DOMAIN Batch[u] : f = <<u, i>> BY DEF Files
    <2>2. \A i \in DOMAIN Batch[u] : i \in Nat BY UploadsAssumption
    <2> QED BY <2>1, <2>2
<1>2. CASE job'[w] = job[w] BY <1>2 DEF Past, Moving
<1>3. CASE job'[w].pc \in {"ok", "failed"} BY <1>3 DEF Past, Moving
<1>4. ASSUME NEW u \in Uploads, Post(u) \/ Enqueue(u) \/ Start(u) PROVE job'[w] = job[w]
    <2>1. job[u].pc \in {"none", "received", "queued"} /\ \A v \in Uploads : v # u => job'[v] = job[v]
        BY <1>0, <1>4 DEF Post, Enqueue, Start, Jobs
    <2>2. u # w BY <2>1 DEF Past
    <2> QED BY <1>1, <2>1, <2>2
<1>5. ASSUME NEW u \in Uploads, Rename(u) PROVE Past(f)'
    <2>1. CASE u = w
        <3>1. job'[w].pc = "moved" /\ job'[w].next = job[w].next /\ Moving(w)
            BY <1>0, <1>5, <2>1 DEF Rename, Jobs, Moving
        <3> QED BY <3>1 DEF Past
    <2>2. CASE u # w BY <1>0, <1>2, <1>5, <2>2 DEF Rename, Jobs
    <2> QED BY <2>1, <2>2
<1>6. ASSUME NEW u \in Uploads, Log(u) PROVE Past(f)'
    <2>1. CASE job[u].next < Len(Batch[u])
        <3> DEFINE i == job[u].next + 1
        <3>1. job' = [job EXCEPT ![u] = [pc |-> "moving", next |-> i, place |-> FreePlace(u, i)]]
            BY <1>6, <2>1 DEF Log
        <3>2. CASE u = w
            <4>1. job'[w].pc = "moving" /\ job'[w].next = i BY <1>0, <1>1, <3>1, <3>2 DEF Jobs
            <4>2. job[w].next \in Nat /\ Moving(w) BY <1>0, <1>1, <1>6, <3>2 DEF Jobs, Log, Moving
            <4>3. f[2] < i BY <1>1, <3>2, <4>2 DEF Past
            <4> QED BY <4>1, <4>3 DEF Past
        <3>3. CASE u # w BY <1>0, <1>1, <1>2, <3>1, <3>3 DEF Jobs
        <3> QED BY <3>2, <3>3
    <2>2. CASE ~(job[u].next < Len(Batch[u]))
        <3>1. job' = [job EXCEPT ![u] = [IdleJob EXCEPT !.pc = "ok"]] BY <1>6, <2>2 DEF Log
        <3> QED BY <1>0, <1>1, <1>2, <1>3, <3>1 DEF Jobs, IdleJob
    <2> QED BY <2>1, <2>2
<1>7. ASSUME NEW u \in Uploads, MoveFails(u) \/ LogFails(u) PROVE Past(f)'
    BY <1>0, <1>1, <1>2, <1>3, <1>7 DEF MoveFails, LogFails, Jobs, IdleJob
<1>8. CASE Restart
    BY <1>0, <1>1, <1>2, <1>3, <1>8 DEF Restart, IdleJob
<1>9. CASE UNCHANGED job BY <1>2, <1>9
<1> QED BY <1>2, <1>4, <1>5, <1>6, <1>7, <1>8, <1>9, QuietSteps, SweepKeepsJobs DEF Next, Admin, Handler

(* Who has a record in a log, or in what a sweep is to write, is past its file. *)
Entered ==
    /\ \A s \in Sessions : \A r \in log[s] : Past(r.file)
    /\ \A j \in Sweeps : \A r \in sweep[j].keep : Past(r.file)

LEMMA EnteredStep == IInv /\ Entered /\ [Next]_vars => Entered'
<1> SUFFICES ASSUME IInv, Entered, [Next]_vars PROVE Entered'
    OBVIOUS
<1>0. Stores /\ Jobs /\ Sweepers /\ SweepShape BY TypeOKParts DEF IInv
<1>1. ASSUME NEW s \in Sessions, NEW r \in log[s] PROVE Past(r.file)'
    BY <1>0, <1>1, PastStays DEF Stores, Records, Entered
<1>2. ASSUME NEW j \in Sweeps, NEW r \in sweep[j].keep PROVE Past(r.file)'
    BY <1>0, <1>2, PastStays DEF Sweepers, Records, Entered
<1>3. ASSUME NEW s \in Sessions, NEW r \in log'[s] PROVE Past(r.file)'
    <2>1. CASE UNCHANGED log BY <1>1, <2>1
    <2>2. ASSUME NEW u \in Uploads, Log(u) PROVE Past(r.file)'
        <3>1. CASE r \in log[s] BY <1>1, <3>1
        <3>2. CASE r \notin log[s]
            <4>1. r.file = <<u, job[u].next>> BY <1>0, <2>2, <3>2, UploadsAssumption DEF Log, Stores
            <4>2. job[u].next \in Nat BY <1>0 DEF Jobs
            <4>3. CASE job[u].next < Len(Batch[u])
                <5> DEFINE i == job[u].next + 1
                <5>1. job' = [job EXCEPT ![u] = [pc |-> "moving", next |-> i, place |-> FreePlace(u, i)]]
                    BY <2>2, <4>3 DEF Log
                <5>2. job'[u].pc = "moving" /\ job'[u].next = i BY <1>0, <5>1 DEF Jobs
                <5> QED BY <4>1, <4>2, <5>2 DEF Past
            <4>4. CASE ~(job[u].next < Len(Batch[u]))
                <5>1. job' = [job EXCEPT ![u] = [IdleJob EXCEPT !.pc = "ok"]] BY <2>2, <4>4 DEF Log
                <5>2. job'[u].pc = "ok" BY <1>0, <5>1 DEF Jobs, IdleJob
                <5> QED BY <4>1, <5>2 DEF Past, Moving
            <4> QED BY <4>3, <4>4
        <3> QED BY <3>1, <3>2
    <2>3. ASSUME NEW j \in Sweeps, WriteLog(j) PROVE Past(r.file)'
        <3>1. sweep[j].at \in Sessions BY <1>0, <2>3 DEF WriteLog, SweepShape
        <3>2. r \in log[s] \/ r \in sweep[j].keep BY <1>0, <2>3, <3>1 DEF WriteLog, Stores
        <3> QED BY <1>1, <1>2, <3>2
    <2> QED BY <2>1, <2>2, <2>3, LogSteps
<1>4. ASSUME NEW j \in Sweeps, NEW r \in sweep'[j].keep PROVE Past(r.file)'
    <2>1. CASE sweep'[j] = sweep[j] BY <1>2, <2>1
    <2>2. CASE sweep'[j] = IdleSweep BY <2>2 DEF IdleSweep
    <2>3. CASE \E who \in Pupils \cup {None} : Begin(j, who)
        <3>1. sweep'[j].keep = {} BY <1>0, <2>3 DEF Begin, IdleSweep, Sweepers
        <3> QED BY <3>1
    <2>4. CASE ReadLog(j)
        <3>1. \E s \in Sessions : r \in sweep[j].keep \/ r \in log[s]
            BY <1>0, <2>4, ReadLogDoes
        <3> QED BY <1>1, <1>2, <3>1
    <2>5. CASE WriteLog(j)
        <3>1. sweep'[j].keep = {} BY <1>0, <2>5 DEF WriteLog, Sweepers
        <3> QED BY <3>1
    <2>6. CASE \E x \in sweep[j].picked : EraseFile(j, x)
        <3>1. sweep'[j].keep = sweep[j].keep BY <1>0, <2>6 DEF EraseFile, Sweepers
        <3> QED BY <1>2, <3>1
    <2> QED BY <2>1, <2>2, <2>3, <2>4, <2>5, <2>6, SweepMoves
<1> QED BY <1>3, <1>4 DEF Entered

-----------------------------------------------------------------------------
(* What a sweep will drop from the log it has read.                        *)

(* Selected by it and, once its turn has come, without its file; or added   *)
(* since the sweep began.                                                  *)
Read == \A j \in Sweeps : sweep[j].pc \in {"files", "waiting"} =>
    \A r \in log[sweep[j].at] \ sweep[j].keep :
        \/ r.file \in added[j]
        \/ Selects(j, r) /\ (r \in sweep[j].picked \/ disk[r.place] # r.file)

RInv == IInv /\ Entered /\ Read

(* A file that is not where its record says does not come back there. *)
LEMMA GoneStays ==
    ASSUME RInv, [Next]_vars, NEW s \in Sessions, NEW r \in log[s], disk[r.place] # r.file
    PROVE  disk'[r.place] # r.file
<1>0. Stores /\ Jobs /\ JobShape BY TypeOKParts DEF RInv, IInv
<1>1. r \in Records /\ r.place \in Places /\ r.file \in Files BY <1>0 DEF Stores, Records
<1>2. r.file # None BY <1>1, UploadsAssumption
<1>3. ASSUME NEW u \in Uploads, Rename(u), \A p \in Places \ {job[u].place} : disk'[p] = disk[p],
             r.place = job[u].place
      PROVE  disk'[r.place] # r.file
    <2>1. disk'[r.place] = <<u, job[u].next>> BY <1>0, <1>1, <1>3 DEF Rename, Stores
    <2>2. job[u].next \in Nat /\ Moving(u) BY <1>0, <1>3 DEF Jobs, Rename, Moving
    <2>3. Past(r.file) BY DEF RInv, Entered
    <2>4. r.file # <<u, job[u].next>> BY <2>2, <2>3 DEF Past
    <2> QED BY <2>1, <2>4
<1>4. CASE \E u \in Uploads : Rename(u) /\ \A p \in Places \ {job[u].place} : disk'[p] = disk[p]
    BY <1>1, <1>3, <1>4
<1>5. CASE UNCHANGED disk \/ \E j \in Sweeps : \E x \in sweep[j].picked :
               EraseFile(j, x) /\ \A p \in Places : disk'[p] = IF p = x.place THEN None ELSE disk[p]
    BY <1>1, <1>2, <1>5
<1> QED BY <1>4, <1>5, DiskSteps DEF RInv

LEMMA ReadStep == RInv /\ [Next]_vars => Read'
<1> SUFFICES ASSUME RInv, [Next]_vars, NEW j \in Sweeps, sweep'[j].pc \in {"files", "waiting"},
                    NEW r \in log'[sweep'[j].at] \ sweep'[j].keep
             PROVE  \/ r.file \in added'[j]
                    \/ Selects(j, r)' /\ (r \in sweep'[j].picked \/ disk'[r.place] # r.file)
    BY DEF Read, Selects
<1>0. IInv /\ Stores /\ Jobs /\ JobShape /\ Sweepers /\ SweepShape BY TypeOKParts DEF RInv, IInv
<1>1. CASE sweep'[j] = sweep[j]
    <2> DEFINE s == sweep[j].at
    <2>1. s \in Sessions /\ Sweeping(j) /\ Sweeping(j)' BY <1>0, <1>1 DEF SweepShape, Sweeping
    <2>2. CASE r \notin log[s] BY <1>0, <1>1, <2>1, <2>2, NewEntries
    <2>3. CASE r \in log[s]
        <3>1. r.file \in added[j] \/ (Selects(j, r) /\ (r \in sweep[j].picked \/ disk[r.place] # r.file))
            BY <1>1, <2>3 DEF RInv, Read
        <3>2. r.file \in added[j] => r.file \in added'[j] BY <1>0, <2>1, GhostsGrow
        <3>3. Selects(j, r)' = Selects(j, r) BY <1>1 DEF Selects
        <3>4. disk[r.place] # r.file => disk'[r.place] # r.file BY <2>1, <2>3, GoneStays
        <3> QED BY <1>1, <3>1, <3>2, <3>3, <3>4
    <2> QED BY <2>2, <2>3
<1>2. CASE sweep'[j] = IdleSweep BY <1>2 DEF IdleSweep
<1>3. CASE \E who \in Pupils \cup {None} : Begin(j, who)
    <2>1. sweep'[j].pc = "session" BY <1>0, <1>3 DEF Begin, IdleSweep, Sweepers
    <2> QED BY <2>1
<1>4. CASE ReadLog(j)
    <2>1. PICK s \in sweep[j].todo :
            /\ s \in Sessions
            /\ sweep'[j].who = sweep[j].who /\ sweep'[j].cutoff = sweep[j].cutoff
            /\ sweep'[j].pc = "session"
               \/ /\ sweep'[j].at = s /\ sweep'[j].picked = Picked(j, s)
                  /\ sweep'[j].keep = log[s] \ Picked(j, s)
        BY <1>0, <1>4, ReadLogDoes
    <2>2. UNCHANGED log BY <1>4 DEF ReadLog
    <2>3. r \in Picked(j, s) /\ r \in sweep'[j].picked BY <2>1, <2>2
    <2>4. Selects(j, r) BY <2>3 DEF Picked
    <2>5. Selects(j, r)' = Selects(j, r) BY <2>1 DEF Selects
    <2> QED BY <2>3, <2>4, <2>5
<1>5. CASE WriteLog(j)
    <2>1. sweep'[j].pc = "session" BY <1>0, <1>5 DEF WriteLog, Sweepers
    <2> QED BY <2>1
<1>6. ASSUME NEW x \in sweep[j].picked, EraseFile(j, x)
      PROVE  \/ r.file \in added'[j]
             \/ Selects(j, r)' /\ (r \in sweep'[j].picked \/ disk'[r.place] # r.file)
    <2>1. /\ sweep'[j].at = sweep[j].at /\ sweep'[j].keep = sweep[j].keep
          /\ sweep'[j].who = sweep[j].who /\ sweep'[j].cutoff = sweep[j].cutoff
          /\ sweep'[j].picked = sweep[j].picked \ {x} /\ sweep[j].pc = "files"
        BY <1>0, <1>6 DEF EraseFile, Sweepers
    <2>2. UNCHANGED <<log, added>> BY <1>6 DEF EraseFile, ghosts
    <2>3. sweep[j].at \in Sessions /\ r \in log[sweep[j].at] BY <1>0, <2>1, <2>2 DEF SweepShape
    <2>4. r.place \in Places /\ r.file \in Files BY <1>0, <2>3 DEF Stores, Records
    <2>5. \A p \in Places : disk'[p] = IF p = x.place THEN None ELSE disk[p]
        BY <1>0, <1>6 DEF EraseFile, Stores
    <2>6. r.file \in added[j] \/ (Selects(j, r) /\ (r \in sweep[j].picked \/ disk[r.place] # r.file))
        BY <2>1, <2>2 DEF RInv, Read
    <2>7. Selects(j, r)' = Selects(j, r) BY <2>1 DEF Selects
    <2>8. r = x => disk'[r.place] # r.file BY <2>4, <2>5, UploadsAssumption
    <2>9. disk[r.place] # r.file => disk'[r.place] # r.file BY <2>3, GoneStays
    <2> QED BY <2>1, <2>2, <2>6, <2>7, <2>8, <2>9
<1> QED BY <1>0, <1>1, <1>2, <1>3, <1>4, <1>5, <1>6, SweepMoves

LEMMA InitRInv == Init => RInv
BY InitIInv DEF Init, RInv, Entered, Read, IdleSweep

LEMMA InductiveRInv == RInv /\ [Next]_vars => RInv'
BY InductiveIInv, EnteredStep, ReadStep DEF RInv

(* A sweep writes back what it read before it removed the files: what is    *)
(* gone after that is what it is there to remove and what came in between,  *)
(* whatever else is at work on the same log.                               *)
THEOREM NoRecordLost == Spec => RecordsKept
<1>1. ASSUME RInv, [Next]_vars
      PROVE  \A s \in Sessions : \A r \in log[s] \ log'[s] :
                 \E j \in Sweeps : Sweeping(j) /\ (Selects(j, r) \/ r.file \in added[j])
    <2>0. Stores /\ SweepShape BY <1>1, TypeOKParts DEF RInv, IInv
    <2>1. ASSUME NEW u \in Uploads, Log(u) PROVE \A s \in Sessions : log[s] \subseteq log'[s]
        BY <2>0, <2>1 DEF Log, Stores
    <2>2. ASSUME NEW j \in Sweeps, WriteLog(j), NEW s \in Sessions, NEW r \in log[s] \ log'[s]
          PROVE  Sweeping(j) /\ (Selects(j, r) \/ r.file \in added[j])
        <3>1. sweep[j].pc = "waiting" /\ sweep[j].at \in Sessions BY <2>0, <2>2 DEF WriteLog, SweepShape
        <3>2. s = sweep[j].at /\ r \notin sweep[j].keep BY <2>0, <2>2, <3>1 DEF WriteLog, Stores
        <3>3. Selects(j, r) \/ r.file \in added[j] BY <1>1, <2>2, <3>1, <3>2 DEF RInv, Read
        <3> QED BY <3>1, <3>3 DEF Sweeping
    <2> QED BY <1>1, <2>1, <2>2, LogSteps
<1>2. RInv /\ [Next]_vars
          => [\A s \in Sessions : \A r \in log[s] \ log'[s] :
                  \E j \in Sweeps : Sweeping(j) /\ (Selects(j, r) \/ r.file \in added[j])]_vars
    BY <1>1
<1> QED BY <1>2, InitRInv, InductiveRInv, PTL DEF Spec, RecordsKept

-----------------------------------------------------------------------------
(* Every file is in the log of its session.                                *)

(* What a handler has just put down is where it put it, or gone. *)
JustPut == \A u \in Uploads :
    (job[u].pc = "moved" /\ disk[job[u].place] # None /\ disk[job[u].place][1] = u)
        => disk[job[u].place] = <<u, job[u].next>>

LEMMA JustPutStep == IInv /\ JustPut /\ [Next]_vars => JustPut'
<1> SUFFICES ASSUME IInv, JustPut, [Next]_vars,
                    NEW u \in Uploads, job'[u].pc = "moved", disk'[job'[u].place] # None,
                    disk'[job'[u].place][1] = u
             PROVE  disk'[job'[u].place] = <<u, job'[u].next>>
    BY DEF JustPut
<1>0. Stores /\ Jobs /\ JobShape BY TypeOKParts DEF IInv
<1>1. CASE Rename(u)
    <2>1. job[u].place \in Places BY <1>0, <1>1 DEF Rename, JobShape, Moving, NamedFor
    <2> QED BY <1>0, <1>1, <2>1 DEF Rename, Stores, Jobs
<1>2. ASSUME job'[u] = job[u], NEW p \in Places, p = job[u].place,
             disk'[p] = disk[p] \/ disk'[p] = None \/ \E v \in Uploads \ {u} : disk'[p][1] = v
      PROVE  disk'[job'[u].place] = <<u, job'[u].next>>
    BY <1>2 DEF JustPut
<1>3. ~Rename(u) => job'[u] = job[u]
    <2>1. ASSUME NEW v \in Uploads, Post(v) \/ Handler(v), ~Rename(u) PROVE job'[u] = job[u]
        <3>1. CASE Log(v)
            <4>1. CASE job[v].next < Len(Batch[v])
                <5>1. job' = [job EXCEPT ![v] = [pc |-> "moving", next |-> job[v].next + 1,
                                                 place |-> FreePlace(v, job[v].next + 1)]]
                    BY <3>1, <4>1 DEF Log
                <5> QED BY <1>0, <5>1 DEF Jobs
            <4>2. CASE ~(job[v].next < Len(Batch[v]))
                <5>1. job' = [job EXCEPT ![v] = [IdleJob EXCEPT !.pc = "ok"]]
                    BY <3>1, <4>2 DEF Log
                <5> QED BY <1>0, <5>1 DEF Jobs, IdleJob
            <4> QED BY <4>1, <4>2
        <3>2. CASE Post(v) \/ Enqueue(v) \/ Start(v) \/ MoveFails(v) \/ LogFails(v)
            BY <1>0, <3>2 DEF Post, Enqueue, Start, MoveFails, LogFails, Jobs, IdleJob
        <3>3. CASE Rename(v)
            BY <1>0, <2>1, <3>3 DEF Rename, Jobs
        <3> QED BY <2>1, <3>1, <3>2, <3>3 DEF Handler
    <2>2. CASE Restart BY <1>0, <2>2 DEF Restart, Jobs, IdleJob
    <2>3. CASE UNCHANGED job BY <2>3
    <2> QED BY <2>1, <2>2, <2>3, QuietSteps, SweepKeepsJobs DEF Next, Admin
<1>4. CASE ~Rename(u)
    <2>1. job'[u] = job[u] /\ job[u].place \in Places
        BY <1>0, <1>3, <1>4 DEF JobShape, Moving, NamedFor
    <2>2. CASE \E v \in Uploads : Rename(v) /\ \A p \in Places \ {job[v].place} : disk'[p] = disk[p]
        <3>1. PICK v \in Uploads : Rename(v) /\ \A p \in Places \ {job[v].place} : disk'[p] = disk[p]
            BY <2>2
        <3>2. v # u /\ job[v].place \in Places
            BY <1>0, <1>4, <3>1 DEF Rename, JobShape, Moving, NamedFor
        <3>3. disk'[job[v].place] = <<v, job[v].next>>
            BY <1>0, <3>1, <3>2 DEF Rename, Stores
        <3> QED BY <1>2, <2>1, <3>1, <3>2, <3>3
    <2>3. CASE UNCHANGED disk \/ \E j \in Sweeps : \E r \in sweep[j].picked :
                   EraseFile(j, r) /\ \A p \in Places : disk'[p] = IF p = r.place THEN None ELSE disk[p]
        BY <1>2, <2>1, <2>3
    <2> QED BY <2>2, <2>3, DiskSteps
<1> QED BY <1>1, <1>4

Logged(p) == LET u == disk[p][1] IN
    \/ job[u].pc = "moved" /\ job[u].place = p
    \/ \E r \in log[Into[u]] : r.place = p /\ r.file = disk[p]
    \/ disk[p] \in lost

LEMMA FindableDef == FilesFindable <=> (faults = 0 => \A p \in Places : disk[p] # None => Logged(p))
BY DEF FilesFindable, Logged

(* faults is 0 only if it was and nothing failed. *)
LEMMA NoFault ==
    ASSUME IInv, [Next]_vars, faults' = 0
    PROVE  /\ faults = 0 /\ ~Restart /\ \A u \in Uploads : ~MoveFails(u) /\ ~LogFails(u)
           /\ \A j \in Sweeps : ~RemoveFails(j) /\ ~WriteFails(j)
<1>0. faults \in Nat BY DEF IInv, TypeOK
<1>1. ASSUME Fault PROVE FALSE BY <1>0, <1>1 DEF Fault
<1>2. /\ ~Restart /\ \A u \in Uploads : ~MoveFails(u) /\ ~LogFails(u)
      /\ \A j \in Sweeps : ~RemoveFails(j) /\ ~WriteFails(j)
    BY <1>1 DEF Restart, MoveFails, LogFails, RemoveFails, WriteFails
<1>3. UNCHANGED faults
    BY <1>2 DEF Next, Admin, Handler, Sweep, vars, CreateSession, CloseSession, RemoveSession, AddNote,
        DeleteNotes, AdminStep, StartErasure, StartRetention, Tick, Post, Enqueue, Start, Rename, Log,
        ReadLog, WriteLog, Finish, EraseFile
<1> QED BY <1>2, <1>3

LEMMA FindableStep == RInv /\ JustPut /\ FilesFindable /\ [Next]_vars => FilesFindable'
<1> SUFFICES ASSUME RInv, JustPut, FilesFindable, [Next]_vars,
                    faults' = 0, NEW p \in Places, disk'[p] # None
             PROVE  Logged(p)'
    BY DEF FilesFindable, Logged
<1>0. IInv /\ Stores /\ Jobs /\ JobShape /\ SweepShape BY TypeOKParts DEF RInv, IInv
<1>1. disk[p] # None => Logged(p) BY <1>0, NoFault, FindableDef
<1>2. \A u \in Uploads : Into[u] \in Sessions BY UploadsAssumption
<1>3. disk[p] # None => disk[p][1] \in Uploads BY <1>0 DEF Stores, Files
<1>13. lost \subseteq lost' BY <1>0, GhostsGrow
<1>4. ASSUME UNCHANGED disk, \A s \in Sessions : log[s] \subseteq log'[s],
             \A v \in Uploads : job[v].pc = "moved" => job'[v] = job[v]
      PROVE  Logged(p)'
    BY <1>1, <1>2, <1>3, <1>4, <1>13 DEF Logged
<1>5. ASSUME NEW u \in Uploads, Rename(u) PROVE Logged(p)'
    <2>1. job[u].place \in Places BY <1>0, <1>5 DEF Rename, JobShape, Moving, NamedFor
    <2>2. /\ job'[u].pc = "moved" /\ job'[u].place = job[u].place /\ job[u].pc # "moved"
          /\ \A v \in Uploads : v # u => job'[v] = job[v]
          /\ UNCHANGED log
        BY <1>0, <1>5 DEF Rename, Jobs
    <2>3. CASE p = job[u].place
        <3>1. disk'[p][1] = u BY <1>0, <1>5, <2>1, <2>3 DEF Rename, Stores
        <3> QED BY <2>2, <2>3, <3>1 DEF Logged
    <2>4. CASE p # job[u].place
        <3>1. disk'[p] = disk[p] BY <1>0, <1>5, <2>1, <2>4 DEF Rename, Stores
        <3> QED BY <1>1, <1>3, <1>13, <2>2, <3>1 DEF Logged
    <2> QED BY <2>3, <2>4
<1>6. ASSUME NEW u \in Uploads, Log(u) PROVE Logged(p)'
    <2>1. UNCHANGED disk /\ disk[p] # None BY <1>6 DEF Log
    <2>2. \A v \in Uploads : v # u => job'[v] = job[v]
        <3>1. CASE job[u].next < Len(Batch[u])
            <4>1. job' = [job EXCEPT ![u] = [pc |-> "moving", next |-> job[u].next + 1,
                                             place |-> FreePlace(u, job[u].next + 1)]]
                BY <1>6, <3>1 DEF Log
            <4> QED BY <1>0, <4>1 DEF Jobs
        <3>2. CASE ~(job[u].next < Len(Batch[u]))
            BY <1>0, <1>6, <3>2 DEF Log, Jobs
        <3> QED BY <3>1, <3>2
    <2>3. log' = [log EXCEPT ![Into[u]] = @ \cup
                     {[file |-> <<u, job[u].next>>, place |-> job[u].place, at |-> clock]}]
        BY <1>6 DEF Log
    <2>4. \A s \in Sessions : log[s] \subseteq log'[s] BY <1>0, <2>3 DEF Stores
    <2>5. CASE job[u].pc = "moved" /\ job[u].place = p /\ disk[p][1] = u
        <3>1. disk[p] = <<u, job[u].next>> BY <2>1, <2>5 DEF JustPut
        <3>2. [file |-> <<u, job[u].next>>, place |-> p, at |-> clock] \in log'[Into[u]]
            BY <1>0, <1>2, <2>3, <2>5 DEF Stores
        <3> QED BY <2>1, <2>5, <3>1, <3>2 DEF Logged
    <2>6. CASE ~(job[u].place = p /\ disk[p][1] = u)
        BY <1>1, <1>2, <1>3, <1>13, <2>1, <2>2, <2>4, <2>6 DEF Logged
    <2> QED BY <1>6, <2>5, <2>6 DEF Log
<1>7. ASSUME NEW j \in Sweeps, WriteLog(j) PROVE Logged(p)'
    <2>1. UNCHANGED <<disk, job>> BY <1>7 DEF WriteLog, SweepStep
    <2>2. sweep[j].pc = "waiting" /\ sweep[j].at \in Sessions /\ sweep[j].picked = {}
        BY <1>0, <1>7 DEF WriteLog, SweepShape
    <2>3. ASSUME NEW s \in Sessions, NEW r \in log[s], r.place = p, r.file = disk[p], r \notin log'[s]
          PROVE  disk[p] \in lost'
        <3>1. s = sweep[j].at /\ r \notin sweep[j].keep BY <1>0, <1>7, <2>2, <2>3 DEF WriteLog, Stores
        <3>2. r.file \in added[j] BY <2>2, <2>3, <3>1 DEF RInv, Read
        <3>3. r.file \in {x.file : x \in log[s] \ sweep[j].keep} BY <3>1
        <3> QED BY <1>7, <2>3, <3>1, <3>2, <3>3 DEF WriteLog
    <2> QED BY <1>1, <1>2, <1>3, <1>13, <2>1, <2>3 DEF Logged
<1>8. ASSUME NEW j \in Sweeps, NEW r \in sweep[j].picked, EraseFile(j, r) PROVE Logged(p)'
    <2>1. disk'[p] = disk[p] /\ UNCHANGED <<log, job>>
        BY <1>0, <1>8 DEF EraseFile, SweepStep, Stores
    <2> QED BY <1>1, <1>13, <2>1 DEF Logged
<1>9. ASSUME NEW u \in Uploads, Post(u) \/ Enqueue(u) \/ Start(u) PROVE Logged(p)'
    <2>1. /\ UNCHANGED <<log, disk>>
          /\ \A v \in Uploads : job[v].pc = "moved" => job'[v] = job[v]
        BY <1>0, <1>9 DEF Post, Enqueue, Start, Jobs
    <2> QED BY <1>4, <2>1
<1>10. ASSUME UNCHANGED <<log, disk, job>> PROVE Logged(p)'
    BY <1>4, <1>10
<1>11. ASSUME \/ \E who \in Pupils : StartErasure(who)
              \/ StartRetention \/ \E j \in Sweeps : ReadLog(j) \/ Finish(j)
       PROVE  UNCHANGED <<log, disk, job>>
    BY <1>11 DEF StartErasure, StartRetention, ReadLog, Finish, SweepStep
<1> QED BY <1>0, <1>5, <1>6, <1>7, <1>8, <1>9, <1>10, <1>11, QuietSteps, NoFault
        DEF Next, Admin, Handler, Sweep

LEMMA InitFindable == Init => JustPut /\ FilesFindable
BY DEF Init, JustPut, FilesFindable, IdleJob

(* Until something fails, every file in a directory is in the log of the    *)
(* session it was handed in to, under its own name and place, or its        *)
(* handler is about to enter it, or a sweep that overlapped the upload has  *)
(* dropped the entry it had not read.                                      *)
THEOREM AllFindable == Spec => []FilesFindable
<1>1. RInv => IInv BY DEF RInv
<1> QED BY <1>1, InitRInv, InductiveRInv, InitFindable, JustPutStep, FindableStep, PTL DEF Spec

-----------------------------------------------------------------------------
(* Notes are about the file they are shown with.                           *)

(* A note whose file is gone is on the list of a sweep at work.            *)
NotesKnown ==
    faults = 0 => \A p \in Places : notes[p] # None => disk[p] = notes[p] \/ Pending(p)

NInv == IInv /\ FreeAhead /\ NotesKnown

(* A sweep keeps what is on its list until it is through. *)
LEMMA StillPending ==
    ASSUME IInv, [Next]_vars, faults' = 0, NEW p \in Places, NEW j \in Sweeps, p \in sweep[j].keys,
           ~Finish(j)
    PROVE  p \in sweep'[j].keys
<1>0. Stores /\ Sweepers /\ SweepShape BY TypeOKParts DEF IInv
<1>1. ~RemoveFails(j) /\ ~WriteFails(j) /\ ~Restart BY NoFault
<1>2. ASSUME NEW who, Begin(j, who) PROVE FALSE
    BY <1>0, <1>2 DEF Begin, Sweeping, SweepShape
<1>3. CASE ReadLog(j) BY <1>0, <1>3, ReadLogDoes
<1>4. CASE WriteLog(j) BY <1>0, <1>4 DEF WriteLog, Sweepers
<1>5. CASE \E r \in sweep[j].picked : EraseFile(j, r)
    BY <1>0, <1>5 DEF EraseFile, Sweepers
<1> QED BY <1>1, <1>2, <1>3, <1>4, <1>5, SweepMoves

LEMMA NotesStep == OwnDirectories /\ NInv /\ [Next]_vars => NotesKnown'
<1> SUFFICES ASSUME OwnDirectories, NInv, [Next]_vars, faults' = 0, NEW p \in Places, notes'[p] # None
             PROVE  disk'[p] = notes'[p] \/ \E j \in Sweeps : p \in sweep'[j].keys
    BY DEF NotesKnown, Pending
<1> DEFINE Goal == disk'[p] = notes'[p] \/ \E j \in Sweeps : p \in sweep'[j].keys
<1>0. IInv /\ Stores /\ Jobs /\ JobShape /\ Sweepers /\ SweepShape BY TypeOKParts DEF NInv, IInv
<1>1. notes[p] # None => disk[p] = notes[p] \/ \E j \in Sweeps : p \in sweep[j].keys
    BY <1>0, NoFault DEF NInv, NotesKnown, Pending
<1>2. ASSUME NEW q \in Places, AddNote(q) \/ DeleteNotes(q) PROVE Goal
    <2>1. UNCHANGED <<disk, sweep>> BY <1>2 DEF AddNote, DeleteNotes, AdminStep
    <2>2. CASE notes'[p] = notes[p] BY <1>1, <2>1, <2>2
    <2>3. CASE notes'[p] # notes[p]
        <3>1. notes'[p] = disk[p] BY <1>0, <1>2, <2>3 DEF AddNote, DeleteNotes, Stores
        <3> QED BY <2>1, <3>1
    <2> QED BY <2>2, <2>3
<1>3. ASSUME NEW j \in Sweeps, Finish(j) PROVE Goal
    <2>1. UNCHANGED disk /\ \A i \in Sweeps : i # j => sweep'[i] = sweep[i]
        BY <1>0, <1>3 DEF Finish, Ends, Sweepers
    <2>2. notes'[p] = notes[p] /\ p \notin sweep[j].keys BY <1>3 DEF Finish
    <2> QED BY <1>1, <2>1, <2>2
<1>4. ASSUME UNCHANGED notes, \A j \in Sweeps : ~Finish(j) PROVE Goal
    <2>0. \A j \in Sweeps : p \in sweep[j].keys => p \in sweep'[j].keys
        BY <1>0, <1>4, StillPending
    <2>1. CASE disk'[p] = disk[p] BY <1>1, <1>4, <2>0, <2>1
    <2>2. CASE \E u \in Uploads : Rename(u) /\ \A q \in Places \ {job[u].place} : disk'[q] = disk[q]
        <3>1. PICK u \in Uploads : Rename(u) /\ \A q \in Places \ {job[u].place} : disk'[q] = disk[q]
            BY <2>2
        <3>2. disk[job[u].place] = None BY <3>1 DEF Rename, NInv, FreeAhead
        <3> QED BY <1>1, <1>4, <2>0, <2>1, <3>1, <3>2
    <2>3. CASE \E j \in Sweeps : \E r \in sweep[j].picked :
                   EraseFile(j, r) /\ \A q \in Places : disk'[q] = IF q = r.place THEN None ELSE disk[q]
        BY <1>0, <2>0, <2>1, <2>3 DEF SweepShape
    <2> QED BY <1>0, <2>1, <2>2, <2>3, DiskSteps
<1>5. ASSUME \/ \E s \in Sessions : CreateSession(s) \/ CloseSession(s) \/ RemoveSession(s)
             \/ \E who \in Pupils : StartErasure(who)
             \/ \E u \in Uploads : Post(u) \/ Handler(u)
             \/ \E j \in Sweeps : \/ ReadLog(j) \/ WriteLog(j) \/ RemoveFails(j) \/ WriteFails(j)
                                  \/ \E r \in sweep[j].picked : EraseFile(j, r)
             \/ StartRetention \/ Restart \/ Tick \/ UNCHANGED vars
      PROVE  UNCHANGED notes
    BY <1>5 DEF CreateSession, CloseSession, RemoveSession, AdminStep, StartErasure, Handler,
                Post, Enqueue, Start, Rename, Log, MoveFails, LogFails, UploadStep, ReadLog, WriteLog,
                EraseFile, RemoveFails, WriteFails, StartRetention, Restart, stored, Tick, vars
<1> QED BY <1>2, <1>3, <1>4, <1>5 DEF Next, Admin, Sweep

LEMMA InitNInv == Init => NInv
BY InitIInv DEF Init, NInv, FreeAhead, NotesKnown, IdleJob

LEMMA InductiveNInv == OwnDirectories /\ NInv /\ [Next]_vars => NInv'
BY InductiveIInv, FreeAheadStep, NotesStep DEF NInv

(* A name that is free again has no notes any more, once the sweep that     *)
(* freed it is done: a file that gets the name of an erased one is not      *)
(* shown with what was written about that.                                 *)
THEOREM NotesOfTheFile == ASSUME OwnDirectories PROVE Spec => []NotesBelong
<1>1. NInv => NotesBelong BY DEF NInv, NotesKnown, NotesBelong
<1> QED BY <1>1, InitNInv, InductiveNInv, PTL DEF Spec

-----------------------------------------------------------------------------
(* An erasure erases.                                                      *)

(* What was never opened is nobody's: no entry, no upload, no sweep.       *)
Unused == \A s \in Sessions : session[s] = "none" =>
    /\ log[s] = {} /\ \A u \in Uploads : Into[u] = s => job[u].pc = "none"
    /\ \A j \in Sweeps : /\ s \notin sweep[j].todo
                         /\ sweep[j].pc \in {"files", "waiting"} => sweep[j].at # s

(* A session is opened once. *)
LEMMA NeverAgain ==
    ASSUME IInv, [Next]_vars, NEW s \in Sessions
    PROVE  /\ session'[s] = "none" => session[s] = "none"
           /\ session'[s] \in {"open", "closed"} => session[s] \in {"none", "open", "closed"}
<1>0. Stores BY TypeOKParts DEF IInv
<1>1. ASSUME NEW t \in Sessions, CreateSession(t) \/ CloseSession(t) \/ RemoveSession(t)
      PROVE  /\ session'[s] = "none" => session[s] = "none"
             /\ session'[s] \in {"open", "closed"} => session[s] \in {"none", "open", "closed"}
    BY <1>0, <1>1 DEF CreateSession, CloseSession, RemoveSession, Stores
<1>2. ASSUME NEW j \in Sweeps, Finish(j)
      PROVE  /\ session'[s] = "none" => session[s] = "none"
             /\ session'[s] \in {"open", "closed"} => session[s] \in {"none", "open", "closed"}
    BY <1>0, <1>2 DEF Finish
<1>3. ASSUME \/ \E p \in Places : AddNote(p) \/ DeleteNotes(p)
             \/ \E who \in Pupils : StartErasure(who)
             \/ \E u \in Uploads : Post(u) \/ Handler(u)
             \/ \E j \in Sweeps : \/ ReadLog(j) \/ WriteLog(j) \/ RemoveFails(j) \/ WriteFails(j)
                                  \/ \E r \in sweep[j].picked : EraseFile(j, r)
             \/ StartRetention \/ Restart \/ Tick \/ UNCHANGED vars
      PROVE  UNCHANGED session
    BY <1>3 DEF AddNote, DeleteNotes, AdminStep, StartErasure, Handler,
                Post, Enqueue, Start, Rename, Log, MoveFails, LogFails, UploadStep, ReadLog, WriteLog,
                EraseFile, RemoveFails, WriteFails, StartRetention, Restart, stored, Tick, vars
<1> QED BY <1>1, <1>2, <1>3 DEF Next, Admin, Sweep

LEMMA UnusedStep == IInv /\ Unused /\ [Next]_vars => Unused'
<1> SUFFICES ASSUME IInv, Unused, [Next]_vars, NEW s \in Sessions, session'[s] = "none"
             PROVE  /\ log'[s] = {} /\ \A u \in Uploads : Into[u] = s => job'[u].pc = "none"
                    /\ \A j \in Sweeps : /\ s \notin sweep'[j].todo
                                         /\ sweep'[j].pc \in {"files", "waiting"} => sweep'[j].at # s
    BY DEF Unused
<1>0. Stores /\ Jobs /\ Sweepers /\ SweepShape BY TypeOKParts DEF IInv
<1>1. /\ session[s] = "none" /\ log[s] = {} /\ \A u \in Uploads : Into[u] = s => job[u].pc = "none"
      /\ \A j \in Sweeps : /\ s \notin sweep[j].todo
                           /\ sweep[j].pc \in {"files", "waiting"} => sweep[j].at # s
    BY NeverAgain DEF Unused
<1>2. log'[s] = {}
    <2>1. ASSUME NEW u \in Uploads, Log(u) PROVE log'[s] = {}
        <3>1. Into[u] # s BY <1>1, <2>1 DEF Log
        <3> QED BY <1>0, <1>1, <2>1, <3>1, UploadsAssumption DEF Log, Stores
    <2>2. ASSUME NEW j \in Sweeps, WriteLog(j) PROVE log'[s] = {}
        <3>1. sweep[j].at # s /\ sweep[j].at \in Sessions BY <1>0, <1>1, <2>2 DEF WriteLog, SweepShape
        <3> QED BY <1>0, <1>1, <2>2, <3>1 DEF WriteLog, Stores
    <2> QED BY <1>1, <2>1, <2>2, LogSteps
<1>3. ASSUME NEW u \in Uploads, Into[u] = s PROVE job'[u].pc = "none"
    <2>1. job[u].pc = "none" /\ ~Post(u) BY <1>1, <1>3 DEF Post
    <2>2. ASSUME NEW v \in Uploads, Post(v) \/ Handler(v) PROVE job'[u] = job[u]
        <3>1. v # u
            BY <2>1, <2>2 DEF Handler, Enqueue, Start, Rename, Log, MoveFails, LogFails
        <3>2. CASE Log(v)
            <4>1. CASE job[v].next < Len(Batch[v]) BY <1>0, <3>1, <3>2, <4>1 DEF Log, Jobs
            <4>2. CASE ~(job[v].next < Len(Batch[v])) BY <1>0, <3>1, <3>2, <4>2 DEF Log, Jobs
            <4> QED BY <4>1, <4>2
        <3> QED BY <1>0, <2>2, <3>1, <3>2 DEF Post, Handler, Enqueue, Start, Rename, MoveFails, LogFails, Jobs
    <2>3. CASE Restart BY <2>1, <2>3 DEF Restart, Busy
    <2> QED BY <2>1, <2>2, <2>3, QuietSteps, SweepKeepsJobs DEF Next, Admin
<1>4. ASSUME NEW j \in Sweeps
      PROVE  /\ s \notin sweep'[j].todo
             /\ sweep'[j].pc \in {"files", "waiting"} => sweep'[j].at # s
    <2>1. CASE sweep'[j] = sweep[j] BY <1>1, <2>1
    <2>2. CASE sweep'[j] = IdleSweep BY <2>2 DEF IdleSweep
    <2>3. CASE \E who \in Pupils \cup {None} : Begin(j, who)
        <3>1. sweep'[j].todo = Registered /\ sweep'[j].pc = "session"
            BY <1>0, <2>3 DEF Begin, IdleSweep, Sweepers
        <3> QED BY <1>1, <3>1 DEF Registered
    <2>4. CASE ReadLog(j)
        <3>1. PICK t \in sweep[j].todo :
                /\ sweep'[j].todo = sweep[j].todo \ {t}
                /\ sweep'[j].pc = "session" \/ sweep'[j].at = t
            BY <1>0, <2>4, ReadLogDoes
        <3> QED BY <1>1, <3>1
    <2>5. CASE WriteLog(j)
        <3>1. sweep'[j].todo = sweep[j].todo /\ sweep'[j].pc = "session" BY <1>0, <2>5 DEF WriteLog, Sweepers
        <3> QED BY <1>1, <3>1
    <2>6. CASE \E x \in sweep[j].picked : EraseFile(j, x)
        <3>1. sweep'[j].todo = sweep[j].todo /\ sweep'[j].at = sweep[j].at /\ sweep[j].pc = "files"
            BY <1>0, <2>6 DEF EraseFile, Sweepers
        <3> QED BY <1>1, <3>1
    <2> QED BY <2>1, <2>2, <2>3, <2>4, <2>5, <2>6, SweepMoves
<1> QED BY <1>2, <1>3, <1>4

(* A record of the pupil is still to be dealt with, or came in since. *)
ToCome(s, r) ==
    \/ r.file \in added["erasure"]
    \/ s \in sweep["erasure"].todo
    \/ /\ sweep["erasure"].pc \in {"files", "waiting"} /\ sweep["erasure"].at = s
       /\ r \notin sweep["erasure"].keep

KeepsOthers == \A r \in sweep["erasure"].keep : r.place.pupil # sweep["erasure"].who

Erased == Sweeping("erasure") =>
    \A s \in Registered : \A r \in log[s] : r.place.pupil = sweep["erasure"].who => ToCome(s, r)

LEMMA KeepsOthersStep == IInv /\ KeepsOthers /\ [Next]_vars => KeepsOthers'
<1> DEFINE e == sweep["erasure"]
<1> SUFFICES ASSUME IInv, KeepsOthers, [Next]_vars, NEW r \in (e.keep)' PROVE r.place.pupil # (e.who)'
    BY DEF KeepsOthers
<1>0. Stores /\ Sweepers /\ "erasure" \in Sweeps BY TypeOKParts DEF IInv, Sweeps
<1>1. CASE e' = e BY <1>1 DEF KeepsOthers
<1>2. CASE e' = IdleSweep BY <1>2 DEF IdleSweep
<1>3. CASE \E who \in Pupils \cup {None} : Begin("erasure", who)
    <2>1. (e.keep)' = {} BY <1>0, <1>3 DEF Begin, IdleSweep, Sweepers
    <2> QED BY <2>1
<1>4. CASE ReadLog("erasure")
    <2>1. PICK s \in e.todo :
            /\ (e.who)' = e.who
            /\ (e.keep)' = e.keep \/ (e.keep)' = log[s] \ Picked("erasure", s)
        BY <1>0, <1>4, ReadLogDoes
    <2>2. r \in log[s] \ Picked("erasure", s) => r.place.pupil # e.who BY DEF Picked, Selects
    <2> QED BY <2>1, <2>2 DEF KeepsOthers
<1>5. CASE WriteLog("erasure")
    <2>1. (e.keep)' = {} BY <1>0, <1>5 DEF WriteLog, Sweepers
    <2> QED BY <2>1
<1>6. CASE \E x \in e.picked : EraseFile("erasure", x)
    <2>1. (e.keep)' = e.keep /\ (e.who)' = e.who BY <1>0, <1>6 DEF EraseFile, Sweepers
    <2> QED BY <2>1 DEF KeepsOthers
<1> QED BY <1>0, <1>1, <1>2, <1>3, <1>4, <1>5, <1>6, SweepMoves

LEMMA ErasedStep == IInv /\ Unused /\ KeepsOthers /\ Erased /\ [Next]_vars => Erased'
<1> DEFINE e == sweep["erasure"]
<1> SUFFICES ASSUME IInv, Unused, KeepsOthers, Erased, [Next]_vars, Sweeping("erasure")',
                    NEW s \in Sessions, session'[s] \in {"open", "closed"},
                    NEW r \in log'[s], r.place.pupil = (e.who)'
             PROVE  ToCome(s, r)'
    BY DEF Erased, Registered
<1>0. Stores /\ Jobs /\ Sweepers /\ SweepShape /\ "erasure" \in Sweeps
    BY TypeOKParts DEF IInv, Sweeps
<1>1. ASSUME Sweeping("erasure"), r \in log[s], (e.who)' = e.who
      PROVE  ToCome(s, r)
    <2>1. session[s] # "none" BY <1>1 DEF Unused
    <2>2. s \in Registered BY <2>1, NeverAgain DEF Registered
    <2> QED BY <1>1, <2>2 DEF Erased
<1>2. ASSUME Sweeping("erasure") PROVE added["erasure"] \subseteq added'["erasure"]
    BY <1>0, <1>2, GhostsGrow
<1>3. CASE e' = e
    <2>1. Sweeping("erasure") BY <1>3 DEF Sweeping
    <2>2. CASE r \in log[s] BY <1>1, <1>2, <1>3, <2>1, <2>2 DEF ToCome
    <2>3. CASE r \notin log[s] BY <1>0, <2>1, <2>3, NewEntries DEF ToCome
    <2> QED BY <2>2, <2>3
<1>4. CASE e' = IdleSweep BY <1>4 DEF IdleSweep, Sweeping
<1>5. CASE (\E who \in Pupils \cup {None} : Begin("erasure", who)) /\ UNCHANGED session
    <2>1. (e.todo)' = Registered BY <1>0, <1>5 DEF Begin, IdleSweep, Sweepers
    <2>2. s \in Registered BY <1>5 DEF Registered
    <2> QED BY <2>1, <2>2 DEF ToCome
<1>6. CASE ReadLog("erasure")
    <2>1. PICK t \in e.todo :
            /\ e.pc = "session" /\ (e.who)' = e.who /\ (e.todo)' = e.todo \ {t}
            /\ \/ (e.pc)' = "session" /\ Picked("erasure", t) = {}
               \/ /\ (e.pc)' = "files" /\ (e.at)' = t
                  /\ (e.keep)' = log[t] \ Picked("erasure", t)
        BY <1>0, <1>6, ReadLogDoes
    <2>2. UNCHANGED log /\ Sweeping("erasure") BY <1>6 DEF ReadLog, Sweeping
    <2>3. ToCome(s, r) BY <1>1, <2>1, <2>2
    <2>4. CASE s = t
        <3>1. r \in Picked("erasure", t) BY <2>1, <2>2, <2>4 DEF Picked, Selects
        <3> QED BY <2>1, <2>4, <3>1 DEF ToCome
    <2>5. CASE s # t BY <1>2, <2>1, <2>2, <2>3, <2>5 DEF ToCome
    <2> QED BY <2>4, <2>5
<1>7. CASE WriteLog("erasure")
    <2>1. /\ Sweeping("erasure") /\ (e.who)' = e.who /\ (e.todo)' = e.todo
          /\ e.at \in Sessions /\ log' = [log EXCEPT ![e.at] = e.keep]
        BY <1>0, <1>7 DEF WriteLog, Sweepers, SweepShape, Sweeping
    <2>2. CASE s = e.at
        <3>1. r \in e.keep BY <1>0, <2>1, <2>2 DEF Stores
        <3> QED BY <2>1, <3>1 DEF KeepsOthers
    <2>3. CASE s # e.at
        <3>1. r \in log[s] BY <1>0, <2>1, <2>3 DEF Stores
        <3>2. ToCome(s, r) BY <1>1, <2>1, <3>1
        <3> QED BY <1>2, <2>1, <2>3, <3>2 DEF ToCome
    <2> QED BY <2>2, <2>3
<1>8. CASE \E x \in e.picked : EraseFile("erasure", x)
    <2>1. /\ (e.who)' = e.who /\ (e.todo)' = e.todo /\ (e.at)' = e.at /\ (e.keep)' = e.keep
          /\ (e.pc)' \in {"files", "waiting"} /\ Sweeping("erasure") /\ UNCHANGED log
        BY <1>0, <1>8 DEF EraseFile, Sweepers, Sweeping
    <2>2. ToCome(s, r) BY <1>1, <2>1
    <2>3. e.pc = "files" BY <1>8 DEF EraseFile
    <2> QED BY <1>2, <2>1, <2>2, <2>3 DEF ToCome
<1> QED BY <1>0, <1>3, <1>4, <1>5, <1>6, <1>7, <1>8, SweepMoves

EInv == RInv /\ NInv /\ JustPut /\ FilesFindable /\ Unused /\ KeepsOthers /\ Erased

LEMMA InitEInv == Init => EInv
BY InitRInv, InitNInv, InitFindable
   DEF Init, EInv, Unused, KeepsOthers, Erased, IdleSweep, IdleJob, Sweeping, Sweeps

LEMMA InductiveEInv == OwnDirectories /\ EInv /\ [Next]_vars => EInv'
BY InductiveRInv, InductiveNInv, JustPutStep, FindableStep, UnusedStep, KeepsOthersStep, ErasedStep
   DEF EInv, NInv

(* When the last session is through: the logs, the directories, the notes, *)
(* and the erasure log.                                                    *)
LEMMA NothingLeft ==
    ASSUME EInv, [Next]_vars, NEW who \in Pupils, sweep["erasure"].who = who, Finish("erasure")
    PROVE  /\ sweep["erasure"].keys # {} => who \in accounted'
           /\ \A s \in Registered : \A r \in log'[s] :
                  r.place.pupil = who => r.file \in added["erasure"]
           /\ faults = 0 => \A f \in Files :
                  \/ Pupil[f[1]] # who \/ Into[f[1]] \notin Registered
                  \/ f \in added["erasure"] \cup lost
                  \/ job[f[1]].pc = "moved" /\ job[f[1]].next = f[2]
                  \/ \A p \in Places : disk'[p] # f /\ (notes'[p] = f => Pending(p)')
<1> DEFINE e == sweep["erasure"]
<1>0. IInv /\ Stores /\ Sweepers BY TypeOKParts DEF EInv, RInv, IInv
<1>1. Sweeping("erasure") /\ e.pc = "session" /\ e.todo = {} BY DEF Finish, Sweeping
<1>2. UNCHANGED <<log, disk>> BY DEF Finish
<1>3. e.keys # {} => who \in accounted' BY DEF Finish
<1>4. ASSUME NEW s \in Registered, NEW r \in log[s], r.place.pupil = who PROVE r.file \in added["erasure"]
    BY <1>1, <1>4 DEF EInv, Erased, ToCome
<1>5. ASSUME faults = 0, NEW f \in Files, Pupil[f[1]] = who, Into[f[1]] \in Registered,
             f \notin added["erasure"] \cup lost, ~(job[f[1]].pc = "moved" /\ job[f[1]].next = f[2]),
             NEW p \in Places
      PROVE  disk[p] # f
    <2> SUFFICES ASSUME disk[p] = f PROVE FALSE
        OBVIOUS
    <2> DEFINE u == f[1]
    <2>1. u \in Uploads /\ f[2] \in DOMAIN Batch[u] /\ f = <<u, f[2]>> BY DEF Files
    <2>2. f # None BY UploadsAssumption
    <2>3. \/ job[u].pc = "moved" /\ job[u].place = p
          \/ \E r \in log[Into[u]] : r.place = p /\ r.file = f
        BY <1>5, <2>2 DEF EInv, FilesFindable
    <2>4. CASE job[u].pc = "moved" /\ job[u].place = p
        <3>1. f = <<u, job[u].next>> BY <2>1, <2>2, <2>4 DEF EInv, JustPut
        <3>2. job[u].next = f[2] BY <3>1
        <3> QED BY <1>5, <2>4, <3>2
    <2>5. CASE \E r \in log[Into[u]] : r.place = p /\ r.file = f
        <3>1. PICK r \in log[Into[u]] : r.place = p /\ r.file = f BY <2>5
        <3>2. disk[p] = <<u, f[2]>> BY <2>1
        <3>3. p.pupil = Pupil[u] BY <1>0, <2>1, <3>2 DEF IInv, OnDisk, NamedFor
        <3> QED BY <1>4, <1>5, <3>1, <3>3
    <2> QED BY <2>3, <2>4, <2>5
<1>6. ASSUME faults = 0, NEW f \in Files, NEW p \in Places, notes'[p] = f, disk[p] # f PROVE Pending(p)'
    <2>1. notes'[p] # None BY <1>6, UploadsAssumption
    <2>2. notes'[p] = notes[p] /\ p \notin e.keys BY <2>1 DEF Finish
    <2>3. Pending(p) BY <1>6, <2>1, <2>2 DEF EInv, NInv, NotesKnown
    <2>4. PICK j \in Sweeps : p \in sweep[j].keys BY <2>3 DEF Pending
    <2>5. sweep'[j] = sweep[j] BY <1>0, <2>2, <2>4 DEF Finish, Ends, Sweepers
    <2> QED BY <2>4, <2>5 DEF Pending
<1> QED BY <1>2, <1>3, <1>4, <1>5, <1>6

(* Whatever was handed in, erased, closed or opened while it went through   *)
(* the sessions, and whatever retention was doing: an erasure that ends has *)
(* left no record of its pupil in the log of a registered session, and, if  *)
(* nothing has failed, no file of his and no note about one, but for what   *)
(* came in since it began; and the erasure log knows.                      *)
THEOREM ErasureErases == ASSUME OwnDirectories PROVE Spec => ErasureComplete
<1> DEFINE Complete ==
        \A who \in Pupils :
            (sweep["erasure"].who = who /\ Finish("erasure")) =>
               /\ sweep["erasure"].keys # {} => who \in accounted'
               /\ \A s \in Registered : \A r \in log'[s] :
                      r.place.pupil = who => r.file \in added["erasure"]
               /\ faults = 0 => \A f \in Files :
                      \/ Pupil[f[1]] # who \/ Into[f[1]] \notin Registered
                      \/ f \in added["erasure"] \cup lost
                      \/ job[f[1]].pc = "moved" /\ job[f[1]].next = f[2]
                      \/ \A p \in Places : disk'[p] # f /\ (notes'[p] = f => Pending(p)')
<1>1. EInv /\ [Next]_vars => Complete BY NothingLeft
<1>2. EInv /\ [Next]_vars => [Complete]_vars BY <1>1
<1> QED BY <1>2, InitEInv, InductiveEInv, PTL DEF Spec, ErasureComplete
=============================================================================
