------------------------------- MODULE Uploads -------------------------------
(***************************************************************************)
(* Upload sessions and what becomes of the files they collect: the public   *)
(* upload handler, the submission log of each session, the review notes,    *)
(* and the sweeps (retention and erasure) that delete file, notes and log   *)
(* entry.  An action is what happens between two awaits.                    *)
(*                                                                         *)
(* A file is the i-th accepted file of a batch.  Its place is directory,    *)
(* desired name and version ("", "__2", ...).  Retention is measured in     *)
(* ticks of the clock: whatever is from an earlier tick is old.  The access *)
(* code, the size limits and files of a type that is not allowed end a      *)
(* request before it touches anything kept here, and are left out.          *)
(*                                                                         *)
(* A sweep reads a log outside the session's lock and writes it back inside *)
(* it.  The ghosts added and lost say what is dropped in between: the       *)
(* program does lose it (EntriesKept), the other properties except just     *)
(* that.                                                                   *)
(***************************************************************************)
EXTENDS Naturals, Sequences, FiniteSets

CONSTANTS
    Sessions, Dirs, Dest,       \* Dest[s]: the directory session s collects into
    Uploads,                    \* batches: requests to store files
    Into, Pupil, Batch,         \* per batch: session, uploader, names of its files in order
    None,
    MaxClock, MaxFaults, MaxErasures    \* bounds

Pupils == {Pupil[u] : u \in Uploads}
Originals == UNION {{Batch[u][i] : i \in DOMAIN Batch[u]} : u \in Uploads}
Files == UNION {{<<u, i>> : i \in DOMAIN Batch[u]} : u \in Uploads}
Places == [dir : Dirs, pupil : Pupils, name : Originals, version : 1 .. Cardinality(Files)]
Records == [file : Files, place : Places, at : 0 .. MaxClock]
Sweeps == {"retention", "erasure"}

ASSUME UploadsAssumption ==
    /\ Dest \in [Sessions -> Dirs] /\ Into \in [Uploads -> Sessions]
    /\ IsFiniteSet(Uploads) /\ DOMAIN Pupil = Uploads /\ DOMAIN Batch = Uploads
    /\ \A u \in Uploads : Batch[u] \in Seq(Originals) /\ Batch[u] # <<>>
    /\ Uploads \cap Sweeps = {} /\ None \notin Files
    /\ {MaxClock, MaxFaults, MaxErasures} \subseteq Nat

VARIABLES
    session,    \* per session: whether it is registered and open
    created,    \* per session: createdAt
    log,        \* per session: its submission log
    disk,       \* per place: the file stored there
    notes,      \* per place: the file its review notes are about (the code keeps the place)
    job,        \* per batch: its upload handler
    chain,      \* per session: who holds and who awaits the session's lock
    sweep,      \* per sweep: where it is and its variables
    accounted,  \* pupils named in the erasure log
    added,      \* ghost, per sweep: files whose record was added to a log since it began
    lost,       \* ghost: files whose record a sweep dropped without having read it
    clock, faults, erasures

stored == <<session, created, log, disk, notes, accounted>>
ghosts == <<added, lost>>
vars == <<stored, job, chain, sweep, ghosts, clock, faults, erasures>>

IdleJob == [pc |-> "none", next |-> 1, place |-> None]
IdleSweep == [pc |-> "idle", who |-> None, cutoff |-> 0, todo |-> {}, at |-> None,
              picked |-> {}, keep |-> {}, keys |-> {}]

Busy(u) == job[u].pc \in {"received", "queued", "moving", "moved"}
Sweeping(j) == sweep[j].pc # "idle"
Registered == {s \in Sessions : session[s] \in {"open", "closed"}}

TypeOK ==
    /\ session \in [Sessions -> {"none", "open", "closed", "removed"}]
    /\ created \in [Sessions -> 0 .. MaxClock]
    /\ log \in [Sessions -> SUBSET Records]
    /\ disk \in [Places -> Files \cup {None}] /\ notes \in [Places -> Files \cup {None}]
    /\ job \in [Uploads -> [pc : {"none", "received", "queued", "moving", "moved", "ok", "failed"},
                           next : Nat, place : Places \cup {None}]]
    /\ \A u \in Uploads : Busy(u) => job[u].next \in DOMAIN Batch[u]
    /\ chain \in [Sessions -> Seq(Uploads \cup Sweeps)]
    /\ sweep \in [Sweeps -> [pc : {"idle", "session", "files", "waiting"}, who : Pupils \cup {None},
                             cutoff : 0 .. MaxClock, todo : SUBSET Sessions,
                             at : Sessions \cup {None}, picked : SUBSET Records,
                             keep : SUBSET Records, keys : SUBSET Places]]
    /\ accounted \subseteq Pupils
    /\ added \in [Sweeps -> SUBSET Files] /\ lost \subseteq Files
    /\ clock \in 0 .. MaxClock /\ faults \in 0 .. MaxFaults /\ erasures \in 0 .. MaxErasures

Init ==
    /\ session = [s \in Sessions |-> "none"] /\ created = [s \in Sessions |-> 0]
    /\ log = [s \in Sessions |-> {}]
    /\ disk = [p \in Places |-> None] /\ notes = [p \in Places |-> None]
    /\ job = [u \in Uploads |-> IdleJob] /\ chain = [s \in Sessions |-> <<>>]
    /\ sweep = [j \in Sweeps |-> IdleSweep] /\ accounted = {}
    /\ added = [j \in Sweeps |-> {}] /\ lost = {}
    /\ clock = 0 /\ faults = 0 /\ erasures = 0

-----------------------------------------------------------------------------
(* The admin: sessions and review notes.                                   *)

AdminStep == UNCHANGED <<log, disk, job, chain, sweep, accounted, ghosts, clock, faults, erasures>>

CreateSession(s) ==
    /\ session[s] = "none"
    /\ session' = [session EXCEPT ![s] = "open"] /\ created' = [created EXCEPT ![s] = clock]
    /\ AdminStep /\ UNCHANGED notes

(* Closed by hand, or expired. *)
CloseSession(s) ==
    /\ session[s] = "open" /\ session' = [session EXCEPT ![s] = "closed"]
    /\ AdminStep /\ UNCHANGED <<created, notes>>

(* Files and log stay. *)
RemoveSession(s) ==
    /\ s \in Registered /\ session' = [session EXCEPT ![s] = "removed"]
    /\ AdminStep /\ UNCHANGED <<created, notes>>

(* A bound: notes are written about files that are there. *)
AddNote(p) ==
    /\ disk[p] # None /\ notes' = [notes EXCEPT ![p] = IF @ = None THEN disk[p] ELSE @]
    /\ AdminStep /\ UNCHANGED <<session, created>>

(* The last note goes and the status is back to open: pruneEntry. *)
DeleteNotes(p) ==
    /\ notes[p] # None /\ notes' = [notes EXCEPT ![p] = None]
    /\ AdminStep /\ UNCHANGED <<session, created>>

-----------------------------------------------------------------------------
(* The upload handler.                                                     *)

UploadStep == UNCHANGED <<session, created, notes, sweep, accounted, lost, clock, erasures>>

(* The request passes the gate; its body is still on the way. *)
Post(u) ==
    /\ job[u].pc = "none" /\ session[Into[u]] = "open"
    /\ job' = [job EXCEPT ![u].pc = "received"]
    /\ UploadStep /\ UNCHANGED <<log, disk, chain, added, faults>>

(* The files are in the temporary directory; nobody asks again whether the *)
(* session is still open.                                                  *)
Enqueue(u) ==
    /\ job[u].pc = "received"
    /\ job' = [job EXCEPT ![u].pc = "queued"]
    /\ chain' = [chain EXCEPT ![Into[u]] = Append(@, u)]
    /\ UploadStep /\ UNCHANGED <<log, disk, added, faults>>

Holds(t, s) == chain[s] # <<>> /\ Head(chain[s]) = t

(* uniqueName: the first version of the name that the directory lacks. *)
Unversioned(u, i) ==            \* mutant of FreePlace: no version at all
    [dir |-> Dest[Into[u]], pupil |-> Pupil[u], name |-> Batch[u][i], version |-> 0]
FirstVersion(u, i) ==           \* mutant of FreePlace: the directory is not looked at
    [dir |-> Dest[Into[u]], pupil |-> Pupil[u], name |-> Batch[u][i], version |-> 1]
FreePlace(u, i) ==
    LET Version(n) == [dir |-> Dest[Into[u]], pupil |-> Pupil[u], name |-> Batch[u][i], version |-> n]
    IN  CHOOSE p \in {Version(n) : n \in 1 .. Cardinality(Files)} :
            /\ disk[p] = None
            /\ \A n \in 1 .. Cardinality(Files) : n < p.version => disk[Version(n)] # None

(* The lock is ours: mkdir, and a name for the first file. *)
Start(u) ==
    /\ job[u].pc = "queued" /\ Holds(u, Into[u])
    /\ job' = [job EXCEPT ![u].pc = "moving", ![u].place = FreePlace(u, 1)]
    /\ UploadStep /\ UNCHANGED <<log, disk, chain, added, faults>>

(* The file moves, over whatever has that name by now. *)
Rename(u) ==
    /\ job[u].pc = "moving"
    /\ disk' = [disk EXCEPT ![job[u].place] = <<u, job[u].next>>]
    /\ job' = [job EXCEPT ![u].pc = "moved"]
    /\ UploadStep /\ UNCHANGED <<log, chain, added, faults>>

(* Ghost: what the sweeps at work have not read. *)
Adds(files) == added' = [j \in Sweeps |-> IF Sweeping(j) THEN added[j] \cup files ELSE {}]

(* appendSubmission, and a name for the next file or the answer. *)
Log(u) ==
    LET i == job[u].next IN
    /\ job[u].pc = "moved"
    /\ log' = [log EXCEPT ![Into[u]] = @ \cup
                  {[file |-> <<u, i>>, place |-> job[u].place, at |-> clock]}]
    /\ IF i < Len(Batch[u])
       THEN /\ job' = [job EXCEPT ![u] = [pc |-> "moving", next |-> i + 1, place |-> FreePlace(u, i + 1)]]
            /\ UNCHANGED chain
       ELSE /\ job' = [job EXCEPT ![u] = [IdleJob EXCEPT !.pc = "ok"]]
            /\ chain' = [chain EXCEPT ![Into[u]] = Tail(@)]
    /\ Adds({<<u, i>>})
    /\ UploadStep /\ UNCHANGED <<disk, faults>>

Fault == faults < MaxFaults /\ faults' = faults + 1

PoisonsChain(u) ==              \* mutant of MoveFails: the lock is not passed on
    /\ job[u].pc = "moving" /\ Fault
    /\ job' = [job EXCEPT ![u] = [IdleJob EXCEPT !.pc = "failed"]]
    /\ UploadStep /\ UNCHANGED <<log, disk, chain, added>>

(* The pupil is told that nothing was stored; what was stays stored. *)
MoveFails(u) ==
    /\ job[u].pc = "moving" /\ Fault
    /\ job' = [job EXCEPT ![u] = [IdleJob EXCEPT !.pc = "failed"]]
    /\ chain' = [chain EXCEPT ![Into[u]] = Tail(@)]
    /\ UploadStep /\ UNCHANGED <<log, disk, added>>

(* The file is in place but its record cannot be written: the same answer. *)
LogFails(u) ==
    /\ job[u].pc = "moved" /\ Fault
    /\ job' = [job EXCEPT ![u] = [IdleJob EXCEPT !.pc = "failed"]]
    /\ chain' = [chain EXCEPT ![Into[u]] = Tail(@)]
    /\ UploadStep /\ UNCHANGED <<log, disk, added>>

-----------------------------------------------------------------------------
(* The sweeps.                                                             *)

SweepStep == UNCHANGED <<created, job, clock>>

(* A sweep comes to its end. *)
Ends(j) ==
    /\ sweep' = [sweep EXCEPT ![j] = IdleSweep]
    /\ added' = [added EXCEPT ![j] = {}] /\ UNCHANGED lost

(* A bound: one erasure at a time. *)
Begin(j, who) ==
    /\ ~Sweeping(j)
    /\ sweep' = [sweep EXCEPT ![j] = [IdleSweep EXCEPT !.pc = "session", !.who = who,
                                                       !.cutoff = clock, !.todo = Registered]]

StartRetention ==
    /\ Begin("retention", None)
    /\ SweepStep /\ UNCHANGED <<session, log, disk, notes, chain, accounted, ghosts, faults, erasures>>

StartErasure(who) ==
    /\ Begin("erasure", who)
    /\ erasures < MaxErasures /\ erasures' = erasures + 1
    /\ SweepStep /\ UNCHANGED <<session, log, disk, notes, chain, accounted, ghosts, faults>>

SelectsOlder(j, r) ==           \* mutant of Selects: one tick too late
    IF j = "retention" THEN r.at + 1 < sweep[j].cutoff ELSE r.place.pupil = sweep[j].who
Selects(j, r) ==
    IF j = "retention" THEN r.at < sweep[j].cutoff ELSE r.place.pupil = sweep[j].who

(* readLog, outside the lock. *)
ReadLog(j) ==
    /\ sweep[j].pc = "session"
    /\ \E s \in sweep[j].todo :
        LET picked == {r \in log[s] : Selects(j, r)}
            past == [sweep[j] EXCEPT !.todo = sweep[j].todo \ {s}]
        IN  sweep' = [sweep EXCEPT ![j] =
                IF picked = {} THEN past
                ELSE [past EXCEPT !.pc = "files", !.at = s, !.picked = picked, !.keep = log[s] \ picked,
                                  !.keys = sweep[j].keys \cup {r.place : r \in picked}]]
    /\ SweepStep /\ UNCHANGED <<session, log, disk, notes, chain, accounted, ghosts, faults, erasures>>

(* The file of one record, under the name the record has for it; after the *)
(* last one the sweep queues for the lock.                                 *)
SparesFile(j, r) ==             \* mutant of EraseFile: the log only
    /\ sweep[j].pc = "files" /\ r \in sweep[j].picked
    /\ sweep' = [sweep EXCEPT ![j].picked = @ \ {r},
                              ![j].pc = IF sweep[j].picked = {r} THEN "waiting" ELSE "files"]
    /\ chain' = IF sweep[j].picked = {r} THEN [chain EXCEPT ![sweep[j].at] = Append(@, j)] ELSE chain
    /\ SweepStep /\ UNCHANGED <<session, log, disk, notes, accounted, ghosts, faults, erasures>>

EraseFile(j, r) ==
    /\ sweep[j].pc = "files" /\ r \in sweep[j].picked
    /\ disk' = [disk EXCEPT ![r.place] = None]
    /\ sweep' = [sweep EXCEPT ![j].picked = @ \ {r},
                              ![j].pc = IF sweep[j].picked = {r} THEN "waiting" ELSE "files"]
    /\ chain' = IF sweep[j].picked = {r} THEN [chain EXCEPT ![sweep[j].at] = Append(@, j)] ELSE chain
    /\ SweepStep /\ UNCHANGED <<session, log, notes, accounted, ghosts, faults, erasures>>

DropsLog(j) ==                  \* mutant of WriteLog: nothing is kept
    /\ sweep[j].pc = "waiting" /\ Holds(j, sweep[j].at)
    /\ log' = [log EXCEPT ![sweep[j].at] = {}]
    /\ chain' = [chain EXCEPT ![sweep[j].at] = Tail(@)]
    /\ sweep' = [sweep EXCEPT ![j].pc = "session", ![j].at = None, ![j].keep = {}]
    /\ SweepStep /\ UNCHANGED <<session, disk, notes, accounted, ghosts, faults, erasures>>

KeepsLog(j) ==                  \* mutant of WriteLog: the log is left as it was
    /\ sweep[j].pc = "waiting" /\ Holds(j, sweep[j].at)
    /\ chain' = [chain EXCEPT ![sweep[j].at] = Tail(@)]
    /\ sweep' = [sweep EXCEPT ![j].pc = "session", ![j].at = None, ![j].keep = {}]
    /\ SweepStep /\ UNCHANGED <<session, log, disk, notes, accounted, ghosts, faults, erasures>>

(* What was read before the awaits, without the selected records. *)
WriteLog(j) ==
    LET s == sweep[j].at IN
    /\ sweep[j].pc = "waiting" /\ Holds(j, s)
    /\ log' = [log EXCEPT ![s] = sweep[j].keep]
    /\ chain' = [chain EXCEPT ![s] = Tail(@)]
    /\ sweep' = [sweep EXCEPT ![j].pc = "session", ![j].at = None, ![j].keep = {}]
    /\ lost' = lost \cup ({r.file : r \in log[s] \ sweep[j].keep} \cap added[j])
    /\ Adds({r.file : r \in sweep[j].keep \ log[s]})
    /\ SweepStep /\ UNCHANGED <<session, disk, notes, accounted, faults, erasures>>

(* The write fails: the sweep ends, the lock is passed on. *)
WriteFails(j) ==
    /\ sweep[j].pc = "waiting" /\ Holds(j, sweep[j].at) /\ Fault
    /\ chain' = [chain EXCEPT ![sweep[j].at] = Tail(@)]
    /\ Ends(j)
    /\ SweepStep /\ UNCHANGED <<session, log, disk, notes, accounted, erasures>>

KeepsNotes(j) ==                \* mutant of Finish: removeEntries is not called
    /\ sweep[j].pc = "session" /\ sweep[j].todo = {}
    /\ session' = [s \in Sessions |->
           IF j = "retention" /\ session[s] = "closed" /\ created[s] < sweep[j].cutoff /\ log[s] = {}
           THEN "removed" ELSE session[s]]
    /\ accounted' = accounted \cup (IF j = "erasure" /\ sweep[j].keys # {} THEN {sweep[j].who} ELSE {})
    /\ Ends(j)
    /\ SweepStep /\ UNCHANGED <<log, disk, notes, chain, faults, erasures>>

(* The notes of all that was erased; then an erasure writes its own log,   *)
(* and retention drops old sessions that hold nothing any more.            *)
Finish(j) ==
    /\ sweep[j].pc = "session" /\ sweep[j].todo = {}
    /\ notes' = [p \in Places |-> IF p \in sweep[j].keys THEN None ELSE notes[p]]
    /\ session' = [s \in Sessions |->
           IF j = "retention" /\ session[s] = "closed" /\ created[s] < sweep[j].cutoff /\ log[s] = {}
           THEN "removed" ELSE session[s]]
    /\ accounted' = accounted \cup (IF j = "erasure" /\ sweep[j].keys # {} THEN {sweep[j].who} ELSE {})
    /\ Ends(j)
    /\ SweepStep /\ UNCHANGED <<log, disk, chain, faults, erasures>>

(* A file that cannot be removed ends the whole sweep. *)
RemoveFails(j) ==
    /\ sweep[j].pc = "files" /\ Fault
    /\ Ends(j)
    /\ SweepStep /\ UNCHANGED <<session, log, disk, notes, chain, accounted, erasures>>

-----------------------------------------------------------------------------
Restart ==
    /\ Fault
    /\ job' = [u \in Uploads |-> IF Busy(u) THEN [IdleJob EXCEPT !.pc = "failed"] ELSE job[u]]
    /\ chain' = [s \in Sessions |-> <<>>] /\ sweep' = [j \in Sweeps |-> IdleSweep]
    /\ added' = [j \in Sweeps |-> {}]
    /\ UNCHANGED <<stored, lost, clock, erasures>>

Tick ==
    /\ clock < MaxClock /\ clock' = clock + 1
    /\ UNCHANGED <<stored, job, chain, sweep, ghosts, faults, erasures>>

Admin ==
    \/ \E s \in Sessions : CreateSession(s) \/ CloseSession(s) \/ RemoveSession(s)
    \/ \E p \in Places : AddNote(p) \/ DeleteNotes(p)
    \/ \E who \in Pupils : StartErasure(who)

Handler(u) == Enqueue(u) \/ Start(u) \/ Rename(u) \/ Log(u) \/ MoveFails(u) \/ LogFails(u)
Sweep(j) == ReadLog(j) \/ WriteLog(j) \/ Finish(j) \/ \E r \in sweep[j].picked : EraseFile(j, r)

Next ==
    \/ Admin \/ StartRetention \/ Restart \/ Tick
    \/ \E u \in Uploads : Post(u) \/ Handler(u)
    \/ \E j \in Sweeps : Sweep(j) \/ RemoveFails(j) \/ WriteFails(j)

Spec == Init /\ [][Next]_vars

(* Handlers and sweeps go on by themselves, the scheduler starts retention *)
(* again and again; nobody has to post, to click or to erase.              *)
Fairness ==
    /\ \A u \in Uploads : WF_vars(Handler(u))
    /\ \A j \in Sweeps : WF_vars(Sweep(j))
    /\ WF_vars(StartRetention)
FairSpec == Spec /\ Fairness

-----------------------------------------------------------------------------
(* Properties.                                                             *)

(* A file that is stored never takes the place of another: two uploads to  *)
(* one session, by the same pupil under the same name, end up side by side. *)
NoOverwrite == [][\A p \in Places : disk'[p] \in {disk[p], None} \/ disk[p] = None]_vars

(* Once logged, a submission stays logged until it is old or its pupil's   *)
(* data are being erased, whoever else writes the log.                     *)
EntriesKept ==
    [][\A s \in Sessions : \A r \in log[s] \ log'[s] :
           \E j \in Sweeps : Sweeping(j) /\ Selects(j, r)]_vars

(* However uploads and sweeps overlap, a record leaves a log only if a     *)
(* sweep at work selects it or if it was added since that sweep began.     *)
RecordsKept ==
    [][\A s \in Sessions : \A r \in log[s] \ log'[s] :
           \E j \in Sweeps : Sweeping(j) /\ (Selects(j, r) \/ r.file \in added[j])]_vars

(* Nothing lies in a directory that no log knows, but for the file being   *)
(* placed, what a sweep dropped from the log, and what a failure cut off   *)
(* from its log entry.                                                     *)
FilesFindable ==
    faults = 0 => \A p \in {q \in Places : disk[q] # None} :
        LET u == disk[p][1] IN
        \/ job[u].pc = "moved" /\ job[u].place = p
        \/ \E r \in log[Into[u]] : r.place = p /\ r.file = disk[p]
        \/ disk[p] \in lost

(* A sweep at work is still to delete the notes about what it erased here. *)
Pending(p) == \E j \in Sweeps : p \in sweep[j].keys

(* An erasure that comes to its end has erased: no session that is still   *)
(* registered has a record of the pupil, and, unless something failed, no  *)
(* file of his is left in its directory, nor a note about one, but for     *)
(* what was handed in, or put back by a retention job, since the erasure   *)
(* began and what no log knew.  If it erased anything, the erasure log     *)
(* knows.                                                                  *)
ErasureComplete ==
    [][\A who \in Pupils :
           (sweep["erasure"].who = who /\ Finish("erasure")) =>
               /\ sweep["erasure"].keys # {} => who \in accounted'
               /\ \A s \in Registered : \A r \in log'[s] :
                      r.place.pupil = who => r.file \in added["erasure"]
               /\ faults = 0 => \A f \in Files :
                      \/ Pupil[f[1]] # who \/ Into[f[1]] \notin Registered
                      \/ f \in added["erasure"] \cup lost
                      \/ job[f[1]].pc = "moved" /\ job[f[1]].next = f[2]
                      \/ \A p \in Places : disk'[p] # f /\ (notes'[p] = f => Pending(p)')]_vars

(* What was written about one file is never shown with another that got    *)
(* its name later, once the sweep that erased it is done.                  *)
NotesBelong ==
    faults = 0 => \A p \in Places :
        notes[p] # None => disk[p] \in {notes[p], None} \/ Pending(p)

(* Every upload gets its answer: a batch that fails does not leave those   *)
(* behind it in the queue waiting.                                         *)
Answered == \A u \in Uploads : Busy(u) ~> ~Busy(u)

(* What is old goes, whatever failed on the way, as long as its session is *)
(* registered.                                                             *)
OldDataGoes == <>[](\A s \in Registered : \A r \in log[s] : r.at = clock)
=============================================================================
