----------------------------- MODULE SyncEngine -----------------------------
(***************************************************************************)
(* runSync on one course: a local directory, a remote store addressed by   *)
(* path (as IServ's WebDAV is: an id is the url), the manifest that one    *)
(* run leaves for the next, and the users who edit either side.            *)
(*                                                                         *)
(* One action per await of the engine that other actors can come between.  *)
(* The clock counts user moves.  A write at move n makes version n; Second *)
(* maps the clock to the whole seconds mtimes and timestamps are kept in.  *)
(* The ghost variable live holds the versions no user has replaced or      *)
(* deleted: the ones the engine must not lose.  It does lose one when a    *)
(* conflict takes the name of a copy that was discarded and that the       *)
(* server or the manifest still knows (see SetAside and CopiesKept): the   *)
(* ghosts retaken and atRisk say where, and the other properties except    *)
(* just that.                                                              *)
(***************************************************************************)
EXTENDS SyncPlan, FiniteSets, Sequences

CONSTANTS
    Keys,           \* course-relative file paths
    Dirs,           \* course-relative folder paths
    Root,           \* the course directory itself
    Parent,         \* Parent[x]: the folder (or Root) holding a file or folder
    Above,          \* Above[x]: every folder on the way from Root to x
    Copies,         \* Copies[k]: "<k>.conflicted", "<k>.conflicted-2", ...
    UserKeys,       \* the files users write and delete by themselves
    Second,         \* Second[n]: the second in which the n-th user move happens
    MaxMoves,       \* bound on user moves
    MaxFaults,      \* bound on failures
    Faults,         \* the kinds of failure that may happen
    Busy,           \* the sides whose users may act in the middle of a run
    CreateDenied,   \* remote folders (or Root) nothing can be created in
    DeleteDenied    \* remote folders that cannot be deleted

Sides == {"local", "remote"}
FaultKinds == {"abort", "call", "download", "manifest"}
Moves == 0 .. MaxMoves
Versions == Moves              \* version 0 is a download cut short

ASSUME BoundsAssumption == MaxMoves \in Nat /\ MaxFaults \in Nat
ASSUME KeysAssumption ==
    /\ UserKeys \subseteq Keys
    /\ Copies \in [Keys -> Seq(Keys)]
    /\ \A k \in Keys : \A i \in DOMAIN Copies[k] : Above[Copies[k][i]] = Above[k]
ASSUME DirsAssumption ==
    /\ Root \notin Dirs /\ Keys \cap Dirs = {} /\ DeleteDenied \subseteq Dirs /\ CreateDenied \subseteq Dirs \cup {Root}
    /\ Parent \in [Keys \cup Dirs -> Dirs \cup {Root}]
    /\ Above \in [Keys \cup Dirs -> SUBSET Dirs]
    /\ \A x \in Keys \cup Dirs :
           /\ Above[x] = IF Parent[x] = Root THEN {} ELSE {Parent[x]} \cup Above[Parent[x]]
           /\ \A d \in Above[x] : d # x /\ Above[d] \subseteq Above[x]
ASSUME DepthAssumption == \A x \in Keys \cup Dirs : IsFiniteSet(Above[x])
ASSUME DataAssumption ==
    /\ Size \in [Versions -> Nat] /\ Second \in [Moves -> Nat]
    /\ \A m, n \in Moves : m <= n => Second[m] <= Second[n]
ASSUME FaultAssumption == Faults \subseteq FaultKinds /\ Busy \subseteq Sides

VARIABLES
    local, localDirs,     \* the course directory: files and folders
    remote, remoteDirs,   \* the remote store: files and folders
    manifest,             \* manifest.json
    torn,                 \* manifest.json was cut short and no longer parses
    run,                  \* the running runSync: where it is and its variables
    result,               \* how the last run ended
    clock,                \* user moves so far
    faults,               \* failures so far
    live,                 \* ghost: versions no user replaced or deleted
    disturbed,            \* ghost: since the last run started a user acted or a call failed
    retaken, atRisk       \* ghosts: names of discarded copies a conflict has taken again, and
                          \* the versions that met under such a name

stores == <<local, localDirs, remote, remoteDirs>>
disk == <<manifest, torn>>
users == <<clock, live, disturbed, retaken, atRisk>>
vars == <<stores, disk, run, result, users, faults>>

LocalFile == [content : Versions, mtime : Nat]
RemoteFile == [content : Versions, timestamp : Nat]
Entry == [syncedAt : Nat, size : Nat, timestamp : Nat]
Manifest == [files : [Keys -> Entry \cup {None}], dirs : SUBSET Dirs]

ASSUME NoneAssumption == None \notin LocalFile \cup RemoteFile \cup Entry \cup Keys

NoFiles == [k \in Keys |-> None]
EmptyManifest == [files |-> NoFiles, dirs |-> {}]

Places == {"idle", "listed", "folders", "files", "put", "fetch", "push", "record", "cleanup"}

IdleRun ==
    [pc |-> "idle",
     files |-> NoFiles, dirs |-> {},              \* tree.files, folderMap
     base |-> EmptyManifest,                      \* rawManifest
     seen |-> {}, blocked |-> {},                 \* localFolderKeys, blockedFolders
     dropLocal |-> {}, dropRemote |-> {},         \* deleteLocalFolders, deleteRemoteFolders
     plan |-> NoFiles, todo |-> {},               \* operations; what the current loop has left
     cur |-> None, copy |-> None,                 \* op.key, the conflicted copy
     saved |-> EmptyManifest]                     \* newManifest and folderManifest

Run ==
    [pc : Places,
     files : [Keys -> RemoteFile \cup {None}], dirs : SUBSET Dirs,
     base : Manifest, seen : SUBSET Dirs, blocked : SUBSET Dirs,
     dropLocal : SUBSET Dirs, dropRemote : SUBSET Dirs,
     plan : [Keys -> OpTypes \cup {None}], todo : SUBSET (Keys \cup Dirs),
     cur : Keys \cup {None}, copy : Keys \cup {None}, saved : Manifest]

TypeOK ==
    /\ local \in [Keys -> LocalFile \cup {None}] /\ localDirs \in SUBSET Dirs
    /\ remote \in [Keys -> RemoteFile \cup {None}] /\ remoteDirs \in SUBSET Dirs
    /\ manifest \in Manifest /\ torn \in BOOLEAN
    /\ run \in Run /\ result \in {"none", "ok", "error"}
    /\ clock \in Moves /\ faults \in 0 .. MaxFaults
    /\ live \in SUBSET Versions /\ disturbed \in BOOLEAN
    /\ retaken \in SUBSET Keys /\ atRisk \in SUBSET Versions

Init ==
    /\ local = NoFiles /\ localDirs = {}
    /\ remote = NoFiles /\ remoteDirs = {}
    /\ manifest = EmptyManifest /\ torn = FALSE
    /\ run = IdleRun /\ result = "none"
    /\ clock = 0 /\ faults = 0 /\ live = {} /\ disturbed = FALSE
    /\ retaken = {} /\ atRisk = {}

now == Second[clock]
Under(d) == {x \in Keys \cup Dirs : d \in Above[x]}
Without(files, gone) == [k \in Keys |-> IF k \in gone THEN None ELSE files[k]]
Held(files) == {files[k].content : k \in {j \in Keys : files[j] # None}}

-----------------------------------------------------------------------------
(* The users: a teacher at the course directory, others at the server.     *)

Move(side) ==
    /\ clock < MaxMoves
    /\ run.pc = "idle" \/ side \in Busy
    /\ clock' = clock + 1 /\ disturbed' = TRUE
    /\ UNCHANGED <<disk, run, result, faults, retaken, atRisk>>

(* Versions that other files hold at both ends. *)
KeptBeside(gone) ==
    {v \in Versions : \E k \in Keys \ gone :
        local[k] # None /\ remote[k] # None /\ local[k].content = v /\ remote[k].content = v}

(* Who replaces or deletes files gives up the versions in them, but for a  *)
(* version that stays behind in another file, in step at both ends.        *)
GivenUp(files, gone) == Held([k \in Keys |-> IF k \in gone THEN files[k] ELSE None]) \ KeptBeside(gone)

WriteLocal(k) ==
    /\ Move("local")
    /\ local' = [local EXCEPT ![k] = [content |-> clock', mtime |-> Second[clock']]]
    /\ localDirs' = localDirs \cup Above[k]
    /\ live' = (live \ GivenUp(local, {k})) \cup {clock'}
    /\ UNCHANGED <<remote, remoteDirs>>

WriteRemote(k) ==
    /\ Move("remote")
    /\ remote' = [remote EXCEPT ![k] = [content |-> clock', timestamp |-> Second[clock']]]
    /\ remoteDirs' = remoteDirs \cup Above[k]
    /\ live' = (live \ GivenUp(remote, {k})) \cup {clock'}
    /\ UNCHANGED <<local, localDirs>>

(* Delete one file, or a folder and everything in it. *)
DeleteLocally(gone) ==
    /\ Move("local")
    /\ local' = Without(local, gone) /\ localDirs' = localDirs \ gone
    /\ <<local, localDirs>>' # <<local, localDirs>>
    /\ live' = live \ GivenUp(local, gone)
    /\ UNCHANGED <<remote, remoteDirs>>

DeleteRemotely(gone) ==
    /\ Move("remote")
    /\ remote' = Without(remote, gone) /\ remoteDirs' = remoteDirs \ gone
    /\ <<remote, remoteDirs>>' # <<remote, remoteDirs>>
    /\ live' = live \ GivenUp(remote, gone)
    /\ UNCHANGED <<local, localDirs>>

(* DELETE /api/sync-conflicts: the teacher discards a conflicted copy. *)
DiscardCopy(k) == \E i \in DOMAIN Copies[k] : DeleteLocally({Copies[k][i]})

User ==
    \/ \E k \in UserKeys :
        WriteLocal(k) \/ WriteRemote(k) \/ DeleteLocally({k}) \/ DeleteRemotely({k})
    \/ \E k \in Keys : DiscardCopy(k)
    \/ \E d \in Dirs : DeleteLocally({d} \cup Under(d)) \/ DeleteRemotely({d} \cup Under(d))

-----------------------------------------------------------------------------
(* The engine.  FaultStep(kind) marks a step that is a failure.            *)

FaultStep(kind) == kind \in Faults /\ faults < MaxFaults /\ faults' = faults + 1

(* A provider call fails and the engine carries on without it. *)
CallFails == FaultStep("call") /\ disturbed' = TRUE /\ UNCHANGED <<clock, live, retaken, atRisk>>

At(pc) == run.pc = pc
EngineStep == UNCHANGED users
Fail == run' = IdleRun /\ result' = "error"

(* listTree: the remote side as this run will see it. *)
ListTree ==
    /\ At("idle")
    /\ run' = [IdleRun EXCEPT !.pc = "listed", !.files = remote, !.dirs = remoteDirs]
    /\ disturbed' = FALSE
    /\ UNCHANGED <<stores, disk, result, clock, live, retaken, atRisk, faults>>

(* readManifest and collectLocalFolders. *)
ReadManifest ==
    /\ At("listed") /\ ~torn
    /\ run' = [run EXCEPT !.pc = "folders", !.base = manifest, !.seen = localDirs,
                          !.todo = run.dirs \cup localDirs \cup manifest.dirs]
    /\ EngineStep /\ UNCHANGED <<stores, disk, result, faults>>

(* The creation pass: one folder at a time, shallowest first. *)
Shallowest(d) ==
    /\ At("folders") /\ d \in run.todo
    /\ \A e \in run.todo : Cardinality(Above[d]) <= Cardinality(Above[e])

(* On both ends, or on neither: keep the entry, or drop it. *)
KeepFolder(d) ==
    /\ Shallowest(d) /\ (d \in run.seen <=> d \in run.dirs)
    /\ run' = [run EXCEPT !.todo = @ \ {d},
                          !.saved.dirs = IF d \in run.seen THEN @ \cup {d} ELSE @]
    /\ EngineStep /\ UNCHANGED <<stores, disk, result, faults>>

SwapsEnds(d) ==                 \* mutant of FolderGone: removed on the end that has removed it
    /\ Shallowest(d) /\ ~(d \in run.seen <=> d \in run.dirs) /\ d \in run.base.dirs
    /\ run' = [run EXCEPT !.todo = @ \ {d},
                          !.dropLocal = IF d \in run.dirs THEN @ \cup {d} ELSE @,
                          !.dropRemote = IF d \in run.seen THEN @ \cup {d} ELSE @]
    /\ EngineStep /\ UNCHANGED <<stores, disk, result, faults>>

(* It was on both ends and one end removed it: remove it on the other. *)
FolderGone(d) ==
    /\ Shallowest(d) /\ ~(d \in run.seen <=> d \in run.dirs) /\ d \in run.base.dirs
    /\ run' = [run EXCEPT !.todo = @ \ {d},
                          !.dropLocal = IF d \in run.seen THEN @ \cup {d} ELSE @,
                          !.dropRemote = IF d \in run.dirs THEN @ \cup {d} ELSE @]
    /\ EngineStep /\ UNCHANGED <<stores, disk, result, faults>>

(* New on the remote: mkdir -p. *)
MakeLocalFolder(d) ==
    /\ Shallowest(d) /\ d \in run.dirs \ (run.seen \cup run.base.dirs)
    /\ localDirs' = localDirs \cup {d} \cup Above[d]
    /\ run' = [run EXCEPT !.todo = @ \ {d}, !.saved.dirs = @ \cup {d}]
    /\ EngineStep /\ UNCHANGED <<local, remote, remoteDirs, disk, result, faults>>

NewLocalFolder(d) == Shallowest(d) /\ d \in run.seen \ (run.dirs \cup run.base.dirs)

(* folderMap knows the parent, and the server lets us create in it. *)
MayCreate(d) ==
    /\ Parent[d] \in (run.dirs \cup {Root}) \ run.blocked
    /\ Parent[d] \notin CreateDenied

MakeRemoteFolder(d) ==
    /\ NewLocalFolder(d) /\ MayCreate(d)
    /\ d \notin remoteDirs /\ Parent[d] \in remoteDirs \cup {Root}
    /\ remoteDirs' = remoteDirs \cup {d}
    /\ run' = [run EXCEPT !.todo = @ \ {d}, !.dirs = @ \cup {d}, !.saved.dirs = @ \cup {d}]
    /\ EngineStep /\ UNCHANGED <<local, localDirs, remote, disk, result, faults>>

BlockFolder(d) ==
    /\ NewLocalFolder(d)
    /\ run' = [run EXCEPT !.todo = @ \ {d}, !.blocked = @ \cup {d}]
    /\ \/ /\ ~MayCreate(d) \/ d \in remoteDirs \/ Parent[d] \notin remoteDirs \cup {Root}
          /\ EngineStep /\ UNCHANGED <<remoteDirs, faults>>
       \/ /\ MayCreate(d) /\ Parent[d] \in remoteDirs \cup {Root}
          /\ CallFails                  \* the answer is lost, or it never got there
          /\ remoteDirs' \in {remoteDirs, remoteDirs \cup {d}}
    /\ UNCHANGED <<local, localDirs, remote, disk, result>>

(* walkDir, stat and computeSyncPlan; no file of a course is called manifest.json. *)
Plan ==
    LET known == {k \in Keys : ~(local[k] = None /\ run.files[k] = None /\ run.base.files[k] = None)}
    IN  /\ At("folders") /\ run.todo = {}
        /\ run' = [run EXCEPT !.pc = "files", !.todo = known,
                     !.plan = [k \in Keys |-> IF k \in known
                                 THEN Decide(local[k], run.files[k], run.base.files[k])
                                 ELSE None]]
        /\ EngineStep /\ UNCHANGED <<stores, disk, result, faults>>

(* The operations run in the order the keys entered the plan: listed files *)
(* first, then files only found locally, then what only the manifest knew. *)
Rank(k) ==
    IF run.files[k] # None THEN 0 ELSE IF run.plan[k] = "dropBaseline" THEN 2 ELSE 1

Op(k, type) ==
    /\ At("files") /\ k \in run.todo /\ run.plan[k] = type
    /\ \A j \in run.todo : Rank(k) <= Rank(j)

(* folderId is set: the file or its parent folder is known to the server. *)
HasFolder(k) ==
    run.files[k] # None \/ run.base.files[k] # None \/ Parent[k] \in run.dirs \cup {Root}

CanPut(k) ==
    /\ local[k] # None
    /\ Parent[k] \in remoteDirs \cup {Root} /\ Parent[k] \notin CreateDenied

(* newManifest.push(entry) and on to the next operation. *)
Finish(k, entry) ==
    run' = [run EXCEPT !.pc = "files", !.todo = @ \ {k}, !.cur = None, !.copy = None,
                       !.saved.files[k] = entry]

Noop(k) ==
    /\ Op(k, "noop") /\ Finish(k, run.base.files[k])
    /\ EngineStep /\ UNCHANGED <<stores, disk, result, faults>>

DropBaseline(k) ==
    /\ Op(k, "dropBaseline") /\ run' = [run EXCEPT !.todo = @ \ {k}]
    /\ EngineStep /\ UNCHANGED <<stores, disk, result, faults>>

Adopt(k) ==
    /\ Op(k, "adopt") /\ local[k] # None
    /\ Finish(k, BaselineEntry(local[k], run.files[k].timestamp))
    /\ EngineStep /\ UNCHANGED <<stores, disk, result, faults>>

DeleteLocal(k) ==
    /\ Op(k, "deleteLocal")
    /\ local' = [local EXCEPT ![k] = None] /\ run' = [run EXCEPT !.todo = @ \ {k}]
    /\ EngineStep /\ UNCHANGED <<localDirs, remote, remoteDirs, disk, result, faults>>

DeleteRemote(k) ==
    /\ Op(k, "deleteRemote") /\ remote[k] # None
    /\ remote' = [remote EXCEPT ![k] = None] /\ run' = [run EXCEPT !.todo = @ \ {k}]
    /\ EngineStep /\ UNCHANGED <<local, localDirs, remoteDirs, disk, result, faults>>

(* Upload, first part: nowhere to put it.  IServ's canWriteFile is always  *)
(* true: a server that refuses to replace a file fails the call (Abort).   *)
SkipUpload(k) ==
    /\ Op(k, "upload") /\ ~HasFolder(k)
    /\ IF run.base.files[k] = None
       THEN run' = [run EXCEPT !.todo = @ \ {k}]
       ELSE Finish(k, run.base.files[k])
    /\ EngineStep /\ UNCHANGED <<stores, disk, result, faults>>

(* The old remote file goes before the new one is uploaded. *)
RemoveOld(k) ==
    /\ Op(k, "upload") /\ run.files[k] # None /\ remote[k] # None
    /\ remote' = [remote EXCEPT ![k] = None]
    /\ run' = [run EXCEPT !.pc = "put", !.cur = k]
    /\ EngineStep /\ UNCHANGED <<local, localDirs, remoteDirs, disk, result, faults>>

Uploading(k) ==
    \/ At("put") /\ run.cur = k
    \/ Op(k, "upload") /\ HasFolder(k) /\ run.files[k] = None

PutFile(k) == remote' = [remote EXCEPT ![k] = [content |-> local[k].content, timestamp |-> now]]

Upload(k) ==
    /\ Uploading(k) /\ CanPut(k) /\ PutFile(k)
    /\ run' = [run EXCEPT !.pc = "record", !.cur = k]
    /\ EngineStep /\ UNCHANGED <<local, localDirs, remoteDirs, disk, result, faults>>

(* uniqueConflictedPath looks at the disk only. *)
FreeCopy(k) == {i \in DOMAIN Copies[k] : \A j \in 1 .. i : local[Copies[k][j]] = None <=> j = i}

(* Ghosts only: the name is free on the disk, but not elsewhere. *)
Retake(k, c) ==
    IF remote[c] = None /\ manifest.files[c] = None
    THEN UNCHANGED <<retaken, atRisk>>
    ELSE /\ retaken' = retaken \cup {c}
         /\ atRisk' = atRisk \cup {local[k].content}
                            \cup Held([NoFiles EXCEPT ![c] = remote[c]])

CopyAside(k) ==                 \* mutant of SetAside: copyFile for rename
    /\ Op(k, "conflict") /\ local[k] # None
    /\ \E i \in FreeCopy(k) :
        LET c == Copies[k][i] IN
        /\ local' = [local EXCEPT ![c] = local[k]]
        /\ run' = [run EXCEPT !.pc = "fetch", !.cur = k, !.copy = c]
        /\ Retake(k, c)
    /\ UNCHANGED <<localDirs, remote, remoteDirs, disk, result, clock, live, disturbed, faults>>

SetAside(k) ==
    /\ Op(k, "conflict") /\ local[k] # None
    /\ \E i \in FreeCopy(k) :
        LET c == Copies[k][i] IN
        /\ local' = [local EXCEPT ![k] = None, ![c] = local[k]]
        /\ run' = [run EXCEPT !.pc = "fetch", !.cur = k, !.copy = c]
        /\ Retake(k, c)
    /\ UNCHANGED <<localDirs, remote, remoteDirs, disk, result, clock, live, disturbed, faults>>

(* downloadFile, for a download and for the remote half of a conflict. *)
Fetching(k) == (At("fetch") /\ run.cur = k) \/ Op(k, "download")

Download(k) ==
    /\ Fetching(k) /\ remote[k] # None
    /\ local' = [local EXCEPT ![k] = [content |-> remote[k].content, mtime |-> now]]
    /\ localDirs' = localDirs \cup Above[k]
    /\ run' = [run EXCEPT !.pc = IF At("fetch") THEN "push" ELSE "record", !.cur = k]
    /\ EngineStep /\ UNCHANGED <<remote, remoteDirs, disk, result, faults>>

PushCopy ==
    /\ At("push") /\ CanPut(run.copy) /\ PutFile(run.copy)
    /\ run' = [run EXCEPT !.pc = "record"]
    /\ EngineStep /\ UNCHANGED <<local, localDirs, remoteDirs, disk, result, faults>>

(* baselineEntry: the size and mtime are read after the transfer.  An      *)
(* upload's timestamp is what the server shows now, a download's the one   *)
(* that was listed.                                                        *)
FileToStat == {run.cur, run.copy} \ {None}
FileToShow == IF run.copy # None THEN {run.copy}
              ELSE IF run.plan[run.cur] = "upload" THEN {run.cur} ELSE {}

Record ==
    /\ At("record")
    /\ \A k \in FileToStat : local[k] # None
    /\ \A k \in FileToShow : remote[k] # None
    /\ run' = [run EXCEPT !.pc = "files", !.todo = @ \ {run.cur}, !.cur = None, !.copy = None,
                 !.saved.files = [k \in Keys |->
                     IF k \in FileToStat
                     THEN BaselineEntry(local[k], IF k \in FileToShow THEN remote[k].timestamp
                                                  ELSE run.files[k].timestamp)
                     ELSE @[k]]]
    /\ EngineStep /\ UNCHANGED <<stores, disk, result, faults>>

(* Folder deletions, deepest first, the local ones before the remote ones, *)
(* and only of folders with nothing left in them.                          *)
Deepest(d, S) == d \in S /\ \A e \in S : Cardinality(Above[e]) <= Cardinality(Above[d])

Cleanup == At("files") /\ run.todo = {} /\ run' = [run EXCEPT !.pc = "cleanup"]
           /\ EngineStep /\ UNCHANGED <<stores, disk, result, faults>>

HoldsNoFile(d, files, dirs) == \A k \in Under(d) \cap Keys : files[k] = None   \* mutant of Empty
Empty(d, files, dirs) ==
    \A x \in Under(d) : x \notin dirs /\ (x \in Keys => files[x] = None)

DropLocalFolder(d) ==
    /\ At("cleanup") /\ Deepest(d, run.dropLocal)
    /\ IF Empty(d, local, localDirs)
       THEN localDirs' = localDirs \ {d} /\ run' = [run EXCEPT !.dropLocal = @ \ {d}]
       ELSE /\ run' = [run EXCEPT !.dropLocal = @ \ {d}, !.saved.dirs = @ \cup {d}]
            /\ UNCHANGED localDirs
    /\ EngineStep /\ UNCHANGED <<local, remote, remoteDirs, disk, result, faults>>

DropRemoteFolder(d) ==
    /\ At("cleanup") /\ run.dropLocal = {} /\ Deepest(d, run.dropRemote)
    /\ d \in remoteDirs /\ Empty(d, remote, remoteDirs) /\ d \notin DeleteDenied
    /\ remoteDirs' = remoteDirs \ {d}
    /\ run' = [run EXCEPT !.dropRemote = @ \ {d}]
    /\ EngineStep /\ UNCHANGED <<local, localDirs, remote, disk, result, faults>>

KeepRemoteFolder(d) ==
    /\ At("cleanup") /\ run.dropLocal = {} /\ Deepest(d, run.dropRemote)
    /\ \/ /\ d \notin remoteDirs \/ ~Empty(d, remote, remoteDirs) \/ d \in DeleteDenied
          /\ EngineStep /\ UNCHANGED <<remoteDirs, faults>>
       \/ /\ CallFails                  \* the answer is lost, or it never got there
          /\ \/ UNCHANGED remoteDirs
             \/ /\ Empty(d, remote, remoteDirs) /\ d \notin DeleteDenied
                /\ remoteDirs' = remoteDirs \ {d}
    /\ run' = [run EXCEPT !.dropRemote = @ \ {d}, !.saved.dirs = @ \cup {d}]
    /\ UNCHANGED <<local, localDirs, remote, disk, result>>

SavePoint == At("cleanup") /\ run.dropLocal = {} /\ run.dropRemote = {}

WriteManifest ==
    /\ SavePoint
    /\ manifest' = run.saved /\ run' = IdleRun /\ result' = "ok"
    /\ EngineStep /\ UNCHANGED <<stores, torn, faults>>

(* An exception nobody catches: a server that refuses, a file that is      *)
(* gone, a manifest that does not parse.  The run ends with nothing saved. *)
Refused ==
    \/ At("listed") /\ torn
    \/ \E k \in Keys :
        \/ Op(k, "adopt") /\ local[k] = None
        \/ Op(k, "deleteRemote") /\ remote[k] = None
        \/ Op(k, "upload") /\ run.files[k] # None /\ remote[k] = None
        \/ Uploading(k) /\ ~CanPut(k)
        \/ Op(k, "conflict") /\ local[k] = None
        \/ Fetching(k) /\ remote[k] = None
    \/ At("push") /\ ~CanPut(run.copy)
    \/ At("record") /\ \/ \E k \in FileToStat : local[k] = None
                       \/ \E k \in FileToShow : remote[k] = None

Throw == Refused /\ Fail /\ EngineStep /\ UNCHANGED <<stores, disk, faults>>

(* Failures from outside: a call that fails or a crash, at any await; one  *)
(* in the middle of writing a downloaded file; one in the middle of        *)
(* writing manifest.json, which is truncated first.                        *)
Abort ==
    /\ ~At("idle") /\ FaultStep("abort") /\ Fail
    /\ EngineStep /\ UNCHANGED <<stores, disk>>

CutDownload(k) ==
    /\ Fetching(k) /\ remote[k] # None /\ FaultStep("download") /\ Fail
    /\ local' = [local EXCEPT ![k] = [content |-> 0, mtime |-> now]]
    /\ localDirs' = localDirs \cup Above[k]
    /\ EngineStep /\ UNCHANGED <<remote, remoteDirs, disk>>

CutManifest ==
    /\ SavePoint /\ FaultStep("manifest") /\ Fail /\ torn' = TRUE
    /\ EngineStep /\ UNCHANGED <<stores, manifest>>

Folders == \E d \in Dirs :
    \/ KeepFolder(d) \/ FolderGone(d) \/ MakeLocalFolder(d) \/ MakeRemoteFolder(d)
    \/ BlockFolder(d) \/ DropLocalFolder(d) \/ DropRemoteFolder(d) \/ KeepRemoteFolder(d)

Files == \E k \in Keys :
    \/ Noop(k) \/ DropBaseline(k) \/ Adopt(k) \/ DeleteLocal(k) \/ DeleteRemote(k)
    \/ SkipUpload(k) \/ RemoveOld(k) \/ Upload(k) \/ SetAside(k) \/ Download(k)

Engine ==
    \/ ListTree \/ ReadManifest \/ Folders \/ Plan \/ Files \/ PushCopy \/ Record
    \/ Cleanup \/ WriteManifest \/ Throw

Failure == Abort \/ CutManifest \/ \E k \in Keys : CutDownload(k)

Next == User \/ Engine \/ Failure

Spec == Init /\ [][Next]_vars

(* The scheduler starts the next run again and again and a run is never    *)
(* left standing; users and failures owe nobody a step.                    *)
FairSpec == Spec /\ WF_vars(Engine)

-----------------------------------------------------------------------------
(* Properties.                                                             *)

Clean == At("idle") /\ result = "ok" /\ ~disturbed

(* Both versions of a conflict, and every other version that no user       *)
(* replaced or deleted, are somewhere, locally or remotely, at any time.    *)
CopiesKept == live \subseteq Held(local) \cup Held(remote)

(* A live version is always somewhere, whatever the run was doing when it  *)
(* failed: the order of deleteFile and uploadFile, of rename and           *)
(* downloadFile, loses nothing.  The exception is a retaken name.          *)
NoVersionLost == live \ atRisk \subseteq Held(local) \cup Held(remote)

(* The engine implements the two replicas of module Replicas: no step of a *)
(* run, finished or cut short, invents a version or drops a live one.      *)
Promise == INSTANCE Replicas WITH
    Versions <- 1 .. MaxMoves, Blank <- 0, here <- Held(local), there <- Held(remote),
    void <- atRisk
PromiseKept == Promise!Spec

(* Conflicts do not breed: the disk holds one file per version, plus one   *)
(* more for every failure there has been, but for the versions that met    *)
(* under a retaken name.                                                   *)
FewCopies ==
    \A v \in (1 .. clock) \ atRisk :
        Cardinality({k \in Keys : local[k] # None /\ local[k].content = v}) <= 1 + faults

(* What the manifest calls unchanged on both ends really is the same file  *)
(* on both ends, so no later run will replace one by the other unasked.    *)
NoFalseSync ==
    At("idle") => \A k \in Keys :
        (/\ manifest.files[k] # None /\ local[k] # None /\ remote[k] # None
         /\ ~LocalChanged(local[k], manifest.files[k])
         /\ ~RemoteChanged(remote[k], manifest.files[k]))
        => local[k].content = remote[k].content

(* A file the remote has no folder for stays where it is. *)
Stranded(k) == remote[k] = None /\ Parent[k] \notin remoteDirs \cup {Root}

Agree(k) ==
    \/ local[k] = None /\ remote[k] = None
    \/ local[k] # None /\ remote[k] # None /\ local[k].content = remote[k].content

(* A run that succeeds while no user acts leaves both ends equal, file by  *)
(* file, and leaves the next run nothing to do but carry entries forward.  *)
(* A retaken name may take one more run.                                   *)
FixedPoint ==
    Clean => \A k \in Keys \ retaken :
        \/ Stranded(k)
        \/ /\ Agree(k)
           /\ local[k] # None => /\ manifest.files[k] # None
                                 /\ Decide(local[k], remote[k], manifest.files[k]) = "noop"

(* A file or folder is never without the folders it lies in, on either     *)
(* end and at every step: folders are made before what goes into them and  *)
(* removed after it.                                                       *)
TreesClosed ==
    /\ \A k \in Keys : (local[k] # None => Above[k] \subseteq localDirs)
                     /\ (remote[k] # None => Above[k] \subseteq remoteDirs)
    /\ \A d \in localDirs : Above[d] \subseteq localDirs
    /\ \A d \in remoteDirs : Above[d] \subseteq remoteDirs

(* After such a run the folders agree as well, but for a local folder that *)
(* holds something the remote has no folder for (the engine never removes  *)
(* a folder that still holds anything), one it may not make on the remote,  *)
(* and a remote one it may not delete.                                     *)
FoldersSettle ==
    Clean =>
        /\ \A k \in Keys \ retaken : Stranded(k) \/ Agree(k)
        /\ \A d \in localDirs \ remoteDirs :
               \/ ~Empty(d, local, localDirs)
               \/ Parent[d] \notin (remoteDirs \cup {Root}) \ CreateDenied
        /\ \A d \in remoteDirs \ localDirs : ({d} \cup Under(d)) \cap DeleteDenied # {}

(* A version its user has deleted or replaced, and that has left the local *)
(* disk, never comes back to it as long as nothing fails: what is erased   *)
(* here stays erased.                                                      *)
ErasedStaysErased ==
    [][faults = 0 => \A v \in 1 .. clock :
           v \notin live \cup atRisk \cup Held(local) => v \notin Held(local')]_vars

(* A run fails only when something outside it fails. *)
RunsSucceed == faults = 0 => result # "error"

(* Once the users stop, both ends end up holding the same files and stay so. *)
Converges == <>[](\A k \in Keys : Agree(k))

=============================================================================
