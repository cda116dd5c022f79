-------------------------- MODULE SyncEngineProofs --------------------------
(***************************************************************************)
(* What holds of the sync engine for every tree of folders, every number   *)
(* of files, edits and failures, and with users acting in the middle of a  *)
(* run: its state is well formed, and a file is never without its folders. *)
(***************************************************************************)
EXTENDS SyncEngine, TLAPS

-----------------------------------------------------------------------------
(* The planner.                                                            *)

(* The planner answers with one of its eight operations. *)
LEMMA DecideType ==
    ASSUME NEW l, NEW r, NEW b
    PROVE  Decide(l, r, b) \in OpTypes
<1>1. LocalSide(l, b) \in {"absent", "same", "changed"} BY DEF LocalSide
<1>2. RemoteSide(r, b) \in {"absent", "same", "changed"} BY DEF RemoteSide
<1>3. NewFile(l, r) \in OpTypes BY DEF NewFile, OpTypes
<1>4. KnownFile[LocalSide(l, b)][RemoteSide(r, b)] \in OpTypes
    BY <1>1, <1>2 DEF KnownFile, OpTypes
<1> QED BY <1>3, <1>4 DEF Decide

(* It fetches, adopts or sets aside only what the server has listed. *)
LEMMA DecideNeedsRemote ==
    ASSUME NEW l, NEW r, NEW b, ~(l = None /\ r = None /\ b = None),
           Decide(l, r, b) \in {"download", "adopt", "conflict"}
    PROVE  r # None
<1> SUFFICES ASSUME r = None PROVE FALSE OBVIOUS
<1>1. CASE b = None
    <2>1. Decide(l, r, b) = "upload" BY <1>1 DEF Decide, NewFile
    <2> QED BY <2>1
<1>2. CASE b # None
    <2>1. LocalSide(l, b) \in {"absent", "same", "changed"} BY DEF LocalSide
    <2>2. RemoteSide(r, b) = "absent" BY DEF RemoteSide
    <2>3. KnownFile[LocalSide(l, b)]["absent"] \in {"dropBaseline", "deleteLocal", "upload"}
        BY <2>1 DEF KnownFile
    <2> QED BY <1>2, <2>2, <2>3 DEF Decide
<1> QED BY <1>1, <1>2

-----------------------------------------------------------------------------
(* The running run.                                                        *)

(* What the variables of a run have to do with each other: an operation    *)
(* that needs the listed file has one, and the operation in progress knows *)
(* its file and, once it has set one aside, its conflicted copy.           *)
RunShape ==
    /\ run.pc \in {"files", "put", "fetch", "push", "record"} =>
           \A k \in run.todo \cap Keys :
               run.plan[k] \in {"download", "adopt", "conflict"} => run.files[k] # None
    /\ run.pc \in {"put", "fetch", "push", "record"} => run.cur \in Keys
    /\ run.pc = "put" => run.plan[run.cur] = "upload"
    /\ run.pc \in {"fetch", "push"} => run.copy \in Keys /\ run.files[run.cur] # None
    /\ run.pc = "record" =>
           (run.copy = None /\ run.plan[run.cur] = "upload") \/ run.files[run.cur] # None
    /\ run.pc \notin {"fetch", "push", "record"} => run.copy = None

Inv == TypeOK /\ RunShape

(* The two parts of TypeOK that steps disturb: the two trees, and the run. *)
StoreType ==
    /\ local \in [Keys -> LocalFile \cup {None}] /\ localDirs \in SUBSET Dirs
    /\ remote \in [Keys -> RemoteFile \cup {None}] /\ remoteDirs \in SUBSET Dirs
RestType ==
    /\ manifest \in Manifest /\ torn \in BOOLEAN
    /\ result \in {"none", "ok", "error"}
    /\ clock \in Moves /\ faults \in 0 .. MaxFaults
    /\ live \in SUBSET Versions /\ disturbed \in BOOLEAN
    /\ retaken \in SUBSET Keys /\ atRisk \in SUBSET Versions

LEMMA IdleRunType == IdleRun \in Run
BY DEF IdleRun, Run, NoFiles, EmptyManifest, Manifest, Places

LEMMA NowType ==
    ASSUME clock \in Moves
    PROVE  now \in Nat
BY DataAssumption DEF now

LEMMA EntryType ==
    ASSUME NEW l \in LocalFile, NEW t \in Nat
    PROVE  BaselineEntry(l, t) \in Entry
BY DataAssumption DEF LocalFile, BaselineEntry, Entry

(* Taking files away leaves a directory of the same type. *)
LEMMA WithoutType ==
    ASSUME NEW F, NEW files \in [Keys -> F \cup {None}], NEW gone
    PROVE  Without(files, gone) \in [Keys -> F \cup {None}]
BY DEF Without

LEMMA UserType ==
    ASSUME Inv, User
    PROVE  Inv'
<1> USE DEF Inv
<1>1. clock < MaxMoves /\ clock' = clock + 1 /\ disturbed' = TRUE
      /\ UNCHANGED <<disk, run, result, faults, retaken, atRisk>>
    BY DEF User, DiscardCopy, Move, WriteLocal, WriteRemote, DeleteLocally, DeleteRemotely
<1>2. clock' \in Moves /\ clock' \in Versions /\ Second[clock'] \in Nat
    BY <1>1, BoundsAssumption, DataAssumption DEF TypeOK, Moves, Versions
<1>3. RunShape'
    BY <1>1 DEF RunShape
<1>4. StoreType' /\ live' \in SUBSET Versions
    <2>1. ASSUME NEW k \in UserKeys, WriteLocal(k) PROVE <1>4
        BY <1>2, <2>1, KeysAssumption, DirsAssumption DEF TypeOK, StoreType, WriteLocal, LocalFile
    <2>2. ASSUME NEW k \in UserKeys, WriteRemote(k) PROVE <1>4
        BY <1>2, <2>2, KeysAssumption, DirsAssumption DEF TypeOK, StoreType, WriteRemote, RemoteFile
    <2>3. ASSUME NEW gone, DeleteLocally(gone) PROVE <1>4
        BY <2>3 DEF TypeOK, StoreType, DeleteLocally, Without
    <2>4. ASSUME NEW gone, DeleteRemotely(gone) PROVE <1>4
        BY <2>4 DEF TypeOK, StoreType, DeleteRemotely, Without
    <2> QED BY <2>1, <2>2, <2>3, <2>4 DEF User, DiscardCopy
<1> QED BY <1>1, <1>2, <1>3, <1>4 DEF TypeOK, StoreType, disk

(* One step of the folder passes. *)
LEMMA FoldersType ==
    ASSUME Inv, Folders
    PROVE  Inv'
<1> USE DEF Inv
<1>1. PICK d \in Dirs :
          \/ KeepFolder(d) \/ FolderGone(d) \/ MakeLocalFolder(d) \/ MakeRemoteFolder(d)
          \/ BlockFolder(d) \/ DropLocalFolder(d) \/ DropRemoteFolder(d) \/ KeepRemoteFolder(d)
    BY DEF Folders
<1> DEFINE Same == run' \in [pc : {run.pc}, files : {run.files}, dirs : SUBSET Dirs,
                             base : {run.base}, seen : {run.seen}, blocked : SUBSET Dirs,
                             dropLocal : SUBSET Dirs, dropRemote : SUBSET Dirs,
                             plan : {run.plan}, todo : SUBSET run.todo,
                             cur : {run.cur}, copy : {run.copy},
                             saved : [files : {run.saved.files}, dirs : SUBSET Dirs]]
<1>2. run \in Run /\ run.saved \in Manifest BY DEF TypeOK, Run
<1>3. Same
    <2>1. CASE KeepFolder(d) BY <1>2, <2>1 DEF KeepFolder, Run, Manifest
    <2>2. CASE FolderGone(d) BY <1>2, <2>2 DEF FolderGone, Run, Manifest
    <2>3. CASE MakeLocalFolder(d) BY <1>2, <2>3 DEF MakeLocalFolder, Run, Manifest
    <2>4. CASE MakeRemoteFolder(d) BY <1>2, <2>4 DEF MakeRemoteFolder, Run, Manifest
    <2>5. CASE BlockFolder(d) BY <1>2, <2>5 DEF BlockFolder, Run, Manifest
    <2>6. CASE DropLocalFolder(d)
        <3>1. CASE Empty(d, local, localDirs)
            BY <1>2, <2>6, <3>1 DEF DropLocalFolder, Run, Manifest
        <3>2. CASE ~Empty(d, local, localDirs)
            <4>1. run' = [run EXCEPT !.dropLocal = @ \ {d}, !.saved.dirs = @ \cup {d}]
                BY <2>6, <3>2 DEF DropLocalFolder
            <4> QED BY <1>2, <4>1 DEF Run, Manifest
        <3> QED BY <3>1, <3>2
    <2>7. CASE DropRemoteFolder(d) BY <1>2, <2>7 DEF DropRemoteFolder, Run, Manifest
    <2>8. CASE KeepRemoteFolder(d) BY <1>2, <2>8 DEF KeepRemoteFolder, Run, Manifest
    <2> QED BY <1>1, <2>1, <2>2, <2>3, <2>4, <2>5, <2>6, <2>7, <2>8
<1>4. run' \in Run BY <1>2, <1>3 DEF Run, Manifest
<1>5. RunShape' BY <1>2, <1>3 DEF RunShape, Run
<1>6. StoreType'
    BY <1>1, DirsAssumption DEF TypeOK, StoreType, KeepFolder, FolderGone, MakeLocalFolder,
        MakeRemoteFolder, BlockFolder, DropLocalFolder, DropRemoteFolder, KeepRemoteFolder, stores
<1>7. RestType'
    <2>1. UNCHANGED <<disk, result>>
        BY <1>1 DEF KeepFolder, FolderGone, MakeLocalFolder, MakeRemoteFolder, BlockFolder,
            DropLocalFolder, DropRemoteFolder, KeepRemoteFolder
    <2>2. (EngineStep /\ UNCHANGED faults) \/ CallFails
        BY <1>1 DEF KeepFolder, FolderGone, MakeLocalFolder, MakeRemoteFolder, BlockFolder,
            DropLocalFolder, DropRemoteFolder, KeepRemoteFolder
    <2>3. CASE EngineStep /\ UNCHANGED faults
        BY <2>1, <2>3 DEF TypeOK, RestType, EngineStep, users, disk
    <2>4. CASE CallFails
        BY <2>1, <2>4, BoundsAssumption DEF TypeOK, RestType, CallFails, FaultStep, disk
    <2> QED BY <2>2, <2>3, <2>4
<1> QED BY <1>4, <1>5, <1>6, <1>7 DEF TypeOK, StoreType, RestType

(* What an operation on a file finally records is an entry, or nothing. *)
LEMMA FinishType ==
    ASSUME Inv, At("files"), NEW k \in Keys, NEW entry \in Entry \cup {None}, Finish(k, entry)
    PROVE  run' \in Run /\ RunShape'
<1>1. run \in Run /\ run.saved \in Manifest BY DEF Inv, TypeOK, Run
<1>2. run' \in Run
    <2> DEFINE saved == [run.saved EXCEPT !.files[k] = entry]
    <2>1. saved \in Manifest BY <1>1 DEF Manifest
    <2>2. run' = [run EXCEPT !.pc = "files", !.todo = @ \ {k}, !.cur = None, !.copy = None, !.saved = saved]
        BY <1>1 DEF Finish, Run, Manifest
    <2> HIDE DEF saved
    <2> QED BY <1>1, <2>1, <2>2 DEF Run, Places
<1>3. run'.pc = "files" /\ run'.plan = run.plan /\ run'.files = run.files /\ run'.copy = None
      /\ run'.todo = run.todo \ {k}
    BY <1>1 DEF Finish, Run
<1> QED BY <1>2, <1>3 DEF Inv, RunShape, At

LEMMA PutType ==
    ASSUME Inv, NEW k \in Keys, CanPut(k), PutFile(k)
    PROVE  remote' \in [Keys -> RemoteFile \cup {None}]
<1>1. local[k] \in LocalFile BY DEF Inv, TypeOK, CanPut
<1>2. now \in Nat BY NowType DEF Inv, TypeOK
<1> QED BY <1>1, <1>2 DEF Inv, TypeOK, PutFile, LocalFile, RemoteFile

(* The names and versions the ghosts collect when a conflict takes a name. *)
LEMMA RetakeType ==
    ASSUME Inv, NEW k \in Keys, NEW c \in Keys, local[k] # None, Retake(k, c)
    PROVE  retaken' \in SUBSET Keys /\ atRisk' \in SUBSET Versions
<1> USE DEF Inv, TypeOK
<1>1. local[k].content \in Versions BY DEF LocalFile
<1>2. Held([NoFiles EXCEPT ![c] = remote[c]]) \subseteq Versions
    <2> DEFINE files == [NoFiles EXCEPT ![c] = remote[c]]
    <2>1. \A j \in Keys : files[j] # None => files[j] = remote[j] BY DEF NoFiles
    <2>2. \A j \in Keys : files[j] # None => files[j].content \in Versions
        BY <2>1 DEF RemoteFile
    <2> HIDE DEF files
    <2>3. Held(files) \subseteq Versions BY <2>2 DEF Held
    <2> QED BY <2>3 DEF files
<1> QED BY <1>1, <1>2 DEF Retake

(* One operation of the plan. *)
LEMMA FilesType ==
    ASSUME Inv, Files
    PROVE  Inv'
<1> USE DEF Inv
<1>1. PICK k \in Keys :
          \/ Noop(k) \/ DropBaseline(k) \/ Adopt(k) \/ DeleteLocal(k) \/ DeleteRemote(k)
          \/ SkipUpload(k) \/ RemoveOld(k) \/ Upload(k) \/ SetAside(k) \/ Download(k)
    BY DEF Files
<1>2. /\ run \in Run /\ run.saved \in Manifest /\ run.base.files[k] \in Entry \cup {None}
      /\ run.files[k] \in RemoteFile \cup {None} /\ local[k] \in LocalFile \cup {None}
    BY DEF TypeOK, Run, Manifest
<1>3. now \in Nat BY NowType DEF TypeOK
<1>4. RestType'
    <2>1. UNCHANGED <<disk, result, faults, clock, live, disturbed>>
        BY <1>1 DEF Noop, DropBaseline, Adopt, DeleteLocal, DeleteRemote, SkipUpload, RemoveOld,
            Upload, SetAside, Download, EngineStep, users
    <2>2. retaken' \in SUBSET Keys /\ atRisk' \in SUBSET Versions
        <3>1. CASE SetAside(k)
            <4>1. local[k] # None /\ \E i \in FreeCopy(k) : Retake(k, Copies[k][i])
                BY <3>1 DEF SetAside
            <4>2. \A i \in FreeCopy(k) : Copies[k][i] \in Keys
                BY KeysAssumption DEF FreeCopy
            <4> QED BY <4>1, <4>2, RetakeType
        <3>2. CASE ~SetAside(k)
            BY <1>1, <3>2 DEF Noop, DropBaseline, Adopt, DeleteLocal, DeleteRemote, SkipUpload,
                RemoveOld, Upload, Download, EngineStep, users, TypeOK
        <3> QED BY <3>1, <3>2
    <2> QED BY <2>1, <2>2 DEF TypeOK, RestType, disk
<1>5. run' \in Run /\ RunShape' /\ StoreType'
    <2>1. CASE Noop(k)
        BY <1>2, <2>1, FinishType DEF Noop, Op, stores, StoreType, TypeOK
    <2>2. CASE Adopt(k)
        <3>1. run.files[k] # None BY <2>2 DEF Adopt, Op, At, RunShape
        <3>2. BaselineEntry(local[k], run.files[k].timestamp) \in Entry
            BY <1>2, <2>2, <3>1, EntryType DEF Adopt, RemoteFile
        <3> QED BY <2>2, <3>2, FinishType DEF Adopt, Op, stores, StoreType, TypeOK
    <2>3. CASE SkipUpload(k)
        <3>1. CASE run.base.files[k] = None
            BY <1>2, <2>3, <3>1 DEF SkipUpload, Op, At, Run, RunShape, stores, StoreType, TypeOK
        <3>2. CASE run.base.files[k] # None
            BY <1>2, <2>3, <3>2, FinishType DEF SkipUpload, Op, stores, StoreType, TypeOK
        <3> QED BY <3>1, <3>2
    <2>4. CASE DropBaseline(k)
        BY <1>2, <2>4 DEF DropBaseline, Op, At, Run, RunShape, stores, StoreType, TypeOK
    <2>5. CASE DeleteLocal(k)
        BY <1>2, <2>5 DEF DeleteLocal, Op, At, Run, RunShape, StoreType, TypeOK
    <2>6. CASE DeleteRemote(k)
        BY <1>2, <2>6 DEF DeleteRemote, Op, At, Run, RunShape, StoreType, TypeOK
    <2>7. CASE RemoveOld(k)
        <3>1. run.pc = "files" /\ run.plan[k] = "upload" /\ run.copy = None
            BY <2>7 DEF RemoveOld, Op, At, RunShape
        <3>2. run' = [run EXCEPT !.pc = "put", !.cur = k] BY <2>7 DEF RemoveOld
        <3>3. run' \in Run BY <1>2, <3>2 DEF Run, Places
        <3>4. RunShape' BY <1>2, <3>1, <3>2 DEF Run, RunShape
        <3> QED BY <2>7, <3>3, <3>4 DEF RemoveOld, StoreType, TypeOK
    <2>8. CASE Upload(k)
        <3>1. remote' \in [Keys -> RemoteFile \cup {None}] BY <2>8, PutType DEF Upload
        <3>2. run.plan[k] = "upload" /\ run.copy = None
            BY <2>8 DEF Upload, Uploading, Op, At, RunShape
        <3>3. run' = [run EXCEPT !.pc = "record", !.cur = k] BY <2>8 DEF Upload
        <3>4. run' \in Run BY <1>2, <3>3 DEF Run, Places
        <3>5. run.pc \in {"files", "put"} BY <2>8 DEF Upload, Uploading, Op, At
        <3>6. RunShape' BY <1>2, <3>2, <3>3, <3>5 DEF Run, RunShape
        <3> QED BY <2>8, <3>1, <3>4, <3>6 DEF Upload, StoreType, TypeOK
    <2>9. CASE SetAside(k)
        <3>1. PICK i \in FreeCopy(k) :
                  /\ local' = [local EXCEPT ![k] = None, ![Copies[k][i]] = local[k]]
                  /\ run' = [run EXCEPT !.pc = "fetch", !.cur = k, !.copy = Copies[k][i]]
            BY <2>9 DEF SetAside
        <3>2. Copies[k][i] \in Keys BY <3>1, KeysAssumption DEF FreeCopy
        <3>3. run.files[k] # None BY <2>9 DEF SetAside, Op, At, RunShape
        <3>4. run' \in Run /\ RunShape'
            <4>1. run.pc = "files" BY <2>9 DEF SetAside, Op, At
            <4>2. run' \in Run BY <1>2, <3>1, <3>2 DEF Run, Places
            <4> QED BY <1>2, <3>1, <3>2, <3>3, <4>1, <4>2 DEF Run, RunShape
        <3>5. local' \in [Keys -> LocalFile \cup {None}] BY <1>2, <3>1, <3>2 DEF TypeOK
        <3> QED BY <2>9, <3>4, <3>5 DEF SetAside, StoreType, TypeOK
    <2>10. CASE Download(k)
        <3>1. run.files[k] # None BY <2>10 DEF Download, Fetching, Op, At, RunShape
        <3>2. run' \in Run /\ RunShape'
            <4>1. CASE At("fetch")
                <5>1. run' = [run EXCEPT !.pc = "push", !.cur = k] BY <2>10, <4>1 DEF Download
                <5> QED BY <1>2, <3>1, <4>1, <5>1 DEF At, Run, Places, RunShape
            <4>2. CASE ~At("fetch")
                <5>1. run' = [run EXCEPT !.pc = "record", !.cur = k] BY <2>10, <4>2 DEF Download
                <5>2. At("files") BY <2>10, <4>2 DEF Download, Fetching, Op
                <5> QED BY <1>2, <3>1, <5>1, <5>2 DEF At, Run, Places, RunShape
            <4> QED BY <4>1, <4>2
        <3>3. StoreType'
            BY <1>3, <2>10, DirsAssumption DEF Download, StoreType, TypeOK, LocalFile, RemoteFile
        <3> QED BY <3>2, <3>3
    <2> QED BY <1>1, <2>1, <2>2, <2>3, <2>4, <2>5, <2>6, <2>7, <2>8, <2>9, <2>10
<1> QED BY <1>4, <1>5 DEF TypeOK, StoreType, RestType

(* The steps of a run that are about no single file or folder. *)
LEMMA RunType ==
    ASSUME Inv, ListTree \/ ReadManifest \/ Plan \/ PushCopy \/ Cleanup \/ WriteManifest
    PROVE  Inv'
<1> USE DEF Inv
<1>1. run \in Run /\ run.saved \in Manifest BY DEF TypeOK, Run
<1>2. CASE ListTree
    <2>1. run' = [IdleRun EXCEPT !.pc = "listed", !.files = remote, !.dirs = remoteDirs]
        BY <1>2 DEF ListTree
    <2>2. run' \in Run BY <2>1, IdleRunType DEF TypeOK, Run, Places
    <2>3. run'.pc = "listed" /\ run'.copy = None BY <2>1 DEF IdleRun
    <2>4. RunShape' BY <2>3 DEF RunShape
    <2> QED BY <1>2, <2>2, <2>4 DEF ListTree, TypeOK, stores, disk
<1>3. CASE ReadManifest
    <2>1. run' \in Run
        BY <1>1, <1>3 DEF ReadManifest, TypeOK, Run, Places, Manifest
    <2>2. run'.pc = "folders" /\ run'.copy = None
        BY <1>1, <1>3 DEF ReadManifest, At, Run, RunShape
    <2>3. RunShape' BY <2>2 DEF RunShape
    <2> QED BY <1>3, <2>1, <2>3 DEF ReadManifest, EngineStep, TypeOK, stores, disk, users
<1>4. CASE Plan
    <2> DEFINE known == {k \in Keys : ~(local[k] = None /\ run.files[k] = None
                                                          /\ run.base.files[k] = None)}
               plan == [k \in Keys |-> IF k \in known
                          THEN Decide(local[k], run.files[k], run.base.files[k]) ELSE None]
    <2>1. run' = [run EXCEPT !.pc = "files", !.todo = known, !.plan = plan]
        BY <1>4 DEF Plan
    <2>2. plan \in [Keys -> OpTypes \cup {None}] BY DecideType
    <2>3. \A k \in known : plan[k] \in {"download", "adopt", "conflict"} => run.files[k] # None
        BY DecideNeedsRemote
    <2>4. run' \in Run
        <3> HIDE DEF plan
        <3> QED BY <1>1, <2>1, <2>2 DEF Run, Places
    <2>5. RunShape'
        <3>1. run.copy = None BY <1>4 DEF Plan, At, RunShape
        <3> HIDE DEF plan, known
        <3> QED BY <1>1, <2>1, <2>3, <3>1 DEF Run, RunShape
    <2> QED BY <1>4, <2>4, <2>5 DEF Plan, EngineStep, TypeOK, stores, disk, users
<1>5. CASE PushCopy
    <2>1. run.copy \in Keys /\ run.cur \in Keys /\ run.files[run.cur] # None
        BY <1>5 DEF PushCopy, At, RunShape
    <2>2. remote' \in [Keys -> RemoteFile \cup {None}]
        BY <1>5, <2>1, PutType DEF PushCopy
    <2>3. run' = [run EXCEPT !.pc = "record"] /\ run.pc = "push" BY <1>5 DEF PushCopy, At
    <2>4. run' \in Run BY <1>1, <2>3 DEF Run, Places
    <2>5. RunShape' BY <1>1, <2>1, <2>3 DEF Run, RunShape
    <2> QED BY <1>5, <2>2, <2>4, <2>5 DEF PushCopy, EngineStep, TypeOK, disk, users
<1>6. CASE Cleanup
    <2>1. run' = [run EXCEPT !.pc = "cleanup"] /\ run.pc = "files" BY <1>6 DEF Cleanup, At
    <2>2. run' \in Run BY <1>1, <2>1 DEF Run, Places
    <2>3. RunShape' BY <1>1, <2>1 DEF Run, RunShape
    <2> QED BY <1>6, <2>2, <2>3 DEF Cleanup, EngineStep, TypeOK, stores, disk, users
<1>7. CASE WriteManifest
    <2>1. RunShape' BY <1>7 DEF WriteManifest, IdleRun, RunShape
    <2> QED BY <1>1, <1>7, <2>1, IdleRunType DEF WriteManifest, EngineStep, TypeOK, stores, users
<1> QED BY <1>2, <1>3, <1>4, <1>5, <1>6, <1>7

(* baselineEntry finds every file it asks for. *)
LEMMA RecordType ==
    ASSUME Inv, Record
    PROVE  Inv'
<1> USE DEF Inv
<1> DEFINE entry(k) == BaselineEntry(local[k], IF k \in FileToShow THEN remote[k].timestamp
                                                ELSE run.files[k].timestamp)
<1>1. /\ run \in Run /\ run.saved \in Manifest /\ run.files \in [Keys -> RemoteFile \cup {None}]
      /\ run.saved.files \in [Keys -> Entry \cup {None}]
    BY DEF TypeOK, Run, Manifest
<1>2. \A k \in Keys \cap FileToStat : entry(k) \in Entry
    <2> TAKE k \in Keys \cap FileToStat
    <2>1. local[k] \in LocalFile BY DEF Record, TypeOK
    <2>2. CASE k \in FileToShow
        <3>1. remote[k].timestamp \in Nat BY <2>2 DEF Record, TypeOK, RemoteFile
        <3> QED BY <2>1, <2>2, <3>1, EntryType
    <2>3. CASE k \notin FileToShow
        <3>1. k = run.cur /\ (run.copy # None \/ run.plan[run.cur] # "upload")
            BY <2>3 DEF FileToStat, FileToShow
        <3>2. run.files[k] # None BY <3>1 DEF Record, At, RunShape
        <3>3. run.files[k].timestamp \in Nat BY <1>1, <3>2 DEF RemoteFile
        <3> QED BY <2>1, <2>3, <3>3, EntryType
    <2> QED BY <2>2, <2>3
<1>3. /\ run'.saved.files \in [Keys -> Entry \cup {None}]
      /\ run' = [run EXCEPT !.pc = "files", !.todo = @ \ {run.cur}, !.cur = None,
                            !.copy = None, !.saved.files = run'.saved.files]
    <2>1. run' = [run EXCEPT !.pc = "files", !.todo = @ \ {run.cur}, !.cur = None, !.copy = None,
                    !.saved.files = [k \in Keys |-> IF k \in FileToStat THEN entry(k) ELSE @[k]]]
        BY DEF Record
    <2>2. run'.saved.files = [k \in Keys |-> IF k \in FileToStat THEN entry(k)
                                             ELSE run.saved.files[k]]
        BY <1>1, <2>1 DEF Run, Manifest
    <2> HIDE DEF entry
    <2>3. run'.saved.files \in [Keys -> Entry \cup {None}] BY <1>1, <1>2, <2>2
    <2>4. run' = [run EXCEPT !.pc = "files", !.todo = @ \ {run.cur}, !.cur = None,
                            !.copy = None, !.saved.files = run'.saved.files]
        BY <1>1, <2>1, <2>2
    <2> QED BY <2>3, <2>4
<1>4. run' \in Run
    <2>1. PICK f \in [Keys -> Entry \cup {None}] :
              run' = [run EXCEPT !.pc = "files", !.todo = @ \ {run.cur}, !.cur = None,
                                !.copy = None, !.saved.files = f]
        BY <1>3
    <2> QED BY <1>1, <2>1 DEF Run, Places, Manifest
<1>5. run'.pc = "files" /\ run'.copy = None /\ run'.plan = run.plan /\ run'.files = run.files
      /\ run'.todo = run.todo \ {run.cur}
    BY <1>1, <1>3 DEF Run
<1>6. RunShape' BY <1>5 DEF RunShape, Record, At
<1> QED BY <1>4, <1>6 DEF Record, EngineStep, TypeOK, stores, disk, users

(* A run that ends with an exception, or is cut short. *)
LEMMA FailType ==
    ASSUME Inv, Throw \/ Failure
    PROVE  Inv'
<1> USE DEF Inv
<1>1. run' = IdleRun /\ result' = "error"
    BY DEF Throw, Failure, Abort, CutManifest, CutDownload, Fail
<1>2. run' \in Run /\ RunShape' BY <1>1, IdleRunType DEF IdleRun, RunShape
<1>3. now \in Nat BY NowType DEF TypeOK
<1>4. StoreType'
    <2>1. ASSUME NEW k \in Keys, CutDownload(k) PROVE StoreType'
        <3>1. 0 \in Versions BY BoundsAssumption DEF Versions, Moves
        <3> QED BY <1>3, <2>1, <3>1, DirsAssumption DEF CutDownload, TypeOK, StoreType, LocalFile
    <2> QED BY <2>1 DEF Throw, Failure, Abort, CutManifest, stores, TypeOK, StoreType
<1>5. RestType'
    <2>1. EngineStep /\ UNCHANGED manifest /\ torn' \in {torn, TRUE}
        BY DEF Throw, Failure, Abort, CutManifest, CutDownload, disk
    <2>2. faults' \in 0 .. MaxFaults
        BY BoundsAssumption DEF Throw, Failure, Abort, CutManifest, CutDownload, FaultStep, TypeOK
    <2> QED BY <1>1, <2>1, <2>2 DEF TypeOK, RestType, EngineStep, users
<1> QED BY <1>2, <1>4, <1>5 DEF TypeOK, StoreType, RestType

LEMMA InvInductive == Spec => []Inv
<1>1. Init => Inv
    <2> SUFFICES ASSUME Init PROVE Inv OBVIOUS
    <2>1. TypeOK
        <3>1. StoreType BY DEF Init, StoreType, NoFiles
        <3>2. manifest \in Manifest BY DEF Init, EmptyManifest, NoFiles, Manifest
        <3>3. clock \in Moves /\ faults \in 0 .. MaxFaults BY BoundsAssumption DEF Init, Moves
        <3>4. RestType BY <3>2, <3>3 DEF Init, RestType
        <3> QED BY <3>1, <3>4, IdleRunType DEF Init, TypeOK, StoreType, RestType
    <2>2. RunShape BY DEF Init, IdleRun, RunShape
    <2> QED BY <2>1, <2>2 DEF Inv
<1>2. Inv /\ [Next]_vars => Inv'
    <2> SUFFICES ASSUME Inv, [Next]_vars PROVE Inv' OBVIOUS
    <2>1. CASE User BY <2>1, UserType
    <2>2. CASE Engine
        BY <2>2, FoldersType, FilesType, RunType, RecordType, FailType DEF Engine
    <2>3. CASE Failure BY <2>3, FailType
    <2>4. CASE UNCHANGED vars
        BY <2>4 DEF Inv, TypeOK, RunShape, vars, stores, disk, users
    <2> QED BY <2>1, <2>2, <2>3, <2>4 DEF Next
<1> QED BY <1>1, <1>2, PTL DEF Spec

(* The state of a run, the two trees and the manifest stay well formed, and *)
(* every entry a run records is computed from a file that is there.         *)
THEOREM TypeCorrect == Spec => []TypeOK
<1>1. Inv => TypeOK BY DEF Inv
<1> QED BY <1>1, InvInductive, PTL

-----------------------------------------------------------------------------
(* The trees.                                                              *)

LocalClosed ==
    /\ \A k \in Keys : local[k] # None => Above[k] \subseteq localDirs
    /\ \A d \in localDirs : Above[d] \subseteq localDirs
RemoteClosed ==
    /\ \A k \in Keys : remote[k] # None => Above[k] \subseteq remoteDirs
    /\ \A d \in remoteDirs : Above[d] \subseteq remoteDirs

(* Making a file with every folder above it keeps a tree closed, ... *)
LEMMA AddClosed ==
    ASSUME NEW x \in Keys \cup Dirs, NEW dirs \in SUBSET Dirs,
           \A d \in dirs : Above[d] \subseteq dirs
    PROVE  /\ dirs \cup Above[x] \subseteq Dirs
           /\ Above[x] \subseteq dirs \cup Above[x]
           /\ \A d \in dirs \cup Above[x] : Above[d] \subseteq dirs \cup Above[x]
BY DirsAssumption

(* ... and so does taking away a folder with all there is under it. *)
LEMMA CutClosed ==
    ASSUME NEW gone, NEW files, NEW dirs \in SUBSET Dirs,
           \A x \in Keys \cup Dirs : Above[x] \cap gone # {} => x \in gone,
           \A k \in Keys : files[k] # None => Above[k] \subseteq dirs,
           \A d \in dirs : Above[d] \subseteq dirs
    PROVE  /\ \A k \in Keys : Without(files, gone)[k] # None => Above[k] \subseteq dirs \ gone
           /\ \A d \in dirs \ gone : Above[d] \subseteq dirs \ gone
<1>1. \A k \in Keys : Without(files, gone)[k] # None => files[k] # None /\ k \notin gone
    BY DEF Without
<1>2. \A k \in Keys : Without(files, gone)[k] # None => Above[k] \subseteq dirs \ gone
    BY <1>1
<1>3. \A d \in dirs \ gone : Above[d] \subseteq dirs \ gone
    OBVIOUS
<1> QED BY <1>2, <1>3

(* What lies in a folder that exists has all its folders. *)
LEMMA ParentClosed ==
    ASSUME NEW x \in Keys \cup Dirs, NEW dirs \in SUBSET Dirs,
           \A d \in dirs : Above[d] \subseteq dirs,
           Parent[x] \in dirs \cup {Root}
    PROVE  Above[x] \subseteq dirs
<1>1. CASE Parent[x] = Root BY <1>1, DirsAssumption
<1>2. CASE Parent[x] # Root
    <2>1. Parent[x] \in dirs BY <1>2
    <2>2. Above[x] = {Parent[x]} \cup Above[Parent[x]] BY <1>2, DirsAssumption
    <2> QED BY <2>1, <2>2
<1> QED BY <1>1, <1>2

LEMMA UserClosed ==
    ASSUME Inv, LocalClosed, RemoteClosed, User
    PROVE  LocalClosed' /\ RemoteClosed'
<1> USE DEF Inv
<1>1. ASSUME NEW k \in UserKeys, WriteLocal(k) PROVE LocalClosed' /\ RemoteClosed'
    <2>1. k \in Keys /\ UNCHANGED <<remote, remoteDirs>> BY <1>1, KeysAssumption DEF WriteLocal
    <2>2. localDirs' = localDirs \cup Above[k] BY <1>1 DEF WriteLocal
    <2>3. \A j \in Keys : local'[j] # None => j = k \/ local[j] # None
        BY <1>1 DEF WriteLocal, TypeOK
    <2>4. LocalClosed'
        BY <2>1, <2>2, <2>3, AddClosed DEF TypeOK, LocalClosed
    <2> QED BY <2>1, <2>4 DEF RemoteClosed
<1>2. ASSUME NEW k \in UserKeys, WriteRemote(k) PROVE LocalClosed' /\ RemoteClosed'
    <2>1. k \in Keys /\ UNCHANGED <<local, localDirs>> BY <1>2, KeysAssumption DEF WriteRemote
    <2>2. remoteDirs' = remoteDirs \cup Above[k] BY <1>2 DEF WriteRemote
    <2>3. \A j \in Keys : remote'[j] # None => j = k \/ remote[j] # None
        BY <1>2 DEF WriteRemote, TypeOK
    <2>4. RemoteClosed'
        BY <2>1, <2>2, <2>3, AddClosed DEF TypeOK, RemoteClosed
    <2> QED BY <2>1, <2>4 DEF LocalClosed
<1>3. ASSUME NEW gone, DeleteLocally(gone) \/ DeleteRemotely(gone),
             \A x \in Keys \cup Dirs : Above[x] \cap gone # {} => x \in gone
      PROVE  LocalClosed' /\ RemoteClosed'
    <2>1. CASE DeleteLocally(gone)
        <3>1. /\ local' = Without(local, gone) /\ localDirs' = localDirs \ gone
              /\ UNCHANGED <<remote, remoteDirs>>
            BY <2>1 DEF DeleteLocally
        <3>2. LocalClosed' BY <1>3, <3>1, CutClosed DEF TypeOK, LocalClosed
        <3> QED BY <3>1, <3>2 DEF RemoteClosed
    <2>2. CASE DeleteRemotely(gone)
        <3>1. /\ remote' = Without(remote, gone) /\ remoteDirs' = remoteDirs \ gone
              /\ UNCHANGED <<local, localDirs>>
            BY <2>2 DEF DeleteRemotely
        <3>2. RemoteClosed' BY <1>3, <3>1, CutClosed DEF TypeOK, RemoteClosed
        <3> QED BY <3>1, <3>2 DEF LocalClosed
    <2> QED BY <1>3, <2>1, <2>2
<1>4. ASSUME NEW k \in Keys, NEW x \in Keys \cup Dirs, Above[x] \cap {k} # {} PROVE x \in {k}
    BY <1>4, DirsAssumption
<1>5. ASSUME NEW d \in Dirs, NEW x \in Keys \cup Dirs, Above[x] \cap ({d} \cup Under(d)) # {}
      PROVE  x \in {d} \cup Under(d)
    <2>1. PICK y \in Above[x] : y = d \/ (y \in Keys \cup Dirs /\ d \in Above[y])
        BY <1>5 DEF Under
    <2>2. d \in Above[x] BY <2>1, DirsAssumption
    <2> QED BY <2>2 DEF Under
<1>6. UserKeys \subseteq Keys BY KeysAssumption
<1>7. ASSUME NEW k \in Keys, DiscardCopy(k) PROVE LocalClosed' /\ RemoteClosed'
    <2>1. PICK i \in DOMAIN Copies[k] : DeleteLocally({Copies[k][i]}) BY <1>7 DEF DiscardCopy
    <2>2. Copies[k][i] \in Keys BY KeysAssumption
    <2> QED BY <1>3, <1>4, <2>1, <2>2
<1> QED BY <1>1, <1>2, <1>3, <1>4, <1>5, <1>6, <1>7 DEF User

(* The engine's own steps change a tree in four ways: it grows by a folder *)
(* whose parent is there, by everything above a file, or by a file whose   *)
(* folders are there; or it loses a file, or a folder with nothing in it.  *)
Grows(files, dirs, files2, dirs2) ==
    \E x \in Keys \cup Dirs :
        /\ dirs2 = dirs \cup ({x} \cap Dirs) \cup Above[x]
        /\ \A k \in Keys : files2[k] # None => files[k] # None \/ k = x
Fills(files, dirs, files2, dirs2) ==
    /\ dirs2 = dirs
    /\ \A k \in Keys : files2[k] # None =>
           \/ Above[k] \subseteq dirs
           \/ files[k] # None
Sheds(files, dirs, files2, dirs2) ==
    /\ \A k \in Keys : files2[k] # None => files[k] # None
    /\ \E d \in Dirs : dirs2 = dirs \ {d} /\ Empty(d, files, dirs)

LEMMA TreeStep ==
    ASSUME NEW files, NEW dirs \in SUBSET Dirs, NEW files2, NEW dirs2,
           \A k \in Keys : files[k] # None => Above[k] \subseteq dirs,
           \A d \in dirs : Above[d] \subseteq dirs,
           \/ Grows(files, dirs, files2, dirs2)
           \/ Fills(files, dirs, files2, dirs2)
           \/ Sheds(files, dirs, files2, dirs2)
    PROVE  /\ \A k \in Keys : files2[k] # None => Above[k] \subseteq dirs2
           /\ \A d \in dirs2 : Above[d] \subseteq dirs2
<1>1. CASE Grows(files, dirs, files2, dirs2)
    <2>1. PICK x \in Keys \cup Dirs :
              /\ dirs2 = dirs \cup ({x} \cap Dirs) \cup Above[x]
              /\ \A k \in Keys : files2[k] # None => files[k] # None \/ k = x
        BY <1>1 DEF Grows
    <2> QED BY <2>1, AddClosed
<1>2. CASE Fills(files, dirs, files2, dirs2) BY <1>2 DEF Fills
<1>3. CASE Sheds(files, dirs, files2, dirs2)
    <2>1. PICK d \in Dirs : dirs2 = dirs \ {d} /\ Empty(d, files, dirs) BY <1>3 DEF Sheds
    <2>2. \A k \in Keys : files[k] # None => d \notin Above[k] BY <2>1 DEF Empty, Under
    <2>3. \A e \in dirs : d \notin Above[e] BY <2>1 DEF Empty, Under
    <2> QED BY <1>3, <2>1, <2>2, <2>3 DEF Sheds
<1> QED BY <1>1, <1>2, <1>3

LEMMA LocalStep ==
    ASSUME TypeOK, LocalClosed,
           \/ Grows(local, localDirs, local', localDirs')
           \/ Fills(local, localDirs, local', localDirs')
           \/ Sheds(local, localDirs, local', localDirs')
    PROVE  LocalClosed'
<1> DEFINE files == local  dirs == localDirs  files2 == local'  dirs2 == localDirs'
<1>1. /\ dirs \in SUBSET Dirs
      /\ \A k \in Keys : files[k] # None => Above[k] \subseteq dirs
      /\ \A d \in dirs : Above[d] \subseteq dirs
    BY DEF TypeOK, LocalClosed
<1>2. \/ Grows(files, dirs, files2, dirs2)
      \/ Fills(files, dirs, files2, dirs2)
      \/ Sheds(files, dirs, files2, dirs2)
    OBVIOUS
<1> HIDE DEF files, dirs, files2, dirs2
<1>3. /\ \A k \in Keys : files2[k] # None => Above[k] \subseteq dirs2
      /\ \A d \in dirs2 : Above[d] \subseteq dirs2
    BY <1>1, <1>2, TreeStep
<1> QED BY <1>3 DEF LocalClosed, files2, dirs2

LEMMA RemoteStep ==
    ASSUME TypeOK, RemoteClosed,
           \/ Grows(remote, remoteDirs, remote', remoteDirs')
           \/ Fills(remote, remoteDirs, remote', remoteDirs')
           \/ Sheds(remote, remoteDirs, remote', remoteDirs')
    PROVE  RemoteClosed'
<1> DEFINE files == remote  dirs == remoteDirs  files2 == remote'  dirs2 == remoteDirs'
<1>1. /\ dirs \in SUBSET Dirs
      /\ \A k \in Keys : files[k] # None => Above[k] \subseteq dirs
      /\ \A d \in dirs : Above[d] \subseteq dirs
    BY DEF TypeOK, RemoteClosed
<1>2. \/ Grows(files, dirs, files2, dirs2)
      \/ Fills(files, dirs, files2, dirs2)
      \/ Sheds(files, dirs, files2, dirs2)
    OBVIOUS
<1> HIDE DEF files, dirs, files2, dirs2
<1>3. /\ \A k \in Keys : files2[k] # None => Above[k] \subseteq dirs2
      /\ \A d \in dirs2 : Above[d] \subseteq dirs2
    BY <1>1, <1>2, TreeStep
<1> QED BY <1>3 DEF RemoteClosed, files2, dirs2

LEMMA FoldersClosed ==
    ASSUME Inv, LocalClosed, RemoteClosed, Folders
    PROVE  LocalClosed' /\ RemoteClosed'
<1> USE DEF Inv
<1> DEFINE L == \/ UNCHANGED <<local, localDirs>>
                \/ Grows(local, localDirs, local', localDirs')
                \/ Sheds(local, localDirs, local', localDirs')
           R == \/ UNCHANGED <<remote, remoteDirs>>
                \/ Fills(remote, remoteDirs, remote', remoteDirs')
                \/ Sheds(remote, remoteDirs, remote', remoteDirs')
                \/ \E d \in Dirs : /\ Parent[d] \in remoteDirs \cup {Root}
                                   /\ remote' = remote /\ remoteDirs' = remoteDirs \cup {d}
<1>1. PICK d \in Dirs :
          \/ KeepFolder(d) \/ FolderGone(d) \/ MakeLocalFolder(d) \/ MakeRemoteFolder(d)
          \/ BlockFolder(d) \/ DropLocalFolder(d) \/ DropRemoteFolder(d) \/ KeepRemoteFolder(d)
    BY DEF Folders
<1>2. L
    <2>1. CASE MakeLocalFolder(d)
        BY <2>1 DEF MakeLocalFolder, Grows
    <2>2. CASE DropLocalFolder(d)
        BY <2>2 DEF DropLocalFolder, Sheds
    <2> QED BY <1>1, <2>1, <2>2 DEF KeepFolder, FolderGone, MakeRemoteFolder, BlockFolder,
            DropRemoteFolder, KeepRemoteFolder, stores
<1>3. R
    <2>1. CASE MakeRemoteFolder(d) BY <2>1 DEF MakeRemoteFolder
    <2>2. CASE BlockFolder(d) BY <2>2 DEF BlockFolder
    <2>3. CASE DropRemoteFolder(d) BY <2>3 DEF DropRemoteFolder, Sheds
    <2>4. CASE KeepRemoteFolder(d)
        <3>1. /\ remote' = remote
              /\ \/ remoteDirs' = remoteDirs
                 \/ Empty(d, remote, remoteDirs) /\ remoteDirs' = remoteDirs \ {d}
            BY <2>4 DEF KeepRemoteFolder
        <3> QED BY <3>1 DEF Sheds
    <2> QED BY <1>1, <2>1, <2>2, <2>3, <2>4 DEF KeepFolder, FolderGone, MakeLocalFolder,
            DropLocalFolder, stores
<1>4. LocalClosed'
    <2>1. CASE UNCHANGED <<local, localDirs>> BY <2>1 DEF LocalClosed
    <2>2. CASE \/ Grows(local, localDirs, local', localDirs')
               \/ Sheds(local, localDirs, local', localDirs')
        BY <2>2, LocalStep
    <2> QED BY <1>2, <2>1, <2>2
<1>5. RemoteClosed'
    <2>1. ASSUME NEW e \in Dirs, Parent[e] \in remoteDirs \cup {Root},
                 remote' = remote, remoteDirs' = remoteDirs \cup {e}
          PROVE  RemoteClosed'
        BY <2>1, ParentClosed DEF TypeOK, RemoteClosed
    <2> QED BY <1>3, <2>1, RemoteStep DEF RemoteClosed
<1> QED BY <1>4, <1>5

LEMMA FilesClosed ==
    ASSUME Inv, LocalClosed, RemoteClosed, Files \/ PushCopy
    PROVE  LocalClosed' /\ RemoteClosed'
<1> USE DEF Inv
<1> DEFINE L == \/ UNCHANGED <<local, localDirs>>
                \/ Grows(local, localDirs, local', localDirs')
                \/ Fills(local, localDirs, local', localDirs')
           R == \/ UNCHANGED <<remote, remoteDirs>>
                \/ Fills(remote, remoteDirs, remote', remoteDirs')
<1>1. ASSUME NEW k \in Keys, CanPut(k), PutFile(k), remoteDirs' = remoteDirs PROVE R
    <2>1. Above[k] \subseteq remoteDirs
        BY <1>1, ParentClosed DEF CanPut, TypeOK, RemoteClosed
    <2>2. \A j \in Keys : remote'[j] # None => j = k \/ remote[j] # None
        BY <1>1 DEF PutFile, TypeOK
    <2> QED BY <1>1, <2>1, <2>2 DEF Fills
<1>2. ASSUME NEW k \in Keys, Upload(k) PROVE L /\ R
    BY <1>1, <1>2 DEF Upload
<1>3. ASSUME PushCopy PROVE L /\ R
    BY <1>1, <1>3 DEF PushCopy, At, RunShape
<1>4. ASSUME NEW k \in Keys, Download(k) PROVE L /\ R
    <2>1. localDirs' = localDirs \cup ({k} \cap Dirs) \cup Above[k]
        BY <1>4, DirsAssumption DEF Download
    <2>2. \A j \in Keys : local'[j] # None => local[j] # None \/ j = k
        BY <1>4 DEF Download, TypeOK
    <2> QED BY <1>4, <2>1, <2>2 DEF Download, Grows
<1>5. ASSUME NEW k \in Keys, SetAside(k) PROVE L /\ R
    <2>1. PICK i \in FreeCopy(k) : local' = [local EXCEPT ![k] = None, ![Copies[k][i]] = local[k]]
        BY <1>5 DEF SetAside
    <2>2. Copies[k][i] \in Keys /\ Above[Copies[k][i]] = Above[k]
        BY <2>1, KeysAssumption DEF FreeCopy
    <2>3. \A j \in Keys : local'[j] # None => local[j] # None \/ j = Copies[k][i]
        BY <2>1, <2>2 DEF TypeOK
    <2>4. local[k] # None BY <1>5 DEF SetAside
    <2> QED BY <1>5, <2>2, <2>3, <2>4 DEF SetAside, Fills, LocalClosed
<1>6. ASSUME NEW k \in Keys, DeleteLocal(k) \/ DeleteRemote(k) \/ RemoveOld(k) PROVE L /\ R
    BY <1>6 DEF DeleteLocal, DeleteRemote, RemoveOld, Fills, TypeOK
<1>7. ASSUME NEW k \in Keys, Noop(k) \/ DropBaseline(k) \/ Adopt(k) \/ SkipUpload(k)
      PROVE  L /\ R
    BY <1>7 DEF Noop, DropBaseline, Adopt, SkipUpload, stores
<1>8. L /\ R BY <1>2, <1>3, <1>4, <1>5, <1>6, <1>7 DEF Files
<1>9. LocalClosed' BY <1>8, LocalStep DEF LocalClosed
<1>10. RemoteClosed' BY <1>8, RemoteStep DEF RemoteClosed
<1> QED BY <1>9, <1>10

(* A file or folder is never without the folders it lies in, on either end, *)
(* whoever acts and whatever fails in the middle of a run.                  *)
THEOREM FoldersFirst == Spec => []TreesClosed
<1>1. Init => LocalClosed /\ RemoteClosed
    BY DEF Init, NoFiles, LocalClosed, RemoteClosed
<1>2. Inv /\ LocalClosed /\ RemoteClosed /\ [Next]_vars => LocalClosed' /\ RemoteClosed'
    <2> SUFFICES ASSUME Inv, LocalClosed, RemoteClosed, [Next]_vars
                 PROVE  LocalClosed' /\ RemoteClosed'
        OBVIOUS
    <2>1. CASE User BY <2>1, UserClosed
    <2>2. CASE Folders BY <2>2, FoldersClosed
    <2>3. CASE Files \/ PushCopy BY <2>3, FilesClosed
    <2>4. ASSUME NEW k \in Keys, CutDownload(k) PROVE LocalClosed' /\ RemoteClosed'
        <3>1. localDirs' = localDirs \cup ({k} \cap Dirs) \cup Above[k]
            BY <2>4, DirsAssumption DEF CutDownload
        <3>2. \A j \in Keys : local'[j] # None => local[j] # None \/ j = k
            BY <2>4 DEF CutDownload, Inv, TypeOK
        <3>3. Grows(local, localDirs, local', localDirs') BY <3>1, <3>2 DEF Grows
        <3>4. LocalClosed' BY <3>3, LocalStep DEF Inv
        <3> QED BY <2>4, <3>4 DEF CutDownload, RemoteClosed
    <2>5. CASE \/ ListTree \/ ReadManifest \/ Plan \/ Record \/ Cleanup \/ WriteManifest
               \/ Throw \/ Abort \/ CutManifest \/ UNCHANGED vars
        BY <2>5 DEF ListTree, ReadManifest, Plan, Record, Cleanup, WriteManifest, Throw, Abort,
            CutManifest, vars, stores, LocalClosed, RemoteClosed
    <2> QED BY <2>1, <2>2, <2>3, <2>4, <2>5 DEF Next, Engine, Failure
<1>3. LocalClosed /\ RemoteClosed => TreesClosed
    BY DEF LocalClosed, RemoteClosed, TreesClosed
<1> QED BY <1>1, <1>2, <1>3, InvInductive, PTL DEF Spec

-----------------------------------------------------------------------------
(* What refinement is worth: an engine that is two replicas and no more     *)
(* loses no version that is still wanted and not at risk, neither in a run  *)
(* that finishes nor in one that is cut short.                              *)
THEOREM PromiseSuffices == PromiseKept => []NoVersionLost
<1>1. Promise!Init => NoVersionLost
    BY DEF Promise!Init, NoVersionLost
<1>2. NoVersionLost /\ [Promise!Next]_(Promise!vars) => NoVersionLost'
    <2> SUFFICES ASSUME NoVersionLost, [Promise!Next]_(Promise!vars) PROVE NoVersionLost'
        OBVIOUS
    <2> DEFINE here == Held(local)  there == Held(remote)
               here2 == Held(local)'  there2 == Held(remote)'
    <2>1. live \ atRisk \subseteq here \cup there BY DEF NoVersionLost
    <2>2. live' \ atRisk' \subseteq here2 \cup there2
        <3>1. ASSUME NEW v \in 1 .. MaxMoves, NEW old, Promise!Write(v, old)
              PROVE  live' \ atRisk' \subseteq here2 \cup there2
            <4> HIDE DEF here, there, here2, there2
            <4>1. /\ live' = (live \ old) \cup {v} /\ atRisk' = atRisk
                  /\ \/ here2 \in {here \cup {v}, (here \ old) \cup {v}} /\ there2 = there
                     \/ there2 \in {there \cup {v}, (there \ old) \cup {v}} /\ here2 = here
                BY <3>1 DEF Promise!Write, here, there, here2, there2
            <4> QED BY <2>1, <4>1
        <3>2. ASSUME Promise!Discard PROVE live' \ atRisk' \subseteq here2 \cup there2
            BY <2>1, <3>2 DEF Promise!Discard
        <3>3. ASSUME Promise!Sync PROVE live' \ atRisk' \subseteq here2 \cup there2
            BY <2>1, <3>3 DEF Promise!Sync
        <3>4. ASSUME UNCHANGED Promise!vars PROVE live' \ atRisk' \subseteq here2 \cup there2
            BY <2>1, <3>4 DEF Promise!vars
        <3> QED BY <3>1, <3>2, <3>3, <3>4 DEF Promise!Next
    <2> QED BY <2>2 DEF NoVersionLost
<1> QED BY <1>1, <1>2, PTL DEF PromiseKept, Promise!Spec
=============================================================================
