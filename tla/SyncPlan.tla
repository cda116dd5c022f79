------------------------------ MODULE SyncPlan ------------------------------
(***************************************************************************)
(* The pure part of the sync engine: computeSyncPlan compares, for one     *)
(* file, what the provider listed, what the disk holds and what the last   *)
(* successful run recorded, and decides one action.                        *)
(*                                                                         *)
(* A local file is [content, mtime], a remote one [content, timestamp], a  *)
(* manifest entry [syncedAt, size, timestamp]; None stands for "not there".*)
(* Contents are version numbers, Size maps a version to its byte count:    *)
(* the planner sees sizes and times, never the bytes.  The legacy entries  *)
(* whose baselineSize is null are left out.                                *)
(***************************************************************************)
EXTENDS Naturals

CONSTANTS
    None,    \* the absent file, the absent manifest entry
    Size     \* Size[v]: the byte count of version v

LocalChanged(l, b) == l.mtime > b.syncedAt \/ Size[l.content] # b.size

RemoteChanged(r, b) == r.timestamp > b.timestamp

(* How one side looks next to the baseline b. *)
LocalSide(l, b) ==
    IF l = None THEN "absent" ELSE IF LocalChanged(l, b) THEN "changed" ELSE "same"

RemoteSide(r, b) ==
    IF r = None THEN "absent" ELSE IF RemoteChanged(r, b) THEN "changed" ELSE "same"

(* Mutants of the two tables below: the planner with one decision wrong.   *)
MutantKnown(l, r, op) ==
    [x \in {"absent", "same", "changed"} |-> [y \in {"absent", "same", "changed"} |->
        IF x = l /\ y = r THEN op
        ELSE IF x = "absent" THEN (IF y = "absent" THEN "dropBaseline"
                                   ELSE IF y = "same" THEN "deleteRemote" ELSE "download")
        ELSE IF y = "changed" THEN (IF x = "same" THEN "download" ELSE "conflict")
        ELSE IF x = "changed" THEN "upload"
        ELSE IF y = "absent" THEN "deleteLocal" ELSE "noop"]]
RemoteAlwaysWins == MutantKnown("changed", "changed", "download")
RemoteEditIgnored == MutantKnown("absent", "changed", "deleteRemote")
RemoteDeletionIgnored == MutantKnown("same", "absent", "noop")
LocalDeletionIgnored == MutantKnown("absent", "same", "download")
DeletesWhatIsGone == MutantKnown("absent", "absent", "deleteRemote")
AdoptsAnything(l, r) ==
    IF l = None THEN "download" ELSE IF r = None THEN "upload" ELSE "adopt"
EntryWithoutSize(l, timestamp) == [syncedAt |-> l.mtime, timestamp |-> timestamp]

(* The decision for a file the manifest knows: local side, then remote. *)
KnownFile ==
    [absent  |-> [absent |-> "dropBaseline", same |-> "deleteRemote", changed |-> "download"],
     same    |-> [absent |-> "deleteLocal",  same |-> "noop",         changed |-> "download"],
     changed |-> [absent |-> "upload",       same |-> "upload",       changed |-> "conflict"]]

(* The decision for a file no run has recorded yet. *)
NewFile(l, r) ==
    IF l = None THEN "download"
    ELSE IF r = None THEN "upload"
    ELSE IF Size[l.content] = Size[r.content] THEN "adopt" ELSE "conflict"

(* The action planned for one key; some of l, r and b is not None. *)
Decide(l, r, b) ==
    IF b = None THEN NewFile(l, r)
    ELSE KnownFile[LocalSide(l, b)][RemoteSide(r, b)]

OpTypes == {"noop", "download", "upload", "deleteLocal", "deleteRemote",
            "dropBaseline", "adopt", "conflict"}

(* baselineEntry: what a finished operation records about a file. *)
BaselineEntry(l, timestamp) ==
    [syncedAt |-> l.mtime, size |-> Size[l.content], timestamp |-> timestamp]

=============================================================================
