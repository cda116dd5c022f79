------------------------- MODULE SyncPromiseProofs -------------------------
(***************************************************************************)
(* The engine keeps the promise of module Replicas, and what a run that    *)
(* ends well leaves behind.  The argument is one inductive invariant in    *)
(* two parts.  Store relates the two ends and the manifest: the planner,   *)
(* which sees sizes and times only, is never misled about a version, and   *)
(* where it lets one end drop a version that end still has it under        *)
(* another name.  RunTrue relates the running runSync to the two ends:     *)
(* what it read when it began still holds for every file whose turn has    *)
(* not come, and what it means to save is true.  Both except the names a   *)
(* conflict has taken again (retaken) for the versions that met there      *)
(* (atRisk).  A third part, Calm, holds until something fails: every       *)
(* version has one name, and what the server still has of a version given  *)
(* up here is recorded.  A fourth, FoldersRight, follows the folders of a  *)
(* run nobody disturbs through its two passes, and a fifth, Paid, counts   *)
(* the names a version has against the failures there have been.           *)
(***************************************************************************)
EXTENDS SyncEngineProofs, FiniteSetTheorems

(* Where the planner's evidence is sound.  It compares byte counts and     *)
(* whole seconds, so versions must differ in the one and be made in        *)
(* different ones; and users act between the runs (run sync_busy shows     *)
(* what an edit in the middle of one does).  They may write, delete and    *)
(* discard any file, conflicted copies included.                           *)
SizesDiffer == \A v, w \in Versions : Size[v] = Size[w] => v = w
SecondsDiffer == \A m, n \in Moves : m < n => Second[m] < Second[n]
Setting == Busy = {} /\ SizesDiffer /\ SecondsDiffer

-----------------------------------------------------------------------------
(* What a decision of the planner says about the file it is for.           *)
LEMMA DecideTells ==
    ASSUME NEW l, NEW r, NEW b, ~(l = None /\ r = None /\ b = None), NEW op, op = Decide(l, r, b)
    PROVE  /\ op = "deleteLocal" => b # None /\ l # None /\ r = None /\ ~LocalChanged(l, b)
           /\ op = "deleteRemote" => b # None /\ l = None /\ r # None /\ ~RemoteChanged(r, b)
           /\ op = "download" => /\ r # None
                                 /\ b = None \/ RemoteChanged(r, b)
                                 /\ l = None \/ (b # None /\ ~LocalChanged(l, b))
           /\ op = "upload" => /\ l # None
                               /\ b # None => LocalChanged(l, b)
                               /\ r # None => b # None /\ ~RemoteChanged(r, b)
           /\ op = "conflict" => /\ l # None /\ r # None
                                 /\ b # None => LocalChanged(l, b) /\ RemoteChanged(r, b)
                                 /\ b = None => Size[l.content] # Size[r.content]
           /\ op = "adopt" => b = None /\ l # None /\ r # None /\ Size[l.content] = Size[r.content]
           /\ op = "noop" => /\ b # None /\ l # None /\ r # None
                             /\ ~LocalChanged(l, b) /\ ~RemoteChanged(r, b)
           /\ op = "dropBaseline" => l = None /\ r = None
<1> DEFINE L == LocalSide(l, b)  R == RemoteSide(r, b)
<1>1. CASE b = None
    BY <1>1 DEF Decide, NewFile
<1>2. CASE b # None
    <2>1. /\ L = "absent" => l = None
          /\ L = "same" => l # None /\ ~LocalChanged(l, b)
          /\ L = "changed" => l # None /\ LocalChanged(l, b)
          /\ L \in {"absent", "same", "changed"}
        BY DEF LocalSide
    <2>2. /\ R = "absent" => r = None
          /\ R = "same" => r # None /\ ~RemoteChanged(r, b)
          /\ R = "changed" => r # None /\ RemoteChanged(r, b)
          /\ R \in {"absent", "same", "changed"}
        BY DEF RemoteSide
    <2>3. op = KnownFile[L][R] BY <1>2 DEF Decide
    <2> HIDE DEF L, R
    <2>4. CASE L = "absent" BY <1>2, <2>1, <2>2, <2>3, <2>4 DEF KnownFile
    <2>5. CASE L = "same" BY <1>2, <2>1, <2>2, <2>3, <2>5 DEF KnownFile
    <2>6. CASE L = "changed" BY <1>2, <2>1, <2>2, <2>3, <2>6 DEF KnownFile
    <2> QED BY <2>1, <2>4, <2>5, <2>6
<1> QED BY <1>1, <1>2

-----------------------------------------------------------------------------
(* The invariant: the two ends and the manifest.                           *)

Entries == manifest.files
There(files, k, v) == files[k] # None /\ files[k].content = v
Synced(k, v) == Entries[k] # None /\ Entries[k].size = Size[v]
Safe == live \ atRisk
NoMove == UNCHANGED <<clock, live, retaken, atRisk>>

(* Nothing is newer than now. *)
Dated(entry) ==
    entry # None => entry.timestamp <= now /\ \E v \in 0 .. clock : entry.size = Size[v]
Bounds ==
    /\ live \subseteq 1 .. clock
    /\ \A k \in Keys :
        /\ local[k] # None => local[k].content <= clock
        /\ remote[k] # None => remote[k].content <= clock /\ remote[k].timestamp <= now
        /\ Dated(Entries[k])

(* The planner's two questions about a file are answered as if it had      *)
(* asked for the version: what it calls unchanged is the synced version,   *)
(* what it calls changed is not.  Not so where a retaken name holds one of *)
(* the versions that met under such a name.                                *)
Unsure(k, v) == k \in retaken /\ v \in atRisk \cup {0}
LocalTells(k) ==
    local[k] # None /\ Entries[k] # None /\ ~Unsure(k, local[k].content) =>
        /\ LocalChanged(local[k], Entries[k]) => Entries[k].timestamp < now
        /\ Synced(k, local[k].content) /\ local[k].content # 0
           => ~LocalChanged(local[k], Entries[k])
RemoteTells(k) ==
    remote[k] # None /\ Entries[k] # None /\ ~Unsure(k, remote[k].content) =>
        /\ ~RemoteChanged(remote[k], Entries[k]) => Synced(k, remote[k].content)
        /\ Synced(k, remote[k].content) /\ remote[k].content # 0
           => ~RemoteChanged(remote[k], Entries[k])

(* A file is firm on one end where the planner will not drop it there: the *)
(* other end has it too, or the manifest does not know it by this name.    *)
(* When a live version is synced under a name it has at one end only, the  *)
(* planner will drop it there; both ends then hold it firmly elsewhere.    *)
Firm(files, others, k, v) == There(files, k, v) /\ (Synced(k, v) => There(others, k, v))
OneEnded(k, v) == Synced(k, v) /\ ~(There(local, k, v) <=> There(remote, k, v))
MayFollow(v) ==
    (\E k \in Keys : OneEnded(k, v))
    => /\ \E i \in Keys : Firm(local, remote, i, v)
       /\ \E i \in Keys : Firm(remote, local, i, v)

Store ==
    /\ Bounds
    /\ \A k \in Keys : LocalTells(k) /\ RemoteTells(k)
    /\ \A v \in Safe : MayFollow(v)

Equal(k) == remote[k] # None /\ There(local, k, remote[k].content)
Fresh(k, entry) == Equal(k) /\ entry = BaselineEntry(local[k], remote[k].timestamp)

(* A retaken name under which nothing safe is found. *)
Odd(k) ==
    /\ k \in retaken /\ local[k] # None /\ local[k].content \in atRisk
    /\ remote[k] # None => remote[k].content \in atRisk

LEMMA SafeType ==
    ASSUME TypeOK, Store
    PROVE  /\ 0 \notin Safe /\ \A w \in Safe : w \in live /\ w \in Versions \ {0} /\ w \notin atRisk
           /\ \A k \in Keys : \A w \in Safe : ~Unsure(k, w)
<1>1. clock \in Nat BY BoundsAssumption DEF TypeOK, Moves
<1> QED BY <1>1, BoundsAssumption DEF Store, Bounds, TypeOK, Versions, Moves, Safe, Unsure

LEMMA HeldIsThere ==
    \A w : /\ w \in Held(local) <=> \E j \in Keys : There(local, j, w)
           /\ w \in Held(remote) <=> \E j \in Keys : There(remote, j, w)
           /\ w \in Held(local)' <=> \E j \in Keys : There(local, j, w)'
           /\ w \in Held(remote)' <=> \E j \in Keys : There(remote, j, w)'
BY DEF Held, There

(* A step of a run keeps the promise if it moves versions only and loses   *)
(* no safe one at either end.                                              *)
LEMMA KeepsPromise ==
    ASSUME live' = live, atRisk \subseteq atRisk',
           \A j \in Keys : \A w :
               /\ There(local, j, w)' => w = 0 \/ \E i \in Keys : There(local, i, w) \/ There(remote, i, w)
               /\ There(remote, j, w)' => \E i \in Keys : There(local, i, w) \/ There(remote, i, w),
           \A j \in Keys : \A w \in live \ atRisk' :
               /\ There(local, j, w) => \E i \in Keys : There(local, i, w)'
               /\ There(remote, j, w) => \E i \in Keys : There(remote, i, w)'
    PROVE  Promise!Sync
<1>1. Held(local)' \subseteq Held(local) \cup Held(remote) \cup {0}
      /\ Held(remote)' \subseteq Held(local) \cup Held(remote)
    BY HeldIsThere
<1>2. (live \ atRisk') \cap Held(local) \subseteq Held(local)'
      /\ (live \ atRisk') \cap Held(remote) \subseteq Held(remote)'
    BY HeldIsThere
<1> QED BY <1>1, <1>2 DEF Promise!Sync

-----------------------------------------------------------------------------
(* What the steps of a run do to the two ends and the manifest.            *)

(* The file k is fetched, in full (version v) or cut short (version 0). *)
Gets(k, v) ==
    /\ k \in Keys /\ remote[k] # None /\ v \in {0, remote[k].content}
    /\ Entries[k] = None \/ RemoteChanged(remote[k], Entries[k])
    /\ local[k] = None \/ (Entries[k] # None /\ ~LocalChanged(local[k], Entries[k]))
    /\ local' = [local EXCEPT ![k] = [content |-> v, mtime |-> now]]
    /\ UNCHANGED <<remote, manifest>>

(* The fetched file is the remote one, so nothing is misjudged later, and  *)
(* what it replaces is elsewhere on the disk or not safe.                  *)
LEMMA GetsStore ==
    ASSUME Setting, TypeOK, Store, NoMove, NEW k, NEW v, Gets(k, v)
    PROVE  Store' /\ Promise!Sync
<1>1. /\ k \in Keys /\ v \in Versions /\ now \in Nat /\ clock \in Nat
      /\ local'[k] # None /\ local'[k].content = v /\ local'[k].mtime = now
      /\ \A j \in Keys : j # k => local'[j] = local[j]
      /\ remote' = remote /\ Entries' = Entries /\ live' = live /\ clock' = clock /\ now' = now
      /\ retaken' = retaken /\ atRisk' = atRisk /\ Safe' = Safe
      /\ v = 0 \/ v = remote[k].content
    <2>1. k \in Keys /\ remote[k] \in RemoteFile BY DEF Gets, TypeOK
    <2>2. v \in Versions BY <2>1, BoundsAssumption DEF Gets, RemoteFile, Versions, Moves
    <2>3. now \in Nat /\ clock \in Nat BY NowType, BoundsAssumption DEF TypeOK, Moves
    <2>4. [content |-> v, mtime |-> now] # None
        BY <2>2, <2>3, NoneAssumption DEF LocalFile
    <2> QED BY <2>1, <2>2, <2>3, <2>4 DEF Gets, TypeOK, Entries, now, NoMove, Safe
<1>2. \A j \in Keys : \A w : /\ There(remote, j, w)' <=> There(remote, j, w)
                             /\ Synced(j, w)' <=> Synced(j, w)
                             /\ j # k => (There(local, j, w)' <=> There(local, j, w))
    BY <1>1 DEF There, Synced
<1>3. \A w : There(local, k, w)' <=> w = v BY <1>1 DEF There
<1>4. There(remote, k, remote[k].content) BY DEF Gets, There
<1>5. Entries[k] # None => RemoteChanged(remote[k], Entries[k]) BY DEF Gets
<1>6. Synced(k, remote[k].content) => remote[k].content = 0 \/ Unsure(k, remote[k].content)
    BY <1>1, <1>5 DEF Gets, Store, RemoteTells, Synced
<1>7. \A w \in Safe : /\ There(remote, k, w) => ~Synced(k, w)
                      /\ There(local, k, w) => Synced(k, w) /\ ~There(remote, k, w)
                      /\ There(local, k, w)' => There(remote, k, w)
    <2> TAKE w \in Safe
    <2>1. There(remote, k, w) => ~Synced(k, w) BY <1>1, <1>6, SafeType DEF There
    <2>2. There(local, k, w) => Synced(k, w) BY DEF Gets, There, Synced, LocalChanged
    <2>3. There(local, k, w)' => There(remote, k, w) BY <1>1, <1>3, <1>4, SafeType
    <2> QED BY <2>1, <2>2, <2>3
<1>8. Bounds'
    <2>1. remote[k].content \in Nat /\ 0 <= clock
        BY <1>1, BoundsAssumption DEF Gets, TypeOK, RemoteFile, Versions, Moves
    <2> QED BY <1>1, <2>1 DEF Store, Bounds, Gets, Dated
<1>9. ASSUME NEW j \in Keys
      PROVE  LocalTells(j)' /\ RemoteTells(j)'
    <2>0. LocalTells(j) /\ RemoteTells(j) BY DEF Store
    <2>1. RemoteTells(j)' BY <1>1, <1>2, <2>0 DEF RemoteTells, Unsure
    <2>2. CASE j # k BY <1>1, <1>2, <2>0, <2>1, <2>2 DEF LocalTells, Unsure
    <2>3. CASE j = k
        <3>1. Entries[k] # None => Entries[k].timestamp < now
            <4>1. remote[k].timestamp \in Nat BY <1>1 DEF Gets, TypeOK, RemoteFile
            <4>2. remote[k].timestamp <= now BY <1>1 DEF Gets, Store, Bounds
            <4>3. Entries[k] # None => Entries[k].timestamp \in Nat
                BY <1>1 DEF TypeOK, Manifest, Entry, Entries
            <4> QED BY <1>1, <1>5, <4>1, <4>2, <4>3 DEF RemoteChanged
        <3>2. Synced(k, v) => v = 0 \/ Unsure(k, v) BY <1>1, <1>6
        <3> QED BY <1>1, <1>2, <2>1, <2>3, <3>1, <3>2 DEF LocalTells, Unsure
    <2> QED BY <2>1, <2>2, <2>3
<1>10. \A w \in Safe : /\ There(local, k, w) => \E i \in Keys \ {k} : Firm(local, remote, i, w)
                       /\ (\E j \in Keys : OneEnded(j, w)) =>
                              /\ \E i \in Keys \ {k} : Firm(local, remote, i, w)
                              /\ \E i \in Keys : Firm(remote, local, i, w)
    <2> TAKE w \in Safe
    <2>1. MayFollow(w) BY DEF Store
    <2>2. There(local, k, w) => OneEnded(k, w) BY <1>7 DEF OneEnded
    <2>3. ~Firm(local, remote, k, w) BY <1>7 DEF Firm
    <2> QED BY <1>1, <2>1, <2>2, <2>3 DEF MayFollow
<1>11. ASSUME NEW w \in Safe
       PROVE  MayFollow(w)'
    <2> SUFFICES ASSUME NEW j \in Keys, OneEnded(j, w)'
                 PROVE  /\ \E i \in Keys : Firm(local, remote, i, w)'
                        /\ \E i \in Keys : Firm(remote, local, i, w)'
        BY DEF MayFollow
    <2>1. j # k BY <1>2, <1>7 DEF OneEnded
    <2>2. OneEnded(j, w) BY <1>2, <2>1 DEF OneEnded
    <2>3. PICK i \in Keys \ {k} : Firm(local, remote, i, w) BY <1>10, <2>2
    <2>4. PICK x \in Keys : Firm(remote, local, x, w) BY <1>10, <2>2
    <2>5. Firm(local, remote, i, w)' BY <1>2, <2>3 DEF Firm
    <2>6. Firm(remote, local, x, w)' BY <1>2, <1>7, <2>4 DEF Firm
    <2> QED BY <2>5, <2>6
<1>12. Store' BY <1>1, <1>8, <1>9, <1>11 DEF Store
<1>13. Promise!Sync
    <2>1. \A j \in Keys : \A w \in live \ atRisk' : There(local, j, w) => \E i \in Keys : There(local, i, w)'
        BY <1>1, <1>2, <1>10 DEF Firm, Safe
    <2> QED BY <1>1, <1>2, <1>3, <1>4, <2>1, KeepsPromise
<1> QED BY <1>12, <1>13

(* The file k is removed here as it was there, ... *)
DropsLocal(k) ==
    /\ k \in Keys /\ remote[k] = None
    /\ local[k] # None /\ Entries[k] # None /\ ~LocalChanged(local[k], Entries[k])
    /\ local' = [local EXCEPT ![k] = None]
    /\ UNCHANGED <<remote, manifest>>

(* ... or there as it was here, or to make room for an upload. *)
DropsRemote(k) ==
    /\ k \in Keys
    /\ remote[k] # None /\ Entries[k] # None /\ ~RemoteChanged(remote[k], Entries[k])
    /\ local[k] # None => LocalChanged(local[k], Entries[k])
    /\ remote' = [remote EXCEPT ![k] = None]
    /\ UNCHANGED <<local, manifest>>

(* What a file held is a safe version only if it is firm elsewhere. *)
LEMMA DropsStore ==
    ASSUME Setting, TypeOK, Store, NoMove, NEW k, DropsLocal(k) \/ DropsRemote(k)
    PROVE  Store' /\ Promise!Sync
<1>1. /\ k \in Keys
      /\ \A j \in Keys : j # k => local'[j] = local[j] /\ remote'[j] = remote[j]
      /\ local'[k] \in {local[k], None} /\ remote'[k] = None
      /\ Entries' = Entries /\ live' = live /\ clock' = clock /\ now' = now
      /\ retaken' = retaken /\ atRisk' = atRisk /\ Safe' = Safe
    BY DEF DropsLocal, DropsRemote, TypeOK, Entries, now, NoMove, Safe
<1>2. \A j \in Keys : \A w : /\ There(local, j, w)' => There(local, j, w)
                             /\ There(remote, j, w)' => There(remote, j, w)
                             /\ Synced(j, w)' <=> Synced(j, w)
                             /\ j # k => /\ There(local, j, w)' <=> There(local, j, w)
                                         /\ There(remote, j, w)' <=> There(remote, j, w)
    BY <1>1 DEF There, Synced
<1>3. \A w \in Safe :
          /\ There(local, k, w) => \/ There(local, k, w)' /\ ~Synced(k, w)
                                   \/ Synced(k, w) /\ ~There(remote, k, w)
          /\ There(remote, k, w) => Synced(k, w) /\ ~There(local, k, w)
    <2> TAKE w \in Safe
    <2>1. CASE DropsLocal(k) BY <2>1 DEF DropsLocal, There, Synced, LocalChanged
    <2>2. CASE DropsRemote(k)
        <3>1. remote[k] # None /\ Entries[k] # None /\ ~RemoteChanged(remote[k], Entries[k])
              /\ (local[k] # None => LocalChanged(local[k], Entries[k])) /\ local' = local
            BY <2>2 DEF DropsRemote
        <3>2. RemoteTells(k) /\ LocalTells(k) BY <1>1 DEF Store
        <3>3. ~Unsure(k, w) /\ w # 0 BY <1>1, SafeType
        <3> QED BY <3>1, <3>2, <3>3 DEF RemoteTells, LocalTells, There
    <2> QED BY <2>1, <2>2
<1>4. \A w \in Safe :
          /\ There(local, k, w) => There(local, k, w)' \/ \E i \in Keys \ {k} : Firm(local, remote, i, w)
          /\ There(remote, k, w) => \E i \in Keys \ {k} : Firm(remote, local, i, w)
          /\ (\E j \in Keys : OneEnded(j, w)) =>
                 /\ \E i \in Keys : Firm(local, remote, i, w) /\ (i = k => There(local, k, w)' /\ ~Synced(k, w))
                 /\ \E i \in Keys \ {k} : Firm(remote, local, i, w)
    <2> TAKE w \in Safe
    <2>1. MayFollow(w) BY DEF Store
    <2>2. ~Firm(remote, local, k, w) BY <1>3 DEF Firm
    <2>3. Firm(local, remote, k, w) => There(local, k, w)' /\ ~Synced(k, w) BY <1>3 DEF Firm
    <2>4. /\ There(local, k, w) => (There(local, k, w)' /\ ~Synced(k, w)) \/ OneEnded(k, w)
          /\ There(remote, k, w) => OneEnded(k, w)
        BY <1>3 DEF OneEnded
    <2>5. OneEnded(k, w) => ~Firm(local, remote, k, w) BY <2>3 DEF OneEnded
    <2> QED BY <1>1, <2>1, <2>2, <2>3, <2>4, <2>5 DEF MayFollow
<1>5. Bounds' BY <1>1 DEF Store, Bounds, Dated
<1>6. \A j \in Keys : LocalTells(j)' /\ RemoteTells(j)'
    BY <1>1, <1>2 DEF Store, LocalTells, RemoteTells, Synced, Unsure
<1>7. ASSUME NEW w \in Safe
      PROVE  MayFollow(w)'
    <2> SUFFICES ASSUME NEW j \in Keys, OneEnded(j, w)'
                 PROVE  /\ \E i \in Keys : Firm(local, remote, i, w)'
                        /\ \E i \in Keys : Firm(remote, local, i, w)'
        BY DEF MayFollow
    <2>1. \E x \in Keys : OneEnded(x, w)
        <3>1. CASE j # k BY <1>2, <3>1 DEF OneEnded
        <3>2. CASE j = k
            <4>1. Synced(k, w) /\ ~There(remote, k, w)' BY <1>1, <1>2, <3>2 DEF OneEnded, There
            <4>2. There(local, k, w) BY <1>2, <3>2, <4>1 DEF OneEnded
            <4> QED BY <1>1, <1>3, <4>1, <4>2 DEF OneEnded
        <3> QED BY <3>1, <3>2
    <2>2. PICK i \in Keys : Firm(local, remote, i, w) /\ (i = k => There(local, k, w)' /\ ~Synced(k, w))
        BY <1>4, <2>1
    <2>3. PICK x \in Keys \ {k} : Firm(remote, local, x, w) BY <1>4, <2>1
    <2>4. Firm(local, remote, i, w)' BY <1>2, <2>2 DEF Firm
    <2>5. Firm(remote, local, x, w)' BY <1>2, <2>3 DEF Firm
    <2> QED BY <2>4, <2>5
<1>8. Store' BY <1>1, <1>5, <1>6, <1>7 DEF Store
<1>9. Promise!Sync
    <2>1. \A j \in Keys : \A w \in live \ atRisk' :
               /\ There(local, j, w) => \E i \in Keys : There(local, i, w)'
               /\ There(remote, j, w) => \E i \in Keys : There(remote, i, w)'
        BY <1>1, <1>2, <1>4 DEF Firm, Safe
    <2> QED BY <1>1, <1>2, <2>1, KeepsPromise
<1> QED BY <1>8, <1>9

(* The local file k goes to the server, where nothing is in its place. *)
Puts(k) ==
    /\ k \in Keys /\ local[k] # None /\ remote[k] = None
    /\ Entries[k] # None => LocalChanged(local[k], Entries[k])
    /\ remote' = [remote EXCEPT ![k] = [content |-> local[k].content, timestamp |-> now]]
    /\ UNCHANGED <<local, manifest>>

(* What is uploaded is on the disk under its name, where the server has    *)
(* nothing.                                                                *)
LEMMA PutsStore ==
    ASSUME Setting, TypeOK, Store, NoMove, NEW k, Puts(k)
    PROVE  Store' /\ Promise!Sync
<1> DEFINE v == local[k].content
<1>1. /\ k \in Keys /\ v \in Versions /\ now \in Nat /\ clock \in Nat
      /\ remote'[k] # None /\ remote'[k].content = v /\ remote'[k].timestamp = now
      /\ \A j \in Keys : j # k => remote'[j] = remote[j]
      /\ local' = local /\ Entries' = Entries /\ live' = live /\ clock' = clock /\ now' = now
      /\ retaken' = retaken /\ atRisk' = atRisk /\ Safe' = Safe
    <2>1. k \in Keys /\ local[k] \in LocalFile BY DEF Puts, TypeOK
    <2>2. v \in Versions BY <2>1 DEF LocalFile
    <2>3. now \in Nat /\ clock \in Nat BY NowType, BoundsAssumption DEF TypeOK, Moves
    <2>4. [content |-> v, timestamp |-> now] # None
        BY <2>2, <2>3, NoneAssumption DEF RemoteFile
    <2> QED BY <2>1, <2>2, <2>3, <2>4 DEF Puts, TypeOK, Entries, now, NoMove, Safe
<1>2. There(local, k, v) BY DEF Puts, There
<1> HIDE DEF v
<1>3. \A j \in Keys : \A w : /\ There(local, j, w)' <=> There(local, j, w)
                             /\ Synced(j, w)' <=> Synced(j, w)
                             /\ j # k => (There(remote, j, w)' <=> There(remote, j, w))
    BY <1>1 DEF There, Synced
<1>4. \A w : /\ There(remote, k, w)' <=> w = v
             /\ ~There(remote, k, w)
             /\ There(local, k, w) <=> w = v
    BY <1>1, <1>2 DEF There, Puts
<1>5. Entries[k] # None /\ ~Unsure(k, v) => /\ Synced(k, v) => v = 0
                                            /\ Entries[k].timestamp < now
    BY <1>1 DEF Store, LocalTells, Puts, v
<1>6. Bounds'
    BY <1>1, <1>2 DEF Store, Bounds, There, Dated
<1>7. ASSUME NEW j \in Keys
      PROVE  LocalTells(j)' /\ RemoteTells(j)'
    <2>0. LocalTells(j) /\ RemoteTells(j) BY DEF Store
    <2>1. LocalTells(j)' BY <1>1, <1>3, <2>0 DEF LocalTells, Unsure
    <2>2. CASE j # k BY <1>1, <1>3, <2>0, <2>1, <2>2 DEF RemoteTells, Unsure
    <2>3. CASE j = k
        <3>1. Entries[k] # None /\ ~Unsure(k, v) => RemoteChanged(remote'[k], Entries[k])
            BY <1>1, <1>5, <2>3 DEF RemoteChanged
        <3> QED BY <1>1, <1>3, <1>5, <2>1, <2>3, <3>1 DEF RemoteTells, Unsure
    <2> QED BY <2>1, <2>2, <2>3
<1>8. ASSUME NEW w \in Safe
      PROVE  MayFollow(w)'
    <2>0. MayFollow(w) BY DEF Store
    <2>1. CASE w = v
        BY <1>1, <1>3, <1>4, <2>1 DEF MayFollow, Firm
    <2>2. CASE w # v
        <3>1. \A j \in Keys : There(remote, j, w)' <=> There(remote, j, w) BY <1>1, <1>3, <1>4, <2>2
        <3> QED BY <1>3, <2>0, <3>1 DEF MayFollow, OneEnded, Firm
    <2> QED BY <2>1, <2>2
<1>9. Store' BY <1>1, <1>6, <1>7, <1>8 DEF Store
<1>10. Promise!Sync BY <1>1, <1>2, <1>3, <1>4, KeepsPromise
<1> QED BY <1>9, <1>10

(* The local file k becomes its conflicted copy c. *)
SetsAside(k, c) ==
    /\ k \in Keys /\ c \in Keys \ {k}
    /\ local[k] # None /\ remote[k] # None /\ local[c] = None
    /\ Entries[k] # None => /\ LocalChanged(local[k], Entries[k])
                            /\ RemoteChanged(remote[k], Entries[k])
    /\ local' = [local EXCEPT ![k] = None, ![c] = local[k]]
    /\ Retake(k, c)
    /\ UNCHANGED <<remote, manifest, clock, live>>

(* Under a name free everywhere the version set aside is firm; under one   *)
(* taken again it is not safe, nor is what the server had there.           *)
LEMMA RetakeCases ==
    ASSUME TypeOK, NEW k \in Keys, NEW c \in Keys, local[k] # None, Retake(k, c)
    PROVE  \/ remote[c] = None /\ Entries[c] = None /\ UNCHANGED <<retaken, atRisk>>
           \/ /\ retaken' = retaken \cup {c} /\ atRisk \subseteq atRisk' /\ local[k].content \in atRisk'
              /\ remote[c] # None => remote[c].content \in atRisk'
<1>1. remote[c] # None => remote[c].content \in Held([NoFiles EXCEPT ![c] = remote[c]])
    <2>1. c \in Keys /\ [NoFiles EXCEPT ![c] = remote[c]][c] = remote[c] BY DEF NoFiles
    <2> QED BY <2>1 DEF Held
<1> QED BY <1>1 DEF Retake, Entries

LEMMA AsideStore ==
    ASSUME Setting, TypeOK, Store, NEW k, NEW c, SetsAside(k, c)
    PROVE  Store' /\ Promise!Sync
<1> DEFINE v == local[k].content
<1>1. /\ k \in Keys /\ c \in Keys /\ c # k
      /\ local'[k] = None /\ local'[c] = local[k]
      /\ \A j \in Keys : j \notin {k, c} => local'[j] = local[j]
      /\ remote' = remote /\ Entries' = Entries /\ live' = live /\ clock' = clock /\ now' = now
    BY DEF SetsAside, TypeOK, Entries, now
<1>2. \/ remote[c] = None /\ Entries[c] = None /\ UNCHANGED <<retaken, atRisk>>
      \/ /\ c \in retaken' /\ v \in atRisk'
         /\ remote[c] # None => remote[c].content \in atRisk'
    BY <1>1, RetakeCases DEF SetsAside
<1>3. retaken \subseteq retaken' /\ atRisk \subseteq atRisk' /\ Safe' \subseteq Safe
    <2>1. retaken \subseteq retaken' /\ atRisk \subseteq atRisk' BY DEF SetsAside, Retake
    <2> QED BY <1>1, <2>1 DEF Safe
<1>4. There(local, k, v) BY DEF SetsAside, There
<1> HIDE DEF v
<1>5. \A j \in Keys : \A w : /\ There(remote, j, w)' <=> There(remote, j, w)
                             /\ Synced(j, w)' <=> Synced(j, w)
                             /\ Unsure(j, w) => Unsure(j, w)'
    BY <1>1, <1>3 DEF There, Synced, Unsure
<1>6. \A j \in Keys : \A w : /\ j \notin {k, c} => (There(local, j, w)' <=> There(local, j, w))
                             /\ There(local, c, w)' <=> w = v
                             /\ There(local, k, w) <=> w = v
                             /\ ~There(local, k, w)' /\ ~There(local, c, w)
    BY <1>1, <1>4 DEF There, SetsAside
<1>7. \A w \in Safe : Synced(k, w) => ~There(local, k, w)
    BY <1>1, SafeType DEF Store, LocalTells, SetsAside, There, Synced
<1>8. Bounds'
    <2>1. \A j \in Keys : local'[j] # None => \E x \in Keys : local'[j] = local[x] BY <1>1
    <2> QED BY <1>1, <2>1 DEF Store, Bounds, Dated
<1>9. ASSUME NEW j \in Keys
      PROVE  LocalTells(j)' /\ RemoteTells(j)'
    <2>0. LocalTells(j) /\ RemoteTells(j) BY DEF Store
    <2>1. RemoteTells(j)' BY <1>1, <1>5, <2>0 DEF RemoteTells
    <2>2. CASE j # c BY <1>1, <1>5, <2>0, <2>1, <2>2 DEF LocalTells
    <2>3. CASE j = c
        <3>1. Entries[c] = None \/ (c \in retaken' /\ v \in atRisk') BY <1>2
        <3>2. local'[c].content = v BY <1>1 DEF v
        <3> QED BY <1>1, <2>1, <2>3, <3>1, <3>2 DEF LocalTells, Unsure
    <2> QED BY <2>2, <2>3
<1>10. ASSUME NEW w \in Safe'
       PROVE  MayFollow(w)'
    <2>0. w \in Safe /\ MayFollow(w) /\ w \notin atRisk' BY <1>3 DEF Store, Safe
    <2>1. CASE w # v
        <3>1. \A j \in Keys : There(local, j, w)' <=> There(local, j, w) BY <1>6, <2>1
        <3> QED BY <1>5, <2>0, <3>1 DEF MayFollow, OneEnded, Firm
    <2>2. CASE w = v
        <3>0. remote[c] = None /\ Entries[c] = None BY <1>2, <2>0, <2>2
        <3>1. ~Synced(c, w) /\ ~Synced(k, w) /\ ~There(remote, c, w)
            BY <1>1, <1>6, <1>7, <2>0, <2>2, <3>0 DEF Synced, There
        <3> SUFFICES ASSUME NEW j \in Keys, OneEnded(j, w)'
                     PROVE  /\ \E i \in Keys : Firm(local, remote, i, w)'
                            /\ \E i \in Keys : Firm(remote, local, i, w)'
            BY DEF MayFollow
        <3>2. OneEnded(j, w) BY <1>5, <1>6, <3>1 DEF OneEnded
        <3>3. PICK x \in Keys : Firm(remote, local, x, w) BY <2>0, <3>2 DEF MayFollow
        <3>4. Firm(remote, local, x, w)' BY <1>5, <1>6, <3>1, <3>3 DEF Firm
        <3>5. Firm(local, remote, c, w)' BY <1>1, <1>5, <1>6, <2>2, <3>1 DEF Firm
        <3> QED BY <1>1, <3>4, <3>5
    <2> QED BY <2>1, <2>2
<1>11. Store' BY <1>1, <1>8, <1>9, <1>10 DEF Store
<1>12. Promise!Sync BY <1>1, <1>3, <1>5, <1>6, KeepsPromise
<1> QED BY <1>11, <1>12

(* Whatever a run does to a name that holds nothing safe: it fetches the   *)
(* file, removes it from the server, or uploads it over what is there.     *)
Churns(k) ==
    /\ k \in Keys /\ Odd(k) /\ UNCHANGED manifest
    /\ \/ /\ remote[k] # None /\ UNCHANGED remote
          /\ \E v \in {0, remote[k].content} : local' = [local EXCEPT ![k] = [content |-> v, mtime |-> now]]
       \/ remote' = [remote EXCEPT ![k] = None] /\ UNCHANGED local
       \/ /\ UNCHANGED local
          /\ remote' = [remote EXCEPT ![k] = [content |-> local[k].content, timestamp |-> now]]

LEMMA ChurnStore ==
    ASSUME Setting, TypeOK, Store, NoMove, NEW k, Churns(k)
    PROVE  Store' /\ Promise!Sync
<1>1. /\ k \in Keys /\ k \in retaken /\ now \in Nat /\ clock \in Nat
      /\ local[k] # None /\ local[k].content \in atRisk /\ local[k].content <= clock
      /\ remote[k] # None => remote[k].content \in atRisk /\ remote[k].content <= clock
      /\ \A j \in Keys : j # k => local'[j] = local[j] /\ remote'[j] = remote[j]
      /\ Entries' = Entries /\ live' = live /\ clock' = clock /\ now' = now
      /\ retaken' = retaken /\ atRisk' = atRisk /\ Safe' = Safe
    BY NowType, BoundsAssumption DEF Churns, Odd, TypeOK, Entries, now, NoMove, Safe, Moves, Store, Bounds
<1>2. /\ \/ local'[k] = local[k]
         \/ local'[k].content = 0
         \/ remote[k] # None /\ local'[k].content = remote[k].content
      /\ \/ remote'[k] \in {remote[k], None}
         \/ remote'[k].content = local[k].content /\ remote'[k].timestamp = now
    BY <1>1 DEF Churns, TypeOK
<1>3. \A j \in Keys : \A w : /\ Synced(j, w)' <=> Synced(j, w)
                             /\ j # k => /\ There(local, j, w)' <=> There(local, j, w)
                                         /\ There(remote, j, w)' <=> There(remote, j, w)
    BY <1>1 DEF There, Synced
<1>4. \A w \in Safe : /\ ~There(local, k, w) /\ ~There(local, k, w)'
                      /\ ~There(remote, k, w) /\ ~There(remote, k, w)'
    BY <1>1, <1>2, SafeType DEF There
<1>5. Bounds'
    <2>1. /\ local'[k] # None => local'[k].content <= clock
          /\ remote'[k] # None => remote'[k].content <= clock /\ remote'[k].timestamp <= now
        BY <1>1, <1>2 DEF Store, Bounds
    <2> QED BY <1>1, <2>1 DEF Store, Bounds, Dated
<1>6. ASSUME NEW j \in Keys
      PROVE  LocalTells(j)' /\ RemoteTells(j)'
    <2>1. CASE j # k BY <1>1, <1>3, <2>1 DEF Store, LocalTells, RemoteTells, Unsure
    <2>2. CASE j = k
        <3>1. local'[k] # None => local'[k].content \in atRisk' \cup {0} BY <1>1, <1>2
        <3>2. remote'[k] # None => remote'[k].content \in atRisk' \cup {0} BY <1>1, <1>2
        <3> QED BY <1>1, <2>2, <3>1, <3>2 DEF LocalTells, RemoteTells, Unsure
    <2> QED BY <2>1, <2>2
<1>7. ASSUME NEW w \in Safe
      PROVE  MayFollow(w)'
    BY <1>1, <1>3, <1>4 DEF Store, MayFollow, OneEnded, Firm
<1>8. Store' BY <1>1, <1>5, <1>6, <1>7 DEF Store
<1>9. Promise!Sync
    <2>1. \A w : /\ There(local, k, w)' => \/ w = 0
                                           \/ There(local, k, w) \/ There(remote, k, w)
                 /\ There(remote, k, w)' => There(local, k, w) \/ There(remote, k, w)
        BY <1>1, <1>2 DEF There
    <2>2. \A j \in Keys : \A w \in live \ atRisk' :
               /\ There(local, j, w) => There(local, j, w)'
               /\ There(remote, j, w) => There(remote, j, w)'
        BY <1>1, <1>3, <1>4 DEF Safe
    <2> QED BY <1>1, <1>3, <2>1, <2>2, KeepsPromise
<1> QED BY <1>8, <1>9

(* The manifest is replaced: an entry is dropped, or carried forward, or   *)
(* says what both ends hold, or is of a name with nothing safe in it.      *)
Saves ==
    /\ UNCHANGED <<local, remote>>
    /\ \A k \in Keys : \/ Entries'[k] \in {None, Entries[k]}
                       \/ Fresh(k, Entries'[k])
                       \/ Odd(k) /\ Dated(Entries'[k])

(* The new entries say what both ends hold, so nothing safe becomes one    *)
(* that may be dropped.                                                    *)
LEMMA SavesStore ==
    ASSUME Setting, TypeOK, TypeOK', Store, NoMove, Saves
    PROVE  Store' /\ Promise!Sync
<1>1. /\ local' = local /\ remote' = remote /\ live' = live /\ clock' = clock /\ now' = now
      /\ retaken' = retaken /\ atRisk' = atRisk /\ Safe' = Safe
      /\ now \in Nat /\ clock \in Nat
    BY NowType, BoundsAssumption DEF Saves, now, TypeOK, Moves, NoMove, Safe
<1>2. \A j \in Keys : \A w : /\ There(local, j, w)' <=> There(local, j, w)
                             /\ There(remote, j, w)' <=> There(remote, j, w)
    BY <1>1 DEF There
<1>3. ASSUME NEW k \in Keys, Fresh(k, Entries'[k])
      PROVE  /\ local[k] # None /\ remote[k] # None /\ remote[k].content = local[k].content
             /\ local[k].content \in Versions
             /\ Entries'[k].size = Size[local[k].content]
             /\ ~LocalChanged(local[k], Entries'[k]) /\ ~RemoteChanged(remote[k], Entries'[k])
             /\ Entries'[k].timestamp = remote[k].timestamp
             /\ \A w \in Versions : Synced(k, w)' => There(local, k, w) /\ There(remote, k, w)
    <2>1. local[k] # None /\ remote[k] # None /\ remote[k].content = local[k].content
          /\ local[k] \in LocalFile /\ remote[k] \in RemoteFile
        BY <1>3 DEF Fresh, Equal, There, TypeOK
    <2>2. Entries'[k] = [syncedAt |-> local[k].mtime, size |-> Size[local[k].content],
                         timestamp |-> remote[k].timestamp]
        BY <1>3 DEF Fresh, BaselineEntry
    <2>3. local[k].content \in Versions /\ local[k].mtime \in Nat /\ remote[k].timestamp \in Nat
        BY <2>1 DEF LocalFile, RemoteFile
    <2>4. ~LocalChanged(local[k], Entries'[k]) /\ ~RemoteChanged(remote[k], Entries'[k])
        BY <2>2, <2>3 DEF LocalChanged, RemoteChanged
    <2> QED BY <2>1, <2>2, <2>3, <2>4 DEF Synced, There, Setting, SizesDiffer
<1>4. \A k \in Keys : \/ Entries'[k] \in {None, Entries[k]} \/ Fresh(k, Entries'[k])
                      \/ Odd(k) /\ Dated(Entries'[k])
    BY DEF Saves
<1>5. \A k \in Keys : /\ Entries'[k] = Entries[k] => \A w : Synced(k, w)' <=> Synced(k, w)
                      /\ Entries'[k] = None => \A w : ~Synced(k, w)'
    BY DEF Synced
<1>6. \A k \in Keys : Odd(k) => \A w \in Safe : ~There(local, k, w) /\ ~There(remote, k, w)
    BY SafeType DEF Odd, There
<1>7. Bounds'
    <2> SUFFICES ASSUME NEW k \in Keys PROVE Dated(Entries[k])'
        BY <1>1 DEF Store, Bounds
    <2>1. CASE Entries'[k] = None BY <2>1 DEF Dated
    <2>2. CASE Entries'[k] = Entries[k] BY <1>1, <2>2 DEF Store, Bounds, Dated
    <2>3. CASE Fresh(k, Entries'[k])
        <3>1. local[k].content \in 0 .. clock
            BY <1>1, <1>3, <2>3, BoundsAssumption DEF Store, Bounds, Versions, Moves
        <3>2. remote[k].timestamp <= now BY <1>3, <2>3 DEF Store, Bounds
        <3> QED BY <1>1, <1>3, <2>3, <3>1, <3>2 DEF Dated
    <2>4. CASE Dated(Entries'[k]) BY <1>1, <2>4 DEF Dated
    <2> QED BY <1>4, <2>1, <2>2, <2>3, <2>4
<1>8. ASSUME NEW k \in Keys
      PROVE  LocalTells(k)' /\ RemoteTells(k)'
    <2>0. LocalTells(k) /\ RemoteTells(k) BY DEF Store
    <2>1. CASE Entries'[k] = None BY <2>1 DEF LocalTells, RemoteTells
    <2>2. CASE Entries'[k] = Entries[k] BY <1>1, <1>5, <2>0, <2>2 DEF LocalTells, RemoteTells, Unsure
    <2>3. CASE Fresh(k, Entries'[k])
        <3>1. LocalTells(k)' BY <1>1, <1>3, <2>3 DEF LocalTells
        <3>2. RemoteTells(k)' BY <1>1, <1>3, <2>3 DEF RemoteTells, Synced
        <3> QED BY <3>1, <3>2
    <2>4. CASE Odd(k) BY <1>1, <2>4 DEF Odd, LocalTells, RemoteTells, Unsure
    <2> QED BY <1>4, <2>1, <2>2, <2>3, <2>4
<1>9. ASSUME NEW w \in Safe
      PROVE  MayFollow(w)'
    <2>0. MayFollow(w) /\ w \in Versions BY SafeType DEF Store
    <2> SUFFICES ASSUME NEW j \in Keys, OneEnded(j, w)'
                 PROVE  /\ \E i \in Keys : Firm(local, remote, i, w)'
                        /\ \E i \in Keys : Firm(remote, local, i, w)'
        BY DEF MayFollow
    <2>1. OneEnded(j, w)
        <3>1. ~Fresh(j, Entries'[j]) BY <1>2, <1>3, <2>0 DEF OneEnded
        <3>2. ~Odd(j) BY <1>2, <1>6 DEF OneEnded
        <3> QED BY <1>2, <1>4, <1>5, <3>1, <3>2 DEF OneEnded
    <2>2. \A i \in Keys : There(local, i, w) \/ There(remote, i, w) =>
              \/ Synced(i, w)' => Synced(i, w)
              \/ There(local, i, w) /\ There(remote, i, w)
        BY <1>3, <1>4, <1>5, <1>6, <2>0
    <2>3. PICK i \in Keys : Firm(local, remote, i, w) BY <2>0, <2>1 DEF MayFollow
    <2>4. PICK x \in Keys : Firm(remote, local, x, w) BY <2>0, <2>1 DEF MayFollow
    <2>5. Firm(local, remote, i, w)' BY <1>2, <2>2, <2>3 DEF Firm
    <2>6. Firm(remote, local, x, w)' BY <1>2, <2>2, <2>4 DEF Firm
    <2> QED BY <2>5, <2>6
<1>10. Store' BY <1>1, <1>7, <1>8, <1>9 DEF Store
<1>11. Promise!Sync BY <1>1, <1>2, KeepsPromise
<1> QED BY <1>10, <1>11

-----------------------------------------------------------------------------
(* What the users do.                                                      *)

(* A version a user's move has touched and not given up is in step at both *)
(* ends somewhere else.                                                    *)
LEMMA KeptOrGiven ==
    ASSUME TypeOK, NEW files, files \in {local, remote}, NEW gone,
           NEW j \in Keys, j \in gone, NEW w, There(files, j, w), w \notin GivenUp(files, gone)
    PROVE  \E i \in Keys \ gone : There(local, i, w) /\ There(remote, i, w)
<1> DEFINE f == [k \in Keys |-> IF k \in gone THEN files[k] ELSE None]
<1>1. f[j] = files[j] /\ f[j] # None /\ f[j].content = w BY DEF There
<1>2. w \in Held(f) BY <1>1 DEF Held
<1>3. w \in KeptBeside(gone) BY <1>2 DEF GivenUp
<1> QED BY <1>3 DEF KeptBeside, There

LEMMA GivenWasThere ==
    ASSUME TypeOK, NEW files, files \in {local, remote}, NEW gone, NEW w \in GivenUp(files, gone)
    PROVE  /\ \E j \in Keys : j \in gone /\ There(files, j, w)
           /\ w \in Versions
           /\ \A i \in Keys : There(local, i, w) /\ There(remote, i, w) => i \in gone
<1> DEFINE f == [k \in Keys |-> IF k \in gone THEN files[k] ELSE None]
<1>1. w \in Held(f) /\ w \notin KeptBeside(gone) BY DEF GivenUp
<1>2. PICK j \in Keys : f[j] # None /\ f[j].content = w BY <1>1 DEF Held
<1>3. j \in gone /\ There(files, j, w) BY <1>2 DEF There
<1>4. w \in Versions BY <1>3 DEF There, TypeOK, LocalFile, RemoteFile
<1> QED BY <1>1, <1>3, <1>4 DEF KeptBeside, There

(* A write makes a version no file has to do with yet. *)
LEMMA WritesStore ==
    ASSUME Setting, TypeOK, TypeOK', Store, NEW k \in Keys, WriteLocal(k) \/ WriteRemote(k)
    PROVE  Store' /\ \E v \in 1 .. MaxMoves :
                     \E old \in {{}} \cup {{w} : w \in Held(local) \cup Held(remote)} :
                         Promise!Write(v, old)
<1> DEFINE n == clock + 1
           files == IF WriteLocal(k) THEN local ELSE remote
           old == GivenUp(files, {k})
<1>1. /\ clock \in Nat /\ clock' = n /\ n \in 1 .. MaxMoves /\ n \in Versions
      /\ now \in Nat /\ now' \in Nat /\ now < now'
      /\ manifest' = manifest /\ Entries' = Entries /\ retaken' = retaken /\ atRisk' = atRisk
    <2>1. Move("local") \/ Move("remote") BY DEF WriteLocal, WriteRemote
    <2>2. clock \in Nat /\ clock' = n /\ n \in 1 .. MaxMoves /\ n \in Moves /\ clock < n
        BY <2>1, BoundsAssumption DEF Move, TypeOK, Moves
    <2>3. now < now' BY <2>2 DEF Setting, SecondsDiffer, now, TypeOK
    <2>4. now \in Nat /\ now' \in Nat BY <2>2, DataAssumption DEF now, TypeOK
    <2>5. manifest' = manifest /\ retaken' = retaken /\ atRisk' = atRisk BY <2>1 DEF Move, disk
    <2> QED BY <2>2, <2>3, <2>4, <2>5 DEF Versions, Entries
<1>2. /\ \A j \in Keys : j # k => local'[j] = local[j] /\ remote'[j] = remote[j]
      /\ WriteLocal(k) => local' = [local EXCEPT ![k] = [content |-> n, mtime |-> now']]
                          /\ remote' = remote
      /\ ~WriteLocal(k) => remote' = [remote EXCEPT ![k] = [content |-> n, timestamp |-> now']]
                           /\ local' = local
    BY <1>1 DEF WriteLocal, WriteRemote, TypeOK, now
<1>3. [content |-> n, mtime |-> now'] # None /\ [content |-> n, timestamp |-> now'] # None
    BY <1>1, NoneAssumption DEF LocalFile, RemoteFile
<1>4. live' = (live \ old) \cup {n} BY <1>1 DEF WriteLocal, WriteRemote
<1>5. \A j \in Keys : ~There(local, j, n) /\ ~There(remote, j, n) /\ ~Synced(j, n)
    <2> TAKE j \in Keys
    <2>1. ~There(local, j, n) /\ ~There(remote, j, n) BY <1>1 DEF Store, Bounds, There
    <2>2. ~Synced(j, n)
        <3> SUFFICES ASSUME Synced(j, n) PROVE FALSE OBVIOUS
        <3>1. PICK v \in 0 .. clock : Entries[j].size = Size[v] BY DEF Store, Bounds, Dated, Synced
        <3>2. v \in Versions /\ v # n BY <1>1, BoundsAssumption DEF Versions, Moves
        <3> QED BY <1>1, <3>1, <3>2 DEF Synced, Setting, SizesDiffer
    <2> QED BY <2>1, <2>2
<1>6. \A j \in Keys : \A w : Synced(j, w)' <=> Synced(j, w) BY <1>1 DEF Synced
<1>7. \A j \in Keys : \A w : /\ j # k => /\ There(local, j, w)' <=> There(local, j, w)
                                         /\ There(remote, j, w)' <=> There(remote, j, w)
                             /\ WriteLocal(k) => /\ There(local, k, w)' <=> w = n
                                                 /\ There(remote, k, w)' <=> There(remote, k, w)
                             /\ ~WriteLocal(k) => /\ There(remote, k, w)' <=> w = n
                                                  /\ There(local, k, w)' <=> There(local, k, w)
    BY <1>1, <1>2, <1>3 DEF There, TypeOK
<1>8. files \in {local, remote} OBVIOUS
<1>9. \A w : There(files, k, w) /\ w \notin old
             => \E i \in Keys \ {k} : There(local, i, w) /\ There(remote, i, w)
    BY <1>8, KeptOrGiven
<1>10. \A w \in old : /\ There(files, k, w)
                      /\ \A i \in Keys \ {k} : ~(There(local, i, w) /\ There(remote, i, w))
    <2> TAKE w \in old
    <2>1. w \in GivenUp(files, {k}) OBVIOUS
    <2> HIDE DEF old, files
    <2>2. /\ \E j \in Keys : j \in {k} /\ There(files, j, w)
          /\ \A i \in Keys : There(local, i, w) /\ There(remote, i, w) => i \in {k}
        BY <1>8, <2>1, GivenWasThere
    <2> QED BY <2>2
<1>11. /\ WriteLocal(k) => files = local
       /\ ~WriteLocal(k) => files = remote
    OBVIOUS
<1> HIDE DEF n, old, files
<1>12. Bounds'
    <2>1. live' \subseteq 1 .. n
        <3>1. live \subseteq 1 .. clock BY DEF Store, Bounds
        <3>2. 1 .. clock \subseteq 1 .. n /\ n \in 1 .. n BY <1>1 DEF n
        <3> QED BY <1>4, <3>1, <3>2
    <2>2. ASSUME NEW j \in Keys
          PROVE  /\ local'[j] # None => local'[j].content <= n
                 /\ remote'[j] # None => remote'[j].content <= n /\ remote'[j].timestamp <= now'
        <3>1. CASE j = k /\ WriteLocal(k)
            BY <1>1, <1>2, <1>3, <3>1 DEF Store, Bounds, TypeOK, LocalFile, RemoteFile, Versions, Moves, n
        <3>2. CASE j = k /\ ~WriteLocal(k)
            BY <1>1, <1>2, <1>3, <3>2 DEF Store, Bounds, TypeOK, LocalFile, RemoteFile, Versions, Moves, n
        <3>3. CASE j # k
            BY <1>1, <1>2, <3>3 DEF Store, Bounds, TypeOK, LocalFile, RemoteFile, Versions, Moves, n
        <3> QED BY <3>1, <3>2, <3>3
    <2>3. ASSUME NEW j \in Keys, Entries[j] # None
          PROVE  Entries[j].timestamp <= now' /\ \E v \in 0 .. n : Entries[j].size = Size[v]
        <3>1. Entries[j].timestamp \in Nat BY <2>3 DEF TypeOK, Manifest, Entry, Entries
        <3>2. Entries[j].timestamp <= now /\ \E v \in 0 .. clock : Entries[j].size = Size[v]
            BY <2>3 DEF Store, Bounds, Dated
        <3> QED BY <1>1, <3>1, <3>2 DEF n
    <2> QED BY <1>1, <2>1, <2>2, <2>3 DEF Bounds, Dated
<1>13. ASSUME NEW j \in Keys
       PROVE  LocalTells(j)' /\ RemoteTells(j)'
    <2>0. LocalTells(j) /\ RemoteTells(j) /\ \A w : Unsure(j, w)' <=> Unsure(j, w)
        BY <1>1 DEF Store, Unsure
    <2>1. Entries[j] # None => Entries[j].timestamp < now' /\ now' > Entries[j].timestamp
        <3>1. Entries[j] # None => Entries[j].timestamp \in Nat /\ Entries[j].timestamp <= now
            BY DEF Store, Bounds, Dated, TypeOK, Manifest, Entry, Entries
        <3> QED BY <1>1, <3>1
    <2>2. LocalTells(j)'
        <3>1. CASE j = k /\ WriteLocal(k)
            BY <1>1, <1>2, <1>3, <1>5, <1>6, <2>1, <3>1 DEF LocalTells, TypeOK
        <3>2. CASE ~(j = k /\ WriteLocal(k))
            <4>1. local'[j] = local[j] BY <1>2, <3>2
            <4> QED BY <1>1, <1>6, <2>0, <2>1, <4>1 DEF LocalTells, Unsure
        <3> QED BY <3>1, <3>2
    <2>3. RemoteTells(j)'
        <3>1. CASE j = k /\ ~WriteLocal(k)
            <4>1. remote'[k].timestamp = now' /\ remote'[k].content = n
                BY <1>1, <1>2, <3>1 DEF TypeOK
            <4>2. Entries[k] # None => RemoteChanged(remote'[k], Entries[k])
                BY <2>1, <3>1, <4>1 DEF RemoteChanged
            <4> QED BY <1>1, <1>5, <1>6, <3>1, <4>1, <4>2 DEF RemoteTells
        <3>2. CASE ~(j = k /\ ~WriteLocal(k))
            <4>1. remote'[j] = remote[j] BY <1>2, <3>2
            <4> QED BY <1>1, <1>6, <2>0, <4>1 DEF RemoteTells, Unsure
        <3> QED BY <3>1, <3>2
    <2> QED BY <2>2, <2>3
<1>14. ASSUME NEW w \in Safe'
       PROVE  MayFollow(w)'
    <2> SUFFICES ASSUME NEW j \in Keys, OneEnded(j, w)'
                 PROVE  /\ \E i \in Keys : Firm(local, remote, i, w)'
                        /\ \E i \in Keys : Firm(remote, local, i, w)'
        BY DEF MayFollow
    <2>1. w # n BY <1>5, <1>6 DEF OneEnded
    <2>2. w \in Safe /\ w \notin old BY <1>1, <1>4, <2>1 DEF Safe
    <2>3. MayFollow(w) BY <2>2 DEF Store
    <2>4. CASE There(files, k, w)
        <3>1. PICK i \in Keys \ {k} : There(local, i, w) /\ There(remote, i, w) BY <1>9, <2>2, <2>4
        <3>2. There(local, i, w)' /\ There(remote, i, w)' BY <1>7, <3>1
        <3> QED BY <3>2 DEF Firm
    <2>5. CASE ~There(files, k, w)
        <3>1. \A i \in Keys : /\ There(local, i, w)' <=> There(local, i, w)
                              /\ There(remote, i, w)' <=> There(remote, i, w)
            BY <1>7, <1>11, <2>1, <2>5
        <3> QED BY <1>6, <2>3, <3>1 DEF MayFollow, OneEnded, Firm
    <2> QED BY <2>4, <2>5
<1>15. Store'
    BY <1>12, <1>13, <1>14 DEF Store
<1>16. \E v \in 1 .. MaxMoves : \E gone \in {{}} \cup {{w} : w \in Held(local) \cup Held(remote)} :
           Promise!Write(v, gone)
    <2>1. old \in {{}} \cup {{w} : w \in Held(local) \cup Held(remote)}
        <3>1. \A w \in old : w \in Held(local) \cup Held(remote) BY <1>8, <1>10, HeldIsThere
        <3>2. \A u, w \in old : u = w BY <1>10 DEF There
        <3>3. CASE old = {} BY <3>3
        <3>4. CASE old # {}
            <4>1. PICK w : w \in old BY <3>4
            <4>2. old = {w} BY <3>2, <4>1
            <4> QED BY <3>1, <4>1, <4>2
        <3> QED BY <3>3, <3>4
    <2>2. n \notin Held(local) \cup Held(remote) BY <1>5, HeldIsThere
    <2>3. ASSUME NEW f, f \in {local, remote}, f = files,
                 NEW held, NEW later,
                 \A w : w \in held <=> \E j \in Keys : There(f, j, w),
                 \A w : w \in later <=> w = n \/ \E j \in Keys \ {k} : There(f, j, w)
          PROVE  later \in {held \cup {n}, (held \ old) \cup {n}}
        <3>1. CASE \E w : There(files, k, w) /\ w \notin held \ {w}
                          /\ (\A j \in Keys \ {k} : ~There(f, j, w))
            <4>1. PICK w : There(files, k, w) /\ \A j \in Keys \ {k} : ~There(f, j, w) BY <3>1
            <4>2. w \in old BY <1>9, <2>3, <4>1
            <4>3. \A u \in old : u = w BY <1>10, <4>1 DEF There
            <4>4. \A u : u \in held \ old <=> \E j \in Keys \ {k} : There(f, j, u)
                <5> TAKE u
                <5>1. CASE u = w BY <4>1, <4>2, <5>1
                <5>2. CASE u # w
                    <6>1. ~There(f, k, u) BY <2>3, <4>1, <5>2 DEF There
                    <6> QED BY <2>3, <4>3, <5>2, <6>1
                <5> QED BY <5>1, <5>2
            <4>5. later = (held \ old) \cup {n} BY <2>3, <4>4
            <4> QED BY <4>5
        <3>2. CASE ~\E w : There(files, k, w) /\ w \notin held \ {w}
                           /\ (\A j \in Keys \ {k} : ~There(f, j, w))
            <4>1. \A u : u \in held <=> \E j \in Keys \ {k} : There(f, j, u) BY <2>3, <3>2
            <4>2. later = held \cup {n} BY <2>3, <4>1
            <4> QED BY <4>2
        <3> QED BY <3>1, <3>2
    <2>4. CASE WriteLocal(k)
        <3>1. Held(remote)' = Held(remote) BY <1>2, <2>4 DEF Held
        <3>2. \A w : w \in Held(local)' <=> w = n \/ \E j \in Keys \ {k} : There(local, j, w)
            BY <1>7, <2>4, HeldIsThere
        <3>3. \A w : w \in Held(local) <=> \E j \in Keys : There(local, j, w) BY HeldIsThere
        <3>4. Held(local)' \in {Held(local) \cup {n}, (Held(local) \ old) \cup {n}}
            BY <1>11, <2>3, <2>4, <3>2, <3>3
        <3> QED BY <1>1, <1>4, <2>1, <2>2, <3>1, <3>4 DEF Promise!Write
    <2>5. CASE ~WriteLocal(k)
        <3>1. Held(local)' = Held(local) BY <1>2, <2>5 DEF Held
        <3>2. \A w : w \in Held(remote)' <=> w = n \/ \E j \in Keys \ {k} : There(remote, j, w)
            BY <1>7, <2>5, HeldIsThere
        <3>3. \A w : w \in Held(remote) <=> \E j \in Keys : There(remote, j, w) BY HeldIsThere
        <3>4. Held(remote)' \in {Held(remote) \cup {n}, (Held(remote) \ old) \cup {n}}
            BY <1>11, <2>3, <2>5, <3>2, <3>3
        <3> QED BY <1>1, <1>4, <2>1, <2>2, <3>1, <3>4 DEF Promise!Write
    <2> QED BY <2>4, <2>5
<1> QED BY <1>15, <1>16

(* A user deletes a file, a conflicted copy, or a folder with what is in it. *)
LEMMA DeletesStore ==
    ASSUME Setting, TypeOK, TypeOK', Store, NEW gone, DeleteLocally(gone) \/ DeleteRemotely(gone)
    PROVE  Store' /\ Promise!Discard
<1> DEFINE files == IF DeleteLocally(gone) THEN local ELSE remote
<1>1. /\ clock \in Nat /\ clock' = clock + 1 /\ now \in Nat /\ now' \in Nat /\ now < now'
      /\ manifest' = manifest /\ Entries' = Entries /\ retaken' = retaken /\ atRisk' = atRisk
    <2>1. Move("local") \/ Move("remote") BY DEF DeleteLocally, DeleteRemotely
    <2>2. clock \in Nat /\ clock' = clock + 1 /\ clock' \in Moves /\ clock < clock'
        BY <2>1, BoundsAssumption DEF Move, TypeOK, Moves
    <2>3. now < now' BY <2>2 DEF Setting, SecondsDiffer, now, TypeOK
    <2>4. now \in Nat /\ now' \in Nat BY <2>2, DataAssumption DEF now, TypeOK
    <2>5. manifest' = manifest /\ retaken' = retaken /\ atRisk' = atRisk BY <2>1 DEF Move, disk
    <2> QED BY <2>2, <2>3, <2>4, <2>5 DEF Entries
<1>2. /\ files \in {local, remote} /\ live' = live \ GivenUp(files, gone)
      /\ \A j \in Keys : /\ local'[j] = local[j] \/ (files = local /\ j \in gone /\ local'[j] = None)
                         /\ remote'[j] = remote[j] \/ (files = remote /\ j \in gone /\ remote'[j] = None)
      /\ local' = local \/ remote' = remote
    <2>1. CASE DeleteLocally(gone) BY <2>1 DEF DeleteLocally, Without, TypeOK
    <2>2. CASE ~DeleteLocally(gone) BY <2>2 DEF DeleteRemotely, Without, TypeOK
    <2> QED BY <2>1, <2>2
<1> HIDE DEF files
<1>3. \A j \in Keys : \A w : /\ There(local, j, w)' => There(local, j, w)
                             /\ There(remote, j, w)' => There(remote, j, w)
                             /\ Synced(j, w)' <=> Synced(j, w)
                             /\ There(local, j, w) => \/ There(local, j, w)'
                                                      \/ j \in gone /\ There(files, j, w)
                             /\ There(remote, j, w) => \/ There(remote, j, w)'
                                                       \/ j \in gone /\ There(files, j, w)
                             /\ j \notin gone => /\ There(local, j, w)' <=> There(local, j, w)
                                                 /\ There(remote, j, w)' <=> There(remote, j, w)
    BY <1>1, <1>2 DEF There, Synced
<1>4. \A w \in live' : (\E j \in Keys : j \in gone /\ There(files, j, w))
                       => \E i \in Keys : There(local, i, w)' /\ There(remote, i, w)'
    <2> TAKE w \in live'
    <2> HAVE \E j \in Keys : j \in gone /\ There(files, j, w)
    <2>1. PICK j \in Keys : j \in gone /\ There(files, j, w) OBVIOUS
    <2>2. w \notin GivenUp(files, gone) BY <1>2
    <2>3. PICK i \in Keys \ gone : There(local, i, w) /\ There(remote, i, w)
        BY <1>2, <2>1, <2>2, KeptOrGiven
    <2> QED BY <1>3, <2>3
<1>5. Promise!Discard
    <2>1. Held(local)' \subseteq Held(local) /\ Held(remote)' \subseteq Held(remote)
        BY <1>3, HeldIsThere
    <2>2. Held(local)' = Held(local) \/ Held(remote)' = Held(remote)
        BY <1>2 DEF Held
    <2>3. live' \subseteq live /\ live \ live' \subseteq Held(local) \cup Held(remote)
        <3>1. \A w \in GivenUp(files, gone) : w \in Held(local) \cup Held(remote)
            BY <1>2, GivenWasThere, HeldIsThere
        <3> QED BY <1>2, <3>1
    <2>4. live' \cap ((Held(local) \ Held(local)') \cup (Held(remote) \ Held(remote)')) = {}
        <3> SUFFICES ASSUME NEW w \in live', w \in (Held(local) \ Held(local)') \cup (Held(remote) \ Held(remote)')
                     PROVE  FALSE
            OBVIOUS
        <3>1. \E j \in Keys : j \in gone /\ There(files, j, w) BY <1>3, HeldIsThere
        <3>2. \E i \in Keys : There(local, i, w)' /\ There(remote, i, w)' BY <1>4, <3>1
        <3> QED BY <3>2, HeldIsThere
    <2> QED BY <1>1, <2>1, <2>2, <2>3, <2>4 DEF Promise!Discard
<1>6. Bounds'
    <2>1. live' \subseteq 1 .. clock'
        <3>1. live \subseteq 1 .. clock BY DEF Store, Bounds
        <3>2. 1 .. clock \subseteq 1 .. clock' BY <1>1
        <3> QED BY <1>2, <3>1, <3>2
    <2>2. ASSUME NEW j \in Keys
          PROVE  /\ local'[j] # None => local'[j].content <= clock'
                 /\ remote'[j] # None => remote'[j].content <= clock' /\ remote'[j].timestamp <= now'
                 /\ Entries[j] # None => Entries[j].timestamp <= now'
        <3>1. /\ local'[j] # None => local'[j].content <= clock /\ local'[j].content \in Nat
              /\ remote'[j] # None => /\ remote'[j].content <= clock /\ remote'[j].content \in Nat
                                      /\ remote'[j].timestamp <= now /\ remote'[j].timestamp \in Nat
              /\ Entries[j] # None => Entries[j].timestamp <= now /\ Entries[j].timestamp \in Nat
            BY <1>2 DEF Store, Bounds, Dated, TypeOK, LocalFile, RemoteFile, Versions, Moves, Manifest,
                Entry, Entries
        <3> QED BY <1>1, <3>1
    <2>3. \A j \in Keys : Entries[j] # None => \E v \in 0 .. clock' : Entries[j].size = Size[v]
        BY <1>1 DEF Store, Bounds, Dated
    <2> QED BY <1>1, <2>1, <2>2, <2>3 DEF Bounds, Dated
<1>7. ASSUME NEW j \in Keys
      PROVE  LocalTells(j)' /\ RemoteTells(j)'
    <2>0. LocalTells(j) /\ RemoteTells(j) BY DEF Store
    <2>1. Entries[j] # None => Entries[j].timestamp < now'
        <3>1. Entries[j] # None => Entries[j].timestamp \in Nat /\ Entries[j].timestamp <= now
            BY DEF Store, Bounds, Dated, TypeOK, Manifest, Entry, Entries
        <3> QED BY <1>1, <3>1
    <2>2. LocalTells(j)' BY <1>1, <1>2, <1>3, <2>0, <2>1 DEF LocalTells, Unsure
    <2>3. RemoteTells(j)' BY <1>1, <1>2, <1>3, <2>0 DEF RemoteTells, Unsure
    <2> QED BY <2>2, <2>3
<1>8. ASSUME NEW w \in Safe'
      PROVE  MayFollow(w)'
    <2>1. w \in Safe /\ w \in live' BY <1>1, <1>2 DEF Safe
    <2>2. CASE \E j \in Keys : j \in gone /\ There(files, j, w)
        BY <1>4, <2>1, <2>2 DEF MayFollow, Firm
    <2>3. CASE ~\E j \in Keys : j \in gone /\ There(files, j, w)
        <3>1. \A i \in Keys : /\ There(local, i, w)' <=> There(local, i, w)
                              /\ There(remote, i, w)' <=> There(remote, i, w)
            BY <1>3, <2>3
        <3> QED BY <1>3, <2>1, <3>1 DEF Store, MayFollow, OneEnded, Firm
    <2> QED BY <2>2, <2>3
<1>9. Store' BY <1>6, <1>7, <1>8 DEF Store
<1> QED BY <1>5, <1>9

-----------------------------------------------------------------------------
(* The invariant: the run.  Nobody else acts while it is running, so what   *)
(* it has read stays true but for what it does itself.                      *)

Working == run.pc \in {"files", "put", "fetch", "push", "record"}
Pending == (run.todo \cap Keys) \ {run.cur}
Known == run.dirs \cup {Root}

Frame ==
    /\ run.pc \notin {"idle", "listed"} => run.base = manifest
    /\ run.pc \in {"listed", "folders"} => run.files = remote
    /\ run.pc \in {"idle", "listed", "folders"} => run.saved.files = NoFiles
    /\ run.pc # "idle" => \A k \in Keys : run.files[k] # None => /\ Parent[k] \in Known
                                                                  /\ run.files[k].timestamp <= now
    /\ run.pc \in {"listed", "folders", "files"} => run.cur = None
    /\ run.pc = "cleanup" => run.todo = {}

(* The plan is right about a file whose turn has not come, ... *)
Planned(k) ==
    /\ ~(local[k] = None /\ remote[k] = None /\ Entries[k] = None)
    /\ run.files[k] = remote[k]
    /\ run.plan[k] = Decide(local[k], remote[k], Entries[k])
    /\ run.saved.files[k] = None

(* ... unless a conflict of this run has taken its name, which was not on  *)
(* the disk when the plan was made.                                        *)
Mixed(k) ==
    /\ Odd(k) /\ Dated(run.saved.files[k])
    /\ run.plan[k] \in {"download", "deleteRemote", "dropBaseline"}
    /\ run.plan[k] # "dropBaseline" => remote[k] # None /\ run.files[k] # None

PlanTrue == Working => \A k \in Pending : Planned(k) \/ Mixed(k)

(* Between the deletion of the old remote file and the upload. *)
AtPut ==
    run.pc = "put" =>
        /\ run.cur \in run.todo /\ run.plan[run.cur] = "upload"
        /\ remote[run.cur] = None /\ local[run.cur] # None
        /\ Entries[run.cur] # None /\ LocalChanged(local[run.cur], Entries[run.cur])

(* Between the steps of a conflict. *)
NewCopy(c) == remote[c] = None /\ Entries[c] = None /\ c \notin run.todo
OldCopy(c) == Odd(c) /\ (c \in run.todo => Mixed(c))
AtConflict ==
    run.pc \in {"fetch", "push"} =>
        /\ run.cur \in run.todo /\ run.copy \in Keys \ {run.cur}
        /\ remote[run.cur] # None /\ run.files[run.cur] = remote[run.cur]
        /\ Entries[run.cur] # None => RemoteChanged(remote[run.cur], Entries[run.cur])
        /\ local[run.copy] # None /\ (NewCopy(run.copy) \/ OldCopy(run.copy))
        /\ run.pc = "fetch" => local[run.cur] = None
        /\ run.pc = "push" => Equal(run.cur)

(* Before the entry of a transfer is recorded. *)
AtRecord ==
    run.pc = "record" =>
        /\ run.cur \in run.todo /\ Equal(run.cur)
        /\ run.copy # None => /\ run.copy \in Keys \ {run.cur} /\ Equal(run.copy)
                              /\ run.copy \in run.todo => Mixed(run.copy)
                              /\ run.files[run.cur] = remote[run.cur]
        /\ run.plan[run.cur] # "upload" =>
               \/ run.files[run.cur] = remote[run.cur]
               \/ Odd(run.cur) /\ run.files[run.cur] # None

(* An entry to be saved is an old one or says what both ends hold, or is   *)
(* of a name with nothing safe in it.                                      *)
SavedOk(k) ==
    \/ run.saved.files[k] \in {None, Entries[k]}
    \/ Fresh(k, run.saved.files[k])
    \/ Odd(k) /\ Dated(run.saved.files[k])
SavedTrue ==
    Working \/ run.pc = "cleanup" =>
        /\ \A k \in Keys : SavedOk(k)
        /\ run.cur # None => \/ run.saved.files[run.cur] = None
                             \/ Odd(run.cur) /\ Dated(run.saved.files[run.cur])
        /\ run.copy # None => run.saved.files[run.copy] \in {None, Entries[run.copy]}

(* A file whose turn has come is gone from both ends, or is stranded for    *)
(* want of a folder, or is the same on both ends with an entry that says    *)
(* so.  Of a retaken name with nothing safe at the server less is true: it  *)
(* is not on the server only, and a safe version on the disk was saved.     *)
Murky(k) ==
    /\ k \in retaken
    /\ remote[k] # None => remote[k].content \in atRisk \cup {0} /\ local[k] # None
    /\ local[k] # None => \/ local[k].content \in atRisk \cup {0}
                          \/ /\ run.saved.files[k] # None
                             /\ ~LocalChanged(local[k], run.saved.files[k])
Done(k) ==
    \/ local[k] = None /\ remote[k] = None
    \/ remote[k] = None /\ Parent[k] \notin Known
    \/ /\ Equal(k) /\ run.saved.files[k] # None
       /\ ~LocalChanged(local[k], run.saved.files[k])
       /\ ~RemoteChanged(remote[k], run.saved.files[k])
DoneTrue ==
    Working \/ run.pc = "cleanup" => \A k \in Keys :
        ~Murky(k) /\ k \notin run.todo /\ k # run.copy => Done(k)

RunTrue ==
    /\ Frame /\ PlanTrue /\ AtPut /\ AtConflict /\ AtRecord
    /\ SavedTrue /\ DoneTrue

(* When nothing runs there is nothing to be true of the run. *)
LEMMA IdleTrue ==
    ASSUME run' = IdleRun
    PROVE  RunTrue'
BY DEF IdleRun, EmptyManifest, RunTrue, Frame, PlanTrue, AtPut, AtConflict, AtRecord, SavedTrue, DoneTrue,
    Working

SamePlan == /\ UNCHANGED <<manifest, live, clock>>
            /\ retaken \subseteq retaken' /\ atRisk \subseteq atRisk'
            /\ run'.files = run.files /\ run'.dirs = run.dirs
            /\ run'.base = run.base /\ run'.plan = run.plan

(* What is true of a file stays true while nothing is done to it. *)
LEMMA Unmoved ==
    ASSUME SamePlan, NEW j \in Keys, local'[j] = local[j], remote'[j] = remote[j]
    PROVE  /\ Odd(j) => Odd(j)'
           /\ Equal(j) <=> Equal(j)'
           /\ Entries' = Entries /\ Known' = Known /\ now' = now
           /\ \A e : Dated(e) => Dated(e)'
           /\ run'.saved.files[j] = run.saved.files[j] =>
                  /\ Planned(j) => Planned(j)'
                  /\ Mixed(j) => Mixed(j)'
                  /\ SavedOk(j) => SavedOk(j)'
                  /\ Done(j) => Done(j)'
                  /\ Murky(j) => Murky(j)'
<1>1. Entries' = Entries /\ Known' = Known /\ now' = now BY DEF SamePlan, Entries, Known, now
<1>2. (Odd(j) => Odd(j)') /\ (Equal(j) <=> Equal(j)')
    BY DEF SamePlan, Odd, Equal, There
<1>3. \A e : Dated(e) => Dated(e)' BY <1>1 DEF SamePlan, Dated
<1>4. ASSUME run'.saved.files[j] = run.saved.files[j]
      PROVE  /\ Planned(j) => Planned(j)'
             /\ Mixed(j) => Mixed(j)'
             /\ SavedOk(j) => SavedOk(j)'
             /\ Done(j) => Done(j)'
             /\ Murky(j) => Murky(j)'
    <2>1. Dated(run.saved.files[j]) => Dated(run.saved.files[j])'
        <3>1. \A e : Dated(e) => (e # None => e.timestamp <= now' /\ \E v \in 0 .. clock' : e.size = Size[v])
            BY <1>1 DEF SamePlan, Dated
        <3> QED BY <1>4, <3>1 DEF Dated
    <2>2. Planned(j) => Planned(j)' BY <1>1, <1>4 DEF Planned, SamePlan
    <2>3. Mixed(j) => Mixed(j)' BY <1>2, <1>4, <2>1 DEF Mixed, SamePlan
    <2>4. SavedOk(j) => SavedOk(j)' BY <1>1, <1>2, <1>4, <2>1 DEF SavedOk, Fresh
    <2>5. Done(j) => Done(j)' BY <1>1, <1>2, <1>4 DEF Done
    <2>6. Murky(j) => Murky(j)' BY <1>4 DEF Murky, SamePlan
    <2> QED BY <2>2, <2>3, <2>4, <2>5, <2>6
<1> QED BY <1>1, <1>2, <1>3, <1>4

(* The operation on k ends, having touched the files T: the run goes on to *)
(* the next one.                                                           *)
LEMMA EndOp ==
    ASSUME TypeOK, RunTrue, Working, SamePlan, NEW k \in Keys, NEW T \in SUBSET Keys,
           run'.pc = "files", run'.cur = None, run'.copy = None, run'.todo = run.todo \ {k},
           run.cur \in {k, None}, run.copy \in T \cup {None}, k \in T,
           \A j \in Keys \ T : /\ local'[j] = local[j] /\ remote'[j] = remote[j]
                               /\ run'.saved.files[j] = run.saved.files[j],
           \A j \in T : SavedOk(j)' /\ (j \in run'.todo => Mixed(j)'),
           \A j \in T : Murky(j)' \/ j \in run'.todo \/ Done(j)'
    PROVE  RunTrue'
<1>1. Entries' = Entries /\ Known' = Known /\ now' = now BY DEF SamePlan, Entries, Known, now
<1>2. Frame'
    <2>1. run.base = manifest BY DEF RunTrue, Frame, Working
    <2>2. \A j \in Keys : run.files[j] # None => Parent[j] \in Known /\ run.files[j].timestamp <= now
        BY DEF RunTrue, Frame, Working
    <2> QED BY <1>1, <2>1, <2>2 DEF Frame, SamePlan
<1>3. PlanTrue'
    <2> SUFFICES ASSUME NEW j \in Pending' PROVE Planned(j)' \/ Mixed(j)'
        BY DEF PlanTrue
    <2>1. j \in Keys /\ j \in Pending /\ j \in run'.todo BY NoneAssumption DEF Pending
    <2>2. CASE j \in T BY <2>1, <2>2
    <2>3. CASE j \notin T BY <2>1, <2>3, Unmoved DEF RunTrue, PlanTrue
    <2> QED BY <2>2, <2>3
<1>4. AtPut' /\ AtConflict' /\ AtRecord' BY DEF AtPut, AtConflict, AtRecord
<1>5. SavedTrue'
    <2>1. ASSUME NEW j \in Keys PROVE SavedOk(j)'
        <3>1. CASE j \in T BY <3>1
        <3>2. CASE j \notin T BY <3>2, Unmoved DEF RunTrue, SavedTrue
        <3> QED BY <3>1, <3>2
    <2> QED BY <2>1 DEF SavedTrue
<1>6. DoneTrue'
    <2> SUFFICES ASSUME NEW j \in Keys, ~Murky(j)', j \notin run'.todo PROVE Done(j)'
        BY DEF DoneTrue
    <2>1. CASE j \in T BY <2>1
    <2>2. CASE j \notin T
        <3>0. ~Murky(j) BY <2>2, Unmoved
        <3>1. Done(j) BY <2>2, <3>0, NoneAssumption DEF RunTrue, DoneTrue
        <3> QED BY <2>2, <3>1, Unmoved
    <2> QED BY <2>1, <2>2
<1> QED BY <1>2, <1>3, <1>4, <1>5, <1>6 DEF RunTrue

(* So does one that has touched k only. *)
LEMMA EndOne ==
    ASSUME TypeOK, RunTrue, Working, SamePlan, NEW k \in Keys,
           run'.pc = "files", run'.cur = None, run'.copy = None, run'.todo = run.todo \ {k},
           run.cur \in {k, None}, run.copy = None,
           \A j \in Keys \ {k} : /\ local'[j] = local[j] /\ remote'[j] = remote[j]
                                 /\ run'.saved.files[j] = run.saved.files[j],
           SavedOk(k)', Murky(k)' \/ Done(k)'
    PROVE  RunTrue'
<1> DEFINE T == {k}
<1>1. T \in SUBSET Keys /\ k \in T /\ run.copy \in T \cup {None} OBVIOUS
<1>2. \A j \in Keys \ T : /\ local'[j] = local[j] /\ remote'[j] = remote[j]
                          /\ run'.saved.files[j] = run.saved.files[j]
    OBVIOUS
<1>3. \A j \in T : SavedOk(j)' /\ (j \in run'.todo => Mixed(j)')
    <2>1. k \notin run'.todo OBVIOUS
    <2> QED BY <2>1
<1>4. \A j \in T : Murky(j)' \/ j \in run'.todo \/ Done(j)'
    OBVIOUS
<1> HIDE DEF T
<1> QED BY <1>1, <1>2, <1>3, <1>4, EndOp

(* An operation goes on to its next await. *)
LEMMA OpGoesOn ==
    ASSUME TypeOK, RunTrue, Working, SamePlan, NEW k \in Keys,
           run'.pc \in {"put", "fetch", "push", "record"}, run'.cur = k,
           run'.todo = run.todo, run'.saved = run.saved,
           run.cur \in {k, None}, NEW c, run'.copy = c, run.copy \in {c, None}, k \in run.todo,
           \/ run.saved.files[k] = None
           \/ Odd(k)' /\ Dated(run.saved.files[k]),
           c # None => /\ c \in Keys \ {k} /\ run.saved.files[c] \in {None, Entries[c]}
                       /\ c \in run.todo => Mixed(c)',
           \A j \in Keys \ {k, c} : local'[j] = local[j] /\ remote'[j] = remote[j],
           AtPut', AtConflict', AtRecord'
    PROVE  RunTrue'
<1>1. Entries' = Entries /\ Known' = Known /\ now' = now BY DEF SamePlan, Entries, Known, now
<1>2. Frame'
    <2>1. run.base = manifest BY DEF RunTrue, Frame, Working
    <2>2. \A j \in Keys : run.files[j] # None => Parent[j] \in Known /\ run.files[j].timestamp <= now
        BY DEF RunTrue, Frame, Working
    <2> QED BY <1>1, <2>1, <2>2 DEF Frame, SamePlan
<1>3. PlanTrue'
    <2> SUFFICES ASSUME NEW j \in Pending' PROVE Planned(j)' \/ Mixed(j)'
        BY DEF PlanTrue
    <2>1. j \in Keys /\ j \in Pending /\ j \in run.todo /\ j # k BY NoneAssumption DEF Pending
    <2>2. CASE j = c BY <2>1, <2>2, NoneAssumption
    <2>3. CASE j # c BY <2>1, <2>3, Unmoved DEF RunTrue, PlanTrue
    <2> QED BY <2>2, <2>3
<1>4. \A e : Dated(e) => (e # None => e.timestamp <= now' /\ \E v \in 0 .. clock' : e.size = Size[v])
    BY <1>1 DEF SamePlan, Dated
<1>5. SavedTrue'
    <2>1. \/ run'.saved.files[k] = None
          \/ Odd(k)' /\ Dated(run.saved.files[k])'
        BY <1>4 DEF Dated
    <2>2. ASSUME NEW j \in Keys PROVE SavedOk(j)'
        <3>1. CASE j = k BY <2>1, <3>1 DEF SavedOk
        <3>2. CASE j = c BY <1>1, <3>2, NoneAssumption DEF SavedOk
        <3>3. CASE j \notin {k, c} BY <3>3, Unmoved DEF RunTrue, SavedTrue
        <3> QED BY <3>1, <3>2, <3>3
    <2> QED BY <1>1, <2>1, <2>2 DEF SavedTrue
<1>6. DoneTrue'
    <2> SUFFICES ASSUME NEW j \in Keys, ~Murky(j)', j \notin run.todo, j # c PROVE Done(j)'
        BY DEF DoneTrue
    <2>0. ~Murky(j) BY Unmoved
    <2>1. Done(j) BY <2>0, NoneAssumption DEF RunTrue, DoneTrue
    <2> QED BY <2>1, Unmoved
<1> QED BY <1>2, <1>3, <1>5, <1>6 DEF RunTrue

-----------------------------------------------------------------------------
(* What the operations of the plan do.                                     *)

(* The operation is the right one for what the two ends hold, or one on a  *)
(* name that this run has taken again.                                     *)
LEMMA Chosen ==
    ASSUME Inv, RunTrue, NEW k \in Keys, NEW type, Op(k, type)
    PROVE  /\ Working /\ run.pc = "files" /\ run.cur = None /\ run.copy = None
           /\ k \in run.todo /\ run.plan[k] = type
           /\ run.base.files = Entries
           /\ \/ Mixed(k)
              \/ /\ run.saved.files[k] = None /\ run.files[k] = remote[k]
                 /\ ~(local[k] = None /\ remote[k] = None /\ Entries[k] = None)
                 /\ type = Decide(local[k], remote[k], Entries[k])
<1>1. run.pc = "files" /\ k \in run.todo /\ run.plan[k] = type BY DEF Op, At
<1>2. Working /\ run.copy = None BY <1>1 DEF Working, Inv, RunShape
<1>3. run.cur = None /\ run.base = manifest BY <1>1 DEF RunTrue, Frame
<1>4. k \in Pending BY <1>1, <1>3, NoneAssumption DEF Pending
<1>5. Planned(k) \/ Mixed(k) BY <1>2, <1>4 DEF RunTrue, PlanTrue
<1> QED BY <1>1, <1>2, <1>3, <1>5 DEF Planned, Entries

(* What the manifest calls unchanged on both ends is the same file there,  *)
(* but for a name taken again.                                             *)
LEMMA SameFile ==
    ASSUME Setting, TypeOK, Store, NEW k \in Keys, ~Unsure(k, remote[k].content),
           local[k] # None, remote[k] # None, Entries[k] # None,
           ~LocalChanged(local[k], Entries[k]), ~RemoteChanged(remote[k], Entries[k])
    PROVE  Equal(k)
<1>1. Synced(k, remote[k].content) BY DEF Store, RemoteTells
<1>2. Size[local[k].content] = Size[remote[k].content] BY <1>1 DEF Synced, LocalChanged
<1>3. local[k].content \in Versions /\ remote[k].content \in Versions
    BY DEF TypeOK, LocalFile, RemoteFile
<1> QED BY <1>2, <1>3 DEF Setting, SizesDiffer, Equal, There

(* An entry made of what both ends hold calls them unchanged. *)
LEMMA FreshSettles ==
    ASSUME TypeOK, NEW k \in Keys, NEW entry, Fresh(k, entry)
    PROVE  entry # None /\ ~LocalChanged(local[k], entry) /\ ~RemoteChanged(remote[k], entry)
<1>1. local[k] \in LocalFile /\ remote[k] \in RemoteFile
    BY DEF Fresh, Equal, There, TypeOK
<1>2. entry = BaselineEntry(local[k], remote[k].timestamp) BY DEF Fresh
<1>3. entry \in Entry BY <1>1, <1>2, EntryType DEF RemoteFile
<1>4. entry.syncedAt = local[k].mtime /\ entry.size = Size[local[k].content]
      /\ entry.timestamp = remote[k].timestamp
    BY <1>2 DEF BaselineEntry
<1>5. local[k].mtime \in Nat /\ remote[k].timestamp \in Nat
    BY <1>1 DEF LocalFile, RemoteFile
<1> QED BY <1>3, <1>4, <1>5, NoneAssumption DEF LocalChanged, RemoteChanged

(* An entry made of a file on the disk is of a known size. *)
LEMMA EntryDated ==
    ASSUME TypeOK, Store, NEW k \in Keys, local[k] # None, NEW t, t <= now
    PROVE  Dated(BaselineEntry(local[k], t))
<1>1. local[k].content \in 0 .. clock
    BY BoundsAssumption DEF Store, Bounds, TypeOK, LocalFile, Versions, Moves
<1> QED BY <1>1 DEF Dated, BaselineEntry


(* An operation that changes neither end. *)
LEMMA QuietOp ==
    ASSUME Setting, Inv, Store, RunTrue, NEW k \in Keys,
           Noop(k) \/ DropBaseline(k) \/ Adopt(k) \/ SkipUpload(k)
    PROVE  UNCHANGED <<local, remote, manifest>> /\ NoMove /\ RunTrue'
<1>0. run \in Run /\ run.saved \in Manifest BY DEF Inv, TypeOK, Run
<1>1. UNCHANGED <<local, remote, manifest>> /\ NoMove
    BY DEF Noop, DropBaseline, Adopt, SkipUpload, EngineStep, stores, disk, users, NoMove
<1>2. PICK type \in {"noop", "dropBaseline", "adopt", "upload"} :
          /\ Op(k, type)
          /\ type = "noop" => Noop(k)
          /\ type = "dropBaseline" => DropBaseline(k)
          /\ type = "adopt" => Adopt(k)
          /\ type = "upload" => SkipUpload(k)
    BY DEF Noop, DropBaseline, Adopt, SkipUpload
<1>3. /\ Working /\ run.pc = "files" /\ run.cur = None /\ run.copy = None
      /\ k \in run.todo /\ run.plan[k] = type /\ run.base.files = Entries
      /\ \/ Mixed(k)
         \/ /\ run.saved.files[k] = None /\ run.files[k] = remote[k]
            /\ ~(local[k] = None /\ remote[k] = None /\ Entries[k] = None)
            /\ type = Decide(local[k], remote[k], Entries[k])
    BY <1>2, Chosen
<1>a. Mixed(k) => type = "dropBaseline" /\ Odd(k) /\ Dated(run.saved.files[k]) /\ k \in retaken
    BY <1>3 DEF Mixed, Odd
<1>b. ~Mixed(k) /\ type = "noop" => /\ Entries[k] # None /\ local[k] # None /\ remote[k] # None
                                    /\ ~LocalChanged(local[k], Entries[k])
                                    /\ ~RemoteChanged(remote[k], Entries[k])
    <2>1. ASSUME ~Mixed(k), type = "noop" PROVE Decide(local[k], remote[k], Entries[k]) = "noop"
        BY <1>3, <2>1
    <2> QED BY <1>3, <2>1, DecideTells
<1>4. PICK entry : /\ \/ run' = [run EXCEPT !.todo = @ \ {k}] /\ entry = run.saved.files[k]
                      \/ Finish(k, entry)
                   /\ ~Mixed(k) /\ type = "adopt" => Fresh(k, entry)
                   /\ ~Mixed(k) /\ type # "adopt" => entry \in {None, Entries[k]}
                   /\ Mixed(k) => Odd(k) /\ Dated(entry)
                   /\ type = "noop" => entry = Entries[k]
    <2>1. CASE type = "noop"
        <3>1. Finish(k, Entries[k]) /\ ~Mixed(k) BY <1>2, <1>3, <1>a, <2>1 DEF Noop
        <3> QED BY <2>1, <3>1
    <2>2. CASE type = "dropBaseline"
        <3>1. run' = [run EXCEPT !.todo = @ \ {k}] BY <1>2, <2>2 DEF DropBaseline
        <3> QED BY <1>3, <1>a, <2>2, <3>1
    <2>3. CASE type = "upload"
        <3>1. ~Mixed(k) /\ run.saved.files[k] = None BY <1>3, <1>a, <2>3
        <3> QED BY <1>2, <1>3, <2>3, <3>1 DEF SkipUpload
    <2>4. CASE type = "adopt"
        <3>0. ~Mixed(k) BY <1>a, <2>4
        <3>1. Decide(local[k], remote[k], Entries[k]) = "adopt" BY <1>3, <2>4, <3>0
        <3>2. local[k] # None /\ remote[k] # None /\ Size[local[k].content] = Size[remote[k].content]
            BY <1>3, <3>0, <3>1, DecideTells
        <3>3. local[k].content \in Versions /\ remote[k].content \in Versions
            BY <3>2 DEF Inv, TypeOK, LocalFile, RemoteFile
        <3>4. Equal(k) BY <3>2, <3>3 DEF Setting, SizesDiffer, Equal, There
        <3> QED BY <1>2, <1>3, <2>4, <3>0, <3>4 DEF Adopt, Fresh
    <2> QED BY <2>1, <2>2, <2>3, <2>4
<1>5. /\ run'.pc = "files" /\ run'.cur = None /\ run'.copy = None /\ run'.todo = run.todo \ {k}
      /\ \A j \in Keys \ {k} : run'.saved.files[j] = run.saved.files[j]
      /\ run'.saved.files[k] = entry
      /\ run'.files = run.files /\ run'.dirs = run.dirs /\ run'.base = run.base /\ run'.plan = run.plan
    <2>1. CASE run' = [run EXCEPT !.todo = @ \ {k}] /\ entry = run.saved.files[k]
        BY <1>0, <1>3, <2>1 DEF Run
    <2>2. CASE Finish(k, entry)
        <3>1. /\ run'.pc = "files" /\ run'.cur = None /\ run'.copy = None /\ run'.todo = run.todo \ {k}
              /\ run'.files = run.files /\ run'.dirs = run.dirs /\ run'.base = run.base
              /\ run'.plan = run.plan
            BY <1>0, <2>2 DEF Finish, Run
        <3>2. run'.saved.files = [run.saved.files EXCEPT ![k] = entry]
            BY <1>0, <2>2 DEF Finish, Run, Manifest
        <3> QED BY <1>0, <3>1, <3>2 DEF Manifest
    <2> QED BY <1>4, <2>1, <2>2
<1>8. SamePlan BY <1>1, <1>5 DEF SamePlan, NoMove
<1>6. SavedOk(k)'
    <2>1. /\ Entries' = Entries /\ (Fresh(k, entry) => Fresh(k, run.saved.files[k])') /\ (Odd(k) => Odd(k)')
        BY <1>1, <1>5 DEF Fresh, Equal, There, Entries, Odd, NoMove
    <2>2. Dated(entry) => Dated(run.saved.files[k])'
        <3>1. Dated(entry) => (entry # None => entry.timestamp <= now' /\ \E v \in 0 .. clock' : entry.size = Size[v])
            BY <1>1 DEF NoMove, Dated, now
        <3> QED BY <1>5, <3>1 DEF Dated
    <2> QED BY <1>4, <1>5, <2>1, <2>2 DEF SavedOk
<1>7. ASSUME ~Murky(k)' PROVE Done(k)'
    <2>0. /\ local' = local /\ remote' = remote /\ Known' = Known
          /\ ~Mixed(k) /\ type = Decide(local[k], remote[k], Entries[k])
        BY <1>1, <1>3, <1>5, <1>7, <1>a DEF Known, NoMove, Murky, Odd
    <2>1. CASE type = "noop"
        <3>0. ~Unsure(k, remote[k].content)
            BY <1>1, <1>4, <1>5, <1>7, <1>b, <2>0, <2>1 DEF Murky, Unsure, NoMove
        <3>1. Equal(k) BY <1>b, <2>0, <2>1, <3>0, SameFile DEF Inv
        <3> QED BY <1>4, <1>5, <1>b, <2>0, <2>1, <3>1 DEF Done, Equal, There
    <2>2. CASE type = "dropBaseline"
        <3>1. Decide(local[k], remote[k], Entries[k]) = "dropBaseline" BY <2>0, <2>2
        <3>2. local[k] = None /\ remote[k] = None BY <1>3, <2>0, <3>1, DecideTells
        <3> QED BY <2>0, <3>2 DEF Done
    <2>3. CASE type = "upload"
        BY <1>2, <1>3, <2>0, <2>3 DEF SkipUpload, HasFolder, Known, Done
    <2>4. CASE type = "adopt"
        <3>1. entry # None /\ ~LocalChanged(local[k], entry) /\ ~RemoteChanged(remote[k], entry)
            BY <1>4, <2>0, <2>4, FreshSettles DEF Inv
        <3> QED BY <1>4, <1>5, <2>0, <2>4, <3>1 DEF Done, Fresh, Equal, There
    <2> QED BY <2>1, <2>2, <2>3, <2>4
<1>9. Murky(k)' \/ Done(k)' BY <1>7
<1>10. RunTrue'
    BY <1>1, <1>3, <1>5, <1>6, <1>8, <1>9, EndOne DEF Inv
<1> QED BY <1>1, <1>10

(* Removing a file here or there. *)
LEMMA DropOp ==
    ASSUME Setting, Inv, Store, RunTrue, NEW k \in Keys, DeleteLocal(k) \/ DeleteRemote(k)
    PROVE  /\ DropsLocal(k) \/ DropsRemote(k) \/ Churns(k)
           /\ NoMove /\ RunTrue'
<1>0. run \in Run BY DEF Inv, TypeOK
<1>1. PICK type \in {"deleteLocal", "deleteRemote"} :
          /\ Op(k, type)
          /\ type = "deleteLocal" => DeleteLocal(k)
          /\ type = "deleteRemote" => DeleteRemote(k)
    BY DEF DeleteLocal, DeleteRemote
<1>2. /\ Working /\ run.pc = "files" /\ run.cur = None /\ run.copy = None
      /\ k \in run.todo /\ run.plan[k] = type
      /\ \/ Mixed(k)
         \/ /\ run.saved.files[k] = None
            /\ ~(local[k] = None /\ remote[k] = None /\ Entries[k] = None)
            /\ type = Decide(local[k], remote[k], Entries[k])
    BY <1>1, Chosen
<1>3. Mixed(k) => /\ type = "deleteRemote" /\ Odd(k) /\ Dated(run.saved.files[k])
                  /\ k \in retaken /\ remote[k] # None
    BY <1>2 DEF Mixed, Odd
<1>4. UNCHANGED manifest /\ NoMove /\ run' = [run EXCEPT !.todo = @ \ {k}]
    BY DEF DeleteLocal, DeleteRemote, EngineStep, disk, users, NoMove
<1>5. DropsLocal(k) \/ DropsRemote(k) \/ Churns(k)
    <2>1. CASE Mixed(k) BY <1>1, <1>3, <1>4, <2>1 DEF Churns, DeleteRemote
    <2>2. CASE ~Mixed(k)
        BY <1>1, <1>2, <1>4, <2>2, DecideTells DEF DropsLocal, DropsRemote, DeleteLocal, DeleteRemote
    <2> QED BY <2>1, <2>2
<1>6. /\ run'.pc = "files" /\ run'.cur = None /\ run'.copy = None /\ run'.todo = run.todo \ {k}
      /\ run'.saved = run.saved
      /\ run'.files = run.files /\ run'.dirs = run.dirs /\ run'.base = run.base /\ run'.plan = run.plan
    BY <1>0, <1>2, <1>4 DEF Run
<1>7. \A j \in Keys \ {k} : local'[j] = local[j] /\ remote'[j] = remote[j]
    BY DEF DeleteLocal, DeleteRemote, Inv, TypeOK
<1>8. SamePlan BY <1>4, <1>6 DEF SamePlan, NoMove
<1>9. ASSUME ~Mixed(k) PROVE Done(k)'
    <2>1. local'[k] = None /\ remote'[k] = None
        BY <1>1, <1>2, <1>9, DecideTells DEF DeleteLocal, DeleteRemote, Inv, TypeOK
    <2> QED BY <2>1 DEF Done
<1>10. SavedOk(k)'
    <2>1. CASE Mixed(k)
        <3>1. Odd(k)' BY <1>1, <1>3, <1>4, <2>1 DEF Odd, DeleteRemote, NoMove, Inv, TypeOK
        <3>2. Dated(run.saved.files[k])' BY <1>3, <1>4, <1>6, <2>1 DEF Dated, NoMove, now
        <3> QED BY <3>1, <3>2 DEF SavedOk
    <2>2. CASE ~Mixed(k) BY <1>2, <1>6, <2>2 DEF SavedOk
    <2> QED BY <2>1, <2>2
<1>11. Murky(k)' \/ Done(k)'
    <2>1. ASSUME Mixed(k) PROVE Murky(k)'
        <3>1. k \in retaken /\ local[k] # None /\ local[k].content \in atRisk
            BY <1>3, <2>1 DEF Odd
        <3>2. local' = local /\ remote'[k] = None /\ retaken' = retaken /\ atRisk' = atRisk
            BY <1>1, <1>3, <1>4, <2>1 DEF DeleteRemote, NoMove, Inv, TypeOK
        <3> QED BY <3>1, <3>2 DEF Murky
    <2> QED BY <1>9, <2>1
<1>12. RunTrue'
    BY <1>2, <1>6, <1>7, <1>8, <1>10, <1>11, EndOne DEF Inv
<1> QED BY <1>4, <1>5, <1>12

(* Removing the old remote file before an upload. *)
LEMMA RemoveOp ==
    ASSUME Setting, Inv, Store, RunTrue, NEW k \in Keys, RemoveOld(k)
    PROVE  DropsRemote(k) /\ NoMove /\ RunTrue'
<1>0. run \in Run BY DEF Inv, TypeOK
<1>1. /\ Working /\ run.pc = "files" /\ run.cur = None /\ run.copy = None /\ run.plan[k] = "upload"
      /\ k \in run.todo /\ run.saved.files[k] = None /\ run.files[k] = remote[k]
      /\ ~(local[k] = None /\ remote[k] = None /\ Entries[k] = None)
      /\ "upload" = Decide(local[k], remote[k], Entries[k])
    BY Chosen DEF RemoveOld, Mixed
<1>2. remote[k] # None BY DEF RemoveOld
<1>4. /\ UNCHANGED <<local, manifest>> /\ NoMove
      /\ remote' = [remote EXCEPT ![k] = None]
      /\ run' = [run EXCEPT !.pc = "put", !.cur = k]
    BY DEF RemoveOld, EngineStep, disk, users, NoMove
<1>5. local[k] # None /\ Entries[k] # None /\ LocalChanged(local[k], Entries[k])
      /\ ~RemoteChanged(remote[k], Entries[k])
    BY <1>1, <1>2, DecideTells
<1>6. DropsRemote(k) BY <1>2, <1>4, <1>5 DEF DropsRemote
<1>7. /\ run'.pc = "put" /\ run'.cur = k /\ run'.copy = None /\ run'.todo = run.todo
      /\ run'.saved = run.saved
      /\ run'.files = run.files /\ run'.dirs = run.dirs /\ run'.base = run.base /\ run'.plan = run.plan
    BY <1>0, <1>1, <1>4 DEF Run
<1>8. SamePlan BY <1>4, <1>7 DEF SamePlan, NoMove
<1>9. AtPut'
    BY <1>1, <1>4, <1>5, <1>7 DEF AtPut, Inv, TypeOK, Entries
<1>10. AtConflict' /\ AtRecord' BY <1>7 DEF AtConflict, AtRecord
<1>11. \A j \in Keys \ {k, None} : local'[j] = local[j] /\ remote'[j] = remote[j]
    BY <1>4 DEF Inv, TypeOK
<1>12. RunTrue'
    BY <1>1, <1>7, <1>8, <1>9, <1>10, <1>11, OpGoesOn DEF Inv
<1> QED BY <1>4, <1>6, <1>12

(* The upload, of a new file or into the room just made. *)
LEMMA UploadOp ==
    ASSUME Setting, Inv, Store, RunTrue, NEW k \in Keys, Upload(k)
    PROVE  Puts(k) /\ NoMove /\ RunTrue'
<1>0. run \in Run BY DEF Inv, TypeOK
<1>1. /\ Working /\ run.cur \in {k, None} /\ run.copy = None /\ run.plan[k] = "upload"
      /\ k \in run.todo /\ (run.saved.files[k] = None \/ (Odd(k) /\ Dated(run.saved.files[k])))
      /\ local[k] # None /\ remote[k] = None
      /\ Entries[k] # None => LocalChanged(local[k], Entries[k])
    <2>1. CASE At("put") /\ run.cur = k
        <3>1. /\ k \in run.todo /\ run.plan[k] = "upload"
              /\ remote[k] = None /\ local[k] # None
              /\ Entries[k] # None /\ LocalChanged(local[k], Entries[k])
            BY <2>1 DEF RunTrue, AtPut, At
        <3>2. Working /\ run.copy = None BY <2>1 DEF At, Working, Inv, RunShape
        <3>3. run.saved.files[k] = None \/ (Odd(k) /\ Dated(run.saved.files[k]))
            BY <2>1, <3>1, <3>2, NoneAssumption DEF RunTrue, SavedTrue
        <3> QED BY <2>1, <3>1, <3>2, <3>3
    <2>2. CASE Op(k, "upload") /\ run.files[k] = None
        <3>1. /\ Working /\ run.cur = None /\ run.copy = None /\ run.plan[k] = "upload"
              /\ k \in run.todo /\ run.saved.files[k] = None /\ run.files[k] = remote[k]
              /\ ~(local[k] = None /\ remote[k] = None /\ Entries[k] = None)
              /\ "upload" = Decide(local[k], remote[k], Entries[k])
            BY <2>2, Chosen DEF Mixed
        <3>2. local[k] # None /\ (Entries[k] # None => LocalChanged(local[k], Entries[k]))
            BY <3>1, DecideTells
        <3> QED BY <2>2, <3>1, <3>2
    <2> QED BY <2>1, <2>2 DEF Upload, Uploading
<1>2. /\ UNCHANGED <<local, manifest>> /\ NoMove
      /\ remote' = [remote EXCEPT ![k] = [content |-> local[k].content, timestamp |-> now]]
      /\ run' = [run EXCEPT !.pc = "record", !.cur = k]
    BY DEF Upload, PutFile, EngineStep, disk, users, NoMove
<1>3. Puts(k) BY <1>1, <1>2 DEF Puts
<1>4. /\ run'.pc = "record" /\ run'.cur = k /\ run'.copy = None /\ run'.todo = run.todo
      /\ run'.saved = run.saved
      /\ run'.files = run.files /\ run'.dirs = run.dirs /\ run'.base = run.base /\ run'.plan = run.plan
    BY <1>0, <1>1, <1>2 DEF Run
<1>5. SamePlan BY <1>2, <1>4 DEF SamePlan, NoMove
<1>6. Equal(k)' /\ (Odd(k) => Odd(k)')
    <2>1. local[k] \in LocalFile /\ now \in Nat
        BY <1>1, NowType DEF Inv, TypeOK
    <2>2. [content |-> local[k].content, timestamp |-> now] # None
        BY <2>1, NoneAssumption DEF LocalFile, RemoteFile
    <2> QED BY <1>1, <1>2, <2>2 DEF Equal, There, Inv, TypeOK, Odd, NoMove
<1>7. AtRecord' BY <1>1, <1>4, <1>6 DEF AtRecord, Equal, There
<1>8. AtConflict' /\ AtPut' BY <1>4 DEF AtConflict, AtPut
<1>9. \A j \in Keys \ {k, None} : local'[j] = local[j] /\ remote'[j] = remote[j]
    BY <1>2 DEF Inv, TypeOK
<1>10. RunTrue'
    BY <1>1, <1>4, <1>5, <1>6, <1>7, <1>8, <1>9, OpGoesOn DEF Inv
<1> QED BY <1>2, <1>3, <1>10

(* Files with the same folders above them lie in the same folder. *)
LEMMA SameParent ==
    ASSUME NEW x \in Keys, NEW y \in Keys, Above[x] = Above[y]
    PROVE  Parent[x] = Parent[y]
<1>1. \A z \in Keys : /\ Parent[z] \in Dirs \cup {Root}
                      /\ Parent[z] = Root => Above[z] = {}
                      /\ Parent[z] # Root => /\ Above[z] = {Parent[z]} \cup Above[Parent[z]]
                                             /\ Parent[z] \in Dirs
    BY DirsAssumption
<1>2. \A d \in Dirs : \A e \in Above[d] : e # d /\ Above[e] \subseteq Above[d]
    BY DirsAssumption
<1>3. CASE Parent[x] = Root \/ Parent[y] = Root
    BY <1>1, <1>3
<1>4. CASE Parent[x] # Root /\ Parent[y] # Root /\ Parent[x] # Parent[y]
    <2>1. Parent[x] \in Above[Parent[y]] /\ Parent[y] \in Above[Parent[x]] BY <1>1, <1>4
    <2>2. Parent[x] \in Dirs /\ Parent[y] \in Dirs BY <1>1, <1>4
    <2>3. Parent[x] \in Above[Parent[x]] BY <1>2, <2>1, <2>2
    <2> QED BY <1>2, <2>2, <2>3
<1> QED BY <1>3, <1>4


(* The first step of a conflict: the local file makes way. *)
LEMMA AsideOp ==
    ASSUME Setting, Inv, Store, RunTrue, NEW k \in Keys, SetAside(k)
    PROVE  \E c : SetsAside(k, c) /\ RunTrue'
<1>0. run \in Run BY DEF Inv, TypeOK
<1>1. /\ Working /\ run.pc = "files" /\ run.cur = None /\ run.copy = None
      /\ k \in run.todo /\ run.saved.files[k] = None /\ run.files[k] = remote[k]
      /\ ~(local[k] = None /\ remote[k] = None /\ Entries[k] = None)
      /\ "conflict" = Decide(local[k], remote[k], Entries[k])
    BY Chosen DEF SetAside, Mixed
<1>2. PICK i \in FreeCopy(k) :
          /\ local' = [local EXCEPT ![k] = None, ![Copies[k][i]] = local[k]]
          /\ run' = [run EXCEPT !.pc = "fetch", !.cur = k, !.copy = Copies[k][i]]
          /\ Retake(k, Copies[k][i])
    BY DEF SetAside
<1> DEFINE c == Copies[k][i]
<1>3. local[k] # None BY DEF SetAside
<1>4. c \in Keys /\ c # k /\ local[c] = None
    <2>1. i \in DOMAIN Copies[k] /\ Copies[k] \in Seq(Keys) BY <1>2, KeysAssumption DEF FreeCopy
    <2>2. c \in Keys /\ i \in 1 .. i BY <2>1
    <2>3. local[c] = None BY <1>2, <2>2 DEF FreeCopy
    <2> QED BY <1>3, <2>2, <2>3
<1> HIDE DEF c
<1>7. /\ local[k] # None /\ remote[k] # None
      /\ Entries[k] # None => LocalChanged(local[k], Entries[k]) /\ RemoteChanged(remote[k], Entries[k])
    BY <1>1, DecideTells
<1>8. UNCHANGED <<remote, manifest, clock, live>>
    BY DEF SetAside, disk
<1>a. Retake(k, c) BY <1>2 DEF c
<1>9. SetsAside(k, c)
    BY <1>2, <1>4, <1>7, <1>8, <1>a DEF SetsAside, c
<1>10. /\ run'.pc = "fetch" /\ run'.cur = k /\ run'.copy = c /\ run'.todo = run.todo
       /\ run'.saved = run.saved
       /\ run'.files = run.files /\ run'.dirs = run.dirs /\ run'.base = run.base /\ run'.plan = run.plan
    BY <1>0, <1>2 DEF Run, c
<1>11. SamePlan BY <1>8, <1>10, <1>a DEF SamePlan, Retake
<1>12. /\ local'[k] = None /\ local'[c] = local[k]
       /\ \A j \in Keys \ {k, c} : local'[j] = local[j] /\ remote'[j] = remote[j]
    BY <1>2, <1>4, <1>8 DEF Inv, TypeOK, c
<1>13. run.saved.files[c] \in {None, Entries[c]}
    <2>1. SavedOk(c) BY <1>1, <1>4 DEF RunTrue, SavedTrue
    <2> QED BY <1>4, <2>1 DEF SavedOk, Fresh, Equal, There, Odd
<1>14. c \in run.todo =>
           /\ Planned(c) /\ run.saved.files[c] = None
           /\ remote[c] # None \/ Entries[c] # None
           /\ run.plan[c] \in {"download", "deleteRemote", "dropBaseline"}
           /\ run.plan[c] # "dropBaseline" => remote[c] # None /\ run.files[c] # None
    <2> SUFFICES ASSUME c \in run.todo
                 PROVE  /\ Planned(c) /\ run.saved.files[c] = None
                        /\ remote[c] # None \/ Entries[c] # None
                        /\ run.plan[c] \in {"download", "deleteRemote", "dropBaseline"}
                        /\ run.plan[c] # "dropBaseline" => remote[c] # None /\ run.files[c] # None
        OBVIOUS
    <2>1. c \in Pending BY <1>1, <1>4, NoneAssumption DEF Pending
    <2>2. Planned(c) BY <1>1, <1>4, <2>1 DEF RunTrue, PlanTrue, Mixed, Odd
    <2>3. remote[c] # None \/ Entries[c] # None BY <1>4, <2>2 DEF Planned
    <2>4. run.plan[c] = Decide(None, remote[c], Entries[c]) /\ run.files[c] = remote[c]
        BY <1>4, <2>2 DEF Planned
    <2>5. LocalSide(None, Entries[c]) = "absent" BY DEF LocalSide
    <2>6. remote[c] = None => run.plan[c] = "dropBaseline"
        BY <2>3, <2>4, <2>5 DEF Decide, KnownFile, RemoteSide
    <2>7. remote[c] # None => run.plan[c] \in {"download", "deleteRemote"}
        <3>1. CASE Entries[c] = None BY <2>4, <3>1 DEF Decide, NewFile
        <3>2. CASE Entries[c] # None
            BY <2>4, <2>5, <3>2 DEF Decide, KnownFile, RemoteSide
        <3> QED BY <3>1, <3>2
    <2> QED BY <2>2, <2>3, <2>4, <2>6, <2>7 DEF Planned
<1>15. \/ remote[c] = None /\ Entries[c] = None
       \/ Odd(c)'
    <2>1. \/ remote[c] = None /\ Entries[c] = None
          \/ /\ c \in retaken' /\ local[k].content \in atRisk'
             /\ remote[c] # None => remote[c].content \in atRisk'
        BY <1>4, <1>7, <1>a, RetakeCases DEF Inv
    <2> QED BY <1>7, <1>8, <1>12, <2>1 DEF Odd
<1>16. c \in run.todo => Mixed(c)'
    BY <1>10, <1>14, <1>15, <1>8 DEF Mixed, Dated
<1>17. AtConflict'
    <2>1. NewCopy(c)' \/ OldCopy(c)'
        BY <1>8, <1>10, <1>14, <1>15, <1>16 DEF NewCopy, OldCopy, Entries
    <2>2. (NewCopy(run.copy) \/ OldCopy(run.copy))' BY <1>10, <2>1
    <2> QED BY <1>1, <1>4, <1>7, <1>8, <1>10, <1>12, <2>2 DEF AtConflict, Entries
<1>18. AtRecord' /\ AtPut' BY <1>10 DEF AtRecord, AtPut
<1>19. RunTrue'
    BY <1>1, <1>4, <1>10, <1>11, <1>12, <1>13, <1>16, <1>17, <1>18, OpGoesOn DEF Inv
<1> QED BY <1>9, <1>19

(* A download, whole or cut short, is one the plan or a conflict asked for, *)
(* or one to a name this run has taken again.                              *)
LEMMA FetchOp ==
    ASSUME Inv, Store, RunTrue, NEW k \in Keys, Fetching(k)
    PROVE  /\ Working /\ k \in run.todo /\ run.cur \in {k, None} /\ remote[k] # None
           /\ \/ /\ run.saved.files[k] = None /\ run.files[k] = remote[k]
                 /\ Entries[k] # None => RemoteChanged(remote[k], Entries[k])
                 /\ local[k] # None => Entries[k] # None /\ ~LocalChanged(local[k], Entries[k])
              \/ ~At("fetch") /\ Mixed(k)
           /\ IF At("fetch")
              THEN /\ run.cur = k /\ run.copy \in Keys \ {k} /\ local[run.copy] # None
                   /\ NewCopy(run.copy) \/ OldCopy(run.copy)
                   /\ run.saved.files[run.copy] \in {None, Entries[run.copy]}
              ELSE run.copy = None /\ run.plan[k] = "download"
<1>1. CASE At("fetch") /\ run.cur = k
    <2>1. Working BY <1>1 DEF At, Working
    <2>2. /\ k \in run.todo /\ run.copy \in Keys \ {k}
          /\ remote[k] # None /\ run.files[k] = remote[k]
          /\ Entries[k] # None => RemoteChanged(remote[k], Entries[k])
          /\ local[run.copy] # None /\ local[k] = None
          /\ NewCopy(run.copy) \/ OldCopy(run.copy)
        BY <1>1 DEF At, RunTrue, AtConflict
    <2>3. run.saved.files[k] = None /\ run.saved.files[run.copy] \in {None, Entries[run.copy]}
        BY <1>1, <2>1, <2>2, NoneAssumption DEF RunTrue, SavedTrue, Odd
    <2> QED BY <1>1, <2>1, <2>2, <2>3
<1>2. CASE Op(k, "download")
    <2>1. /\ Working /\ run.pc = "files" /\ run.cur = None /\ run.copy = None
          /\ k \in run.todo /\ run.plan[k] = "download"
          /\ \/ Mixed(k)
             \/ /\ run.saved.files[k] = None /\ run.files[k] = remote[k]
                /\ ~(local[k] = None /\ remote[k] = None /\ Entries[k] = None)
                /\ "download" = Decide(local[k], remote[k], Entries[k])
        BY <1>2, Chosen
    <2>2. CASE Mixed(k)
        <3>1. remote[k] # None BY <2>1, <2>2 DEF Mixed
        <3> QED BY <2>1, <2>2, <3>1 DEF At
    <2>3. CASE ~Mixed(k)
        <3>1. /\ remote[k] # None
              /\ Entries[k] # None => RemoteChanged(remote[k], Entries[k])
              /\ local[k] # None => Entries[k] # None /\ ~LocalChanged(local[k], Entries[k])
            BY <2>1, <2>3, DecideTells
        <3> QED BY <2>1, <2>3, <3>1 DEF At
    <2> QED BY <2>2, <2>3
<1> QED BY <1>1, <1>2 DEF Fetching

(* A download, for its own sake or as the remote half of a conflict. *)
LEMMA DownloadOp ==
    ASSUME Setting, Inv, Store, RunTrue, NEW k \in Keys, Download(k)
    PROVE  (Gets(k, remote[k].content) \/ Churns(k)) /\ NoMove /\ RunTrue'
<1>0. run \in Run BY DEF Inv, TypeOK
<1>1. /\ Working /\ k \in run.todo /\ run.cur \in {k, None} /\ remote[k] # None
      /\ \/ /\ run.saved.files[k] = None /\ run.files[k] = remote[k]
            /\ Entries[k] # None => RemoteChanged(remote[k], Entries[k])
            /\ local[k] # None => Entries[k] # None /\ ~LocalChanged(local[k], Entries[k])
         \/ ~At("fetch") /\ Mixed(k)
      /\ IF At("fetch")
         THEN /\ run.cur = k /\ run.copy \in Keys \ {k} /\ local[run.copy] # None
              /\ NewCopy(run.copy) \/ OldCopy(run.copy)
              /\ run.saved.files[run.copy] \in {None, Entries[run.copy]}
         ELSE run.copy = None /\ run.plan[k] = "download"
    BY FetchOp DEF Download
<1>2. /\ UNCHANGED <<remote, manifest>> /\ NoMove
      /\ local' = [local EXCEPT ![k] = [content |-> remote[k].content, mtime |-> now]]
      /\ run' = [run EXCEPT !.pc = IF At("fetch") THEN "push" ELSE "record", !.cur = k]
    BY DEF Download, EngineStep, disk, users, NoMove
<1>3. Gets(k, remote[k].content) \/ Churns(k)
    <2>1. CASE Mixed(k) BY <1>1, <1>2, <2>1 DEF Churns, Mixed
    <2>2. CASE ~Mixed(k) BY <1>1, <1>2, <2>2 DEF Gets
    <2> QED BY <2>1, <2>2
<1>4. /\ run'.pc = IF At("fetch") THEN "push" ELSE "record"
      /\ run'.cur = k /\ run'.copy = run.copy /\ run'.todo = run.todo
      /\ run'.saved = run.saved
      /\ run'.files = run.files /\ run'.dirs = run.dirs /\ run'.base = run.base /\ run'.plan = run.plan
    <2> DEFINE pc == IF At("fetch") THEN "push" ELSE "record"
    <2>1. run' = [run EXCEPT !.pc = pc, !.cur = k] BY <1>2
    <2> HIDE DEF pc
    <2>2. /\ run'.pc = pc
          /\ run'.cur = k /\ run'.copy = run.copy /\ run'.todo = run.todo
          /\ run'.saved = run.saved
          /\ run'.files = run.files /\ run'.dirs = run.dirs /\ run'.base = run.base /\ run'.plan = run.plan
        BY <1>0, <2>1 DEF Run
    <2> QED BY <2>2 DEF pc
<1>5. SamePlan BY <1>2, <1>4 DEF SamePlan, NoMove
<1>6. /\ local'[k] # None /\ local'[k].content = remote[k].content
      /\ \A j \in Keys \ {k} : local'[j] = local[j] /\ remote'[j] = remote[j]
    <2>1. remote[k] \in RemoteFile /\ now \in Nat BY <1>1, NowType DEF Inv, TypeOK
    <2>2. [content |-> remote[k].content, mtime |-> now] # None
        BY <2>1, NoneAssumption DEF LocalFile, RemoteFile
    <2> QED BY <1>2, <2>2 DEF Inv, TypeOK
<1>7. Equal(k)' BY <1>1, <1>2, <1>6 DEF Equal, There
<1>a. Mixed(k) => Odd(k)' /\ Dated(run.saved.files[k]) /\ run.files[k] # None
    BY <1>1, <1>2, <1>6 DEF Mixed, Odd, NoMove
<1>b. \A c : At("fetch") /\ c = run.copy =>
          /\ c \in Keys \ {k} /\ local'[c] # None
          /\ NewCopy(c)' \/ OldCopy(c)'
          /\ c \in run.todo => Mixed(c)'
    <2> SUFFICES ASSUME At("fetch"), NEW c, c = run.copy
                 PROVE  /\ c \in Keys \ {k} /\ local'[c] # None
                        /\ NewCopy(c)' \/ OldCopy(c)'
                        /\ c \in run.todo => Mixed(c)'
        OBVIOUS
    <2>1. /\ c \in Keys \ {k} /\ local'[c] = local[c] /\ remote'[c] = remote[c] /\ local[c] # None
          /\ NewCopy(c) \/ OldCopy(c)
        BY <1>1, <1>6
    <2>2. (Odd(c) => Odd(c)') /\ (Mixed(c) => Mixed(c)') /\ Entries' = Entries
        BY <1>4, <1>5, <2>1, Unmoved
    <2> QED BY <1>4, <2>1, <2>2 DEF NewCopy, OldCopy
<1>8. AtPut' BY <1>4 DEF AtPut
<1>9. AtConflict'
    <2>1. CASE At("fetch")
        <3>1. (NewCopy(run.copy) \/ OldCopy(run.copy))' BY <1>4, <1>b, <2>1
        <3>2. local'[run'.copy] # None /\ run'.copy \in Keys \ {run'.cur} BY <1>4, <1>b, <2>1
        <3>3. /\ remote'[run'.cur] # None /\ run'.files[run'.cur] = remote'[run'.cur]
              /\ Entries'[run'.cur] # None => RemoteChanged(remote'[run'.cur], Entries'[run'.cur])
              /\ Equal(run.cur)' /\ run'.pc = "push" /\ run'.cur \in run'.todo
            BY <1>1, <1>2, <1>4, <1>7, <2>1 DEF Entries
        <3> QED BY <3>1, <3>2, <3>3 DEF AtConflict
    <2>2. CASE ~At("fetch") BY <1>4, <2>2 DEF AtConflict
    <2> QED BY <2>1, <2>2
<1>10. AtRecord'
    <2>1. CASE At("fetch") BY <1>4, <2>1 DEF AtRecord
    <2>2. CASE ~At("fetch")
        <3>1. /\ run'.cur = k /\ run'.copy = None /\ k \in run'.todo
              /\ \/ run'.files[k] = remote'[k]
                 \/ Odd(k)' /\ run'.files[k] # None
            BY <1>1, <1>2, <1>4, <1>a, <2>2
        <3> QED BY <1>7, <3>1 DEF AtRecord
    <2> QED BY <2>1, <2>2
<1>11. \E c : /\ c = run'.copy /\ c = run.copy
              /\ c # None => /\ c \in Keys \ {k} /\ run.saved.files[c] \in {None, Entries[c]}
                             /\ c \in run.todo => Mixed(c)'
    BY <1>1, <1>4, <1>b
<1>12. run'.pc \in {"push", "record"} BY <1>4
<1>13. run.saved.files[k] = None \/ (Odd(k)' /\ Dated(run.saved.files[k])) BY <1>1, <1>a
<1>14. RunTrue'
    <2>1. PICK c : /\ c = run'.copy /\ c = run.copy
                   /\ c # None => /\ c \in Keys \ {k} /\ run.saved.files[c] \in {None, Entries[c]}
                                  /\ c \in run.todo => Mixed(c)'
        BY <1>11
    <2>2. \A j \in Keys \ {k, c} : local'[j] = local[j] /\ remote'[j] = remote[j] BY <1>6
    <2> QED
        BY <1>1, <1>4, <1>5, <1>8, <1>9, <1>10, <1>12, <1>13, <2>1, <2>2, OpGoesOn DEF Inv
<1> QED BY <1>2, <1>3, <1>14


(* The conflicted copy follows to the server. *)
LEMMA PushOp ==
    ASSUME Setting, Inv, Store, RunTrue, PushCopy
    PROVE  (Puts(run.copy) \/ Churns(run.copy)) /\ NoMove /\ RunTrue'
<1>k. PICK k, c : run.cur = k /\ run.copy = c OBVIOUS
<1>0. run \in Run BY DEF Inv, TypeOK
<1>1. /\ Working /\ k \in Keys /\ k \in run.todo /\ c \in Keys \ {k}
      /\ run.saved.files[k] = None \/ (Odd(k) /\ Dated(run.saved.files[k]))
      /\ run.saved.files[c] \in {None, Entries[c]}
      /\ run.files[k] = remote[k] /\ Equal(k)
      /\ local[c] # None /\ (NewCopy(c) \/ OldCopy(c))
    <2>1. /\ k \in run.todo /\ c \in Keys \ {k}
          /\ run.files[k] = remote[k] /\ Equal(k)
          /\ local[c] # None /\ (NewCopy(c) \/ OldCopy(c))
        BY <1>k DEF PushCopy, At, RunTrue, AtConflict
    <2>2. Working BY DEF PushCopy, At, Working
    <2>3. k \in Keys BY <1>k DEF PushCopy, At, Inv, RunShape
    <2>4. /\ run.saved.files[k] = None \/ (Odd(k) /\ Dated(run.saved.files[k]))
          /\ run.saved.files[c] \in {None, Entries[c]}
        BY <1>k, <2>1, <2>2, <2>3, NoneAssumption DEF RunTrue, SavedTrue
    <2> QED BY <2>1, <2>2, <2>3, <2>4
<1>2. /\ UNCHANGED <<local, manifest>> /\ NoMove
      /\ remote' = [remote EXCEPT ![c] = [content |-> local[c].content, timestamp |-> now]]
      /\ run' = [run EXCEPT !.pc = "record"]
    BY <1>k DEF PushCopy, PutFile, EngineStep, disk, users, NoMove
<1>3. Puts(c) \/ Churns(c)
    BY <1>1, <1>2 DEF Puts, Churns, NewCopy, OldCopy
<1>4. /\ run'.pc = "record" /\ run'.cur = k /\ run'.copy = c /\ run'.todo = run.todo
      /\ run'.saved = run.saved
      /\ run'.files = run.files /\ run'.dirs = run.dirs /\ run'.base = run.base /\ run'.plan = run.plan
    BY <1>0, <1>2, <1>k DEF Run
<1>5. SamePlan BY <1>2, <1>4 DEF SamePlan, NoMove
<1>6. /\ remote'[c] # None /\ remote'[c].content = local[c].content
      /\ \A j \in Keys \ {c} : local'[j] = local[j] /\ remote'[j] = remote[j]
    <2>1. local[c] \in LocalFile /\ now \in Nat BY <1>1, NowType DEF Inv, TypeOK
    <2>2. [content |-> local[c].content, timestamp |-> now] # None
        BY <2>1, NoneAssumption DEF LocalFile, RemoteFile
    <2> QED BY <1>1, <1>2, <2>2 DEF Inv, TypeOK
<1>a. Equal(k)' /\ Equal(c)' BY <1>1, <1>2, <1>6 DEF Equal, There
<1>b. (Odd(c) => Odd(c)') /\ (Odd(k) => Odd(k)')
    BY <1>1, <1>2, <1>6 DEF Odd, NoMove
<1>c. c \in run.todo => Mixed(c)'
    <2>1. c \in run.todo => Mixed(c) BY <1>1 DEF NewCopy, OldCopy
    <2>2. Dated(run.saved.files[c]) => Dated(run.saved.files[c])'
        BY <1>2, <1>4 DEF Dated, NoMove, now
    <2> QED BY <1>4, <1>6, <1>b, <2>1, <2>2 DEF Mixed
<1>7. AtRecord'
    <2>1. remote'[k] = remote[k] BY <1>1, <1>6
    <2>2. /\ Equal(run.cur)' /\ Equal(run.copy)'
          /\ (run.copy \in run.todo => Mixed(run.copy))'
        BY <1>4, <1>a, <1>c
    <2> QED BY <1>1, <1>4, <2>1, <2>2 DEF AtRecord
<1>8. AtConflict' /\ AtPut' BY <1>4 DEF AtConflict, AtPut
<1>9. c # None /\ \A j \in Keys \ {k, c} : local'[j] = local[j] /\ remote'[j] = remote[j]
    BY <1>1, <1>6, NoneAssumption
<1>11. RunTrue'
    BY <1>1, <1>4, <1>5, <1>7, <1>8, <1>9, <1>k, <1>b, <1>c, OpGoesOn DEF Inv
<1> QED BY <1>2, <1>3, <1>k, <1>11

(* The entries of a transfer say what both ends hold. *)
LEMMA RecordOp ==
    ASSUME Setting, Inv, Store, RunTrue, Record
    PROVE  UNCHANGED <<local, remote, manifest>> /\ NoMove /\ RunTrue'
<1> DEFINE T == FileToStat
           entry(j) == BaselineEntry(local[j], IF j \in FileToShow THEN remote[j].timestamp
                                               ELSE run.files[j].timestamp)
<1>0. run \in Run /\ run.saved \in Manifest BY DEF Inv, TypeOK, Run
<1>1. /\ Working /\ run.cur \in Keys /\ run.cur \in run.todo /\ Equal(run.cur)
      /\ run.copy # None => /\ run.copy \in Keys \ {run.cur} /\ Equal(run.copy)
                            /\ run.copy \in run.todo => Mixed(run.copy)
                            /\ run.files[run.cur] = remote[run.cur]
      /\ run.plan[run.cur] # "upload" => \/ run.files[run.cur] = remote[run.cur]
                                         \/ Odd(run.cur) /\ run.files[run.cur] # None
    <2>1. Working /\ run.cur \in Keys BY DEF Record, At, Working, Inv, RunShape
    <2> QED BY <2>1 DEF Record, At, RunTrue, AtRecord
<1>2. UNCHANGED <<local, remote, manifest>> /\ NoMove
    BY DEF Record, EngineStep, stores, disk, users, NoMove
<1>3. /\ T \in SUBSET Keys /\ run.cur \in T /\ run.copy \in T \cup {None}
      /\ \A j \in T : j = run.cur \/ j = run.copy
      /\ \A j \in T : Equal(j)
      /\ \A j \in T : j \in run.todo \ {run.cur} => Mixed(j)
    BY <1>1, NoneAssumption DEF FileToStat
<1>a. ASSUME NEW j \in T
      PROVE  \/ Fresh(j, entry(j))
             \/ Odd(j) /\ Dated(entry(j))
    <2>0. j \in Keys /\ Equal(j) BY <1>3
    <2>1. CASE j \in FileToShow \/ run.files[j] = remote[j]
        <3>1. entry(j) = BaselineEntry(local[j], remote[j].timestamp) BY <2>1
        <3> HIDE DEF entry
        <3> QED BY <2>0, <3>1 DEF Fresh
    <2>2. CASE ~(j \in FileToShow \/ run.files[j] = remote[j])
        <3>1. j = run.cur /\ run.copy = None /\ Odd(j) /\ run.files[j] # None
            <4>1. run.copy = None
                <5> SUFFICES ASSUME run.copy # None PROVE FALSE OBVIOUS
                <5>1. FileToShow = {run.copy} /\ run.files[run.cur] = remote[run.cur]
                    BY <1>1 DEF FileToShow
                <5> QED BY <1>3, <2>2, <5>1
            <4>2. j = run.cur BY <1>3, <2>0, <4>1, NoneAssumption
            <4>3. run.plan[run.cur] # "upload" BY <2>2, <4>1, <4>2 DEF FileToShow
            <4> QED BY <1>1, <2>2, <4>1, <4>2, <4>3
        <3>2. run.files[j].timestamp <= now BY <1>1, <2>0, <3>1 DEF RunTrue, Frame, Working
        <3>3. entry(j) = BaselineEntry(local[j], run.files[j].timestamp) BY <2>2
        <3>4. local[j] # None BY <2>0 DEF Equal, There
        <3> HIDE DEF entry
        <3> QED BY <2>0, <3>1, <3>2, <3>3, <3>4, EntryDated DEF Inv
    <2> QED BY <2>1, <2>2
<1>4. /\ run'.pc = "files" /\ run'.cur = None /\ run'.copy = None /\ run'.todo = run.todo \ {run.cur}
      /\ run'.files = run.files /\ run'.dirs = run.dirs /\ run'.base = run.base /\ run'.plan = run.plan
      /\ \A j \in Keys : run'.saved.files[j] = IF j \in T THEN entry(j) ELSE run.saved.files[j]
    <2>1. run' = [run EXCEPT !.pc = "files", !.todo = @ \ {run.cur}, !.cur = None, !.copy = None,
                    !.saved.files = [j \in Keys |-> IF j \in T THEN entry(j) ELSE @[j]]]
        BY DEF Record
    <2> HIDE DEF T, entry
    <2>2. /\ run'.pc = "files" /\ run'.cur = None /\ run'.copy = None /\ run'.todo = run.todo \ {run.cur}
          /\ run'.files = run.files /\ run'.dirs = run.dirs /\ run'.base = run.base
          /\ run'.plan = run.plan
        BY <1>0, <2>1 DEF Run
    <2>3. run'.saved.files = [j \in Keys |-> IF j \in T THEN entry(j) ELSE run.saved.files[j]]
        BY <1>0, <2>1 DEF Run, Manifest
    <2> QED BY <2>2, <2>3
<1>5. SamePlan BY <1>2, <1>4 DEF SamePlan, NoMove
<1>b. ASSUME NEW j \in T PROVE Dated(entry(j))
    <2>1. j \in Keys /\ local[j] # None /\ remote[j] # None BY <1>3 DEF Equal, There
    <2>2. CASE Fresh(j, entry(j))
        <3>1. entry(j) = BaselineEntry(local[j], remote[j].timestamp) BY <2>2 DEF Fresh
        <3>2. remote[j].timestamp <= now BY <2>1 DEF Store, Bounds
        <3> QED BY <2>1, <3>1, <3>2, EntryDated DEF Inv
    <2> QED BY <1>a, <2>2
<1> HIDE DEF T, entry
<1>6. ASSUME NEW j \in T PROVE SavedOk(j)' /\ (j \in run'.todo => Mixed(j)')
    <2>0. j \in Keys /\ run'.saved.files[j] = entry(j) BY <1>3, <1>4
    <2>1. /\ Fresh(j, entry(j)) => Fresh(j, run.saved.files[j])'
          /\ Odd(j) => Odd(j)'
        BY <1>2, <2>0 DEF Fresh, Equal, There, Odd, NoMove
    <2>2. Dated(run.saved.files[j])'
        <3>1. Dated(entry(j)) BY <1>b
        <3>2. entry(j) # None => entry(j).timestamp <= now' /\ \E v \in 0 .. clock' : entry(j).size = Size[v]
            BY <1>2, <3>1 DEF Dated, NoMove, now
        <3> QED BY <2>0, <3>2 DEF Dated
    <2>3. SavedOk(j)' BY <1>a, <2>1, <2>2 DEF SavedOk
    <2>4. j \in run'.todo => Mixed(j) BY <1>3, <1>4
    <2> QED BY <1>2, <1>4, <2>1, <2>2, <2>3, <2>4 DEF Mixed
<1>7. ASSUME NEW j \in T, ~Murky(j)' PROVE Done(j)'
    <2>0. j \in Keys /\ ~Odd(j) BY <1>2, <1>3, <1>7 DEF Odd, Murky, NoMove
    <2>1. Fresh(j, entry(j)) BY <1>a, <2>0
    <2>2. /\ entry(j) # None /\ ~LocalChanged(local[j], entry(j))
          /\ ~RemoteChanged(remote[j], entry(j))
        BY <2>0, <2>1, FreshSettles DEF Inv
    <2>3. run'.saved.files[j] = entry(j) /\ Equal(j)' BY <1>2, <1>3, <1>4, <2>0 DEF Equal, There
    <2> QED BY <1>2, <2>2, <2>3 DEF Done
<1>8. \A j \in Keys \ T : /\ local'[j] = local[j] /\ remote'[j] = remote[j]
                          /\ run'.saved.files[j] = run.saved.files[j]
    BY <1>2, <1>4
<1>9. RunTrue'
    BY <1>1, <1>3, <1>4, <1>5, <1>6, <1>7, <1>8, EndOp DEF Inv
<1> QED BY <1>2, <1>9

-----------------------------------------------------------------------------
(* What the other steps of a run do.                                       *)

(* The folder steps change no file and no entry of one. *)
LEMMA FolderSteps ==
    ASSUME Inv, Folders
    PROVE  /\ UNCHANGED <<local, remote, manifest>> /\ NoMove
           /\ run.pc \in {"folders", "cleanup"} /\ run'.pc = run.pc
           /\ run'.files = run.files /\ run'.base = run.base /\ run'.cur = run.cur /\ run'.copy = run.copy
           /\ run'.saved.files = run.saved.files
           /\ run.dirs \subseteq run'.dirs
           /\ run.pc = "cleanup" => run'.dirs = run.dirs /\ run'.todo = run.todo
<1>0. run \in Run /\ run.saved \in Manifest BY DEF Inv, TypeOK, Run
<1>1. PICK d \in Dirs :
          \/ KeepFolder(d) \/ FolderGone(d) \/ MakeLocalFolder(d) \/ MakeRemoteFolder(d)
          \/ BlockFolder(d) \/ DropLocalFolder(d) \/ DropRemoteFolder(d) \/ KeepRemoteFolder(d)
    BY DEF Folders
<1>2. UNCHANGED <<local, remote, manifest>> /\ NoMove
    BY <1>1 DEF KeepFolder, FolderGone, MakeLocalFolder, MakeRemoteFolder, BlockFolder,
        DropLocalFolder, DropRemoteFolder, KeepRemoteFolder, EngineStep, CallFails, stores, disk, users, NoMove
<1> DEFINE Moved == /\ run'.pc = run.pc /\ run'.files = run.files /\ run'.base = run.base
                    /\ run'.cur = run.cur /\ run'.copy = run.copy
                    /\ run'.saved.files = run.saved.files /\ run.dirs \subseteq run'.dirs
<1>3. CASE KeepFolder(d)
    <2>1. Moved BY <1>0, <1>3 DEF KeepFolder, Run, Manifest
    <2> QED BY <1>2, <1>3, <2>1 DEF KeepFolder, Shallowest, At
<1>4. CASE FolderGone(d)
    <2>1. Moved BY <1>0, <1>4 DEF FolderGone, Run
    <2> QED BY <1>2, <1>4, <2>1 DEF FolderGone, Shallowest, At
<1>5. CASE MakeLocalFolder(d)
    <2>1. Moved BY <1>0, <1>5 DEF MakeLocalFolder, Run, Manifest
    <2> QED BY <1>2, <1>5, <2>1 DEF MakeLocalFolder, Shallowest, At
<1>6. CASE MakeRemoteFolder(d)
    <2>1. Moved BY <1>0, <1>6 DEF MakeRemoteFolder, Run, Manifest
    <2> QED BY <1>2, <1>6, <2>1 DEF MakeRemoteFolder, NewLocalFolder, Shallowest, At
<1>7. CASE BlockFolder(d)
    <2>1. Moved BY <1>0, <1>7 DEF BlockFolder, Run
    <2> QED BY <1>2, <1>7, <2>1 DEF BlockFolder, NewLocalFolder, Shallowest, At
<1>8. CASE DropLocalFolder(d)
    <2>1. \/ run' = [run EXCEPT !.dropLocal = @ \ {d}]
          \/ run' = [run EXCEPT !.dropLocal = @ \ {d}, !.saved.dirs = @ \cup {d}]
        BY <1>8 DEF DropLocalFolder
    <2>2. Moved /\ run'.dirs = run.dirs /\ run'.todo = run.todo
        <3>1. CASE run' = [run EXCEPT !.dropLocal = @ \ {d}] BY <1>0, <3>1 DEF Run
        <3>2. CASE run' = [run EXCEPT !.dropLocal = @ \ {d}, !.saved.dirs = @ \cup {d}]
            BY <1>0, <3>2 DEF Run, Manifest
        <3> QED BY <2>1, <3>1, <3>2
    <2> QED BY <1>2, <1>8, <2>2 DEF DropLocalFolder, At
<1>9. CASE DropRemoteFolder(d)
    <2>1. Moved /\ run'.dirs = run.dirs /\ run'.todo = run.todo
        BY <1>0, <1>9 DEF DropRemoteFolder, Run
    <2> QED BY <1>2, <1>9, <2>1 DEF DropRemoteFolder, At
<1>10. CASE KeepRemoteFolder(d)
    <2>1. Moved /\ run'.dirs = run.dirs /\ run'.todo = run.todo
        BY <1>0, <1>10 DEF KeepRemoteFolder, Run, Manifest
    <2> QED BY <1>2, <1>10, <2>1 DEF KeepRemoteFolder, At
<1> QED BY <1>1, <1>3, <1>4, <1>5, <1>6, <1>7, <1>8, <1>9, <1>10

(* What is right to be saved stays so while no file moves. *)
LEMMA StillSaved ==
    ASSUME UNCHANGED <<local, remote, manifest>>, NoMove, run'.saved.files = run.saved.files,
           run'.cur = run.cur, run'.copy = run.copy, \A k \in Keys : SavedOk(k),
           run.cur # None => \/ run.saved.files[run.cur] = None
                             \/ Odd(run.cur) /\ Dated(run.saved.files[run.cur])
    PROVE  /\ \A k \in Keys : SavedOk(k)'
           /\ run'.cur # None => \/ run'.saved.files[run'.cur] = None
                                 \/ (Odd(run.cur) /\ Dated(run.saved.files[run.cur]))'
<1>1. Entries' = Entries /\ now' = now /\ clock' = clock BY DEF Entries, now, NoMove
<1>2. \A k : (Odd(k) => Odd(k)') /\ (Equal(k) => Equal(k)')
    BY DEF Odd, Equal, There, NoMove
<1>3. \A e : Dated(e) => (e # None => e.timestamp <= now' /\ \E v \in 0 .. clock' : e.size = Size[v])
    BY <1>1 DEF Dated
<1>4. ASSUME NEW k \in Keys PROVE SavedOk(k)'
    <2>1. Dated(run.saved.files[k]) => Dated(run.saved.files[k])' BY <1>3 DEF Dated
    <2>2. Fresh(k, run.saved.files[k]) => Fresh(k, run.saved.files[k])'
        BY <1>2 DEF Fresh
    <2> QED BY <1>1, <1>2, <2>1, <2>2 DEF SavedOk
<1>5. ASSUME NEW c, c = run.cur, Odd(c) /\ Dated(run.saved.files[c])
      PROVE  (Odd(run.cur) /\ Dated(run.saved.files[run.cur]))'
    <2>1. Odd(c)' /\ Dated(run.saved.files[c])' BY <1>2, <1>3, <1>5 DEF Dated
    <2> QED BY <1>5, <2>1
<1> QED BY <1>4, <1>5

(* So what the run has read stays true; it only learns of more folders. *)
LEMMA FoldersTrue ==
    ASSUME Inv, RunTrue, Folders
    PROVE  UNCHANGED <<local, remote, manifest>> /\ NoMove /\ RunTrue'
<1>1. /\ UNCHANGED <<local, remote, manifest>> /\ NoMove
      /\ run.pc \in {"folders", "cleanup"} /\ run'.pc = run.pc
      /\ run'.files = run.files /\ run'.base = run.base /\ run'.cur = run.cur /\ run'.copy = run.copy
      /\ run'.saved.files = run.saved.files
      /\ run.dirs \subseteq run'.dirs
      /\ run.pc = "cleanup" => run'.dirs = run.dirs /\ run'.todo = run.todo
    BY FolderSteps
<1>2. Frame' BY <1>1 DEF RunTrue, Frame, Known, now, NoMove
<1>3. PlanTrue' /\ AtPut' /\ AtConflict' /\ AtRecord'
    BY <1>1 DEF PlanTrue, AtPut, AtConflict, AtRecord, Working
<1>4. SavedTrue'
    <2>1. CASE run.pc = "folders" BY <1>1, <2>1 DEF SavedTrue, Working
    <2>2. CASE run.pc = "cleanup"
        BY <1>1, <2>2, StillSaved DEF RunTrue, SavedTrue, Working, Entries
    <2> QED BY <1>1, <2>1, <2>2
<1>5. DoneTrue'
    <2>1. CASE run.pc = "folders" BY <1>1, <2>1 DEF DoneTrue, Working
    <2>2. CASE run.pc = "cleanup"
        BY <1>1, <2>2 DEF RunTrue, DoneTrue, Working, Known, Done, Murky, Equal, There, NoMove
    <2> QED BY <1>1, <2>1, <2>2
<1> QED BY <1>1, <1>2, <1>3, <1>4, <1>5 DEF RunTrue

(* A run begins with what the server holds. *)
LEMMA ListTrue ==
    ASSUME Inv, Store, RunTrue, RemoteClosed, ListTree
    PROVE  UNCHANGED <<local, remote, manifest>> /\ NoMove /\ RunTrue'
<1>1. UNCHANGED <<local, remote, manifest>> /\ NoMove BY DEF ListTree, stores, disk, NoMove
<1>2. /\ run'.pc = "listed" /\ run'.files = remote /\ run'.dirs = remoteDirs
      /\ run'.saved.files = NoFiles /\ run'.cur = None
    BY DEF ListTree, IdleRun, EmptyManifest
<1>3. \A k \in Keys : remote[k] # None => Parent[k] \in remoteDirs \cup {Root}
    BY DirsAssumption DEF RemoteClosed
<1>4. Frame' BY <1>1, <1>2, <1>3 DEF Store, Bounds, Frame, Known, now, NoMove
<1>5. PlanTrue' /\ AtPut' /\ AtConflict' /\ AtRecord' /\ SavedTrue' /\ DoneTrue'
    BY <1>2 DEF PlanTrue, AtPut, AtConflict, AtRecord, SavedTrue, DoneTrue, Working
<1> QED BY <1>1, <1>4, <1>5 DEF RunTrue

(* Then it reads the manifest. *)
LEMMA ReadTrue ==
    ASSUME Inv, RunTrue, ReadManifest
    PROVE  UNCHANGED <<local, remote, manifest>> /\ NoMove /\ RunTrue'
<1>0. run \in Run BY DEF Inv, TypeOK
<1>1. UNCHANGED <<local, remote, manifest>> /\ NoMove
    BY DEF ReadManifest, EngineStep, stores, disk, users, NoMove
<1>2. /\ run.pc = "listed" /\ run'.pc = "folders" /\ run'.base = manifest
      /\ run'.files = run.files /\ run'.dirs = run.dirs /\ run'.saved = run.saved
      /\ run'.cur = run.cur
    BY <1>0 DEF ReadManifest, At, Run
<1>3. Frame' BY <1>1, <1>2 DEF RunTrue, Frame, Known, now, NoMove
<1>4. PlanTrue' /\ AtPut' /\ AtConflict' /\ AtRecord' /\ SavedTrue' /\ DoneTrue'
    BY <1>2 DEF PlanTrue, AtPut, AtConflict, AtRecord, SavedTrue, DoneTrue, Working
<1> QED BY <1>1, <1>3, <1>4 DEF RunTrue

(* The plan is made from what both ends hold now. *)
LEMMA PlanMade ==
    ASSUME Inv, RunTrue, Plan
    PROVE  UNCHANGED <<local, remote, manifest>> /\ NoMove /\ RunTrue'
<1> DEFINE known == {k \in Keys : ~(local[k] = None /\ run.files[k] = None /\ run.base.files[k] = None)}
           plan == [k \in Keys |-> IF k \in known
                      THEN Decide(local[k], run.files[k], run.base.files[k]) ELSE None]
<1>0. run \in Run BY DEF Inv, TypeOK
<1>1. UNCHANGED <<local, remote, manifest>> /\ NoMove
    BY DEF Plan, EngineStep, stores, disk, users, NoMove
<1>2. run.pc = "folders" /\ run.files = remote /\ run.base.files = Entries
      /\ run.saved.files = NoFiles /\ run.cur = None
    BY DEF Plan, At, RunTrue, Frame, Entries
<1>3. /\ run'.pc = "files" /\ run'.todo = known /\ run'.plan = plan
      /\ run'.files = run.files /\ run'.dirs = run.dirs /\ run'.saved = run.saved
      /\ run'.base = run.base /\ run'.cur = run.cur /\ run'.copy = run.copy
    <2>1. run' = [run EXCEPT !.pc = "files", !.todo = known, !.plan = plan] BY DEF Plan
    <2> HIDE DEF known, plan
    <2> QED BY <1>0, <2>1 DEF Run
<1>c. run.copy = None BY <1>2 DEF Inv, RunShape
<1>4. Frame' BY <1>1, <1>2, <1>3 DEF RunTrue, Frame, Known, now, NoMove
<1>5. PlanTrue'
    <2>1. \A k \in Pending' : k \in known BY <1>3 DEF Pending
    <2>2. ASSUME NEW k \in Pending' PROVE Planned(k)'
        BY <1>1, <1>2, <1>3, <2>1 DEF Planned, Entries, NoFiles
    <2> QED BY <2>2 DEF PlanTrue
<1>6. AtPut' /\ AtConflict' /\ AtRecord' BY <1>3 DEF AtPut, AtConflict, AtRecord
<1>7. SavedTrue' BY <1>2, <1>3, <1>c DEF SavedTrue, SavedOk, NoFiles
<1>8. DoneTrue' BY <1>1, <1>2, <1>3 DEF DoneTrue, Done, NoMove
<1> QED BY <1>1, <1>4, <1>5, <1>6, <1>7, <1>8 DEF RunTrue

(* When every file has had its turn, the folders are next. *)
LEMMA CleanupTrue ==
    ASSUME Inv, RunTrue, Cleanup
    PROVE  UNCHANGED <<local, remote, manifest>> /\ NoMove /\ RunTrue'
<1>0. run \in Run BY DEF Inv, TypeOK
<1>1. UNCHANGED <<local, remote, manifest>> /\ NoMove
    BY DEF Cleanup, EngineStep, stores, disk, users, NoMove
<1>2. /\ run.pc = "files" /\ run'.pc = "cleanup" /\ run.todo = {} /\ run'.todo = {}
      /\ run'.files = run.files /\ run'.dirs = run.dirs /\ run'.saved = run.saved
      /\ run'.base = run.base /\ run'.copy = run.copy /\ run'.cur = run.cur
    BY <1>0 DEF Cleanup, At, Run
<1>3. Frame' BY <1>1, <1>2 DEF RunTrue, Frame, Known, now, NoMove
<1>4. PlanTrue' /\ AtPut' /\ AtConflict' /\ AtRecord'
    BY <1>2 DEF PlanTrue, AtPut, AtConflict, AtRecord, Working
<1>5. SavedTrue'
    BY <1>1, <1>2, StillSaved DEF RunTrue, SavedTrue, Working, Entries
<1>6. DoneTrue'
    BY <1>1, <1>2 DEF RunTrue, DoneTrue, Working, Known, Done, Murky, Equal, There, NoMove
<1> QED BY <1>1, <1>3, <1>4, <1>5, <1>6 DEF RunTrue

(* The run ends and its manifest is the next one's baseline. *)
LEMMA SaveOp ==
    ASSUME Inv, Store, RunTrue, WriteManifest
    PROVE  Saves /\ NoMove /\ RunTrue'
<1>1. /\ run.pc = "cleanup" /\ run' = IdleRun
      /\ manifest' = run.saved /\ UNCHANGED <<local, remote>> /\ NoMove
    BY DEF WriteManifest, SavePoint, At, EngineStep, stores, users, NoMove
<1>2. \A k \in Keys : SavedOk(k) BY <1>1 DEF RunTrue, SavedTrue
<1>3. Saves BY <1>1, <1>2 DEF Saves, SavedOk, Entries
<1>4. RunTrue' BY <1>1, IdleTrue
<1> QED BY <1>1, <1>3, <1>4

-----------------------------------------------------------------------------
(* Every step keeps the invariant and the promise.                         *)

(* A step that changes no file and no entry. *)
LEMMA QuietStore ==
    ASSUME Store, UNCHANGED <<local, remote, manifest>>, NoMove
    PROVE  Store' /\ Promise!Sync
<1>1. Promise!Sync BY DEF Promise!Sync, Held, NoMove
<1>2. \A k, v : /\ There(local, k, v)' <=> There(local, k, v)
                /\ There(remote, k, v)' <=> There(remote, k, v)
                /\ Synced(k, v)' <=> Synced(k, v)
    BY DEF There, Synced, Entries
<1>3. now' = now /\ Entries' = Entries /\ Safe' = Safe BY DEF now, Entries, Safe, NoMove
<1>4. Bounds' BY <1>3 DEF Store, Bounds, Dated, NoMove
<1>5. \A k \in Keys : LocalTells(k)' /\ RemoteTells(k)'
    BY <1>2, <1>3 DEF Store, LocalTells, RemoteTells, Unsure, NoMove
<1>6. \A v \in Safe : MayFollow(v)'
    BY <1>2 DEF Store, MayFollow, OneEnded, Firm
<1> QED BY <1>1, <1>3, <1>4, <1>5, <1>6 DEF Store

(* The users act between the runs. *)
LEMMA UserStep ==
    ASSUME Setting, Inv, Inv', Store, RunTrue, User
    PROVE  Store' /\ RunTrue' /\ Promise!Next
<1>1. run.pc = "idle" /\ run' = run
    BY DEF Setting, User, WriteLocal, WriteRemote, DiscardCopy, DeleteLocally, DeleteRemotely, Move
<1>2. RunTrue'
    BY <1>1 DEF RunTrue, Frame, PlanTrue, AtPut, AtConflict, AtRecord, SavedTrue, DoneTrue, Working
<1>3. ASSUME NEW k \in UserKeys, WriteLocal(k) \/ WriteRemote(k)
      PROVE  Store' /\ Promise!Next
    <2>1. k \in Keys BY KeysAssumption
    <2> QED BY <1>3, <2>1, WritesStore DEF Inv, Promise!Next
<1>4. ASSUME NEW gone, DeleteLocally(gone) \/ DeleteRemotely(gone)
      PROVE  Store' /\ Promise!Next
    BY <1>4, DeletesStore DEF Inv, Promise!Next
<1> QED BY <1>2, <1>3, <1>4 DEF User, DiscardCopy

(* The operations of the plan. *)
LEMMA FilesStep ==
    ASSUME Setting, Inv, Store, RunTrue, Files \/ PushCopy
    PROVE  Store' /\ RunTrue' /\ Promise!Sync
<1>1. ASSUME NEW k \in Keys, Noop(k) \/ DropBaseline(k) \/ Adopt(k) \/ SkipUpload(k)
      PROVE  Store' /\ RunTrue' /\ Promise!Sync
    BY <1>1, QuietOp, QuietStore
<1>2. ASSUME NEW k \in Keys, DeleteLocal(k) \/ DeleteRemote(k) \/ RemoveOld(k)
      PROVE  Store' /\ RunTrue' /\ Promise!Sync
    BY <1>2, DropOp, RemoveOp, DropsStore, ChurnStore DEF Inv
<1>3. ASSUME NEW k \in Keys, Upload(k)
      PROVE  Store' /\ RunTrue' /\ Promise!Sync
    BY <1>3, UploadOp, PutsStore DEF Inv
<1>4. ASSUME NEW k \in Keys, SetAside(k)
      PROVE  Store' /\ RunTrue' /\ Promise!Sync
    BY <1>4, AsideOp, AsideStore DEF Inv
<1>5. ASSUME NEW k \in Keys, Download(k)
      PROVE  Store' /\ RunTrue' /\ Promise!Sync
    BY <1>5, DownloadOp, GetsStore, ChurnStore DEF Inv
<1>6. CASE PushCopy
    BY <1>6, PushOp, PutsStore, ChurnStore DEF Inv
<1> QED BY <1>1, <1>2, <1>3, <1>4, <1>5, <1>6 DEF Files

(* An exception, a crash or a download cut short. *)
LEMMA FailStep ==
    ASSUME Setting, Inv, Store, RunTrue, Throw \/ Failure
    PROVE  Store' /\ RunTrue' /\ Promise!Sync
<1>1. RunTrue' BY IdleTrue DEF Throw, Failure, Abort, CutManifest, CutDownload, Fail
<1>2. CASE Throw \/ Abort \/ CutManifest
    BY <1>1, <1>2, QuietStore DEF Throw, Abort, CutManifest, EngineStep, stores, disk, users, NoMove
<1>3. ASSUME NEW k \in Keys, CutDownload(k)
      PROVE  Store' /\ Promise!Sync
    <2>1. UNCHANGED <<remote, manifest>> /\ NoMove
          /\ local' = [local EXCEPT ![k] = [content |-> 0, mtime |-> now]]
          /\ remote[k] # None /\ Fetching(k)
        BY <1>3 DEF CutDownload, EngineStep, disk, users, NoMove
    <2>2. Gets(k, 0) \/ Churns(k)
        <3>1. CASE Mixed(k) BY <2>1, <3>1 DEF Churns, Mixed
        <3>2. CASE ~Mixed(k) BY <2>1, <3>2, FetchOp DEF Gets
        <3> QED BY <3>1, <3>2
    <2> QED BY <2>1, <2>2, GetsStore, ChurnStore DEF Inv
<1> QED BY <1>1, <1>2, <1>3 DEF Failure

(* Every step of the system. *)
LEMMA PromiseStep ==
    ASSUME Setting, Inv, Inv', RemoteClosed, Store, RunTrue, [Next]_vars
    PROVE  Store' /\ RunTrue' /\ [Promise!Next]_(Promise!vars)
<1>1. CASE User BY <1>1, UserStep
<1>2. CASE Files \/ PushCopy BY <1>2, FilesStep DEF Promise!Next
<1>3. CASE Throw \/ Failure BY <1>3, FailStep DEF Promise!Next
<1>4. CASE ListTree \/ ReadManifest \/ Folders \/ Plan \/ Record \/ Cleanup
    BY <1>4, ListTrue, ReadTrue, FoldersTrue, PlanMade, RecordOp, CleanupTrue, QuietStore
        DEF Promise!Next
<1>5. CASE WriteManifest BY <1>5, SaveOp, SavesStore DEF Inv, Promise!Next
<1>6. CASE UNCHANGED vars
    <2>1. UNCHANGED <<local, remote, manifest, run>> /\ NoMove
        BY <1>6 DEF vars, stores, disk, users, NoMove
    <2>2. Store' /\ Promise!Sync BY <2>1, QuietStore
    <2>3. RunTrue'
        <3>1. UNCHANGED <<local, remote, manifest, run, clock, live, retaken, atRisk>>
            BY <2>1 DEF NoMove
        <3>2. Frame' BY <3>1 DEF RunTrue, Frame, Known, now
        <3>3. PlanTrue'
            BY <3>1 DEF RunTrue, PlanTrue, Working, Pending, Planned, Mixed, Odd, Dated, now, Entries
        <3>4. AtPut' BY <3>1 DEF RunTrue, AtPut, Entries
        <3>5. AtConflict'
            BY <3>1 DEF RunTrue, AtConflict, NewCopy, OldCopy, Mixed, Odd, Dated, now, Entries, Equal, There
        <3>6. AtRecord' BY <3>1 DEF RunTrue, AtRecord, Mixed, Odd, Dated, now, Equal, There
        <3>7. SavedTrue'
            BY <3>1 DEF RunTrue, SavedTrue, Working, SavedOk, Fresh, Odd, Dated, now, Entries, Equal, There
        <3>8. DoneTrue' BY <3>1 DEF RunTrue, DoneTrue, Working, Done, Murky, Known, Equal, There
        <3> QED BY <3>2, <3>3, <3>4, <3>5, <3>6, <3>7, <3>8 DEF RunTrue
    <2> QED BY <2>2, <2>3 DEF Promise!Next
<1> QED BY <1>1, <1>2, <1>3, <1>4, <1>5, <1>6 DEF Next, Engine

(* The two parts are an invariant, and the promise is kept. *)
LEMMA PromiseInductive ==
    ASSUME Setting
    PROVE  Spec => [](Inv /\ Store /\ RunTrue) /\ PromiseKept
<1>1. Init => Store /\ RunTrue /\ Promise!Init
    <2> SUFFICES ASSUME Init PROVE Store /\ RunTrue /\ Promise!Init OBVIOUS
    <2>1. /\ \A k \in Keys : local[k] = None /\ remote[k] = None /\ Entries[k] = None
          /\ live = {} /\ atRisk = {} /\ run = IdleRun
        BY DEF Init, NoFiles, EmptyManifest, Entries
    <2>2. Store
        BY <2>1 DEF Store, Bounds, Dated, LocalTells, RemoteTells, Safe
    <2>3. RunTrue
        BY <2>1 DEF IdleRun, EmptyManifest, RunTrue, Frame, PlanTrue, AtPut, AtConflict, AtRecord,
            SavedTrue, DoneTrue, Working
    <2>4. Promise!Init BY <2>1 DEF Promise!Init, Held
    <2> QED BY <2>2, <2>3, <2>4
<1>2. Inv /\ Inv' /\ RemoteClosed /\ Store /\ RunTrue /\ [Next]_vars
      => Store' /\ RunTrue' /\ [Promise!Next]_(Promise!vars)
    BY PromiseStep
<1>3. Spec => []RemoteClosed
    <2>1. TreesClosed => RemoteClosed BY DEF TreesClosed, RemoteClosed
    <2> QED BY <2>1, FoldersFirst, PTL
<1> QED BY <1>1, <1>2, <1>3, InvInductive, PTL DEF Spec, PromiseKept, Promise!Spec

(* No step of runSync, finished, refused or cut short by a failure, drops  *)
(* a live version from an end that the other end lacks, or brings one      *)
(* forth: the engine implements the two replicas.                          *)
THEOREM Implements ==
    ASSUME Setting
    PROVE  Spec => PromiseKept
BY PromiseInductive, PTL

(* So a version that no user has replaced or deleted is always held by the *)
(* course directory or the server, whatever the engine was doing.          *)
THEOREM NothingLost ==
    ASSUME Setting
    PROVE  Spec => []NoVersionLost
BY Implements, PromiseSuffices, PTL

-----------------------------------------------------------------------------
(* What a run leaves behind.                                               *)

(* Between runs, what the manifest calls unchanged on both ends really is  *)
(* the same file there, under every name a conflict has not taken again:   *)
(* computeSyncPlan never skips a file that differs.                        *)
SyncedAlike ==
    At("idle") => \A k \in Keys \ retaken :
        (/\ manifest.files[k] # None /\ local[k] # None /\ remote[k] # None
         /\ ~LocalChanged(local[k], manifest.files[k])
         /\ ~RemoteChanged(remote[k], manifest.files[k]))
        => local[k].content = remote[k].content

(* For every course, and however often runs fail: what NoFalseSync says of *)
(* the instances checked, but for the names of discarded copies that a     *)
(* conflict has taken again.                                               *)
THEOREM SyncedIsSame ==
    ASSUME Setting
    PROVE  Spec => []SyncedAlike
<1>1. TypeOK /\ Store => SyncedAlike
    BY SameFile DEF SyncedAlike, Unsure, Equal, There, Entries
<1> QED BY <1>1, PromiseInductive, PTL DEF Inv

(* In the middle of an undisturbed run the server has no folder the run    *)
(* does not know of.                                                       *)
DirsKnown == run.pc # "idle" /\ ~disturbed => remoteDirs \subseteq run.dirs

(* The steps in the middle of a run. *)
LEMMA IdleDoesNothing ==
    ASSUME Inv, Plan \/ ReadManifest \/ Folders \/ Files \/ PushCopy \/ Record \/ Cleanup
    PROVE  run.pc # "idle"
BY DEF Plan, ReadManifest, PushCopy, Record, Cleanup, At,
    Folders, KeepFolder, FolderGone, MakeLocalFolder, MakeRemoteFolder, NewLocalFolder, BlockFolder,
    Shallowest, DropLocalFolder, DropRemoteFolder, KeepRemoteFolder,
    Files, Noop, DropBaseline, Adopt, DeleteLocal, DeleteRemote, SkipUpload, RemoveOld, Upload, SetAside,
    Download, Uploading, Fetching, Op

(* No later step of a run changes that. *)
LEMMA RunKnowsDirs ==
    ASSUME Inv, DirsKnown, run.pc # "idle",
           Plan \/ ReadManifest \/ Folders \/ Files \/ PushCopy \/ Record \/ Cleanup
    PROVE  run'.pc # "idle" /\ (~disturbed' => ~disturbed /\ remoteDirs' \subseteq run'.dirs)
<1>0. run \in Run BY DEF Inv, TypeOK
<1>1. CASE Plan \/ ReadManifest \/ PushCopy \/ Record \/ Cleanup
    <2>1. /\ run'.pc \in {"files", "folders", "record", "cleanup"} /\ run'.dirs = run.dirs
          /\ UNCHANGED <<remoteDirs, disturbed>>
        <3>1. CASE Plan BY <1>0, <3>1 DEF Plan, Run, EngineStep, users, stores
        <3>2. CASE ReadManifest BY <1>0, <3>2 DEF ReadManifest, Run, EngineStep, users, stores
        <3>3. CASE PushCopy BY <1>0, <3>3 DEF PushCopy, Run, EngineStep, users
        <3>4. CASE Record BY <1>0, <3>4 DEF Record, Run, EngineStep, users, stores
        <3>5. CASE Cleanup BY <1>0, <3>5 DEF Cleanup, Run, EngineStep, users, stores
        <3> QED BY <1>1, <3>1, <3>2, <3>3, <3>4, <3>5
    <2> QED BY <2>1 DEF DirsKnown
<1>2. CASE Files
    <2>1. /\ run'.pc \in {"files", "put", "record", "fetch", "push"} /\ run'.dirs = run.dirs
          /\ UNCHANGED <<remoteDirs, disturbed>>
        <3> PICK k \in Keys :
                \/ Noop(k) \/ DropBaseline(k) \/ Adopt(k) \/ DeleteLocal(k) \/ DeleteRemote(k)
                \/ SkipUpload(k) \/ RemoveOld(k) \/ Upload(k) \/ SetAside(k) \/ Download(k)
            BY <1>2 DEF Files
        <3>1. ASSUME NEW entry, Finish(k, entry)
              PROVE  run'.pc = "files" /\ run'.dirs = run.dirs
            BY <1>0, <3>1 DEF Finish, Run
        <3>2. CASE Noop(k) \/ Adopt(k) \/ DropBaseline(k) \/ SkipUpload(k)
            BY <1>0, <3>1, <3>2 DEF Noop, Adopt, DropBaseline, SkipUpload, Op, At, Run, EngineStep, users, stores
        <3>3. CASE DeleteLocal(k) \/ DeleteRemote(k) \/ RemoveOld(k) \/ Upload(k)
            BY <1>0, <3>3 DEF DeleteLocal, DeleteRemote, RemoveOld, Upload, Op, At, Run, EngineStep, users
        <3>4. CASE SetAside(k)
            <4>1. PICK i \in FreeCopy(k) :
                      run' = [run EXCEPT !.pc = "fetch", !.cur = k, !.copy = Copies[k][i]]
                BY <3>4 DEF SetAside
            <4> QED BY <1>0, <3>4, <4>1 DEF SetAside, Run
        <3>5. CASE Download(k)
            BY <1>0, <3>5 DEF Download, Run, EngineStep, users
        <3> QED BY <3>2, <3>3, <3>4, <3>5
    <2> QED BY <2>1 DEF DirsKnown
<1>3. CASE Folders
    <2> PICK d \in Dirs :
            \/ KeepFolder(d) \/ FolderGone(d) \/ MakeLocalFolder(d) \/ MakeRemoteFolder(d)
            \/ BlockFolder(d) \/ DropLocalFolder(d) \/ DropRemoteFolder(d) \/ KeepRemoteFolder(d)
        BY <1>3 DEF Folders
    <2>1. CASE KeepFolder(d) \/ FolderGone(d) \/ MakeLocalFolder(d)
        <3>1. run'.pc = run.pc /\ run'.dirs = run.dirs /\ UNCHANGED <<remoteDirs, disturbed>>
            BY <1>0, <2>1 DEF KeepFolder, FolderGone, MakeLocalFolder, Run, EngineStep, users, stores
        <3> QED BY <3>1 DEF DirsKnown
    <2>2. CASE MakeRemoteFolder(d)
        <3>1. /\ run'.pc = run.pc /\ run'.dirs = run.dirs \cup {d}
              /\ remoteDirs' = remoteDirs \cup {d} /\ disturbed' = disturbed
            BY <1>0, <2>2 DEF MakeRemoteFolder, Run, EngineStep, users
        <3> QED BY <3>1 DEF DirsKnown
    <2>3. CASE BlockFolder(d)
        <3>1. run'.pc = run.pc /\ run'.dirs = run.dirs
            BY <1>0, <2>3 DEF BlockFolder, Run
        <3>2. disturbed' \/ UNCHANGED <<remoteDirs, disturbed>>
            BY <2>3 DEF BlockFolder, CallFails, EngineStep, users
        <3> QED BY <3>1, <3>2 DEF DirsKnown
    <2>4. CASE DropLocalFolder(d) \/ DropRemoteFolder(d)
        <3>1. /\ run'.pc = run.pc /\ run'.dirs = run.dirs
              /\ remoteDirs' \subseteq remoteDirs /\ disturbed' = disturbed
            BY <1>0, <2>4 DEF DropLocalFolder, DropRemoteFolder, Run, EngineStep, users
        <3> QED BY <3>1 DEF DirsKnown
    <2>5. CASE KeepRemoteFolder(d)
        <3>1. run'.pc = run.pc /\ run'.dirs = run.dirs /\ remoteDirs' \subseteq remoteDirs
            BY <1>0, <2>5 DEF KeepRemoteFolder, Run
        <3>2. disturbed' \/ UNCHANGED disturbed
            BY <2>5 DEF KeepRemoteFolder, CallFails, EngineStep, users
        <3> QED BY <3>1, <3>2 DEF DirsKnown
    <2> QED BY <2>1, <2>2, <2>3, <2>4, <2>5
<1> QED BY <1>1, <1>2, <1>3

(* A run that ends well leaves each file settled, but for names taken      *)
(* again.                                                                  *)
LEMMA SaveSettles ==
    ASSUME Inv, RunTrue, DirsKnown, ~disturbed', WriteManifest, NEW k \in Keys \ retaken
    PROVE  \/ Stranded(k)'
           \/ /\ Agree(k)'
              /\ local'[k] # None => /\ manifest'.files[k] # None
                                     /\ Decide(local[k], remote[k], manifest.files[k])' = "noop"
<1>1. /\ run.pc = "cleanup" /\ run.todo = {} /\ run.copy = None /\ manifest' = run.saved
      /\ UNCHANGED <<local, remote, remoteDirs, disturbed>>
    BY DEF WriteManifest, SavePoint, At, EngineStep, stores, users, RunTrue, Frame, Inv, RunShape
<1>2. Done(k) BY <1>1, NoneAssumption DEF RunTrue, DoneTrue, Murky
<1>3. CASE local[k] = None /\ remote[k] = None BY <1>1, <1>3 DEF Agree
<1>4. CASE remote[k] = None /\ Parent[k] \notin Known
    BY <1>1, <1>4 DEF Stranded, Known, DirsKnown
<1>5. CASE /\ Equal(k) /\ run.saved.files[k] # None
           /\ ~LocalChanged(local[k], run.saved.files[k])
           /\ ~RemoteChanged(remote[k], run.saved.files[k])
    <2>1. local[k] # None /\ remote[k] # None /\ local[k].content = remote[k].content
        BY <1>5 DEF Equal, There
    <2>2. LocalSide(local[k], run.saved.files[k]) = "same"
          /\ RemoteSide(remote[k], run.saved.files[k]) = "same"
        BY <1>5, <2>1 DEF LocalSide, RemoteSide
    <2>3. Decide(local[k], remote[k], run.saved.files[k]) = "noop"
        BY <1>5, <2>2 DEF Decide, KnownFile
    <2> QED BY <1>1, <1>5, <2>1, <2>3 DEF Agree
<1> QED BY <1>2, <1>3, <1>4, <1>5 DEF Done

(* A run that succeeds while no user acts leaves both ends equal, file by  *)
(* file, and the next run nothing to do; only a name that a conflict has   *)
(* taken again may need one more.                                          *)
THEOREM RunsSettle ==
    ASSUME Setting
    PROVE  Spec => []FixedPoint
<1>1. Init => DirsKnown /\ FixedPoint
    BY DEF Init, IdleRun, DirsKnown, FixedPoint, Clean
<1>2. ASSUME Inv, RunTrue, DirsKnown, FixedPoint, [Next]_vars
      PROVE  DirsKnown' /\ FixedPoint'
    <2>1. CASE User
        <3>1. disturbed'
            BY <2>1 DEF User, WriteLocal, WriteRemote, DiscardCopy, DeleteLocally, DeleteRemotely, Move
        <3> QED BY <3>1 DEF DirsKnown, FixedPoint, Clean
    <2>2. CASE ListTree
        <3>1. run'.pc = "listed" /\ run'.dirs = remoteDirs /\ remoteDirs' = remoteDirs
            BY <2>2 DEF ListTree, stores, IdleRun
        <3> QED BY <3>1 DEF DirsKnown, FixedPoint, Clean, At
    <2>3. CASE Plan \/ ReadManifest \/ Folders \/ Files \/ PushCopy \/ Record \/ Cleanup
        <3>1. run.pc # "idle"
            BY <2>3, <1>2, IdleDoesNothing
        <3> QED BY <1>2, <2>3, <3>1, RunKnowsDirs DEF DirsKnown, FixedPoint, Clean, At
    <2>4. CASE Throw \/ Failure
        <3>1. run'.pc = "idle" /\ result' = "error"
            BY <2>4 DEF Throw, Failure, Abort, CutManifest, CutDownload, Fail, IdleRun
        <3> QED BY <3>1 DEF DirsKnown, FixedPoint, Clean
    <2>5. CASE WriteManifest
        <3>1. run'.pc = "idle" BY <2>5 DEF WriteManifest, IdleRun
        <3>2. FixedPoint'
            <4>1. retaken' = retaken BY <2>5 DEF WriteManifest, EngineStep, users
            <4> QED BY <1>2, <2>5, <4>1, SaveSettles DEF FixedPoint, Clean
        <3> QED BY <3>1, <3>2 DEF DirsKnown
    <2>6. CASE UNCHANGED vars
        BY <1>2, <2>6 DEF vars, stores, disk, users, DirsKnown, FixedPoint, Clean, At, Stranded, Agree
    <2> QED BY <1>2, <2>1, <2>2, <2>3, <2>4, <2>5, <2>6 DEF Next, Engine
<1>3. Spec => [](Inv /\ RunTrue) BY PromiseInductive, PTL
<1> QED BY <1>1, <1>2, <1>3, PTL DEF Spec

(* Nothing but a failure from outside ends a run of a flat course on a     *)
(* server that refuses nothing: what the plan asks for can be done.        *)
LEMMA NothingRefused ==
    ASSUME Setting, Dirs = {}, CreateDenied = {}, Inv, Store, RunTrue
    PROVE  Refused => At("listed") /\ torn
<1>1. ASSUME NEW k \in Keys PROVE Parent[k] = Root BY DirsAssumption
<1>2. ASSUME NEW k \in Keys, local[k] # None PROVE CanPut(k) BY <1>1, <1>2 DEF CanPut
<1>3. ASSUME NEW k \in Keys, NEW type, Op(k, type)
      PROVE  /\ type = "adopt" => local[k] # None
             /\ type = "deleteRemote" => remote[k] # None
             /\ type = "upload" => local[k] # None /\ run.files[k] = remote[k]
             /\ type = "conflict" => local[k] # None
             /\ type = "download" => remote[k] # None
    <2>1. CASE Mixed(k)
        <3>1. run.plan[k] = type BY <1>3, Chosen
        <3> QED BY <2>1, <3>1 DEF Mixed
    <2>2. CASE ~Mixed(k)
        <3>1. /\ ~(local[k] = None /\ remote[k] = None /\ Entries[k] = None)
              /\ type = Decide(local[k], remote[k], Entries[k]) /\ run.files[k] = remote[k]
            BY <1>3, <2>2, Chosen
        <3> QED BY <3>1, DecideTells
    <2> QED BY <2>1, <2>2
<1>4. ASSUME NEW k \in Keys, Uploading(k) PROVE CanPut(k)
    BY <1>2, <1>3, <1>4 DEF Uploading, At, RunTrue, AtPut
<1>5. ASSUME NEW k \in Keys, Fetching(k) PROVE remote[k] # None
    BY <1>3, <1>5 DEF Fetching, At, RunTrue, AtConflict
<1>6. At("push") => CanPut(run.copy)
    BY <1>2 DEF At, RunTrue, AtConflict
<1>7. At("record") => /\ \A k \in FileToStat : local[k] # None
                      /\ \A k \in FileToShow : remote[k] # None
    BY DEF At, RunTrue, AtRecord, FileToStat, FileToShow, Equal, There
<1> QED BY <1>3, <1>4, <1>5, <1>6, <1>7 DEF Refused

(* So as long as nothing fails outside it, no run of such a course ends in *)
(* an error.                                                               *)
THEOREM NoRunRefused ==
    ASSUME Setting, Dirs = {}, CreateDenied = {}
    PROVE  Spec => []RunsSucceed
<1> DEFINE Well == faults = 0 => result # "error" /\ ~torn
<1>1. Init => Well BY DEF Init
<1>2. ASSUME Inv, Store, RunTrue, Well, [Next]_vars
      PROVE  Well'
    <2>1. faults \in Nat BY <1>2, BoundsAssumption DEF Inv, TypeOK
    <2>2. CASE User
        BY <1>2, <2>2 DEF User, WriteLocal, WriteRemote, DiscardCopy, DeleteLocally, DeleteRemotely, Move, disk
    <2>3. CASE Throw
        <3>1. torn BY <1>2, <2>3, NothingRefused DEF Throw
        <3>2. faults' = faults BY <2>3 DEF Throw
        <3> QED BY <1>2, <3>1, <3>2
    <2>4. CASE Failure
        <3>1. faults' = faults + 1
            BY <2>4 DEF Failure, Abort, CutManifest, CutDownload, FaultStep
        <3> QED BY <2>1, <3>1
    <2>5. CASE Folders
        <3>1. UNCHANGED <<result, torn>> /\ faults' \in {faults, faults + 1}
            BY <2>5 DEF Folders, KeepFolder, FolderGone, MakeLocalFolder, MakeRemoteFolder, BlockFolder,
                DropLocalFolder, DropRemoteFolder, KeepRemoteFolder, CallFails, FaultStep, disk
        <3> QED BY <1>2, <2>1, <3>1
    <2>6. CASE ListTree \/ ReadManifest \/ Plan \/ Files \/ PushCopy \/ Record \/ Cleanup
        <3>1. UNCHANGED <<result, torn, faults>>
            BY <2>6 DEF ListTree, ReadManifest, Plan, Files, PushCopy, Record, Cleanup, disk,
                Noop, DropBaseline, Adopt, DeleteLocal, DeleteRemote, SkipUpload, RemoveOld, Upload,
                SetAside, Download
        <3> QED BY <1>2, <3>1
    <2>7. CASE WriteManifest BY <1>2, <2>7 DEF WriteManifest
    <2>8. CASE UNCHANGED vars BY <1>2, <2>8 DEF vars, disk
    <2> QED BY <1>2, <2>2, <2>3, <2>4, <2>5, <2>6, <2>7, <2>8 DEF Next, Engine
<1>3. Well => RunsSucceed BY DEF RunsSucceed
<1> QED BY <1>1, <1>2, <1>3, PromiseInductive, PTL DEF Spec
-----------------------------------------------------------------------------
(* What is erased stays erased.                                            *)

(* As long as nothing has failed, a version is in one file of the disk and *)
(* in one of the server, and they have the same name; not so a version     *)
(* that met another under a retaken name.                                  *)
Sure(v) == v \notin atRisk \cup {0}
Once ==
    \A v : Sure(v) => \A i, j \in Keys :
        /\ There(local, i, v) /\ There(local, j, v) => i = j
        /\ There(remote, i, v) /\ There(remote, j, v) => i = j
        /\ There(local, i, v) /\ There(remote, j, v) => i = j

(* The files the run has not touched yet, and what the manifest calls      *)
(* unchanged at the server. *)
Waiting(k) ==
    \/ run.pc \in {"idle", "listed", "folders"}
    \/ Working /\ k \in Pending
    \/ run.pc = "fetch" /\ k = run.cur
Recorded(k) == Entries[k] # None /\ ~RemoteChanged(remote[k], Entries[k])

(* What is on both ends was recorded when it came there; so a version that *)
(* its user gave up here, and the server still has, is recorded.           *)
SureThere(k) == remote[k] # None /\ Sure(remote[k].content)
Traced ==
    \A k \in Keys :
        Waiting(k) /\ SureThere(k) /\ (Equal(k) \/ remote[k].content \notin live) => Recorded(k)

Calm == faults = 0 => ~torn /\ Once /\ Traced

(* The run leaves the files alone whose turn has not come, but for names   *)
(* it takes again.                                                         *)
LeftAlone ==
    /\ UNCHANGED <<manifest, live>> /\ atRisk \subseteq atRisk'
    /\ \A k \in Keys : Waiting(k)' =>
           \/ ~SureThere(k)'
           \/ Waiting(k) /\ remote'[k] = remote[k] /\ (local'[k] = local[k] \/ local'[k] = None)

LEMMA AloneTraced == ASSUME Traced, LeftAlone PROVE Traced'
BY DEF Traced, LeftAlone, Recorded, Entries, Equal, There, SureThere, Sure

(* A step that touches the files T only, whose turn is over.               *)
LEMMA OthersAlone ==
    ASSUME UNCHANGED <<manifest, live>>, atRisk \subseteq atRisk',
           run'.pc \in {"files", "put", "record", "push", "cleanup"},
           run'.todo \subseteq run.todo, Working,
           NEW T, run.cur \in T \cup {None},
           \A j \in Keys \cap T : j \notin run'.todo \/ j = run'.cur \/ ~SureThere(j)',
           \A j \in Keys \ T : local'[j] = local[j] /\ remote'[j] = remote[j]
    PROVE  LeftAlone
<1> SUFFICES ASSUME NEW k \in Keys, Waiting(k)', SureThere(k)'
             PROVE  Waiting(k) /\ k \notin T
    BY DEF LeftAlone
<1>1. k \in Pending' BY DEF Waiting
<1>2. k \in run'.todo /\ k # run'.cur BY <1>1 DEF Pending
<1>3. k \notin T BY <1>2
<1>4. k # run.cur BY <1>2, <1>3, NoneAssumption
<1>5. k \in Pending BY <1>2, <1>4 DEF Pending
<1> QED BY <1>3, <1>5 DEF Waiting

(* The operations of the plan. *)
LEMMA FilesAlone ==
    ASSUME Setting, Inv, Store, RunTrue, Files \/ PushCopy
    PROVE  LeftAlone
<1>0. run \in Run BY DEF Inv, TypeOK
<1>1. ASSUME NEW k \in Keys, Noop(k) \/ DropBaseline(k) \/ Adopt(k) \/ SkipUpload(k)
      PROVE  LeftAlone
    <2>1. UNCHANGED <<local, remote, manifest, live, atRisk>> BY <1>1, QuietOp DEF NoMove
    <2>2. Working /\ run.cur = None
        BY <1>1, Chosen DEF Noop, DropBaseline, Adopt, SkipUpload
    <2>3. ASSUME NEW entry, Finish(k, entry) PROVE run'.pc = "files" /\ run'.todo = run.todo \ {k}
        BY <1>0, <2>3 DEF Finish, Run
    <2>4. run'.pc = "files" /\ run'.todo = run.todo \ {k}
        BY <1>0, <1>1, <2>3 DEF Noop, DropBaseline, Adopt, SkipUpload, Run, Op, At
    <2> QED BY <2>1, <2>2, <2>4, OthersAlone
<1>2. ASSUME NEW k \in Keys, DeleteLocal(k) \/ DeleteRemote(k)
      PROVE  LeftAlone
    <2>1. /\ UNCHANGED <<manifest, live, atRisk>>
          /\ \A j \in Keys \ {k} : local'[j] = local[j] /\ remote'[j] = remote[j]
        BY <1>2 DEF DeleteLocal, DeleteRemote, Inv, TypeOK, EngineStep, users, disk
    <2>2. Working /\ run.cur = None BY <1>2, Chosen DEF DeleteLocal, DeleteRemote
    <2>3. run'.pc = "files" /\ run'.todo = run.todo \ {k}
        BY <1>0, <1>2 DEF DeleteLocal, DeleteRemote, Run, Op, At
    <2> QED BY <2>1, <2>2, <2>3, OthersAlone
<1>3. ASSUME NEW k \in Keys, RemoveOld(k) PROVE LeftAlone
    <2>1. /\ UNCHANGED <<manifest, live, atRisk>>
          /\ \A j \in Keys \ {k} : local'[j] = local[j] /\ remote'[j] = remote[j]
        BY <1>3 DEF RemoveOld, Inv, TypeOK, EngineStep, users, disk
    <2>2. Working /\ run.cur = None BY <1>3, Chosen DEF RemoveOld
    <2>3. run'.pc = "put" /\ run'.cur = k /\ run'.todo = run.todo BY <1>0, <1>3 DEF RemoveOld, Run
    <2> QED BY <2>1, <2>2, <2>3, OthersAlone
<1>4. ASSUME NEW k \in Keys, Upload(k) PROVE LeftAlone
    <2>1. /\ UNCHANGED <<manifest, live, atRisk>>
          /\ \A j \in Keys \ {k} : local'[j] = local[j] /\ remote'[j] = remote[j]
        BY <1>4 DEF Upload, PutFile, Inv, TypeOK, EngineStep, users, disk
    <2>2. Working /\ run.cur \in {k, None}
        <3>1. CASE At("put") /\ run.cur = k BY <3>1 DEF At, Working
        <3>2. CASE Op(k, "upload") BY <3>2, Chosen
        <3> QED BY <1>4, <3>1, <3>2 DEF Upload, Uploading
    <2>3. run'.pc = "record" /\ run'.cur = k /\ run'.todo = run.todo BY <1>0, <1>4 DEF Upload, Run
    <2> QED BY <2>1, <2>2, <2>3, OthersAlone
<1>5. ASSUME NEW k \in Keys, SetAside(k) PROVE LeftAlone
    <2>1. PICK c : SetsAside(k, c) BY <1>5, AsideOp
    <2>2. /\ UNCHANGED <<manifest, live, remote>> /\ local'[k] = None
          /\ c \in Keys /\ \A j \in Keys \ {k, c} : local'[j] = local[j]
        BY <2>1 DEF SetsAside, Inv, TypeOK
    <2>a. atRisk \subseteq atRisk' /\ ~SureThere(c)'
        <3>1. local[k] # None /\ Retake(k, c) BY <2>1 DEF SetsAside
        <3> QED BY <2>2, <3>1, RetakeCases DEF SureThere, Sure, Inv
    <2>3. run.pc = "files" /\ run.cur = None /\ k \in run.todo BY <1>5, Chosen DEF SetAside
    <2>4. run'.pc = "fetch" /\ run'.cur = k /\ run'.todo = run.todo
        <3>1. PICK i \in FreeCopy(k) :
                  run' = [run EXCEPT !.pc = "fetch", !.cur = k, !.copy = Copies[k][i]]
            BY <1>5 DEF SetAside
        <3> QED BY <1>0, <3>1 DEF Run
    <2> SUFFICES ASSUME NEW j \in Keys, Waiting(j)', j # c
                 PROVE  Waiting(j) /\ (local'[j] = local[j] \/ local'[j] = None)
        BY <2>2, <2>a DEF LeftAlone
    <2>6. j \in Pending
        BY <2>3, <2>4, NoneAssumption DEF Waiting, Pending
    <2> QED BY <2>2, <2>3, <2>6 DEF Waiting, Working
<1>6. ASSUME NEW k \in Keys, Download(k) PROVE LeftAlone
    <2>1. /\ UNCHANGED <<manifest, live, atRisk>>
          /\ \A j \in Keys \ {k} : local'[j] = local[j] /\ remote'[j] = remote[j]
        BY <1>6 DEF Download, Inv, TypeOK, EngineStep, users, disk
    <2>2. Working /\ run.cur \in {k, None} BY <1>6, FetchOp DEF Download
    <2>3. run'.pc \in {"push", "record"} /\ run'.cur = k /\ run'.todo = run.todo
        BY <1>0, <1>6 DEF Download, Run
    <2> QED BY <2>1, <2>2, <2>3, OthersAlone
<1>7. CASE PushCopy
    <2>k. PICK c, k : run.copy = c /\ run.cur = k OBVIOUS
    <2>1. /\ UNCHANGED <<manifest, live, atRisk>>
          /\ \A j \in Keys \ {c} : local'[j] = local[j] /\ remote'[j] = remote[j]
        BY <1>7, <2>k DEF PushCopy, PutFile, Inv, TypeOK, EngineStep, users, disk
    <2>2. run.pc = "push" /\ c \in Keys /\ (NewCopy(c) \/ OldCopy(c))
        BY <1>7, <2>k DEF PushCopy, At, RunTrue, AtConflict
    <2>3. run'.pc = "record" /\ run'.cur = k /\ run'.todo = run.todo BY <1>0, <1>7, <2>k DEF PushCopy, Run
    <2>4. c \notin run'.todo \/ ~SureThere(c)'
        <3>1. CASE c \notin run.todo BY <2>3, <3>1
        <3>2. CASE Odd(c)
            <4>1. remote' = [remote EXCEPT ![c] = [content |-> local[c].content, timestamp |-> now]]
                BY <1>7, <2>k DEF PushCopy, PutFile
            <4>2. remote'[c].content \in atRisk' BY <2>1, <2>2, <3>2, <4>1 DEF Odd, Inv, TypeOK
            <4> QED BY <4>2 DEF SureThere, Sure
        <3> QED BY <2>2, <3>1, <3>2 DEF NewCopy, OldCopy
    <2> DEFINE T == {c, k}
    <2>5. run.cur \in T \cup {None} BY <2>k
    <2>6. \A j \in Keys \cap T : j \notin run'.todo \/ j = run'.cur \/ ~SureThere(j)' BY <2>3, <2>4
    <2>7. \A j \in Keys \ T : local'[j] = local[j] /\ remote'[j] = remote[j] BY <2>1
    <2> HIDE DEF T
    <2> QED BY <2>1, <2>2, <2>3, <2>5, <2>6, <2>7, OthersAlone DEF Working
<1> QED BY <1>1, <1>2, <1>3, <1>4, <1>5, <1>6, <1>7 DEF Files

(* A copy of a version goes where the version has its name. *)
LEMMA MovesOnce ==
    ASSUME Setting, TypeOK, Store, Once, Traced, NEW k, atRisk \subseteq atRisk',
           \/ DropsLocal(k) \/ DropsRemote(k) \/ Puts(k) \/ Churns(k)
           \/ k \in Keys /\ Gets(k, remote[k].content)
           \/ Waiting(k) /\ \E c : SetsAside(k, c)
    PROVE  Once'
<1>0. k \in Keys BY DEF DropsLocal, DropsRemote, Puts, SetsAside, Churns
<1>a. \A v : Sure(v)' => Sure(v) BY DEF Sure
<1>1. CASE DropsLocal(k) \/ DropsRemote(k)
    <2>1. \A j \in Keys : \A v : /\ There(local, j, v)' => There(local, j, v)
                                 /\ There(remote, j, v)' => There(remote, j, v)
        BY <1>0, <1>1 DEF DropsLocal, DropsRemote, TypeOK, There
    <2> QED BY <1>a, <2>1 DEF Once
<1>2. CASE Puts(k)
    <2>1. \A j \in Keys : \A v :
              /\ There(local, j, v)' => There(local, j, v)
              /\ There(remote, j, v)' => There(remote, j, v) \/ (j = k /\ There(local, k, v))
        BY <1>0, <1>2 DEF Puts, TypeOK, There
    <2> QED BY <1>0, <1>a, <2>1 DEF Once
<1>3. CASE Gets(k, remote[k].content)
    <2>1. \A j \in Keys : \A v :
              /\ There(local, j, v)' => (j # k /\ There(local, j, v)) \/ (j = k /\ There(remote, k, v))
              /\ There(remote, j, v)' => There(remote, j, v)
        BY <1>0, <1>3 DEF Gets, TypeOK, There
    <2> QED BY <1>0, <1>a, <2>1 DEF Once
<1>4. ASSUME Waiting(k), NEW c, SetsAside(k, c) PROVE Once'
    <2>1. c \in Keys BY <1>4 DEF SetsAside
    <2>2. \A j \in Keys : \A v :
              /\ There(local, j, v)' => \/ j = c /\ There(local, k, v)
                                        \/ j \notin {c, k} /\ There(local, j, v)
              /\ There(remote, j, v)' => There(remote, j, v)
        BY <1>0, <1>4, <2>1 DEF SetsAside, TypeOK, There
    <2>3. ~(Equal(k) /\ SureThere(k)) BY <1>0, <1>4, <2>1 DEF SetsAside, Traced, Recorded
    <2>4. \A j \in Keys : \A v : Sure(v) => ~(There(local, k, v) /\ There(remote, j, v))
        BY <1>0, <2>3 DEF Once, Equal, There, SureThere
    <2> QED BY <1>0, <1>a, <2>1, <2>2, <2>4 DEF Once
<1>5. CASE Churns(k)
    <2>1. \A j \in Keys : \A v : Sure(v) =>
              /\ There(local, j, v)' => There(local, j, v)
              /\ There(remote, j, v)' => There(remote, j, v)
        BY <1>0, <1>5 DEF Churns, Odd, TypeOK, There, Sure
    <2> QED BY <1>a, <2>1 DEF Once
<1> QED BY <1>1, <1>2, <1>3, <1>4, <1>5

(* The operations of the plan keep all that. *)
LEMMA FilesCalm ==
    ASSUME Setting, Inv, Store, RunTrue, Once, Traced, Files \/ PushCopy
    PROVE  Once' /\ Traced'
<1>1. Traced' /\ atRisk \subseteq atRisk' BY FilesAlone, AloneTraced DEF LeftAlone
<1>2. ASSUME NEW k \in Keys, Noop(k) \/ DropBaseline(k) \/ Adopt(k) \/ SkipUpload(k) PROVE Once'
    <2>1. UNCHANGED <<local, remote, atRisk>> BY <1>2, QuietOp DEF NoMove
    <2> QED BY <2>1 DEF Once, There, Sure
<1>3. ASSUME NEW k \in Keys, DeleteLocal(k) \/ DeleteRemote(k) \/ RemoveOld(k) \/ Upload(k) PROVE Once'
    BY <1>1, <1>3, DropOp, RemoveOp, UploadOp, MovesOnce DEF Inv
<1>4. ASSUME NEW k \in Keys, Download(k) PROVE Once'
    BY <1>1, <1>4, DownloadOp, MovesOnce DEF Inv
<1>5. ASSUME NEW k \in Keys, SetAside(k) PROVE Once'
    <2>1. \E c : SetsAside(k, c) BY <1>5, AsideOp
    <2>2. Waiting(k)
        <3>1. Working /\ k \in run.todo /\ run.cur = None BY <1>5, Chosen DEF SetAside
        <3> QED BY <3>1, NoneAssumption DEF Waiting, Pending
    <2> QED BY <1>1, <2>1, <2>2, MovesOnce DEF Inv
<1>6. ASSUME PushCopy PROVE Once' BY <1>1, <1>6, PushOp, MovesOnce DEF Inv
<1> QED BY <1>1, <1>2, <1>3, <1>4, <1>5, <1>6 DEF Files

(* What the users do: a version they write is new, and one they give up is *)
(* recorded where the server has it.                                       *)
LEMMA UsersCalm ==
    ASSUME Setting, Inv, Inv', Store, Once, Traced, User
    PROVE  Once' /\ Traced'
<1>1. run.pc = "idle" /\ run' = run /\ manifest' = manifest /\ clock' = clock + 1 /\ clock \in Nat
      /\ atRisk' = atRisk /\ \A k \in Keys : Entries'[k] = Entries[k] /\ Waiting(k)
    <2>1. Move("local") \/ Move("remote")
        BY DEF User, WriteLocal, WriteRemote, DiscardCopy, DeleteLocally, DeleteRemotely
    <2>2. run.pc = "idle" /\ run' = run /\ manifest' = manifest /\ clock' = clock + 1 /\ atRisk' = atRisk
        BY <2>1 DEF Move, Setting, disk
    <2>3. clock \in Nat BY BoundsAssumption DEF Inv, TypeOK, Moves
    <2> QED BY <2>2, <2>3 DEF Entries, Waiting
<1>2. \A k \in Keys : \A v : There(local, k, v) \/ There(remote, k, v) => v \in Nat /\ v < clock'
    <2>1. \A k \in Keys : /\ local[k] # None => local[k].content \in Nat /\ local[k].content <= clock
                          /\ remote[k] # None => remote[k].content \in Nat /\ remote[k].content <= clock
        BY BoundsAssumption DEF Store, Bounds, Inv, TypeOK, LocalFile, RemoteFile, Versions, Moves
    <2> QED BY <1>1, <2>1 DEF There
<1>3. clock' \in Nat BY <1>1
<1>a. \A v : Sure(v)' <=> Sure(v) BY <1>1 DEF Sure
<1>4. ASSUME NEW files \in {local, remote}, NEW gone
      PROVE  \A v \in GivenUp(files, gone) : \E j \in Keys : j \in gone /\ There(files, j, v)
    BY GivenWasThere DEF Inv
<1>b. ASSUME \A j \in Keys : /\ SureThere(j)' /\ (Equal(j)' \/ remote'[j].content \notin live')
                             => /\ remote'[j] = remote[j]
                                /\ Equal(j) \/ remote[j].content \notin live
      PROVE  Traced'
    <2> SUFFICES ASSUME NEW j \in Keys, SureThere(j)', Equal(j)' \/ remote'[j].content \notin live'
                 PROVE  Recorded(j)'
        BY DEF Traced
    <2>1. remote'[j] = remote[j] /\ (Equal(j) \/ remote[j].content \notin live) BY <1>b
    <2>2. SureThere(j) BY <1>a, <2>1 DEF SureThere
    <2> QED BY <1>1, <2>1, <2>2 DEF Traced, Recorded
<1>6. ASSUME NEW k \in UserKeys, WriteLocal(k) PROVE Once' /\ Traced'
    <2>1. k \in Keys BY KeysAssumption
    <2>2. /\ remote' = remote /\ \A j \in Keys : j # k => local'[j] = local[j]
          /\ \A v : There(local, k, v)' => v = clock'
          /\ \A v : v \in live => v \in live' \/ There(local, k, v)
        BY <1>4, <1>6, <2>1 DEF WriteLocal, Inv, TypeOK, There
    <2>3. \A j \in Keys : \A v :
              /\ There(local, j, v)' => (j # k /\ There(local, j, v)) \/ (j = k /\ v = clock')
              /\ There(remote, j, v)' <=> There(remote, j, v)
        BY <2>1, <2>2 DEF There
    <2>4. \A j \in Keys : ~There(local, j, clock') /\ ~There(remote, j, clock')
        BY <1>2, <1>3
    <2>5. Once' BY <1>a, <2>1, <2>3, <2>4 DEF Once
    <2>6. ASSUME NEW j \in Keys, SureThere(j)', Equal(j)' \/ remote'[j].content \notin live'
          PROVE  remote'[j] = remote[j] /\ (Equal(j) \/ remote[j].content \notin live)
        <3>1. There(remote, j, remote[j].content) /\ Sure(remote[j].content)
            BY <1>a, <2>2, <2>6 DEF There, SureThere
        <3>2. Equal(j)' => Equal(j)
            BY <2>2, <2>3, <2>4, <3>1 DEF Equal
        <3>3. remote[j].content \notin live' => remote[j].content \notin live \/ Equal(j)
            BY <2>1, <2>2, <3>1 DEF Once, Equal, There
        <3> QED BY <2>2, <2>6, <3>2, <3>3
    <2> QED BY <1>b, <2>5, <2>6
<1>7. ASSUME NEW k \in UserKeys, WriteRemote(k) PROVE Once' /\ Traced'
    <2>1. k \in Keys BY KeysAssumption
    <2>2. /\ local' = local /\ \A j \in Keys : j # k => remote'[j] = remote[j]
          /\ There(remote', k, clock') /\ clock' \in live'
          /\ \A v : v \in live => v \in live' \/ There(remote, k, v)
        <3>2. remote'[k] = [content |-> clock', timestamp |-> Second[clock']]
            BY <1>7, <2>1 DEF WriteRemote, Inv, TypeOK
        <3>3. remote'[k] # None
            <4>1. clock' \in Moves BY DEF Inv, TypeOK
            <4>2. remote'[k] \in RemoteFile BY <3>2, <4>1, DataAssumption DEF RemoteFile, Versions
            <4> QED BY <4>2, NoneAssumption
        <3>4. There(remote', k, clock') BY <3>2, <3>3 DEF There
        <3>5. local' = local /\ \A j \in Keys : j # k => remote'[j] = remote[j]
            BY <1>7, <2>1 DEF WriteRemote, Inv, TypeOK
        <3>6. clock' \in live' /\ \A v : v \in live => v \in live' \/ There(remote, k, v)
            BY <1>4, <1>7, <2>1 DEF WriteRemote
        <3> QED BY <3>4, <3>5, <3>6
    <2>3. \A j \in Keys : \A v :
              /\ There(local, j, v)' <=> There(local, j, v)
              /\ There(remote, j, v)' => (j # k /\ There(remote, j, v)) \/ (j = k /\ v = clock')
        BY <2>1, <2>2 DEF There
    <2>4. \A j \in Keys : ~There(local, j, clock') /\ ~There(remote, j, clock')
        BY <1>2, <1>3
    <2>5. Once' BY <1>a, <2>1, <2>3, <2>4 DEF Once
    <2>6. ASSUME NEW j \in Keys, SureThere(j)', Equal(j)' \/ remote'[j].content \notin live'
          PROVE  remote'[j] = remote[j] /\ (Equal(j) \/ remote[j].content \notin live)
        <3>1. There(remote', j, remote'[j].content) /\ Sure(remote'[j].content)
            BY <1>a, <2>6 DEF There, SureThere
        <3>2. j # k BY <2>1, <2>2, <2>3, <2>4, <2>6 DEF Equal, There
        <3>3. remote'[j] = remote[j] BY <2>2, <3>2
        <3>4. There(remote, j, remote[j].content) /\ Sure(remote[j].content) BY <3>1, <3>3 DEF There
        <3>5. remote[j].content \notin live' => remote[j].content \notin live
            BY <2>1, <2>2, <3>2, <3>4 DEF Once
        <3>6. Equal(j)' => Equal(j) BY <2>2, <3>3 DEF Equal, There
        <3> QED BY <2>6, <3>3, <3>5, <3>6
    <2> QED BY <1>b, <2>5, <2>6
<1>8. ASSUME NEW gone, DeleteLocally(gone) \/ DeleteRemotely(gone) PROVE Once' /\ Traced'
    <2>1. \A j \in Keys : /\ local'[j] \in {local[j], None} /\ remote'[j] \in {remote[j], None}
                          /\ DeleteRemotely(gone) /\ j \in gone => remote'[j] = None
        BY <1>8 DEF DeleteLocally, DeleteRemotely, Without
    <2>2. \A j \in Keys : \A v : /\ There(local, j, v)' => There(local, j, v)
                                 /\ There(remote, j, v)' => There(remote, j, v)
        BY <2>1 DEF There
    <2>3. Once' BY <1>a, <2>2 DEF Once
    <2>4. \A v \in live : \/ v \in live'
                          \/ \E i \in Keys : There(local, i, v)
                          \/ \E i \in Keys : There(remote, i, v) /\ remote'[i] = None
        BY <1>4, <1>8, <2>1 DEF DeleteLocally, DeleteRemotely
    <2>5. ASSUME NEW j \in Keys, SureThere(j)', Equal(j)' \/ remote'[j].content \notin live'
          PROVE  remote'[j] = remote[j] /\ (Equal(j) \/ remote[j].content \notin live)
        <3>2. remote'[j] = remote[j] /\ remote[j] # None BY <2>1, <2>5 DEF SureThere
        <3>3. There(remote, j, remote[j].content) /\ Sure(remote[j].content)
            BY <1>a, <2>5, <3>2 DEF There, SureThere
        <3>4. Equal(j)' => Equal(j) BY <2>2, <3>2 DEF Equal
        <3>5. remote[j].content \notin live' => remote[j].content \notin live \/ Equal(j)
            BY <2>4, <3>2, <3>3 DEF Once, Equal
        <3> QED BY <2>5, <3>2, <3>4, <3>5
    <2> QED BY <1>b, <2>3, <2>5
<1> QED BY <1>6, <1>7, <1>8 DEF User, DiscardCopy

(* Every step of the system, up to the first failure. *)
LEMMA CalmStep ==
    ASSUME Setting, Dirs = {}, CreateDenied = {},
           Inv, Inv', Store, RunTrue, Calm, [Next]_vars
    PROVE  Calm'
<1> SUFFICES ASSUME faults' = 0 PROVE ~torn' /\ Once' /\ Traced' BY DEF Calm
<1>0. run \in Run /\ faults \in Nat BY BoundsAssumption DEF Inv, TypeOK
<1>1. ASSUME Failure PROVE FALSE
    <2>1. faults' = faults + 1
        BY <1>1 DEF Failure, Abort, CutManifest, CutDownload, FaultStep
    <2> QED BY <1>0, <2>1
<1>2. ASSUME Folders PROVE FALSE BY <1>2 DEF Folders
<1>3. faults = 0
    <2>1. CASE User
        BY <2>1 DEF User, WriteLocal, WriteRemote, DiscardCopy, DeleteLocally, DeleteRemotely, Move
    <2>2. CASE Files
        BY <2>2 DEF Files, Noop, DropBaseline, Adopt, DeleteLocal, DeleteRemote, SkipUpload, RemoveOld, Upload,
            SetAside, Download
    <2>3. CASE ListTree \/ ReadManifest \/ Plan \/ PushCopy \/ Record \/ Cleanup \/ WriteManifest \/ Throw
        BY <2>3 DEF ListTree, ReadManifest, Plan, PushCopy, Record, Cleanup, WriteManifest, Throw
    <2>4. CASE UNCHANGED vars BY <2>4 DEF vars
    <2> QED BY <1>1, <1>2, <2>1, <2>2, <2>3, <2>4 DEF Next, Engine
<1>4. ~torn /\ Once /\ Traced BY <1>3 DEF Calm
<1>5. ~torn'
    <2>1. CASE User
        BY <1>4, <2>1 DEF User, WriteLocal, WriteRemote, DiscardCopy, DeleteLocally, DeleteRemotely, Move, disk
    <2>2. CASE Files
        BY <1>4, <2>2 DEF Files, Noop, DropBaseline, Adopt, DeleteLocal, DeleteRemote, SkipUpload, RemoveOld,
            Upload, SetAside, Download, disk
    <2>3. CASE ListTree \/ ReadManifest \/ Plan \/ PushCopy \/ Record \/ Cleanup \/ WriteManifest \/ Throw
        BY <1>4, <2>3 DEF ListTree, ReadManifest, Plan, PushCopy, Record, Cleanup, WriteManifest, Throw, disk
    <2>4. CASE UNCHANGED vars BY <1>4, <2>4 DEF vars, disk
    <2> QED BY <1>1, <1>2, <2>1, <2>2, <2>3, <2>4 DEF Next, Engine
<1>6. ASSUME Throw PROVE FALSE BY <1>4, <1>6, NothingRefused DEF Throw
<1>7. ASSUME UNCHANGED <<local, remote, atRisk>>, LeftAlone PROVE Once' /\ Traced'
    BY <1>4, <1>7, AloneTraced DEF Once, There, Sure
<1>8. CASE ListTree \/ ReadManifest \/ Plan
    <2>1. /\ UNCHANGED <<local, remote, manifest, live, atRisk>>
          /\ run.pc \in {"idle", "listed", "folders"}
        BY <1>8 DEF ListTree, ReadManifest, Plan, At, stores, disk, EngineStep, users
    <2>2. LeftAlone BY <2>1 DEF LeftAlone, Waiting
    <2> QED BY <1>5, <1>7, <2>1, <2>2
<1>9. CASE Record
    <2>1. UNCHANGED <<local, remote, manifest, live, atRisk>> /\ run.pc = "record"
        BY <1>9 DEF Record, At, stores, disk, EngineStep, users
    <2>2. run'.pc = "files" /\ run'.todo = run.todo \ {run.cur}
        BY <1>0, <1>9 DEF Record, Run
    <2> DEFINE T == {run.cur}
    <2>3. /\ run.cur \in T \cup {None}
          /\ \A j \in Keys \cap T : j \notin run'.todo \/ j = run'.cur \/ ~SureThere(j)'
        BY <2>2
    <2> HIDE DEF T
    <2>4. LeftAlone BY <2>1, <2>2, <2>3, OthersAlone DEF Working
    <2> QED BY <1>5, <1>7, <2>1, <2>4
<1>10. CASE Cleanup
    <2>1. UNCHANGED <<local, remote, manifest, live, atRisk>> /\ run'.pc = "cleanup"
        BY <1>0, <1>10 DEF Cleanup, stores, disk, EngineStep, users, Run
    <2>2. LeftAlone BY <2>1 DEF LeftAlone, Waiting, Working
    <2> QED BY <1>5, <1>7, <2>1, <2>2
<1>11. CASE WriteManifest
    <2>1. /\ run.pc = "cleanup" /\ run.todo = {} /\ run.copy = None /\ manifest' = run.saved
          /\ UNCHANGED <<local, remote, live, atRisk>>
        BY <1>11 DEF WriteManifest, SavePoint, At, EngineStep, stores, users, RunTrue, Frame, Inv, RunShape
    <2>2. \A k \in Keys : ~Murky(k) => Done(k) BY <2>1, NoneAssumption DEF RunTrue, DoneTrue
    <2>3. \A k \in Keys : SureThere(k) => Recorded(k)'
        BY <2>1, <2>2 DEF Done, Recorded, Entries, SureThere, Sure, Murky
    <2>4. Traced' BY <2>1, <2>3 DEF Traced, SureThere, Sure
    <2>5. Once' BY <1>4, <2>1 DEF Once, There, Sure
    <2> QED BY <1>5, <2>4, <2>5
<1>12. CASE UNCHANGED vars
    <2>1. UNCHANGED <<local, remote, manifest, live, run, atRisk>> BY <1>12 DEF vars, stores, disk, users
    <2>2. LeftAlone BY <2>1 DEF LeftAlone, Waiting, Working, Pending
    <2> QED BY <1>5, <1>7, <2>1, <2>2
<1>13. CASE Files \/ PushCopy BY <1>4, <1>5, <1>13, FilesCalm
<1>14. CASE User BY <1>4, <1>5, <1>14, UsersCalm
<1> QED BY <1>1, <1>2, <1>6, <1>8, <1>9, <1>10, <1>11, <1>12, <1>13, <1>14 DEF Next, Engine

(* What comes to the disk was there before, is new, or is live at the      *)
(* server; a download cut short is nobody's version.                       *)
LEMMA NothingComesBack ==
    ASSUME Setting, Inv, Store, RunTrue, Traced, [Next]_vars, NEW v \in Held(local)', v \notin Held(local)
    PROVE  v \in live \/ v \in atRisk \cup {0} \/ v = clock + 1
<1>0. \A w : /\ w \in Held(local) <=> \E j \in Keys : There(local, j, w)
             /\ w \in Held(local)' <=> \E j \in Keys : There(local', j, w)
    BY DEF Held, There
<1>1. local' # local BY <1>0
<1>2. ASSUME \A j \in Keys : local'[j] \in {local[j], None} PROVE FALSE
    BY <1>0, <1>2 DEF There
<1>3. ASSUME NEW k \in UserKeys, WriteLocal(k) PROVE v = clock + 1
    <2>1. clock' = clock + 1 BY <1>3 DEF WriteLocal, Move
    <2>2. local' = [local EXCEPT ![k] = [content |-> clock', mtime |-> Second[clock']]]
        BY <1>3 DEF WriteLocal
    <2> QED BY <1>0, <2>1, <2>2 DEF There, Inv, TypeOK
<1>4. ASSUME NEW gone, DeleteLocally(gone) PROVE FALSE
    BY <1>2, <1>4 DEF DeleteLocally, Without
<1>5. ASSUME NEW k \in Keys, DeleteLocal(k) PROVE FALSE
    BY <1>2, <1>5 DEF DeleteLocal, Inv, TypeOK
<1>6. ASSUME NEW k \in Keys, SetAside(k) PROVE FALSE
    <2>1. PICK c : SetsAside(k, c) BY <1>6, AsideOp
    <2>2. c \in Keys /\ \A j \in Keys : local'[j] \in {local[j], None, local[k]}
        BY <2>1 DEF SetsAside, Inv, TypeOK
    <2> QED BY <1>0, <2>2 DEF There
<1>7. ASSUME NEW k \in Keys, Fetching(k), NEW x,
             local' = [local EXCEPT ![k] = [content |-> x, mtime |-> now]]
      PROVE  v = x
    BY <1>0, <1>7 DEF There, Inv, TypeOK
<1>8. ASSUME NEW k \in Keys, Download(k) PROVE v \in live \cup atRisk \cup {0}
    <2>1. v = remote[k].content BY <1>7, <1>8 DEF Download
    <2>2. /\ Working /\ k \in run.todo /\ run.cur \in {k, None} /\ remote[k] # None
          /\ \/ Entries[k] # None => RemoteChanged(remote[k], Entries[k])
             \/ Mixed(k)
          /\ At("fetch") => run.cur = k
        BY <1>8, FetchOp DEF Download
    <2>3. Waiting(k)
        <3>1. CASE At("fetch") BY <2>2, <3>1 DEF Waiting, At
        <3>2. CASE Op(k, "download")
            <4>1. run.cur = None BY <3>2, Chosen
            <4> QED BY <2>2, <4>1, NoneAssumption DEF Waiting, Pending
        <3> QED BY <1>8, <3>1, <3>2 DEF Download, Fetching
    <2>4. CASE Mixed(k) BY <2>1, <2>2, <2>4 DEF Mixed, Odd
    <2>5. CASE Entries[k] # None => RemoteChanged(remote[k], Entries[k])
        BY <2>1, <2>2, <2>3, <2>5 DEF Traced, Recorded, SureThere, Sure
    <2> QED BY <2>2, <2>4, <2>5
<1>9. ASSUME NEW k \in Keys, CutDownload(k) PROVE v = 0 BY <1>7, <1>9 DEF CutDownload
<1>10. ASSUME Folders \/ Throw \/ Abort \/ CutManifest PROVE FALSE
    BY <1>1, <1>10 DEF Folders, KeepFolder, FolderGone, MakeLocalFolder, MakeRemoteFolder, BlockFolder,
        DropLocalFolder, DropRemoteFolder, KeepRemoteFolder, Throw, Abort, CutManifest, stores
<1>11. ASSUME ListTree \/ ReadManifest \/ Plan \/ PushCopy \/ Record \/ Cleanup \/ WriteManifest PROVE FALSE
    BY <1>1, <1>11 DEF ListTree, ReadManifest, Plan, PushCopy, Record, Cleanup, WriteManifest, stores
<1>12. ASSUME UNCHANGED vars PROVE FALSE BY <1>1, <1>12 DEF vars, stores
<1>13. CASE User
    <2>1. ASSUME NEW k \in UserKeys, WriteRemote(k) PROVE FALSE BY <1>1, <2>1 DEF WriteRemote
    <2>2. ASSUME NEW gone, DeleteRemotely(gone) PROVE FALSE BY <1>1, <2>2 DEF DeleteRemotely
    <2>3. ASSUME NEW k \in Keys, DiscardCopy(k) PROVE FALSE BY <1>4, <2>3 DEF DiscardCopy
    <2> QED BY <1>3, <1>4, <1>13, <2>1, <2>2, <2>3 DEF User
<1>14. CASE Files
    <2>1. ASSUME NEW k \in Keys, Noop(k) \/ DropBaseline(k) \/ Adopt(k) \/ SkipUpload(k) \/ DeleteRemote(k)
                                \/ RemoveOld(k) \/ Upload(k)
          PROVE  FALSE
        BY <1>1, <2>1 DEF Noop, DropBaseline, Adopt, SkipUpload, DeleteRemote, RemoveOld, Upload, stores
    <2> QED BY <1>5, <1>6, <1>8, <1>14, <2>1 DEF Files
<1> QED BY <1>9, <1>10, <1>11, <1>12, <1>13, <1>14 DEF Next, Engine, Failure

(* A version its user has deleted or replaced, and that has left the disk, *)
(* never comes back to it, in a flat course on a server that refuses       *)
(* nothing, until something fails: runSync deletes it at the server, or     *)
(* leaves it there as recorded, but does not download it again.  A version *)
(* that met another under a retaken name may come back.                    *)
THEOREM ErasedForGood ==
    ASSUME Setting, Dirs = {}, CreateDenied = {}
    PROVE  Spec => ErasedStaysErased
<1>1. Init => Calm
    <2> SUFFICES ASSUME Init PROVE ~torn /\ Once /\ Traced BY DEF Calm
    <2>1. ~torn /\ \A k \in Keys : local[k] = None /\ remote[k] = None BY DEF Init, NoFiles
    <2> QED BY <2>1 DEF Once, Traced, There, SureThere
<1>2. Inv /\ Inv' /\ Store /\ RunTrue /\ Calm /\ [Next]_vars => Calm'
    BY CalmStep
<1>3. Inv /\ Store /\ RunTrue /\ Calm /\ [Next]_vars
      => [faults = 0 => \A v \in 1 .. clock :
              v \notin live \cup atRisk \cup Held(local) => v \notin Held(local')]_vars
    <2> SUFFICES ASSUME Inv, Store, RunTrue, Calm, [Next]_vars, faults = 0,
                        NEW v \in 1 .. clock, v \notin live \cup atRisk, v \notin Held(local), v \in Held(local')
                 PROVE  FALSE
        OBVIOUS
    <2>1. clock \in Nat BY BoundsAssumption DEF Inv, TypeOK, Moves
    <2>2. Held(local') = Held(local)' BY DEF Held
    <2>3. v = 0 \/ v = clock + 1 BY <2>2, NothingComesBack DEF Calm
    <2> QED BY <2>1, <2>3
<1> QED BY <1>1, <1>2, <1>3, PromiseInductive, InvInductive, PTL DEF Spec, ErasedStaysErased

-----------------------------------------------------------------------------
(* The folders settle.                                                     *)

(* What is below is deeper: the order of the two passes over the folders.  *)
LEMMA BelowIsDeeper ==
    ASSUME NEW d \in Dirs, NEW x \in Dirs, d \in Above[x]
    PROVE  ~(Cardinality(Above[x]) <= Cardinality(Above[d]))
<1>1. Above[d] \subseteq Above[x] /\ d \notin Above[d] BY DirsAssumption
<1>2. IsFiniteSet(Above[x]) /\ IsFiniteSet(Above[d]) BY DepthAssumption
<1>3. Above[d] \in SUBSET Above[x] /\ Above[d] # Above[x] BY <1>1
<1>4. /\ Cardinality(Above[d]) <= Cardinality(Above[x])
      /\ Cardinality(Above[x]) = Cardinality(Above[d]) => Above[x] = Above[d]
    BY <1>2, <1>3, FS_Subset
<1>5. Cardinality(Above[x]) \in Nat /\ Cardinality(Above[d]) \in Nat
    BY <1>2, FS_CardinalityType
<1> QED BY <1>3, <1>4, <1>5

LEMMA BelowTheFolder ==
    ASSUME NEW d, NEW x \in Under(d)
    PROVE  x \in Keys \cup Dirs /\ d \in Above[x] /\ x # d /\ Under(x) \subseteq Under(d)
BY DirsAssumption DEF Under

(* Of a run nobody disturbs: what it knows of the server's folders, and    *)
(* which folders it has marked, in which pass.                             *)
Turn(d) == run.pc = "folders" /\ d \in run.todo
KnowsAll ==
    /\ run.pc \in {"listed", "folders"} => run.dirs = remoteDirs
    /\ run.pc = "listed" => run.blocked = {} /\ run.dropLocal = {} /\ run.dropRemote = {}
    /\ run.pc = "folders" => /\ run.seen \subseteq localDirs
                             /\ run.blocked \cap (run.todo \cup remoteDirs) = {}
MarksRight ==
    /\ run.dropLocal \cap remoteDirs = {} /\ run.dropLocal \subseteq run.base.dirs
    /\ run.dropRemote \cap run.seen = {} /\ run.dropRemote \subseteq run.base.dirs

(* A folder the run has made on the disk, for itself or for what lies in   *)
(* it, is one the server keeps.                                            *)
Lasting(x) ==
    \/ x \in remoteDirs \ run.base.dirs
    \/ x \in Keys \ Pending /\ remote[x] # None /\ run.pc # "folders"
MadeToStay == \A d \in localDirs \ run.seen : \E x \in {d} \cup Under(d) : Lasting(x)

(* Why a folder is on the disk only: its turn will come, or it is to be    *)
(* removed, or it could not be made for want of its parent, or it may not  *)
(* be made, or it still holds something.                                   *)
Orphan(d) ==
    \/ Parent[d] \in CreateDenied
    \/ Parent[d] \notin remoteDirs \cup {Root} /\ ~Turn(Parent[d])
StillHolds(d) ==
    run.pc = "cleanup" /\ \E x \in Under(d) :
        x \in localDirs \ run.dropLocal \/ (x \in Keys /\ local[x] # None)
OnlyHere == \A d \in localDirs \ remoteDirs :
    Turn(d) \/ d \in run.dropLocal \/ Orphan(d) \/ StillHolds(d)

(* And why one is on the server only.                                      *)
Denied(d) == ({d} \cup Under(d)) \cap DeleteDenied # {}
OnlyThere == \A d \in remoteDirs \ localDirs :
    Turn(d) \/ d \in run.dropRemote \/ (run.pc = "cleanup" /\ Denied(d))

FoldersRight ==
    run.pc # "idle" /\ ~disturbed =>
        KnowsAll /\ (run.pc # "listed" => MarksRight /\ MadeToStay /\ OnlyHere /\ OnlyThere)

(* The folders the run has made are on the server.                         *)
LEMMA MadeIsThere ==
    ASSUME TypeOK, RemoteClosed, MadeToStay
    PROVE  localDirs \subseteq run.seen \cup remoteDirs
<1> SUFFICES ASSUME NEW d \in localDirs \ run.seen PROVE d \in remoteDirs OBVIOUS
<1>1. PICK x \in {d} \cup Under(d) : Lasting(x) BY DEF MadeToStay
<1>2. d \in Dirs BY DEF TypeOK
<1>3. CASE x = d BY <1>1, <1>2, <1>3, DirsAssumption DEF Lasting
<1>4. CASE x \in Under(d)
    <2>1. d \in Above[x] BY <1>4, BelowTheFolder
    <2> QED BY <1>1, <2>1 DEF Lasting, RemoteClosed
<1> QED BY <1>3, <1>4

(* The creation pass.                                                      *)
LEMMA CreationPass ==
    ASSUME Inv, LocalClosed, RemoteClosed, run.pc = "folders", ~disturbed, ~disturbed',
           KnowsAll, MarksRight, MadeToStay, OnlyHere, OnlyThere,
           NEW d \in Dirs,
           KeepFolder(d) \/ FolderGone(d) \/ MakeLocalFolder(d) \/ MakeRemoteFolder(d) \/ BlockFolder(d)
    PROVE  KnowsAll' /\ MarksRight' /\ MadeToStay' /\ OnlyHere' /\ OnlyThere'
<1>0. run \in Run /\ run.saved \in Manifest BY DEF Inv, TypeOK, Run
<1>1. /\ run.dirs = remoteDirs /\ run.seen \subseteq localDirs
      /\ run.blocked \cap (run.todo \cup remoteDirs) = {}
    BY DEF KnowsAll
<1>2. /\ d \in run.todo /\ \A e \in run.todo : Cardinality(Above[d]) <= Cardinality(Above[e])
    BY DEF KeepFolder, FolderGone, MakeLocalFolder, MakeRemoteFolder, NewLocalFolder, BlockFolder, Shallowest
<1>3. localDirs \subseteq run.seen \cup remoteDirs BY MadeIsThere DEF Inv
<1> DEFINE Same == /\ run'.pc = run.pc /\ run'.todo = run.todo \ {d} /\ run'.seen = run.seen
                   /\ run'.base = run.base /\ run'.cur = run.cur
           SameMarks == run'.dropLocal = run.dropLocal /\ run'.dropRemote = run.dropRemote
<1>4. ASSUME Same PROVE \A e : Turn(e)' <=> Turn(e) /\ e # d BY <1>4 DEF Turn
<1>5. CASE KeepFolder(d)
    <2>1. Same /\ SameMarks /\ run'.dirs = run.dirs /\ run'.blocked = run.blocked
        BY <1>0, <1>5 DEF KeepFolder, Run, Manifest
    <2>2. UNCHANGED <<localDirs, remote, remoteDirs>> BY <1>5 DEF KeepFolder, stores
    <2>3. d \in run.seen <=> d \in run.dirs BY <1>5 DEF KeepFolder
    <2>4. KnowsAll' /\ MarksRight' BY <1>1, <2>1, <2>2 DEF KnowsAll, MarksRight
    <2>5. MadeToStay' BY <2>1, <2>2 DEF MadeToStay, Lasting
    <2>6. OnlyHere'
        <3> SUFFICES ASSUME NEW e \in localDirs \ remoteDirs
                     PROVE  Turn(e)' \/ e \in run.dropLocal \/ Orphan(e)'
            BY <2>1, <2>2 DEF OnlyHere
        <3>1. e # d BY <1>1, <1>3, <2>3
        <3> QED BY <1>4, <2>1, <2>2, <3>1 DEF OnlyHere, Orphan, StillHolds
    <2>7. OnlyThere' BY <1>1, <1>4, <2>1, <2>2, <2>3 DEF OnlyThere
    <2> QED BY <2>4, <2>5, <2>6, <2>7
<1>6. CASE FolderGone(d)
    <2>1. Same /\ run'.dirs = run.dirs /\ run'.blocked = run.blocked
          /\ run'.dropLocal = (IF d \in run.seen THEN run.dropLocal \cup {d} ELSE run.dropLocal)
          /\ run'.dropRemote = (IF d \in run.dirs THEN run.dropRemote \cup {d} ELSE run.dropRemote)
        BY <1>0, <1>6 DEF FolderGone, Run
    <2>2. UNCHANGED <<localDirs, remote, remoteDirs>> BY <1>6 DEF FolderGone, stores
    <2>3. ~(d \in run.seen <=> d \in run.dirs) /\ d \in run.base.dirs BY <1>6 DEF FolderGone
    <2>4. KnowsAll' BY <1>1, <2>1, <2>2 DEF KnowsAll
    <2>5. MarksRight' BY <1>1, <2>1, <2>2, <2>3 DEF MarksRight
    <2>6. MadeToStay' BY <2>1, <2>2 DEF MadeToStay, Lasting
    <2>7. OnlyHere'
        <3> SUFFICES ASSUME NEW e \in localDirs \ remoteDirs
                     PROVE  Turn(e)' \/ e \in run'.dropLocal \/ Orphan(e)'
            BY <2>1, <2>2 DEF OnlyHere
        <3>1. CASE e = d BY <1>3, <2>1, <3>1
        <3>2. CASE e # d BY <1>4, <2>1, <2>2, <3>2 DEF OnlyHere, Orphan, StillHolds
        <3> QED BY <3>1, <3>2
    <2>8. OnlyThere'
        <3> SUFFICES ASSUME NEW e \in remoteDirs \ localDirs
                     PROVE  Turn(e)' \/ e \in run'.dropRemote
            BY <2>1, <2>2 DEF OnlyThere
        <3>1. CASE e = d BY <1>1, <2>1, <3>1
        <3>2. CASE e # d BY <1>4, <2>1, <3>2 DEF OnlyThere
        <3> QED BY <3>1, <3>2
    <2> QED BY <2>4, <2>5, <2>6, <2>7, <2>8
<1>7. CASE MakeLocalFolder(d)
    <2>1. Same /\ SameMarks /\ run'.dirs = run.dirs /\ run'.blocked = run.blocked
        BY <1>0, <1>7 DEF MakeLocalFolder, Run, Manifest
    <2>2. localDirs' = localDirs \cup {d} \cup Above[d] /\ UNCHANGED <<remote, remoteDirs>>
        BY <1>7 DEF MakeLocalFolder
    <2>3. d \in remoteDirs \ run.base.dirs BY <1>1, <1>7 DEF MakeLocalFolder
    <2>4. Above[d] \subseteq remoteDirs BY <2>3 DEF RemoteClosed
    <2>5. KnowsAll' /\ MarksRight' BY <1>1, <2>1, <2>2 DEF KnowsAll, MarksRight
    <2>6. MadeToStay'
        <3> SUFFICES ASSUME NEW e \in localDirs' \ run.seen
                     PROVE  \E x \in {e} \cup Under(e) : Lasting(x)
            BY <2>1, <2>2 DEF MadeToStay, Lasting
        <3>1. Lasting(d) BY <2>3 DEF Lasting
        <3>2. CASE e \in localDirs BY <3>2 DEF MadeToStay
        <3>3. CASE e = d BY <3>1, <3>3
        <3>4. CASE e \in Above[d]
            <4>1. d \in Under(e) BY <3>4 DEF Under
            <4> QED BY <3>1, <4>1
        <3> QED BY <2>2, <3>2, <3>3, <3>4
    <2>7. OnlyHere'
        <3> SUFFICES ASSUME NEW e \in localDirs \ remoteDirs
                     PROVE  Turn(e)' \/ e \in run.dropLocal \/ Orphan(e)'
            BY <2>1, <2>2, <2>3, <2>4 DEF OnlyHere
        <3>1. e # d BY <2>3
        <3> QED BY <1>4, <2>1, <2>2, <3>1 DEF OnlyHere, Orphan, StillHolds
    <2>8. OnlyThere' BY <1>4, <2>1, <2>2 DEF OnlyThere
    <2> QED BY <2>5, <2>6, <2>7, <2>8
<1>8. CASE MakeRemoteFolder(d)
    <2>1. Same /\ SameMarks /\ run'.dirs = run.dirs \cup {d} /\ run'.blocked = run.blocked
        BY <1>0, <1>8 DEF MakeRemoteFolder, Run, Manifest
    <2>2. remoteDirs' = remoteDirs \cup {d} /\ UNCHANGED <<localDirs, remote>>
        BY <1>8 DEF MakeRemoteFolder
    <2>3. d \in run.seen /\ d \notin run.base.dirs BY <1>8 DEF MakeRemoteFolder, NewLocalFolder
    <2>4. KnowsAll' /\ MarksRight' BY <1>1, <1>2, <2>1, <2>2, <2>3 DEF KnowsAll, MarksRight
    <2>5. MadeToStay' BY <2>1, <2>2 DEF MadeToStay, Lasting
    <2>6. OnlyHere'
        <3> SUFFICES ASSUME NEW e \in localDirs \ remoteDirs, e # d
                     PROVE  Turn(e)' \/ e \in run.dropLocal \/ Orphan(e)'
            BY <2>1, <2>2 DEF OnlyHere
        <3>1. Turn(d) BY <1>2 DEF Turn
        <3> QED BY <1>4, <2>1, <2>2, <3>1 DEF OnlyHere, Orphan, StillHolds
    <2>7. OnlyThere' BY <1>1, <1>4, <2>1, <2>2, <2>3 DEF OnlyThere
    <2> QED BY <2>4, <2>5, <2>6, <2>7
<1>9. CASE BlockFolder(d)
    <2>1. Same /\ SameMarks /\ run'.dirs = run.dirs /\ run'.blocked = run.blocked \cup {d}
        BY <1>0, <1>9 DEF BlockFolder, Run
    <2>2. UNCHANGED <<localDirs, remote, remoteDirs>>
          /\ (~MayCreate(d) \/ d \in remoteDirs \/ Parent[d] \notin remoteDirs \cup {Root})
        BY <1>9 DEF BlockFolder, CallFails
    <2>3. d \in run.seen /\ d \notin run.dirs BY <1>9 DEF BlockFolder, NewLocalFolder
    <2>4. KnowsAll' /\ MarksRight' BY <1>1, <2>1, <2>2, <2>3 DEF KnowsAll, MarksRight
    <2>5. MadeToStay' BY <2>1, <2>2 DEF MadeToStay, Lasting
    <2>6. Orphan(d)
        <3>1. Parent[d] \in (run.dirs \cup {Root}) => Parent[d] \notin run.blocked
            BY <1>0, <1>1, DirsAssumption DEF Run
        <3> SUFFICES ASSUME Parent[d] \notin CreateDenied PROVE Orphan(d) BY DEF Orphan
        <3>2. Parent[d] \notin remoteDirs \cup {Root}
            BY <1>1, <2>2, <2>3, <3>1 DEF MayCreate
        <3>3. Parent[d] \in Dirs /\ Parent[d] \in Above[d] BY <3>2, DirsAssumption
        <3>4. Parent[d] \notin run.todo BY <1>2, <3>3, BelowIsDeeper
        <3> QED BY <3>2, <3>4 DEF Orphan, Turn
    <2>7. OnlyHere'
        <3> SUFFICES ASSUME NEW e \in localDirs \ remoteDirs
                     PROVE  Turn(e)' \/ e \in run.dropLocal \/ Orphan(e)'
            BY <2>1, <2>2 DEF OnlyHere
        <3>1. CASE e = d BY <1>4, <2>1, <2>2, <2>6, <3>1 DEF Orphan
        <3>2. CASE e # d BY <1>4, <2>1, <2>2, <3>2 DEF OnlyHere, Orphan, StillHolds
        <3> QED BY <3>1, <3>2
    <2>8. OnlyThere' BY <1>1, <1>4, <2>1, <2>2, <2>3 DEF OnlyThere
    <2> QED BY <2>4, <2>5, <2>7, <2>8
<1> QED BY <1>5, <1>6, <1>7, <1>8, <1>9

(* The removal pass.                                                       *)
LEMMA RemovalPass ==
    ASSUME Inv, RunTrue, LocalClosed, RemoteClosed,
           run.pc = "cleanup", ~disturbed, ~disturbed',
           MarksRight, MadeToStay, OnlyHere, OnlyThere,
           NEW d \in Dirs, DropLocalFolder(d) \/ DropRemoteFolder(d) \/ KeepRemoteFolder(d)
    PROVE  KnowsAll' /\ MarksRight' /\ MadeToStay' /\ OnlyHere' /\ OnlyThere'
<1>0. run \in Run /\ run.saved \in Manifest BY DEF Inv, TypeOK, Run
<1> DEFINE Same == /\ run'.pc = run.pc /\ run'.todo = run.todo /\ run'.seen = run.seen
                   /\ run'.base = run.base /\ run'.cur = run.cur
<1>1. CASE DropLocalFolder(d)
    <2>1. d \in run.dropLocal /\ \A e \in run.dropLocal : Cardinality(Above[e]) <= Cardinality(Above[d])
        BY <1>1 DEF DropLocalFolder, Deepest
    <2>2. UNCHANGED <<local, remote, remoteDirs>> BY <1>1 DEF DropLocalFolder
    <2>3. /\ Same /\ run'.dropLocal = run.dropLocal \ {d} /\ run'.dropRemote = run.dropRemote
          /\ localDirs' = IF Empty(d, local, localDirs) THEN localDirs \ {d} ELSE localDirs
        <3>1. CASE Empty(d, local, localDirs) BY <1>0, <1>1, <3>1 DEF DropLocalFolder, Run
        <3>2. CASE ~Empty(d, local, localDirs)
            <4>1. /\ run' = [run EXCEPT !.dropLocal = @ \ {d}, !.saved.dirs = @ \cup {d}]
                  /\ localDirs' = localDirs
                BY <1>1, <3>2 DEF DropLocalFolder
            <4> QED BY <1>0, <3>2, <4>1 DEF Run, Manifest
        <3> QED BY <3>1, <3>2
    <2>4. KnowsAll' /\ MarksRight' BY <2>2, <2>3 DEF KnowsAll, MarksRight
    <2>5. MadeToStay' BY <2>2, <2>3 DEF MadeToStay, Lasting, Pending
    <2>6. OnlyHere'
        <3> SUFFICES ASSUME NEW e \in localDirs', e \notin remoteDirs
                     PROVE  e \in run'.dropLocal \/ Orphan(e)' \/ StillHolds(e)'
            BY <2>2 DEF OnlyHere
        <3>1. e \in localDirs BY <2>3
        <3>2. ASSUME NEW x \in Under(e), x \in localDirs' \ run'.dropLocal \/ (x \in Keys /\ local[x] # None)
              PROVE  StillHolds(e)'
            BY <2>2, <2>3, <3>2 DEF StillHolds, Under
        <3>3. CASE e = d
            <4>1. ~Empty(d, local, localDirs) BY <2>3, <3>3
            <4>2. PICK x \in Under(d) : x \in localDirs \/ (x \in Keys /\ local[x] # None)
                BY <4>1 DEF Empty
            <4>3. CASE x \in localDirs
                <5>1. x \in Dirs /\ d \in Above[x] BY <4>2, <4>3, BelowTheFolder DEF Inv, TypeOK
                <5>2. x \notin run.dropLocal BY <2>1, <5>1, BelowIsDeeper
                <5> QED BY <2>3, <3>2, <3>3, <4>1, <4>2, <4>3, <5>2
            <4> QED BY <3>2, <3>3, <4>2, <4>3
        <3>4. CASE e # d
            <4>1. Turn(e) \/ e \in run.dropLocal \/ Orphan(e) \/ StillHolds(e) BY <3>1 DEF OnlyHere
            <4>2. CASE StillHolds(e)
                <5>1. PICK x \in Under(e) : x \in localDirs \ run.dropLocal \/ (x \in Keys /\ local[x] # None)
                    BY <4>2 DEF StillHolds
                <5> QED BY <2>1, <2>3, <3>2, <5>1
            <4> QED BY <2>2, <2>3, <3>4, <4>1, <4>2 DEF Turn, Orphan
        <3> QED BY <3>3, <3>4
    <2>7. OnlyThere'
        BY <2>1, <2>2, <2>3 DEF OnlyThere, MarksRight, Turn, Denied
    <2> QED BY <2>4, <2>5, <2>6, <2>7
<1>2. CASE DropRemoteFolder(d)
    <2>1. d \in run.dropRemote /\ Empty(d, remote, remoteDirs)
        BY <1>2 DEF DropRemoteFolder, Deepest
    <2>2. UNCHANGED <<local, localDirs, remote>> /\ remoteDirs' = remoteDirs \ {d}
        BY <1>2 DEF DropRemoteFolder
    <2>3. Same /\ run'.dropLocal = run.dropLocal /\ run'.dropRemote = run.dropRemote \ {d}
        BY <1>0, <1>2 DEF DropRemoteFolder, Run
    <2>4. KnowsAll' /\ MarksRight' BY <2>2, <2>3 DEF KnowsAll, MarksRight
    <2>5. d \in run.base.dirs /\ d \notin run.seen BY <2>1 DEF MarksRight
    <2>6. d \notin localDirs
        <3> SUFFICES ASSUME d \in localDirs PROVE FALSE OBVIOUS
        <3>1. PICK x \in {d} \cup Under(d) : Lasting(x) BY <2>5 DEF MadeToStay
        <3>2. x # d BY <2>5, <3>1, DirsAssumption DEF Lasting
        <3> QED BY <2>1, <3>1, <3>2 DEF Lasting, Empty
    <2>7. MadeToStay'
        <3>1. \A x : Lasting(x) => Lasting(x)' BY <2>2, <2>3, <2>5 DEF Lasting, Pending
        <3> QED BY <2>2, <2>3, <3>1 DEF MadeToStay
    <2>8. OnlyHere'
        <3> SUFFICES ASSUME NEW e \in localDirs \ remoteDirs
                     PROVE  e \in run'.dropLocal \/ Orphan(e)' \/ StillHolds(e)'
            BY <2>2, <2>6 DEF OnlyHere
        <3> QED BY <2>2, <2>3 DEF OnlyHere, Turn, Orphan, StillHolds
    <2>9. OnlyThere' BY <2>2, <2>3 DEF OnlyThere, Turn, Denied
    <2> QED BY <2>4, <2>7, <2>8, <2>9
<1>3. CASE KeepRemoteFolder(d)
    <2>1. /\ run.dropLocal = {} /\ d \in run.dropRemote
          /\ \A e \in run.dropRemote : Cardinality(Above[e]) <= Cardinality(Above[d])
        BY <1>3 DEF KeepRemoteFolder, Deepest
    <2>2. UNCHANGED <<local, localDirs, remote, remoteDirs>>
          /\ (d \notin remoteDirs \/ ~Empty(d, remote, remoteDirs) \/ d \in DeleteDenied)
        BY <1>3 DEF KeepRemoteFolder, CallFails, stores
    <2>3. Same /\ run'.dropLocal = run.dropLocal /\ run'.dropRemote = run.dropRemote \ {d}
        BY <1>0, <1>3 DEF KeepRemoteFolder, Run, Manifest
    <2>4. KnowsAll' /\ MarksRight' BY <2>2, <2>3 DEF KnowsAll, MarksRight
    <2>5. MadeToStay' BY <2>2, <2>3 DEF MadeToStay, Lasting, Pending
    <2>6. OnlyHere' BY <2>2, <2>3 DEF OnlyHere, Turn, Orphan, StillHolds
    <2>7. ASSUME d \in remoteDirs \ localDirs PROVE Denied(d)
        <3>1. CASE d \in DeleteDenied BY <3>1 DEF Denied
        <3>2. CASE ~Empty(d, remote, remoteDirs)
            <4>1. PICK x \in Under(d) : x \in remoteDirs \/ (x \in Keys /\ remote[x] # None)
                BY <3>2 DEF Empty
            <4>2. d \in Above[x] /\ Under(x) \subseteq Under(d) BY <4>1, BelowTheFolder
            <4>3. ASSUME x \in Keys, remote[x] # None PROVE FALSE
                <5>1. Done(x) \/ Murky(x)
                    <6>1. x \notin run.todo /\ x # run.copy
                        BY <4>3, NoneAssumption DEF RunTrue, Frame, Inv, RunShape
                    <6> QED BY <4>3, <6>1 DEF RunTrue, DoneTrue
                <5>2. local[x] # None BY <4>3, <5>1 DEF Done, Murky, Equal, There
                <5> QED BY <2>7, <4>2, <4>3, <5>2 DEF LocalClosed
            <4>4. x \in remoteDirs /\ x \in Dirs BY <4>1, <4>3 DEF Inv, TypeOK
            <4>5. x \notin localDirs BY <2>7, <4>2, <4>4 DEF LocalClosed
            <4>6. x \notin run.dropRemote BY <2>1, <4>2, <4>4, BelowIsDeeper
            <4>7. Denied(x) BY <4>4, <4>5, <4>6 DEF OnlyThere, Turn
            <4> QED BY <4>1, <4>2, <4>7 DEF Denied
        <3> QED BY <2>2, <2>7, <3>1, <3>2
    <2>8. OnlyThere' BY <2>2, <2>3, <2>7 DEF OnlyThere, Turn, Denied
    <2> QED BY <2>4, <2>5, <2>6, <2>8
<1> QED BY <1>1, <1>2, <1>3

(* The operations on files, in between, mark no folder, and what they have *)
(* fetched stays at the server.                                            *)
SameMarks ==
    /\ run'.dirs = run.dirs /\ run'.seen = run.seen /\ run'.base = run.base
    /\ run'.dropLocal = run.dropLocal /\ run'.dropRemote = run.dropRemote
    /\ UNCHANGED <<remoteDirs, disturbed>>
Kept ==
    /\ \A x \in Keys \ Pending : remote[x] # None => x \notin Pending' /\ remote'[x] # None
    /\ \/ UNCHANGED localDirs
       \/ \E k \in Keys \ Pending' : remote'[k] # None /\ localDirs' = localDirs \cup Above[k]

LEMMA FilesKept ==
    ASSUME Inv, Inv', RunTrue, Files \/ PushCopy \/ Record \/ Cleanup
    PROVE  Working /\ run'.pc \in {"files", "put", "fetch", "push", "record", "cleanup"} /\ SameMarks /\ Kept
<1>0. run \in Run BY DEF Inv, TypeOK
<1>1. ASSUME NEW k \in Keys, NEW type, Op(k, type)
      PROVE  Working /\ run.cur = None /\ k \in Pending /\ run.todo \ {k} \subseteq run.todo
    <2>1. run.pc = "files" /\ k \in run.todo BY <1>1 DEF Op, At
    <2> QED BY <2>1, NoneAssumption DEF Working, RunTrue, Frame, Pending
<1>2. ASSUME NEW k \in Keys, NEW entry, Finish(k, entry)
      PROVE  /\ run'.pc = "files" /\ run'.todo = run.todo \ {k} /\ run'.cur = None
             /\ run'.dirs = run.dirs /\ run'.seen = run.seen /\ run'.base = run.base
             /\ run'.dropLocal = run.dropLocal /\ run'.dropRemote = run.dropRemote
    BY <1>0, <1>2 DEF Finish, Run
<1> DEFINE Goal == Working /\ run'.pc \in {"files", "put", "fetch", "push", "record", "cleanup"}
                   /\ SameMarks /\ Kept
<1>3. ASSUME NEW k \in Keys, Noop(k) \/ DropBaseline(k) \/ Adopt(k) \/ SkipUpload(k) PROVE Goal
    <2>1. Working /\ run.pc = "files" /\ run.cur = None
        BY <1>1, <1>3 DEF Noop, DropBaseline, Adopt, SkipUpload, Op, At
    <2>2. UNCHANGED <<localDirs, remote, remoteDirs, disturbed>>
        BY <1>3 DEF Noop, DropBaseline, Adopt, SkipUpload, stores, EngineStep, users
    <2>3. (\E entry : Finish(k, entry)) \/ run' = [run EXCEPT !.todo = @ \ {k}]
        BY <1>3 DEF Noop, DropBaseline, Adopt, SkipUpload
    <2>4. /\ run'.pc = "files" /\ run'.todo = run.todo \ {k} /\ run'.cur = None
          /\ run'.dirs = run.dirs /\ run'.seen = run.seen /\ run'.base = run.base
          /\ run'.dropLocal = run.dropLocal /\ run'.dropRemote = run.dropRemote
        BY <1>0, <1>2, <2>1, <2>3 DEF Run
    <2> QED BY <2>1, <2>2, <2>4 DEF SameMarks, Kept, Pending
<1>4. ASSUME NEW k \in Keys, DeleteLocal(k) \/ DeleteRemote(k) PROVE Goal
    <2>1. Working /\ run.pc = "files" /\ run.cur = None /\ k \in Pending
        BY <1>1, <1>4 DEF DeleteLocal, DeleteRemote, Op, At
    <2>2. UNCHANGED <<localDirs, remoteDirs, disturbed>>
          /\ \A x \in Keys \ {k} : remote'[x] = remote[x]
        BY <1>4 DEF DeleteLocal, DeleteRemote, EngineStep, users, Inv, TypeOK
    <2>3. run' = [run EXCEPT !.todo = @ \ {k}] BY <1>4 DEF DeleteLocal, DeleteRemote
    <2>4. /\ run'.pc = "files" /\ run'.todo = run.todo \ {k} /\ run'.cur = None
          /\ run'.dirs = run.dirs /\ run'.seen = run.seen /\ run'.base = run.base
          /\ run'.dropLocal = run.dropLocal /\ run'.dropRemote = run.dropRemote
        BY <1>0, <2>1, <2>3 DEF Run
    <2> QED BY <2>1, <2>2, <2>4 DEF SameMarks, Kept, Pending
<1>5. ASSUME NEW k \in Keys, RemoveOld(k) PROVE Goal
    <2>1. Working /\ run.cur = None /\ k \in Pending BY <1>1, <1>5 DEF RemoveOld
    <2>2. UNCHANGED <<localDirs, remoteDirs, disturbed>>
          /\ \A x \in Keys \ {k} : remote'[x] = remote[x]
        BY <1>5 DEF RemoveOld, EngineStep, users, Inv, TypeOK
    <2>3. /\ run'.pc = "put" /\ run'.todo = run.todo /\ run'.cur = k
          /\ run'.dirs = run.dirs /\ run'.seen = run.seen /\ run'.base = run.base
          /\ run'.dropLocal = run.dropLocal /\ run'.dropRemote = run.dropRemote
        BY <1>0, <1>5 DEF RemoveOld, Run
    <2> QED BY <2>1, <2>2, <2>3, NoneAssumption DEF SameMarks, Kept, Pending
<1>6. ASSUME NEW k \in Keys, PutFile(k), CanPut(k)
      PROVE  \A x \in Keys : remote[x] # None => remote'[x] # None
    <2>1. remote' = [remote EXCEPT ![k] = [content |-> local[k].content, timestamp |-> now]]
        BY <1>6 DEF PutFile
    <2>2. local[k] \in LocalFile /\ now \in Nat BY <1>6, NowType DEF CanPut, Inv, TypeOK
    <2>3. [content |-> local[k].content, timestamp |-> now] \in RemoteFile
        BY <2>2 DEF LocalFile, RemoteFile
    <2> QED BY <2>1, <2>3, NoneAssumption DEF Inv, TypeOK
<1>7. ASSUME NEW k \in Keys, Upload(k) PROVE Goal
    <2>1. Working /\ run.cur \in {k, None}
        BY <1>1, <1>7 DEF Upload, Uploading, At, Working
    <2>2. UNCHANGED <<localDirs, remoteDirs, disturbed>>
        BY <1>7 DEF Upload, EngineStep, users
    <2>3. \A x \in Keys : remote[x] # None => remote'[x] # None BY <1>6, <1>7 DEF Upload
    <2>4. /\ run'.pc = "record" /\ run'.todo = run.todo /\ run'.cur = k
          /\ run'.dirs = run.dirs /\ run'.seen = run.seen /\ run'.base = run.base
          /\ run'.dropLocal = run.dropLocal /\ run'.dropRemote = run.dropRemote
        BY <1>0, <1>7 DEF Upload, Run
    <2> QED BY <2>1, <2>2, <2>3, <2>4, NoneAssumption DEF SameMarks, Kept, Pending
<1>8. ASSUME NEW k \in Keys, SetAside(k) PROVE Goal
    <2>1. Working /\ run.cur = None BY <1>1, <1>8 DEF SetAside
    <2>2. UNCHANGED <<localDirs, remote, remoteDirs, disturbed>>
        BY <1>8 DEF SetAside
    <2>3. PICK i \in FreeCopy(k) :
              run' = [run EXCEPT !.pc = "fetch", !.cur = k, !.copy = Copies[k][i]]
        BY <1>8 DEF SetAside
    <2>4. /\ run'.pc = "fetch" /\ run'.todo = run.todo /\ run'.cur = k
          /\ run'.dirs = run.dirs /\ run'.seen = run.seen /\ run'.base = run.base
          /\ run'.dropLocal = run.dropLocal /\ run'.dropRemote = run.dropRemote
        BY <1>0, <2>3 DEF Run
    <2> QED BY <2>1, <2>2, <2>4, NoneAssumption DEF SameMarks, Kept, Pending
<1>9. ASSUME NEW k \in Keys, Download(k) PROVE Goal
    <2>1. Working /\ run.cur \in {k, None}
        BY <1>1, <1>9 DEF Download, Fetching, At, Working
    <2>2. UNCHANGED <<remote, remoteDirs, disturbed>> /\ remote[k] # None
          /\ localDirs' = localDirs \cup Above[k]
        BY <1>9 DEF Download, EngineStep, users
    <2>3. /\ run'.pc \in {"push", "record"} /\ run'.todo = run.todo /\ run'.cur = k
          /\ run'.dirs = run.dirs /\ run'.seen = run.seen /\ run'.base = run.base
          /\ run'.dropLocal = run.dropLocal /\ run'.dropRemote = run.dropRemote
        BY <1>0, <1>9 DEF Download, Run
    <2>4. k \in Keys \ Pending' BY <2>3 DEF Pending
    <2> QED BY <2>1, <2>2, <2>3, <2>4, NoneAssumption DEF SameMarks, Kept, Pending
<1>10. CASE PushCopy
    <2>1. Working /\ run.copy \in Keys BY <1>10 DEF PushCopy, At, Working, Inv, RunShape
    <2>2. UNCHANGED <<localDirs, remoteDirs, disturbed>>
        BY <1>10 DEF PushCopy, EngineStep, users
    <2>3. \A x \in Keys : remote[x] # None => remote'[x] # None BY <1>6, <1>10, <2>1 DEF PushCopy
    <2>4. /\ run'.pc = "record" /\ run'.todo = run.todo /\ run'.cur = run.cur
          /\ run'.dirs = run.dirs /\ run'.seen = run.seen /\ run'.base = run.base
          /\ run'.dropLocal = run.dropLocal /\ run'.dropRemote = run.dropRemote
        BY <1>0, <1>10 DEF PushCopy, Run
    <2> QED BY <2>1, <2>2, <2>3, <2>4 DEF SameMarks, Kept, Pending
<1>11. CASE Record
    <2>1. Working BY <1>11 DEF Record, At, Working
    <2>2. UNCHANGED <<localDirs, remote, remoteDirs, disturbed>>
        BY <1>11 DEF Record, EngineStep, users, stores
    <2>3. /\ run'.pc = "files" /\ run'.todo = run.todo \ {run.cur}
          /\ run'.dirs = run.dirs /\ run'.seen = run.seen /\ run'.base = run.base
          /\ run'.dropLocal = run.dropLocal /\ run'.dropRemote = run.dropRemote
        BY <1>0, <1>11 DEF Record, Run
    <2> QED BY <2>1, <2>2, <2>3 DEF SameMarks, Kept, Pending
<1>12. CASE Cleanup
    <2>1. Working BY <1>12 DEF Cleanup, At, Working
    <2>2. UNCHANGED <<localDirs, remote, remoteDirs, disturbed>>
        BY <1>12 DEF Cleanup, EngineStep, users, stores
    <2>3. /\ run'.pc = "cleanup" /\ run'.todo = run.todo /\ run'.cur = run.cur
          /\ run'.dirs = run.dirs /\ run'.seen = run.seen /\ run'.base = run.base
          /\ run'.dropLocal = run.dropLocal /\ run'.dropRemote = run.dropRemote
        BY <1>0, <1>12 DEF Cleanup, Run
    <2> QED BY <2>1, <2>2, <2>3 DEF SameMarks, Kept, Pending
<1> QED BY <1>3, <1>4, <1>5, <1>7, <1>8, <1>9, <1>10, <1>11, <1>12 DEF Files

(* So they disturb nothing of what the two passes need.                    *)
LEMMA FilesRight ==
    ASSUME Inv, Inv', RunTrue, RemoteClosed', FoldersRight, ~disturbed',
           Files \/ PushCopy \/ Record \/ Cleanup
    PROVE  KnowsAll' /\ MarksRight' /\ MadeToStay' /\ OnlyHere' /\ OnlyThere'
<1>1. /\ Working /\ run'.pc \in {"files", "put", "fetch", "push", "record", "cleanup"}
      /\ SameMarks /\ Kept
    BY FilesKept
<1>2. MarksRight /\ MadeToStay /\ OnlyHere /\ OnlyThere
    BY <1>1 DEF FoldersRight, Working, SameMarks
<1>3. KnowsAll' BY <1>1 DEF KnowsAll
<1>4. MarksRight' BY <1>1, <1>2 DEF MarksRight, SameMarks
<1>5. \A x : Lasting(x) => Lasting(x)' BY <1>1 DEF Lasting, SameMarks, Kept
<1>6. localDirs' = localDirs
      \/ \E k \in Keys : Lasting(k)' /\ Above[k] \subseteq remoteDirs' /\ localDirs' = localDirs \cup Above[k]
    BY <1>1 DEF Kept, Lasting, RemoteClosed
<1>7. MadeToStay'
    <2> SUFFICES ASSUME NEW d \in localDirs' \ run.seen
                 PROVE  \E x \in {d} \cup Under(d) : Lasting(x)'
        BY <1>1 DEF MadeToStay, SameMarks
    <2>1. CASE d \in localDirs BY <1>2, <1>5, <2>1 DEF MadeToStay
    <2>2. CASE d \notin localDirs
        <3>1. PICK k \in Keys : Lasting(k)' /\ d \in Above[k] BY <1>6, <2>2
        <3>2. k \in Under(d) BY <3>1 DEF Under
        <3> QED BY <3>1, <3>2
    <2> QED BY <2>1, <2>2
<1>8. OnlyHere'
    <2> SUFFICES ASSUME NEW d \in localDirs', d \notin remoteDirs
                 PROVE  d \in run.dropLocal \/ Orphan(d)'
        BY <1>1 DEF OnlyHere, SameMarks
    <2>1. d \in localDirs BY <1>1, <1>6 DEF SameMarks
    <2> QED BY <1>1, <1>2, <2>1 DEF OnlyHere, Orphan, StillHolds, Turn, SameMarks, Working
<1>9. OnlyThere'
    BY <1>1, <1>2, <1>6 DEF OnlyThere, Turn, SameMarks, Working
<1> QED BY <1>3, <1>4, <1>7, <1>8, <1>9

(* A run begins with all folders to come, and has no folder left to come   *)
(* when it plans the files.                                                *)
LEMMA BeginsRight ==
    ASSUME Inv, FoldersRight, ~disturbed', ListTree \/ ReadManifest \/ Plan
    PROVE  FoldersRight'
<1>0. run \in Run BY DEF Inv, TypeOK
<1>1. UNCHANGED <<localDirs, remote, remoteDirs>> BY DEF ListTree, ReadManifest, Plan, stores
<1>2. CASE ListTree
    <2>1. /\ run'.pc = "listed" /\ run'.dirs = remoteDirs
          /\ run'.blocked = {} /\ run'.dropLocal = {} /\ run'.dropRemote = {}
        BY <1>2 DEF ListTree, IdleRun
    <2> QED BY <1>1, <2>1 DEF FoldersRight, KnowsAll
<1>3. CASE ReadManifest
    <2>1. run.pc = "listed" /\ ~disturbed BY <1>3 DEF ReadManifest, At, EngineStep, users
    <2>2. KnowsAll BY <2>1 DEF FoldersRight
    <2>3. /\ run'.pc = "folders" /\ run'.dirs = run.dirs /\ run'.seen = localDirs
          /\ run'.todo = run.dirs \cup localDirs \cup manifest.dirs
          /\ run'.blocked = run.blocked /\ run'.dropLocal = run.dropLocal
          /\ run'.dropRemote = run.dropRemote
        BY <1>0, <1>3 DEF ReadManifest, Run
    <2>4. KnowsAll' BY <1>1, <2>1, <2>2, <2>3 DEF KnowsAll
    <2>5. MarksRight' BY <2>1, <2>2, <2>3 DEF KnowsAll, MarksRight
    <2>6. MadeToStay' BY <1>1, <2>3 DEF MadeToStay
    <2>7. OnlyHere' BY <1>1, <2>3 DEF OnlyHere, Turn
    <2>8. OnlyThere' BY <1>1, <2>1, <2>2, <2>3 DEF OnlyThere, Turn, KnowsAll
    <2> QED BY <2>4, <2>5, <2>6, <2>7, <2>8 DEF FoldersRight
<1>4. CASE Plan
    <2>1. run.pc = "folders" /\ run.todo = {} /\ ~disturbed BY <1>4 DEF Plan, At, EngineStep, users
    <2>2. MarksRight /\ MadeToStay /\ OnlyHere /\ OnlyThere BY <2>1 DEF FoldersRight
    <2>3. /\ run'.pc = "files" /\ run'.dirs = run.dirs /\ run'.seen = run.seen /\ run'.base = run.base
          /\ run'.dropLocal = run.dropLocal /\ run'.dropRemote = run.dropRemote
        <3>1. PICK todo, plan : run' = [run EXCEPT !.pc = "files", !.todo = todo, !.plan = plan]
            BY <1>4 DEF Plan
        <3> QED BY <1>0, <3>1 DEF Run
    <2>4. KnowsAll' /\ MarksRight' BY <1>1, <2>2, <2>3 DEF KnowsAll, MarksRight
    <2>5. MadeToStay' BY <1>1, <2>1, <2>2, <2>3 DEF MadeToStay, Lasting
    <2>6. OnlyHere' BY <1>1, <2>1, <2>2, <2>3 DEF OnlyHere, Turn, Orphan, StillHolds
    <2>7. OnlyThere' BY <1>1, <2>1, <2>2, <2>3 DEF OnlyThere, Turn
    <2> QED BY <2>4, <2>5, <2>6, <2>7 DEF FoldersRight
<1> QED BY <1>2, <1>3, <1>4

LEMMA FoldersStep ==
    ASSUME Inv, Inv', LocalClosed, RemoteClosed, RemoteClosed', RunTrue,
           FoldersRight, [Next]_vars
    PROVE  FoldersRight'
<1> SUFFICES ASSUME ~disturbed', run'.pc # "idle" PROVE FoldersRight' BY DEF FoldersRight
<1>1. CASE User
    BY <1>1 DEF User, WriteLocal, WriteRemote, DiscardCopy, DeleteLocally, DeleteRemotely, Move
<1>2. CASE ListTree \/ ReadManifest \/ Plan BY <1>2, BeginsRight
<1>3. CASE Files \/ PushCopy \/ Record \/ Cleanup BY <1>3, FilesRight DEF FoldersRight
<1>4. CASE Throw \/ Failure \/ WriteManifest
    BY <1>4 DEF Throw, Failure, Abort, CutManifest, CutDownload, Fail, WriteManifest, IdleRun
<1>5. CASE Folders
    <2>1. PICK d \in Dirs :
              \/ KeepFolder(d) \/ FolderGone(d) \/ MakeLocalFolder(d) \/ MakeRemoteFolder(d)
              \/ BlockFolder(d) \/ DropLocalFolder(d) \/ DropRemoteFolder(d) \/ KeepRemoteFolder(d)
        BY <1>5 DEF Folders
    <2>2. ~disturbed
        BY <2>1 DEF KeepFolder, FolderGone, MakeLocalFolder, MakeRemoteFolder, BlockFolder,
            DropLocalFolder, DropRemoteFolder, KeepRemoteFolder, CallFails, EngineStep, users
    <2>3. CASE KeepFolder(d) \/ FolderGone(d) \/ MakeLocalFolder(d) \/ MakeRemoteFolder(d) \/ BlockFolder(d)
        <3>1. run.pc = "folders"
            BY <2>3 DEF KeepFolder, FolderGone, MakeLocalFolder, MakeRemoteFolder, NewLocalFolder,
                BlockFolder, Shallowest, At
        <3>2. KnowsAll /\ MarksRight /\ MadeToStay /\ OnlyHere /\ OnlyThere
            BY <2>2, <3>1 DEF FoldersRight
        <3> QED BY <2>2, <2>3, <3>1, <3>2, CreationPass DEF FoldersRight
    <2>4. CASE DropLocalFolder(d) \/ DropRemoteFolder(d) \/ KeepRemoteFolder(d)
        <3>1. run.pc = "cleanup"
            BY <2>4 DEF DropLocalFolder, DropRemoteFolder, KeepRemoteFolder, At
        <3>2. MarksRight /\ MadeToStay /\ OnlyHere /\ OnlyThere
            BY <2>2, <3>1 DEF FoldersRight
        <3> QED BY <2>2, <2>4, <3>1, <3>2, RemovalPass DEF FoldersRight
    <2> QED BY <2>1, <2>3, <2>4
<1>6. CASE UNCHANGED vars
    BY <1>6 DEF vars, stores, users, FoldersRight, KnowsAll, MarksRight, MadeToStay, Lasting, Pending,
        OnlyHere, OnlyThere, Turn, Orphan, StillHolds, Denied
<1> QED BY <1>1, <1>2, <1>3, <1>4, <1>5, <1>6 DEF Next, Engine

(* After a run that succeeds while no user acts and no call fails, the     *)
(* folders of the two ends agree as well, but for a local folder that      *)
(* still holds something, has no parent at the server or may not be made   *)
(* there, and a remote one that may not be deleted, or has such a folder   *)
(* in it: runSync removes a folder that one end has lost, unless something *)
(* new is in it, and then puts it back.                                    *)
THEOREM FoldersAgree ==
    ASSUME Setting
    PROVE  Spec => []FoldersSettle
<1>1. Init => FoldersRight /\ FoldersSettle
    BY DEF Init, IdleRun, FoldersRight, FoldersSettle, Clean
<1>2. ASSUME Inv, Inv', LocalClosed, RemoteClosed, RemoteClosed', RunTrue, FixedPoint', FoldersRight, FoldersSettle,
             [Next]_vars
      PROVE  FoldersRight' /\ FoldersSettle'
    <2>1. FoldersRight' BY <1>2, FoldersStep
    <2>2. ASSUME WriteManifest, ~disturbed' PROVE FoldersSettle'
        <3>1. /\ run.pc = "cleanup" /\ run.dropLocal = {} /\ run.dropRemote = {} /\ ~disturbed
              /\ UNCHANGED <<local, remote, localDirs, remoteDirs>>
            BY <2>2 DEF WriteManifest, SavePoint, At, EngineStep, stores, users
        <3>2. OnlyHere /\ OnlyThere BY <1>2, <3>1 DEF FoldersRight
        <3>3. \A d \in localDirs \ remoteDirs :
                  \/ ~Empty(d, local, localDirs)
                  \/ Parent[d] \notin (remoteDirs \cup {Root}) \ CreateDenied
            BY <3>1, <3>2 DEF OnlyHere, Turn, Orphan, StillHolds, Empty
        <3>4. \A d \in remoteDirs \ localDirs : ({d} \cup Under(d)) \cap DeleteDenied # {}
            BY <3>1, <3>2 DEF OnlyThere, Turn, Denied
        <3>5. Clean' => \A k \in Keys \ retaken' : Stranded(k)' \/ Agree(k)' BY <1>2 DEF FixedPoint
        <3> QED BY <3>1, <3>3, <3>4, <3>5 DEF FoldersSettle, Empty
    <2>3. CASE WriteManifest BY <2>1, <2>2, <2>3 DEF FoldersSettle, Clean
    <2>4. CASE User
        BY <2>1, <2>4 DEF User, WriteLocal, WriteRemote, DiscardCopy, DeleteLocally, DeleteRemotely, Move,
            FoldersSettle, Clean
    <2>5. CASE ListTree
        BY <2>1, <2>5 DEF ListTree, IdleRun, FoldersSettle, Clean, At
    <2>6. CASE Plan \/ ReadManifest \/ Folders \/ Files \/ PushCopy \/ Record \/ Cleanup
        <3>1. run.pc # "idle" BY <1>2, <2>6, IdleDoesNothing
        <3>2. run'.pc # "idle"
            <4>1. CASE Files \/ PushCopy \/ Record \/ Cleanup BY <1>2, <4>1, FilesKept
            <4>2. CASE Folders BY <1>2, <3>1, <4>2, FolderSteps
            <4>3. CASE Plan \/ ReadManifest
                <5>1. run \in Run BY <1>2 DEF Inv, TypeOK
                <5> QED BY <4>3, <5>1 DEF Plan, ReadManifest, Run
            <4> QED BY <2>6, <4>1, <4>2, <4>3
        <3> QED BY <2>1, <3>2 DEF FoldersSettle, Clean, At
    <2>7. CASE Throw \/ Failure
        BY <2>1, <2>7 DEF Throw, Failure, Abort, CutManifest, CutDownload, Fail, FoldersSettle, Clean
    <2>8. CASE UNCHANGED vars
        BY <1>2, <2>1, <2>8 DEF vars, stores, disk, users, FoldersSettle, Clean, At, Stranded, Agree, Empty
    <2> QED BY <1>2, <2>3, <2>4, <2>5, <2>6, <2>7, <2>8 DEF Next, Engine
<1>3. TreesClosed => LocalClosed /\ RemoteClosed BY DEF TreesClosed, LocalClosed, RemoteClosed
<1> QED BY <1>1, <1>2, <1>3, FoldersFirst, RunsSettle, PromiseInductive, PTL DEF Spec

-----------------------------------------------------------------------------
(* Conflicts do not breed.                                                 *)

(* The names of a version, on either end, and those the manifest knows by  *)
(* another version: the name under which users wrote it.                   *)
Names(v) == {k \in Keys : There(local, k, v) \/ There(remote, k, v)}
Foreign(k, v) == k \in Names(v) /\ Entries[k] # None /\ ~Synced(k, v)

(* Both ends hold the version and the manifest, which was not saved when   *)
(* it came there, knows neither: a run would set one aside for the other.  *)
SetsTwin(k, v) ==
    /\ Waiting(k) /\ Equal(k) /\ There(local, k, v)
    /\ Entries[k] # None /\ LocalChanged(local[k], Entries[k]) /\ RemoteChanged(remote[k], Entries[k])

(* A version has one name, and one more for each failure; so has one that  *)
(* is to get a twin, when it has it.                                       *)
PaidFor(v) ==
    Sure(v) =>
        /\ IsFiniteSet(Names(v)) /\ Cardinality(Names(v)) <= 1 + faults
        /\ \A i, j \in Keys : Foreign(i, v) /\ Foreign(j, v) => i = j
        /\ \A k \in Keys : SetsTwin(k, v) => Cardinality(Names(v)) <= faults
Paid == \A v : PaidFor(v)

(* A step that gives the version no new name. *)
LEMMA NothingNew ==
    ASSUME Inv, NEW v, PaidFor(v), Sure(v)' => Sure(v), Names(v)' \subseteq Names(v),
           manifest' = manifest \/ \A k \in Keys : ~Foreign(k, v)',
           \/ faults' = faults + 1
           \/ faults' = faults /\ \A k \in Keys : SetsTwin(k, v)' => SetsTwin(k, v)
    PROVE  PaidFor(v)'
<1> SUFFICES ASSUME Sure(v)' PROVE PaidFor(v)' BY DEF PaidFor
<1> DEFINE n == Cardinality(Names(v))
           m == Cardinality(Names(v)')
<1>1. IsFiniteSet(Names(v)') /\ m <= n /\ m \in Nat /\ n \in Nat
    BY FS_Subset, FS_CardinalityType DEF PaidFor
<1>2. faults \in Nat BY BoundsAssumption DEF Inv, TypeOK
<1>3. n <= 1 + faults /\ \A k \in Keys : SetsTwin(k, v) => n <= faults
    BY DEF PaidFor
<1>4. \A i, j \in Keys : Foreign(i, v)' /\ Foreign(j, v)' => i = j
    <2>1. manifest' = manifest => \A i \in Keys : Foreign(i, v)' => Foreign(i, v)
        BY DEF Foreign, Synced, Entries
    <2> QED BY <2>1 DEF PaidFor
<1> HIDE DEF n, m
<1>5. m <= 1 + faults' BY <1>1, <1>2, <1>3
<1>6. \A k \in Keys : SetsTwin(k, v)' => m <= faults'
    BY <1>1, <1>2, <1>3
<1> QED BY <1>1, <1>4, <1>5, <1>6 DEF PaidFor, m

(* A step of the run that leaves alone what it has not touched yet. *)
LEMMA AloneNoTwin ==
    ASSUME LeftAlone, NEW v, Sure(v)', NEW k \in Keys, SetsTwin(k, v)'
    PROVE  SetsTwin(k, v)
<1>1. remote'[k] # None /\ remote'[k].content = v /\ local'[k] # None /\ SureThere(k)' /\ Waiting(k)'
    BY DEF SetsTwin, Equal, There, SureThere
<1>2. Waiting(k) /\ remote'[k] = remote[k] /\ local'[k] = local[k] /\ Entries' = Entries
    BY <1>1 DEF LeftAlone, Entries
<1> QED BY <1>2 DEF SetsTwin, Equal, There

(* A version that is to get a twin is under a name of another version. *)
LEMMA TwinForeign ==
    ASSUME Store, NEW v, Sure(v), NEW k \in Keys, SetsTwin(k, v)
    PROVE  Foreign(k, v)
<1>1. /\ local[k] # None /\ local[k].content = v /\ Entries[k] # None /\ LocalChanged(local[k], Entries[k])
      /\ ~Unsure(k, v) /\ v # 0
    BY DEF SetsTwin, There, Unsure, Sure
<1>2. ~Synced(k, v) BY <1>1 DEF Store, LocalTells
<1> QED BY <1>1, <1>2 DEF Foreign, Names, There

(* A file set aside: its version keeps one name, or gets a second one that *)
(* was paid for; under a name taken again it is not sure any more.         *)
LEMMA AsidePaid ==
    ASSUME Setting, Inv, Store, RunTrue, Paid, NEW k \in Keys, SetAside(k)
    PROVE  Paid'
<1>1. PICK c : SetsAside(k, c) BY AsideOp
<1>2. /\ c \in Keys /\ c # k /\ local[k] # None /\ remote[k] # None /\ remote' = remote
      /\ manifest' = manifest /\ Entries' = Entries
      /\ local'[k] = None /\ local'[c] = local[k]
      /\ \A j \in Keys \ {k, c} : local'[j] = local[j]
    BY <1>1 DEF SetsAside, Inv, TypeOK, Entries
<1>3. LeftAlone /\ faults' = faults BY FilesAlone DEF Files, SetAside
<1>4. faults \in Nat BY BoundsAssumption DEF Inv, TypeOK
<1> SUFFICES ASSUME NEW v, Sure(v)' PROVE PaidFor(v)' BY DEF Paid, PaidFor
<1>5. PaidFor(v) /\ Sure(v) BY <1>3 DEF Paid, LeftAlone, Sure
<1>6. \A j \in Keys : SetsTwin(j, v)' => SetsTwin(j, v) BY <1>3, AloneNoTwin
<1>7. CASE local[k].content # v
    <2>1. Names(v)' \subseteq Names(v) BY <1>2, <1>7 DEF Names, There
    <2> QED BY <1>2, <1>3, <1>5, <1>6, <2>1, NothingNew
<1>8. CASE local[k].content = v
    <2>1. remote[c] = None /\ Entries[c] = None
        <3>1. Retake(k, c) BY <1>1 DEF SetsAside
        <3>2. v \notin atRisk' BY DEF Sure
        <3> QED BY <1>2, <1>8, <3>1, <3>2, RetakeCases DEF Inv
    <2> DEFINE n == Cardinality(Names(v))
               m == Cardinality(Names(v)')
    <2>2. There(local, k, v) /\ k \in Names(v) BY <1>2, <1>8 DEF There, Names
    <2>3. \A i, j \in Keys : Foreign(i, v)' /\ Foreign(j, v)' => i = j
        <3>1. \A i \in Keys : Foreign(i, v)' => Foreign(i, v)
            BY <1>2, <2>1 DEF Foreign, Names, There, Synced
        <3> QED BY <1>5, <3>1 DEF PaidFor
    <2>4. IsFiniteSet(Names(v)) /\ n \in Nat /\ n <= 1 + faults
        BY <1>5, FS_CardinalityType DEF PaidFor
    <2>5. CASE There(remote, k, v)
        <3>1. SetsTwin(k, v)
            <4>1. Equal(k) BY <2>2, <2>5 DEF Equal, There
            <4>2. /\ Working /\ run.cur = None /\ k \in run.todo
                  /\ "conflict" = Decide(local[k], remote[k], Entries[k])
                  /\ ~(local[k] = None /\ remote[k] = None /\ Entries[k] = None)
                BY Chosen DEF SetAside, Mixed
            <4>3. Waiting(k) BY <4>2, NoneAssumption DEF Waiting, Pending
            <4>4. Entries[k] # None /\ LocalChanged(local[k], Entries[k]) /\ RemoteChanged(remote[k], Entries[k])
                BY <1>8, <2>5, <4>2, DecideTells DEF There
            <4> QED BY <2>2, <4>1, <4>3, <4>4 DEF SetsTwin
        <3>2. n <= faults BY <1>5, <3>1 DEF PaidFor
        <3>3. IsFiniteSet(Names(v)') /\ m \in Nat /\ m <= n + 1
            <4>1. Names(v)' \subseteq Names(v) \cup {c} BY <1>2 DEF Names, There
            <4>2. /\ IsFiniteSet(Names(v) \cup {c})
                  /\ Cardinality(Names(v) \cup {c}) \in {n, n + 1}
                BY <2>4, FS_AddElement
            <4>3. IsFiniteSet(Names(v)') /\ m <= Cardinality(Names(v) \cup {c}) BY <4>1, <4>2, FS_Subset
            <4>4. m \in Nat BY <4>3, FS_CardinalityType
            <4> HIDE DEF n, m
            <4> QED BY <2>4, <4>2, <4>3, <4>4
        <3>4. ASSUME NEW j \in Keys, SetsTwin(j, v)' PROVE FALSE
            <4>1. j = k BY <1>5, <1>6, <3>1, <3>4, TwinForeign DEF PaidFor
            <4>2. local'[j] # None BY <3>4 DEF SetsTwin, There
            <4> QED BY <1>2, <4>1, <4>2
        <3>5. m <= 1 + faults'
            <4> HIDE DEF n, m
            <4> QED BY <1>3, <1>4, <2>4, <3>2, <3>3
        <3> QED BY <2>3, <3>3, <3>4, <3>5 DEF PaidFor
    <2>6. CASE ~There(remote, k, v)
        <3> DEFINE R == Names(v) \ {k}
        <3>1. Names(v)' \subseteq R \cup {c} BY <1>2, <2>6 DEF Names, There
        <3>2. IsFiniteSet(R) /\ Cardinality(R) = n - 1 BY <2>2, <2>4, FS_RemoveElement
        <3>3. IsFiniteSet(R \cup {c}) /\ Cardinality(R \cup {c}) \in {Cardinality(R), Cardinality(R) + 1}
            BY <3>2, FS_AddElement
        <3>4. IsFiniteSet(Names(v)') /\ m <= Cardinality(R \cup {c}) BY <3>1, <3>3, FS_Subset
        <3>5. m \in Nat BY <3>4, FS_CardinalityType
        <3>6. m <= n
            <4> HIDE DEF n, m, R
            <4> QED BY <2>4, <3>2, <3>3, <3>4, <3>5
        <3>7. \A j \in Keys : SetsTwin(j, v)' => n <= faults BY <1>5, <1>6 DEF PaidFor
        <3>8. m <= 1 + faults' /\ \A j \in Keys : SetsTwin(j, v)' => m <= faults'
            <4> HIDE DEF n, m, R
            <4> QED BY <1>3, <1>4, <2>4, <3>5, <3>6, <3>7
        <3> QED BY <2>3, <3>4, <3>8 DEF PaidFor
    <2> QED BY <2>5, <2>6
<1> QED BY <1>7, <1>8

(* The other operations of the plan give no version a name. *)
LEMMA FilesPaid ==
    ASSUME Setting, Inv, Store, RunTrue, Paid, Files \/ PushCopy
    PROVE  Paid'
<1>1. ASSUME NEW k \in Keys, SetAside(k) PROVE Paid' BY <1>1, AsidePaid
<1>2. ASSUME UNCHANGED faults, \A v : Sure(v) => Names(v)' \subseteq Names(v)
      PROVE  Paid'
    <2> SUFFICES ASSUME NEW v, Sure(v)' PROVE PaidFor(v)' BY DEF Paid, PaidFor
    <2>1. LeftAlone BY FilesAlone
    <2>2. Sure(v) /\ manifest' = manifest BY <2>1 DEF LeftAlone, Sure
    <2>3. \A k \in Keys : SetsTwin(k, v)' => SetsTwin(k, v) BY <2>1, AloneNoTwin
    <2> QED BY <1>2, <2>2, <2>3, NothingNew DEF Paid
<1>3. ASSUME NEW k, \/ DropsLocal(k) \/ DropsRemote(k) \/ Puts(k) \/ Churns(k)
                    \/ k \in Keys /\ Gets(k, remote[k].content),
             NEW v, Sure(v)
      PROVE  Names(v)' \subseteq Names(v)
    <2>1. k \in Keys BY <1>3 DEF DropsLocal, DropsRemote, Puts, Churns
    <2> SUFFICES \A j \in Keys : There(local, j, v)' \/ There(remote, j, v)'
                                 => There(local, j, v) \/ There(remote, j, v)
        BY DEF Names
    <2>2. CASE DropsLocal(k) \/ DropsRemote(k)
        BY <2>1, <2>2 DEF DropsLocal, DropsRemote, Inv, TypeOK, There
    <2>3. CASE Puts(k) BY <2>1, <2>3 DEF Puts, Inv, TypeOK, There
    <2>4. CASE Gets(k, remote[k].content)
        BY <2>1, <2>4 DEF Gets, Inv, TypeOK, There
    <2>5. CASE Churns(k) BY <1>3, <2>1, <2>5 DEF Churns, Odd, Inv, TypeOK, There, Sure
    <2> QED BY <1>3, <2>2, <2>3, <2>4, <2>5
<1>4. ASSUME NEW k \in Keys, Noop(k) \/ DropBaseline(k) \/ Adopt(k) \/ SkipUpload(k) PROVE Paid'
    <2>1. UNCHANGED <<local, remote>> BY <1>4, QuietOp
    <2>2. UNCHANGED faults BY <1>4 DEF Noop, DropBaseline, Adopt, SkipUpload
    <2> QED BY <1>2, <2>1, <2>2 DEF Names, There
<1>5. ASSUME NEW k \in Keys, DeleteLocal(k) \/ DeleteRemote(k) \/ RemoveOld(k) \/ Upload(k) \/ Download(k)
      PROVE  Paid'
    <2>1. UNCHANGED faults BY <1>5 DEF DeleteLocal, DeleteRemote, RemoveOld, Upload, Download
    <2>2. DropsLocal(k) \/ DropsRemote(k) \/ Puts(k) \/ Gets(k, remote[k].content) \/ Churns(k)
        BY <1>5, DropOp, RemoveOp, UploadOp, DownloadOp
    <2> QED BY <1>2, <1>3, <2>1, <2>2
<1>6. CASE PushCopy
    <2>1. UNCHANGED faults BY <1>6 DEF PushCopy
    <2> QED BY <1>2, <1>3, <1>6, <2>1, PushOp
<1> QED BY <1>1, <1>4, <1>5, <1>6 DEF Files

(* What the users write is a new version, with one name. *)
LEMMA UsersPaid ==
    ASSUME Setting, Inv, Inv', Store, Paid, User
    PROVE  Paid'
<1>1. /\ manifest' = manifest /\ run' = run /\ faults' = faults /\ clock' = clock + 1 /\ clock \in Nat
      /\ atRisk' = atRisk /\ faults \in Nat /\ \A k \in Keys : Waiting(k)
    <2>1. Move("local") \/ Move("remote")
        BY DEF User, WriteLocal, WriteRemote, DiscardCopy, DeleteLocally, DeleteRemotely
    <2>2. run.pc = "idle" /\ run' = run /\ manifest' = manifest /\ faults' = faults /\ clock' = clock + 1
          /\ atRisk' = atRisk
        BY <2>1 DEF Move, Setting, disk
    <2>3. clock \in Nat /\ faults \in Nat BY BoundsAssumption DEF Inv, TypeOK, Moves
    <2> QED BY <2>2, <2>3 DEF Waiting
<1>2. Names(clock + 1) = {}
    <2>1. \A k \in Keys : /\ local[k] # None => local[k].content \in Nat /\ local[k].content <= clock
                          /\ remote[k] # None => remote[k].content \in Nat /\ remote[k].content <= clock
        BY BoundsAssumption DEF Inv, TypeOK, Store, Bounds, LocalFile, RemoteFile, Versions, Moves
    <2> QED BY <1>1, <2>1 DEF Names, There
<1>3. PICK x : /\ \A j \in Keys \ {x} : local'[j] \in {local[j], None} /\ remote'[j] \in {remote[j], None}
               /\ x \in Keys => \/ /\ local'[x] \in {local[x], None} /\ remote'[x] \in {remote[x], None}
                                \/ There(local', x, clock + 1) /\ remote' = remote
                                \/ There(remote', x, clock + 1) /\ local' = local
    <2>1. ASSUME NEW k \in UserKeys, WriteLocal(k)
          PROVE  /\ \A j \in Keys \ {k} : local'[j] = local[j] /\ remote'[j] = remote[j]
                 /\ There(local', k, clock + 1) /\ remote' = remote
        <3>1. k \in Keys BY KeysAssumption
        <3>2. remote' = remote /\ local' = [local EXCEPT ![k] = [content |-> clock + 1, mtime |-> Second[clock + 1]]]
            BY <1>1, <2>1 DEF WriteLocal
        <3>3. local'[k] = [content |-> clock + 1, mtime |-> Second[clock + 1]]
              /\ \A j \in Keys \ {k} : local'[j] = local[j]
            BY <3>1, <3>2 DEF Inv, TypeOK
        <3>4. local'[k] # None
            <4>1. clock + 1 \in Moves BY <1>1 DEF Inv, TypeOK
            <4>2. local'[k] \in LocalFile BY <3>3, <4>1, DataAssumption DEF LocalFile, Versions
            <4> QED BY <4>2, NoneAssumption
        <3> QED BY <3>2, <3>3, <3>4 DEF There
    <2>2. ASSUME NEW k \in UserKeys, WriteRemote(k)
          PROVE  /\ \A j \in Keys \ {k} : local'[j] = local[j] /\ remote'[j] = remote[j]
                 /\ There(remote', k, clock + 1) /\ local' = local
        <3>1. k \in Keys BY KeysAssumption
        <3>2. local' = local
              /\ remote' = [remote EXCEPT ![k] = [content |-> clock + 1, timestamp |-> Second[clock + 1]]]
            BY <1>1, <2>2 DEF WriteRemote
        <3>3. remote'[k] = [content |-> clock + 1, timestamp |-> Second[clock + 1]]
              /\ \A j \in Keys \ {k} : remote'[j] = remote[j]
            BY <3>1, <3>2 DEF Inv, TypeOK
        <3>4. remote'[k] # None
            <4>1. clock + 1 \in Moves BY <1>1 DEF Inv, TypeOK
            <4>2. remote'[k] \in RemoteFile BY <3>3, <4>1, DataAssumption DEF RemoteFile, Versions
            <4> QED BY <4>2, NoneAssumption
        <3> QED BY <3>2, <3>3, <3>4 DEF There
    <2>3. ASSUME NEW gone, DeleteLocally(gone) \/ DeleteRemotely(gone)
          PROVE  \A j \in Keys : local'[j] \in {local[j], None} /\ remote'[j] \in {remote[j], None}
        BY <2>3 DEF DeleteLocally, DeleteRemotely, Without
    <2> QED BY <2>1, <2>2, <2>3 DEF User, DiscardCopy
<1> SUFFICES ASSUME NEW v, Sure(v)' PROVE PaidFor(v)' BY DEF Paid, PaidFor
<1>4. Sure(v) BY <1>1 DEF Sure
<1>5. ASSUME NEW j \in Keys, SetsTwin(j, v)' PROVE SetsTwin(j, v)
    <2>1. There(local', j, v) /\ There(remote', j, v) BY <1>5 DEF SetsTwin, Equal, There
    <2>2. ~There(local, j, clock + 1) /\ ~There(remote, j, clock + 1) BY <1>2 DEF Names
    <2>3. local'[j] = local[j] /\ remote'[j] = remote[j]
        BY <1>3, <2>1, <2>2 DEF There
    <2> QED BY <1>1, <1>5, <2>3 DEF SetsTwin, Equal, There, Entries
<1>6. CASE v = clock + 1
    <2>1. Names(v)' \subseteq {x}
        <3>1. \A j \in Keys : ~There(local, j, v) /\ ~There(remote, j, v) BY <1>2, <1>6 DEF Names
        <3> QED BY <1>3, <3>1 DEF Names, There
    <2>2. IsFiniteSet({x}) /\ Cardinality({x}) = 1 BY FS_Singleton
    <2>3. IsFiniteSet(Names(v)') /\ Cardinality(Names(v)') <= 1 /\ Cardinality(Names(v)') \in Nat
        BY <2>1, <2>2, FS_Subset, FS_CardinalityType
    <2>4. \A j \in Keys : ~SetsTwin(j, v)'
        BY <1>2, <1>5, <1>6 DEF SetsTwin, Names
    <2>5. \A i, j \in Keys : Foreign(i, v)' /\ Foreign(j, v)' => i = j BY <2>1 DEF Foreign
    <2>6. Cardinality(Names(v)') <= 1 + faults'
        <3> DEFINE m == Cardinality(Names(v)')
        <3>1. m <= 1 /\ m \in Nat BY <2>3
        <3> HIDE DEF m
        <3>2. m <= 1 + faults' BY <1>1, <3>1
        <3> QED BY <3>2 DEF m
    <2> QED BY <2>3, <2>4, <2>5, <2>6 DEF PaidFor
<1>7. CASE v # clock + 1
    <2>1. Names(v)' \subseteq Names(v) BY <1>3, <1>7 DEF Names, There
    <2> QED BY <1>1, <1>4, <1>5, <2>1, NothingNew DEF Paid
<1> QED BY <1>6, <1>7

(* Every failure pays for one more name of whatever both ends hold by      *)
(* then; a run that is saved records what they hold.                       *)
LEMMA PaidStep ==
    ASSUME Setting, Dirs = {}, CreateDenied = {},
           Inv, Inv', Store, RunTrue, Paid, [Next]_vars
    PROVE  Paid'
<1>0. run \in Run BY DEF Inv, TypeOK
<1>1. ASSUME UNCHANGED <<local, remote, manifest, atRisk>>, LeftAlone \/ faults' = faults + 1,
             faults' \in {faults, faults + 1}
      PROVE  Paid'
    <2> SUFFICES ASSUME NEW v, Sure(v)' PROVE PaidFor(v)' BY DEF Paid, PaidFor
    <2>1. Names(v)' = Names(v) /\ Sure(v) BY <1>1 DEF Names, There, Sure
    <2>2. LeftAlone => \A k \in Keys : SetsTwin(k, v)' => SetsTwin(k, v) BY AloneNoTwin
    <2> QED BY <1>1, <2>1, <2>2, NothingNew DEF Paid
<1>2. CASE Failure
    <2>1. faults' = faults + 1 /\ UNCHANGED <<manifest, atRisk>>
        BY <1>2 DEF Failure, Abort, CutManifest, CutDownload, FaultStep, EngineStep, users, disk
    <2>2. CASE Abort \/ CutManifest
        BY <1>1, <2>1, <2>2 DEF Abort, CutManifest, stores
    <2>3. ASSUME NEW k \in Keys, CutDownload(k) PROVE Paid'
        <3>1. remote' = remote /\ local' = [local EXCEPT ![k] = [content |-> 0, mtime |-> now]]
            BY <2>3 DEF CutDownload
        <3> SUFFICES ASSUME NEW v, Sure(v)' PROVE PaidFor(v)' BY DEF Paid, PaidFor
        <3>2. v # 0 /\ Sure(v) BY <2>1 DEF Sure
        <3>3. \A j \in Keys : There(local', j, v) => There(local, j, v)
            BY <3>1, <3>2 DEF There, Inv, TypeOK
        <3>4. Names(v)' \subseteq Names(v) BY <3>1, <3>3 DEF Names, There
        <3> QED BY <2>1, <3>2, <3>4, NothingNew DEF Paid
    <2> QED BY <1>2, <2>2, <2>3 DEF Failure
<1>3. CASE Throw
    <2>1. run.pc = "listed" BY <1>3, NothingRefused DEF Throw, At
    <2>2. UNCHANGED <<local, remote, manifest, live, faults, atRisk>> /\ run' = IdleRun
        BY <1>3 DEF Throw, stores, disk, EngineStep, users, Fail
    <2>3. LeftAlone BY <2>1, <2>2 DEF LeftAlone, Waiting
    <2> QED BY <1>1, <2>2, <2>3
<1>4. CASE ListTree \/ ReadManifest \/ Plan
    <2>1. UNCHANGED <<local, remote, manifest, live, faults, atRisk>> /\ run.pc \in {"idle", "listed", "folders"}
        BY <1>4 DEF ListTree, ReadManifest, Plan, At, stores, disk, EngineStep, users
    <2>2. LeftAlone BY <2>1 DEF LeftAlone, Waiting
    <2> QED BY <1>1, <2>1, <2>2
<1>5. CASE Record
    <2>1. UNCHANGED <<local, remote, manifest, live, faults, atRisk>> /\ run.pc = "record"
        BY <1>5 DEF Record, At, stores, disk, EngineStep, users
    <2>2. run'.pc = "files" /\ run'.todo = run.todo \ {run.cur} BY <1>0, <1>5 DEF Record, Run
    <2> DEFINE T == {run.cur}
    <2>3. /\ run.cur \in T \cup {None}
          /\ \A j \in Keys \cap T : j \notin run'.todo \/ j = run'.cur \/ ~SureThere(j)'
        BY <2>2
    <2> HIDE DEF T
    <2>4. LeftAlone BY <2>1, <2>2, <2>3, OthersAlone DEF Working
    <2> QED BY <1>1, <2>1, <2>4
<1>6. CASE Cleanup
    <2>1. UNCHANGED <<local, remote, manifest, live, faults, atRisk>> /\ run'.pc = "cleanup"
        BY <1>0, <1>6 DEF Cleanup, stores, disk, EngineStep, users, Run
    <2>2. LeftAlone BY <2>1 DEF LeftAlone, Waiting, Working
    <2> QED BY <1>1, <2>1, <2>2
<1>7. CASE WriteManifest
    <2>1. /\ run.pc = "cleanup" /\ run.todo = {} /\ run.copy = None /\ manifest' = run.saved
          /\ UNCHANGED <<local, remote, faults, atRisk>>
        BY <1>7 DEF WriteManifest, SavePoint, At, EngineStep, stores, users, RunTrue, Frame, Inv, RunShape
    <2>2. \A k \in Keys : Murky(k) \/ Done(k) BY <2>1, NoneAssumption DEF RunTrue, DoneTrue
    <2> SUFFICES ASSUME NEW v, Sure(v)' PROVE PaidFor(v)' BY DEF Paid, PaidFor
    <2>3. Sure(v) /\ Names(v)' = Names(v) BY <2>1 DEF Sure, Names, There
    <2>4. ASSUME NEW k \in Keys, k \in Names(v)
          PROVE  There(local, k, v) /\ run.saved.files[k] # None /\ ~LocalChanged(local[k], run.saved.files[k])
        <3>1. CASE Murky(k) BY <2>3, <2>4, <3>1 DEF Murky, Names, There, Sure
        <3>2. CASE Done(k)
            <4>1. Parent[k] \in Known BY DirsAssumption DEF Known
            <4> QED BY <2>4, <3>2, <4>1 DEF Done, Names, There, Equal
        <3> QED BY <2>2, <3>1, <3>2
    <2>5. ASSUME NEW k \in Keys, Foreign(k, v)' PROVE FALSE
        <3>1. k \in Names(v) BY <2>3, <2>5 DEF Foreign
        <3>2. run.saved.files[k].size = Size[v] BY <2>4, <3>1 DEF LocalChanged, There
        <3> QED BY <2>1, <2>5, <3>2 DEF Foreign, Synced, Entries
    <2>6. ASSUME NEW k \in Keys, SetsTwin(k, v)' PROVE FALSE
        <3>1. There(local, k, v) /\ LocalChanged(local[k], run.saved.files[k])
            BY <2>1, <2>6 DEF SetsTwin, There, Entries
        <3> QED BY <2>4, <3>1 DEF Names
    <2> QED BY <2>1, <2>3, <2>5, <2>6, NothingNew DEF Paid
<1>8. CASE UNCHANGED vars
    <2>1. UNCHANGED <<local, remote, manifest, live, run, faults, atRisk>> BY <1>8 DEF vars, stores, disk, users
    <2>2. LeftAlone BY <2>1 DEF LeftAlone, Waiting, Working, Pending
    <2> QED BY <1>1, <2>1, <2>2
<1>9. CASE Files \/ PushCopy BY <1>9, FilesPaid
<1>10. CASE User BY <1>10, UsersPaid
<1>11. ASSUME Folders PROVE FALSE BY <1>11 DEF Folders
<1> QED BY <1>2, <1>3, <1>4, <1>5, <1>6, <1>7, <1>8, <1>9, <1>10, <1>11 DEF Next, Engine

(* The disk holds one file per version, plus one for every failure there   *)
(* has been, in a flat course on a server that refuses nothing, but for    *)
(* the versions that met under a retaken name.  A run that is refused sets *)
(* aside without recording it, and so does the next: hence the hypotheses. *)
THEOREM ConflictsDoNotBreed ==
    ASSUME Setting, Dirs = {}, CreateDenied = {}
    PROVE  Spec => []FewCopies
<1>1. Init => Paid
    <2> SUFFICES ASSUME Init, NEW v PROVE PaidFor(v) BY DEF Paid
    <2>1. faults = 0 /\ \A k \in Keys : local[k] = None /\ remote[k] = None BY DEF Init, NoFiles
    <2>2. Names(v) = {} /\ \A k \in Keys : ~SetsTwin(k, v) /\ ~Foreign(k, v)
        BY <2>1 DEF Names, SetsTwin, Foreign, There
    <2> QED BY <2>1, <2>2, FS_EmptySet DEF PaidFor
<1>2. Inv /\ Inv' /\ Store /\ RunTrue /\ Paid /\ [Next]_vars => Paid'
    BY PaidStep
<1>3. Inv /\ Paid => FewCopies
    <2> SUFFICES ASSUME Inv, Paid, NEW v \in (1 .. clock) \ atRisk
                 PROVE  Cardinality({k \in Keys : There(local, k, v)}) <= 1 + faults
        BY DEF FewCopies, There
    <2> DEFINE D == {k \in Keys : There(local, k, v)}
    <2>1. Sure(v) BY DEF Sure
    <2>2. IsFiniteSet(Names(v)) /\ Cardinality(Names(v)) <= 1 + faults BY <2>1 DEF Paid, PaidFor
    <2>3. D \subseteq Names(v) BY DEF Names
    <2>4. Cardinality(D) <= Cardinality(Names(v)) /\ Cardinality(D) \in Nat /\ Cardinality(Names(v)) \in Nat
        BY <2>2, <2>3, FS_Subset, FS_CardinalityType
    <2>5. faults \in Nat BY BoundsAssumption DEF Inv, TypeOK
    <2> HIDE DEF D
    <2>6. Cardinality(D) <= 1 + faults BY <2>2, <2>4, <2>5
    <2> QED BY <2>6 DEF D
<1> QED BY <1>1, <1>2, <1>3, PromiseInductive, PTL DEF Spec
=============================================================================
