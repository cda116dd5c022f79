----------------------------- MODULE AccessLog -----------------------------
(***************************************************************************)
(* The access log of security/access-log.js: repeats are folded into the    *)
(* first entry, and pruning happens when something is written.              *)
(***************************************************************************)
EXTENDS Integers, Sequences, FiniteSets

CONSTANTS
    AlAccesses,     \* what may be accessed: [what, detail]
    AlFold,         \* DEDUPE_WINDOW_MS, in ticks
    AlRetention,    \* RETENTION_DAYS, in ticks
    AlMax,          \* MAX_ENTRIES
    AlHorizon       \* bound on the clock

ASSUME AlAssumption ==
    /\ AlFold \in Nat \ {0} /\ AlRetention \in Nat /\ AlFold < AlRetention /\ AlMax \in Nat \ {0} /\ AlHorizon \in Nat
    /\ \A a \in AlAccesses : DOMAIN a = {"what", "detail"}

VARIABLES
    alNow,      \* the clock
    alLog,      \* access_log.json, oldest first
    alDone      \* the accesses there were and that nothing went wrong with, with their time

alVars == <<alNow, alLog, alDone>>

AlTypeOK ==
    /\ alNow \in 0 .. AlHorizon /\ Len(alLog) <= AlMax + 1
    /\ \A i \in DOMAIN alLog : alLog[i].access \in AlAccesses /\ alLog[i].at \in 0 .. alNow
    /\ \A i, j \in DOMAIN alLog : i < j => alLog[i].at <= alLog[j].at

-----------------------------------------------------------------------------
(* The log is in order of time: those young enough are its last ones. *)
Fresh(log) == Cardinality({i \in DOMAIN log : log[i].at >= alNow - AlRetention})
LastOnes(log, n) == SubSeq(log, Len(log) - n + 1, Len(log))

NoCap(log) == LastOnes(log, Fresh(log))       \* mutant of Prune

(* Too old, then too many. *)
Prune(log) == LastOnes(log, IF Fresh(log) > AlMax THEN AlMax ELSE Fresh(log))

IgnoresDetail(log, a) ==        \* mutant of IsRepeat: to view and to download are the same
    \E i \in DOMAIN log : /\ log[i].access.what = a.what /\ alNow - log[i].at < AlFold
                         /\ \A j \in i + 1 .. Len(log) : log[j].access.what # a.what

(* The newest entry of the same access decides. *)
IsRepeat(log, a) ==
    \E i \in DOMAIN log : /\ log[i].access = a /\ alNow - log[i].at < AlFold
                         /\ \A j \in i + 1 .. Len(log) : log[j].access # a

(* record: a repeat is not written, and then neither is what was pruned. *)
Record(a) ==
    /\ LET entries == Prune(alLog) IN
       alLog' = IF IsRepeat(entries, a) THEN alLog ELSE Append(entries, [access |-> a, at |-> alNow])
    /\ alDone' = alDone \cup {[access |-> a, at |-> alNow]}
    /\ UNCHANGED alNow

(* A write that fails is a gap, and nothing else. *)
RecordFails(a) == ~IsRepeat(Prune(alLog), a) /\ UNCHANGED alVars

AlTick ==
    /\ alNow < AlHorizon /\ alNow' = alNow + 1 /\ UNCHANGED alLog
    /\ alDone' = {d \in alDone : d.at >= alNow' - AlRetention}

AlInit == alNow = 0 /\ alLog = <<>> /\ alDone = {}
AlNext == AlTick \/ \E a \in AlAccesses : Record(a) \/ RecordFails(a)
AlSpec == AlInit /\ [][AlNext]_alVars

-----------------------------------------------------------------------------
(* Properties. *)

Covers(e, d) == e.access = d.access /\ e.at <= d.at /\ d.at - e.at < AlFold

(* "Which data was reachable in that window": every access that is younger  *)
(* than the retention has an entry, at most a fold earlier - or so many     *)
(* accesses came after it that the cap took the entry.                     *)
AccessesFound ==
    \A d \in alDone :
        d.at - AlFold >= alNow - AlRetention =>
            \/ \E i \in DOMAIN alLog : Covers(alLog[i], d)
            \/ Len(alLog) > AlMax /\ d.at - AlFold < alLog[1].at
=============================================================================
