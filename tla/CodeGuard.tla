----------------------------- MODULE CodeGuard -----------------------------
(***************************************************************************)
(* What the server remembers about wrong codes: the attempts per session    *)
(* and address in routes/public-upload.js, which lock, and the ring of      *)
(* security events in security/events.js, which alerts are counted from.    *)
(* Both live in memory only.                                               *)
(***************************************************************************)
EXTENDS Integers, Sequences, FiniteSets, SequencesExt

CONSTANTS
    CgKeys,         \* session and address
    CgMaxFails,     \* MAX_FAILS
    CgLock,         \* LOCK_MS, in ticks
    CgWithin,       \* the window of the alert on locked sessions, in ticks
    CgCount,        \* how many make the alert
    CgMaxEvents,    \* MAX_EVENTS
    CgHorizon       \* bound on the clock

ASSUME CgAssumption ==
    /\ CgMaxFails \in Nat \ {0} /\ CgLock \in Nat \ {0} /\ CgWithin \in Nat /\ CgHorizon \in Nat
    /\ CgCount \in Nat \ {0} /\ CgMaxEvents \in Nat \ {0}

VARIABLES
    cgNow,          \* the clock
    cgAttempts,     \* per key: fails, lockedUntil, updatedAt
    cgEvents,       \* the ring, oldest first
    cgTries,        \* per key: times of the last wrong codes since the last right one
    cgLocks         \* the lockouts: when, and how many events have come since

cgVars == <<cgNow, cgAttempts, cgEvents, cgTries, cgLocks>>

NoEntry == [fails |-> 0, until |-> 0, at |-> 0]      \* no entry behaves as this one
Event(type) == [type |-> type, at |-> cgNow]

CgTypeOK ==
    /\ cgNow \in 0 .. CgHorizon
    /\ \A k \in CgKeys : /\ cgAttempts[k].fails \in 0 .. CgMaxFails - 1
                         /\ cgAttempts[k].until \in {0, cgAttempts[k].at + CgLock} \cup 0 .. cgNow
    /\ Len(cgEvents) <= CgMaxEvents
    /\ \A i, j \in DOMAIN cgEvents : i < j => cgEvents[i].at <= cgEvents[j].at

-----------------------------------------------------------------------------
(* record: what does not fit falls off at the old end. *)
NewestOf(seq, e, n) == LET all == Append(seq, e) IN
    IF Len(all) > n THEN SubSeq(all, Len(all) - n + 1, Len(all)) ELSE all

Recorded(events, e) == NewestOf(events, e, CgMaxEvents)

Happens(type) ==
    /\ cgEvents' = Recorded(cgEvents, Event(type))
    /\ cgLocks' = {[l EXCEPT !.since = @ + 1] : l \in {m \in cgLocks : m.since < CgMaxEvents}}
                  \cup (IF type = "locked" THEN {[at |-> cgNow, since |-> 0]} ELSE {})

Locked(k) == cgAttempts[k].until # 0 /\ cgNow < cgAttempts[k].until

(* registerFail: the fail that fills the count locks and starts a new one. *)
RegisterFail(k) ==
    LET e == cgAttempts[k]
        locks == e.fails + 1 >= CgMaxFails IN
    /\ cgAttempts' = [cgAttempts EXCEPT ![k] = [fails |-> IF locks THEN 0 ELSE e.fails + 1,
                                                until |-> IF locks THEN cgNow + CgLock ELSE e.until, at |-> cgNow]]
    /\ Happens(IF locks THEN "locked" ELSE "failed")

WrongCode(k) ==
    /\ ~Locked(k) /\ RegisterFail(k)
    /\ cgTries' = [cgTries EXCEPT ![k] = NewestOf(@, cgNow, CgMaxFails + 1)]
    /\ UNCHANGED cgNow

RightCode(k) ==
    /\ ~Locked(k)
    /\ cgAttempts' = [cgAttempts EXCEPT ![k] = NoEntry] /\ cgTries' = [cgTries EXCEPT ![k] = <<>>]
    /\ UNCHANGED <<cgNow, cgEvents, cgLocks>>

(* Something else that is recorded, a login that failed say. *)
OtherEvent == Happens("other") /\ UNCHANGED <<cgNow, cgAttempts, cgTries>>

SweepsUnlocked(k) == ~Locked(k)         \* mutant of Dead: the age is not looked at

(* sweepAttempts: an entry goes when it is not locking and has not been     *)
(* touched for longer than a lock lasts.                                   *)
Dead(k) == ~Locked(k) /\ cgNow - cgAttempts[k].at > CgLock

SweepAttempts ==
    /\ cgAttempts' = [k \in CgKeys |-> IF Dead(k) THEN NoEntry ELSE cgAttempts[k]]
    /\ UNCHANGED <<cgNow, cgEvents, cgTries, cgLocks>>

CgTick == cgNow < CgHorizon /\ cgNow' = cgNow + 1 /\ UNCHANGED <<cgAttempts, cgEvents, cgTries, cgLocks>>

CgInit == /\ cgNow = 0 /\ cgAttempts = [k \in CgKeys |-> NoEntry] /\ cgEvents = <<>>
          /\ cgTries = [k \in CgKeys |-> <<>>] /\ cgLocks = {}

CgNext == CgTick \/ SweepAttempts \/ OtherEvent \/ \E k \in CgKeys : WrongCode(k) \/ RightCode(k)

CgSpec == CgInit /\ [][CgNext]_cgVars

-----------------------------------------------------------------------------
(* Properties. *)

(* However guesses, sweeps and time mix: one more wrong code in a row than  *)
(* MAX_FAILS takes at least as long as a lock.                             *)
FewGuesses ==
    \A k \in CgKeys : LET t == cgTries[k] IN Len(t) > CgMaxFails => Last(t) - t[1] >= CgLock

(* activeAlerts, for the rule on locked sessions. *)
Alert ==
    Cardinality({i \in DOMAIN cgEvents : cgEvents[i].type = "locked" /\ cgEvents[i].at >= cgNow - CgWithin}) >= CgCount

(* The alert is on when that many lockouts fall into the window, unless as  *)
(* many events as the ring holds came after one of them.                   *)
AlertsTell ==
    Cardinality({l \in cgLocks : l.at >= cgNow - CgWithin /\ l.since < CgMaxEvents}) >= CgCount => Alert

(* Neither the sweep nor the ring's end weakens the guard of the codes. *)
GuardHolds == FewGuesses /\ AlertsTell
=============================================================================
