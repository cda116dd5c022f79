----------------------------- MODULE CodesProofs -----------------------------
(***************************************************************************)
(* The codes that let pupils hand in and the logs of who came: whoever is    *)
(* shown a code is shown one that works, for any number of sessions, clicks *)
(* and requests; to guess one takes long, for any limits; and an access is  *)
(* found in its log, for any number of them.                               *)
(***************************************************************************)
EXTENDS UploadPage, CodeGuard, AccessLog, FiniteSetTheorems, SequenceTheorems, WellFoundedInduction, TLAPS

-----------------------------------------------------------------------------
(* The guard. *)

CgEntry == [fails : Nat, until : Nat, at : Nat]
CgTypes ==
    /\ cgNow \in Nat /\ cgAttempts \in [CgKeys -> CgEntry]
    /\ cgEvents \in Seq([type : {"failed", "locked", "other"}, at : Nat]) /\ Len(cgEvents) <= CgMaxEvents
    /\ cgTries \in [CgKeys -> Seq(Nat)] /\ cgLocks \subseteq [at : Nat, since : Nat]

(* The last "fails" of the tries have come since the entry was made or      *)
(* locked; by the time the entry lets another one in, those before are a    *)
(* lock old.  An entry is not older than its last try, or all of them are a *)
(* lock old.                                                               *)
Counted(a, t, now) ==
    /\ a.fails < CgMaxFails /\ a.fails <= Len(t) /\ Len(t) <= CgMaxFails + 1 /\ a.at <= now
    /\ \A i \in 1 .. Len(t) :
           /\ t[i] <= now
           /\ t[i] <= a.at \/ t[i] + CgLock <= now
           /\ i <= Len(t) - a.fails => t[i] + CgLock <= a.until \/ t[i] + CgLock <= now
    /\ Len(t) > CgMaxFails => t[Len(t)] - t[1] >= CgLock

(* Each lockout that is in the ring is as far from its end as events have   *)
(* come since.                                                             *)
InTheRing(l) ==
    l.since < CgMaxEvents => /\ l.since < Len(cgEvents)
                             /\ cgEvents[Len(cgEvents) - l.since] = [type |-> "locked", at |-> l.at]

CgInv == /\ CgTypes
         /\ \A k \in CgKeys : Counted(cgAttempts[k], cgTries[k], cgNow)
         /\ \A l \in cgLocks : InTheRing(l)

LEMMA CgBounds ==
    /\ CgMaxFails \in Nat /\ CgMaxFails >= 1 /\ CgLock \in Nat /\ CgLock >= 1
    /\ CgMaxEvents \in Nat /\ CgMaxEvents >= 1 /\ CgCount \in Nat /\ CgWithin \in Nat
BY CgAssumption

LEMMA CgInitInv == CgInit => CgInv
BY CgBounds DEF CgInit, CgInv, CgTypes, CgEntry, Counted, InTheRing, NoEntry

(* A full sequence loses its first element for the new one. *)
Slides(s, e, n, r) ==
    /\ Len(r) \in 1 .. n /\ r[Len(r)] = e
    /\ \/ Len(s) < n /\ Len(r) = Len(s) + 1 /\ \A i \in 1 .. Len(s) : r[i] = s[i]
       \/ Len(s) = n /\ Len(r) = n /\ \A i \in 1 .. n - 1 : r[i] = s[i + 1]

LEMMA NewestDoes ==
    ASSUME NEW S, NEW s \in Seq(S), NEW e \in S, NEW n \in Nat, n >= 1, Len(s) <= n
    PROVE  NewestOf(s, e, n) \in Seq(S) /\ Slides(s, e, n, NewestOf(s, e, n))
<1> DEFINE all == Append(s, e)
           r == NewestOf(s, e, n)
<1>1. all \in Seq(S) /\ Len(all) = Len(s) + 1 /\ all[Len(s) + 1] = e /\ \A i \in 1 .. Len(s) : all[i] = s[i]
    OBVIOUS
<1>2. r = IF Len(all) > n THEN SubSeq(all, Len(all) - n + 1, Len(all)) ELSE all
    BY DEF NewestOf
<1> HIDE DEF all, r
<1>3. CASE Len(s) < n
    <2>1. r = all BY <1>1, <1>2, <1>3
    <2> QED BY <1>1, <1>3, <2>1 DEF r, Slides
<1>4. CASE Len(s) = n
    <2>1. r = SubSeq(all, 2, n + 1) BY <1>1, <1>2, <1>4
    <2>2. r \in Seq(S) /\ Len(r) = n /\ \A i \in 1 .. n : r[i] = all[i + 1] BY <1>1, <1>4, <2>1
    <2> QED BY <1>1, <1>4, <2>2 DEF r, Slides
<1> QED BY <1>3, <1>4

(* What happens is at the end of the ring, and the rest is where it was,    *)
(* from the end.                                                           *)
LEMMA HappensInv ==
    ASSUME CgInv, NEW type \in {"failed", "locked", "other"}, Happens(type), UNCHANGED cgNow
    PROVE  /\ cgEvents' \in Seq([type : {"failed", "locked", "other"}, at : Nat]) /\ Len(cgEvents') <= CgMaxEvents
           /\ cgLocks' \subseteq [at : Nat, since : Nat]
           /\ \A l \in cgLocks' : InTheRing(l)'
<1> DEFINE e == [type |-> type, at |-> cgNow]
           E == [type : {"failed", "locked", "other"}, at : Nat]
           n == Len(cgEvents)
           m == Len(cgEvents')
<1>1. e \in E BY DEF CgInv, CgTypes
<1>2. cgEvents \in Seq(E) /\ n \in Nat /\ n <= CgMaxEvents BY DEF CgInv, CgTypes
<1>4. cgEvents' = NewestOf(cgEvents, e, CgMaxEvents) BY DEF Happens, Event, Recorded
<1> HIDE DEF e, E
<1>5. /\ cgEvents' \in Seq(E) /\ m \in Nat /\ m <= CgMaxEvents /\ m >= 1 /\ cgEvents'[m] = e
      /\ \/ n < CgMaxEvents /\ m = n + 1 /\ \A i \in 1 .. n : cgEvents'[i] = cgEvents[i]
         \/ n = CgMaxEvents /\ m = n /\ \A i \in 1 .. n - 1 : cgEvents'[i] = cgEvents[i + 1]
    <2>1. cgEvents' \in Seq(E) /\ Slides(cgEvents, e, CgMaxEvents, cgEvents') BY <1>1, <1>2, <1>4, CgBounds, NewestDoes
    <2> QED BY <1>2, <2>1, CgBounds DEF Slides
<1>6. ASSUME NEW l \in cgLocks'
      PROVE  \/ l = [at |-> cgNow, since |-> 0] /\ type = "locked"
             \/ \E old \in cgLocks : old.since < CgMaxEvents /\ l = [old EXCEPT !.since = @ + 1]
    BY DEF Happens
<1>7. cgNow \in Nat /\ cgLocks \subseteq [at : Nat, since : Nat] BY DEF CgInv, CgTypes
<1>8. ASSUME NEW l \in cgLocks' PROVE l \in [at : Nat, since : Nat] /\ InTheRing(l)'
    <2>1. CASE l = [at |-> cgNow, since |-> 0] /\ type = "locked"
        BY <1>5, <1>7, <2>1 DEF InTheRing, e
    <2>2. CASE \E old \in cgLocks : old.since < CgMaxEvents /\ l = [old EXCEPT !.since = @ + 1]
        <3>1. PICK old \in cgLocks : old.since < CgMaxEvents /\ l = [old EXCEPT !.since = @ + 1] BY <2>2
        <3>2. old.since \in Nat /\ old.at \in Nat /\ l.at = old.at /\ l.since = old.since + 1 /\ l \in [at : Nat, since : Nat]
            BY <1>7, <3>1
        <3>3. old.since < n /\ cgEvents[n - old.since] = [type |-> "locked", at |-> old.at]
            BY <3>1 DEF CgInv, InTheRing
        <3>4. ASSUME l.since < CgMaxEvents
              PROVE  l.since < m /\ cgEvents'[m - l.since] = [type |-> "locked", at |-> l.at]
            <4> HIDE DEF n, m
            <4>1. CASE n < CgMaxEvents /\ m = n + 1 /\ \A i \in 1 .. n : cgEvents'[i] = cgEvents[i]
                <5>1. m - l.since = n - old.since /\ n - old.since \in 1 .. n /\ l.since < m
                    BY <1>2, <3>2, <3>3, <4>1 DEF n
                <5> QED BY <3>2, <3>3, <4>1, <5>1
            <4>2. CASE n = CgMaxEvents /\ m = n /\ \A i \in 1 .. n - 1 : cgEvents'[i] = cgEvents[i + 1]
                <5>1. (m - l.since) + 1 = n - old.since /\ m - l.since \in 1 .. n - 1 /\ l.since < m
                    BY <1>2, <3>2, <3>3, <3>4, <4>2, CgBounds DEF n
                <5> QED BY <3>2, <3>3, <4>2, <5>1
            <4> QED BY <1>5, <4>1, <4>2 DEF n, m
        <3> QED BY <3>2, <3>4 DEF InTheRing
    <2> QED BY <1>6, <2>1, <2>2
<1> QED BY <1>5, <1>8 DEF E

(* Time only makes tries older. *)
LEMMA CountedLater ==
    ASSUME NEW a \in CgEntry, NEW t \in Seq(Nat), NEW now \in Nat, NEW later \in Nat, Counted(a, t, now), now <= later
    PROVE  Counted(a, t, later)
<1>1. \A i \in 1 .. Len(t) : t[i] \in Nat OBVIOUS
<1>2. CgLock \in Nat /\ a.at \in Nat /\ a.until \in Nat BY CgBounds DEF CgEntry
<1>3. a.at <= later BY <1>2 DEF Counted
<1>4. ASSUME NEW i \in 1 .. Len(t)
      PROVE  /\ t[i] <= later
             /\ t[i] <= a.at \/ t[i] + CgLock <= later
             /\ i <= Len(t) - a.fails => t[i] + CgLock <= a.until \/ t[i] + CgLock <= later
    <2>1. t[i] \in Nat BY <1>1
    <2> QED BY <1>2, <2>1 DEF Counted
<1> QED BY <1>3, <1>4 DEF Counted

LEMMA InTheRingSame ==
    ASSUME NEW l, InTheRing(l), UNCHANGED cgEvents
    PROVE  InTheRing(l)'
BY DEF InTheRing

LEMMA WrongCodeInv == CgInv /\ (\E k \in CgKeys : WrongCode(k)) => CgInv'
<1> SUFFICES ASSUME CgInv, NEW k \in CgKeys, WrongCode(k) PROVE CgInv'
    OBVIOUS
<1> DEFINE a == cgAttempts[k]
           t == cgTries[k]
           n == Len(t)
           locks == a.fails + 1 >= CgMaxFails
           b == [fails |-> IF locks THEN 0 ELSE a.fails + 1, until |-> IF locks THEN cgNow + CgLock ELSE a.until, at |-> cgNow]
           new == NewestOf(t, cgNow, CgMaxFails + 1)
           m == Len(new)
<1>1. cgNow \in Nat /\ a \in CgEntry /\ t \in Seq(Nat) /\ n \in Nat /\ Counted(a, t, cgNow) BY DEF CgInv, CgTypes
<1>2. cgAttempts' = [cgAttempts EXCEPT ![k] = b] /\ cgTries' = [cgTries EXCEPT ![k] = new]
      /\ Happens(IF locks THEN "locked" ELSE "failed") /\ UNCHANGED cgNow
    <2>1. cgTries' = [cgTries EXCEPT ![k] = new] BY DEF WrongCode, CgInv, CgTypes
    <2> QED BY <2>1 DEF WrongCode, RegisterFail
<1>3. a.fails \in Nat /\ a.until \in Nat /\ a.at \in Nat BY <1>1 DEF CgEntry
<1>4. b \in CgEntry /\ b.at = cgNow /\ b.until \in Nat /\ b.fails \in Nat
      /\ (locks => b.fails = 0 /\ b.until = cgNow + CgLock) /\ (~locks => b.fails = a.fails + 1 /\ b.until = a.until)
    BY <1>1, <1>3, CgBounds DEF CgEntry
<1>5. ASSUME NEW i \in 1 .. n, i <= n - a.fails
      PROVE  t[i] + CgLock <= cgNow
    <2>1. t[i] \in Nat BY <1>1
    <2>2. t[i] + CgLock <= a.until \/ t[i] + CgLock <= cgNow BY <1>5 DEF Counted, CgInv
    <2>3. a.until = 0 \/ a.until <= cgNow BY <1>1, <1>3 DEF WrongCode, Locked
    <2>4. t[i] + CgLock \in Nat /\ t[i] + CgLock # 0 BY <2>1, CgBounds
    <2> HIDE DEF a, t, n
    <2>5. CASE t[i] + CgLock <= a.until BY <1>1, <1>3, <2>3, <2>4, <2>5
    <2> QED BY <2>2, <2>5
<1>6. n <= CgMaxFails + 1 /\ a.fails < CgMaxFails /\ a.fails <= n BY <1>1 DEF Counted
<1>8. /\ new \in Seq(Nat) /\ m \in Nat /\ m <= CgMaxFails + 1 /\ m >= 1 /\ new[m] = cgNow
      /\ \/ n < CgMaxFails + 1 /\ m = n + 1 /\ \A i \in 1 .. n : new[i] = t[i]
         \/ n = CgMaxFails + 1 /\ m = n /\ \A i \in 1 .. n - 1 : new[i] = t[i + 1]
    <2>1. CgMaxFails + 1 \in Nat /\ CgMaxFails + 1 >= 1 /\ (CgMaxFails + 1) - 1 = CgMaxFails BY CgBounds
    <2> DEFINE c == CgMaxFails + 1
    <2> HIDE DEF c
    <2>2. t \in Seq(Nat) /\ cgNow \in Nat /\ c \in Nat /\ c >= 1 /\ Len(t) <= c BY <1>1, <1>6, <2>1 DEF c
    <2>3. new \in Seq(Nat) /\ Slides(t, cgNow, c, new)
        BY <2>2, NewestDoes DEF c
    <2> QED BY <2>2, <2>3 DEF c, Slides
<1> HIDE DEF a, t, n, b, new, m, locks
<1>8a. n \in Nat BY <1>1 DEF n
<1>9. \A i \in 1 .. n : t[i] \in Nat /\ t[i] <= cgNow BY <1>1 DEF Counted, n
<1>10. Counted(b, new, cgNow)
    <2>1. ASSUME NEW i \in 1 .. m PROVE new[i] \in Nat /\ new[i] <= cgNow
        <3>1. CASE i = m BY <1>1, <1>8, <3>1
        <3>2. CASE i # m
            <4>1. CASE n < CgMaxFails + 1 /\ m = n + 1 /\ \A j \in 1 .. n : new[j] = t[j]
                <5>1. i \in 1 .. n BY <1>8, <1>8a, <3>2, <4>1
                <5> QED BY <1>9, <4>1, <5>1
            <4>2. CASE n = CgMaxFails + 1 /\ m = n /\ \A j \in 1 .. n - 1 : new[j] = t[j + 1]
                <5>1. i \in 1 .. n - 1 /\ i + 1 \in 1 .. n BY <1>8, <1>8a, <3>2, <4>2
                <5> QED BY <1>9, <4>2, <5>1
            <4> QED BY <1>8, <4>1, <4>2
        <3> QED BY <3>1, <3>2
    <2>2. ASSUME NEW i \in 1 .. m, i <= m - b.fails
          PROVE  new[i] + CgLock <= b.until \/ new[i] + CgLock <= cgNow
        <3>1. CASE locks BY <1>1, <1>4, <2>1, <3>1, CgBounds
        <3>2. CASE ~locks
            <4>1. b.fails = a.fails + 1 /\ i \in Nat /\ i >= 1 BY <1>4, <3>2
            <4>2. CASE n < CgMaxFails + 1 /\ m = n + 1 /\ \A j \in 1 .. n : new[j] = t[j]
                <5>1. i \in 1 .. n /\ i <= n - a.fails BY <1>1, <1>3, <1>8a, <1>8, <2>2, <4>1, <4>2
                <5> QED BY <1>5, <4>2, <5>1
            <4>3. CASE n = CgMaxFails + 1 /\ m = n /\ \A j \in 1 .. n - 1 : new[j] = t[j + 1]
                <5>0. a.fails \in Nat /\ i <= n - (a.fails + 1) /\ i \in 1 .. n BY <1>3, <2>2, <4>1, <4>3
                <5>1. i \in 1 .. n - 1 /\ i + 1 \in 1 .. n /\ i + 1 <= n - a.fails BY <1>8a, <5>0
                <5> QED BY <1>5, <4>3, <5>1
            <4> QED BY <1>8, <4>2, <4>3
        <3> QED BY <3>1, <3>2
    <2>3. m > CgMaxFails => new[m] - new[1] >= CgLock
        <3> SUFFICES ASSUME m > CgMaxFails PROVE new[m] - new[1] >= CgLock
            OBVIOUS
        <3>1. new[1] \in Nat /\ new[1] + CgLock <= cgNow
            <4>1. CASE n < CgMaxFails + 1 /\ m = n + 1 /\ \A j \in 1 .. n : new[j] = t[j]
                <5>1. 1 \in 1 .. n /\ 1 <= n - a.fails BY <1>1, <1>3, <1>8a, <1>6, <4>1, CgBounds
                <5> QED BY <1>5, <1>9, <4>1, <5>1
            <4>2. CASE n = CgMaxFails + 1 /\ m = n /\ \A j \in 1 .. n - 1 : new[j] = t[j + 1]
                <5>1. 1 \in 1 .. n - 1 /\ 2 \in 1 .. n /\ 2 <= n - a.fails BY <1>1, <1>3, <1>8a, <1>6, <4>2, CgBounds
                <5>2. new[1] = t[2] BY <4>2, <5>1
                <5> QED BY <1>5, <1>9, <5>1, <5>2
            <4> QED BY <1>8, <4>1, <4>2
        <3> QED BY <1>1, <1>8, <3>1, CgBounds
    <2>4. b.fails < CgMaxFails /\ b.fails <= m
        <3>1. CASE locks BY <1>4, <1>8, <3>1, CgBounds
        <3>2. CASE ~locks
            <4>1. b.fails = a.fails + 1 /\ a.fails \in Nat /\ a.fails + 1 < CgMaxFails BY <1>3, <1>4, <3>2, CgBounds DEF locks
            <4>2. CASE m = n + 1 BY <1>6, <1>8a, <4>1, <4>2
            <4>3. CASE n = CgMaxFails + 1 /\ m = n BY <4>1, <4>3, CgBounds
            <4> QED BY <1>8, <4>2, <4>3
        <3> QED BY <3>1, <3>2
    <2>5. m = Len(new) BY DEF m
    <2>6. cgNow <= cgNow /\ \A i \in 1 .. m : new[i] <= b.at BY <1>1, <1>4, <2>1
    <2> QED BY <1>4, <1>8, <2>1, <2>2, <2>3, <2>4, <2>5, <2>6 DEF Counted
<1>11. /\ cgEvents' \in Seq([type : {"failed", "locked", "other"}, at : Nat]) /\ Len(cgEvents') <= CgMaxEvents
       /\ cgLocks' \subseteq [at : Nat, since : Nat]
       /\ \A l \in cgLocks' : InTheRing(l)'
    <2> DEFINE type == IF locks THEN "locked" ELSE "failed"
    <2>1. type \in {"failed", "locked", "other"} OBVIOUS
    <2>2. Happens(type) BY <1>2
    <2> HIDE DEF type
    <2> QED BY <1>2, <2>1, <2>2, HappensInv
<1>12. CgTypes'
    <2>1. cgAttempts' \in [CgKeys -> CgEntry] BY <1>2, <1>4 DEF CgInv, CgTypes
    <2>2. cgTries' \in [CgKeys -> Seq(Nat)] BY <1>2, <1>8 DEF CgInv, CgTypes
    <2> QED BY <1>1, <1>2, <1>11, <2>1, <2>2 DEF CgTypes
<1>13. ASSUME NEW j \in CgKeys PROVE Counted(cgAttempts'[j], cgTries'[j], cgNow')
    <2>1. CASE j = k
        <3>1. cgAttempts'[k] = b /\ cgTries'[k] = new BY <1>2 DEF CgInv, CgTypes
        <3> QED BY <1>2, <1>10, <2>1, <3>1
    <2>2. CASE j # k
        <3>1. cgAttempts'[j] = cgAttempts[j] /\ cgTries'[j] = cgTries[j] BY <1>2, <2>2 DEF CgInv, CgTypes
        <3> QED BY <1>2, <3>1 DEF CgInv
    <2> QED BY <2>1, <2>2
<1> QED BY <1>11, <1>12, <1>13 DEF CgInv

LEMMA RestOfGuard ==
    ASSUME CgInv, CgNext, ~ \E k \in CgKeys : WrongCode(k)
    PROVE  CgInv'
<1>1. CgTypes BY DEF CgInv
<1>2. CASE CgTick
    <2>1. cgNow \in Nat /\ cgNow' \in Nat /\ cgNow <= cgNow' BY <1>1, <1>2 DEF CgTick, CgTypes
    <2>2. CgTypes' BY <1>1, <1>2, <2>1 DEF CgTick, CgTypes
    <2>3. ASSUME NEW k \in CgKeys PROVE Counted(cgAttempts[k], cgTries[k], cgNow')
        <3>1. cgAttempts[k] \in CgEntry /\ cgTries[k] \in Seq(Nat) BY <1>1 DEF CgTypes
        <3> QED BY <2>1, <3>1, CountedLater DEF CgInv
    <2>4. \A l \in cgLocks' : InTheRing(l)' BY <1>2, InTheRingSame DEF CgTick, CgInv
    <2> QED BY <1>2, <2>2, <2>3, <2>4 DEF CgTick, CgInv
<1>3. CASE SweepAttempts
    <2>1. /\ UNCHANGED <<cgNow, cgEvents, cgTries, cgLocks>>
          /\ cgAttempts' = [k \in CgKeys |-> IF Dead(k) THEN NoEntry ELSE cgAttempts[k]]
        BY <1>3 DEF SweepAttempts
    <2>2. NoEntry \in CgEntry BY DEF NoEntry, CgEntry
    <2>3. CgTypes' BY <1>1, <2>1, <2>2 DEF CgTypes
    <2>4. ASSUME NEW k \in CgKeys PROVE Counted(cgAttempts'[k], cgTries[k], cgNow)
        <3>1. Counted(cgAttempts[k], cgTries[k], cgNow) BY DEF CgInv
        <3>2. CASE Dead(k)
            <4>1. cgAttempts'[k] = NoEntry BY <2>1, <3>2
            <4> DEFINE a == cgAttempts[k]
                       t == cgTries[k]
            <4>2. t \in Seq(Nat) /\ a \in CgEntry /\ cgNow \in Nat BY <1>1 DEF CgTypes
            <4>3. a.at \in Nat /\ cgNow - a.at > CgLock BY <3>2, <4>2 DEF Dead, CgEntry
            <4>4. Counted(a, t, cgNow) BY <3>1
            <4> HIDE DEF a, t
            <4>5. ASSUME NEW i \in 1 .. Len(t) PROVE t[i] \in Nat /\ t[i] <= cgNow /\ t[i] + CgLock <= cgNow
                <5>1. t[i] \in Nat BY <4>2
                <5>2. t[i] <= a.at \/ t[i] + CgLock <= cgNow BY <4>4 DEF Counted
                <5> QED BY <4>2, <4>3, <5>1, <5>2, CgBounds
            <4>6. Counted(NoEntry, t, cgNow) BY <4>2, <4>4, <4>5, CgBounds DEF Counted, NoEntry
            <4> QED BY <4>1, <4>6 DEF t
        <3>3. CASE ~Dead(k) BY <2>1, <3>1, <3>3
        <3> QED BY <3>2, <3>3
    <2>5. \A l \in cgLocks' : InTheRing(l)' BY <2>1, InTheRingSame DEF CgInv
    <2> QED BY <2>1, <2>3, <2>4, <2>5 DEF CgInv
<1>4. CASE OtherEvent
    <2>1. Happens("other") /\ UNCHANGED <<cgNow, cgAttempts, cgTries>> BY <1>4 DEF OtherEvent
    <2>2. /\ cgEvents' \in Seq([type : {"failed", "locked", "other"}, at : Nat]) /\ Len(cgEvents') <= CgMaxEvents
          /\ cgLocks' \subseteq [at : Nat, since : Nat]
          /\ \A l \in cgLocks' : InTheRing(l)'
        BY <2>1, HappensInv
    <2> QED BY <1>1, <2>1, <2>2 DEF CgInv, CgTypes
<1>5. CASE \E k \in CgKeys : RightCode(k)
    <2>1. PICK k \in CgKeys : RightCode(k) BY <1>5
    <2>2. /\ UNCHANGED <<cgNow, cgEvents, cgLocks>>
          /\ cgAttempts' = [cgAttempts EXCEPT ![k] = NoEntry] /\ cgTries' = [cgTries EXCEPT ![k] = <<>>]
        BY <2>1 DEF RightCode
    <2>3. NoEntry \in CgEntry /\ <<>> \in Seq(Nat) BY DEF NoEntry, CgEntry
    <2>4. CgTypes' BY <1>1, <2>2, <2>3 DEF CgTypes
    <2>5. Counted(NoEntry, <<>>, cgNow) BY <1>1, CgBounds DEF Counted, NoEntry, CgTypes
    <2>6. ASSUME NEW j \in CgKeys PROVE Counted(cgAttempts'[j], cgTries'[j], cgNow)
        <3>1. CASE j = k BY <1>1, <2>2, <2>5, <3>1 DEF CgTypes
        <3>2. CASE j # k BY <1>1, <2>2, <3>2 DEF CgTypes, CgInv
        <3> QED BY <3>1, <3>2
    <2>7. \A l \in cgLocks' : InTheRing(l)' BY <2>2, InTheRingSame DEF CgInv
    <2> QED BY <2>2, <2>4, <2>6, <2>7 DEF CgInv
<1> QED BY <1>2, <1>3, <1>4, <1>5 DEF CgNext

LEMMA CgNextInv == CgInv /\ [CgNext]_cgVars => CgInv'
<1> SUFFICES ASSUME CgInv, [CgNext]_cgVars PROVE CgInv'
    OBVIOUS
<1>1. CASE CgNext BY <1>1, WrongCodeInv, RestOfGuard
<1>2. CASE UNCHANGED cgVars BY <1>2 DEF cgVars, CgInv, CgTypes, InTheRing
<1> QED BY <1>1, <1>2

(* Each lockout that counts is an event that counts. *)
LEMMA CgInvHolds == CgInv => GuardHolds
<1> SUFFICES ASSUME CgInv PROVE GuardHolds
    OBVIOUS
<1>1. FewGuesses
    <2> SUFFICES ASSUME NEW k \in CgKeys, Len(cgTries[k]) > CgMaxFails
                 PROVE  Last(cgTries[k]) - cgTries[k][1] >= CgLock
        BY DEF FewGuesses
    <2>1. cgTries[k][Len(cgTries[k])] - cgTries[k][1] >= CgLock BY DEF CgInv, Counted
    <2> QED BY <2>1 DEF Last
<1>2. AlertsTell
    <2> DEFINE S == {l \in cgLocks : l.at >= cgNow - CgWithin /\ l.since < CgMaxEvents}
               T == {i \in DOMAIN cgEvents : cgEvents[i].type = "locked" /\ cgEvents[i].at >= cgNow - CgWithin}
               f == [l \in S |-> Len(cgEvents) - l.since]
    <2>1. cgEvents \in Seq([type : {"failed", "locked", "other"}, at : Nat]) /\ Len(cgEvents) \in Nat
        BY DEF CgInv, CgTypes
    <2>2. DOMAIN cgEvents = 1 .. Len(cgEvents) BY <2>1
    <2>3. IsFiniteSet(T) /\ Cardinality(T) \in Nat
        <3>1. IsFiniteSet(DOMAIN cgEvents) BY <2>1, <2>2, FS_Interval
        <3> QED BY <3>1, FS_Subset, FS_CardinalityType
    <2>4. ASSUME NEW l \in S
          PROVE  /\ l = [at |-> l.at, since |-> l.since] /\ l.since \in Nat /\ f[l] \in T
                 /\ cgEvents[f[l]].at = l.at /\ f[l] = Len(cgEvents) - l.since
        <3>1. l.since \in Nat /\ l = [at |-> l.at, since |-> l.since] BY DEF CgInv, CgTypes
        <3>2. l.since < Len(cgEvents) /\ cgEvents[Len(cgEvents) - l.since] = [type |-> "locked", at |-> l.at]
            BY DEF CgInv, InTheRing
        <3>3. Len(cgEvents) - l.since \in DOMAIN cgEvents BY <2>1, <2>2, <3>1, <3>2
        <3>4. f[l] = Len(cgEvents) - l.since OBVIOUS
        <3> HIDE DEF f
        <3> QED BY <3>1, <3>2, <3>3, <3>4
    <2>5. f \in Injection(S, T)
        <3>1. f \in [S -> T] BY <2>4
        <3>2. ASSUME NEW l \in S, NEW m \in S, f[l] = f[m] PROVE l = m
            <4>0. /\ l.since \in Nat /\ m.since \in Nat /\ cgEvents[f[l]].at = l.at /\ cgEvents[f[m]].at = m.at
                  /\ f[l] = Len(cgEvents) - l.since /\ f[m] = Len(cgEvents) - m.since
                BY <2>4
            <4> HIDE DEF f, S
            <4>1. l.at = m.at BY <3>2, <4>0
            <4>2. Len(cgEvents) - l.since = Len(cgEvents) - m.since BY <3>2, <4>0
            <4>3. l.since = m.since BY <2>1, <4>0, <4>2
            <4> QED BY <2>4, <4>1, <4>3
        <3> HIDE DEF f
        <3> QED BY <3>1, <3>2 DEF Injection, IsInjective
    <2> HIDE DEF S, T, f
    <2>6. IsFiniteSet(S) /\ Cardinality(S) <= Cardinality(T) BY <2>3, <2>5, FS_Injection
    <2>7. Cardinality(S) \in Nat BY <2>6, FS_CardinalityType
    <2>8. Cardinality(S) >= CgCount => Cardinality(T) >= CgCount BY <2>3, <2>6, <2>7, CgBounds
    <2> QED BY <2>8 DEF AlertsTell, Alert, S, T
<1> QED BY <1>1, <1>2 DEF GuardHolds

(* One more wrong code in a row than are let through takes at least as long  *)
(* as a lock, and lockouts that follow each other raise their alert.       *)
THEOREM GuardAlwaysHolds == CgSpec => []GuardHolds
<1>1. CgInit => CgInv BY CgInitInv
<1>2. CgInv /\ [CgNext]_cgVars => CgInv' BY CgNextInv
<1>3. CgInv => GuardHolds BY CgInvHolds
<1> QED BY <1>1, <1>2, <1>3, PTL DEF CgSpec

(* The types of the guard: the events are in order of time, and an entry    *)
(* locks for the time of a lock.                                           *)
CgPast == \A i \in 1 .. Len(cgEvents) : cgEvents[i].at <= cgNow
CgTyped == CgTypeOK /\ CgPast

LEMMA HappensTyped ==
    ASSUME CgInv, CgTyped, NEW type \in {"failed", "locked", "other"}, Happens(type), UNCHANGED cgNow
    PROVE  /\ Len(cgEvents') <= CgMaxEvents /\ CgPast'
           /\ \A i, j \in DOMAIN cgEvents' : i < j => cgEvents'[i].at <= cgEvents'[j].at
<1> DEFINE E == [type : {"failed", "locked", "other"}, at : Nat]
           e == [type |-> type, at |-> cgNow]
           n == Len(cgEvents)
           m == Len(cgEvents')
<1>1. e \in E /\ e.at = cgNow /\ cgNow \in Nat BY DEF CgInv, CgTypes
<1>2. cgEvents \in Seq(E) /\ n \in Nat /\ n <= CgMaxEvents BY DEF CgInv, CgTypes
<1>3. cgEvents' = NewestOf(cgEvents, e, CgMaxEvents) BY DEF Happens, Event, Recorded
<1>4. /\ \A i \in 1 .. n : cgEvents[i] \in E /\ cgEvents[i].at \in Nat /\ cgEvents[i].at <= cgNow
      /\ \A i, j \in 1 .. n : i < j => cgEvents[i].at <= cgEvents[j].at
    <2> HIDE DEF E
    <2>1. \A i \in 1 .. n : cgEvents[i] \in E BY <1>2
    <2>2. DOMAIN cgEvents = 1 .. n BY <1>2
    <2> QED BY <2>1, <2>2 DEF CgTyped, CgTypeOK, CgPast, E
<1> HIDE DEF E, e
<1>5. cgEvents' \in Seq(E) /\ Slides(cgEvents, e, CgMaxEvents, cgEvents') BY <1>1, <1>2, <1>3, CgBounds, NewestDoes
<1>6. m \in Nat /\ m <= CgMaxEvents /\ m >= 1 /\ cgEvents'[m] = e BY <1>5, CgBounds DEF Slides
<1>7. \E d \in {0, 1} : /\ m - 1 + d <= n /\ \A i \in 1 .. m - 1 : i + d \in 1 .. n /\ cgEvents'[i] = cgEvents[i + d]
    <2>1. CASE n < CgMaxEvents /\ m = n + 1 /\ \A i \in 1 .. n : cgEvents'[i] = cgEvents[i]
        <3>1. m - 1 + 0 <= n /\ \A i \in 1 .. m - 1 : i + 0 \in 1 .. n /\ cgEvents'[i] = cgEvents[i + 0]
            BY <1>2, <1>6, <2>1
        <3> QED BY <3>1
    <2>2. CASE n = CgMaxEvents /\ m = n /\ \A i \in 1 .. n - 1 : cgEvents'[i] = cgEvents[i + 1]
        <3>1. m - 1 + 1 <= n /\ \A i \in 1 .. m - 1 : i + 1 \in 1 .. n /\ cgEvents'[i] = cgEvents[i + 1]
            BY <1>2, <1>6, <2>2
        <3> QED BY <3>1
    <2> QED BY <1>5, <2>1, <2>2 DEF Slides
<1>8. PICK d \in {0, 1} : \A i \in 1 .. m - 1 : i + d \in 1 .. n /\ cgEvents'[i] = cgEvents[i + d] BY <1>7
<1> HIDE DEF n, m
<1>9. \A i \in 1 .. m : cgEvents'[i].at \in Nat /\ cgEvents'[i].at <= cgNow
    <2> SUFFICES ASSUME NEW i \in 1 .. m PROVE cgEvents'[i].at \in Nat /\ cgEvents'[i].at <= cgNow OBVIOUS
    <2>1. CASE i = m BY <1>1, <1>6, <2>1
    <2>2. CASE i # m
        <3>1. i \in 1 .. m - 1 BY <1>6, <2>2
        <3> QED BY <1>4, <1>8, <3>1
    <2> QED BY <2>1, <2>2
<1>10. ASSUME NEW i \in 1 .. m, NEW j \in 1 .. m, i < j PROVE cgEvents'[i].at <= cgEvents'[j].at
    <2>1. CASE j = m BY <1>1, <1>6, <1>9, <2>1
    <2>2. CASE j # m
        <3>1. i \in 1 .. m - 1 /\ j \in 1 .. m - 1 /\ i + d < j + d BY <1>6, <1>10, <2>2
        <3> QED BY <1>4, <1>8, <3>1
    <2> QED BY <2>1, <2>2
<1>11. DOMAIN cgEvents' = 1 .. m BY <1>5 DEF m
<1> QED BY <1>6, <1>9, <1>10, <1>11 DEF CgPast, m

LEMMA CgTypedStep == CgInv /\ CgInv' /\ CgTyped /\ [CgNext]_cgVars => CgTyped'
<1> SUFFICES ASSUME CgInv, CgInv', CgTyped, [CgNext]_cgVars PROVE CgTyped' OBVIOUS
<1> DEFINE Ordered == \A i, j \in DOMAIN cgEvents : i < j => cgEvents[i].at <= cgEvents[j].at
           Locking(a, now) == a.until \in {0, a.at + CgLock} \cup 0 .. now
<1>1. CgTypes /\ CgTypes' BY DEF CgInv
<1>2. cgNow \in 0 .. CgHorizon /\ cgNow \in Nat /\ CgHorizon \in Nat BY <1>1, CgAssumption DEF CgTyped, CgTypeOK, CgTypes
<1>3. Len(cgEvents') <= CgMaxEvents BY <1>1 DEF CgTypes
<1>4. ASSUME NEW k \in CgKeys PROVE cgAttempts'[k].fails \in 0 .. CgMaxFails - 1
    BY <1>1, CgBounds DEF CgInv, Counted, CgTypes, CgEntry
<1>5. \A k \in CgKeys : cgAttempts[k] \in CgEntry /\ Locking(cgAttempts[k], cgNow)
    BY <1>1 DEF CgTyped, CgTypeOK, CgTypes
<1>6. Ordered /\ CgPast BY DEF CgTyped, CgTypeOK
<1>7. NoEntry \in CgEntry /\ Locking(NoEntry, cgNow) BY DEF NoEntry, CgEntry
<1>8. CASE CgTick
    <2>1. cgNow' \in 0 .. CgHorizon /\ cgNow' = cgNow + 1 /\ UNCHANGED <<cgAttempts, cgEvents>> BY <1>2, <1>8 DEF CgTick
    <2>2. \A k \in CgKeys : Locking(cgAttempts[k], cgNow + 1) BY <1>2, <1>5
    <2>3. \A i \in 1 .. Len(cgEvents) : cgEvents[i].at \in Nat
        <3> DEFINE E == [type : {"failed", "locked", "other"}, at : Nat]
        <3>1. cgEvents \in Seq(E) BY <1>1 DEF CgTypes
        <3> HIDE DEF E
        <3>2. \A i \in 1 .. Len(cgEvents) : cgEvents[i] \in E BY <3>1
        <3> QED BY <3>2 DEF E
    <2>4. CgPast' BY <1>2, <1>6, <2>1, <2>3 DEF CgPast
    <2> QED BY <1>3, <1>4, <1>6, <2>1, <2>2, <2>4 DEF CgTyped, CgTypeOK
<1>9. CASE SweepAttempts \/ \E k \in CgKeys : RightCode(k)
    <2>1. UNCHANGED <<cgNow, cgEvents>> /\ \A k \in CgKeys : cgAttempts'[k] \in {cgAttempts[k], NoEntry}
        BY <1>1, <1>9 DEF SweepAttempts, RightCode, CgTypes
    <2>2. \A k \in CgKeys : Locking(cgAttempts'[k], cgNow) BY <1>5, <1>7, <2>1
    <2> QED BY <1>2, <1>3, <1>4, <1>6, <2>1, <2>2 DEF CgTyped, CgTypeOK, CgPast
<1>10. CASE OtherEvent
    <2>1. UNCHANGED <<cgNow, cgAttempts>> /\ CgPast' /\ Ordered'
        BY <1>10, HappensTyped DEF OtherEvent
    <2> QED BY <1>2, <1>3, <1>4, <1>5, <2>1 DEF CgTyped, CgTypeOK
<1>11. CASE \E k \in CgKeys : WrongCode(k)
    <2>1. PICK k \in CgKeys : WrongCode(k) BY <1>11
    <2> DEFINE a == cgAttempts[k]
               locks == a.fails + 1 >= CgMaxFails
    <2>2. cgAttempts' = [cgAttempts EXCEPT ![k] = [fails |-> IF locks THEN 0 ELSE a.fails + 1,
                                                   until |-> IF locks THEN cgNow + CgLock ELSE a.until, at |-> cgNow]]
          /\ Happens(IF locks THEN "locked" ELSE "failed") /\ UNCHANGED cgNow
        BY <2>1 DEF WrongCode, RegisterFail
    <2>3. a.until \in 0 .. cgNow
        BY <1>2, <1>5, <2>1 DEF WrongCode, Locked, CgEntry
    <2>4. CgPast' /\ Ordered' BY <2>2, HappensTyped
    <2>5. ASSUME NEW j \in CgKeys PROVE Locking(cgAttempts'[j], cgNow)
        <3>1. CASE j = k
            <4>1. cgAttempts'[j].at = cgNow /\ cgAttempts'[j].until \in {cgNow + CgLock, a.until}
                BY <1>1, <2>2, <3>1 DEF CgTypes
            <4> QED BY <2>3, <4>1
        <3>2. CASE j # k
            <4>1. cgAttempts'[j] = cgAttempts[j] BY <1>1, <2>2, <3>2 DEF CgTypes
            <4> QED BY <1>5, <4>1
        <3> QED BY <3>1, <3>2
    <2> QED BY <1>2, <1>3, <1>4, <2>2, <2>4, <2>5 DEF CgTyped, CgTypeOK
<1>12. CASE UNCHANGED cgVars BY <1>12 DEF cgVars, CgTyped, CgTypeOK, CgPast
<1> QED BY <1>8, <1>9, <1>10, <1>11, <1>12 DEF CgNext

LEMMA CgTypedInit == CgInit => CgTyped
BY CgAssumption, CgBounds DEF CgInit, CgTyped, CgTypeOK, CgPast, NoEntry

(* The guard's variables keep to their types for any limits and any number  *)
(* of tries: CodeGuard, routes/public-upload.js and security/events.js.     *)
THEOREM GuardTypes == CgSpec => []CgTypeOK
<1>1. CgTyped => CgTypeOK BY DEF CgTyped
<1> QED BY <1>1, CgInitInv, CgNextInv, CgTypedInit, CgTypedStep, PTL DEF CgSpec

-----------------------------------------------------------------------------
(* The upload page. *)

UpKinds == {"list", "subs", "create", "close", "regenerate", "delete"}
Lists == UNION {[S -> {"open", "closed"}] : S \in SUBSET Ids}
UpReq == [kind : UpKinds, id : {0} \cup Ids, nr : Nat, done : BOOLEAN, ok : BOOLEAN, list : Lists, n : Nat, code : Nat]
UpPage == [list : Lists, buttons : SUBSET Ids, dash : {0} \cup Ids, timer : BOOLEAN,
           rows : [of : {0} \cup Ids, n : Nat], reveal : [id : {0} \cup Ids, code : Nat, open : BOOLEAN],
           stash : [Ids -> Nat], poster : [id : {0} \cup Ids, code : Nat], renewed : SUBSET Ids, raced : SUBSET Ids,
           seen : [Ids -> Nat], sent : SUBSET UpReq, clicks : Nat]
UpStored == [Ids -> [status : {"none", "open", "closed", "gone"}, code : Nat, n : Nat]]

(* Sessions are made in their order, each with a code. *)
StoreOK ==
    /\ upStore \in UpStored /\ \E n \in 0 .. UpSessions : Made = 1 .. n
    /\ \A id \in Ids : upStore[id].code # 0 <=> id \in Made

(* What a code comes with. *)
Coded(r) == r.kind \in {"create", "regenerate"} /\ r.done /\ r.ok

UpReqOK(r) ==
    /\ r \in UpReq /\ DOMAIN r.list \subseteq Made
    /\ r.kind = "regenerate" => r.id \in Made
    /\ Coded(r) => r.id \in Made /\ r.code # 0 /\ r.code <= upStore[r.id].code

(* No code on the page is newer than the newest. *)
PageOK(u) ==
    /\ u \in UpPage /\ u.buttons \subseteq Made
    /\ \A id \in Ids : u.seen[id] <= upStore[id].code /\ (id \notin Made => u.stash[id] = 0)
    /\ u.reveal.id \in Made \/ (u.reveal.code = 0 /\ ~u.reveal.open)
    /\ u.poster.id \in Made \/ u.poster.code = 0
    /\ u.reveal.code # 0 => /\ u.reveal.code <= u.seen[u.reveal.id]
                            /\ u.reveal.id \notin u.raced => u.reveal.code = u.seen[u.reveal.id]

(* The newest code has been shown, or is on its way, or is still the first. *)
NewestKnown(u, reqs) ==
    \A id \in Ids \ u.raced :
        \/ u.seen[id] = upStore[id].code
        \/ \E r \in reqs : Coded(r) /\ r.kind = "regenerate" /\ r.id = id /\ r.code = upStore[id].code
        \/ u.seen[id] = 0 /\ \A r \in reqs : Coded(r) /\ r.id = id => r.code = upStore[id].code

(* Where no newer code has been made since a poster was opened, or one has   *)
(* been opened from a popup that shows it, no other code can come up.      *)
Unrenewed(u, reqs) ==
    \A id \in Made \ (u.renewed \cup u.raced) :
        /\ u.seen[id] = upStore[id].code \/ \A r \in reqs : Coded(r) /\ r.id = id => r.code = upStore[id].code
        /\ u.stash[id] = 0 \/ u.stash[id] = upStore[id].code
        /\ u.reveal.id = id /\ u.reveal.code # 0 => u.reveal.code = upStore[id].code
        /\ u.poster.id = id /\ u.poster.code # 0 => u.poster.code = upStore[id].code

CodesInv(u, reqs) ==
    PageOK(u) /\ (\A r \in reqs : UpReqOK(r)) /\ NewestKnown(u, reqs) /\ Unrenewed(u, reqs)

UpInv == StoreOK /\ up.sent = {} /\ CodesInv(up, upReqs)

LEMMA UpBounds == UpSessions \in Nat /\ UpClicks \in Nat /\ Ids \subseteq Nat \ {0} /\ 0 \notin Ids
BY UpAssumption DEF Ids

LEMMA NoList == <<>> \in Lists /\ DOMAIN <<>> = {}
<1>1. <<>> \in [{} -> {"open", "closed"}] /\ DOMAIN <<>> = {} OBVIOUS
<1>2. {} \in SUBSET Ids OBVIOUS
<1> QED BY <1>1, <1>2 DEF Lists

(* A request that has no code to tell. *)
Plain(q) ==
    /\ q \in UpReq /\ ~Coded(q) /\ DOMAIN q.list \subseteq Made
    /\ q.kind = "regenerate" => q.id \in Made

LEMMA RequestPlain ==
    ASSUME NEW kind \in UpKinds, NEW id \in {0} \cup Ids, NEW nr \in Nat, kind = "regenerate" => id \in Made
    PROVE  Plain(UpRequest(kind, id, nr))
<1>1. UpRequest(kind, id, nr) \in UpReq BY NoList DEF UpRequest, UpReq
<1> QED BY <1>1, NoList DEF Plain, UpRequest, Coded

(* What has nothing to do with codes: the page keeps them, and requests come *)
(* and go but for the answers with new codes.                              *)
Kept(u, v) ==
    /\ v.reveal = u.reveal /\ v.stash = u.stash /\ v.poster = u.poster /\ v.renewed = u.renewed /\ v.seen = u.seen
    /\ u.raced \subseteq v.raced

LEMMA KeepsCodes ==
    ASSUME NEW u, NEW reqs, CodesInv(u, reqs), NEW v \in UpPage, Kept(u, v), v.buttons \subseteq Made,
           NEW after, \A r \in after : r \in reqs \/ Plain(r),
           \A r \in reqs : r \in after \/ (Coded(r) /\ r.kind = "regenerate" => r.id \in v.raced)
    PROVE  CodesInv(v, after)
<1>1. PageOK(v) BY DEF CodesInv, PageOK, Kept
<1>2. \A r \in after : UpReqOK(r) /\ (Coded(r) => r \in reqs)
    BY DEF CodesInv, UpReqOK, Plain, Coded
<1>3. NewestKnown(v, after)
    <2> SUFFICES ASSUME NEW id \in Ids \ v.raced
                 PROVE  \/ u.seen[id] = upStore[id].code
                        \/ \E r \in after : Coded(r) /\ r.kind = "regenerate" /\ r.id = id /\ r.code = upStore[id].code
                        \/ u.seen[id] = 0 /\ \A r \in after : Coded(r) /\ r.id = id => r.code = upStore[id].code
        BY DEF NewestKnown, Kept
    <2>1. id \in Ids \ u.raced BY DEF Kept
    <2> QED BY <1>2, <2>1 DEF CodesInv, NewestKnown
<1>4. Unrenewed(v, after)
    BY <1>2 DEF CodesInv, Unrenewed, Kept
<1> QED BY <1>1, <1>2, <1>3, <1>4 DEF CodesInv

LEMMA UpBecomesDoes ==
    ASSUME NEW u, NEW reqs, UpBecomes(u, reqs), UNCHANGED upStore, StoreOK, CodesInv(u, reqs),
           \A q \in u.sent : Plain(q)
    PROVE  UpInv'
<1>1. up' = [u EXCEPT !.sent = {}] /\ upReqs' = reqs \cup u.sent BY DEF UpBecomes
<1>2. u \in UpPage /\ u.buttons \subseteq Made BY DEF CodesInv, PageOK
<1>3. up' \in UpPage /\ up'.sent = {} /\ Kept(u, up') /\ up'.buttons \subseteq Made
    BY <1>1, <1>2 DEF UpPage, Kept
<1>4. CodesInv(up', upReqs')
    <2> DEFINE v == up'
               after == upReqs'
    <2>1. v \in UpPage /\ Kept(u, v) /\ v.buttons \subseteq Made BY <1>3
    <2>2. \A r \in after : r \in reqs \/ Plain(r) BY <1>1
    <2>3. \A r \in reqs : r \in after \/ (Coded(r) /\ r.kind = "regenerate" => r.id \in v.raced) BY <1>1
    <2> HIDE DEF v, after
    <2>4. CodesInv(v, after) BY <2>1, <2>2, <2>3, KeepsCodes
    <2> QED BY <2>4 DEF v, after
<1>5. StoreOK' BY DEF StoreOK, Made
<1>6. CodesInv(up, upReqs)'
    BY <1>4 DEF CodesInv, PageOK, UpReqOK, NewestKnown, Unrenewed, Made
<1> QED BY <1>3, <1>5, <1>6 DEF UpInv

-----------------------------------------------------------------------------
(* The handlers of the page. *)

LEMMA FetchesDo ==
    ASSUME NEW u \in UpPage, NEW kind \in UpKinds, NEW id \in {0} \cup Ids, kind = "regenerate" => id \in Made,
           \A q \in u.sent : Plain(q)
    PROVE  /\ Fetches(u, kind, id) \in UpPage /\ Kept(u, Fetches(u, kind, id)) /\ Fetches(u, kind, id).buttons = u.buttons
           /\ \A q \in Fetches(u, kind, id).sent : Plain(q)
<1> DEFINE q == UpRequest(kind, id, IF kind = "regenerate" THEN u.clicks ELSE 0)
           v == Fetches(u, kind, id)
<1>1. Plain(q)
    <2>1. (IF kind = "regenerate" THEN u.clicks ELSE 0) \in Nat BY DEF UpPage
    <2> QED BY <2>1, RequestPlain
<1>2. v = [u EXCEPT !.sent = @ \cup {q}] BY DEF Fetches
<1> HIDE DEF q, v
<1>3. v \in UpPage /\ v.sent = u.sent \cup {q} /\ v.buttons = u.buttons
    BY <1>1, <1>2 DEF UpPage, Plain
<1>4. Kept(u, v) BY <1>2 DEF UpPage, Kept
<1> QED BY <1>1, <1>3, <1>4 DEF v

LEMMA RefreshDo ==
    ASSUME NEW u \in UpPage, \A q \in u.sent : Plain(q)
    PROVE  /\ RefreshDash(u) \in UpPage /\ Kept(u, RefreshDash(u)) /\ RefreshDash(u).buttons = u.buttons
           /\ \A q \in RefreshDash(u).sent : Plain(q)
<1>1. CASE u.dash = 0
    <2>1. RefreshDash(u) = u BY <1>1 DEF RefreshDash
    <2> QED BY <2>1 DEF Kept
<1>2. CASE u.dash # 0
    <2>1. RefreshDash(u) = Fetches(u, "subs", u.dash) BY <1>2 DEF RefreshDash
    <2>2. "subs" \in UpKinds /\ "subs" # "regenerate" /\ u.dash \in {0} \cup Ids BY DEF UpKinds, UpPage
    <2> DEFINE v == Fetches(u, "subs", u.dash)
    <2>3. v \in UpPage /\ Kept(u, v) /\ v.buttons = u.buttons /\ \A q \in v.sent : Plain(q) BY <2>2, FetchesDo
    <2> QED BY <2>1, <2>3
<1> QED BY <1>1, <1>2

LEMMA DashboardDoes ==
    ASSUME NEW u \in UpPage, NEW id \in Ids, \A q \in u.sent : Plain(q)
    PROVE  /\ ShowDashboard(u, id) \in UpPage /\ Kept(u, ShowDashboard(u, id)) /\ ShowDashboard(u, id).buttons = u.buttons
           /\ \A q \in ShowDashboard(u, id).sent : Plain(q)
<1>1. CASE id \notin DOMAIN u.list
    <2>1. ShowDashboard(u, id) = u BY <1>1 DEF ShowDashboard
    <2> QED BY <2>1 DEF Kept
<1>2. CASE id \in DOMAIN u.list
    <2> DEFINE v == [u EXCEPT !.dash = id, !.timer = TRUE]
    <2>1. ShowDashboard(u, id) = RefreshDash(v) BY <1>2 DEF ShowDashboard
    <2>2. v \in UpPage /\ Kept(u, v) /\ v.buttons = u.buttons /\ v.sent = u.sent BY DEF UpPage, Kept
    <2> HIDE DEF v
    <2>3. /\ RefreshDash(v) \in UpPage /\ Kept(v, RefreshDash(v)) /\ RefreshDash(v).buttons = v.buttons
          /\ \A q \in RefreshDash(v).sent : Plain(q)
        BY <2>2, RefreshDo
    <2> QED BY <2>1, <2>2, <2>3 DEF Kept
<1> QED BY <1>1, <1>2

(* A click that has nothing to do with codes. *)
LEMMA KeepingClick ==
    ASSUME UpInv, NEW u \in UpPage, Kept(up, u), u.buttons = up.buttons, \A q \in u.sent : Plain(q), UpClick(u)
    PROVE  UpInv'
<1>1. UpBecomes(u, upReqs) /\ UNCHANGED upStore BY DEF UpClick
<1>2. CodesInv(u, upReqs)
    <2>1. u.buttons \subseteq Made BY DEF UpInv, CodesInv, PageOK
    <2>2. \A r \in upReqs : r \in upReqs \/ Plain(r) OBVIOUS
    <2>3. \A r \in upReqs : r \in upReqs \/ (Coded(r) /\ r.kind = "regenerate" => r.id \in u.raced) OBVIOUS
    <2> QED BY <2>1, <2>2, <2>3, KeepsCodes DEF UpInv
<1> QED BY <1>1, <1>2, UpBecomesDoes DEF UpInv

LEMMA ClickedDoes ==
    ASSUME UpInv
    PROVE  /\ Clicked \in UpPage /\ Kept(up, Clicked) /\ Clicked.buttons = up.buttons /\ Clicked.sent = {}
           /\ Clicked.reveal = up.reveal
           /\ up \in UpPage /\ up.buttons \subseteq Made
BY DEF UpInv, CodesInv, PageOK, Clicked, UpPage, Kept

(* The popup for a session, without a code. *)
LEMMA RevealButtonInv ==
    ASSUME UpInv, NEW id \in up.buttons, UpClick(ShowReveal(Clicked, id, 0))
    PROVE  UpInv'
<1> DEFINE u == ShowReveal(Clicked, id, 0)
<1>1. Clicked \in UpPage /\ Kept(up, Clicked) /\ Clicked.buttons = up.buttons /\ Clicked.sent = {} /\ id \in Made /\ id \in Ids
    BY ClickedDoes DEF Made
<1>2. u = [Clicked EXCEPT !.reveal = [id |-> id, code |-> 0, open |-> TRUE]] BY DEF ShowReveal
<1> HIDE DEF u
<1>3. /\ u \in UpPage /\ u.reveal = [id |-> id, code |-> 0, open |-> TRUE] /\ u.sent = {} /\ u.buttons = up.buttons
      /\ u.stash = up.stash /\ u.poster = up.poster /\ u.renewed = up.renewed /\ u.seen = up.seen
      /\ up.raced \subseteq u.raced
    BY <1>1, <1>2 DEF UpPage, Kept
<1>3a. u.reveal.id = id /\ u.reveal.code = 0 BY <1>3
<1>4. PageOK(u) BY <1>1, <1>3, <1>3a DEF UpInv, CodesInv, PageOK
<1>5. NewestKnown(u, upReqs) BY <1>3 DEF UpInv, CodesInv, NewestKnown
<1>6. Unrenewed(u, upReqs) BY <1>3, <1>3a DEF UpInv, CodesInv, Unrenewed
<1>7. CodesInv(u, upReqs) BY <1>4, <1>5, <1>6 DEF UpInv, CodesInv
<1>8. UpBecomes(u, upReqs) /\ UNCHANGED upStore BY DEF UpClick, u
<1> QED BY <1>3, <1>7, <1>8, UpBecomesDoes DEF UpInv

LEMMA CloseRevealInv == UpInv /\ UpClick(CloseReveal(Clicked)) => UpInv'
<1> SUFFICES ASSUME UpInv, UpClick(CloseReveal(Clicked)) PROVE UpInv'
    OBVIOUS
<1> DEFINE u == CloseReveal(Clicked)
<1>1. Clicked \in UpPage /\ Kept(up, Clicked) /\ Clicked.buttons = up.buttons /\ Clicked.sent = {}
    BY ClickedDoes
<1>2. u = [Clicked EXCEPT !.reveal.open = FALSE] BY DEF CloseReveal
<1> HIDE DEF u
<1>3. /\ u \in UpPage /\ u.reveal.id = up.reveal.id /\ u.reveal.code = up.reveal.code /\ u.reveal.open = FALSE
      /\ u.sent = {} /\ u.buttons = up.buttons
      /\ u.stash = up.stash /\ u.poster = up.poster /\ u.renewed = up.renewed /\ u.seen = up.seen
      /\ up.raced \subseteq u.raced
    BY <1>1, <1>2 DEF UpPage, Kept
<1>4. PageOK(u) BY <1>1, <1>3 DEF UpInv, CodesInv, PageOK
<1>5. NewestKnown(u, upReqs) BY <1>3 DEF UpInv, CodesInv, NewestKnown
<1>6. Unrenewed(u, upReqs) BY <1>3 DEF UpInv, CodesInv, Unrenewed
<1>7. CodesInv(u, upReqs) BY <1>4, <1>5, <1>6 DEF UpInv, CodesInv
<1>8. UpBecomes(u, upReqs) /\ UNCHANGED upStore BY DEF UpClick, u
<1> QED BY <1>3, <1>7, <1>8, UpBecomesDoes DEF UpInv

(* The poster, with the popup's code or the one that is stashed. *)
LEMMA OpenPosterInv == UpInv /\ up.reveal.open /\ UpClick(OpenPoster(Clicked)) => UpInv'
<1> SUFFICES ASSUME UpInv, up.reveal.open, UpClick(OpenPoster(Clicked)) PROVE UpInv'
    OBVIOUS
<1> DEFINE u == OpenPoster(Clicked)
           id == up.reveal.id
           code == IF up.reveal.code # 0 THEN up.reveal.code ELSE up.stash[id]
           renewed == IF up.reveal.code = upStore[id].code THEN up.renewed \ {id} ELSE up.renewed
<1>1. Clicked \in UpPage /\ Kept(up, Clicked) /\ Clicked.buttons = up.buttons /\ Clicked.sent = {} /\ Clicked.reveal = up.reveal
      /\ up \in UpPage
    BY ClickedDoes
<1>2. id \in Made /\ id \in Ids /\ upStore[id].code # 0 /\ upStore[id].code \in Nat
    <2>1. id \in Made BY DEF UpInv, CodesInv, PageOK
    <2>2. id \in Ids BY <2>1 DEF Made
    <2> QED BY <2>1, <2>2 DEF UpInv, StoreOK, UpStored
<1>3. u = [Clicked EXCEPT !.stash[id] = code, !.poster = [id |-> id, code |-> code], !.renewed = renewed]
    BY <1>1 DEF OpenPoster, Kept
<1>4. code \in Nat /\ renewed \in SUBSET Ids BY <1>1, <1>2 DEF UpPage
<1>4a. up.reveal.code # 0 => code = up.reveal.code OBVIOUS
<1>4b. up.reveal.code = 0 => code = up.stash[id] OBVIOUS
<1>4c. /\ renewed \subseteq up.renewed /\ up.renewed \subseteq renewed \cup {id}
       /\ id \notin renewed => id \notin up.renewed \/ up.reveal.code = upStore[id].code
    OBVIOUS
<1> HIDE DEF u, code, renewed
<1>5. /\ u \in UpPage /\ u.reveal = up.reveal /\ u.sent = {} /\ u.buttons = up.buttons
      /\ u.stash = [up.stash EXCEPT ![id] = code] /\ u.poster.id = id /\ u.poster.code = code /\ u.renewed = renewed
      /\ u.seen = up.seen /\ up.raced \subseteq u.raced
    <2>1. Clicked.stash = up.stash BY <1>1 DEF Kept
    <2>2. [up.stash EXCEPT ![id] = code] \in [Ids -> Nat] BY <1>1, <1>2, <1>4 DEF UpPage
    <2>3. [id |-> id, code |-> code] \in [id : {0} \cup Ids, code : Nat] BY <1>2, <1>4
    <2> QED BY <1>1, <1>2, <1>3, <1>4, <2>1, <2>2, <2>3 DEF UpPage, Kept
<1>6. /\ u.stash \in [Ids -> Nat] /\ up.stash \in [Ids -> Nat] /\ u.stash[id] = code
      /\ \A j \in Ids : j # id => u.stash[j] = up.stash[j]
    BY <1>1, <1>2, <1>5 DEF UpPage
<1>7. PageOK(u) BY <1>2, <1>5, <1>6 DEF UpInv, CodesInv, PageOK
<1>8. NewestKnown(u, upReqs) BY <1>5 DEF UpInv, CodesInv, NewestKnown
<1>9. ASSUME NEW j \in Made \ (u.renewed \cup u.raced)
      PROVE  /\ u.seen[j] = upStore[j].code \/ \A r \in upReqs : Coded(r) /\ r.id = j => r.code = upStore[j].code
             /\ u.stash[j] = 0 \/ u.stash[j] = upStore[j].code
             /\ u.reveal.id = j /\ u.reveal.code # 0 => u.reveal.code = upStore[j].code
             /\ u.poster.id = j /\ u.poster.code # 0 => u.poster.code = upStore[j].code
    <2>0. j \in Ids BY DEF Made
    <2>1. CASE j \notin up.renewed
        <3>1. j \in Made \ (up.renewed \cup up.raced) BY <1>5, <2>1
        <3>2. /\ up.seen[j] = upStore[j].code \/ \A r \in upReqs : Coded(r) /\ r.id = j => r.code = upStore[j].code
              /\ up.stash[j] = 0 \/ up.stash[j] = upStore[j].code
              /\ up.reveal.id = j /\ up.reveal.code # 0 => up.reveal.code = upStore[j].code
              /\ up.poster.id = j /\ up.poster.code # 0 => up.poster.code = upStore[j].code
            BY <3>1 DEF UpInv, CodesInv, Unrenewed
        <3>3. CASE j = id BY <1>4a, <1>4b, <1>5, <1>6, <3>2, <3>3
        <3>4. CASE j # id BY <1>5, <1>6, <2>0, <3>2, <3>4
        <3> QED BY <3>3, <3>4
    <2>2. CASE j \in up.renewed
        <3>1. j = id /\ up.reveal.code = upStore[id].code BY <1>4c, <1>5, <2>2
        <3>2. code = upStore[id].code /\ up.reveal.code # 0 BY <1>2, <1>4a, <3>1
        <3>3. up.seen[id] = upStore[id].code
            <4>1. up.reveal.code <= up.seen[id] /\ up.seen[id] <= upStore[id].code
                BY <1>2, <3>2 DEF UpInv, CodesInv, PageOK
            <4>2. up.seen[id] \in Nat BY <1>1, <1>2 DEF UpPage
            <4> QED BY <1>2, <3>1, <4>1, <4>2
        <3> QED BY <1>5, <1>6, <3>1, <3>2, <3>3
    <2> QED BY <2>1, <2>2
<1>10. CodesInv(u, upReqs) BY <1>7, <1>8, <1>9 DEF UpInv, CodesInv, Unrenewed
<1>11. UpBecomes(u, upReqs) /\ UNCHANGED upStore BY DEF UpClick, u
<1> QED BY <1>5, <1>10, <1>11, UpBecomesDoes DEF UpInv

LEMMA UpAdminInv == UpInv /\ UpAdmin => UpInv'
<1> SUFFICES ASSUME UpInv, UpAdmin PROVE UpInv'
    OBVIOUS
<1>1. /\ Clicked \in UpPage /\ Kept(up, Clicked) /\ Clicked.buttons = up.buttons /\ Clicked.sent = {}
      /\ up.buttons \subseteq Made /\ up \in UpPage
    BY ClickedDoes
<1>2. \A q \in Clicked.sent : Plain(q) BY <1>1
<1>3. \A v : Kept(Clicked, v) => Kept(up, v) BY <1>1 DEF Kept
<1>4. ASSUME NEW kind \in UpKinds, NEW id \in {0} \cup Ids, kind = "regenerate" => id \in Made,
             UpClick(Fetches(Clicked, kind, id))
      PROVE  UpInv'
    <2>1. /\ Fetches(Clicked, kind, id) \in UpPage /\ Kept(Clicked, Fetches(Clicked, kind, id))
          /\ Fetches(Clicked, kind, id).buttons = Clicked.buttons
          /\ \A q \in Fetches(Clicked, kind, id).sent : Plain(q)
        BY <1>1, <1>2, <1>4, FetchesDo
    <2> QED BY <1>1, <1>3, <1>4, <2>1, KeepingClick
<1>5. CASE NewSession
    <2>1. UpClick(Fetches(Clicked, "create", 0)) /\ "create" \in UpKinds BY <1>5 DEF NewSession, UpKinds
    <2> QED BY <1>4, <2>1
<1>6. CASE SessionButton
    <2>1. PICK id \in up.buttons :
              \/ UpClick(ShowDashboard(Clicked, id))
              \/ UpClick(ShowReveal(Clicked, id, 0))
              \/ up.list[id] = "open" /\ UpClick(Fetches(Clicked, "close", id))
              \/ \E kind \in {"regenerate", "delete"} : UpClick(Fetches(Clicked, kind, id))
        BY <1>6 DEF SessionButton
    <2>2. id \in Made /\ id \in Ids BY <1>1 DEF Made
    <2>3. CASE UpClick(ShowDashboard(Clicked, id))
        <3>1. /\ ShowDashboard(Clicked, id) \in UpPage /\ Kept(Clicked, ShowDashboard(Clicked, id))
              /\ ShowDashboard(Clicked, id).buttons = Clicked.buttons
              /\ \A q \in ShowDashboard(Clicked, id).sent : Plain(q)
            BY <1>1, <1>2, <2>2, DashboardDoes
        <3> QED BY <1>1, <1>3, <2>3, <3>1, KeepingClick
    <2>4. CASE UpClick(ShowReveal(Clicked, id, 0)) BY <2>4, RevealButtonInv
    <2>5. CASE UpClick(Fetches(Clicked, "close", id))
        <3>1. "close" \in UpKinds BY DEF UpKinds
        <3> QED BY <1>4, <2>2, <2>5, <3>1
    <2>6. CASE \E kind \in {"regenerate", "delete"} : UpClick(Fetches(Clicked, kind, id))
        <3>1. PICK kind \in {"regenerate", "delete"} : UpClick(Fetches(Clicked, kind, id)) BY <2>6
        <3>2. kind \in UpKinds BY DEF UpKinds
        <3> QED BY <1>4, <2>2, <3>1, <3>2
    <2> QED BY <2>1, <2>3, <2>4, <2>5, <2>6
<1>7. CASE DashButton
    <2> DEFINE u == CloseDash(Clicked)
    <2>1. UpClick(u) BY <1>7 DEF DashButton
    <2>2. u = [Clicked EXCEPT !.dash = 0, !.timer = FALSE] BY DEF CloseDash
    <2> HIDE DEF u
    <2>3. u \in UpPage /\ Kept(Clicked, u) /\ u.buttons = Clicked.buttons /\ u.sent = {} BY <1>1, <2>2 DEF UpPage, Kept
    <2> QED BY <1>1, <1>3, <2>1, <2>3, KeepingClick
<1>8. CASE RevealButton BY <1>8, CloseRevealInv, OpenPosterInv DEF RevealButton
<1> QED BY <1>5, <1>6, <1>7, <1>8 DEF UpAdmin

LEMMA DashTickInv == UpInv /\ DashTick => UpInv'
<1> SUFFICES ASSUME UpInv, DashTick PROVE UpInv'
    OBVIOUS
<1> DEFINE u == RefreshDash(up)
<1>1. up \in UpPage /\ up.sent = {} /\ up.buttons \subseteq Made BY DEF UpInv, CodesInv, PageOK
<1>2. u \in UpPage /\ Kept(up, u) /\ u.buttons = up.buttons /\ \A q \in u.sent : Plain(q)
    BY <1>1, RefreshDo
<1>3. UpBecomes(u, upReqs) /\ UNCHANGED upStore BY DEF DashTick
<1> HIDE DEF u
<1>4. CodesInv(u, upReqs)
    <2>1. \A r \in upReqs : r \in upReqs \/ Plain(r) OBVIOUS
    <2>2. \A r \in upReqs : r \in upReqs \/ (Coded(r) /\ r.kind = "regenerate" => r.id \in u.raced) OBVIOUS
    <2>3. u.buttons \subseteq Made BY <1>1, <1>2
    <2> QED BY <1>2, <2>1, <2>2, <2>3, KeepsCodes DEF UpInv
<1> QED BY <1>2, <1>3, <1>4, UpBecomesDoes DEF UpInv

-----------------------------------------------------------------------------
(* The answers. *)

(* An answer without a code, or that is lost. *)
LEMMA KeepingAnswer ==
    ASSUME UpInv, NEW r \in upReqs, NEW u \in UpPage, Kept(up, u), u.buttons \subseteq Made, \A q \in u.sent : Plain(q),
           Coded(r) /\ r.kind = "regenerate" => r.id \in u.raced,
           UpBecomes(u, upReqs \ {r}), UNCHANGED upStore
    PROVE  UpInv'
<1> DEFINE after == upReqs \ {r}
<1>1. \A q \in after : q \in upReqs \/ Plain(q) OBVIOUS
<1>2. \A q \in upReqs : q \in after \/ (Coded(q) /\ q.kind = "regenerate" => q.id \in u.raced) OBVIOUS
<1> HIDE DEF after
<1>3. CodesInv(u, after) BY <1>1, <1>2, KeepsCodes DEF UpInv
<1>4. UpBecomes(u, after) BY DEF after
<1> QED BY <1>3, <1>4, UpBecomesDoes DEF UpInv

(* A code that arrives is in the popup. *)
LEMMA ShowCodeInv ==
    ASSUME UpInv, NEW r \in upReqs, Coded(r)
    PROVE  /\ CodesInv(ShowCode(up, r), upReqs \ {r}) /\ ShowCode(up, r).sent = {}
<1> DEFINE v == ShowReveal(up, r.id, r.code)
           u == ShowCode(up, r)
           id == r.id
<1>1. /\ up \in UpPage /\ up.sent = {} /\ up.buttons \subseteq Made
      /\ r \in UpReq /\ id \in Made /\ id \in Ids /\ r.code # 0 /\ r.code \in Nat /\ r.code <= upStore[id].code
    BY DEF UpInv, CodesInv, PageOK, UpReqOK, UpReq, Made
<1>2. v = [up EXCEPT !.reveal = [id |-> id, code |-> r.code, open |-> TRUE]] BY DEF ShowReveal
<1>3. /\ r.code < up.seen[id] => u = [v EXCEPT !.raced = @ \cup {id}]
      /\ ~(r.code < up.seen[id]) => u = [v EXCEPT !.seen[id] = r.code]
    BY DEF ShowCode
<1> HIDE DEF v, u
<1>4. /\ v \in UpPage /\ v.reveal = [id |-> id, code |-> r.code, open |-> TRUE] /\ v.sent = {} /\ v.buttons = up.buttons
      /\ v.stash = up.stash /\ v.poster = up.poster /\ v.renewed = up.renewed /\ v.seen = up.seen /\ v.raced = up.raced
    BY <1>1, <1>2 DEF UpPage
<1>5. /\ u \in UpPage /\ u.reveal = [id |-> id, code |-> r.code, open |-> TRUE] /\ u.sent = {} /\ u.buttons = up.buttons
      /\ u.stash = up.stash /\ u.poster = up.poster /\ u.renewed = up.renewed
      /\ \/ r.code < up.seen[id] /\ u.seen = up.seen /\ u.raced = up.raced \cup {id}
         \/ ~(r.code < up.seen[id]) /\ u.seen = [up.seen EXCEPT ![id] = r.code] /\ u.raced = up.raced
    <2>1. CASE r.code < up.seen[id] BY <1>1, <1>3, <1>4, <2>1 DEF UpPage
    <2>2. CASE ~(r.code < up.seen[id]) BY <1>1, <1>3, <1>4, <2>2 DEF UpPage
    <2> QED BY <2>1, <2>2
<1>6. u.reveal.id = id /\ u.reveal.code = r.code BY <1>5
<1>7. /\ up.seen \in [Ids -> Nat] /\ upStore[id].code \in Nat /\ up.seen[id] \in Nat /\ up.seen[id] <= upStore[id].code
      /\ \A j \in Ids : j # id => u.seen[j] = up.seen[j]
      /\ u.seen[id] \in Nat /\ u.seen[id] <= upStore[id].code /\ r.code <= u.seen[id]
      /\ id \notin u.raced => u.seen[id] = r.code
    <2>1. up.seen \in [Ids -> Nat] /\ upStore[id].code \in Nat /\ up.seen[id] <= upStore[id].code
        BY <1>1 DEF UpInv, StoreOK, UpStored, UpPage, CodesInv, PageOK
    <2>2. up.seen[id] \in Nat BY <1>1, <2>1
    <2>3. CASE r.code < up.seen[id] BY <1>1, <1>5, <2>1, <2>2, <2>3
    <2>4. CASE ~(r.code < up.seen[id]) BY <1>1, <1>5, <2>1, <2>2, <2>4
    <2> QED BY <2>3, <2>4
<1>8. u.raced \subseteq up.raced \cup {id} /\ up.raced \subseteq u.raced BY <1>5
<1>9. PageOK(u)
    <2>1. \A j \in Ids : u.seen[j] <= upStore[j].code /\ (j \notin Made => u.stash[j] = 0)
        BY <1>5, <1>7 DEF UpInv, CodesInv, PageOK
    <2>2. u.poster.id \in Made \/ u.poster.code = 0 BY <1>5 DEF UpInv, CodesInv, PageOK
    <2> QED BY <1>1, <1>5, <1>6, <1>7, <2>1, <2>2 DEF PageOK
<1>10. NewestKnown(u, upReqs \ {r})
    <2> SUFFICES ASSUME NEW j \in Ids \ u.raced
                 PROVE  \/ u.seen[j] = upStore[j].code
                        \/ \E q \in upReqs \ {r} : Coded(q) /\ q.kind = "regenerate" /\ q.id = j /\ q.code = upStore[j].code
                        \/ u.seen[j] = 0 /\ \A q \in upReqs \ {r} : Coded(q) /\ q.id = j => q.code = upStore[j].code
        BY DEF NewestKnown
    <2>1. \/ up.seen[j] = upStore[j].code
          \/ \E q \in upReqs : Coded(q) /\ q.kind = "regenerate" /\ q.id = j /\ q.code = upStore[j].code
          \/ up.seen[j] = 0 /\ \A q \in upReqs : Coded(q) /\ q.id = j => q.code = upStore[j].code
        BY <1>8 DEF UpInv, CodesInv, NewestKnown
    <2>2. CASE j # id BY <1>7, <2>1, <2>2
    <2>3. CASE j = id
        <3>1. u.seen[id] = r.code /\ ~(r.code < up.seen[id]) BY <1>5, <1>7, <2>3
        <3>2. CASE r.code = upStore[id].code BY <2>3, <3>1, <3>2
        <3>3. CASE r.code # upStore[id].code
            <4>1. up.seen[id] # upStore[id].code BY <1>1, <1>7, <3>1, <3>3
            <4>2. \E q \in upReqs : Coded(q) /\ q.kind = "regenerate" /\ q.id = id /\ q.code = upStore[id].code
                BY <2>1, <2>3, <3>3, <4>1
            <4> QED BY <2>3, <3>3, <4>2
        <3> QED BY <3>2, <3>3
    <2> QED BY <2>2, <2>3
<1>11. Unrenewed(u, upReqs \ {r})
    <2> SUFFICES ASSUME NEW j \in Made \ (u.renewed \cup u.raced)
                 PROVE  /\ \/ u.seen[j] = upStore[j].code
                           \/ \A q \in upReqs \ {r} : Coded(q) /\ q.id = j => q.code = upStore[j].code
                        /\ u.stash[j] = 0 \/ u.stash[j] = upStore[j].code
                        /\ u.reveal.id = j /\ u.reveal.code # 0 => u.reveal.code = upStore[j].code
                        /\ u.poster.id = j /\ u.poster.code # 0 => u.poster.code = upStore[j].code
        BY DEF Unrenewed
    <2>0. j \in Ids /\ j \in Made \ (up.renewed \cup up.raced) BY <1>5, <1>8 DEF Made
    <2>1. /\ up.seen[j] = upStore[j].code \/ \A q \in upReqs : Coded(q) /\ q.id = j => q.code = upStore[j].code
          /\ up.stash[j] = 0 \/ up.stash[j] = upStore[j].code
          /\ up.reveal.id = j /\ up.reveal.code # 0 => up.reveal.code = upStore[j].code
          /\ up.poster.id = j /\ up.poster.code # 0 => up.poster.code = upStore[j].code
        BY <2>0 DEF UpInv, CodesInv, Unrenewed
    <2>2. CASE j # id BY <1>5, <1>6, <1>7, <2>0, <2>1, <2>2
    <2>3. CASE j = id
        <3>1. u.seen[id] = r.code /\ ~(r.code < up.seen[id]) BY <1>5, <1>7, <2>3
        <3>2. r.code = upStore[id].code BY <1>1, <1>7, <2>1, <2>3, <3>1
        <3> QED BY <1>5, <1>6, <2>1, <2>3, <3>1, <3>2
    <2> QED BY <2>2, <2>3
<1>12. \A q \in upReqs \ {r} : UpReqOK(q) BY DEF UpInv, CodesInv
<1> QED BY <1>5, <1>9, <1>10, <1>11, <1>12 DEF CodesInv, u

LEMMA UpArrivesInv == UpInv /\ (\E r \in upReqs : UpArrives(r)) => UpInv'
<1> SUFFICES ASSUME UpInv, NEW r \in upReqs, UpArrives(r) PROVE UpInv'
    OBVIOUS
<1> DEFINE u == Answered(up, r)
<1>1. r.done /\ UpBecomes(u, upReqs \ {r}) /\ UNCHANGED upStore BY DEF UpArrives
<1>2. /\ up \in UpPage /\ up.sent = {} /\ up.buttons \subseteq Made /\ r \in UpReq /\ DOMAIN r.list \subseteq Made
      /\ Made \subseteq Ids
    BY DEF UpInv, CodesInv, PageOK, UpReqOK, Made
<1>3. Kept(up, up) /\ \A q \in up.sent : Plain(q) BY <1>2 DEF Kept
<1>4. "list" \in UpKinds /\ 0 \in {0} \cup Ids BY DEF UpKinds
<1>5. CASE r.kind = "list"
    <2>1. u = [up EXCEPT !.list = r.list, !.buttons = DOMAIN r.list] BY <1>5 DEF Answered, Painted
    <2> HIDE DEF u
    <2>2. u \in UpPage /\ Kept(up, u) /\ u.buttons \subseteq Made /\ u.sent = {} BY <1>2, <2>1 DEF UpPage, UpReq, Kept
    <2>3. ~Coded(r) BY <1>5 DEF Coded
    <2> QED BY <1>1, <2>2, <2>3, KeepingAnswer
<1>6. CASE r.kind = "subs"
    <2>1. u = [up EXCEPT !.rows = [of |-> r.id, n |-> r.n]] BY <1>6 DEF Answered, Rows
    <2> HIDE DEF u
    <2>2. u \in UpPage /\ Kept(up, u) /\ u.buttons \subseteq Made /\ u.sent = {} BY <1>2, <2>1 DEF UpPage, UpReq, Kept
    <2>3. ~Coded(r) BY <1>6 DEF Coded
    <2> QED BY <1>1, <2>2, <2>3, KeepingAnswer
<1>7. CASE r.kind = "create" /\ r.ok
    <2> DEFINE v == ShowCode(up, r)
    <2>1. Coded(r) BY <1>1, <1>7 DEF Coded
    <2>2. CodesInv(v, upReqs \ {r}) /\ v.sent = {} BY <2>1, ShowCodeInv
    <2>3. u = Fetches(v, "list", 0) BY <1>7 DEF Answered, LoadSessions
    <2> HIDE DEF u, v
    <2>4. v \in UpPage /\ v.buttons \subseteq Made /\ \A q \in v.sent : Plain(q) BY <2>2 DEF CodesInv, PageOK
    <2>5. u \in UpPage /\ Kept(v, u) /\ u.buttons = v.buttons /\ \A q \in u.sent : Plain(q)
        BY <1>4, <2>3, <2>4, FetchesDo
    <2>6. CodesInv(u, upReqs \ {r})
        <3> DEFINE reqs == upReqs \ {r}
        <3>1. \A q \in reqs : q \in reqs \/ Plain(q) OBVIOUS
        <3>2. \A q \in reqs : q \in reqs \/ (Coded(q) /\ q.kind = "regenerate" => q.id \in u.raced) OBVIOUS
        <3>3. u.buttons \subseteq Made BY <2>4, <2>5
        <3> HIDE DEF reqs
        <3>4. CodesInv(v, reqs) BY <2>2 DEF reqs
        <3>5. CodesInv(u, reqs) BY <2>5, <3>1, <3>2, <3>3, <3>4, KeepsCodes
        <3> QED BY <3>5 DEF reqs
    <2> QED BY <1>1, <2>5, <2>6, UpBecomesDoes DEF UpInv
<1>8. CASE r.kind = "regenerate" /\ r.ok
    <2> DEFINE v == ShowCode(up, r)
    <2>1. Coded(r) BY <1>1, <1>8 DEF Coded
    <2>2. CodesInv(v, upReqs \ {r}) /\ v.sent = {} BY <2>1, ShowCodeInv
    <2>3. u = v BY <1>8 DEF Answered
    <2> HIDE DEF u, v
    <2> QED BY <1>1, <2>2, <2>3, UpBecomesDoes DEF UpInv
<1>9. CASE r.kind \in {"create", "regenerate"} /\ ~r.ok
    <2>1. u = up BY <1>9 DEF Answered
    <2> HIDE DEF u
    <2>2. ~Coded(r) BY <1>9 DEF Coded
    <2> QED BY <1>1, <1>2, <1>3, <2>1, <2>2, KeepingAnswer
<1>10. CASE r.kind \in {"close", "delete"}
    <2>1. u = Fetches(up, "list", 0) BY <1>10 DEF Answered, LoadSessions
    <2> HIDE DEF u
    <2>2. u \in UpPage /\ Kept(up, u) /\ u.buttons = up.buttons /\ \A q \in u.sent : Plain(q)
        BY <1>2, <1>3, <1>4, <2>1, FetchesDo
    <2>3. ~Coded(r) BY <1>10 DEF Coded
    <2> QED BY <1>1, <1>2, <2>2, <2>3, KeepingAnswer
<1>11. r.kind \in UpKinds BY <1>2 DEF UpReq
<1> QED BY <1>5, <1>6, <1>7, <1>8, <1>9, <1>10, <1>11 DEF UpKinds

LEMMA UpLostInv == UpInv /\ (\E r \in upReqs : UpLost(r)) => UpInv'
<1> SUFFICES ASSUME UpInv, NEW r \in upReqs, UpLost(r) PROVE UpInv'
    OBVIOUS
<1> DEFINE raced == IF r.kind = "regenerate" THEN up.raced \cup {r.id} ELSE up.raced
           u == [up EXCEPT !.clicks = @ + 1, !.raced = raced]
           v == CASE r.kind = "list" -> [u EXCEPT !.buttons = {}]
                  [] r.kind = "subs" -> [u EXCEPT !.rows = NoRows] [] OTHER -> u
<1>1. /\ up \in UpPage /\ up.sent = {} /\ up.buttons \subseteq Made /\ r \in UpReq /\ Made \subseteq Ids
      /\ r.kind = "regenerate" => r.id \in Made
    BY DEF UpInv, CodesInv, PageOK, UpReqOK, Made
<1>2. raced \in SUBSET Ids /\ up.raced \subseteq raced /\ (r.kind = "regenerate" => r.id \in raced)
    BY <1>1 DEF UpPage
<1>3. UpBecomes(v, upReqs \ {r}) /\ UNCHANGED upStore BY DEF UpLost
<1> HIDE DEF raced
<1>4. u \in UpPage /\ Kept(up, u) /\ u.buttons = up.buttons /\ u.sent = {} /\ u.raced = raced
    <2>1. up.clicks + 1 \in Nat BY <1>1 DEF UpPage
    <2>2. u = [up EXCEPT !.clicks = up.clicks + 1, !.raced = raced] BY <1>1 DEF UpPage
    <2> HIDE DEF u
    <2> QED BY <1>1, <1>2, <2>1, <2>2 DEF UpPage, Kept
<1> HIDE DEF u
<1>5. v \in UpPage /\ Kept(up, v) /\ v.buttons \subseteq Made /\ v.sent = {} /\ v.raced = raced
    <2>1. CASE r.kind = "list"
        <3>1. v = [u EXCEPT !.buttons = {}] BY <2>1
        <3> QED BY <1>4, <3>1 DEF UpPage, Kept
    <2>2. CASE r.kind = "subs"
        <3>1. v = [u EXCEPT !.rows = NoRows] BY <2>2
        <3>2. NoRows \in [of : {0} \cup Ids, n : Nat] BY DEF NoRows
        <3> QED BY <1>1, <1>4, <3>1, <3>2 DEF UpPage, Kept
    <2>3. CASE r.kind \notin {"list", "subs"}
        <3>1. v = u BY <2>3
        <3> QED BY <1>1, <1>4, <3>1
    <2> QED BY <2>1, <2>2, <2>3
<1> HIDE DEF v
<1>6. Coded(r) /\ r.kind = "regenerate" => r.id \in v.raced BY <1>2, <1>5
<1>7. \A q \in v.sent : Plain(q) BY <1>5
<1> QED BY <1>3, <1>5, <1>6, <1>7, KeepingAnswer

-----------------------------------------------------------------------------
(* The server. *)

LEMMA LeastOf ==
    ASSUME NEW S, S \subseteq Nat, S # {}
    PROVE  \E n \in S : \A m \in S : n <= m
<1> DEFINE R == {x \in Nat \X Nat : x[1] < x[2]}
<1>1. IsWellFoundedOn(OpToRel(<, Nat), Nat) BY NatLessThanWellFounded
<1>2. OpToRel(<, Nat) = R BY DEF OpToRel
<1>3. IsWellFoundedOn(R, Nat) BY <1>1, <1>2
<1>4. PICK n \in S : \A m \in S : ~ <<m, n>> \in R
    <2> HIDE DEF R
    <2> QED BY <1>3, WFMin
<1>5. ASSUME NEW m \in S PROVE n <= m
    <2>1. m \in Nat /\ n \in Nat OBVIOUS
    <2>2. ~ <<m, n>> \in R BY <1>4
    <2>3. ~(m < n) BY <2>1, <2>2
    <2> QED BY <2>1, <2>3
<1> QED BY <1>5

(* There is a newest of the codes. *)
Newest1(f, n, i) == i \in 1 .. n /\ \A j \in 1 .. n : f[j] <= f[i]

LEMMA GreatestOf ==
    ASSUME NEW n \in Nat \ {0}, NEW f \in [1 .. n -> Nat]
    PROVE  \E i \in 1 .. n : \A j \in 1 .. n : f[j] <= f[i]
<1> DEFINE Bad == {m \in 1 .. n : ~ \E i : Newest1(f, m, i)}
<1>1. Bad = {}
    <2> SUFFICES ASSUME Bad # {} PROVE FALSE
        OBVIOUS
    <2>1. Bad \subseteq Nat OBVIOUS
    <2>2. PICK m \in Bad : \A l \in Bad : m <= l
        <3> HIDE DEF Bad
        <3> QED BY <2>1, LeastOf
    <2>3. m \in 1 .. n /\ ~ \E i : Newest1(f, m, i) OBVIOUS
    <2>4. CASE m = 1
        <3>1. Newest1(f, 1, 1)
            <4>1. f[1] \in Nat OBVIOUS
            <4> QED BY <4>1 DEF Newest1
        <3> QED BY <2>3, <2>4, <3>1
    <2>5. CASE m # 1
        <3>1. m - 1 \in 1 .. n /\ ~(m <= m - 1) BY <2>3, <2>5
        <3>2. PICK i : Newest1(f, m - 1, i) BY <2>2, <3>1
        <3>3. i \in 1 .. m - 1 /\ i \in 1 .. m /\ m \in 1 .. m /\ (\A j \in 1 .. m - 1 : f[j] <= f[i])
              /\ (\A j \in 1 .. m : j \in 1 .. m - 1 \/ j = m)
            BY <2>3, <2>5, <3>2 DEF Newest1
        <3>4. \A j \in 1 .. m : f[j] \in Nat BY <2>3
        <3>5. CASE f[m] <= f[i]
            <4>1. Newest1(f, m, i) BY <3>3, <3>5 DEF Newest1
            <4> QED BY <2>3, <4>1
        <3>6. CASE ~(f[m] <= f[i])
            <4>1. \A j \in 1 .. m : f[j] <= f[m] BY <3>3, <3>4, <3>6
            <4>2. Newest1(f, m, m) BY <3>3, <4>1 DEF Newest1
            <4> QED BY <2>3, <4>2
        <3> QED BY <3>5, <3>6
    <2> QED BY <2>4, <2>5
<1>2. n \in 1 .. n OBVIOUS
<1>3. \E i : Newest1(f, n, i) BY <1>1, <1>2
<1> QED BY <1>3 DEF Newest1

LEMMA NewCodeIsNew ==
    ASSUME StoreOK, Ids # {}
    PROVE  NewCode \in Nat /\ NewCode # 0 /\ \A id \in Ids : upStore[id].code < NewCode
<1> DEFINE f == [id \in Ids |-> upStore[id].code]
           c == CHOOSE x \in CodesMade : \A d \in CodesMade : d <= x
<1>1. \A id \in Ids : upStore[id].code \in Nat BY DEF StoreOK, UpStored
<1>2. UpSessions \in Nat \ {0} /\ f \in [1 .. UpSessions -> Nat] BY <1>1, UpBounds DEF Ids
<1>3. PICK i \in 1 .. UpSessions : \A j \in 1 .. UpSessions : f[j] <= f[i]
    <2> HIDE DEF f
    <2> QED BY <1>2, GreatestOf
<1>4. f[i] \in CodesMade /\ \A d \in CodesMade : d <= f[i] BY <1>3 DEF CodesMade, Ids
<1>5. c \in CodesMade /\ \A d \in CodesMade : d <= c BY <1>4
<1>6. c \in Nat BY <1>1, <1>5 DEF CodesMade
<1>7. NewCode = 1 + c BY DEF NewCode
<1> HIDE DEF c
<1>8. ASSUME NEW id \in Ids PROVE upStore[id].code < NewCode
    <2>1. upStore[id].code \in CodesMade BY DEF CodesMade
    <2>2. upStore[id].code <= c BY <1>5, <2>1
    <2> QED BY <1>1, <1>6, <1>7, <2>2
<1> QED BY <1>6, <1>7, <1>8

(* What leaves every session its code. *)
LEMMA SameCodes ==
    ASSUME UpInv, NEW r \in upReqs, ~r.done, NEW t, Plain(t), upReqs' = (upReqs \ {r}) \cup {t}, up' = up,
           StoreOK', Made' = Made, \A id \in Ids : upStore'[id].code = upStore[id].code
    PROVE  UpInv'
<1> DEFINE after == (upReqs \ {r}) \cup {t}
<1>1. \A q \in after : q \in upReqs \/ Plain(q) OBVIOUS
<1>2. \A q \in upReqs : q \in after \/ (Coded(q) /\ q.kind = "regenerate" => q.id \in up.raced) BY DEF Coded
<1>3. up \in UpPage /\ Kept(up, up) /\ up.buttons \subseteq Made BY DEF UpInv, CodesInv, PageOK, Kept
<1> HIDE DEF after
<1>4. CodesInv(up, after) BY <1>1, <1>2, <1>3, KeepsCodes DEF UpInv
<1>5. upReqs' = after BY DEF after
<1>6. PageOK(up)' BY <1>4 DEF CodesInv, PageOK
<1>7. \A q \in after : UpReqOK(q)'
    <2> SUFFICES ASSUME NEW q \in after PROVE UpReqOK(q)'
        OBVIOUS
    <2>1. UpReqOK(q) BY <1>4 DEF CodesInv
    <2>2. q.id \in Made => q.id \in Ids BY DEF Made
    <2> QED BY <2>1, <2>2 DEF UpReqOK
<1>8. NewestKnown(up, upReqs)' BY <1>4, <1>5 DEF CodesInv, NewestKnown
<1>9. Unrenewed(up, upReqs)'
    <2>1. Made \subseteq Ids BY DEF Made
    <2> QED BY <1>4, <1>5, <2>1 DEF CodesInv, Unrenewed
<1>10. CodesInv(up, upReqs)' BY <1>5, <1>6, <1>7, <1>8, <1>9 DEF CodesInv
<1> QED BY <1>10 DEF UpInv

(* A session that is new, with the first of its codes. *)
LEMMA CreateInv ==
    ASSUME UpInv, NEW r \in upReqs, ~r.done, NEW id \in Ids, id = Cardinality(Made) + 1,
           upStore' = Creates(id, NewCode), up' = up,
           NEW t \in UpReq, Coded(t), t.kind = "create", t.id = id, t.code = NewCode, DOMAIN t.list \subseteq Made,
           upReqs' = (upReqs \ {r}) \cup {t}
    PROVE  UpInv'
<1>1. /\ NewCode \in Nat /\ NewCode # 0 /\ \A j \in Ids : upStore[j].code < NewCode
    BY NewCodeIsNew DEF UpInv
<1>2. id \notin Made /\ \E n \in 0 .. UpSessions : Made \cup {id} = 1 .. n
    <2>1. PICK n \in 0 .. UpSessions : Made = 1 .. n BY DEF UpInv, StoreOK
    <2>2. n \in Nat BY <2>1, UpBounds
    <2>3. Cardinality(1 .. n) = n BY <2>2, FS_Interval
    <2>4. id = n + 1 BY <2>1, <2>3
    <2>5. n + 1 \in 0 .. UpSessions BY <2>2, <2>4, UpBounds DEF Ids
    <2>6. (1 .. n) \cup {n + 1} = 1 .. n + 1 /\ n + 1 \notin 1 .. n BY <2>2
    <2> QED BY <2>1, <2>4, <2>5, <2>6
<1>3. /\ upStore' \in UpStored /\ upStore'[id].code = NewCode /\ upStore'[id].status = "open"
      /\ \A j \in Ids : j # id => upStore'[j] = upStore[j]
    <2>1. upStore \in UpStored BY DEF UpInv, StoreOK
    <2>2. [status |-> "open", code |-> NewCode, n |-> 0] \in [status : {"none", "open", "closed", "gone"}, code : Nat, n : Nat]
        BY <1>1
    <2> QED BY <2>1, <2>2 DEF Creates, UpStored
<1>4. Made' = Made \cup {id} /\ Made \subseteq Ids BY <1>3 DEF Made
<1>5. StoreOK' BY <1>1, <1>2, <1>3, <1>4 DEF UpInv, StoreOK
<1>6. /\ up \in UpPage /\ up.seen \in [Ids -> Nat] /\ up.sent = {} /\ upStore[id].code = 0 /\ up.seen[id] = 0 /\ up.stash[id] = 0
      /\ up.reveal.id = id => up.reveal.code = 0
      /\ up.poster.id = id => up.poster.code = 0
    <2>1. up \in UpPage /\ up.seen \in [Ids -> Nat] /\ up.sent = {} BY DEF UpInv, CodesInv, PageOK, UpPage
    <2>2. upStore[id].code = 0 BY <1>2 DEF UpInv, StoreOK
    <2>3. up.seen[id] <= 0 /\ up.seen[id] \in Nat BY <2>1, <2>2 DEF UpInv, CodesInv, PageOK
    <2>4. up.seen[id] = 0 BY <2>3
    <2> QED BY <1>2, <2>1, <2>2, <2>4 DEF UpInv, CodesInv, PageOK
<1>7. \A q \in upReqs : Coded(q) => q.id # id BY <1>2 DEF UpInv, CodesInv, UpReqOK
<1>8. PageOK(up)'
    <2>1. \A j \in Ids : up.seen[j] <= upStore'[j].code /\ (j \notin Made' => up.stash[j] = 0)
        BY <1>1, <1>3, <1>4, <1>6 DEF UpInv, CodesInv, PageOK
    <2> QED BY <1>4, <2>1 DEF UpInv, CodesInv, PageOK
<1>9. \A q \in upReqs' : UpReqOK(q)'
    <2> SUFFICES ASSUME NEW q \in upReqs' PROVE UpReqOK(q)'
        OBVIOUS
    <2>1. CASE q = t BY <1>1, <1>3, <1>4, <2>1 DEF UpReqOK, Coded
    <2>2. CASE q # t
        <3>1. UpReqOK(q) /\ q \in upReqs BY <2>2 DEF UpInv, CodesInv
        <3>2. Coded(q) => q.id \in Ids /\ q.id # id BY <1>4, <1>7, <3>1 DEF UpReqOK
        <3> QED BY <1>3, <1>4, <3>1, <3>2 DEF UpReqOK
    <2> QED BY <2>1, <2>2
<1>10. NewestKnown(up, upReqs)'
    <2> SUFFICES ASSUME NEW j \in Ids \ up.raced
                 PROVE  \/ up.seen[j] = upStore'[j].code
                        \/ \E q \in upReqs' : Coded(q) /\ q.kind = "regenerate" /\ q.id = j /\ q.code = upStore'[j].code
                        \/ up.seen[j] = 0 /\ \A q \in upReqs' : Coded(q) /\ q.id = j => q.code = upStore'[j].code
        BY DEF NewestKnown
    <2>1. CASE j = id BY <1>3, <1>6, <1>7, <2>1
    <2>2. CASE j # id
        <3>1. upStore'[j] = upStore[j] BY <1>3, <2>2
        <3>2. \/ up.seen[j] = upStore[j].code
              \/ \E q \in upReqs : Coded(q) /\ q.kind = "regenerate" /\ q.id = j /\ q.code = upStore[j].code
              \/ up.seen[j] = 0 /\ \A q \in upReqs : Coded(q) /\ q.id = j => q.code = upStore[j].code
            BY DEF UpInv, CodesInv, NewestKnown
        <3>3. ~Coded(r) BY DEF Coded
        <3> QED BY <2>2, <3>1, <3>2, <3>3
    <2> QED BY <2>1, <2>2
<1>11. Unrenewed(up, upReqs)'
    <2> SUFFICES ASSUME NEW j \in Made' \ (up.renewed \cup up.raced)
                 PROVE  /\ \/ up.seen[j] = upStore'[j].code
                           \/ \A q \in upReqs' : Coded(q) /\ q.id = j => q.code = upStore'[j].code
                        /\ up.stash[j] = 0 \/ up.stash[j] = upStore'[j].code
                        /\ up.reveal.id = j /\ up.reveal.code # 0 => up.reveal.code = upStore'[j].code
                        /\ up.poster.id = j /\ up.poster.code # 0 => up.poster.code = upStore'[j].code
        BY DEF Unrenewed
    <2>1. CASE j = id BY <1>3, <1>6, <1>7, <2>1
    <2>2. CASE j # id
        <3>1. upStore'[j] = upStore[j] /\ j \in Made BY <1>3, <1>4, <2>2
        <3>2. /\ up.seen[j] = upStore[j].code \/ \A q \in upReqs : Coded(q) /\ q.id = j => q.code = upStore[j].code
              /\ up.stash[j] = 0 \/ up.stash[j] = upStore[j].code
              /\ up.reveal.id = j /\ up.reveal.code # 0 => up.reveal.code = upStore[j].code
              /\ up.poster.id = j /\ up.poster.code # 0 => up.poster.code = upStore[j].code
            BY <3>1 DEF UpInv, CodesInv, Unrenewed
        <3> QED BY <2>2, <3>1, <3>2
    <2> QED BY <2>1, <2>2
<1>12. CodesInv(up, upReqs)' BY <1>8, <1>9, <1>10, <1>11 DEF CodesInv
<1> QED BY <1>5, <1>6, <1>12 DEF UpInv

(* Another code for a session: the page has yet to hear of it. *)
LEMMA RegenerateInv ==
    ASSUME UpInv, NEW r \in upReqs, ~r.done, NEW id \in Ids, Exists(id),
           upStore' = Regenerates(id, NewCode), up' = [up EXCEPT !.renewed = @ \cup {id}],
           NEW t \in UpReq, Coded(t), t.kind = "regenerate", t.id = id, t.code = NewCode, DOMAIN t.list \subseteq Made,
           upReqs' = (upReqs \ {r}) \cup {t}
    PROVE  UpInv'
<1>1. /\ NewCode \in Nat /\ NewCode # 0 /\ \A j \in Ids : upStore[j].code < NewCode
    BY NewCodeIsNew DEF UpInv
<1>2. id \in Made BY DEF Exists, Made
<1>3. /\ upStore' \in UpStored /\ upStore'[id].code = NewCode /\ \A j \in Ids : upStore'[j].status = upStore[j].status
      /\ \A j \in Ids : j # id => upStore'[j] = upStore[j]
    <2>1. upStore \in UpStored BY DEF UpInv, StoreOK
    <2> QED BY <1>1, <2>1 DEF Regenerates, UpStored
<1>4. Made' = Made /\ Made \subseteq Ids BY <1>3 DEF Made
<1>5. StoreOK' BY <1>1, <1>2, <1>3, <1>4 DEF UpInv, StoreOK
<1>6. /\ up \in UpPage /\ up' \in UpPage /\ up'.renewed = up.renewed \cup {id} /\ up'.sent = {} /\ up'.buttons = up.buttons
      /\ up'.stash = up.stash /\ up'.poster = up.poster /\ up'.seen = up.seen /\ up'.raced = up.raced /\ up'.reveal = up.reveal
    BY DEF UpInv, CodesInv, PageOK, UpPage
<1>7. \A j \in Ids : upStore[j].code \in Nat /\ upStore[j].code <= upStore'[j].code
    <2>1. \A j \in Ids : upStore[j].code \in Nat BY DEF UpInv, StoreOK, UpStored
    <2> QED BY <1>1, <1>3, <2>1
<1>8. PageOK(up)'
    <2>1. \A j \in Ids : up.seen[j] <= upStore'[j].code
        <3>1. \A j \in Ids : up.seen[j] \in Nat /\ up.seen[j] <= upStore[j].code
            BY <1>6 DEF UpInv, CodesInv, PageOK, UpPage
        <3> SUFFICES ASSUME NEW j \in Ids PROVE up.seen[j] <= upStore'[j].code
            OBVIOUS
        <3>2. upStore'[j].code \in Nat BY <1>3 DEF UpStored
        <3> QED BY <1>7, <3>1, <3>2
    <2> QED BY <1>4, <1>6, <2>1 DEF UpInv, CodesInv, PageOK
<1>9. \A q \in upReqs' : UpReqOK(q)'
    <2> SUFFICES ASSUME NEW q \in upReqs' PROVE UpReqOK(q)'
        OBVIOUS
    <2>1. CASE q = t BY <1>1, <1>2, <1>3, <1>4, <2>1 DEF UpReqOK, Coded
    <2>2. CASE q # t
        <3>1. UpReqOK(q) BY <2>2 DEF UpInv, CodesInv
        <3>2. Coded(q) => q.code <= upStore'[q.id].code
            <4> SUFFICES ASSUME Coded(q) PROVE q.code <= upStore'[q.id].code
                OBVIOUS
            <4>1. q.id \in Ids /\ q.code \in Nat /\ q.code <= upStore[q.id].code BY <1>4, <3>1 DEF UpReqOK, UpReq
            <4>2. upStore'[q.id].code \in Nat BY <1>3, <4>1 DEF UpStored
            <4> QED BY <1>7, <4>1, <4>2
        <3> QED BY <1>4, <3>1, <3>2 DEF UpReqOK
    <2> QED BY <2>1, <2>2
<1>10. NewestKnown(up, upReqs)'
    <2> SUFFICES ASSUME NEW j \in Ids \ up.raced
                 PROVE  \/ up.seen[j] = upStore'[j].code
                        \/ \E q \in upReqs' : Coded(q) /\ q.kind = "regenerate" /\ q.id = j /\ q.code = upStore'[j].code
                        \/ up.seen[j] = 0 /\ \A q \in upReqs' : Coded(q) /\ q.id = j => q.code = upStore'[j].code
        BY <1>6 DEF NewestKnown
    <2>1. CASE j = id BY <1>3, <2>1
    <2>2. CASE j # id
        <3>1. upStore'[j] = upStore[j] BY <1>3, <2>2
        <3>2. \/ up.seen[j] = upStore[j].code
              \/ \E q \in upReqs : Coded(q) /\ q.kind = "regenerate" /\ q.id = j /\ q.code = upStore[j].code
              \/ up.seen[j] = 0 /\ \A q \in upReqs : Coded(q) /\ q.id = j => q.code = upStore[j].code
            BY DEF UpInv, CodesInv, NewestKnown
        <3>3. ~Coded(r) BY DEF Coded
        <3> QED BY <2>2, <3>1, <3>2, <3>3
    <2> QED BY <2>1, <2>2
<1>11. Unrenewed(up, upReqs)'
    <2> SUFFICES ASSUME NEW j \in Made \ (up.renewed \cup {id} \cup up.raced)
                 PROVE  /\ \/ up.seen[j] = upStore'[j].code
                           \/ \A q \in upReqs' : Coded(q) /\ q.id = j => q.code = upStore'[j].code
                        /\ up.stash[j] = 0 \/ up.stash[j] = upStore'[j].code
                        /\ up.reveal.id = j /\ up.reveal.code # 0 => up.reveal.code = upStore'[j].code
                        /\ up.poster.id = j /\ up.poster.code # 0 => up.poster.code = upStore'[j].code
        BY <1>4, <1>6 DEF Unrenewed
    <2>1. j # id /\ upStore'[j] = upStore[j] BY <1>3, <1>4
    <2>2. /\ up.seen[j] = upStore[j].code \/ \A q \in upReqs : Coded(q) /\ q.id = j => q.code = upStore[j].code
          /\ up.stash[j] = 0 \/ up.stash[j] = upStore[j].code
          /\ up.reveal.id = j /\ up.reveal.code # 0 => up.reveal.code = upStore[j].code
          /\ up.poster.id = j /\ up.poster.code # 0 => up.poster.code = upStore[j].code
        BY DEF UpInv, CodesInv, Unrenewed
    <2> QED BY <2>1, <2>2
<1>12. CodesInv(up, upReqs)' BY <1>8, <1>9, <1>10, <1>11 DEF CodesInv
<1> QED BY <1>5, <1>6, <1>12 DEF UpInv

LEMMA ReadDoes == ASSUME StoreOK PROVE ReadSessions \in Lists /\ DOMAIN ReadSessions \subseteq Made
<1> DEFINE S == {i \in Ids : Exists(i)}
<1>1. DOMAIN ReadSessions = S BY DEF ReadSessions
<1>2. \A i \in S : upStore[i].status \in {"open", "closed"} /\ i \in Made BY DEF Exists, Made
<1>3. ReadSessions \in [S -> {"open", "closed"}] BY <1>2 DEF ReadSessions
<1>4. S \in SUBSET Ids OBVIOUS
<1> QED BY <1>1, <1>2, <1>3, <1>4 DEF Lists

(* What every answer is. *)
AnswerTo(r, t, id, ok, code) ==
    /\ t \in UpReq /\ t.kind = r.kind /\ t.done /\ t.ok = ok /\ t.code = code /\ t.id = (IF ok THEN id ELSE r.id)
    /\ DOMAIN t.list \subseteq Made /\ (r.kind # "list" => t.list = r.list)

LEMMA AnswerIs ==
    ASSUME StoreOK, NEW r, UpReqOK(r), NEW id \in Nat, NEW ok \in BOOLEAN, NEW code \in Nat, ok => id \in {0} \cup Ids,
           NEW answer, answer = [r EXCEPT !.done = TRUE, !.ok = ok, !.code = code, !.id = IF ok THEN id ELSE r.id],
           NEW t, t = IF r.kind = "list" THEN [answer EXCEPT !.list = ReadSessions]
                      ELSE IF r.kind = "subs" /\ ok THEN [answer EXCEPT !.n = upStore[id].n] ELSE answer,
           r.kind = "subs" /\ ok => id \in Ids
    PROVE  AnswerTo(r, t, id, ok, code)
<1>1. r \in UpReq /\ DOMAIN r.list \subseteq Made BY DEF UpReqOK
<1> DEFINE to == IF ok THEN id ELSE r.id
<1>2. to \in {0} \cup Ids BY <1>1 DEF UpReq
<1>2a. to = IF ok THEN id ELSE r.id OBVIOUS
<1> HIDE DEF to
<1>3. answer \in UpReq /\ answer.kind = r.kind /\ answer.done /\ answer.ok = ok /\ answer.code = code /\ answer.id = to
      /\ answer.list = r.list
    BY <1>1, <1>2, <1>2a DEF UpReq
<1>4. CASE r.kind = "list"
    <2>1. t = [answer EXCEPT !.list = ReadSessions] BY <1>4
    <2>0. ReadSessions \in Lists BY ReadDoes
    <2>2. t \in UpReq /\ t.list = ReadSessions /\ t.kind = r.kind /\ t.done /\ t.ok = ok /\ t.code = code /\ t.id = to
        BY <1>3, <2>0, <2>1 DEF UpReq
    <2> QED BY <1>2a, <1>4, <2>2, ReadDoes DEF AnswerTo
<1>5. CASE r.kind = "subs" /\ ok
    <2>1. t = [answer EXCEPT !.n = upStore[id].n] BY <1>5
    <2>2. upStore[id].n \in Nat BY <1>5 DEF StoreOK, UpStored
    <2>3. t \in UpReq /\ t.list = r.list /\ t.kind = r.kind /\ t.done /\ t.ok = ok /\ t.code = code /\ t.id = to
        BY <1>3, <2>1, <2>2 DEF UpReq
    <2> QED BY <1>1, <1>2a, <2>3 DEF AnswerTo
<1>6. CASE r.kind # "list" /\ ~(r.kind = "subs" /\ ok)
    <2>1. t = answer BY <1>6
    <2> QED BY <1>1, <1>2a, <1>3, <2>1 DEF AnswerTo
<1> QED BY <1>4, <1>5, <1>6

LEMMA UpServeInv == UpInv /\ (\E r \in upReqs : UpServe(r)) => UpInv'
<1> SUFFICES ASSUME UpInv, NEW r \in upReqs, UpServe(r) PROVE UpInv'
    OBVIOUS
<1> DEFINE new == Cardinality(Made) + 1
           id == IF r.kind = "create" THEN new ELSE r.id
           ok == CASE r.kind = "list" -> TRUE [] r.kind = "create" -> new \in Ids [] OTHER -> Exists(id)
           code == IF ok /\ r.kind \in {"create", "regenerate"} THEN NewCode ELSE 0
           answer == [r EXCEPT !.done = TRUE, !.ok = ok, !.code = code, !.id = IF ok THEN id ELSE r.id]
           t == IF r.kind = "list" THEN [answer EXCEPT !.list = ReadSessions]
                ELSE IF r.kind = "subs" /\ ok THEN [answer EXCEPT !.n = upStore[id].n] ELSE answer
<1>1. ~r.done /\ upReqs' = (upReqs \ {r}) \cup {t} BY DEF UpServe
<1>2. upStore' = CASE ~ok \/ r.kind \in {"list", "subs"} -> upStore
                   [] ok /\ r.kind = "create" -> Creates(id, code)
                   [] ok /\ r.kind = "close" -> Closes(id)
                   [] ok /\ r.kind = "regenerate" -> Regenerates(id, code)
                   [] ok /\ r.kind = "delete" -> Removes(id)
    BY DEF UpServe
<1>3. up' = IF ok /\ r.kind = "regenerate" THEN [up EXCEPT !.renewed = @ \cup {id}] ELSE up
    BY DEF UpServe
<1>4. /\ StoreOK /\ UpReqOK(r) /\ r \in UpReq /\ r.kind \in UpKinds /\ r.id \in {0} \cup Ids
    BY DEF UpInv, CodesInv, UpReqOK, UpReq
<1>5. Made \subseteq Ids /\ \E n \in 0 .. UpSessions : Made = 1 .. n BY <1>4 DEF StoreOK, Made
<1>6. Cardinality(Made) \in Nat
    <2>1. PICK n \in 0 .. UpSessions : Made = 1 .. n BY <1>5
    <2>2. n \in Nat BY UpBounds
    <2>3. Cardinality(1 .. n) = n BY <2>2, FS_Interval
    <2> QED BY <2>1, <2>2, <2>3
<1>7. id \in Nat /\ ok \in BOOLEAN
    <2>1. id \in Nat
        <3>0. {0} \cup Ids \subseteq Nat BY UpBounds
        <3>1. r.id \in Nat BY <1>4, <3>0
        <3>2. new \in Nat BY <1>6
        <3> HIDE DEF new
        <3> QED BY <3>1, <3>2
    <2>2. CASE r.kind = "list" BY <2>1, <2>2
    <2>3. CASE r.kind = "create"
        <3>1. ok = (new \in Ids) BY <2>3
        <3> HIDE DEF ok
        <3> QED BY <2>1, <3>1
    <2>4. CASE r.kind \notin {"list", "create"}
        <3>1. ok = Exists(id) BY <2>4
        <3>2. Exists(id) \in BOOLEAN BY DEF Exists
        <3> QED BY <2>1, <3>1, <3>2
    <2> QED BY <2>2, <2>3, <2>4
<1>8. r.kind = "create" => id = new /\ (ok <=> id \in Ids) OBVIOUS
<1>9. r.kind \in {"subs", "close", "regenerate", "delete"} => id = r.id /\ (ok => id \in Ids /\ Exists(id))
    BY <1>4 DEF Exists
<1>10. r.kind = "list" => ok /\ id = r.id OBVIOUS
<1>11. ok => id \in {0} \cup Ids BY <1>4, <1>8, <1>9, <1>10 DEF UpKinds
<1>12. /\ ok /\ r.kind \in {"create", "regenerate"} => code = NewCode
       /\ ~(ok /\ r.kind \in {"create", "regenerate"}) => code = 0
    OBVIOUS
<1>13. code \in Nat
    <2>1. CASE ok /\ r.kind \in {"create", "regenerate"}
        <3>1. Ids # {} BY <1>8, <1>9, <2>1
        <3> QED BY <1>4, <1>12, <2>1, <3>1, NewCodeIsNew
    <2>2. CASE ~(ok /\ r.kind \in {"create", "regenerate"}) BY <1>12, <2>2
    <2> QED BY <2>1, <2>2
<1> HIDE DEF ok, id, code
<1>14. AnswerTo(r, t, id, ok, code)
    <2> DEFINE T == t
               A == answer
    <2>1. A = [r EXCEPT !.done = TRUE, !.ok = ok, !.code = code, !.id = IF ok THEN id ELSE r.id] OBVIOUS
    <2>2. T = IF r.kind = "list" THEN [A EXCEPT !.list = ReadSessions]
              ELSE IF r.kind = "subs" /\ ok THEN [A EXCEPT !.n = upStore[id].n] ELSE A
        OBVIOUS
    <2>3. r.kind = "subs" /\ ok => id \in Ids BY <1>9
    <2> HIDE DEF A, T
    <2>4. AnswerTo(r, T, id, ok, code)
        BY <1>4, <1>7, <1>11, <1>13, <2>1, <2>2, <2>3, AnswerIs
    <2> QED BY <2>4 DEF T
<1> HIDE DEF t, answer
<1>15. t \in UpReq /\ t.kind = r.kind /\ t.done /\ t.ok = ok /\ t.code = code /\ (ok => t.id = id) /\ (~ok => t.id = r.id)
       /\ DOMAIN t.list \subseteq Made
    BY <1>14 DEF AnswerTo
<1>16. CASE ok /\ r.kind = "create"
    <2>1. upStore' = Creates(id, NewCode) /\ up' = up BY <1>2, <1>3, <1>12, <1>16
    <2>2. Coded(t) /\ t.kind = "create" /\ t.id = id /\ t.code = NewCode BY <1>12, <1>15, <1>16 DEF Coded
    <2>3. id \in Ids /\ id = Cardinality(Made) + 1 BY <1>8, <1>16
    <2> QED BY <1>1, <1>15, <2>1, <2>2, <2>3, CreateInv
<1>17. CASE ok /\ r.kind = "regenerate"
    <2>1. upStore' = Regenerates(id, NewCode) /\ up' = [up EXCEPT !.renewed = @ \cup {id}] BY <1>2, <1>3, <1>12, <1>17
    <2>2. Coded(t) /\ t.kind = "regenerate" /\ t.id = id /\ t.code = NewCode BY <1>12, <1>15, <1>17 DEF Coded
    <2>3. id \in Ids /\ Exists(id) BY <1>9, <1>17
    <2> QED BY <1>1, <1>15, <2>1, <2>2, <2>3, RegenerateInv
<1>18. CASE ~(ok /\ r.kind \in {"create", "regenerate"})
    <2>1. Plain(t)
        <3>1. r.kind = "regenerate" => r.id \in Made BY <1>4 DEF UpReqOK
        <3> QED BY <1>15, <1>18, <3>1 DEF Plain, Coded
    <2>2. up' = up BY <1>3, <1>18
    <2>3. /\ upStore' \in UpStored
          /\ \A j \in Ids : upStore'[j].code = upStore[j].code
                            /\ (upStore'[j].status # "none" <=> upStore[j].status # "none")
        <3>0. upStore \in UpStored BY <1>4 DEF StoreOK
        <3>1. CASE ~ok \/ r.kind \in {"list", "subs"} BY <1>2, <3>0, <3>1
        <3>2. CASE ok /\ r.kind = "close"
            <4>1. upStore' = [upStore EXCEPT ![id].status = "closed"] BY <1>2, <3>2 DEF Closes
            <4>2. id \in Ids /\ upStore[id].status # "none" BY <1>9, <3>2 DEF Exists
            <4> QED BY <3>0, <4>1, <4>2 DEF UpStored
        <3>3. CASE ok /\ r.kind = "delete"
            <4>1. upStore' = [upStore EXCEPT ![id].status = "gone"] BY <1>2, <3>3 DEF Removes
            <4>2. id \in Ids /\ upStore[id].status # "none" BY <1>9, <3>3 DEF Exists
            <4> QED BY <3>0, <4>1, <4>2 DEF UpStored
        <3> QED BY <1>4, <1>18, <3>1, <3>2, <3>3 DEF UpKinds
    <2>4. Made' = Made BY <2>3 DEF Made
    <2>5. StoreOK' BY <1>4, <2>3, <2>4 DEF StoreOK
    <2> QED BY <1>1, <2>1, <2>2, <2>3, <2>4, <2>5, SameCodes
<1> QED BY <1>16, <1>17, <1>18

LEMMA SubmitInv == UpInv /\ (\E id \in Ids : Submit(id)) => UpInv'
<1> SUFFICES ASSUME UpInv, NEW id \in Ids, Submit(id) PROVE UpInv'
    OBVIOUS
<1>1. /\ upStore \in UpStored /\ upStore' = [upStore EXCEPT ![id].n = @ + 1] /\ up' = up /\ upReqs' = upReqs
    BY DEF UpInv, StoreOK, Submit
<1>2. /\ upStore' \in UpStored
      /\ \A j \in Ids : upStore'[j].code = upStore[j].code /\ upStore'[j].status = upStore[j].status
    <2>1. upStore[id].n + 1 \in Nat BY <1>1 DEF UpStored
    <2>2. upStore' = [upStore EXCEPT ![id].n = upStore[id].n + 1] BY <1>1 DEF UpStored
    <2> QED BY <1>1, <2>1, <2>2 DEF UpStored
<1>3. Made' = Made /\ Made \subseteq Ids BY <1>2 DEF Made
<1>4. StoreOK' BY <1>2, <1>3 DEF UpInv, StoreOK
<1>5. PageOK(up)' BY <1>1, <1>2, <1>3 DEF UpInv, CodesInv, PageOK
<1>6. \A q \in upReqs : UpReqOK(q)'
    <2> SUFFICES ASSUME NEW q \in upReqs PROVE UpReqOK(q)'
        OBVIOUS
    <2>1. UpReqOK(q) BY DEF UpInv, CodesInv
    <2> QED BY <1>2, <1>3, <2>1 DEF UpReqOK
<1>7. NewestKnown(up, upReqs)' BY <1>1, <1>2 DEF UpInv, CodesInv, NewestKnown
<1>8. Unrenewed(up, upReqs)' BY <1>1, <1>2, <1>3 DEF UpInv, CodesInv, Unrenewed
<1> QED BY <1>1, <1>4, <1>5, <1>6, <1>7, <1>8 DEF UpInv, CodesInv

LEMMA UpStillInv == UpInv /\ UNCHANGED upVars => UpInv'
BY DEF upVars, UpInv, StoreOK, Made, CodesInv, PageOK, UpReqOK, NewestKnown, Unrenewed

-----------------------------------------------------------------------------
(* At the start, the sessions there are have codes that are all stashed. *)
LEMMA UpInitInv == UpInit => UpInv
<1> SUFFICES ASSUME UpInit PROVE UpInv
    OBVIOUS
<1>1. PICK there \in BOOLEAN :
        upStore = [id \in Ids |-> [status |-> IF there THEN "open" ELSE "none", code |-> IF there THEN id ELSE 0, n |-> 0]]
    <2>1. CASE upStore = [id \in Ids |-> [status |-> "none", code |-> 0, n |-> 0]] BY <2>1
    <2>2. CASE upStore = [id \in Ids |-> [status |-> "open", code |-> id, n |-> 0]] BY <2>2
    <2> QED BY <2>1, <2>2 DEF UpInit
<1>2. /\ upStore \in UpStored
      /\ \A id \in Ids : upStore[id].code = (IF there THEN id ELSE 0)
                         /\ upStore[id].status = (IF there THEN "open" ELSE "none")
    BY <1>1, UpBounds DEF UpStored
<1>3. Made = IF there THEN Ids ELSE {} BY <1>2 DEF Made
<1>4. StoreOK
    <2>1. UpSessions \in 0 .. UpSessions /\ 0 \in 0 .. UpSessions /\ 1 .. 0 = {} BY UpBounds
    <2>2. \E n \in 0 .. UpSessions : Made = 1 .. n BY <1>3, <2>1 DEF Ids
    <2> QED BY <1>2, <1>3, <2>2, UpBounds DEF StoreOK
<1>5. /\ up.list = <<>> /\ up.buttons = {} /\ up.dash = 0 /\ up.timer = FALSE /\ up.rows = NoRows
      /\ up.reveal.id = 0 /\ up.reveal.code = 0 /\ up.reveal.open = FALSE /\ up.stash = [id \in Ids |-> upStore[id].code]
      /\ up.poster.id = 0 /\ up.poster.code = 0 /\ up.renewed = {} /\ up.raced = {}
      /\ up.seen = [id \in Ids |-> 0] /\ up.sent = {} /\ up.clicks = 0
    BY DEF UpInit
<1>6. up \in UpPage
    <2>1. <<>> \in Lists BY NoList
    <2>2. NoRows \in [of : {0} \cup Ids, n : Nat] BY DEF NoRows
    <2>3. [id \in Ids |-> upStore[id].code] \in [Ids -> Nat] BY <1>2 DEF UpStored
    <2>4. [id \in Ids |-> 0] \in [Ids -> Nat] OBVIOUS
    <2>5. [id |-> 0, code |-> 0, open |-> FALSE] \in [id : {0} \cup Ids, code : Nat, open : BOOLEAN] OBVIOUS
    <2>6. [id |-> 0, code |-> 0] \in [id : {0} \cup Ids, code : Nat] OBVIOUS
    <2> QED BY <2>1, <2>2, <2>3, <2>4, <2>5, <2>6 DEF UpInit, UpPage
<1>7. PageOK(up)
    <2>1. \A id \in Ids : upStore[id].code \in Nat /\ up.seen[id] = 0 /\ up.stash[id] = upStore[id].code
        BY <1>2, <1>5 DEF UpStored
    <2>2. \A id \in Ids : up.seen[id] <= upStore[id].code BY <2>1
    <2> QED BY <1>2, <1>3, <1>5, <1>6, <2>1, <2>2 DEF PageOK
<1>8. \A r \in upReqs : UpReqOK(r) /\ ~Coded(r)
    <2>1. Plain(UpRequest("list", 0, 0)) BY RequestPlain DEF UpKinds
    <2>2. UpReqOK(UpRequest("list", 0, 0)) BY <2>1 DEF Plain, UpReqOK
    <2> QED BY <2>1, <2>2 DEF UpInit, Plain
<1>9. NewestKnown(up, upReqs) BY <1>5, <1>8 DEF NewestKnown
<1>10. Unrenewed(up, upReqs)
    <2>1. \A id \in Made : id \in Ids /\ up.stash[id] = upStore[id].code BY <1>5 DEF Made
    <2> QED BY <1>5, <1>8, <2>1 DEF Unrenewed
<1> QED BY <1>4, <1>5, <1>7, <1>8, <1>9, <1>10 DEF UpInv, CodesInv

LEMMA UpNextInv == UpInv /\ [UpNext]_upVars => UpInv'
BY UpAdminInv, DashTickInv, SubmitInv, UpServeInv, UpArrivesInv, UpLostInv, UpStillInv DEF UpNext

(* Where the page knows the newest code it shows it. *)
LEMMA UpInvTells == UpInv => CodesTell
<1> SUFFICES ASSUME UpInv PROVE CodesTell
    OBVIOUS
<1>1. CodeIsValid
    <2> SUFFICES ASSUME up.reveal.code # 0, up.reveal.id \notin up.raced
                 PROVE  \/ up.reveal.code = upStore[up.reveal.id].code
                        \/ \E r \in upReqs : r.kind = "regenerate" /\ r.id = up.reveal.id
        BY DEF CodeIsValid
    <2>1. up.reveal.id \in Ids /\ up.reveal.code = up.seen[up.reveal.id] BY DEF UpInv, CodesInv, PageOK, Made
    <2> QED BY <2>1 DEF UpInv, CodesInv, NewestKnown
<1>2. PosterTells
    <2>1. up.poster.code # 0 => up.poster.id \in Made BY DEF UpInv, CodesInv, PageOK
    <2> QED BY <2>1 DEF UpInv, CodesInv, Unrenewed, PosterTells
<1> QED BY <1>1, <1>2 DEF CodesTell

(* Whatever order the answers with codes come in, and whichever are lost:   *)
(* the popup shows the code the server takes unless another is on its way,  *)
(* and a poster a code that is still valid unless a newer one was made.     *)
THEOREM CodesAlwaysTell == UpSpec => []CodesTell
<1>1. UpInit => UpInv BY UpInitInv
<1>2. UpInv /\ [UpNext]_upVars => UpInv' BY UpNextInv
<1>3. UpInv => CodesTell BY UpInvTells
<1> QED BY <1>1, <1>2, <1>3, PTL DEF UpSpec

-----------------------------------------------------------------------------
(* The types of the upload page. *)

UpLooks(u) ==
    /\ u.timer <=> u.dash # 0
    /\ u.buttons \subseteq DOMAIN u.list /\ u.rows.n <= UpUploads /\ u.clicks <= UpClicks
    /\ \A id \in Ids : u.stash[id] <= upStore[id].code
    /\ u.poster.id \in Ids => u.poster.code <= upStore[u.poster.id].code

(* Each code that was made came with a session or with a click; the clicks  *)
(* whose code is still to be made are not counted.                         *)
Renewing(reqs) == {r \in reqs : r.kind = "regenerate" /\ ~r.done}
CodesCounted ==
    \A id \in Ids : upStore[id].code + Cardinality(Renewing(upReqs)) <= Cardinality(Made) + up.clicks

UpMore ==
    /\ UpLooks(up) /\ IsFiniteSet(upReqs) /\ \A r \in upReqs : r.n <= UpUploads
    /\ \A id \in Ids : upStore[id].n <= UpUploads
    /\ CodesCounted

LEMMA MadeCounted ==
    ASSUME StoreOK
    PROVE  IsFiniteSet(Made) /\ Cardinality(Made) \in Nat /\ Cardinality(Made) <= UpSessions
<1>1. PICK n \in 0 .. UpSessions : Made = 1 .. n BY DEF StoreOK
<1>2. n \in Nat /\ n <= UpSessions BY UpBounds
<1>3. IsFiniteSet(1 .. n) /\ Cardinality(1 .. n) = n BY <1>2, FS_Interval
<1> QED BY <1>1, <1>2, <1>3

LEMMA UpTypesOfMore == ASSUME UpInv, UpMore PROVE UpTypeOK
<1>1. /\ up \in UpPage /\ upStore \in UpStored /\ PageOK(up) /\ UpLooks(up)
      /\ \A id \in Ids : upStore[id].n <= UpUploads
    BY DEF UpInv, StoreOK, CodesInv, PageOK, UpMore
<1>2. UpUploads \in Nat /\ UpClicks \in Nat /\ UpSessions \in Nat BY UpAssumption
<1> DEFINE top == UpClicks + UpSessions
<1>3. top \in Nat /\ Codes = 0 .. top BY <1>2 DEF Codes
<1>4. ASSUME NEW id \in Ids PROVE upStore[id].code \in Nat /\ upStore[id].code <= top
    <2>1. upStore[id].code \in Nat BY <1>1 DEF UpStored
    <2>2. Cardinality(Made) \in Nat /\ Cardinality(Made) <= UpSessions BY MadeCounted DEF UpInv
    <2>3. Renewing(upReqs) \subseteq upReqs BY DEF Renewing
    <2>4. Cardinality(Renewing(upReqs)) \in Nat BY <2>3, FS_Subset, FS_CardinalityType DEF UpMore
    <2>5. upStore[id].code + Cardinality(Renewing(upReqs)) <= Cardinality(Made) + up.clicks
        BY DEF UpMore, CodesCounted
    <2>6. up.clicks \in Nat /\ up.clicks <= UpClicks BY <1>1 DEF UpPage, UpLooks
    <2> QED BY <1>2, <2>1, <2>2, <2>4, <2>5, <2>6
<1> HIDE DEF top
<1>5. upStore \in [Ids -> [status : {"none", "open", "closed", "gone"}, code : Codes, n : 0 .. UpUploads]]
    <2>1. \A id \in Ids : upStore[id] \in [status : {"none", "open", "closed", "gone"}, code : Codes, n : 0 .. UpUploads]
        BY <1>1, <1>2, <1>3, <1>4 DEF UpStored
    <2> QED BY <1>1, <2>1 DEF UpStored
<1>6. up.rows \in [of : {0} \cup Ids, n : 0 .. UpUploads]
    BY <1>1, <1>2 DEF UpPage, UpLooks
<1>7. up.reveal \in [id : {0} \cup Ids, code : Codes, open : BOOLEAN]
    <2>1. up.reveal \in [id : {0} \cup Ids, code : Nat, open : BOOLEAN] BY <1>1 DEF UpPage
    <2>2. up.reveal.code # 0 => up.reveal.code <= top
        <3> SUFFICES ASSUME up.reveal.code # 0 PROVE up.reveal.code <= top OBVIOUS
        <3> DEFINE id == up.reveal.id
        <3>1. id \in Ids BY <1>1 DEF PageOK, Made
        <3>2. up.reveal.code <= up.seen[id] /\ up.seen[id] <= upStore[id].code BY <1>1, <3>1 DEF PageOK
        <3>3. up.seen[id] \in Nat BY <1>1, <3>1 DEF UpPage
        <3> QED BY <1>3, <1>4, <2>1, <3>1, <3>2, <3>3
    <2> QED BY <1>3, <2>1, <2>2
<1>8. up.stash \in [Ids -> Codes]
    <2>1. up.stash \in [Ids -> Nat] BY <1>1 DEF UpPage
    <2>2. \A id \in Ids : up.stash[id] \in Nat /\ up.stash[id] <= upStore[id].code BY <1>1, <2>1 DEF UpLooks
    <2>3. \A id \in Ids : up.stash[id] \in Codes BY <1>3, <1>4, <2>2
    <2> QED BY <2>1, <2>3
<1>9. up.poster \in [id : {0} \cup Ids, code : Codes]
    <2>1. up.poster \in [id : {0} \cup Ids, code : Nat] BY <1>1 DEF UpPage
    <2>2. CASE up.poster.id \in Ids
        <3>1. up.poster.code <= upStore[up.poster.id].code BY <1>1, <2>2 DEF UpLooks
        <3> QED BY <1>3, <1>4, <2>1, <2>2, <3>1
    <2>3. CASE up.poster.id \notin Ids
        <3>1. up.poster.code = 0 BY <1>1, <2>3 DEF PageOK, Made
        <3> QED BY <1>3, <2>1, <3>1
    <2> QED BY <2>2, <2>3
<1>10. up.dash \in {0} \cup Ids /\ up.timer \in BOOLEAN /\ up.buttons \subseteq DOMAIN up.list /\ (up.timer <=> up.dash # 0)
    BY <1>1 DEF UpPage, UpLooks
<1> QED BY <1>5, <1>6, <1>7, <1>8, <1>9, <1>10 DEF UpTypeOK

LEMMA UpInitMore == UpInit => UpMore
<1> SUFFICES ASSUME UpInit PROVE UpMore OBVIOUS
<1>1. /\ up.timer = FALSE /\ up.dash = 0 /\ up.buttons = {} /\ up.rows = NoRows /\ up.clicks = 0
      /\ up.stash = [id \in Ids |-> upStore[id].code] /\ up.poster.id = 0
      /\ upReqs = {UpRequest("list", 0, 0)}
    BY DEF UpInit
<1>2. UpUploads \in Nat /\ UpClicks \in Nat BY UpAssumption
<1>3. UpInv BY UpInitInv
<1>4. \A id \in Ids : upStore[id].n = 0 /\ upStore[id].code \in Nat
    BY <1>3 DEF UpInit, UpInv, StoreOK, UpStored
<1>5. UpLooks(up) BY <1>1, <1>2, <1>4, UpBounds DEF UpLooks, NoRows
<1>6. IsFiniteSet(upReqs) /\ Renewing(upReqs) = {} /\ \A r \in upReqs : r.n = 0
    <2>1. IsFiniteSet(upReqs) BY <1>1, FS_Singleton
    <2> QED BY <1>1, <2>1 DEF Renewing, UpRequest
<1>7. CodesCounted
    <2>1. Cardinality(Renewing(upReqs)) = 0 BY <1>6, FS_EmptySet
    <2>2. ASSUME NEW id \in Ids PROVE upStore[id].code <= Cardinality(Made)
        <3>1. Cardinality(Made) \in Nat BY <1>3, MadeCounted DEF UpInv
        <3>2. CASE upStore = [i \in Ids |-> [status |-> "none", code |-> 0, n |-> 0]] BY <3>1, <3>2
        <3>3. CASE upStore = [i \in Ids |-> [status |-> "open", code |-> i, n |-> 0]]
            <4>1. Made = 1 .. UpSessions BY <3>3 DEF Made, Ids
            <4>2. Cardinality(Made) = UpSessions BY <4>1, UpBounds, FS_Interval
            <4> QED BY <3>3, <4>2, UpBounds DEF Ids
        <3> QED BY <3>2, <3>3 DEF UpInit
    <2>3. Cardinality(Made) \in Nat BY <1>3, MadeCounted DEF UpInv
    <2> QED BY <1>1, <1>4, <2>1, <2>2, <2>3 DEF CodesCounted
<1> QED BY <1>2, <1>4, <1>5, <1>6, <1>7 DEF UpMore

(* What a handler sends is one request at most, and one for a code only      *)
(* after a click.                                                          *)
Sends(u) == \E q : u.sent \subseteq {q} /\ q.n = 0 /\ (q.kind = "regenerate" => up.clicks + 1 <= u.clicks)

LEMMA BecomesMore ==
    ASSUME UpInv, UpMore, NEW u \in UpPage, UpLooks(u), up.clicks <= u.clicks, Sends(u),
           NEW reqs \in SUBSET upReqs, UpBecomes(u, reqs), UNCHANGED upStore
    PROVE  UpMore'
<1>1. up' = [u EXCEPT !.sent = {}] /\ upReqs' = reqs \cup u.sent BY DEF UpBecomes
<1>2. /\ up'.timer = u.timer /\ up'.dash = u.dash /\ up'.buttons = u.buttons /\ up'.list = u.list /\ up'.rows = u.rows
      /\ up'.clicks = u.clicks /\ up'.stash = u.stash /\ up'.poster = u.poster
    BY <1>1 DEF UpPage
<1>3. UpLooks(up)' BY <1>2 DEF UpLooks
<1>4. PICK q : u.sent \subseteq {q} /\ q.n = 0 /\ (q.kind = "regenerate" => up.clicks + 1 <= u.clicks) BY DEF Sends
<1>5. IsFiniteSet(reqs) /\ reqs \subseteq upReqs /\ IsFiniteSet(upReqs) BY FS_Subset DEF UpMore
<1>6. upReqs' \subseteq reqs \cup {q} BY <1>1, <1>4
<1>7. IsFiniteSet(upReqs') BY <1>5, <1>6, FS_AddElement, FS_Subset
<1>8. UpUploads \in Nat BY UpAssumption
<1>9. \A r \in upReqs' : r.n <= UpUploads BY <1>4, <1>5, <1>6, <1>8 DEF UpMore
<1>10. CodesCounted'
    <2> DEFINE A == Renewing(upReqs)
               B == Renewing(upReqs')
               a == Cardinality(A)
               b == Cardinality(B)
               m == Cardinality(Made)
    <2>1. Made' = Made BY DEF Made
    <2>2. IsFiniteSet(A) /\ a \in Nat
        <3>1. A \subseteq upReqs BY DEF Renewing
        <3> QED BY <1>5, <3>1, FS_Subset, FS_CardinalityType
    <2>3. b \in Nat
        <3>1. B \subseteq upReqs' BY DEF Renewing
        <3> QED BY <1>7, <3>1, FS_Subset, FS_CardinalityType
    <2>4. up.clicks \in Nat /\ u.clicks \in Nat BY DEF UpInv, CodesInv, PageOK, UpPage
    <2>5. b - a <= u.clicks - up.clicks
        <3>1. CASE q.kind = "regenerate"
            <4>1. B \subseteq A \cup {q} BY <1>5, <1>6 DEF Renewing
            <4>2. IsFiniteSet(A \cup {q}) /\ (Cardinality(A \cup {q}) = a \/ Cardinality(A \cup {q}) = a + 1)
                BY <2>2, FS_AddElement
            <4>3. b <= Cardinality(A \cup {q}) BY <4>1, <4>2, FS_Subset
            <4> HIDE DEF a, b
            <4>4. b <= a + 1 BY <2>2, <2>3, <4>2, <4>3
            <4> QED BY <1>4, <2>2, <2>3, <2>4, <3>1, <4>4
        <3>2. CASE q.kind # "regenerate"
            <4>1. B \subseteq A BY <1>5, <1>6, <3>2 DEF Renewing
            <4>2. b <= a BY <2>2, <4>1, FS_Subset
            <4> HIDE DEF a, b
            <4> QED BY <2>2, <2>3, <2>4, <4>2
        <3> QED BY <3>1, <3>2
    <2>6. m \in Nat BY MadeCounted DEF UpInv
    <2>7. \A id \in Ids : upStore[id].code \in Nat /\ upStore[id].code + a <= m + up.clicks
        BY DEF UpInv, StoreOK, UpStored, UpMore, CodesCounted
    <2> HIDE DEF a, b, m
    <2>8. \A id \in Ids : upStore[id].code + b <= m + u.clicks BY <2>2, <2>3, <2>4, <2>5, <2>6, <2>7
    <2> QED BY <1>2, <2>1, <2>8 DEF CodesCounted, a, b, m
<1> QED BY <1>3, <1>7, <1>9, <1>10 DEF UpMore

LEMMA FetchesMore ==
    ASSUME UpInv, NEW u \in UpPage, UpLooks(u), u.sent = {}, NEW kind \in UpKinds, NEW id \in {0} \cup Ids,
           kind = "regenerate" => up.clicks + 1 <= u.clicks
    PROVE  LET v == Fetches(u, kind, id) IN UpLooks(v) /\ v.clicks = u.clicks /\ Sends(v)
<1> DEFINE q == UpRequest(kind, id, IF kind = "regenerate" THEN u.clicks ELSE 0)
           v == Fetches(u, kind, id)
<1>1. v = [u EXCEPT !.sent = u.sent \cup {q}] BY DEF Fetches, UpPage
<1>2. q.kind = kind /\ q.n = 0 BY DEF UpRequest
<1> HIDE DEF q, v
<1>3. /\ v.timer = u.timer /\ v.dash = u.dash /\ v.buttons = u.buttons /\ v.list = u.list /\ v.rows = u.rows
      /\ v.clicks = u.clicks /\ v.stash = u.stash /\ v.poster = u.poster /\ v.sent = {q}
    BY <1>1 DEF UpPage
<1>4. UpLooks(v) BY <1>3 DEF UpLooks
<1>5. Sends(v) BY <1>2, <1>3 DEF Sends
<1> QED BY <1>3, <1>4, <1>5 DEF v

LEMMA SilentMore == ASSUME NEW u, u.sent = {} PROVE Sends(u)
<1>1. UpRequest("list", 0, 0).n = 0 /\ UpRequest("list", 0, 0).kind # "regenerate" BY DEF UpRequest
<1> QED BY <1>1 DEF Sends

LEMMA RefreshMore ==
    ASSUME UpInv, NEW u \in UpPage, UpLooks(u), u.sent = {}
    PROVE  LET v == RefreshDash(u) IN UpLooks(v) /\ v.clicks = u.clicks /\ Sends(v)
<1>1. CASE u.dash = 0
    <2>1. RefreshDash(u) = u BY <1>1 DEF RefreshDash
    <2> QED BY <2>1, SilentMore
<1>2. CASE u.dash # 0
    <2>1. RefreshDash(u) = Fetches(u, "subs", u.dash) BY <1>2 DEF RefreshDash
    <2>2. "subs" \in UpKinds /\ "subs" # "regenerate" /\ u.dash \in {0} \cup Ids BY DEF UpKinds, UpPage
    <2> QED BY <2>1, <2>2, FetchesMore
<1> QED BY <1>1, <1>2

LEMMA ClickedMore ==
    ASSUME UpInv, UpMore, up.clicks < UpClicks
    PROVE  /\ Clicked \in UpPage /\ UpLooks(Clicked) /\ Clicked.clicks = up.clicks + 1 /\ Clicked.sent = {}
           /\ Clicked.list = up.list /\ Clicked.reveal = up.reveal /\ Clicked.stash = up.stash
           /\ up.clicks \in Nat /\ up.clicks <= Clicked.clicks
<1>1. up \in UpPage /\ up.sent = {} /\ UpLooks(up) BY DEF UpInv, CodesInv, PageOK, UpMore
<1>2. up.clicks \in Nat /\ UpClicks \in Nat BY <1>1, UpAssumption DEF UpPage
<1>3. Clicked = [up EXCEPT !.clicks = up.clicks + 1] BY <1>1 DEF Clicked, UpPage
<1>4. /\ Clicked \in UpPage /\ Clicked.clicks = up.clicks + 1 /\ Clicked.sent = {}
      /\ Clicked.timer = up.timer /\ Clicked.dash = up.dash /\ Clicked.buttons = up.buttons /\ Clicked.list = up.list
      /\ Clicked.rows = up.rows /\ Clicked.stash = up.stash /\ Clicked.poster = up.poster /\ Clicked.reveal = up.reveal
    BY <1>1, <1>2, <1>3 DEF UpPage
<1>5. UpLooks(Clicked) BY <1>1, <1>2, <1>4 DEF UpLooks
<1> QED BY <1>2, <1>4, <1>5

(* A click on the page that keeps to its types. *)
LEMMA ClickMore ==
    ASSUME UpInv, UpMore, NEW u \in UpPage, UpLooks(u), u.clicks = Clicked.clicks, Sends(u), UpClick(u)
    PROVE  UpMore'
<1>1. up.clicks < UpClicks /\ UpBecomes(u, upReqs) /\ UNCHANGED upStore BY DEF UpClick
<1>2. up.clicks <= u.clicks BY <1>1, ClickedMore
<1> QED BY <1>1, <1>2, BecomesMore

LEMMA OpenPosterMore ==
    ASSUME UpInv, UpMore, up.clicks < UpClicks, up.reveal.open
    PROVE  LET u == OpenPoster(Clicked) IN u \in UpPage /\ UpLooks(u) /\ u.clicks = Clicked.clicks /\ u.sent = {}
<1> DEFINE c == Clicked
           u == OpenPoster(c)
           id == up.reveal.id
           code == IF up.reveal.code # 0 THEN up.reveal.code ELSE up.stash[id]
           renewed == IF up.reveal.code = upStore[id].code THEN c.renewed \ {id} ELSE c.renewed
<1>1. c \in UpPage /\ UpLooks(c) /\ c.sent = {} /\ c.stash = up.stash /\ c.reveal = up.reveal /\ up \in UpPage
      /\ UpLooks(up)
    BY ClickedMore DEF UpInv, CodesInv, PageOK, UpMore
<1>2. id \in Made /\ id \in Ids BY DEF UpInv, CodesInv, PageOK, Made
<1>3. code \in Nat /\ code <= upStore[id].code
    <2>1. up.stash[id] \in Nat /\ up.stash[id] <= upStore[id].code BY <1>1, <1>2 DEF UpPage, UpLooks
    <2>2. CASE up.reveal.code # 0
        <3>1. up.reveal.code <= up.seen[id] /\ up.seen[id] <= upStore[id].code
            BY <1>2, <2>2 DEF UpInv, CodesInv, PageOK
        <3>2. up.reveal.code \in Nat /\ up.seen[id] \in Nat /\ upStore[id].code \in Nat
            BY <1>1, <1>2 DEF UpPage, UpInv, StoreOK, UpStored
        <3> QED BY <2>2, <3>1, <3>2
    <2> QED BY <2>1, <2>2
<1>4. renewed \in SUBSET Ids BY <1>1 DEF UpPage
<1> HIDE DEF c
<1>5. u = [c EXCEPT !.stash = [c.stash EXCEPT ![id] = code], !.poster = [id |-> id, code |-> code], !.renewed = renewed]
    BY <1>1 DEF OpenPoster, UpPage
<1> HIDE DEF u, code, renewed
<1>6. [c.stash EXCEPT ![id] = code] \in [Ids -> Nat] BY <1>1, <1>3 DEF UpPage
<1>7. [id |-> id, code |-> code] \in [id : {0} \cup Ids, code : Nat] BY <1>2, <1>3
<1>8. /\ u \in UpPage /\ u.clicks = c.clicks /\ u.sent = {}
      /\ u.timer = c.timer /\ u.dash = c.dash /\ u.buttons = c.buttons /\ u.list = c.list /\ u.rows = c.rows
      /\ u.stash = [c.stash EXCEPT ![id] = code] /\ u.poster.id = id /\ u.poster.code = code
    BY <1>1, <1>4, <1>5, <1>6, <1>7 DEF UpPage
<1>9. \A j \in Ids : u.stash[j] <= upStore[j].code
    <2> SUFFICES ASSUME NEW j \in Ids PROVE u.stash[j] <= upStore[j].code OBVIOUS
    <2>1. c.stash \in [Ids -> Nat] BY <1>1 DEF UpPage
    <2>2. CASE j = id BY <1>3, <1>8, <2>1, <2>2
    <2>3. CASE j # id BY <1>1, <1>8, <2>1, <2>3 DEF UpLooks
    <2> QED BY <2>2, <2>3
<1>10. UpLooks(u) BY <1>1, <1>3, <1>8, <1>9 DEF UpLooks
<1> QED BY <1>8, <1>10 DEF u, c

LEMMA UpAdminMore == ASSUME UpInv, UpMore, UpAdmin PROVE UpMore'
<1>0. up.clicks < UpClicks BY DEF UpAdmin, NewSession, SessionButton, DashButton, RevealButton, UpClick
<1> DEFINE c == Clicked
<1>1. /\ c \in UpPage /\ UpLooks(c) /\ c.clicks = up.clicks + 1 /\ c.sent = {} /\ up.clicks \in Nat
      /\ up.clicks + 1 <= c.clicks
    BY <1>0, ClickedMore
<1>2. \A q \in c.sent : Plain(q) BY <1>1
<1>3. up.buttons \subseteq Made /\ Made \subseteq Ids BY DEF UpInv, CodesInv, PageOK, Made
<1> HIDE DEF c
<1>4. ASSUME NEW kind \in UpKinds, NEW id \in {0} \cup Ids, kind = "regenerate" => id \in Made,
             UpClick(Fetches(c, kind, id))
      PROVE  UpMore'
    <2> DEFINE u == Fetches(c, kind, id)
    <2>1. u \in UpPage BY <1>1, <1>2, <1>4, FetchesDo
    <2>2. UpLooks(u) /\ u.clicks = c.clicks /\ Sends(u) BY <1>1, FetchesMore
    <2>3. UpClick(u) BY <1>4
    <2> HIDE DEF u
    <2> QED BY <2>1, <2>2, <2>3, ClickMore DEF c
<1>5. ASSUME NEW u \in UpPage, UpLooks(u), u.clicks = c.clicks, u.sent = {}, UpClick(u) PROVE UpMore'
    BY <1>5, ClickMore, SilentMore DEF c
<1>6. CASE NewSession
    <2>1. UpClick(Fetches(c, "create", 0)) /\ "create" \in UpKinds BY <1>6 DEF NewSession, UpKinds, c
    <2> QED BY <1>4, <2>1
<1>7. CASE SessionButton
    <2>1. PICK id \in up.buttons :
              \/ UpClick(ShowDashboard(c, id))
              \/ UpClick(ShowReveal(c, id, 0))
              \/ UpClick(Fetches(c, "close", id))
              \/ \E kind \in {"regenerate", "delete"} : UpClick(Fetches(c, kind, id))
        BY <1>7 DEF SessionButton, c
    <2>2. id \in Made /\ id \in Ids /\ id # 0 BY <1>3, UpBounds
    <2>3. CASE UpClick(ShowDashboard(c, id))
        <3> DEFINE d == [c EXCEPT !.dash = id, !.timer = TRUE]
        <3>1. CASE id \notin DOMAIN c.list
            <4>1. ShowDashboard(c, id) = c BY <3>1 DEF ShowDashboard
            <4> QED BY <1>1, <1>5, <2>3, <4>1
        <3>2. CASE id \in DOMAIN c.list
            <4>1. ShowDashboard(c, id) = RefreshDash(d) BY <3>2 DEF ShowDashboard
            <4>2. /\ d \in UpPage /\ d.timer = TRUE /\ d.dash = id /\ d.buttons = c.buttons /\ d.list = c.list
                  /\ d.rows = c.rows /\ d.clicks = c.clicks /\ d.stash = c.stash /\ d.poster = c.poster /\ d.sent = {}
                BY <1>1, <2>2 DEF UpPage
            <4> HIDE DEF d
            <4>3. UpLooks(d) BY <1>1, <2>2, <4>2 DEF UpLooks
            <4>4. LET v == RefreshDash(d) IN UpLooks(v) /\ v.clicks = d.clicks /\ Sends(v) BY <4>2, <4>3, RefreshMore
            <4>5. RefreshDash(d) \in UpPage BY <4>2, RefreshDo
            <4> QED BY <2>3, <4>1, <4>2, <4>4, <4>5, ClickMore DEF c
        <3> QED BY <3>1, <3>2
    <2>4. CASE UpClick(ShowReveal(c, id, 0))
        <3> DEFINE u == ShowReveal(c, id, 0)
        <3>1. u = [c EXCEPT !.reveal = [id |-> id, code |-> 0, open |-> TRUE]] BY DEF ShowReveal
        <3>1a. UpClick(u) BY <2>4
        <3> HIDE DEF u
        <3>2. /\ u \in UpPage /\ u.timer = c.timer /\ u.dash = c.dash /\ u.buttons = c.buttons /\ u.list = c.list
              /\ u.rows = c.rows /\ u.clicks = c.clicks /\ u.stash = c.stash /\ u.poster = c.poster /\ u.sent = {}
            BY <1>1, <2>2, <3>1 DEF UpPage
        <3>3. UpLooks(u) BY <1>1, <3>2 DEF UpLooks
        <3> QED BY <1>5, <3>1a, <3>2, <3>3
    <2>5. CASE UpClick(Fetches(c, "close", id))
        <3>1. "close" \in UpKinds BY DEF UpKinds
        <3> QED BY <1>4, <2>2, <2>5, <3>1
    <2>6. CASE \E kind \in {"regenerate", "delete"} : UpClick(Fetches(c, kind, id))
        <3>1. PICK kind \in {"regenerate", "delete"} : UpClick(Fetches(c, kind, id)) BY <2>6
        <3>2. kind \in UpKinds BY DEF UpKinds
        <3> QED BY <1>4, <2>2, <3>1, <3>2
    <2> QED BY <2>1, <2>3, <2>4, <2>5, <2>6
<1>8. CASE DashButton
    <2> DEFINE u == CloseDash(c)
    <2>1. u = [c EXCEPT !.dash = 0, !.timer = FALSE] /\ UpClick(u) BY <1>8 DEF CloseDash, DashButton, c
    <2> HIDE DEF u
    <2>2. /\ u \in UpPage /\ u.timer = FALSE /\ u.dash = 0 /\ u.buttons = c.buttons /\ u.list = c.list
          /\ u.rows = c.rows /\ u.clicks = c.clicks /\ u.stash = c.stash /\ u.poster = c.poster /\ u.sent = {}
        BY <1>1, <2>1 DEF UpPage
    <2>3. UpLooks(u) BY <1>1, <2>2 DEF UpLooks
    <2> QED BY <1>5, <2>1, <2>2, <2>3
<1>9. CASE up.reveal.open /\ UpClick(CloseReveal(c))
    <2> DEFINE u == CloseReveal(c)
    <2>1. u = [c EXCEPT !.reveal = [c.reveal EXCEPT !.open = FALSE]] BY <1>1 DEF CloseReveal, UpPage
    <2>1a. UpClick(u) BY <1>9
    <2> HIDE DEF u
    <2>2. /\ u \in UpPage /\ u.timer = c.timer /\ u.dash = c.dash /\ u.buttons = c.buttons /\ u.list = c.list
          /\ u.rows = c.rows /\ u.clicks = c.clicks /\ u.stash = c.stash /\ u.poster = c.poster /\ u.sent = {}
        BY <1>1, <2>1 DEF UpPage
    <2>3. UpLooks(u) BY <1>1, <2>2 DEF UpLooks
    <2> QED BY <1>5, <2>1a, <2>2, <2>3
<1>10. CASE up.reveal.open /\ UpClick(OpenPoster(c))
    BY <1>0, <1>5, <1>10, OpenPosterMore DEF c
<1> QED BY <1>6, <1>7, <1>8, <1>9, <1>10 DEF UpAdmin, RevealButton, c

LEMMA DashTickMore == ASSUME UpInv, UpMore, DashTick PROVE UpMore'
<1> DEFINE u == RefreshDash(up)
<1>1. up \in UpPage /\ up.sent = {} /\ UpLooks(up) /\ up.clicks \in Nat BY DEF UpInv, CodesInv, PageOK, UpMore, UpPage
<1>2. u \in UpPage BY <1>1, RefreshDo
<1>3. UpLooks(u) /\ u.clicks = up.clicks /\ Sends(u) BY <1>1, RefreshMore
<1>4. UpBecomes(u, upReqs) /\ UNCHANGED upStore BY DEF DashTick
<1> HIDE DEF u
<1> QED BY <1>1, <1>2, <1>3, <1>4, BecomesMore

LEMMA ShowCodeMore ==
    ASSUME UpInv, UpMore, NEW r \in upReqs, Coded(r)
    PROVE  LET v == ShowCode(up, r) IN v \in UpPage /\ UpLooks(v) /\ v.clicks = up.clicks /\ v.sent = {}
<1> DEFINE w == ShowReveal(up, r.id, r.code)
           v == ShowCode(up, r)
<1>1. up \in UpPage /\ UpLooks(up) /\ r \in UpReq BY DEF UpInv, CodesInv, PageOK, UpReqOK, UpMore
<1>2. v \in UpPage /\ v.sent = {} BY ShowCodeInv DEF CodesInv, PageOK
<1>3. w = [up EXCEPT !.reveal = [id |-> r.id, code |-> r.code, open |-> TRUE]] BY DEF ShowReveal
<1>4. v = [w EXCEPT !.raced = @ \cup {r.id}] \/ v = [w EXCEPT !.seen[r.id] = r.code] BY DEF ShowCode
<1> HIDE DEF v, w
<1>5. /\ w.timer = up.timer /\ w.dash = up.dash /\ w.buttons = up.buttons /\ w.list = up.list
      /\ w.rows = up.rows /\ w.clicks = up.clicks /\ w.stash = up.stash /\ w.poster = up.poster /\ w \in UpPage
    BY <1>1, <1>3 DEF UpPage, UpReq
<1>6. /\ v.timer = w.timer /\ v.dash = w.dash /\ v.buttons = w.buttons /\ v.list = w.list
      /\ v.rows = w.rows /\ v.clicks = w.clicks /\ v.stash = w.stash /\ v.poster = w.poster
    BY <1>4, <1>5 DEF UpPage
<1>7. UpLooks(v) BY <1>1, <1>5, <1>6 DEF UpLooks
<1> QED BY <1>2, <1>5, <1>6, <1>7 DEF v

LEMMA UpArrivesMore == ASSUME UpInv, UpMore, NEW r \in upReqs, UpArrives(r) PROVE UpMore'
<1> DEFINE u == Answered(up, r)
           reqs == upReqs \ {r}
<1>1. r.done /\ UpBecomes(u, reqs) /\ UNCHANGED upStore BY DEF UpArrives
<1>2. /\ up \in UpPage /\ up.sent = {} /\ UpLooks(up) /\ r \in UpReq /\ DOMAIN r.list \subseteq Ids /\ up.clicks \in Nat
      /\ r.n <= UpUploads
    BY DEF UpInv, CodesInv, PageOK, UpReqOK, Made, UpMore, UpPage
<1>3. reqs \in SUBSET upReqs OBVIOUS
<1>4. "list" \in UpKinds /\ "list" # "regenerate" /\ 0 \in {0} \cup Ids BY DEF UpKinds
<1> HIDE DEF reqs
<1>5. ASSUME NEW v \in UpPage, UpLooks(v), v.clicks = up.clicks, Sends(v), u = v PROVE UpMore'
    BY <1>1, <1>2, <1>3, <1>5, BecomesMore
<1>6. ASSUME NEW v \in UpPage, UpLooks(v), v.clicks = up.clicks, v.sent = {}, u = Fetches(v, "list", 0) PROVE UpMore'
    <2>1. \A q \in v.sent : Plain(q) BY <1>6
    <2>2. u \in UpPage BY <1>4, <1>6, <2>1, FetchesDo
    <2>3. UpLooks(u) /\ u.clicks = v.clicks /\ Sends(u) BY <1>4, <1>6, FetchesMore
    <2> HIDE DEF u
    <2> QED BY <1>5, <1>6, <2>2, <2>3
<1>7. CASE r.kind = "list"
    <2>1. u = [up EXCEPT !.list = r.list, !.buttons = DOMAIN r.list] BY <1>7 DEF Answered, Painted
    <2> HIDE DEF u
    <2>2. /\ u \in UpPage /\ u.timer = up.timer /\ u.dash = up.dash /\ u.buttons = DOMAIN u.list
          /\ u.rows = up.rows /\ u.clicks = up.clicks /\ u.stash = up.stash /\ u.poster = up.poster /\ u.sent = {}
        BY <1>2, <2>1 DEF UpPage, UpReq
    <2>3. UpLooks(u) BY <1>2, <2>2 DEF UpLooks
    <2> QED BY <1>5, <2>2, <2>3, SilentMore
<1>8. CASE r.kind = "subs"
    <2>1. u = [up EXCEPT !.rows = [of |-> r.id, n |-> r.n]] BY <1>8 DEF Answered, Rows
    <2> HIDE DEF u
    <2>2. /\ u \in UpPage /\ u.timer = up.timer /\ u.dash = up.dash /\ u.buttons = up.buttons /\ u.list = up.list
          /\ u.rows.n = r.n /\ u.clicks = up.clicks /\ u.stash = up.stash /\ u.poster = up.poster /\ u.sent = {}
        BY <1>2, <2>1 DEF UpPage, UpReq
    <2>3. UpLooks(u) BY <1>2, <2>2 DEF UpLooks
    <2> QED BY <1>5, <2>2, <2>3, SilentMore
<1>9. CASE r.kind = "create" /\ r.ok
    <2>1. Coded(r) BY <1>1, <1>9 DEF Coded
    <2>2. u = Fetches(ShowCode(up, r), "list", 0) BY <1>9 DEF Answered, LoadSessions
    <2> QED BY <1>6, <2>1, <2>2, ShowCodeMore
<1>10. CASE r.kind = "regenerate" /\ r.ok
    <2>1. Coded(r) BY <1>1, <1>10 DEF Coded
    <2>2. u = ShowCode(up, r) BY <1>10 DEF Answered
    <2> HIDE DEF u
    <2> QED BY <1>5, <2>1, <2>2, ShowCodeMore, SilentMore
<1>11. CASE r.kind \in {"create", "regenerate"} /\ ~r.ok
    <2>1. u = up BY <1>11 DEF Answered
    <2> QED BY <1>2, <1>5, <2>1, SilentMore
<1>12. CASE r.kind \in {"close", "delete"}
    <2>1. u = Fetches(up, "list", 0) BY <1>12 DEF Answered, LoadSessions
    <2> QED BY <1>2, <1>6, <2>1
<1>13. r.kind \in UpKinds BY <1>2 DEF UpReq
<1> QED BY <1>7, <1>8, <1>9, <1>10, <1>11, <1>12, <1>13 DEF UpKinds

LEMMA UpLostMore == ASSUME UpInv, UpMore, NEW r \in upReqs, UpLost(r) PROVE UpMore'
<1> DEFINE raced == IF r.kind = "regenerate" THEN up.raced \cup {r.id} ELSE up.raced
           u == [up EXCEPT !.clicks = up.clicks + 1, !.raced = raced]
           v == CASE r.kind = "list" -> [u EXCEPT !.buttons = {}]
                  [] r.kind = "subs" -> [u EXCEPT !.rows = NoRows] [] OTHER -> u
           reqs == upReqs \ {r}
<1>1. /\ up \in UpPage /\ up.sent = {} /\ UpLooks(up) /\ up.clicks \in Nat
      /\ r.kind = "regenerate" => r.id \in Ids
    BY DEF UpInv, CodesInv, PageOK, UpReqOK, Made, UpMore, UpPage
<1>2. up.clicks + 1 <= UpClicks /\ UpClicks \in Nat /\ UpUploads \in Nat BY <1>1, UpAssumption DEF UpLost
<1>3. raced \in SUBSET Ids BY <1>1 DEF UpPage
<1>4. UpBecomes(v, reqs) /\ UNCHANGED upStore BY <1>1 DEF UpLost, UpPage
<1>5. reqs \in SUBSET upReqs OBVIOUS
<1> HIDE DEF raced, reqs
<1>6. /\ u \in UpPage /\ u.timer = up.timer /\ u.dash = up.dash /\ u.buttons = up.buttons /\ u.list = up.list
      /\ u.rows = up.rows /\ u.clicks = up.clicks + 1 /\ u.stash = up.stash /\ u.poster = up.poster /\ u.sent = {}
    <2>1. up.clicks + 1 \in Nat BY <1>1
    <2> DEFINE c == up.clicks + 1
               w == [up EXCEPT !.clicks = c]
    <2>2. u = [w EXCEPT !.raced = raced] BY <1>1 DEF UpPage
    <2>3. c \in Nat BY <2>1
    <2> HIDE DEF c
    <2>4. /\ w \in UpPage /\ w.timer = up.timer /\ w.dash = up.dash /\ w.buttons = up.buttons /\ w.list = up.list
          /\ w.rows = up.rows /\ w.clicks = c /\ w.stash = up.stash /\ w.poster = up.poster /\ w.sent = {}
        BY <1>1, <2>3 DEF UpPage
    <2> HIDE DEF w, u
    <2>5. /\ u \in UpPage /\ u.timer = w.timer /\ u.dash = w.dash /\ u.buttons = w.buttons /\ u.list = w.list
          /\ u.rows = w.rows /\ u.clicks = w.clicks /\ u.stash = w.stash /\ u.poster = w.poster /\ u.sent = {}
        BY <1>3, <2>2, <2>4 DEF UpPage
    <2> QED BY <2>4, <2>5 DEF c
<1>7. v = [u EXCEPT !.buttons = {}] \/ v = [u EXCEPT !.rows = NoRows] \/ v = u OBVIOUS
<1> HIDE DEF u, v
<1>8. NoRows \in [of : {0} \cup Ids, n : Nat] /\ NoRows.n = 0 BY DEF NoRows
<1>9. /\ v \in UpPage /\ v.timer = u.timer /\ v.dash = u.dash /\ v.buttons \subseteq u.buttons /\ v.list = u.list
      /\ v.rows \in {u.rows, NoRows} /\ v.clicks = u.clicks /\ v.stash = u.stash /\ v.poster = u.poster /\ v.sent = {}
    BY <1>6, <1>7, <1>8 DEF UpPage
<1>10. UpLooks(v) BY <1>1, <1>2, <1>6, <1>8, <1>9 DEF UpLooks
<1>11. up.clicks <= v.clicks BY <1>1, <1>6, <1>9
<1> QED BY <1>4, <1>5, <1>9, <1>10, <1>11, BecomesMore, SilentMore

LEMMA UpServeMore == ASSUME UpInv, UpInv', UpMore, NEW r \in upReqs, UpServe(r) PROVE UpMore'
<1> DEFINE new == Cardinality(Made) + 1
           id == IF r.kind = "create" THEN new ELSE r.id
           ok == CASE r.kind = "list" -> TRUE [] r.kind = "create" -> new \in Ids [] OTHER -> Exists(id)
           code == IF ok /\ r.kind \in {"create", "regenerate"} THEN NewCode ELSE 0
           answer == [r EXCEPT !.done = TRUE, !.ok = ok, !.code = code, !.id = IF ok THEN id ELSE r.id]
           t == IF r.kind = "list" THEN [answer EXCEPT !.list = ReadSessions]
                ELSE IF r.kind = "subs" /\ ok THEN [answer EXCEPT !.n = upStore[id].n] ELSE answer
           A == Renewing(upReqs)
           B == Renewing(upReqs')
           a == Cardinality(A)
           b == Cardinality(B)
           m == Cardinality(Made)
           m1 == Cardinality(Made')
<1>1. ~r.done /\ upReqs' = (upReqs \ {r}) \cup {t} BY DEF UpServe
<1>2. upStore' = CASE ~ok \/ r.kind \in {"list", "subs"} -> upStore
                   [] ok /\ r.kind = "create" -> Creates(id, code)
                   [] ok /\ r.kind = "close" -> Closes(id)
                   [] ok /\ r.kind = "regenerate" -> Regenerates(id, code)
                   [] ok /\ r.kind = "delete" -> Removes(id)
    BY DEF UpServe
<1>3. up' = IF ok /\ r.kind = "regenerate" THEN [up EXCEPT !.renewed = @ \cup {id}] ELSE up
    BY DEF UpServe
<1>4. /\ StoreOK /\ upStore \in UpStored /\ r \in UpReq /\ r.kind \in UpKinds /\ r.id \in {0} \cup Ids /\ up \in UpPage
      /\ r.n <= UpUploads /\ up.clicks \in Nat /\ UpUploads \in Nat
    BY UpAssumption DEF UpInv, StoreOK, CodesInv, PageOK, UpReqOK, UpReq, UpMore, UpPage
<1>5. UpLooks(up) /\ IsFiniteSet(upReqs) /\ (\A q \in upReqs : q.n <= UpUploads)
      /\ (\A i \in Ids : upStore[i].n <= UpUploads)
      /\ \A i \in Ids : upStore[i].code + a <= m + up.clicks
    BY DEF UpMore, CodesCounted
<1>6. r.kind = "create" => id = new /\ (ok <=> id \in Ids) OBVIOUS
<1>7. r.kind \in {"subs", "close", "regenerate", "delete"} => id = r.id /\ (ok => id \in Ids /\ Exists(id))
    BY <1>4 DEF Exists
<1>8. ok /\ r.kind \in {"create", "regenerate"} => code = NewCode OBVIOUS
<1>9. t.done /\ t.n <= UpUploads
    <2>1. answer.done /\ answer.n = r.n BY <1>4 DEF UpReq
    <2>2. r.kind = "subs" /\ ok => upStore[id].n <= UpUploads BY <1>5, <1>7
    <2>3. DOMAIN answer = {"kind", "id", "nr", "done", "ok", "list", "n", "code"} BY <1>4 DEF UpReq
    <2> HIDE DEF answer
    <2> QED BY <1>4, <2>1, <2>2, <2>3
<1> HIDE DEF id, ok, code, t
<1>10. up'.timer = up.timer /\ up'.dash = up.dash /\ up'.buttons = up.buttons /\ up'.list = up.list /\ up'.rows = up.rows
       /\ up'.clicks = up.clicks /\ up'.stash = up.stash /\ up'.poster = up.poster
    BY <1>3, <1>4 DEF UpPage
<1>11. IsFiniteSet(upReqs') BY <1>1, <1>5, FS_RemoveElement, FS_AddElement
<1>12. \A q \in upReqs' : q.n <= UpUploads BY <1>1, <1>5, <1>9
<1>13. IsFiniteSet(A) /\ a \in Nat
    <2>1. A \subseteq upReqs BY DEF Renewing
    <2> QED BY <1>5, <2>1, FS_Subset, FS_CardinalityType
<1>14. B = A \ {r} BY <1>1, <1>9 DEF Renewing
<1>15. b \in Nat /\ b <= a /\ (r.kind = "regenerate" => b + 1 = a)
    <2>1. r.kind = "regenerate" => r \in A BY <1>1 DEF Renewing
    <2>2. IsFiniteSet(B) /\ (r \in A => b = a - 1) /\ (r \notin A => b = a)
        BY <1>13, <1>14, FS_RemoveElement
    <2>3. b \in Nat BY <2>2, FS_CardinalityType
    <2> HIDE DEF a, b
    <2> QED BY <1>13, <2>1, <2>2, <2>3
<1>16. IsFiniteSet(Made) /\ m \in Nat /\ m1 \in Nat
    <2>1. StoreOK' BY DEF UpInv
    <2>2. IsFiniteSet(Made) /\ m \in Nat BY <1>4, MadeCounted
    <2>3. PICK n \in 0 .. UpSessions : Made' = 1 .. n BY <2>1 DEF StoreOK
    <2>4. n \in Nat BY <2>3, UpBounds
    <2>5. Cardinality(1 .. n) = n BY <2>4, FS_Interval
    <2> QED BY <2>2, <2>3, <2>4, <2>5
<1>17. Ids # {} => \E c \in Nat : NewCode = 1 + c /\ \E i \in Ids : c = upStore[i].code
    <2> SUFFICES ASSUME Ids # {} PROVE \E c \in Nat : NewCode = 1 + c /\ \E i \in Ids : c = upStore[i].code OBVIOUS
    <2> DEFINE c == CHOOSE x \in CodesMade : \A d \in CodesMade : d <= x
               f == [i \in Ids |-> upStore[i].code]
    <2>1. \A i \in Ids : upStore[i].code \in Nat BY <1>4 DEF UpStored
    <2>2. UpSessions \in Nat \ {0} /\ f \in [1 .. UpSessions -> Nat] BY <2>1, UpBounds DEF Ids
    <2>3. PICK i \in 1 .. UpSessions : \A j \in 1 .. UpSessions : f[j] <= f[i]
        <3> HIDE DEF f
        <3> QED BY <2>2, GreatestOf
    <2>4. f[i] \in CodesMade /\ \A d \in CodesMade : d <= f[i] BY <2>3 DEF CodesMade, Ids
    <2>5. c \in CodesMade BY <2>4
    <2>6. NewCode = 1 + c BY DEF NewCode
    <2> HIDE DEF c
    <2> QED BY <2>1, <2>5, <2>6 DEF CodesMade
<1> HIDE DEF a, b, m, m1
<1>18. CASE ok /\ r.kind \in {"create", "regenerate"}
    <2>1. id \in Ids /\ code = NewCode BY <1>6, <1>7, <1>8, <1>18
    <2>2. PICK c \in Nat : NewCode = 1 + c /\ \E i \in Ids : c = upStore[i].code BY <1>17, <2>1
    <2>3. c + a <= m + up.clicks BY <1>5, <2>2
    <2>4. PICK n \in {upStore[id].n, 0}, s \in {upStore[id].status, "open"} :
              upStore' = [upStore EXCEPT ![id] = [status |-> s, code |-> NewCode, n |-> n]]
        <3>1. CASE r.kind = "create" BY <1>2, <1>18, <2>1, <3>1 DEF Creates
        <3>2. CASE r.kind = "regenerate"
            <4>1. upStore' = [upStore EXCEPT ![id].code = NewCode] BY <1>2, <1>18, <2>1, <3>2 DEF Regenerates
            <4>2. [upStore[id] EXCEPT !.code = NewCode]
                  = [status |-> upStore[id].status, code |-> NewCode, n |-> upStore[id].n]
                BY <1>4, <2>1 DEF UpStored
            <4> QED BY <1>4, <2>1, <4>1, <4>2 DEF UpStored
        <3> QED BY <1>18, <3>1, <3>2
    <2>5. /\ upStore'[id].code = NewCode /\ upStore'[id].n = n
          /\ \A i \in Ids : i # id => upStore'[i] = upStore[i]
        BY <1>4, <2>1, <2>4 DEF UpStored
    <2>6. \A i \in Ids : upStore'[i].n <= UpUploads BY <1>4, <1>5, <2>1, <2>4, <2>5
    <2>7. upStore[id].code < NewCode /\ NewCode \in Nat /\ upStore[id].code \in Nat
        BY <1>4, <2>1, NewCodeIsNew DEF UpStored
    <2>8. UpLooks(up)'
        <3>1. up.stash \in [Ids -> Nat] /\ up.poster.code \in Nat BY <1>4 DEF UpPage
        <3>2. \A i \in Ids : up.stash[i] <= upStore'[i].code
            <4> SUFFICES ASSUME NEW i \in Ids PROVE up.stash[i] <= upStore'[i].code OBVIOUS
            <4>1. up.stash[i] \in Nat /\ up.stash[i] <= upStore[i].code BY <1>5, <3>1 DEF UpLooks
            <4> QED BY <2>5, <2>7, <4>1
        <3>3. up.poster.id \in Ids => up.poster.code <= upStore'[up.poster.id].code
            BY <1>5, <2>5, <2>7, <3>1 DEF UpLooks
        <3> QED BY <1>5, <1>10, <3>2, <3>3 DEF UpLooks
    <2>9. b + 1 + m <= a + m1
        <3>1. CASE r.kind = "create"
            <4>1. id = m + 1 BY <1>6, <3>1 DEF m
            <4>2. id \notin Made
                <5>1. PICK k \in 0 .. UpSessions : Made = 1 .. k BY <1>4 DEF StoreOK
                <5>2. k \in Nat BY <5>1, UpBounds
                <5>3. Cardinality(1 .. k) = k BY <5>2, FS_Interval
                <5> QED BY <4>1, <5>1, <5>2, <5>3 DEF m
            <4>3. upStore'[id].status # "none"
                <5>1. upStore' = Creates(id, NewCode) BY <1>2, <1>18, <2>1, <3>1
                <5> QED BY <1>4, <2>1, <5>1 DEF Creates, UpStored
            <4>4. Made' = Made \cup {id} BY <2>1, <2>5, <4>3 DEF Made
            <4>5. m1 = m + 1 BY <1>16, <4>2, <4>4, FS_AddElement DEF m, m1
            <4> QED BY <1>13, <1>15, <1>16, <4>5
        <3>2. CASE r.kind = "regenerate"
            <4>1. upStore' = Regenerates(id, NewCode) BY <1>2, <1>18, <2>1, <3>2
            <4>2. \A i \in Ids : upStore'[i].status = upStore[i].status BY <1>4, <2>1, <4>1 DEF Regenerates, UpStored
            <4>3. Made' = Made BY <4>2 DEF Made
            <4>4. m1 = m BY <4>3 DEF m, m1
            <4> QED BY <1>13, <1>15, <1>16, <3>2, <4>4
        <3> QED BY <1>18, <3>1, <3>2
    <2>10. m <= m1 \/ b + 1 <= a BY <1>13, <1>15, <1>16, <2>9
    <2>11. \A i \in Ids : upStore'[i].code + b <= m1 + up.clicks
        <3> SUFFICES ASSUME NEW i \in Ids PROVE upStore'[i].code + b <= m1 + up.clicks OBVIOUS
        <3>1. CASE i = id BY <1>4, <1>13, <1>15, <1>16, <2>2, <2>3, <2>5, <2>9, <3>1
        <3>2. CASE i # id
            <4>1. upStore[i].code \in Nat /\ upStore[i].code + a <= m + up.clicks BY <1>4, <1>5 DEF UpStored
            <4> QED BY <1>4, <1>13, <1>15, <1>16, <2>5, <2>9, <3>2, <4>1
        <3> QED BY <3>1, <3>2
    <2>12. CodesCounted' BY <1>10, <2>11 DEF CodesCounted, b, m1
    <2> QED BY <1>4, <1>11, <1>12, <2>6, <2>8, <2>12 DEF UpMore
<1>19. CASE ~(ok /\ r.kind \in {"create", "regenerate"})
    <2>1. \A i \in Ids : /\ upStore'[i].code = upStore[i].code /\ upStore'[i].n = upStore[i].n
                         /\ upStore'[i].status # "none" <=> upStore[i].status # "none"
        <3>1. CASE ~ok \/ r.kind \in {"list", "subs"} BY <1>2, <3>1
        <3>2. CASE ok /\ r.kind = "close"
            <4>1. upStore' = [upStore EXCEPT ![id].status = "closed"] BY <1>2, <3>2 DEF Closes
            <4>2. id \in Ids /\ upStore[id].status # "none" BY <1>7, <3>2 DEF Exists
            <4> QED BY <1>4, <4>1, <4>2 DEF UpStored
        <3>3. CASE ok /\ r.kind = "delete"
            <4>1. upStore' = [upStore EXCEPT ![id].status = "gone"] BY <1>2, <3>3 DEF Removes
            <4>2. id \in Ids /\ upStore[id].status # "none" BY <1>7, <3>3 DEF Exists
            <4> QED BY <1>4, <4>1, <4>2 DEF UpStored
        <3> QED BY <1>4, <1>19, <3>1, <3>2, <3>3 DEF UpKinds
    <2>2. Made' = Made BY <2>1 DEF Made
    <2>3. UpLooks(up)' BY <1>5, <1>10, <2>1 DEF UpLooks
    <2>4. \A i \in Ids : upStore[i].code \in Nat BY <1>4 DEF UpStored
    <2>5. \A i \in Ids : upStore[i].code + b <= m + up.clicks BY <1>4, <1>5, <1>13, <1>15, <1>16, <2>4
    <2>6. CodesCounted' BY <1>10, <2>1, <2>2, <2>5 DEF CodesCounted, b, m
    <2> QED BY <1>5, <1>11, <1>12, <2>1, <2>3, <2>6 DEF UpMore
<1> QED BY <1>18, <1>19

LEMMA SubmitMore == ASSUME UpInv, UpMore, NEW id \in Ids, Submit(id) PROVE UpMore'
<1>1. upStore \in UpStored /\ upStore' = [upStore EXCEPT ![id].n = @ + 1] /\ UNCHANGED <<up, upReqs>>
      /\ upStore[id].n < UpUploads /\ UpUploads \in Nat
    BY UpAssumption DEF UpInv, StoreOK, Submit
<1>2. /\ \A i \in Ids : upStore'[i].code = upStore[i].code /\ upStore'[i].status = upStore[i].status
      /\ \A i \in Ids : i # id => upStore'[i].n = upStore[i].n
      /\ upStore'[id].n = upStore[id].n + 1 /\ upStore[id].n \in Nat
    <2>1. upStore[id].n + 1 \in Nat BY <1>1 DEF UpStored
    <2>2. upStore' = [upStore EXCEPT ![id].n = upStore[id].n + 1] BY <1>1 DEF UpStored
    <2> QED BY <1>1, <2>1, <2>2 DEF UpStored
<1>3. Made' = Made BY <1>2 DEF Made
<1>4. \A i \in Ids : upStore'[i].n <= UpUploads BY <1>1, <1>2 DEF UpMore
<1>5. UpLooks(up)' BY <1>1, <1>2 DEF UpMore, UpLooks
<1>6. CodesCounted' BY <1>1, <1>2, <1>3 DEF UpMore, CodesCounted
<1> QED BY <1>1, <1>4, <1>5, <1>6 DEF UpMore

LEMMA UpNextMore == UpInv /\ UpInv' /\ UpMore /\ [UpNext]_upVars => UpMore'
<1> SUFFICES ASSUME UpInv, UpInv', UpMore, [UpNext]_upVars PROVE UpMore' OBVIOUS
<1>1. CASE UNCHANGED upVars BY <1>1 DEF upVars, UpMore, UpLooks, CodesCounted, Made
<1> QED BY <1>1, UpAdminMore, DashTickMore, SubmitMore, UpServeMore, UpArrivesMore, UpLostMore DEF UpNext

(* The upload page's variables keep to their types, a code never passes the *)
(* number of those made, and the dashboard is refreshed exactly while it is *)
(* open, for any number of sessions, clicks and requests: UploadPage,       *)
(* admin-upload.js on both sides.                                          *)
THEOREM UploadPageTypes == UpSpec => []UpTypeOK
<1>1. UpInv /\ UpMore => UpTypeOK BY UpTypesOfMore
<1> QED BY <1>1, UpInitInv, UpInitMore, UpNextInv, UpNextMore, PTL DEF UpSpec

-----------------------------------------------------------------------------
(* The access log. *)

AlEntry == [access : AlAccesses, at : Int]
InOrder(log) == \A i, j \in 1 .. Len(log) : i <= j => log[i].at <= log[j].at
AlTypes ==
    /\ alNow \in Nat /\ alLog \in Seq(AlEntry) /\ Len(alLog) <= AlMax + 1
    /\ \A i \in 1 .. Len(alLog) : alLog[i].at <= alNow
    /\ InOrder(alLog)
    /\ alDone \subseteq AlEntry /\ \A d \in alDone : d.at <= alNow
AlInv == AlTypes /\ AccessesFound

(* What is young enough are the last ones of a log in order of time.        *)
LEMMA FreshAreLast ==
    ASSUME NEW log \in Seq(AlEntry), InOrder(log), alNow \in Nat, AlRetention \in Nat
    PROVE  /\ Fresh(log) \in 0 .. Len(log)
           /\ \A i \in 1 .. Len(log) : log[i].at >= alNow - AlRetention <=> i > Len(log) - Fresh(log)
<1> DEFINE Y == {i \in DOMAIN log : log[i].at >= alNow - AlRetention}
           L == Len(log)
           n == Cardinality(Y)
<1>1. L \in Nat /\ DOMAIN log = 1 .. L /\ \A i \in 1 .. L : log[i] \in AlEntry BY LenProperties
<1>2. \A i \in 1 .. L : log[i].at \in Int BY <1>1 DEF AlEntry
<1>3. \A i \in 1 .. L : i \in Y <=> log[i].at >= alNow - AlRetention BY <1>1
<1>4. Y \subseteq 1 .. L BY <1>1
<1>5. Fresh(log) = n BY DEF Fresh
<1>6. \A i \in 1 .. L, j \in 1 .. L : i <= j /\ i \in Y => j \in Y
  <2> SUFFICES ASSUME NEW i \in 1 .. L, NEW j \in 1 .. L, i <= j, i \in Y PROVE j \in Y OBVIOUS
  <2>1. log[i].at <= log[j].at BY DEF InOrder
  <2>2. log[i].at >= alNow - AlRetention BY <1>3
  <2>3. log[j].at >= alNow - AlRetention
    <3> HIDE DEF Y, L
    <3> QED BY <1>2, <2>1, <2>2
  <2> QED BY <2>3, <1>3
<1> HIDE DEF Y, L, n
<1>7. IsFiniteSet(Y) /\ n \in Nat /\ n <= L
  <2>1. IsFiniteSet(1 .. L) /\ Cardinality(1 .. L) = L BY <1>1, FS_Interval
  <2>2. IsFiniteSet(Y) /\ Cardinality(Y) <= Cardinality(1 .. L) BY <2>1, <1>4, FS_Subset
  <2> QED BY <2>1, <2>2, FS_CardinalityType DEF n
<1>8. ASSUME NEW i \in 1 .. L PROVE i \in Y <=> i > L - n
  <2>1. CASE i \in Y
    <3>1. i .. L \subseteq Y BY <2>1, <1>6, <1>1
    <3>2. Cardinality(i .. L) = L - i + 1 BY <1>1, FS_Interval
    <3>3. Cardinality(i .. L) <= n BY <3>1, <1>7, FS_Subset DEF n
    <3> QED BY <2>1, <3>2, <3>3, <1>1, <1>7
  <2>2. CASE i \notin Y
    <3>1. Y \subseteq i + 1 .. L
      <4> SUFFICES ASSUME NEW j \in Y, j \notin i + 1 .. L PROVE FALSE OBVIOUS
      <4>1. j \in 1 .. L BY <1>4
      <4>2. j <= i BY <4>1, <1>1
      <4> QED BY <4>1, <4>2, <1>6, <2>2
    <3>2. IsFiniteSet(i + 1 .. L) /\ Cardinality(i + 1 .. L) = L - i BY <1>1, FS_Interval
    <3>3. n <= Cardinality(i + 1 .. L) BY <3>1, <3>2, FS_Subset DEF n
    <3> QED BY <2>2, <3>2, <3>3, <1>1, <1>7
  <2> QED BY <2>1, <2>2
<1>9. Fresh(log) \in 0 .. L BY <1>5, <1>7, <1>1
<1>10. \A i \in 1 .. L : log[i].at >= alNow - AlRetention <=> i > L - Fresh(log) BY <1>3, <1>5, <1>8
<1> QED BY <1>9, <1>10 DEF L

(* Pruning keeps some of the last ones: those young enough, or AlMax. *)
LEMMA PruneKeepsLast ==
    ASSUME NEW log \in Seq(AlEntry), Fresh(log) \in 0 .. Len(log), AlMax \in Nat \ {0}
    PROVE  \E k \in 0 .. Len(log) :
               /\ k <= AlMax /\ k <= Fresh(log) /\ (k = Fresh(log) \/ k = AlMax)
               /\ Prune(log) \in Seq(AlEntry) /\ Len(Prune(log)) = k
               /\ \A i \in 1 .. k : Prune(log)[i] = log[Len(log) - k + i]
<1> DEFINE k == IF Fresh(log) > AlMax THEN AlMax ELSE Fresh(log)
           L == Len(log)
           m == L - k + 1
<1>1. L \in Nat /\ \A i \in 1 .. L : log[i] \in AlEntry BY LenProperties
<1>2. Prune(log) = SubSeq(log, m, L) BY DEF Prune, LastOnes
<1>3. Fresh(log) \in 0 .. L OBVIOUS
<1> HIDE DEF L
<1>4. k \in 0 .. L /\ k <= AlMax /\ k <= Fresh(log) /\ (k = Fresh(log) \/ k = AlMax) BY <1>1, <1>3
<1> HIDE DEF k
<1>5. m \in 1 .. L + 1 /\ L - m + 1 = k BY <1>1, <1>4
<1>6. \A i \in m .. L : log[i] \in AlEntry BY <1>1, <1>5
<1>7. /\ SubSeq(log, m, L) \in Seq(AlEntry)
      /\ Len(SubSeq(log, m, L)) = IF m <= L THEN L - m + 1 ELSE 0
      /\ \A i \in 1 .. L - m + 1 : SubSeq(log, m, L)[i] = log[m + i - 1]
  <2> HIDE DEF m
  <2> QED BY <1>1, <1>5, <1>6, SubSeqProperties
<1>8. Len(SubSeq(log, m, L)) = k BY <1>7, <1>5, <1>1, <1>4
<1>9. \A i \in 1 .. k : m + i - 1 = L - k + i BY <1>1, <1>4
<1>10. \A i \in 1 .. k : SubSeq(log, m, L)[i] = log[L - k + i] BY <1>7, <1>5, <1>9
<1> HIDE DEF m
<1>11. k \in 0 .. Len(log) /\ k <= AlMax /\ k <= Fresh(log) /\ (k = Fresh(log) \/ k = AlMax)
    BY <1>4 DEF L
<1>12. Prune(log) \in Seq(AlEntry) /\ Len(Prune(log)) = k BY <1>2, <1>7, <1>8
<1>13. \A i \in 1 .. k : Prune(log)[i] = log[Len(log) - k + i] BY <1>2, <1>10 DEF L
<1> QED BY <1>11, <1>12, <1>13, Zenon

(* What an entry of the pruned log says, the log said. *)
LEMMA RepeatIsCovered ==
    ASSUME AlAssumption, AlTypes, NEW a \in AlAccesses, IsRepeat(Prune(alLog), a)
    PROVE  \E i \in DOMAIN alLog : Covers(alLog[i], [access |-> a, at |-> alNow])
<1>1. AlMax \in Nat \ {0} /\ AlRetention \in Nat /\ AlFold \in Nat BY DEF AlAssumption
<1>2. alLog \in Seq(AlEntry) /\ InOrder(alLog) /\ alNow \in Nat BY DEF AlTypes
<1>3. Fresh(alLog) \in 0 .. Len(alLog) BY <1>1, <1>2, FreshAreLast
<1>4. PICK k \in 0 .. Len(alLog) :
          /\ Prune(alLog) \in Seq(AlEntry) /\ Len(Prune(alLog)) = k
          /\ \A i \in 1 .. k : Prune(alLog)[i] = alLog[Len(alLog) - k + i]
  BY <1>1, <1>2, <1>3, PruneKeepsLast
<1>5. PICK i \in DOMAIN Prune(alLog) :
          Prune(alLog)[i].access = a /\ alNow - Prune(alLog)[i].at < AlFold
  BY DEF IsRepeat
<1>6. i \in 1 .. k BY <1>4, <1>5, LenProperties
<1>7. Len(alLog) \in Nat /\ DOMAIN alLog = 1 .. Len(alLog) BY <1>2, LenProperties
<1>8. Len(alLog) - k + i \in 1 .. Len(alLog) BY <1>6, <1>7
<1>9. alLog[Len(alLog) - k + i].at <= alNow BY <1>8 DEF AlTypes
<1>10. Covers(alLog[Len(alLog) - k + i], [access |-> a, at |-> alNow])
  BY <1>4, <1>5, <1>6, <1>9 DEF Covers
<1> QED BY <1>7, <1>8, <1>10

(* What was covered stays so when an access is written, or the cap took it. *)
LEMMA AppendFinds ==
    ASSUME AlAssumption, AlInv, NEW a \in AlAccesses,
           alLog' = Append(Prune(alLog), [access |-> a, at |-> alNow]),
           alDone' = alDone \cup {[access |-> a, at |-> alNow]}, alNow' = alNow
    PROVE  AlInv'
<1> DEFINE e == [access |-> a, at |-> alNow]
           L == Len(alLog)
           P == Prune(alLog)
<1>1. AlMax \in Nat \ {0} /\ AlRetention \in Nat /\ AlFold \in Nat \ {0} BY DEF AlAssumption
<1>2. alLog \in Seq(AlEntry) /\ InOrder(alLog) /\ alNow \in Nat BY DEF AlInv, AlTypes
<1>3. /\ Fresh(alLog) \in 0 .. L
      /\ \A i \in 1 .. L : alLog[i].at >= alNow - AlRetention <=> i > L - Fresh(alLog)
  BY <1>1, <1>2, FreshAreLast
<1>4. PICK k \in 0 .. L :
          /\ k <= AlMax /\ k <= Fresh(alLog) /\ (k = Fresh(alLog) \/ k = AlMax)
          /\ P \in Seq(AlEntry) /\ Len(P) = k
          /\ \A i \in 1 .. k : P[i] = alLog[L - k + i]
  BY <1>1, <1>2, <1>3, PruneKeepsLast
<1>5. /\ L \in Nat /\ L <= AlMax + 1 /\ DOMAIN alLog = 1 .. L
      /\ \A i \in 1 .. L : alLog[i] \in AlEntry /\ alLog[i].at \in Int /\ alLog[i].at <= alNow
  <2>1. L \in Nat /\ DOMAIN alLog = 1 .. L /\ \A i \in 1 .. L : alLog[i] \in AlEntry BY <1>2, LenProperties
  <2>2. L <= AlMax + 1 /\ \A i \in 1 .. L : alLog[i].at <= alNow BY DEF AlInv, AlTypes
  <2> QED BY <2>1, <2>2 DEF AlEntry
<1>6. \A i, j \in 1 .. L : i <= j => alLog[i].at <= alLog[j].at BY <1>2 DEF InOrder
<1>7. e \in AlEntry /\ e.access = a /\ e.at = alNow BY <1>2 DEF AlEntry
<1> HIDE DEF e, P, L
<1>8. /\ Append(P, e) \in Seq(AlEntry) /\ Len(Append(P, e)) = k + 1
      /\ Append(P, e)[k + 1] = e
      /\ \A i \in 1 .. k : Append(P, e)[i] = alLog[L - k + i]
  <2>1. /\ Append(P, e) \in Seq(AlEntry) /\ Len(Append(P, e)) = Len(P) + 1
        /\ \A i \in 1 .. Len(P) : Append(P, e)[i] = P[i]
        /\ Append(P, e)[Len(P) + 1] = e
    BY <1>4, <1>7, AppendProperties
  <2> QED BY <2>1, <1>4
<1>9. alLog' = Append(P, e) BY DEF P, e
<1>10. alDone' = alDone \cup {e} BY DEF e
<1>11. \A i \in 1 .. k : L - k + i \in 1 .. L BY <1>4, <1>5
<1> DEFINE N == Append(P, e)
<1> HIDE DEF N
<1>12. N \in Seq(AlEntry) /\ Len(N) = k + 1 /\ N[k + 1] = e /\ \A i \in 1 .. k : N[i] = alLog[L - k + i]
  BY <1>8 DEF N
<1>13. DOMAIN N = 1 .. k + 1 BY <1>12, LenProperties
<1>14. \A i \in 1 .. k + 1 : N[i].at <= alNow
  <2> SUFFICES ASSUME NEW i \in 1 .. k + 1 PROVE N[i].at <= alNow OBVIOUS
  <2>1. CASE i = k + 1 BY <2>1, <1>12, <1>7, <1>2
  <2>2. CASE i \in 1 .. k BY <2>2, <1>12, <1>11, <1>5
  <2> QED BY <2>1, <2>2, <1>4
<1>15. InOrder(N)
  <2> SUFFICES ASSUME NEW i \in 1 .. k + 1, NEW j \in 1 .. k + 1, i <= j PROVE N[i].at <= N[j].at
    BY <1>12 DEF InOrder
  <2>1. CASE j = k + 1 BY <2>1, <1>12, <1>7, <1>14
  <2>2. CASE j \in 1 .. k
    <3>1. i \in 1 .. k BY <2>2
    <3>2. L - k + i \in 1 .. L /\ L - k + j \in 1 .. L /\ L - k + i <= L - k + j BY <2>2, <3>1, <1>11, <1>4, <1>5
    <3>3. alLog[L - k + i].at <= alLog[L - k + j].at BY <3>2, <1>6
    <3> QED BY <3>1, <2>2, <3>3, <1>12
  <2> QED BY <2>1, <2>2, <1>4
<1>16. AlTypes'
  <2>1. alDone \subseteq AlEntry /\ \A d \in alDone : d.at <= alNow BY DEF AlInv, AlTypes
  <2>2. alDone' \subseteq AlEntry BY <2>1, <1>10, <1>7
  <2>3. \A d \in alDone' : d.at <= alNow' BY <2>1, <1>10, <1>7, <1>2
  <2>4. alNow' \in Nat BY <1>2
  <2>5. alLog' \in Seq(AlEntry) /\ Len(alLog') <= AlMax + 1
    <3>1. alLog' = N BY <1>9 DEF N
    <3>2. k + 1 <= AlMax + 1 BY <1>4, <1>1
    <3> QED BY <3>1, <3>2, <1>12
  <2>6. \A i \in 1 .. Len(alLog') : alLog'[i].at <= alNow' BY <1>9, <1>12, <1>14 DEF N
  <2>7. InOrder(alLog)' BY <1>9, <1>15 DEF N, InOrder
  <2>8. AlEntry' = AlEntry BY DEF AlEntry
  <2> QED BY <2>2, <2>3, <2>4, <2>5, <2>6, <2>7, <2>8 DEF AlTypes
<1> DEFINE Found(d) == \E i \in DOMAIN N : Covers(N[i], d)
           Capped(d) == Len(N) > AlMax /\ d.at - AlFold < N[1].at
<1>17. \A d \in alDone \cup {e} : d.at - AlFold >= alNow - AlRetention => Found(d) \/ Capped(d)
  <2> SUFFICES ASSUME NEW d \in alDone \cup {e}, d.at - AlFold >= alNow - AlRetention
               PROVE  Found(d) \/ Capped(d)
    OBVIOUS
  <2>1. CASE d = e
    <3>1. k + 1 \in DOMAIN N BY <1>13, <1>4
    <3>2. Covers(e, e) BY <1>7, <1>1, <1>2 DEF Covers
    <3> QED BY <2>1, <3>1, <3>2, <1>12
  <2>2. CASE d \in alDone
    <3>1. d.at \in Int BY <2>2 DEF AlInv, AlTypes, AlEntry
    <3>2. \/ \E i \in DOMAIN alLog : Covers(alLog[i], d)
          \/ L > AlMax /\ d.at - AlFold < alLog[1].at
      BY <2>2 DEF AlInv, AccessesFound, L
    <3>3. ASSUME NEW i \in DOMAIN alLog, Covers(alLog[i], d) PROVE Found(d) \/ Capped(d)
      <4>1. i \in 1 .. L /\ alLog[i].at > d.at - AlFold
        <5>1. i \in 1 .. L /\ alLog[i].at \in Int BY <3>3, <1>5
        <5>2. d.at - alLog[i].at < AlFold BY <3>3 DEF Covers
        <5> QED BY <5>1, <5>2, <3>1, <1>1
      <4>2. alLog[i].at >= alNow - AlRetention BY <4>1, <1>5, <3>1, <1>1, <1>2
      <4>3. i > L - Fresh(alLog) BY <4>1, <4>2, <1>3
      <4>4. CASE i > L - k
        <5>1. i - (L - k) \in 1 .. k /\ L - k + (i - (L - k)) = i BY <4>1, <4>4, <1>4, <1>5
        <5>2. N[i - (L - k)] = alLog[i] BY <5>1, <1>12
        <5>3. i - (L - k) \in DOMAIN N BY <5>1, <1>13, <1>4
        <5> QED BY <5>2, <5>3, <3>3
      <4>5. CASE ~(i > L - k)
        <5>1. k = AlMax BY <4>3, <4>5, <4>1, <1>3, <1>4, <1>5
        <5>2. Len(N) > AlMax BY <5>1, <1>12, <1>4
        <5>3. 1 \in 1 .. k BY <5>1, <1>1
        <5>4. N[1] = alLog[L - k + 1] /\ L - k + 1 \in 1 .. L BY <5>3, <1>12, <1>11
        <5>5. i <= L - k + 1 BY <4>1, <4>5, <1>4, <1>5
        <5>6. alLog[i].at <= alLog[L - k + 1].at BY <4>1, <5>4, <5>5, <1>6
        <5>7. d.at - AlFold < N[1].at BY <4>1, <5>4, <5>6, <1>5, <3>1, <1>1
        <5> QED BY <5>2, <5>7
      <4> QED BY <4>4, <4>5
    <3>4. CASE L > AlMax /\ d.at - AlFold < alLog[1].at
      <4>1. 1 \in 1 .. L BY <3>4, <1>1, <1>5
      <4>2. alLog[1].at >= alNow - AlRetention BY <4>1, <3>4, <1>5, <3>1, <1>1, <1>2
      <4>3. 1 > L - Fresh(alLog) BY <4>1, <4>2, <1>3
      <4>4. k = AlMax BY <4>3, <3>4, <1>1, <1>3, <1>4, <1>5
      <4>5. Len(N) > AlMax BY <4>4, <1>12, <1>4
      <4>6. 1 \in 1 .. k BY <4>4, <1>1
      <4>7. N[1] = alLog[L - k + 1] /\ L - k + 1 \in 1 .. L BY <4>6, <1>12, <1>11
      <4>8. alLog[1].at <= alLog[L - k + 1].at BY <4>1, <4>7, <1>6
      <4>9. d.at - AlFold < N[1].at BY <3>4, <4>1, <4>7, <4>8, <1>5, <3>1, <1>1
      <4> QED BY <4>5, <4>9
    <3> HIDE DEF Found, Capped
    <3> QED BY <3>2, <3>3, <3>4
  <2> QED BY <2>1, <2>2
<1>18. AccessesFound'
  <2>1. alLog' = N /\ alDone' = alDone \cup {e} /\ alNow' = alNow BY <1>9, <1>10 DEF N
  <2> QED BY <2>1, <1>17 DEF AccessesFound, Covers
<1> QED BY <1>16, <1>18 DEF AlInv

LEMMA AlInitInv == ASSUME AlAssumption, AlInit PROVE AlInv
<1>1. alLog \in Seq(AlEntry) /\ Len(alLog) = 0 BY DEF AlInit
<1>2. AlMax \in Nat BY DEF AlAssumption
<1> QED BY <1>1, <1>2 DEF AlInv, AlTypes, AccessesFound, InOrder, AlInit

LEMMA AlStep == ASSUME AlAssumption, AlInv, [AlNext]_alVars PROVE AlInv'
<1>1. CASE UNCHANGED alVars
  BY <1>1 DEF alVars, AlInv, AlTypes, AccessesFound, InOrder, AlEntry, Covers
<1>2. CASE AlTick
  <2>1. alNow' = alNow + 1 /\ alLog' = alLog /\ alDone' \subseteq alDone BY <1>2 DEF AlTick
  <2>2. AlMax \in Nat \ {0} /\ AlRetention \in Nat /\ AlFold \in Nat BY DEF AlAssumption
  <2>3. alNow \in Nat /\ alLog \in Seq(AlEntry) /\ alDone \subseteq AlEntry BY DEF AlInv, AlTypes
  <2>4. \A i \in 1 .. Len(alLog) : alLog[i].at \in Int
    <3>1. \A i \in 1 .. Len(alLog) : alLog[i] \in AlEntry BY <2>3, LenProperties
    <3> QED BY <3>1 DEF AlEntry
  <2>5. \A d \in alDone : d.at \in Int BY <2>3 DEF AlEntry
  <2>6. \A i \in 1 .. Len(alLog) : alLog[i].at <= alNow + 1
    <3>1. \A i \in 1 .. Len(alLog) : alLog[i].at <= alNow BY DEF AlInv, AlTypes
    <3> QED BY <3>1, <2>3, <2>4
  <2>7. \A d \in alDone : d.at <= alNow + 1
    <3>1. \A d \in alDone : d.at <= alNow BY DEF AlInv, AlTypes
    <3> QED BY <3>1, <2>3, <2>5
  <2>8. AlTypes'
    <3>1. Len(alLog) <= AlMax + 1 /\ InOrder(alLog) BY DEF AlInv, AlTypes
    <3> QED BY <3>1, <2>1, <2>3, <2>6, <2>7 DEF AlTypes, InOrder, AlEntry
  <2>9. AccessesFound'
    <3>1. AccessesFound BY DEF AlInv
    <3> DEFINE Found(d) == (\E i \in DOMAIN alLog : Covers(alLog[i], d)) \/ (Len(alLog) > AlMax /\ d.at - AlFold < alLog[1].at)
               Young(d, t) == d.at - AlFold >= t - AlRetention
    <3>2. \A d \in alDone : Young(d, alNow) => Found(d) BY <3>1 DEF AccessesFound
    <3>3. \A d \in alDone : Young(d, alNow + 1) => Young(d, alNow) BY <2>5, <2>3, <2>2
    <3> HIDE DEF Found, Young
    <3>4. \A d \in alDone' : Young(d, alNow') => Found(d) BY <2>1, <3>2, <3>3
    <3> USE DEF Young
    <3> USE DEF Found
    <3>5. \A d \in alDone' : d.at - AlFold >= alNow' - AlRetention
              => (\E i \in DOMAIN alLog' : Covers(alLog'[i], d)) \/ (Len(alLog') > AlMax /\ d.at - AlFold < alLog'[1].at)
      BY <2>1, <3>4
    <3> QED BY <3>5 DEF AccessesFound, Covers
  <2> QED BY <2>8, <2>9 DEF AlInv
<1>3. ASSUME NEW a \in AlAccesses, Record(a) PROVE AlInv'
  <2>1. alNow' = alNow /\ alDone' = alDone \cup {[access |-> a, at |-> alNow]} BY <1>3 DEF Record
  <2>2. CASE IsRepeat(Prune(alLog), a)
    <3>1. alLog' = alLog BY <1>3, <2>2 DEF Record
    <3>2. \E i \in DOMAIN alLog : Covers(alLog[i], [access |-> a, at |-> alNow])
      BY <2>2, RepeatIsCovered DEF AlInv
    <3>3. alNow \in Nat BY DEF AlInv, AlTypes
    <3>4. AlTypes'
      <4>1. [access |-> a, at |-> alNow] \in AlEntry BY <3>3 DEF AlEntry
      <4> QED BY <4>1, <2>1, <3>1, <3>3 DEF AlInv, AlTypes, InOrder, AlEntry
    <3>5. AccessesFound'
      <4>1. AccessesFound BY DEF AlInv
      <4> QED BY <4>1, <2>1, <3>1, <3>2 DEF AccessesFound, Covers
    <3> QED BY <3>4, <3>5 DEF AlInv
  <2>3. CASE ~IsRepeat(Prune(alLog), a)
    <3>1. alLog' = Append(Prune(alLog), [access |-> a, at |-> alNow]) BY <1>3, <2>3 DEF Record
    <3> QED BY <2>1, <3>1, AppendFinds
  <2> QED BY <2>2, <2>3
<1>4. ASSUME NEW a \in AlAccesses, RecordFails(a) PROVE AlInv'
  BY <1>4, <1>1 DEF RecordFails
<1> QED BY <1>1, <1>2, <1>3, <1>4 DEF AlNext

(* Every access within the retention, access-log.js, is found in the log by *)
(* an entry of its own or of the repeat it was folded into, unless later    *)
(* accesses filled the log to its cap.                                     *)
THEOREM AccessesStayFound == AlSpec => []AccessesFound
<1>1. AlInit => AlInv BY AlAssumption, AlInitInv
<1>2. AlInv /\ [AlNext]_alVars => AlInv' BY AlAssumption, AlStep
<1>3. AlInv => AccessesFound BY DEF AlInv
<1> QED BY <1>1, <1>2, <1>3, PTL DEF AlSpec

(* The clock of the log stays within its horizon. *)
AlClocked == alNow <= AlHorizon /\ \A i \in 1 .. Len(alLog) : alLog[i].at >= 0

LEMMA AlClockStep == ASSUME AlInv, AlClocked, [AlNext]_alVars PROVE AlClocked'
<1>1. AlTypes /\ alNow \in Nat /\ alLog \in Seq(AlEntry) BY DEF AlInv, AlTypes
<1>2. CASE AlTick BY <1>1, <1>2, AlAssumption DEF AlTick, AlClocked
<1>3. ASSUME NEW a \in AlAccesses, Record(a) PROVE AlClocked'
    <2>1. CASE alLog' = alLog BY <1>3, <2>1 DEF Record, AlClocked
    <2>2. CASE alLog' # alLog
        <3> DEFINE p == Prune(alLog)
                   e == [access |-> a, at |-> alNow]
        <3>1. alLog' = Append(p, e) /\ alNow' = alNow BY <1>3, <2>2 DEF Record
        <3>2. p \in Seq(AlEntry) /\ \A i \in 1 .. Len(p) : \E j \in 1 .. Len(alLog) : p[i] = alLog[j]
            <4>1. Fresh(alLog) \in 0 .. Len(alLog) /\ AlMax \in Nat \ {0} BY <1>1, AlAssumption, FreshAreLast DEF AlInv, AlTypes
            <4>2. PICK k \in 0 .. Len(alLog) :
                      /\ p \in Seq(AlEntry) /\ Len(p) = k /\ \A i \in 1 .. k : p[i] = alLog[Len(alLog) - k + i]
                BY <1>1, <4>1, PruneKeepsLast
            <4>3. \A i \in 1 .. k : Len(alLog) - k + i \in 1 .. Len(alLog) BY <1>1
            <4> QED BY <4>2, <4>3
        <3> HIDE DEF p
        <3>3. \A i \in 1 .. Len(alLog') : alLog'[i] = e \/ \E j \in 1 .. Len(alLog) : alLog'[i] = alLog[j]
            BY <3>1, <3>2
        <3> QED BY <1>1, <3>1, <3>3 DEF AlClocked
    <2> QED BY <2>1, <2>2
<1>4. CASE UNCHANGED alVars BY <1>4 DEF alVars, AlClocked
<1> QED BY <1>2, <1>3, <1>4 DEF AlNext, RecordFails

LEMMA AlTyped == ASSUME AlInv, AlClocked PROVE AlTypeOK
<1>1. /\ alNow \in Nat /\ alLog \in Seq(AlEntry) /\ Len(alLog) <= AlMax + 1
      /\ \A i \in 1 .. Len(alLog) : alLog[i].at <= alNow
      /\ InOrder(alLog)
    BY DEF AlInv, AlTypes
<1>2. \A i \in 1 .. Len(alLog) : alLog[i].access \in AlAccesses /\ alLog[i].at \in Int
    <2>1. \A i \in 1 .. Len(alLog) : alLog[i] \in AlEntry BY <1>1
    <2> QED BY <2>1 DEF AlEntry
<1>3. \A i \in 1 .. Len(alLog) : alLog[i].at \in 0 .. alNow BY <1>1, <1>2 DEF AlClocked
<1>4. alNow \in 0 .. AlHorizon BY <1>1, AlAssumption DEF AlClocked
<1> QED BY <1>1, <1>2, <1>3, <1>4 DEF AlTypeOK, InOrder

(* The log's variables keep to their types, and the log to its length, for  *)
(* any limits: AccessLog, security/access-log.js.                          *)
THEOREM LogTypes == AlSpec => []AlTypeOK
<1>1. AlInit => AlInv /\ AlClocked
    BY AlAssumption, AlInitInv DEF AlInit, AlClocked
<1>2. AlInv /\ AlClocked /\ [AlNext]_alVars => AlInv' /\ AlClocked' BY AlAssumption, AlStep, AlClockStep
<1>3. AlInv /\ AlClocked => AlTypeOK BY AlTyped
<1> QED BY <1>1, <1>2, <1>3, PTL DEF AlSpec
=============================================================================
