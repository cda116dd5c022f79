---------------------------- MODULE ListingProofs ----------------------------
(***************************************************************************)
(* The listing for any tree of folders, any number of slots and requests,   *)
(* and any course that changes while its pages are fetched.                *)
(***************************************************************************)
EXTENDS StudIp, FiniteSetTheorems, FunctionTheorems, SequenceTheorems, WellFoundedInduction, TLAPS

-----------------------------------------------------------------------------
(* The limiter. *)

(* Slots as they should be: each request has one, none is asked for twice,  *)
(* and no slot is free while a request waits.                              *)
Slotted(fl, ac, qu) ==
    /\ qu \in Seq(Calls) /\ IsInjective(qu) /\ fl \subseteq Calls
    /\ \A i \in DOMAIN qu : qu[i] \notin fl
    /\ IsFiniteSet(fl) /\ ac = Cardinality(fl) /\ ac <= MaxActive
    /\ qu # <<>> => ac = MaxActive

Started(busy, used, waiting, fl, ac, qu) ==
    LET n == Starts(MaxActive - used, waiting) IN
    /\ fl = busy \cup {waiting[i] : i \in 1 .. n}
    /\ ac = used + n /\ qu = SubSeq(waiting, n + 1, Len(waiting))

(* What is waiting starts in order, as far as there are slots. *)
LEMMA StartsInOrder ==
    ASSUME NEW busy, busy \subseteq Calls, IsFiniteSet(busy),
           NEW used, used = Cardinality(busy), used <= MaxActive,
           NEW waiting \in Seq(Calls), IsInjective(waiting),
           \A i \in DOMAIN waiting : waiting[i] \notin busy,
           NEW fl, NEW ac, NEW qu, Started(busy, used, waiting, fl, ac, qu)
    PROVE  Slotted(fl, ac, qu) /\ fl \cup Range(qu) = busy \cup Range(waiting)
<1> DEFINE n == Starts(MaxActive - used, waiting)
           new == {waiting[i] : i \in 1 .. n}
           l == Len(waiting)
<1>0. fl = busy \cup new /\ ac = used + n /\ qu = SubSeq(waiting, n + 1, l)
    BY DEF Started
<1>1. used \in Nat /\ MaxActive \in Nat
    BY FS_CardinalityType, LimitAssumption
<1>2. l \in Nat /\ DOMAIN waiting = 1 .. l
    OBVIOUS
<1>3. n \in Nat /\ n <= l /\ n <= MaxActive - used /\ (n = l \/ n = MaxActive - used)
    BY <1>1, <1>2 DEF Starts, SmallerOf
<1> HIDE DEF n
<1>3a. \A i \in 1 .. n : i \in 1 .. l
    <2> HIDE DEF l
    <2> QED BY <1>2, <1>3
<1>4. IsFiniteSet(new) /\ Cardinality(new) = n
    <2> DEFINE f == [i \in 1 .. n |-> waiting[i]]
    <2>1. f \in [1 .. n -> new] OBVIOUS
    <2>2. \A t \in new : \E i \in 1 .. n : f[i] = t OBVIOUS
    <2>3. \A i, j \in 1 .. n : f[i] = f[j] => i = j
        <3>1. \A i \in 1 .. n : i \in DOMAIN waiting BY <1>2, <1>3a
        <3> QED BY <3>1 DEF IsInjective
    <2>4. f \in Surjection(1 .. n, new) BY <2>1, <2>2, Fun_IsSurj
    <2>5. f \in Injection(1 .. n, new) BY <2>1, <2>3, Fun_IsInj
    <2>6. IsFiniteSet(1 .. n) /\ Cardinality(1 .. n) = n BY <1>3, FS_Interval
    <2> QED BY <2>4, <2>5, <2>6, FS_Surjection
<1>5. busy \cap new = {}
    <2>1. \A i \in 1 .. n : i \in DOMAIN waiting BY <1>2, <1>3a
    <2> QED BY <2>1
<1>6. IsFiniteSet(fl) /\ Cardinality(fl) = used + n
    <2>1. IsFiniteSet(fl) /\ Cardinality(fl) = Cardinality(busy) + Cardinality(new) - Cardinality(busy \cap new)
        BY <1>0, <1>4, FS_Union
    <2>2. Cardinality(busy \cap new) = 0 BY <1>5, FS_EmptySet
    <2> QED BY <2>1, <2>2, <1>1, <1>3, <1>4
<1>7. qu \in Seq(Calls) /\ Len(qu) = l - n /\ DOMAIN qu = 1 .. l - n
      /\ \A i \in 1 .. l - n : n + i \in 1 .. l /\ n + i \notin 1 .. n /\ qu[i] = waiting[n + i]
    <2>1. \A i \in n + 1 .. l : waiting[i] \in Calls
        <3>1. \A i \in n + 1 .. l : i \in 1 .. l
            <4> HIDE DEF l
            <4> QED BY <1>2, <1>3
        <3> QED BY <3>1, <1>2
    <2>2. /\ qu \in Seq(Calls) /\ Len(qu) = IF n + 1 <= l THEN l - (n + 1) + 1 ELSE 0
          /\ \A i \in 1 .. l - (n + 1) + 1 : qu[i] = waiting[n + 1 + i - 1]
        <3>1. n + 1 \in Int /\ l \in Int
            <4> HIDE DEF l
            <4> QED BY <1>2, <1>3
        <3> QED BY <1>0, <3>1, <2>1, SubSeqProperties
    <2>3. Len(qu) = l - n
        <3> HIDE DEF l
        <3> QED BY <2>2, <1>2, <1>3
    <2>4. \A i \in 1 .. l - n : n + i \in 1 .. l /\ n + i \notin 1 .. n /\ qu[i] = waiting[n + i]
        <3> HIDE DEF l
        <3>1. \A i \in 1 .. l - n : i \in 1 .. l - (n + 1) + 1 /\ n + 1 + i - 1 = n + i BY <1>2, <1>3
        <3>2. \A i \in 1 .. l - n : n + i \in 1 .. l /\ n + i \notin 1 .. n BY <1>2, <1>3
        <3> QED BY <2>2, <3>1, <3>2
    <2>5. DOMAIN qu = 1 .. l - n
        <3> HIDE DEF l
        <3> QED BY <2>2, <2>3
    <2> QED BY <2>2, <2>3, <2>4, <2>5
<1>8. fl \subseteq Calls
    <2>1. \A i \in 1 .. n : i \in DOMAIN waiting /\ waiting[i] \in Calls BY <1>2, <1>3a
    <2> QED BY <1>0, <2>1
<1>9. IsInjective(qu)
    <2> SUFFICES ASSUME NEW i \in 1 .. l - n, NEW j \in 1 .. l - n, qu[i] = qu[j] PROVE i = j
        BY <1>7 DEF IsInjective
    <2>1. waiting[n + i] = waiting[n + j] /\ n + i \in DOMAIN waiting /\ n + j \in DOMAIN waiting
        BY <1>2, <1>7
    <2>2. n + i = n + j BY <2>1 DEF IsInjective
    <2> HIDE DEF l
    <2> QED BY <2>2, <1>2, <1>3
<1>10. \A i \in DOMAIN qu : qu[i] \notin fl
    <2> SUFFICES ASSUME NEW i \in 1 .. l - n PROVE qu[i] \notin fl
        BY <1>7
    <2>1. n + i \in DOMAIN waiting /\ n + i \notin 1 .. n /\ qu[i] = waiting[n + i] BY <1>2, <1>7
    <2>2. waiting[n + i] \notin busy BY <2>1
    <2>3. ASSUME NEW j \in 1 .. n PROVE waiting[j] # waiting[n + i]
        <3>1. j \in DOMAIN waiting BY <1>2, <1>3a
        <3> QED BY <2>1, <3>1 DEF IsInjective
    <2> QED BY <1>0, <2>1, <2>2, <2>3
<1>11. qu # <<>> => used + n = MaxActive
    <2>1. n = l => qu = <<>> BY <1>2, <1>7
    <2> QED BY <2>1, <1>1, <1>3
<1>12. Slotted(fl, ac, qu)
    <2>1. ac <= MaxActive /\ ac = Cardinality(fl) BY <1>0, <1>1, <1>3, <1>6
    <2>2. qu # <<>> => ac = MaxActive BY <1>0, <1>11
    <2> QED BY <1>6, <1>7, <1>8, <1>9, <1>10, <2>1, <2>2 DEF Slotted
<1>13. fl \cup Range(qu) = busy \cup Range(waiting)
    <2>1. \A i \in 1 .. l : i \in 1 .. n \/ (i - n \in 1 .. l - n /\ n + (i - n) = i)
        <3> HIDE DEF l
        <3> QED BY <1>2, <1>3
    <2>2. \A i \in 1 .. n : i \in 1 .. l BY <1>3a
    <2>3. Range(waiting) = {waiting[i] : i \in 1 .. l} BY <1>2 DEF Range
    <2>4. Range(qu) = {qu[i] : i \in 1 .. l - n} BY <1>7 DEF Range
    <2>5. Range(waiting) \subseteq new \cup Range(qu)
        <3> SUFFICES ASSUME NEW i \in 1 .. l PROVE waiting[i] \in new \cup Range(qu)
            BY <2>3
        <3>1. CASE i \in 1 .. n BY <3>1
        <3>2. CASE i - n \in 1 .. l - n /\ n + (i - n) = i
            <4>1. qu[i - n] = waiting[i] BY <3>2, <1>7
            <4> QED BY <4>1, <3>2, <2>4
        <3> QED BY <3>1, <3>2, <2>1
    <2>6. new \subseteq Range(waiting) BY <2>2, <2>3
    <2>7. Range(qu) \subseteq Range(waiting) BY <1>7, <2>3, <2>4
    <2> QED BY <1>0, <2>5, <2>6, <2>7
<1> QED BY <1>12, <1>13

LEMMA AskedFinite == IsFiniteSet(Asked)
<1> DEFINE S == 1 .. Len(Requests)
           f == [i \in S |-> Requests[i]]
<1>1. Len(Requests) \in Nat /\ DOMAIN Requests = S
    BY RequestsAssumption
<1>2. f \in Surjection(S, Asked)
    <2>1. f \in [S -> Asked] BY <1>1 DEF Asked, Range
    <2>2. \A t \in Asked : \E i \in S : f[i] = t BY <1>1 DEF Asked, Range
    <2> QED BY <2>1, <2>2, Fun_IsSurj
<1>3. IsFiniteSet(S) BY <1>1, FS_Interval
<1> QED BY <1>2, <1>3, FS_Surjection

(* traverse asks for the folders S, and for nothing twice. *)
LEMMA AsksOnce ==
    ASSUME NEW S, S \subseteq Folders, NEW calls \in Asks(S)
    PROVE  /\ calls \in Seq(Calls) /\ IsInjective(calls)
           /\ \A i \in DOMAIN calls : calls[i][1] \in S /\ calls[i][2] \in Asked
<1> DEFINE n == Cardinality(S \X Asked)
<1>1. n \in Nat
    <2>1. IsFiniteSet(S) BY TreeAssumption, FS_Subset
    <2> QED BY <2>1, AskedFinite, FS_Product, FS_CardinalityType
<1>2. calls \in [1 .. n -> S \X Asked] /\ \A i, j \in 1 .. n : i # j => calls[i] # calls[j]
    BY DEF Asks, SetToSeqs
<1> HIDE DEF n
<1>3. DOMAIN calls = 1 .. n BY <1>2
<1>4. calls \in [1 .. n -> Calls] BY <1>2 DEF Calls
<1> QED BY <1>1, <1>2, <1>3, <1>4 DEF IsInjective

-----------------------------------------------------------------------------
(* The walk. *)

Pending == flying \cup Range(queue)

(* What is asked for has not been answered, and its folder waits for it or  *)
(* has failed; a folder is begun when the one above it has all its answers, *)
(* and is done when all below it are.                                      *)
WalkInv ==
    /\ TypeOK /\ Slotted(flying, active, queue)
    /\ \A c \in Pending : phase[c[1]] \in {"asking", "failed"} /\ c[2] \notin answers[c[1]]
    /\ \A f \in Folders :
           /\ phase[f] = "unknown" => answers[f] = {}
           /\ phase[f] \in {"unknown", "asking"} => \A g \in Subfolders[f] : phase[g] = "unknown"
           /\ phase[f] \in {"descending", "ok"} => f \in listed
           /\ phase[f] = "ok" => \A g \in Subfolders[f] : phase[g] = "ok"
           /\ phase[f] = "failed" => failures > 0

(* Nothing is under way. *)
Idle ==
    /\ queue = <<>> /\ active = 0 /\ flying = {} /\ answers = [f \in Folders |-> {}]
    /\ phase = NotBegun /\ listed = {} /\ failures = 0

LEMMA IdleInv == Idle => WalkInv
<1> SUFFICES ASSUME Idle PROVE WalkInv
    OBVIOUS
<1>1. TypeOK
    BY LimitAssumption DEF Idle, TypeOK, NotBegun
<1>2. Slotted(flying, active, queue)
    <2>1. queue \in Seq(Calls) /\ DOMAIN queue = {} /\ IsInjective(queue) BY DEF Idle, IsInjective
    <2>2. IsFiniteSet(flying) /\ active = Cardinality(flying) BY FS_EmptySet DEF Idle
    <2> QED BY <2>1, <2>2, LimitAssumption DEF Idle, Slotted
<1>3. Pending = {}
    BY DEF Idle, Pending, Range
<1>4. \A f \in Folders : phase[f] = "unknown" /\ answers[f] = {} /\ Subfolders[f] \subseteq Folders
    BY TreeAssumption DEF Idle, NotBegun
<1> QED BY <1>1, <1>2, <1>3, <1>4 DEF WalkInv

(* The first requests. *)
LEMMA BeginsInv ==
    ASSUME Idle,
           phase' = [phase EXCEPT ![Root] = "asking"], \E calls \in Asks({Root}) : Pump({}, 0, calls),
           UNCHANGED <<answers, listed, failures>>
    PROVE  WalkInv'
<1>0. Root \in Folders BY TreeAssumption
<1>1. PICK calls \in Asks({Root}) : Pump({}, 0, calls)
    OBVIOUS
<1>2. calls \in Seq(Calls) /\ IsInjective(calls) /\ \A i \in DOMAIN calls : calls[i][1] = Root /\ calls[i][2] \in Asked
    BY <1>0, AsksOnce
<1>3. Slotted(flying', active', queue') /\ flying' \cup Range(queue') = {} \cup Range(calls)
    <2>1. IsFiniteSet({}) /\ 0 = Cardinality({}) /\ 0 <= MaxActive BY FS_EmptySet, LimitAssumption
    <2>2. {} \subseteq Calls /\ \A i \in DOMAIN calls : calls[i] \notin {} OBVIOUS
    <2>3. Started({}, 0, calls, flying', active', queue') BY <1>1 DEF Pump, Started
    <2> QED BY <1>2, <2>1, <2>2, <2>3, StartsInOrder
<1>4. phase' = [f \in Folders |-> IF f = Root THEN "asking" ELSE "unknown"]
    BY DEF Idle, NotBegun
<1>5. answers' = [f \in Folders |-> {}] /\ listed' = {} /\ failures' = 0
    BY DEF Idle
<1>6. TypeOK'
    <2>1. active' \in Nat BY <1>3, FS_CardinalityType DEF Slotted
    <2>2. phase' \in [Folders -> {"unknown", "asking", "descending", "ok", "failed"}] BY <1>4
    <2>3. answers' \in [Folders -> SUBSET Asked] BY <1>5
    <2>4. listed' \subseteq Folders /\ failures' \in 0 .. MaxFailures BY <1>5, LimitAssumption
    <2>5. queue' \in Seq(Calls) /\ flying' \subseteq Calls BY <1>3 DEF Slotted
    <2> QED BY <2>1, <2>2, <2>3, <2>4, <2>5 DEF TypeOK
<1>7. \A c \in Pending' : c[1] = Root
    BY <1>2, <1>3 DEF Pending, Range
<1>8. \A f \in Folders : Root \notin Subfolders[f] /\ Subfolders[f] \subseteq Folders
    BY TreeAssumption
<1> QED BY <1>0, <1>3, <1>4, <1>5, <1>6, <1>7, <1>8 DEF WalkInv

(* A slot is given back, and the next request takes it. *)
LEMMA SlotIsReused ==
    ASSUME WalkInv, NEW c \in flying, Pump(flying \ {c}, active - 1, queue)
    PROVE  Slotted(flying', active', queue') /\ Pending' = Pending \ {c}
<1>1. Slotted(flying, active, queue) BY DEF WalkInv
<1>2. IsFiniteSet(flying \ {c}) /\ active - 1 = Cardinality(flying \ {c})
    BY <1>1, FS_RemoveElement DEF Slotted
<1>3. active \in Nat /\ MaxActive \in Nat
    BY <1>1, FS_CardinalityType, LimitAssumption DEF Slotted
<1>4. active - 1 <= MaxActive BY <1>1, <1>3 DEF Slotted
<1>5. /\ flying \ {c} \subseteq Calls /\ queue \in Seq(Calls) /\ IsInjective(queue)
      /\ \A i \in DOMAIN queue : queue[i] \notin flying \ {c}
    BY <1>1 DEF Slotted
<1>6. Slotted(flying', active', queue') /\ flying' \cup Range(queue') = (flying \ {c}) \cup Range(queue)
    <2>1. Started(flying \ {c}, active - 1, queue, flying', active', queue') BY DEF Pump, Started
    <2> QED BY <1>2, <1>4, <1>5, <2>1, StartsInOrder
<1>7. c \notin Range(queue) BY <1>1 DEF Slotted, Range
<1> QED BY <1>6, <1>7 DEF Pending

LEMMA PendingCalls ==
    ASSUME WalkInv, NEW c \in Pending
    PROVE  c \in Calls /\ c[1] \in Folders /\ c[2] \in Asked /\ c = <<c[1], c[2]>>
<1>1. c \in Calls
    <2>1. \A i \in DOMAIN queue : queue[i] \in Calls BY DEF WalkInv, TypeOK
    <2> QED BY <2>1 DEF WalkInv, TypeOK, Pending, Range
<1> QED BY <1>1 DEF Calls

(* An answer that is not the last for its folder, or that comes too late. *)
LEMMA AnswerInv ==
    ASSUME WalkInv, NEW c \in flying, Pump(flying \ {c}, active - 1, queue),
           answers' = [answers EXCEPT ![c[1]] = @ \cup {c[2]}], UNCHANGED <<phase, listed, failures>>
    PROVE  WalkInv'
<1> DEFINE f == c[1]
<1>1. Slotted(flying', active', queue') /\ Pending' = Pending \ {c}
    BY SlotIsReused
<1>2. c \in Pending /\ f \in Folders /\ c[2] \in Asked /\ c = <<c[1], c[2]>> /\ phase[f] \in {"asking", "failed"}
    BY PendingCalls DEF Pending, WalkInv
<1>3. TypeOK'
    <2>1. TypeOK BY DEF WalkInv
    <2>2. active' \in Nat BY <1>1, FS_CardinalityType DEF Slotted
    <2>3. answers' \in [Folders -> SUBSET Asked] BY <1>2, <2>1 DEF TypeOK
    <2>4. queue' \in Seq(Calls) /\ flying' \subseteq Calls BY <1>1 DEF Slotted
    <2> QED BY <2>1, <2>2, <2>3, <2>4 DEF TypeOK
<1>4. \A g \in Folders : answers'[g] = IF g = f THEN answers[g] \cup {c[2]} ELSE answers[g]
    BY <1>2 DEF WalkInv, TypeOK
<1>5. ASSUME NEW d \in Pending' PROVE phase'[d[1]] \in {"asking", "failed"} /\ d[2] \notin answers'[d[1]]
    <2>1. d \in Pending /\ d # c BY <1>1
    <2>2. d[1] \in Folders /\ d = <<d[1], d[2]>> BY <2>1, PendingCalls
    <2>3. phase[d[1]] \in {"asking", "failed"} /\ d[2] \notin answers[d[1]] BY <2>1 DEF WalkInv
    <2>4. d[1] = f => d[2] # c[2] BY <1>2, <2>1, <2>2
    <2> QED BY <1>4, <2>2, <2>3, <2>4
<1>6. \A g \in Folders : phase'[g] = "unknown" => answers'[g] = {}
    BY <1>2, <1>4 DEF WalkInv
<1> QED BY <1>1, <1>3, <1>5, <1>6 DEF WalkInv

LEMMA FailsInv ==
    ASSUME WalkInv, NEW c, Fails(c)
    PROVE  WalkInv'
<1> DEFINE f == c[1]
<1>1. Slotted(flying', active', queue') /\ Pending' = Pending \ {c}
    BY SlotIsReused DEF Fails
<1>2. c \in Pending /\ f \in Folders /\ c[2] \in Asked /\ phase[f] \in {"asking", "failed"}
    BY PendingCalls DEF Pending, WalkInv, Fails
<1>3. /\ failures' \in 0 .. MaxFailures /\ failures' > 0 /\ UNCHANGED <<answers, listed>>
      /\ phase' = [phase EXCEPT ![f] = "failed"] /\ failures \in Nat
    BY LimitAssumption DEF Fails, WalkInv, TypeOK
<1>4. TypeOK'
    <2>1. TypeOK BY DEF WalkInv
    <2>2. active' \in Nat BY <1>1, FS_CardinalityType DEF Slotted
    <2>3. queue' \in Seq(Calls) /\ flying' \subseteq Calls BY <1>1 DEF Slotted
    <2> QED BY <1>3, <2>1, <2>2, <2>3 DEF TypeOK
<1>5. \A g \in Folders : phase'[g] = IF g = f THEN "failed" ELSE phase[g]
    BY <1>3 DEF WalkInv, TypeOK
<1>6. ASSUME NEW d \in Pending' PROVE phase'[d[1]] \in {"asking", "failed"} /\ d[2] \notin answers'[d[1]]
    <2>1. d \in Pending BY <1>1
    <2>2. d[1] \in Folders BY <2>1, PendingCalls
    <2> QED BY <1>3, <1>5, <2>1, <2>2 DEF WalkInv
<1>7. ASSUME NEW g \in Folders
      PROVE  /\ phase'[g] = "unknown" => answers'[g] = {}
             /\ phase'[g] \in {"unknown", "asking"} => \A h \in Subfolders[g] : phase'[h] = "unknown"
             /\ phase'[g] \in {"descending", "ok"} => g \in listed'
             /\ phase'[g] = "ok" => \A h \in Subfolders[g] : phase'[h] = "ok"
             /\ phase'[g] = "failed" => failures' > 0
    <2>1. \A h \in Subfolders[g] : h \in Folders BY TreeAssumption
    <2> QED BY <1>2, <1>3, <1>5, <2>1 DEF WalkInv
<1> QED BY <1>1, <1>4, <1>6, <1>7 DEF WalkInv

(* A promise that settles. *)
LEMMA SettlesInv ==
    ASSUME WalkInv, NEW f \in Folders, Resolve(f) \/ Reject(f)
    PROVE  WalkInv'
<1>1. PICK p \in {"ok", "failed"} :
          /\ phase' = [phase EXCEPT ![f] = p] /\ phase[f] = "descending"
          /\ p = "ok" => \A g \in Subfolders[f] : phase[g] = "ok"
          /\ p = "failed" => \E g \in Subfolders[f] : phase[g] = "failed"
    BY DEF Resolve, Reject
<1>2. UNCHANGED <<queue, active, flying, answers, listed, failures>>
    BY DEF Resolve, Reject
<1>3. \A g \in Folders : phase'[g] = IF g = f THEN p ELSE phase[g]
    BY <1>1 DEF WalkInv, TypeOK
<1>4. TypeOK'
    BY <1>1, <1>2 DEF WalkInv, TypeOK
<1>5. Slotted(flying', active', queue') /\ Pending' = Pending
    BY <1>2 DEF WalkInv, Pending
<1>6. ASSUME NEW d \in Pending' PROVE phase'[d[1]] \in {"asking", "failed"} /\ d[2] \notin answers'[d[1]]
    <2>1. d \in Pending /\ d[1] \in Folders BY <1>5, PendingCalls
    <2> QED BY <1>1, <1>2, <1>3, <2>1 DEF WalkInv
<1>7. ASSUME NEW g \in Folders
      PROVE  /\ phase'[g] = "unknown" => answers'[g] = {}
             /\ phase'[g] \in {"unknown", "asking"} => \A h \in Subfolders[g] : phase'[h] = "unknown"
             /\ phase'[g] \in {"descending", "ok"} => g \in listed'
             /\ phase'[g] = "ok" => \A h \in Subfolders[g] : phase'[h] = "ok"
             /\ phase'[g] = "failed" => failures' > 0
    <2>2. \A h \in Subfolders[g] : h \in Folders BY TreeAssumption
    <2>3. /\ phase[g] = "unknown" => answers[g] = {}
          /\ phase[g] \in {"unknown", "asking"} => \A h \in Subfolders[g] : phase[h] = "unknown"
          /\ phase[g] \in {"descending", "ok"} => g \in listed
          /\ phase[g] = "ok" => \A h \in Subfolders[g] : phase[h] = "ok"
          /\ phase[g] = "failed" => failures > 0
        BY DEF WalkInv
    <2>4. p = "failed" => failures > 0
        <3>1. \A h \in Subfolders[f] : h \in Folders BY TreeAssumption
        <3> QED BY <1>1, <3>1 DEF WalkInv
    <2> QED BY <1>1, <1>2, <1>3, <2>2, <2>3, <2>4
<1> QED BY <1>4, <1>5, <1>6, <1>7 DEF WalkInv

(* The last answer for a folder: the walk goes below it. *)
LEMMA DescendsInv ==
    ASSUME WalkInv, NEW c \in flying, Descends(c[1]),
           answers' = [answers EXCEPT ![c[1]] = @ \cup {c[2]}], phase[c[1]] = "asking", answers'[c[1]] = Asked,
           \E calls \in Asks(Subfolders[c[1]]) : Pump(flying \ {c}, active - 1, queue \o calls),
           UNCHANGED failures
    PROVE  WalkInv'
<1> DEFINE f == c[1]
<1>1. c \in Pending /\ f \in Folders /\ c[2] \in Asked
    BY PendingCalls DEF Pending
<1>2. Subfolders[f] \subseteq Folders /\ f \notin Subfolders[f] /\ \A g \in Subfolders[f] : phase[g] = "unknown"
    BY <1>1, TreeAssumption DEF WalkInv
<1>3. PICK calls \in Asks(Subfolders[f]) : Pump(flying \ {c}, active - 1, queue \o calls)
    OBVIOUS
<1>4. calls \in Seq(Calls) /\ IsInjective(calls) /\ \A i \in DOMAIN calls : calls[i][1] \in Subfolders[f] /\ calls[i][2] \in Asked
    BY <1>2, AsksOnce
<1>5. Slotted(flying, active, queue) BY DEF WalkInv
<1>6. \A i \in DOMAIN calls : calls[i] \notin Pending
    BY <1>2, <1>4 DEF WalkInv
<1> DEFINE waiting == queue \o calls
<1>7. waiting \in Seq(Calls) /\ IsInjective(waiting) /\ Range(waiting) = Range(queue) \cup Range(calls)
    <2>1. queue \in Seq(Calls) BY <1>5 DEF Slotted
    <2>2. waiting \in Seq(Calls) BY <1>4, <2>1
    <2>3. Len(waiting) = Len(queue) + Len(calls) /\ Len(queue) \in Nat /\ Len(calls) \in Nat
          /\ DOMAIN queue = 1 .. Len(queue) /\ DOMAIN calls = 1 .. Len(calls) /\ DOMAIN waiting = 1 .. Len(waiting)
        BY <1>4, <2>1
    <2>4. \A i \in 1 .. Len(queue) : i \in 1 .. Len(waiting) /\ waiting[i] = queue[i]
        BY <1>4, <2>1, <2>3
    <2>5. \A i \in 1 .. Len(calls) : Len(queue) + i \in 1 .. Len(waiting) /\ waiting[Len(queue) + i] = calls[i]
        BY <1>4, <2>1, <2>3
    <2>6. \A i \in 1 .. Len(waiting) : i \in 1 .. Len(queue) \/ (i - Len(queue) \in 1 .. Len(calls) /\ Len(queue) + (i - Len(queue)) = i)
        BY <2>3
    <2> HIDE DEF waiting
    <2>7. \A i \in DOMAIN waiting : \/ i \in DOMAIN queue /\ waiting[i] = queue[i]
                                    \/ \E j \in DOMAIN calls : i = Len(queue) + j /\ waiting[i] = calls[j]
        <3> SUFFICES ASSUME NEW i \in 1 .. Len(waiting)
                     PROVE  \/ i \in DOMAIN queue /\ waiting[i] = queue[i]
                            \/ \E j \in DOMAIN calls : i = Len(queue) + j /\ waiting[i] = calls[j]
            BY <2>3
        <3>1. CASE i \in 1 .. Len(queue) BY <3>1, <2>3, <2>4
        <3>2. CASE i - Len(queue) \in 1 .. Len(calls) /\ Len(queue) + (i - Len(queue)) = i
            <4>1. waiting[i] = calls[i - Len(queue)] BY <3>2, <2>5
            <4> QED BY <3>2, <4>1, <2>3
        <3> QED BY <3>1, <3>2, <2>6
    <2>8. \A i \in DOMAIN queue : queue[i] \in Pending BY DEF Pending, Range
    <2>9. IsInjective(waiting)
        <3> SUFFICES ASSUME NEW i \in DOMAIN waiting, NEW j \in DOMAIN waiting, waiting[i] = waiting[j] PROVE i = j
            BY DEF IsInjective
        <3>1. IsInjective(queue) BY <1>5 DEF Slotted
        <3> QED BY <1>4, <1>6, <2>7, <2>8, <3>1 DEF IsInjective
    <2>10. Range(waiting) \subseteq Range(queue) \cup Range(calls) BY <2>7 DEF Range
    <2>11. Range(queue) \subseteq Range(waiting) BY <2>3, <2>4 DEF Range
    <2>12. Range(calls) \subseteq Range(waiting) BY <2>3, <2>5 DEF Range
    <2> QED BY <2>2, <2>9, <2>10, <2>11, <2>12
<1>8. Slotted(flying', active', queue') /\ flying' \cup Range(queue') = (flying \ {c}) \cup Range(waiting)
    <2>1. IsFiniteSet(flying \ {c}) /\ active - 1 = Cardinality(flying \ {c})
        BY <1>5, FS_RemoveElement DEF Slotted
    <2>2. active \in Nat /\ MaxActive \in Nat
        BY <1>5, FS_CardinalityType, LimitAssumption DEF Slotted
    <2>3. active - 1 <= MaxActive BY <1>5, <2>2 DEF Slotted
    <2>4. flying \ {c} \subseteq Calls BY <1>5 DEF Slotted
    <2>5. \A i \in DOMAIN waiting : waiting[i] \notin flying
        <3> SUFFICES ASSUME NEW t \in Range(waiting) PROVE t \notin flying
            BY DEF Range
        <3>1. t \in Range(queue) => t \notin flying BY <1>5 DEF Slotted, Range
        <3>2. t \in Range(calls) => t \notin flying BY <1>6 DEF Range, Pending
        <3> QED BY <1>7, <3>1, <3>2
    <2> HIDE DEF waiting
    <2>6. Started(flying \ {c}, active - 1, waiting, flying', active', queue') BY <1>3 DEF Pump, Started, waiting
    <2>7. \A i \in DOMAIN waiting : waiting[i] \notin flying \ {c} BY <2>5
    <2> QED BY <1>7, <2>1, <2>3, <2>4, <2>6, <2>7, StartsInOrder
<1>9. \A d \in Pending' : (d \in Pending /\ d # c) \/ d[1] \in Subfolders[f]
    <2>1. c \notin Range(queue) BY <1>5 DEF Slotted, Range
    <2>2. \A d \in Range(calls) : d[1] \in Subfolders[f] BY <1>4 DEF Range
    <2> QED BY <1>7, <1>8, <2>1, <2>2 DEF Pending
<1> HIDE DEF waiting
<1>10. \A g \in Folders : phase'[g] = IF g = f THEN "descending" ELSE IF g \in Subfolders[f] THEN "asking" ELSE phase[g]
    BY DEF Descends
<1>11. \A g \in Folders : answers'[g] = IF g = f THEN Asked ELSE answers[g]
    <2>1. answers \in [Folders -> SUBSET Asked] BY DEF WalkInv, TypeOK
    <2> QED BY <1>1, <2>1
<1>12. TypeOK'
    <2>1. TypeOK BY DEF WalkInv
    <2>2. active' \in Nat BY <1>8, FS_CardinalityType DEF Slotted
    <2>3. answers' \in [Folders -> SUBSET Asked] BY <1>1, <2>1 DEF TypeOK
    <2>4. queue' \in Seq(Calls) /\ flying' \subseteq Calls BY <1>8 DEF Slotted
    <2>5. phase' \in [Folders -> {"unknown", "asking", "descending", "ok", "failed"}] BY <2>1 DEF Descends, TypeOK
    <2>6. listed' \subseteq Folders BY <1>1, <2>1 DEF Descends, TypeOK
    <2> QED BY <2>1, <2>2, <2>3, <2>4, <2>5, <2>6 DEF TypeOK
<1>13. ASSUME NEW d \in Pending' PROVE phase'[d[1]] \in {"asking", "failed"} /\ d[2] \notin answers'[d[1]]
    <2>1. CASE d[1] \in Subfolders[f]
        <3>1. d[1] \in Folders /\ d[1] # f /\ phase[d[1]] = "unknown" BY <1>2, <2>1
        <3>2. answers[d[1]] = {} BY <3>1 DEF WalkInv
        <3> QED BY <1>10, <1>11, <2>1, <3>1, <3>2
    <2>2. CASE d \in Pending /\ d # c /\ d[1] \notin Subfolders[f]
        <3>1. d[1] \in Folders /\ d[2] \in Asked /\ d = <<d[1], d[2]>> BY <2>2, PendingCalls
        <3>2. phase[d[1]] \in {"asking", "failed"} /\ d[2] \notin answers[d[1]] BY <2>2 DEF WalkInv
        <3>3. d[1] # f
            <4> SUFFICES ASSUME d[1] = f PROVE FALSE OBVIOUS
            <4>1. c = <<c[1], c[2]>> BY <1>1, PendingCalls
            <4>2. d[2] # c[2] BY <2>2, <3>1, <4>1
            <4>3. answers'[f] = answers[f] \cup {c[2]} BY <1>1 DEF WalkInv, TypeOK
            <4> QED BY <3>1, <3>2, <4>2, <4>3
        <3> QED BY <1>10, <1>11, <2>2, <3>1, <3>2, <3>3
    <2> QED BY <1>9, <2>1, <2>2
<1>14. ASSUME NEW g \in Folders
       PROVE  /\ phase'[g] = "unknown" => answers'[g] = {}
              /\ phase'[g] \in {"unknown", "asking"} => \A h \in Subfolders[g] : phase'[h] = "unknown"
              /\ phase'[g] \in {"descending", "ok"} => g \in listed'
              /\ phase'[g] = "ok" => \A h \in Subfolders[g] : phase'[h] = "ok"
              /\ phase'[g] = "failed" => failures' > 0
    <2>1. \A h \in Subfolders[g] : h \in Folders /\ (g # f => h \notin Subfolders[f])
        BY <1>1, TreeAssumption
    <2>2. /\ phase[g] = "unknown" => answers[g] = {}
          /\ phase[g] \in {"unknown", "asking"} => \A h \in Subfolders[g] : phase[h] = "unknown"
          /\ phase[g] \in {"descending", "ok"} => g \in listed
          /\ phase[g] = "ok" => \A h \in Subfolders[g] : phase[h] = "ok"
          /\ phase[g] = "failed" => failures > 0
        BY DEF WalkInv
    <2>3. listed' = listed \cup {f} BY DEF Descends
    <2>4. CASE g = f BY <1>10, <2>3, <2>4
    <2>5. CASE g # f /\ g \in Subfolders[f]
        <3>1. phase[g] = "unknown" /\ phase'[g] = "asking" BY <1>2, <1>10, <2>5
        <3>2. \A h \in Subfolders[g] : phase[h] = "unknown" /\ h # f BY <2>2, <3>1
        <3> QED BY <1>10, <2>1, <2>5, <3>1, <3>2
    <2>6. CASE g # f /\ g \notin Subfolders[f]
        <3>1. phase'[g] = phase[g] /\ answers'[g] = answers[g] BY <1>10, <1>11, <2>6
        <3>2. \A h \in Subfolders[g] : h # f => phase'[h] = phase[h] BY <1>10, <2>1, <2>6
        <3> QED BY <2>2, <2>3, <3>1, <3>2
    <2> QED BY <2>4, <2>5, <2>6
<1> QED BY <1>8, <1>12, <1>13, <1>14 DEF WalkInv

LEMMA NextInv == WalkInv /\ [Next]_vars => WalkInv'
<1> SUFFICES ASSUME WalkInv, [Next]_vars PROVE WalkInv'
    OBVIOUS
<1>1. ASSUME NEW c \in Calls, Answer(c) PROVE WalkInv'
    <2>1. CASE phase[c[1]] = "asking" /\ answers'[c[1]] = Asked BY <1>1, <2>1, DescendsInv DEF Answer
    <2>2. CASE ~(phase[c[1]] = "asking" /\ answers'[c[1]] = Asked) BY <1>1, <2>2, AnswerInv DEF Answer
    <2> QED BY <2>1, <2>2
<1>2. CASE UNCHANGED vars BY <1>2 DEF vars, WalkInv, TypeOK, Pending
<1> QED BY <1>1, <1>2, FailsInv, SettlesInv DEF Next

(* It ends with everything, or it was a request that failed. *)
LEMMA WalkTells ==
    ASSUME WalkInv
    PROVE  SlotsUsed /\ Complete /\ OnlyTheWalkFails
<1>1. SlotsUsed BY DEF WalkInv, Slotted, SlotsUsed
<1>2. OnlyTheWalkFails BY TreeAssumption DEF WalkInv, OnlyTheWalkFails
<1>3. ASSUME phase[Root] = "ok" PROVE listed = Folders /\ flying = {} /\ queue = <<>>
    <2> DEFINE S == {f \in Folders : phase[f] = "ok"}
    <2>1. S = Folders
        <3>1. Root \in S /\ S \in SUBSET Folders BY <1>3, TreeAssumption
        <3>2. \A f \in S : Subfolders[f] \subseteq S BY TreeAssumption DEF WalkInv
        <3> QED BY <3>1, <3>2, TreeAssumption
    <2>2. listed = Folders BY <2>1 DEF WalkInv, TypeOK
    <2>3. Pending = {}
        <3> SUFFICES ASSUME NEW c \in Pending PROVE FALSE OBVIOUS
        <3>1. phase[c[1]] = "ok" BY <2>1, PendingCalls
        <3> QED BY <3>1 DEF WalkInv
    <2>4. queue \in Seq(Calls) /\ DOMAIN queue = {}
        <3>1. queue \in Seq(Calls) BY DEF WalkInv, TypeOK
        <3>2. Range(queue) = {} BY <2>3 DEF Pending
        <3> QED BY <3>1, <3>2 DEF Range
    <2> QED BY <2>2, <2>3, <2>4 DEF Pending
<1> QED BY <1>1, <1>2, <1>3 DEF Complete

LEMMA InitInv == Init => WalkInv
<1> SUFFICES ASSUME Init PROVE WalkInv
    OBVIOUS
<1>0. Root \in Folders BY TreeAssumption
<1>1. PICK calls \in Asks({Root}) : Started({}, 0, calls, flying, active, queue)
    <2>1. PICK calls \in Asks({Root}) : LET n == Starts(MaxActive, calls) IN
              /\ flying = {calls[i] : i \in 1 .. n}
              /\ active = n /\ queue = SubSeq(calls, n + 1, Len(calls))
        BY DEF Init
    <2>2. calls \in Seq(Calls) BY <1>0, AsksOnce
    <2>3. MaxActive \in Nat /\ MaxActive - 0 = MaxActive BY LimitAssumption
    <2>4. Starts(MaxActive, calls) \in Nat BY <2>2, <2>3 DEF Starts, SmallerOf
    <2>5. 0 + Starts(MaxActive, calls) = Starts(MaxActive, calls) BY <2>4
    <2> QED BY <2>1, <2>3, <2>5 DEF Started
<1>2. calls \in Seq(Calls) /\ IsInjective(calls) /\ \A i \in DOMAIN calls : calls[i][1] = Root /\ calls[i][2] \in Asked
    BY <1>0, AsksOnce
<1>3. Slotted(flying, active, queue) /\ flying \cup Range(queue) = {} \cup Range(calls)
    <2>1. IsFiniteSet({}) /\ 0 = Cardinality({}) /\ 0 <= MaxActive BY FS_EmptySet, LimitAssumption
    <2>2. {} \subseteq Calls /\ \A i \in DOMAIN calls : calls[i] \notin {} OBVIOUS
    <2> QED BY <1>1, <1>2, <2>1, <2>2, StartsInOrder
<1>4. /\ phase = [f \in Folders |-> IF f = Root THEN "asking" ELSE "unknown"]
      /\ answers = [f \in Folders |-> {}] /\ listed = {} /\ failures = 0
    BY DEF Init, NotBegun
<1>5. TypeOK
    <2>1. active \in Nat BY <1>3, FS_CardinalityType DEF Slotted
    <2>2. phase \in [Folders -> {"unknown", "asking", "descending", "ok", "failed"}] BY <1>4
    <2>3. answers \in [Folders -> SUBSET Asked] BY <1>4
    <2>4. listed \subseteq Folders /\ failures \in 0 .. MaxFailures BY <1>4, LimitAssumption
    <2>5. queue \in Seq(Calls) /\ flying \subseteq Calls BY <1>3 DEF Slotted
    <2> QED BY <2>1, <2>2, <2>3, <2>4, <2>5 DEF TypeOK
<1>6. \A c \in Pending : c[1] = Root
    BY <1>2, <1>3 DEF Pending, Range
<1>7. \A f \in Folders : Root \notin Subfolders[f] /\ Subfolders[f] \subseteq Folders
    BY TreeAssumption
<1> QED BY <1>0, <1>3, <1>4, <1>5, <1>6, <1>7 DEF WalkInv

(* The walk alone, as IServ lists: for any tree, any number of slots and    *)
(* any number of requests per folder, the slots in use are those counted,   *)
(* no request waits beside a free one, and a walk that succeeds lists every *)
(* folder and leaves nothing under way.                                    *)
THEOREM WalkListsAll == Spec => [](SlotsUsed /\ Complete)
<1>1. Init => WalkInv BY InitInv
<1>2. WalkInv /\ [Next]_vars => WalkInv' BY NextInv
<1>3. WalkInv => SlotsUsed /\ Complete BY WalkTells
<1> QED BY <1>1, <1>2, <1>3, PTL DEF Spec

-----------------------------------------------------------------------------
(* Pages of a collection that grows. *)

LEMMA NoLongerThanItsSet ==
    ASSUME NEW T, IsFiniteSet(T), NEW s \in Seq(T), IsInjective(s)
    PROVE  Len(s) <= Cardinality(T) /\ Cardinality(T) \in Nat
<1> DEFINE l == Len(s)
<1>1. l \in Nat /\ DOMAIN s = 1 .. l /\ s \in [1 .. l -> T] OBVIOUS
<1>2. s \in Injection(1 .. l, T) BY <1>1, Fun_IsInj DEF IsInjective
<1>3. Cardinality(1 .. l) <= Cardinality(T) BY <1>2, FS_Injection
<1>4. Cardinality(1 .. l) = l
    <2> HIDE DEF l
    <2>1. 1 \in Int /\ l \in Int BY <1>1
    <2> QED BY <1>1, <2>1, FS_Interval
<1> QED BY <1>3, <1>4, FS_CardinalityType

(* Of the rows up to the offset none that was there from the beginning is   *)
(* missing, and a row that has come stands no further behind the offset     *)
(* than rows were added.                                                   *)
Swept(rows, offset, items, first, added) ==
    /\ offset \in Nat /\ offset <= Len(rows) /\ added \in Nat
    /\ first \subseteq Range(rows)
    /\ \A i \in DOMAIN rows : i <= offset /\ rows[i] \in first => rows[i] \in items
    /\ \A i \in DOMAIN rows : rows[i] \in items => i <= offset + added

(* A round of jsonApiAll with a server that heeds the offset. *)
Round(rows, offset, items, cap, bound, fresh, next) ==
    LET page == SubSeq(rows, offset + 1, SmallerOf(offset + cap, Len(rows))) IN
    /\ fresh = Range(page) \ items
    /\ next = IF fresh = {} THEN offset ELSE SmallerOf(offset + Len(page), bound)

LEMMA PageSweeps ==
    ASSUME NEW T, NEW rows \in Seq(T), IsInjective(rows), NEW bound \in Nat, Len(rows) <= bound,
           NEW cap \in Nat \ {0}, NEW offset, NEW items, NEW first, NEW added,
           Swept(rows, offset, items, first, added),
           NEW fresh, NEW next, Round(rows, offset, items, cap, bound, fresh, next)
    PROVE  /\ Swept(rows, next, items \cup fresh, first, added)
           /\ fresh = {} /\ added < cap => first \subseteq items
<1> DEFINE l == Len(rows)
           e == SmallerOf(offset + cap, l)
           page == SubSeq(rows, offset + 1, e)
<1>0. fresh = Range(page) \ items /\ next = IF fresh = {} THEN offset ELSE SmallerOf(offset + Len(page), bound)
    BY DEF Round
<1>1. l \in Nat /\ DOMAIN rows = 1 .. l OBVIOUS
<1>2. offset \in Nat /\ offset <= l /\ added \in Nat /\ l <= bound BY DEF Swept
<1>3. e \in Nat /\ offset <= e /\ e <= l /\ (e = l \/ e = offset + cap)
    <2> HIDE DEF l
    <2> QED BY <1>1, <1>2 DEF SmallerOf
<1>4. page = SubSeq(rows, offset + 1, e) OBVIOUS
<1> HIDE DEF e, l, page
<1>5. Len(page) = e - offset /\ Len(page) \in Nat /\ DOMAIN page = 1 .. e - offset
      /\ \A i \in 1 .. e - offset : page[i] = rows[offset + i]
    <2>1. \A i \in offset + 1 .. e : i \in DOMAIN rows BY <1>1, <1>2, <1>3
    <2>2. \A i \in offset + 1 .. e : rows[i] \in T BY <2>1
    <2>3. offset + 1 \in Int /\ e \in Int BY <1>2, <1>3
    <2>4. /\ page \in Seq(T) /\ Len(page) = IF offset + 1 <= e THEN e - (offset + 1) + 1 ELSE 0
          /\ \A i \in 1 .. e - (offset + 1) + 1 : page[i] = rows[offset + 1 + i - 1]
        <3> DEFINE pg == SubSeq(rows, offset + 1, e)
        <3>1. /\ pg \in Seq(T) /\ Len(pg) = IF offset + 1 <= e THEN e - (offset + 1) + 1 ELSE 0
              /\ \A i \in 1 .. e - (offset + 1) + 1 : pg[i] = rows[offset + 1 + i - 1]
            BY <2>2, <2>3, SubSeqProperties
        <3>2. page = pg BY <1>4
        <3> HIDE DEF pg
        <3> QED BY <3>1, <3>2
    <2>5. Len(page) = e - offset /\ e - offset \in Nat BY <1>2, <1>3, <2>4
    <2>6. e - (offset + 1) + 1 = e - offset /\ \A i \in 1 .. e - offset : offset + 1 + i - 1 = offset + i BY <1>2, <1>3
    <2>7. DOMAIN page = 1 .. e - offset BY <2>4, <2>5
    <2> QED BY <2>4, <2>5, <2>6, <2>7
<1>6. \A i \in 1 .. l : offset < i /\ i <= e => rows[i] \in Range(page)
    <2> SUFFICES ASSUME NEW i \in 1 .. l, offset < i, i <= e PROVE rows[i] \in Range(page)
        OBVIOUS
    <2>1. i - offset \in 1 .. e - offset /\ offset + (i - offset) = i BY <1>1, <1>2, <1>3
    <2> QED BY <1>5, <2>1 DEF Range
<1>7. \A t \in Range(page) : \E i \in 1 .. l : t = rows[i] /\ i <= e
    <2> SUFFICES ASSUME NEW j \in 1 .. e - offset PROVE \E i \in 1 .. l : page[j] = rows[i] /\ i <= e
        BY <1>5 DEF Range
    <2>1. offset + j \in 1 .. l /\ offset + j <= e BY <1>1, <1>2, <1>3
    <2> QED BY <1>5, <2>1
<1>8. fresh = {} \/ next = e
    <2>1. fresh # {} => next = SmallerOf(offset + (e - offset), bound) BY <1>0, <1>5
    <2>2. SmallerOf(offset + (e - offset), bound) = e BY <1>1, <1>2, <1>3 DEF SmallerOf
    <2> QED BY <2>1, <2>2
<1>9. CASE fresh = {}
    <2>1. next = offset /\ items \cup fresh = items BY <1>0, <1>9
    <2>2. ASSUME added < cap PROVE first \subseteq items
        <3>1. \A i \in 1 .. l : offset < i /\ i <= e => rows[i] \in items BY <1>0, <1>6, <1>9
        <3>2. e = l
            <4> SUFFICES ASSUME e = offset + cap PROVE FALSE BY <1>3
            <4>1. e \in 1 .. l /\ offset < e BY <1>1, <1>2, <1>3
            <4>2. rows[e] \in items BY <1>3, <3>1, <4>1
            <4>3. e <= offset + added BY <1>1, <4>1, <4>2 DEF Swept
            <4> QED BY <1>2, <2>2, <4>3
        <3> SUFFICES ASSUME NEW i \in 1 .. l, rows[i] \in first PROVE rows[i] \in items
            BY <1>1 DEF Swept, Range
        <3>3. CASE i <= offset BY <1>1, <3>3 DEF Swept
        <3>4. CASE offset < i BY <1>1, <3>1, <3>2, <3>4
        <3> QED BY <1>1, <1>2, <3>3, <3>4
    <2> QED BY <2>1, <2>2
<1>10. CASE fresh # {}
    <2>1. next = e BY <1>8, <1>10
    <2>2. ASSUME NEW i \in 1 .. l, i <= e, rows[i] \in first PROVE rows[i] \in items \cup fresh
        <3>1. CASE i <= offset BY <1>1, <2>2, <3>1 DEF Swept
        <3>2. CASE offset < i BY <1>0, <1>6, <2>2, <3>2
        <3> QED BY <1>1, <1>2, <3>1, <3>2
    <2>3. ASSUME NEW i \in 1 .. l, rows[i] \in items \cup fresh PROVE i <= e + added
        <3>1. CASE rows[i] \in items
            <4>1. i <= offset + added BY <1>1, <3>1 DEF Swept
            <4> QED BY <1>1, <1>2, <1>3, <4>1
        <3>2. CASE rows[i] \in Range(page)
            <4>1. PICK j \in 1 .. l : rows[i] = rows[j] /\ j <= e BY <1>7, <3>2
            <4>2. i = j BY <1>1, <4>1 DEF IsInjective
            <4> QED BY <1>1, <1>2, <1>3, <4>1, <4>2
        <3> QED BY <1>0, <2>3, <3>1, <3>2
    <2>4. e <= Len(rows) BY <1>3 DEF l
    <2>5. first \subseteq Range(rows) BY DEF Swept
    <2> QED BY <1>1, <1>2, <1>3, <1>10, <2>1, <2>2, <2>3, <2>4, <2>5 DEF Swept
<1> QED BY <1>9, <1>10

(* A new row moves those behind it one down. *)
LEMMA InsertDoes ==
    ASSUME NEW T, NEW rows \in Seq(T), NEW k \in 1 .. Len(rows) + 1, NEW x \in T
    PROVE  /\ InsertAt(rows, k, x) \in Seq(T) /\ Len(InsertAt(rows, k, x)) = Len(rows) + 1
           /\ \A i \in 1 .. Len(rows) + 1 : InsertAt(rows, k, x)[i] =
                  IF i < k THEN rows[i] ELSE IF i = k THEN x ELSE rows[i - 1]
<1> DEFINE l == Len(rows)
           a == SubSeq(rows, 1, k - 1)
           b == SubSeq(rows, k, l)
<1>1. l \in Nat /\ DOMAIN rows = 1 .. l /\ k \in Nat /\ 1 <= k /\ k <= l + 1 /\ \A i \in 1 .. l : rows[i] \in T
    OBVIOUS
<1>2. a \in Seq(T) /\ Len(a) = k - 1 /\ \A i \in 1 .. k - 1 : a[i] = rows[i]
    <2>1. \A i \in 1 .. k - 1 : i \in 1 .. l
        <3> HIDE DEF l
        <3> QED BY <1>1
    <2>2. 1 \in Int /\ k - 1 \in Int BY <1>1
    <2>3. /\ a \in Seq(T) /\ Len(a) = IF 1 <= k - 1 THEN k - 1 - 1 + 1 ELSE 0
          /\ \A i \in 1 .. k - 1 - 1 + 1 : a[i] = rows[1 + i - 1]
        BY <1>1, <2>1, <2>2, SubSeqProperties
    <2> HIDE DEF a, l
    <2>4. k - 1 - 1 + 1 = k - 1 /\ \A i \in 1 .. k - 1 : 1 + i - 1 = i BY <1>1
    <2>5. Len(a) = k - 1 BY <1>1, <2>3
    <2> QED BY <2>3, <2>4, <2>5
<1>3. b \in Seq(T) /\ Len(b) = l - k + 1 /\ \A i \in 1 .. l - k + 1 : b[i] = rows[k + i - 1]
    <2>1. \A i \in k .. l : i \in 1 .. l
        <3> HIDE DEF l
        <3> QED BY <1>1
    <2>2. k \in Int /\ l \in Int BY <1>1
    <2>3. /\ b \in Seq(T) /\ Len(b) = IF k <= l THEN l - k + 1 ELSE 0
          /\ \A i \in 1 .. l - k + 1 : b[i] = rows[k + i - 1]
        BY <1>1, <2>1, <2>2, SubSeqProperties
    <2> HIDE DEF b, l
    <2>4. Len(b) = l - k + 1 BY <1>1, <2>3
    <2> QED BY <2>3, <2>4
<1> HIDE DEF a, b
<1> DEFINE ax == a \o <<x>>
           s == ax \o b
<1>4. ax \in Seq(T) /\ Len(ax) = k /\ (\A i \in 1 .. k - 1 : ax[i] = a[i]) /\ ax[k] = x
    <2>1. <<x>> \in Seq(T) /\ Len(<<x>>) = 1 /\ <<x>>[1] = x OBVIOUS
    <2>2. ax \in Seq(T) /\ Len(ax) = Len(a) + 1 BY <1>2, <2>1
    <2>3. \A i \in 1 .. Len(ax) : ax[i] = IF i <= Len(a) THEN a[i] ELSE <<x>>[i - Len(a)]
        BY <1>2, <2>1
    <2> HIDE DEF ax
    <2>4. Len(ax) = k BY <1>1, <1>2, <2>2
    <2>5. \A i \in 1 .. k - 1 : i \in 1 .. k /\ i <= k - 1 BY <1>1
    <2>6. k \in 1 .. k /\ ~(k <= k - 1) /\ k - (k - 1) = 1 BY <1>1
    <2> QED BY <1>2, <2>1, <2>2, <2>3, <2>4, <2>5, <2>6
<1> HIDE DEF ax
<1>5. s \in Seq(T) /\ Len(s) = l + 1 /\ \A i \in 1 .. l + 1 : s[i] = IF i <= k THEN ax[i] ELSE b[i - k]
    <2>0. ax \in Seq(T) /\ b \in Seq(T) BY <1>3, <1>4
    <2>1. s \in Seq(T) /\ Len(s) = Len(ax) + Len(b) BY <2>0
    <2>2. \A i \in 1 .. Len(s) : s[i] = IF i <= Len(ax) THEN ax[i] ELSE b[i - Len(ax)] BY <2>0
    <2> HIDE DEF s, l
    <2>3. Len(s) = l + 1 BY <1>1, <1>3, <1>4, <2>1
    <2> QED BY <1>4, <2>1, <2>2, <2>3
<1>6. InsertAt(rows, k, x) = s BY DEF InsertAt, a, b, ax
<1> HIDE DEF s
<1>7. ASSUME NEW i \in 1 .. l + 1 PROVE s[i] = IF i < k THEN rows[i] ELSE IF i = k THEN x ELSE rows[i - 1]
    <2> HIDE DEF l
    <2>1. CASE i < k
        <3>1. i \in 1 .. k - 1 /\ i <= k BY <1>1, <2>1
        <3> QED BY <1>2, <1>4, <1>5, <2>1, <3>1
    <2>2. CASE i = k BY <1>1, <1>4, <1>5, <2>2
    <2>3. CASE k < i
        <3>1. i - k \in 1 .. l - k + 1 /\ k + (i - k) - 1 = i - 1 /\ ~(i <= k) /\ ~(i < k) /\ i # k BY <1>1, <2>3
        <3> QED BY <1>3, <1>5, <3>1
    <2> QED BY <1>1, <2>1, <2>2, <2>3
<1> QED BY <1>5, <1>6, <1>7

(* A row that goes lets those behind it move up. *)
LEMMA RemoveDoes ==
    ASSUME NEW T, NEW rows \in Seq(T), NEW k \in 1 .. Len(rows)
    PROVE  /\ RemoveAt(rows, k) \in Seq(T) /\ Len(RemoveAt(rows, k)) = Len(rows) - 1
           /\ \A i \in 1 .. Len(rows) - 1 : RemoveAt(rows, k)[i] = IF i < k THEN rows[i] ELSE rows[i + 1]
<1> DEFINE l == Len(rows)
           a == SubSeq(rows, 1, k - 1)
           b == SubSeq(rows, k + 1, l)
           s == a \o b
<1>1. l \in Nat /\ DOMAIN rows = 1 .. l /\ k \in Nat /\ 1 <= k /\ k <= l /\ \A i \in 1 .. l : rows[i] \in T
    OBVIOUS
<1>2. a \in Seq(T) /\ Len(a) = k - 1 /\ \A i \in 1 .. k - 1 : a[i] = rows[i]
    <2>1. \A i \in 1 .. k - 1 : i \in 1 .. l
        <3> HIDE DEF l
        <3> QED BY <1>1
    <2>2. 1 \in Int /\ k - 1 \in Int BY <1>1
    <2>3. /\ a \in Seq(T) /\ Len(a) = IF 1 <= k - 1 THEN k - 1 - 1 + 1 ELSE 0
          /\ \A i \in 1 .. k - 1 - 1 + 1 : a[i] = rows[1 + i - 1]
        BY <1>1, <2>1, <2>2, SubSeqProperties
    <2> HIDE DEF a, l
    <2>4. k - 1 - 1 + 1 = k - 1 /\ \A i \in 1 .. k - 1 : 1 + i - 1 = i BY <1>1
    <2>5. Len(a) = k - 1 BY <1>1, <2>3
    <2> QED BY <2>3, <2>4, <2>5
<1>3. b \in Seq(T) /\ Len(b) = l - k /\ \A i \in 1 .. l - k : b[i] = rows[k + i]
    <2>1. \A i \in k + 1 .. l : i \in 1 .. l
        <3> HIDE DEF l
        <3> QED BY <1>1
    <2>2. k + 1 \in Int /\ l \in Int BY <1>1
    <2>3. /\ b \in Seq(T) /\ Len(b) = IF k + 1 <= l THEN l - (k + 1) + 1 ELSE 0
          /\ \A i \in 1 .. l - (k + 1) + 1 : b[i] = rows[k + 1 + i - 1]
        BY <1>1, <2>1, <2>2, SubSeqProperties
    <2> HIDE DEF b, l
    <2>4. l - (k + 1) + 1 = l - k /\ \A i \in 1 .. l - k : k + 1 + i - 1 = k + i BY <1>1
    <2>5. Len(b) = l - k BY <1>1, <2>3
    <2> QED BY <2>3, <2>4, <2>5
<1> HIDE DEF a, b
<1>4. s \in Seq(T) /\ Len(s) = l - 1 /\ \A i \in 1 .. l - 1 : s[i] = IF i <= k - 1 THEN a[i] ELSE b[i - (k - 1)]
    <2>0. a \in Seq(T) /\ b \in Seq(T) BY <1>2, <1>3
    <2>1. s \in Seq(T) /\ Len(s) = Len(a) + Len(b) BY <2>0
    <2>2. \A i \in 1 .. Len(s) : s[i] = IF i <= Len(a) THEN a[i] ELSE b[i - Len(a)] BY <2>0
    <2> HIDE DEF s, l
    <2>3. Len(s) = l - 1 BY <1>1, <1>2, <1>3, <2>1
    <2> QED BY <1>2, <2>1, <2>2, <2>3
<1>5. RemoveAt(rows, k) = s BY DEF RemoveAt, a, b
<1> HIDE DEF s
<1>6. ASSUME NEW i \in 1 .. l - 1 PROVE s[i] = IF i < k THEN rows[i] ELSE rows[i + 1]
    <2> HIDE DEF l
    <2>1. CASE i < k
        <3>1. i \in 1 .. k - 1 /\ i <= k - 1 BY <1>1, <2>1
        <3> QED BY <1>2, <1>4, <2>1, <3>1
    <2>2. CASE ~(i < k)
        <3>1. i - (k - 1) \in 1 .. l - k /\ k + (i - (k - 1)) = i + 1 /\ ~(i <= k - 1) BY <1>1, <2>2
        <3> QED BY <1>3, <1>4, <2>2, <3>1
    <2> QED BY <2>1, <2>2
<1> QED BY <1>4, <1>5, <1>6

-----------------------------------------------------------------------------
(* The tree built from the rows. *)

LEMMA LeastOf ==
    ASSUME NEW S, S \subseteq Nat, S # {}
    PROVE  \E n \in S : \A m \in S : ~(m < n)
<1> DEFINE R == {x \in Nat \X Nat : x[1] < x[2]}
<1>1. IsWellFoundedOn(OpToRel(<, Nat), Nat) BY NatLessThanWellFounded
<1>2. OpToRel(<, Nat) = R BY DEF OpToRel
<1>3. IsWellFoundedOn(R, Nat) BY <1>1, <1>2
<1>4. PICK n \in S : \A m \in S : ~ <<m, n>> \in R
    <2> HIDE DEF R
    <2> QED BY <1>3, WFMin
<1> QED BY <1>4

(* The levels of the walk, by the number of steps from the top. *)
Level(known, v, level) ==
    IF level = 0 THEN Tops(known)
    ELSE LET before == v[level - 1] IN before \cup {f \in known : siShape.folder[f] \in before}

(* There is a function that is defined by its own smaller values. *)
LEMMA LevelsExist ==
    ASSUME NEW known, NEW n \in Nat
    PROVE  \E v : v = [level \in 0 .. n |-> Level(known, v, level)]
<1> DEFINE Without == {m \in Nat : ~ \E v : v = [level \in 0 .. m |-> Level(known, v, level)]}
<1>1. Without = {}
    <2> SUFFICES ASSUME Without # {} PROVE FALSE OBVIOUS
    <2>1. PICK m \in Without : \A i \in Without : ~(i < m)
        <3>1. Without \subseteq Nat OBVIOUS
        <3> HIDE DEF Without
        <3> QED BY <3>1, LeastOf
    <2>2. m \in Nat OBVIOUS
    <2>3. CASE m = 0
        <3> DEFINE v == [level \in 0 .. 0 |-> Tops(known)]
        <3>1. v = [level \in 0 .. m |-> Level(known, v, level)] BY <2>3 DEF Level
        <3> QED BY <3>1
    <2>4. CASE m # 0
        <3>1. m - 1 \in Nat /\ m - 1 < m BY <2>2, <2>4
        <3>2. m - 1 \notin Without BY <2>1, <3>1
        <3>3. PICK u : u = [level \in 0 .. m - 1 |-> Level(known, u, level)] BY <3>1, <3>2
        <3> DEFINE v == [level \in 0 .. m |-> IF level = m THEN Level(known, u, m) ELSE u[level]]
        <3>4. \A level \in 0 .. m : level # m => level \in 0 .. m - 1 BY <2>2
        <3>5. \A level \in 0 .. m : level # 0 => level - 1 \in 0 .. m /\ level - 1 \in 0 .. m - 1 /\ level - 1 # m
            BY <2>2
        <3>6. \A level \in 0 .. m : level # 0 => v[level - 1] = u[level - 1] BY <3>5
        <3>7. \A level \in 0 .. m : Level(known, v, level) = Level(known, u, level) BY <3>6 DEF Level
        <3>8. \A level \in 0 .. m : v[level] = Level(known, u, level) BY <3>3, <3>4
        <3>9. v = [level \in 0 .. m |-> Level(known, v, level)]
            <4>1. v = [level \in 0 .. m |-> v[level]] OBVIOUS
            <4> HIDE DEF v
            <4> QED BY <3>7, <3>8, <4>1
        <3> QED BY <3>9
    <2> QED BY <2>3, <2>4
<1> QED BY <1>1

LEMMA ReachedByLevels ==
    ASSUME NEW known, Cardinality(known) \in Nat
    PROVE  \E v : /\ v = [level \in 0 .. Cardinality(known) |-> Level(known, v, level)]
                  /\ Reached(known) = v[Cardinality(known)]
<1> DEFINE n == Cardinality(known)
           w == CHOOSE v : v = [level \in 0 .. n |-> Level(known, v, level)]
<1>1. \E v : v = [level \in 0 .. n |-> Level(known, v, level)] BY LevelsExist
<1>2. w = [level \in 0 .. n |-> Level(known, w, level)] BY <1>1, Zenon
<1>3. Reached(known) = w[n] BY DEF Reached, Level
<1> HIDE DEF w
<1> QED BY <1>2, <1>3

(* All folders that are not the top hang below another one: any set of      *)
(* them has one whose parent is outside.                                   *)
LEMMA ATree ==
    ASSUME NEW known, IsFiniteSet(known), Cardinality(Tops(known)) = 1, Reached(known) = known
    PROVE  \E top \in known : \A S \in SUBSET (known \ {top}) :
               S # {} => \E f \in S : siShape.folder[f] \in known \ S
<1> DEFINE n == Cardinality(known)
<1>1. n \in Nat BY FS_CardinalityType
<1>2. PICK v : v = [level \in 0 .. n |-> Level(known, v, level)] /\ known = v[n]
    BY <1>1, ReachedByLevels
<1> HIDE DEF n
<1>3. PICK top : Tops(known) = {top}
    <2>1. IsFiniteSet(Tops(known)) BY FS_Subset DEF Tops
    <2> QED BY <2>1, FS_Singleton
<1>4. top \in known BY <1>3 DEF Tops
<1>5. \A level \in 0 .. n : v[level] = Level(known, v, level) BY <1>2
<1>5a. v[0] = {top}
    <2>1. 0 \in 0 .. n BY <1>1
    <2>2. v[0] = Level(known, v, 0) BY <1>5, <2>1
    <2>3. Level(known, v, 0) = Tops(known) BY DEF Level
    <2> QED BY <1>3, <2>2, <2>3
<1>6. ASSUME NEW S \in SUBSET (known \ {top}), S # {} PROVE \E f \in S : siShape.folder[f] \in known \ S
    <2> DEFINE Hit == {level \in 0 .. n : S \cap v[level] # {}}
    <2>1. n \in Hit
        <3>1. n \in 0 .. n BY <1>1
        <3> QED BY <1>2, <1>6, <3>1
    <2>2. PICK m \in Hit : \A i \in Hit : ~(i < m)
        <3>1. Hit \subseteq Nat OBVIOUS
        <3> HIDE DEF Hit
        <3> QED BY <2>1, <3>1, LeastOf
    <2>3. m \in 0 .. n OBVIOUS
    <2>4. m # 0 BY <1>5a, <1>6
    <2>5. m - 1 \in 0 .. n /\ m - 1 < m BY <2>3, <2>4, <1>1
    <2>6. S \cap v[m - 1] = {}
        <3>1. m - 1 \notin Hit BY <2>2, <2>5
        <3> QED BY <2>5, <3>1
    <2>7. PICK f : f \in S /\ f \in v[m] BY <2>2
    <2>8. v[m] = v[m - 1] \cup {g \in known : siShape.folder[g] \in v[m - 1]} BY <1>5, <2>3, <2>4 DEF Level
    <2>9. siShape.folder[f] \in v[m - 1] BY <2>6, <2>7, <2>8
    <2>10. v[m - 1] \subseteq known
        <3> DEFINE Out == {level \in 0 .. n : ~(v[level] \subseteq known)}
        <3> SUFFICES ASSUME Out # {} PROVE FALSE BY <2>5
        <3>1. PICK l \in Out : \A i \in Out : ~(i < l)
            <4>1. Out \subseteq Nat OBVIOUS
            <4> HIDE DEF Out
            <4> QED BY <4>1, LeastOf
        <3>2. l \in 0 .. n OBVIOUS
        <3>3. l # 0 BY <1>4, <1>5a
        <3>4. l - 1 \in 0 .. n /\ l - 1 < l BY <3>2, <3>3, <1>1
        <3>5. v[l - 1] \subseteq known BY <3>1, <3>4
        <3>6. v[l] = v[l - 1] \cup {g \in known : siShape.folder[g] \in v[l - 1]} BY <1>5, <3>2, <3>3 DEF Level
        <3> QED BY <3>5, <3>6
    <2> QED BY <2>6, <2>7, <2>9, <2>10
<1> QED BY <1>4, <1>6

-----------------------------------------------------------------------------
(* The listing by pages, and the walk when it gives up. *)

RowsOK ==
    /\ siRows["folders"] \in Seq(Folders) /\ siRows["files"] \in Seq(SiFiles)
    /\ siRows = [c \in Collections |-> siRows[c]]
    /\ \A c \in Collections : IsInjective(siRows[c])

Fetch == [offset : Nat, items : SUBSET (Folders \cup SiFiles), done : BOOLEAN, odd : BOOLEAN]

First(c) == IF c = "folders" THEN Range(siRows["folders"]) ELSE Range(SiAtFirst)
Added(c) == IF c = "folders" THEN 0 ELSE Len(siRows["files"]) - Len(SiAtFirst)

(* Whatever is fetched is or was a row; from a server that heeds the offset *)
(* all rows up to it have come, and after the last page all there were from *)
(* the beginning, if fewer than a page were added.                         *)
SiInv ==
    /\ WalkInv /\ siRoute \in {"json", "done", "top", "walk"} /\ (siRoute # "walk" => Idle)
    /\ RowsOK /\ siPager \in [Collections -> Fetch] /\ siServer.cap \in Nat \ {0} /\ siRemoved \subseteq SiFiles
    /\ siPager["folders"].items \subseteq Range(siRows["folders"])
    /\ siPager["files"].items \subseteq Range(siRows["files"]) \cup siRemoved
    /\ siRoute \in {"json", "done"} /\ ~siServer.ignores /\ siRemoved = {} =>
           \A c \in Collections :
               /\ Swept(siRows[c], siPager[c].offset, siPager[c].items, First(c), Added(c))
               /\ siPager[c].done /\ Added(c) < siServer.cap => First(c) \subseteq siPager[c].items
    /\ siRoute = "done" => \A c \in Collections : siPager[c].done
    /\ IsATree

LEMMA SiInitInv == SiInit => SiInv
<1> SUFFICES ASSUME SiInit PROVE SiInv
    OBVIOUS
<1>1. Idle BY DEF SiInit, Idle
<1>2. WalkInv BY <1>1, IdleInv
<1>3. siServer.cap \in Nat \ {0}
    <2>1. siServer \in [cap : SiCaps, ignores : BOOLEAN] BY DEF SiInit
    <2>2. siServer.cap \in SiCaps BY <2>1
    <2>3. siServer.cap \in 1 .. SiPage /\ SiPage \in Nat BY <2>2, SiAssumption
    <2> QED BY <2>3
<1>4. PICK o \in SiOrders : siRows = [c \in Collections |-> IF c = "folders" THEN o ELSE SiAtFirst]
    BY DEF SiInit
<1>5. siRows["folders"] = o /\ siRows["files"] = SiAtFirst
    BY <1>4 DEF Collections
<1>6. RowsOK
    BY <1>4, <1>5, SiAssumption DEF RowsOK, Collections
<1>7. /\ siPager \in [Collections -> Fetch]
      /\ \A c \in Collections : siPager[c].items = {} /\ siPager[c].offset = 0 /\ ~siPager[c].done
    BY DEF SiInit, NothingFetched, Fetch
<1>8. ASSUME NEW c \in Collections
      PROVE  Swept(siRows[c], siPager[c].offset, siPager[c].items, First(c), Added(c))
    <2>1. First(c) = Range(siRows[c]) /\ Added(c) = 0
        <3>1. Len(SiAtFirst) \in Nat BY SiAssumption
        <3> QED BY <1>5, <3>1 DEF First, Added, Collections
    <2>2. Len(siRows[c]) \in Nat /\ DOMAIN siRows[c] = 1 .. Len(siRows[c])
        BY <1>6 DEF RowsOK, Collections
    <2> QED BY <1>7, <2>1, <2>2 DEF Swept
<1>9. siRoute = "json" /\ siRemoved = {} BY DEF SiInit
<1> QED BY <1>1, <1>2, <1>3, <1>6, <1>7, <1>8, <1>9 DEF SiInv, Collections, IsATree

LEMMA FallsBackInv ==
    ASSUME SiInv, siRoute = "json", FallsBack
    PROVE  SiInv'
<1>1. WalkInv' /\ Idle'
    BY DEF SiInv, FallsBack, WalkInv, TypeOK, Pending, Idle, vars
<1>2. siRoute' = "top" /\ siRemoved' = {} /\ siServer'.cap \in Nat \ {0}
    BY SiAssumption DEF FallsBack, Forgets
<1>3. siRows' = [c \in Collections |-> <<>>]
    BY DEF FallsBack, Forgets
<1>4. RowsOK'
    <2>1. <<>> \in Seq(Folders) /\ <<>> \in Seq(SiFiles) /\ DOMAIN <<>> = {} OBVIOUS
    <2>2. IsInjective(<<>>) BY <2>1 DEF IsInjective
    <2> QED BY <1>3, <2>1, <2>2 DEF RowsOK, Collections
<1>5. siPager' \in [Collections -> Fetch] /\ \A c \in Collections : siPager'[c].items = {}
    BY DEF FallsBack, Forgets, NothingFetched, Fetch
<1> QED BY <1>1, <1>2, <1>4, <1>5 DEF SiInv, IsATree, Collections

(* The top folder comes or does not. *)
LEMMA TopInv ==
    ASSUME SiInv, TopAnswer \/ TopFails
    PROVE  SiInv'
<1>1. Idle /\ siRoute' = "walk" /\ UNCHANGED <<siRows, siShape, siServer, siPager, siRemoved>>
    BY DEF SiInv, TopAnswer, TopFails
<1>2. WalkInv'
    <2>1. CASE TopAnswer BY <1>1, <2>1, BeginsInv DEF TopAnswer
    <2>2. CASE TopFails
        <3>1. failures \in 0 .. MaxFailures /\ MaxFailures \in Nat /\ failures < MaxFailures /\ failures' = failures + 1
            BY <2>2, LimitAssumption DEF SiInv, WalkInv, TypeOK, TopFails
        <3>2. failures' \in 0 .. MaxFailures /\ failures' > 0 BY <3>1
        <3>3. phase' = [phase EXCEPT ![Root] = "failed"] /\ UNCHANGED <<queue, active, flying, answers, listed>>
            BY <2>2 DEF TopFails
        <3>4. Pending = {} /\ \A f \in Folders : phase[f] = "unknown" /\ Root \notin Subfolders[f] /\ Subfolders[f] \subseteq Folders
            BY <1>1, TreeAssumption DEF Idle, NotBegun, Pending, Range
        <3>5. Pending' = {} BY <3>3, <3>4 DEF Pending
        <3>6. TypeOK' /\ Slotted(flying', active', queue') BY <3>2, <3>3 DEF SiInv, WalkInv, TypeOK
        <3>7. phase' = [f \in Folders |-> IF f = Root THEN "failed" ELSE "unknown"] BY <1>1, <3>3 DEF Idle, NotBegun
        <3>8. answers' = [f \in Folders |-> {}] /\ listed' = {} BY <1>1, <3>3 DEF Idle
        <3> QED BY <3>2, <3>4, <3>5, <3>6, <3>7, <3>8 DEF WalkInv
    <2> QED BY <2>1, <2>2
<1>3. RowsOK' BY <1>1 DEF SiInv, RowsOK
<1> QED BY <1>1, <1>2, <1>3 DEF SiInv, IsATree

LEMMA RowsBounded ==
    ASSUME RowsOK, NEW c \in Collections
    PROVE  /\ Beyond \in Nat /\ Len(siRows[c]) <= Beyond
           /\ \E T : siRows[c] \in Seq(T) /\ T \subseteq Folders \cup SiFiles
<1>1. Len(siRows["folders"]) <= Cardinality(Folders) /\ Cardinality(Folders) \in Nat
    BY TreeAssumption, NoLongerThanItsSet DEF RowsOK, Collections
<1>2. Len(siRows["files"]) <= Cardinality(SiFiles) /\ Cardinality(SiFiles) \in Nat
    BY SiAssumption, NoLongerThanItsSet DEF RowsOK, Collections
<1>3. Len(siRows["folders"]) \in Nat /\ Len(siRows["files"]) \in Nat
    BY DEF RowsOK
<1>4. Beyond \in Nat /\ Len(siRows[c]) <= Beyond
    BY <1>1, <1>2, <1>3 DEF Beyond, Collections
<1>5. \E T : siRows[c] \in Seq(T) /\ T \subseteq Folders \cup SiFiles
    BY DEF RowsOK, Collections
<1> QED BY <1>4, <1>5

(* A page comes from the rows. *)
LEMMA PageIsOfRows ==
    ASSUME SiInv, NEW c \in Collections
    PROVE  /\ Range(PageOf(c)) \subseteq Range(siRows[c]) /\ Len(PageOf(c)) \in Nat
           /\ Page(c) \in Fetch
<1>1. PICK T : siRows[c] \in Seq(T) /\ T \subseteq Folders \cup SiFiles
    BY RowsBounded DEF SiInv
<1>2. Beyond \in Nat BY RowsBounded DEF SiInv
<1> DEFINE from == IF siServer.ignores THEN 0 ELSE siPager[c].offset
           e == SmallerOf(from + siServer.cap, Len(siRows[c]))
           rows == siRows[c]
           pg == SubSeq(rows, from + 1, e)
<1>3. siPager[c] \in Fetch BY DEF SiInv
<1>4. from \in Nat BY <1>3 DEF Fetch
<1>5. Len(rows) \in Nat /\ DOMAIN rows = 1 .. Len(rows) BY <1>1
<1>6. siServer.cap \in Nat BY DEF SiInv
<1> HIDE DEF from
<1>7. e \in Nat /\ e <= Len(rows)
    BY <1>4, <1>5, <1>6 DEF SmallerOf
<1>8. PageOf(c) = pg BY DEF PageOf, from
<1> HIDE DEF e, rows
<1>9. \A i \in from + 1 .. e : i \in DOMAIN rows BY <1>4, <1>5, <1>7
<1>10. pg \in Seq(Range(rows))
    <2>1. \A i \in from + 1 .. e : rows[i] \in Range(rows) BY <1>9 DEF Range
    <2>2. from + 1 \in Int /\ e \in Int BY <1>4, <1>7
    <2> QED BY <2>1, <2>2, SubSeqProperties
<1> HIDE DEF pg
<1>11. Range(pg) \subseteq Range(rows) /\ Len(pg) \in Nat BY <1>10 DEF Range
<1>12. Range(rows) \subseteq Folders \cup SiFiles
    <2>1. \A i \in DOMAIN rows : rows[i] \in T BY <1>1 DEF rows
    <2> QED BY <1>1, <2>1 DEF Range
<1>13. Page(c) \in Fetch
    <2> DEFINE fresh == Range(PageOf(c)) \ siPager[c].items
               o == IF fresh = {} THEN siPager[c].offset ELSE SmallerOf(siPager[c].offset + Len(PageOf(c)), Beyond)
    <2>1. o \in Nat BY <1>2, <1>3, <1>8, <1>11 DEF Fetch, SmallerOf
    <2>2. siPager[c].items \cup fresh \in SUBSET (Folders \cup SiFiles) BY <1>3, <1>8, <1>11, <1>12 DEF Fetch
    <2>3. Page(c) = [offset |-> o, items |-> siPager[c].items \cup fresh, done |-> fresh = {}, odd |-> ~siPager[c].odd]
        BY DEF Page
    <2> HIDE DEF o
    <2>4. (fresh = {}) \in BOOLEAN /\ (~siPager[c].odd) \in BOOLEAN OBVIOUS
    <2> HIDE DEF fresh
    <2> QED BY <2>1, <2>2, <2>3, <2>4 DEF Fetch
<1> QED BY <1>8, <1>11, <1>13 DEF rows

LEMMA PageInv ==
    ASSUME SiInv, siRoute = "json", NEW c \in Collections,
           siPager' = [siPager EXCEPT ![c] = Page(c)], siRoute' \in {"json", "done"},
           siRoute' = "done" => (\A d \in Collections : siPager'[d].done) /\ AddsUp(siPager'),
           UNCHANGED <<vars, siRows, siShape, siServer, siRemoved>>
    PROVE  SiInv'
<1> DEFINE fresh == Range(PageOf(c)) \ siPager[c].items
<1>1. \A d \in Collections : siPager'[d] = IF d = c THEN Page(c) ELSE siPager[d]
    BY DEF SiInv
<1>2. Page(c).items = siPager[c].items \cup fresh /\ Page(c).done = (fresh = {})
      /\ Page(c).offset = IF fresh = {} THEN siPager[c].offset ELSE SmallerOf(siPager[c].offset + Len(PageOf(c)), Beyond)
    BY DEF Page
<1> HIDE DEF fresh
<1>3. Range(PageOf(c)) \subseteq Range(siRows[c]) /\ Page(c) \in Fetch
    BY PageIsOfRows
<1>4. siPager' \in [Collections -> Fetch] BY <1>3 DEF SiInv
<1>5. WalkInv' /\ Idle' /\ RowsOK'
    <2>1. WalkInv' BY DEF SiInv, vars, WalkInv, TypeOK, Pending
    <2>2. Idle' BY DEF SiInv, vars, Idle
    <2>3. RowsOK' BY DEF SiInv, RowsOK
    <2> QED BY <2>1, <2>2, <2>3
<1>6. siPager'["folders"].items \subseteq Range(siRows'["folders"])
    BY <1>1, <1>2, <1>3 DEF SiInv, fresh, Collections
<1>7. siPager'["files"].items \subseteq Range(siRows'["files"]) \cup siRemoved'
    BY <1>1, <1>2, <1>3 DEF SiInv, fresh, Collections
<1>8. ASSUME ~siServer.ignores, siRemoved = {}, NEW d \in Collections
      PROVE  /\ Swept(siRows[d], siPager'[d].offset, siPager'[d].items, First(d), Added(d))
             /\ siPager'[d].done /\ Added(d) < siServer.cap => First(d) \subseteq siPager'[d].items
    <2>1. /\ Swept(siRows[d], siPager[d].offset, siPager[d].items, First(d), Added(d))
          /\ siPager[d].done /\ Added(d) < siServer.cap => First(d) \subseteq siPager[d].items
        BY <1>8 DEF SiInv
    <2>2. CASE d # c BY <1>1, <2>1, <2>2
    <2>3. CASE d = c
        <3>1. PICK T : siRows[c] \in Seq(T) BY RowsBounded DEF SiInv
        <3>2. Beyond \in Nat /\ Len(siRows[c]) <= Beyond BY RowsBounded DEF SiInv
        <3>3. IsInjective(siRows[c]) /\ siServer.cap \in Nat \ {0} BY DEF SiInv, RowsOK
        <3>4. PageOf(c) = SubSeq(siRows[c], siPager[c].offset + 1, SmallerOf(siPager[c].offset + siServer.cap, Len(siRows[c])))
            BY <1>8 DEF PageOf
        <3>5. fresh = Range(PageOf(c)) \ siPager[c].items BY DEF fresh
        <3>6. Swept(siRows[c], siPager[c].offset, siPager[c].items, First(c), Added(c)) BY <2>1, <2>3
        <3>7. /\ Swept(siRows[c], Page(c).offset, siPager[c].items \cup fresh, First(c), Added(c))
              /\ fresh = {} /\ Added(c) < siServer.cap => First(c) \subseteq siPager[c].items
            <4> DEFINE rows == siRows[c]
                       offset == siPager[c].offset
                       items == siPager[c].items
                       first == First(c)
                       added == Added(c)
                       cap == siServer.cap
                       next == Page(c).offset
            <4>1. /\ rows \in Seq(T) /\ IsInjective(rows) /\ Len(rows) <= Beyond /\ cap \in Nat \ {0}
                  /\ Swept(rows, offset, items, first, added)
                  /\ Round(rows, offset, items, cap, Beyond, fresh, next)
                BY <1>2, <3>1, <3>2, <3>3, <3>4, <3>5, <3>6 DEF Round
            <4> HIDE DEF rows, offset, items, first, added, cap, next
            <4>2. /\ Swept(rows, next, items \cup fresh, first, added)
                  /\ fresh = {} /\ added < cap => first \subseteq items
                BY <3>2, <4>1, PageSweeps
            <4> QED BY <4>2 DEF rows, offset, items, first, added, cap, next
        <3>8. siPager'[d] = Page(c) BY <1>1, <2>3
        <3> QED BY <1>2, <2>3, <3>7, <3>8
    <2> QED BY <2>2, <2>3
<1>9. \A d \in Collections : First(d)' = First(d) /\ Added(d)' = Added(d)
    BY DEF First, Added
<1>10. IsATree'
    <2> SUFFICES ASSUME siRoute' = "done" PROVE IsATree'
        BY DEF IsATree
    <2> DEFINE known == siPager'["folders"].items
    <2>1. AddsUp(siPager') OBVIOUS
    <2>2. IsFiniteSet(known)
        <3>1. known \subseteq Folders
            <4>1. \A i \in DOMAIN siRows["folders"] : siRows["folders"][i] \in Folders BY DEF SiInv, RowsOK
            <4> QED BY <1>6, <4>1 DEF Range
        <3> QED BY <3>1, TreeAssumption, FS_Subset
    <2>3. Cardinality(Tops(known)) = 1 /\ Reached(known) = known
          /\ \A x \in siPager'["files"].items : siShape.file[x] \in known
        BY <2>1 DEF AddsUp, SiFolders
    <2> HIDE DEF known
    <2>4. \E top \in known : \A S \in SUBSET (known \ {top}) :
               S # {} => \E f \in S : siShape.folder[f] \in known \ S
        BY <2>2, <2>3, ATree
    <2> QED BY <2>3, <2>4 DEF IsATree, SiFolders, known
<1> QED BY <1>4, <1>5, <1>6, <1>7, <1>8, <1>9, <1>10 DEF SiInv

LEMMA SiAnswerInv ==
    ASSUME SiInv, NEW c \in Collections, SiAnswer(c)
    PROVE  SiInv'
<1> DEFINE pager == [siPager EXCEPT ![c] = Page(c)]
           over == \A d \in Collections : pager[d].done
<1>1. CASE over /\ ~AddsUp(pager)
    BY <1>1, FallsBackInv DEF SiAnswer
<1>2. CASE ~(over /\ ~AddsUp(pager))
    <2>1. siRoute = "json" /\ siPager' = pager /\ siRoute' = (IF over THEN "done" ELSE "json")
          /\ UNCHANGED <<vars, siRows, siShape, siServer, siRemoved>>
        BY <1>2 DEF SiAnswer
    <2> QED BY <1>2, <2>1, PageInv
<1> QED BY <1>1, <1>2

LEMMA SiRemoveInv ==
    ASSUME SiInv, NEW x \in SiFiles, SiRemove(x)
    PROVE  SiInv'
<1> DEFINE rows == siRows["files"]
<1>1. PICK k \in DOMAIN rows : rows[k] = x /\ siRows' = [siRows EXCEPT !["files"] = RemoveAt(@, k)]
    BY DEF SiRemove
<1>2. siRows'["files"] = RemoveAt(rows, k) /\ siRows'["folders"] = siRows["folders"]
      /\ siRows' = [c \in Collections |-> siRows'[c]]
    BY <1>1 DEF SiInv, RowsOK, Collections
<1>3. rows \in Seq(SiFiles) /\ IsInjective(rows) /\ IsInjective(siRows["folders"])
    BY DEF SiInv, RowsOK, Collections
<1> DEFINE new == siRows'["files"]
<1> HIDE DEF rows, new
<1>4. Len(rows) \in Nat /\ DOMAIN rows = 1 .. Len(rows) /\ k \in 1 .. Len(rows)
    BY <1>3
<1>5. /\ new \in Seq(SiFiles) /\ Len(new) = Len(rows) - 1
      /\ \A i \in 1 .. Len(rows) - 1 : new[i] = IF i < k THEN rows[i] ELSE rows[i + 1]
    <2> DEFINE del == RemoveAt(rows, k)
    <2>1. /\ del \in Seq(SiFiles) /\ Len(del) = Len(rows) - 1
          /\ \A i \in 1 .. Len(rows) - 1 : del[i] = IF i < k THEN rows[i] ELSE rows[i + 1]
        <3>1. rows \in Seq(SiFiles) /\ k \in 1 .. Len(rows) BY <1>3, <1>4
        <3> QED BY <3>1, RemoveDoes
    <2>2. new = del BY <1>2 DEF new
    <2> HIDE DEF del
    <2> QED BY <2>1, <2>2
<1>6. DOMAIN new = 1 .. Len(rows) - 1 BY <1>4, <1>5
<1>7. \A i \in 1 .. Len(rows) - 1 : i \in DOMAIN rows /\ i + 1 \in DOMAIN rows BY <1>4
<1>8. IsInjective(new)
    <2> SUFFICES ASSUME NEW i \in DOMAIN new, NEW j \in DOMAIN new, new[i] = new[j] PROVE i = j
        BY DEF IsInjective
    <2>1. i \in Nat /\ j \in Nat BY <1>4, <1>6
    <2>2. PICK p \in DOMAIN rows : new[i] = rows[p] /\ p = IF i < k THEN i ELSE i + 1 BY <1>5, <1>6, <1>7
    <2>3. PICK q \in DOMAIN rows : new[j] = rows[q] /\ q = IF j < k THEN j ELSE j + 1 BY <1>5, <1>6, <1>7
    <2>4. p = q BY <1>3, <2>2, <2>3 DEF IsInjective
    <2> QED BY <1>4, <2>1, <2>2, <2>3, <2>4
<1>9. Range(rows) \subseteq Range(new) \cup {x}
    <2> SUFFICES ASSUME NEW i \in DOMAIN rows, i # k PROVE rows[i] \in Range(new)
        BY <1>1 DEF Range, rows
    <2>1. CASE i < k
        <3>1. i \in 1 .. Len(rows) - 1 BY <1>4, <2>1
        <3>2. new[i] = rows[i] BY <1>5, <2>1, <3>1
        <3> QED BY <1>6, <3>1, <3>2 DEF Range
    <2>2. CASE k < i
        <3>1. i - 1 \in 1 .. Len(rows) - 1 /\ ~(i - 1 < k) /\ i - 1 + 1 = i BY <1>4, <2>2
        <3>2. new[i - 1] = rows[i] BY <1>5, <3>1
        <3> QED BY <1>6, <3>1, <3>2 DEF Range
    <2> QED BY <1>4, <2>1, <2>2
<1>10. /\ siRemoved' = siRemoved \cup {x} /\ siRoute = "json" /\ siRoute' = "json"
       /\ UNCHANGED <<vars, siShape, siServer, siPager>>
    BY DEF SiRemove
<1>11. WalkInv' /\ Idle'
    <2>1. WalkInv' BY <1>10 DEF SiInv, vars, WalkInv, TypeOK, Pending
    <2>2. Idle' BY <1>10 DEF SiInv, vars, Idle
    <2> QED BY <2>1, <2>2
<1>12. RowsOK'
    BY <1>2, <1>3, <1>5, <1>8 DEF RowsOK, Collections, new, SiInv
<1>13. siPager'["files"].items \subseteq Range(siRows'["files"]) \cup siRemoved'
    BY <1>9, <1>10 DEF SiInv, rows, new
<1>14. siPager'["folders"].items \subseteq Range(siRows'["folders"])
    BY <1>2, <1>10 DEF SiInv
<1> QED BY <1>10, <1>11, <1>12, <1>13, <1>14 DEF SiInv, IsATree

LEMMA SiAddInv ==
    ASSUME SiInv, NEW x \in SiFiles, SiAdd(x)
    PROVE  SiInv'
<1> DEFINE rows == siRows["files"]
<1>1. PICK k \in 1 .. Len(rows) + 1 : siRows' = [siRows EXCEPT !["files"] = InsertAt(@, k, x)]
    BY DEF SiAdd
<1>2. siRows'["files"] = InsertAt(rows, k, x) /\ siRows'["folders"] = siRows["folders"]
      /\ siRows' = [c \in Collections |-> siRows'[c]]
    BY <1>1 DEF SiInv, RowsOK, Collections
<1>3. rows \in Seq(SiFiles) /\ IsInjective(rows) /\ IsInjective(siRows["folders"])
    BY DEF SiInv, RowsOK, Collections
<1>3a. x \notin Range(rows) /\ x \notin siRemoved BY DEF SiAdd
<1> DEFINE new == siRows'["files"]
<1> HIDE DEF rows, new
<1>4. Len(rows) \in Nat /\ DOMAIN rows = 1 .. Len(rows) /\ k \in Nat /\ 1 <= k /\ k <= Len(rows) + 1 /\ k \in 1 .. Len(rows) + 1
    BY <1>3
<1>5. /\ new \in Seq(SiFiles) /\ Len(new) = Len(rows) + 1
      /\ \A i \in 1 .. Len(rows) + 1 : new[i] = IF i < k THEN rows[i] ELSE IF i = k THEN x ELSE rows[i - 1]
    <2> DEFINE ins == InsertAt(rows, k, x)
    <2>1. /\ ins \in Seq(SiFiles) /\ Len(ins) = Len(rows) + 1
          /\ \A i \in 1 .. Len(rows) + 1 : ins[i] = IF i < k THEN rows[i] ELSE IF i = k THEN x ELSE rows[i - 1]
        <3>1. rows \in Seq(SiFiles) /\ k \in 1 .. Len(rows) + 1 BY <1>3, <1>4
        <3> QED BY <3>1, InsertDoes
    <2>2. new = ins BY <1>2 DEF new
    <2> HIDE DEF ins
    <2> QED BY <2>1, <2>2
<1>6. DOMAIN new = 1 .. Len(rows) + 1 BY <1>4, <1>5
<1>7. \A i \in DOMAIN new : \/ i < k /\ i \in DOMAIN rows /\ new[i] = rows[i]
                            \/ i = k /\ new[i] = x
                            \/ k < i /\ i - 1 \in DOMAIN rows /\ new[i] = rows[i - 1]
    <2> SUFFICES ASSUME NEW i \in 1 .. Len(rows) + 1
                 PROVE  \/ i < k /\ i \in DOMAIN rows /\ new[i] = rows[i]
                        \/ i = k /\ new[i] = x
                        \/ k < i /\ i - 1 \in DOMAIN rows /\ new[i] = rows[i - 1]
        BY <1>6
    <2>1. CASE i < k
        <3>1. i \in DOMAIN rows BY <1>4, <2>1
        <3> QED BY <1>5, <2>1, <3>1
    <2>2. CASE i = k BY <1>4, <1>5, <2>2
    <2>3. CASE k < i
        <3>1. i - 1 \in DOMAIN rows /\ ~(i < k) /\ i # k BY <1>4, <2>3
        <3> QED BY <1>5, <2>3, <3>1
    <2> QED BY <1>4, <2>1, <2>2, <2>3
<1>7a. \A i \in DOMAIN rows : rows[i] # x BY <1>3a DEF Range
<1>8. IsInjective(new)
    <2> SUFFICES ASSUME NEW i \in DOMAIN new, NEW j \in DOMAIN new, new[i] = new[j] PROVE i = j
        BY DEF IsInjective
    <2>1. i \in Nat /\ j \in Nat BY <1>4, <1>6
    <2>2. \A p, q \in DOMAIN rows : rows[p] = rows[q] => p = q BY <1>3 DEF IsInjective
    <2>3. CASE i = k \/ j = k BY <1>4, <1>7, <1>7a, <2>1, <2>3
    <2>4. CASE i # k /\ j # k
        <3>1. PICK p \in DOMAIN rows : new[i] = rows[p] /\ p = IF i < k THEN i ELSE i - 1 BY <1>4, <1>7, <2>1, <2>4
        <3>2. PICK q \in DOMAIN rows : new[j] = rows[q] /\ q = IF j < k THEN j ELSE j - 1 BY <1>4, <1>7, <2>1, <2>4
        <3>3. p = q BY <2>2, <3>1, <3>2
        <3> QED BY <1>4, <2>1, <2>4, <3>1, <3>2, <3>3
    <2> QED BY <2>3, <2>4
<1>9. Range(rows) \subseteq Range(new)
    <2> SUFFICES ASSUME NEW i \in DOMAIN rows PROVE rows[i] \in Range(new)
        BY DEF Range
    <2>1. CASE i < k
        <3>1. i \in 1 .. Len(rows) + 1 BY <1>4, <2>1
        <3>2. new[i] = rows[i] BY <1>5, <2>1, <3>1
        <3> QED BY <1>6, <3>1, <3>2 DEF Range
    <2>2. CASE ~(i < k)
        <3>1. i + 1 \in 1 .. Len(rows) + 1 /\ ~(i + 1 < k) /\ i + 1 # k /\ i + 1 - 1 = i BY <1>4, <2>2
        <3>2. new[i + 1] = rows[i] BY <1>5, <3>1
        <3> QED BY <1>6, <3>1, <3>2 DEF Range
    <2> QED BY <2>1, <2>2
<1>10. /\ siRoute = "json" /\ siRoute' = "json" /\ siRemoved' = siRemoved
       /\ UNCHANGED <<vars, siShape, siServer, siPager>>
    BY DEF SiAdd
<1>11. WalkInv' /\ Idle'
    <2>1. WalkInv' BY <1>10 DEF SiInv, vars, WalkInv, TypeOK, Pending
    <2>2. Idle' BY <1>10 DEF SiInv, vars, Idle
    <2> QED BY <2>1, <2>2
<1>12. RowsOK'
    BY <1>2, <1>3, <1>5, <1>8 DEF RowsOK, Collections, new, SiInv
<1>13. siPager'["files"].items \subseteq Range(siRows'["files"]) \cup siRemoved'
    BY <1>9, <1>10 DEF SiInv, rows, new
<1>14. siPager'["folders"].items \subseteq Range(siRows'["folders"])
    BY <1>2, <1>10 DEF SiInv
<1>15. ASSUME ~siServer.ignores, siRemoved = {}, NEW c \in Collections
       PROVE  /\ Swept(siRows'[c], siPager[c].offset, siPager[c].items, First(c)', Added(c)')
              /\ siPager[c].done /\ Added(c)' < siServer.cap => First(c)' \subseteq siPager[c].items
    <2>1. /\ Swept(siRows[c], siPager[c].offset, siPager[c].items, First(c), Added(c))
          /\ siPager[c].done /\ Added(c) < siServer.cap => First(c) \subseteq siPager[c].items
        BY <1>10, <1>15 DEF SiInv
    <2>2. CASE c = "folders"
        <3>1. First(c)' = First(c) /\ Added(c)' = Added(c) /\ siRows'[c] = siRows[c]
            BY <1>2, <2>2 DEF First, Added
        <3> QED BY <2>1, <3>1
    <2>3. CASE c = "files"
        <3> DEFINE offset == siPager[c].offset
                   items == siPager[c].items
                   first == Range(SiAtFirst)
                   added == Len(rows) - Len(SiAtFirst)
        <3>1. First(c) = first /\ First(c)' = first /\ Added(c) = added /\ Added(c)' = Len(new) - Len(SiAtFirst)
            BY <2>3 DEF First, Added, rows, new
        <3>2. Len(SiAtFirst) \in Nat BY SiAssumption
        <3>3. Added(c)' = added + 1 BY <1>4, <1>5, <3>1, <3>2
        <3>4. siRows[c] = rows /\ siRows'[c] = new BY <2>3 DEF rows, new
        <3>5. Swept(rows, offset, items, first, added) BY <2>1, <3>1, <3>4
        <3>6. x \notin items
            BY <1>3a, <1>15, <2>3 DEF SiInv, rows
        <3>7. siServer.cap \in Nat BY DEF SiInv
        <3>8. siPager[c].done /\ added < siServer.cap => first \subseteq items BY <2>1, <3>1
        <3> HIDE DEF offset, items, first, added
        <3>9. offset \in Nat /\ offset <= Len(rows) /\ added \in Nat /\ first \subseteq Range(rows)
            BY <3>5 DEF Swept
        <3>10. offset <= Len(new) /\ added + 1 \in Nat /\ first \subseteq Range(new)
            BY <1>4, <1>5, <1>9, <3>9
        <3>11. ASSUME NEW i \in DOMAIN new, i <= offset, new[i] \in first PROVE new[i] \in items
            <4>1. CASE i < k /\ i \in DOMAIN rows /\ new[i] = rows[i] BY <3>5, <3>11, <4>1 DEF Swept
            <4>2. CASE i = k /\ new[i] = x BY <1>3a, <3>9, <3>11, <4>2
            <4>3. CASE k < i /\ i - 1 \in DOMAIN rows /\ new[i] = rows[i - 1]
                <5>1. i - 1 <= offset BY <1>6, <3>9, <3>11
                <5> QED BY <3>5, <3>11, <4>3, <5>1 DEF Swept
            <4> QED BY <1>7, <4>1, <4>2, <4>3
        <3>12. ASSUME NEW i \in DOMAIN new, new[i] \in items PROVE i <= offset + (added + 1)
            <4>0. i \in Nat BY <1>4, <1>6
            <4>1. CASE i < k /\ i \in DOMAIN rows /\ new[i] = rows[i]
                <5>1. i <= offset + added BY <3>5, <3>12, <4>1 DEF Swept
                <5> QED BY <3>9, <4>0, <5>1
            <4>2. CASE i = k /\ new[i] = x BY <3>6, <3>12, <4>2
            <4>3. CASE k < i /\ i - 1 \in DOMAIN rows /\ new[i] = rows[i - 1]
                <5>1. i - 1 <= offset + added BY <3>5, <3>12, <4>3 DEF Swept
                <5> QED BY <3>9, <4>0, <5>1
            <4> QED BY <1>7, <4>1, <4>2, <4>3
        <3>13. Swept(new, offset, items, first, added + 1) BY <3>9, <3>10, <3>11, <3>12 DEF Swept
        <3>14. siPager[c].done /\ added + 1 < siServer.cap => first \subseteq items BY <3>7, <3>8, <3>9
        <3> QED BY <3>1, <3>3, <3>4, <3>13, <3>14 DEF offset, items
    <2> QED BY <2>2, <2>3 DEF Collections
<1> QED BY <1>10, <1>11, <1>12, <1>13, <1>14, <1>15 DEF SiInv, IsATree

LEMMA SiNextInv == SiInv /\ [SiNext]_siVars => SiInv'
<1> SUFFICES ASSUME SiInv, [SiNext]_siVars PROVE SiInv'
    OBVIOUS
<1>1. CASE Paging
    <2>1. PICK c \in Collections : SiAnswer(c) \/ SiFails(c) BY <1>1 DEF Paging
    <2> QED BY <2>1, SiAnswerInv, FallsBackInv DEF SiFails
<1>2. CASE Walking
    <2>1. WalkInv' BY <1>2, NextInv DEF Walking, SiInv
    <2>2. siRoute = "walk" /\ UNCHANGED <<siRows, siShape, siServer, siPager, siRoute, siRemoved>> BY <1>2 DEF Walking
    <2>3. RowsOK' BY <2>2 DEF SiInv, RowsOK
    <2> QED BY <2>1, <2>2, <2>3 DEF SiInv, IsATree
<1>3. CASE \E x \in SiFiles : SiRemove(x) \/ SiAdd(x) BY <1>3, SiRemoveInv, SiAddInv
<1>5. CASE TopAnswer \/ TopFails BY <1>5, TopInv
<1>4. CASE UNCHANGED siVars
    <2>1. UNCHANGED <<vars, siRows, siShape, siServer, siPager, siRoute, siRemoved>> BY <1>4 DEF siVars
    <2>2. WalkInv' BY <2>1 DEF SiInv, vars, WalkInv, TypeOK, Pending
    <2>3. siRoute' # "walk" => Idle' BY <2>1 DEF SiInv, vars, Idle
    <2>4. RowsOK' BY <2>1 DEF SiInv, RowsOK
    <2>5. IsATree' BY <2>1 DEF SiInv, IsATree, SiFolders
    <2>6. \A c \in Collections : First(c)' = First(c) /\ Added(c)' = Added(c) BY <2>1 DEF First, Added
    <2> QED BY <2>1, <2>2, <2>3, <2>4, <2>5, <2>6 DEF SiInv
<1> QED BY <1>1, <1>2, <1>3, <1>4, <1>5 DEF SiNext

LEMMA SiTells ==
    ASSUME SiInv
    PROVE  SiTypeOK /\ SlotsUsed /\ ListingTells
<1>1. SlotsUsed /\ Complete /\ OnlyTheWalkFails
    BY WalkTells DEF SiInv
<1>2. SiTypeOK
    BY DEF SiInv, SiTypeOK, WalkInv, RowsOK, Fetch
<1>3. NoRowLost
    <2> SUFFICES ASSUME siRoute = "done", siRemoved = {}, ~siServer.ignores,
                        Len(siRows["files"]) - Len(SiAtFirst) < siServer.cap
                 PROVE  /\ SiFolders(siPager) = Range(siRows["folders"])
                        /\ Range(SiAtFirst) \subseteq siPager["files"].items
        BY DEF NoRowLost
    <2>1. \A c \in Collections :
              Added(c) < siServer.cap => First(c) \subseteq siPager[c].items
        BY DEF SiInv
    <2>2. 0 < siServer.cap BY DEF SiInv
    <2>3. Range(siRows["folders"]) \subseteq siPager["folders"].items BY <2>1, <2>2 DEF First, Added, Collections
    <2>4. Range(SiAtFirst) \subseteq siPager["files"].items BY <2>1 DEF First, Added, Collections
    <2> QED BY <2>3, <2>4 DEF SiInv, SiFolders
<1>4. IsATree BY DEF SiInv
<1> QED BY <1>1, <1>2, <1>3, <1>4 DEF ListingTells

(* For any course, any server and any changes meanwhile, the listing of     *)
(* Stud.IP is in a state the code can read.                                *)
THEOREM ListingTypes == SiSpec => []SiTypeOK
<1>1. SiInit => SiInv BY SiInitInv
<1>2. SiInv /\ [SiNext]_siVars => SiInv' BY SiNextInv
<1>3. SiInv => SiTypeOK BY SiTells
<1> QED BY <1>1, <1>2, <1>3, PTL DEF SiSpec

(* However the listing goes, no slot of the limiter is lost or used twice,  *)
(* and none stands empty while a request waits.                            *)
THEOREM SlotsKept == SiSpec => []SlotsUsed
<1>1. SiInit => SiInv BY SiInitInv
<1>2. SiInv /\ [SiNext]_siVars => SiInv' BY SiNextInv
<1>3. SiInv => SlotsUsed BY SiTells
<1> QED BY <1>1, <1>2, <1>3, PTL DEF SiSpec

(* What a listing tells can be trusted on either route, however large the   *)
(* course, the pages and the cap of the server: the walk is complete, the   *)
(* pages lose no row unless one was removed or a page of them added, what   *)
(* is built from them is a tree, and only the api.php route can fail.      *)
THEOREM ListingIsTrusted == SiSpec => []ListingTells
<1>1. SiInit => SiInv BY SiInitInv
<1>2. SiInv /\ [SiNext]_siVars => SiInv' BY SiNextInv
<1>3. SiInv => ListingTells BY SiTells
<1> QED BY <1>1, <1>2, <1>3, PTL DEF SiSpec
=============================================================================
