------------------------------- MODULE Listing -------------------------------
(***************************************************************************)
(* listTree as a walk: traverse asks for a folder's entries and descends    *)
(* into all its subfolders at once, with every request going through the    *)
(* limiter of createLimiter.  IServ needs one request per folder, Stud.IP's *)
(* api.php two.  An action is the answer to a request, with all that runs   *)
(* before the next one comes in, or a promise that settles.                 *)
(***************************************************************************)
EXTENDS Naturals, Sequences, FiniteSets, SequencesExt

CONSTANTS
    Folders, Root,
    Subfolders,     \* Subfolders[f]: the folders directly in f
    Requests,       \* what traverse asks for per folder: <<"all">>, or <<"files", "subfolders">>
    MaxActive,      \* TREE_CONCURRENCY
    MaxFailures     \* bound on requests that fail

ASSUME TreeAssumption ==
    /\ Root \in Folders /\ Subfolders \in [Folders -> SUBSET Folders]
    /\ \A f, g \in Folders : f # g => Subfolders[f] \cap Subfolders[g] = {}
    /\ \A f \in Folders : Root \notin Subfolders[f] /\ f \notin Subfolders[f]
    \* The folders of a course are those below its top folder.
    /\ IsFiniteSet(Folders)
    /\ \A S \in SUBSET Folders : Root \in S /\ (\A f \in S : Subfolders[f] \subseteq S) => S = Folders
ASSUME LimitAssumption == MaxActive \in Nat \ {0} /\ MaxFailures \in Nat
ASSUME RequestsAssumption ==
    Requests \in Seq(Range(Requests)) /\ Len(Requests) > 0 /\ IsInjective(Requests)

VARIABLES
    queue,      \* requests waiting for a slot, in the order they were made
    active,     \* slots in use
    flying,     \* requests on their way
    answers,    \* per folder: what has been answered
    phase,      \* per folder: the promise of its traverse
    listed,     \* the folders whose entries are in the result
    failures

vars == <<queue, active, flying, answers, phase, listed, failures>>

Asked == Range(Requests)
Calls == Folders \X Asked

TypeOK ==
    /\ queue \in Seq(Calls) /\ flying \subseteq Calls /\ active \in Nat
    /\ answers \in [Folders -> SUBSET Asked]
    /\ phase \in [Folders -> {"unknown", "asking", "descending", "ok", "failed"}]
    /\ listed \subseteq Folders /\ failures \in 0 .. MaxFailures

(* limit(): a request takes a free slot or waits.  After an answer the     *)
(* slots in use are those of the requests in busy.                         *)
SmallerOf(m, n) == IF m < n THEN m ELSE n
Starts(free, waiting) == SmallerOf(free, Len(waiting))

Overbooks(busy, used, waiting) ==   \* mutant of Pump: one slot too many
    LET n == Starts(MaxActive + 1 - used, waiting) IN
    /\ flying' = busy \cup {waiting[i] : i \in 1 .. n}
    /\ active' = used + n /\ queue' = SubSeq(waiting, n + 1, Len(waiting))

Pump(busy, used, waiting) ==
    LET n == Starts(MaxActive - used, waiting) IN
    /\ flying' = busy \cup {waiting[i] : i \in 1 .. n}
    /\ active' = used + n /\ queue' = SubSeq(waiting, n + 1, Len(waiting))

(* The requests of traverse for the folders S, which come in any order. *)
Asks(S) ==
    {calls \in SetToSeqs(S \X Asked) :
        \A i \in DOMAIN calls : LET nth == (i - 1) % Len(Requests) IN
            /\ calls[i][2] = Requests[nth + 1]
            /\ nth # 0 => calls[i][1] = calls[i - 1][1]}

NotBegun == [f \in Folders |-> "unknown"]

Init ==
    /\ \E calls \in Asks({Root}) : LET n == Starts(MaxActive, calls) IN
        /\ flying = {calls[i] : i \in 1 .. n}
        /\ active = n /\ queue = SubSeq(calls, n + 1, Len(calls))
    /\ answers = [f \in Folders |-> {}] /\ listed = {} /\ failures = 0
    /\ phase = [NotBegun EXCEPT ![Root] = "asking"]

(* With the last answer for a folder, its entries are recorded and traverse *)
(* goes into every subfolder.  Requests already waiting stay in front of    *)
(* the new ones, whether these are made before finally() gives the slot     *)
(* back (IServ) or just after (the Promise.all of Stud.IP).                 *)
Descends(f) ==
    /\ phase' = [g \in Folders |->
           IF g = f THEN "descending" ELSE IF g \in Subfolders[f] THEN "asking" ELSE phase[g]]
    /\ listed' = listed \cup {f}

HoldsSlot(c) ==     \* mutant of Answer: the slot is not free while the walk is below the folder
    LET f == c[1] IN
    /\ c \in flying
    /\ answers' = [answers EXCEPT ![f] = @ \cup {c[2]}]
    /\ IF phase[f] = "asking" /\ answers'[f] = Asked
       THEN Descends(f) /\ \E calls \in Asks(Subfolders[f]) : Pump(flying \ {c}, active, queue \o calls)
       ELSE UNCHANGED <<phase, listed>> /\ Pump(flying \ {c}, active - 1, queue)
    /\ UNCHANGED failures

(* The answer to a request. *)
Answer(c) ==
    LET f == c[1] IN
    /\ c \in flying
    /\ answers' = [answers EXCEPT ![f] = @ \cup {c[2]}]
    /\ IF phase[f] = "asking" /\ answers'[f] = Asked
       THEN Descends(f) /\ \E calls \in Asks(Subfolders[f]) : Pump(flying \ {c}, active - 1, queue \o calls)
       ELSE UNCHANGED <<phase, listed>> /\ Pump(flying \ {c}, active - 1, queue)
    /\ UNCHANGED failures

FreesTwice(c) ==    \* mutant of Fails: the slot is given back by the handler and by finally()
    /\ c \in flying /\ failures < MaxFailures /\ failures' = failures + 1
    /\ phase' = [phase EXCEPT ![c[1]] = "failed"]
    /\ Pump(flying \ {c}, active - 2, queue)
    /\ UNCHANGED <<answers, listed>>

(* It fails: traverse is rejected, whatever else it has asked for, and the *)
(* slot is given back all the same.                                        *)
Fails(c) ==
    /\ c \in flying /\ failures < MaxFailures /\ failures' = failures + 1
    /\ phase' = [phase EXCEPT ![c[1]] = "failed"]
    /\ Pump(flying \ {c}, active - 1, queue)
    /\ UNCHANGED <<answers, listed>>

(* Promise.all over the subfolders: all of them, or the first that fails.  *)
Resolve(f) ==
    /\ phase[f] = "descending" /\ \A g \in Subfolders[f] : phase[g] = "ok"
    /\ phase' = [phase EXCEPT ![f] = "ok"]
    /\ UNCHANGED <<queue, active, flying, answers, listed, failures>>

Reject(f) ==
    /\ phase[f] = "descending" /\ \E g \in Subfolders[f] : phase[g] = "failed"
    /\ phase' = [phase EXCEPT ![f] = "failed"]
    /\ UNCHANGED <<queue, active, flying, answers, listed, failures>>

Next == (\E c \in Calls : Answer(c) \/ Fails(c)) \/ \E f \in Folders : Resolve(f) \/ Reject(f)

Spec == Init /\ [][Next]_vars

(* Every request is answered, or fails, and promises settle. *)
FairSpec == Spec /\ WF_vars(Next)

-----------------------------------------------------------------------------
(* Properties.                                                             *)

(* The server never sees more requests at once than it should, the slots   *)
(* counted are those in use, and none stands empty while a request waits.  *)
SlotsUsed ==
    /\ active = Cardinality(flying) /\ active <= MaxActive
    /\ queue # <<>> => active = MaxActive

(* A walk that succeeds lists everything, and nothing is still to come: no *)
(* run works from a tree with a hole in it, whichever request failed.      *)
Complete ==
    phase[Root] = "ok" => listed = Folders /\ flying = {} /\ queue = <<>>
=============================================================================
