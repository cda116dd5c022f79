------------------------------ MODULE Replicas ------------------------------
(***************************************************************************)
(* What the sync engine promises, without files, folders, manifests or     *)
(* runs: two ends that each hold a set of versions, users who write and    *)
(* discard versions, and a synchroniser that only ever copies versions     *)
(* from one end to the other and forgets versions nobody wants.  For the   *)
(* versions in void it promises nothing.                                   *)
(* SyncEngine implements it (its PromiseKept), and SyncEngineProofs proves *)
(* that whatever implements it never loses a live version.                 *)
(***************************************************************************)
CONSTANTS Versions,     \* what users can write
          Blank         \* what is left of a copy that was cut short
VARIABLES live,         \* the versions no user has replaced or discarded
          here, there,  \* the versions the local and the remote end hold
          void          \* the versions the promise does not extend to

vars == <<live, here, there, void>>

Init == live = {} /\ here = {} /\ there = {} /\ void = {}

(* A user writes v at one end, over the version old or as a new file. *)
Write(v, old) ==
    /\ v \notin here \cup there
    /\ live' = (live \ old) \cup {v}
    /\ \/ here' \in {here \cup {v}, (here \ old) \cup {v}} /\ there' = there
       \/ there' \in {there \cup {v}, (there \ old) \cup {v}} /\ here' = here
    /\ void' = void

(* A user gives up versions at one end; others may hold them on. *)
Discard ==
    /\ here' \subseteq here /\ there' \subseteq there
    /\ here' = here \/ there' = there
    /\ live' \subseteq live /\ live \ live' \subseteq here \cup there
    /\ live' \cap ((here \ here') \cup (there \ there')) = {}
    /\ void' = void

(* One step of a run, finished or cut short. *)
Sync ==
    /\ live' = live /\ void \subseteq void'
    /\ here' \subseteq here \cup there \cup {Blank} /\ (live \ void') \cap here \subseteq here'
    /\ there' \subseteq here \cup there /\ (live \ void') \cap there \subseteq there'

Next ==
    \/ \E v \in Versions : \E old \in {{}} \cup {{w} : w \in here \cup there} : Write(v, old)
    \/ Discard
    \/ Sync

Spec == Init /\ [][Next]_vars

=============================================================================
