-------------------------------- MODULE Home --------------------------------
(***************************************************************************)
(* The admin's home page: home.js in the browser and routes/home.js, with   *)
(* the incident log of security/incidents.js.  What erasure and disclosure  *)
(* find is what is stored of a pupil; Uploads has what they do to it.       *)
(***************************************************************************)
EXTENDS Naturals, FiniteSets

CONSTANTS
    HmPupils,       \* names
    HmIncidents,    \* bound on incidents
    HmClicks,       \* bound on what the admin does, what pupils hand in, and what fails
    HmFlying        \* the admin waits until fewer requests than these are under way

ASSUME HmAssumption ==
    HmPupils # {} /\ "" \notin HmPupils /\ {HmIncidents, HmClicks} \subseteq Nat /\ HmFlying \in Nat \ {0}

VARIABLES
    hm,         \* the page
    hmStore,    \* what is stored of pupils, and incident_log.json
    hmReqs      \* requests under way

hmVars == <<hm, hmStore, hmReqs>>

Decisions == {"reported", "unneeded"}
Submission == [of : HmPupils, nr : 0 .. HmClicks]      \* nr 0 was there before
Incidents == [1 .. HmIncidents -> {"none", "open"} \cup Decisions]
NoIncidents == [i \in 1 .. HmIncidents |-> "none"]
NoDossier == [of |-> "", rows |-> {}]

HmTypeOK ==
    /\ hmStore.data \subseteq Submission /\ hmStore.incs \in Incidents /\ hmStore.nr \in 0 .. HmClicks
    /\ hm.counted \subseteq Submission /\ hm.incs \in Incidents /\ hm.name \in HmPupils
    /\ hm.said \in {"", "nobody", "erased", "error"}
    /\ \A list \in hm.lists : /\ list.rows \subseteq Submission /\ list.rows # {}
                              /\ \A d \in list.rows : d.of = list.of
    /\ hm.box \subseteq [of : {""} \cup HmPupils, rows : SUBSET Submission]

HmRequest(kind, of, nr, id, how) ==
    [kind |-> kind, of |-> of, nr |-> nr, id |-> id, how |-> how, done |-> FALSE, listed |-> {}, upto |-> 0,
     rows |-> {}, incs |-> NoIncidents]

(* nr is the click a request comes from, to tell two alike apart.           *)
(* A load sent while another one is under way may be overtaken by it. *)
HmLoads(u, kinds, nr) ==
    [u EXCEPT !.sent = @ \cup {HmRequest(k, "", nr, 0, "") : k \in kinds},
              !.raced = @ \cup {k \in kinds : \E r \in hmReqs : r.kind = k}]

HmBecomes(u, reqs) == hm' = [u EXCEPT !.sent = {}] /\ hmReqs' = reqs \cup u.sent

-----------------------------------------------------------------------------
(* What the admin does. *)

HmClick(u, r) ==
    /\ hm.clicks < HmClicks /\ Cardinality(hmReqs) < HmFlying
    /\ HmBecomes([u EXCEPT !.clicks = @ + 1, !.sent = {[r EXCEPT !.nr = u.clicks + 1]}], hmReqs)
    /\ UNCHANGED hmStore

(* eraseStudent: an empty box, then the preview. *)
EraseStudent == \E p \in HmPupils :
    HmClick([hm EXCEPT !.name = p, !.lists = {}, !.said = ""], HmRequest("preview", p, 0, 0, ""))

UsesTheInput(list) ==           \* mutant of Executes: the name is read again, from the field
    [HmRequest("execute", hm.name, 0, 0, "") EXCEPT !.listed = list.rows, !.upto = list.upto]

(* The button under a list sends the name the list was asked for; listed    *)
(* and upto remember what the list showed, and when.                       *)
Executes(list) ==
    [HmRequest("execute", list.of, 0, 0, "") EXCEPT !.listed = list.rows, !.upto = list.upto]

ConfirmErasure == \E list \in hm.lists :
    /\ ~list.disabled
    /\ HmClick([hm EXCEPT !.lists = (@ \ {list}) \cup {[list EXCEPT !.disabled = TRUE]}], Executes(list))

DiscloseStudent == \E p \in HmPupils :
    HmClick([hm EXCEPT !.box = {}, !.person = p,
                       !.raced = IF \E r \in hmReqs : r.kind = "disclose" THEN @ \cup {"disclose"} ELSE @],
            HmRequest("disclose", p, 0, 0, ""))

RecordIncident ==
    /\ Cardinality({r \in hmReqs : r.kind = "record"}) < Cardinality({i \in DOMAIN hm.incs : hmStore.incs[i] = "none"})
    /\ HmClick(hm, HmRequest("record", "", 0, 0, ""))

(* renderIncidents: a record has its two buttons while it is open. *)
Undecided(id) == hm.incs[id] = "open"

(* resolveIncident; twice remembers a decision taken from a list that did   *)
(* not show another one yet.                                               *)
ResolveIncident == \E id \in DOMAIN hm.incs : \E how \in Decisions :
    /\ Undecided(id)
    /\ HmClick([hm EXCEPT !.twice = IF \/ \E r \in hmReqs : r.kind = "resolve" /\ r.id = id
                                       \/ hm.incs[id] = "open" /\ hmStore.incs[id] \in Decisions
                                    THEN @ \cup {id} ELSE @],
               HmRequest("resolve", "", 0, id, how))

-----------------------------------------------------------------------------
(* The server: each handler as one step. *)

(* readStatus, previewErasure and previewDisclosure: what they find. *)
DataOf(p) == {d \in hmStore.data : d.of = p}
Found(r) ==
    CASE r.kind \in {"preview", "disclose", "execute"} -> DataOf(r.of)
      [] r.kind = "status" -> hmStore.data [] OTHER -> {}

(* addIncident and resolveIncident. *)
Free == {i \in DOMAIN hmStore.incs : hmStore.incs[i] = "none"}
AddIncident == [hmStore EXCEPT !.incs[CHOOSE i \in Free : \A j \in Free : i <= j] = "open"]
Resolved(r) == [hmStore EXCEPT !.incs[r.id] = r.how]

(* executeErasure, of what there is by then. *)
Erased(r) == [hmStore EXCEPT !.data = @ \ DataOf(r.of)]

HmServe(r) ==
    /\ r \in hmReqs /\ ~r.done
    /\ hmStore' = CASE r.kind = "execute" -> Erased(r)
                    [] r.kind = "record" -> AddIncident
                    [] r.kind = "resolve" -> Resolved(r)
                    [] OTHER -> hmStore
    /\ hmReqs' = (hmReqs \ {r}) \cup
         {[r EXCEPT !.done = TRUE, !.rows = Found(r), !.upto = IF r.kind = "preview" THEN hmStore.nr ELSE @,
                    !.incs = IF r.kind = "incidents" THEN hmStore.incs ELSE @]}
    /\ UNCHANGED hm

Hands(p) ==
    /\ hm.clicks < HmClicks /\ hm' = [hm EXCEPT !.clicks = @ + 1] /\ UNCHANGED hmReqs
    /\ hmStore' = [hmStore EXCEPT !.nr = @ + 1, !.data = @ \cup {[of |-> p, nr |-> hmStore.nr + 1]}]

-----------------------------------------------------------------------------
(* The answers. *)

RenderDossier(u, r) == [u EXCEPT !.box = {[of |-> r.of, rows |-> r.rows]}]

(* A list is appended to what is in the box by then. *)
Previewed(u, r) ==
    IF r.rows = {} THEN [u EXCEPT !.lists = {}, !.said = "nobody"]
    ELSE [u EXCEPT !.lists = @ \cup {[of |-> r.of, rows |-> r.rows, upto |-> r.upto, disabled |-> FALSE]}]

NoStatus(u, r) == [u EXCEPT !.lists = {}, !.said = "erased"]            \* mutant of Executed
Executed(u, r) == HmLoads([u EXCEPT !.lists = {}, !.said = "erased"], {"status"}, r.nr)

Documented(u, r) == HmLoads(u, {"incidents", "status"}, r.nr)

HmArrives(r) ==
    /\ r \in hmReqs /\ r.done
    /\ HmBecomes(CASE r.kind = "preview" -> Previewed(hm, r) [] r.kind = "execute" -> Executed(hm, r)
                   [] r.kind = "disclose" -> RenderDossier(hm, r)
                   [] r.kind = "status" -> [hm EXCEPT !.counted = r.rows]
                   [] r.kind = "incidents" -> [hm EXCEPT !.incs = r.incs]
                   [] OTHER -> Documented(hm, r), hmReqs \ {r})
    /\ UNCHANGED hmStore

(* An error, or no answer.  What was asked for may have been done. *)
HmLost(r) ==
    /\ r \in hmReqs /\ hm.clicks < HmClicks
    /\ LET u == [hm EXCEPT !.clicks = @ + 1, !.failed = TRUE] IN
       hm' = CASE r.kind \in {"preview", "execute"} -> [u EXCEPT !.lists = {}, !.said = "error"]
               [] r.kind = "disclose" -> [u EXCEPT !.box = {NoDossier}] [] OTHER -> u
    /\ hmReqs' = hmReqs \ {r} /\ UNCHANGED hmStore

-----------------------------------------------------------------------------
(* The page is opened and loads its cards. *)
HmInit ==
    /\ hmStore = [data |-> {[of |-> p, nr |-> 0] : p \in HmPupils}, nr |-> 0, incs |-> NoIncidents]
    /\ hm = [name |-> CHOOSE p \in HmPupils : TRUE, lists |-> {}, said |-> "", person |-> "", box |-> {},
             counted |-> {}, incs |-> NoIncidents, sent |-> {}, clicks |-> 0, raced |-> {},
             twice |-> {}, failed |-> FALSE]
    /\ hmReqs = {HmRequest(k, "", 0, 0, "") : k \in {"status", "incidents"}}

HmAdmin == EraseStudent \/ ConfirmErasure \/ DiscloseStudent \/ RecordIncident \/ ResolveIncident
HmNext == \/ HmAdmin \/ \E p \in HmPupils : Hands(p)
          \/ \E r \in hmReqs : HmServe(r) \/ HmArrives(r) \/ HmLost(r)

HmSpec == HmInit /\ [][HmNext]_hmVars

-----------------------------------------------------------------------------
(* Properties. *)

(* "Preview shows exactly what a query matches; execute deletes it": what    *)
(* is erased was in the list above the button, whatever is in the name      *)
(* field by then, or was handed in since.                                  *)
ErasesWhatItListed ==
    [][\A d \in hmStore.data \ hmStore'.data :
           \E r \in hmReqs :
               /\ r.kind = "execute" /\ ~r.done
               /\ d \in r.listed \/ (d.nr > r.upto /\ \E l \in r.listed : l.of = d.of)]_hmVars

(* The data in the disclosure box is all of one pupil, the one asked for    *)
(* last, unless two were asked for at a time.                              *)
DossierOfOne ==
    /\ Cardinality(hm.box) <= 1
    /\ \A d \in hm.box : /\ \A s \in d.rows : s.of = d.of
                         /\ d.of \in {"", hm.person} \/ "disclose" \in hm.raced

(* When everything is answered no card counts what has been erased, unless  *)
(* something failed or two loads could overtake each other.                *)
CardsSettle ==
    hmReqs = {} /\ ~hm.failed /\ "status" \notin hm.raced => hm.counted \subseteq hmStore.data

(* Then the list of incidents is the one on file. *)
IncidentsSettle ==
    hmReqs = {} /\ ~hm.failed /\ "incidents" \notin hm.raced => hm.incs = hmStore.incs

(* Art. 33(5): a decision that is on file is not replaced by another one,   *)
(* unless both were taken before the list showed the first.                *)
DecisionsStay ==
    [][\A id \in DOMAIN hmStore.incs :
           hmStore.incs[id] \in Decisions => hmStore'.incs[id] = hmStore.incs[id] \/ id \in hm.twice]_hmVars

(* What the page tells of pupils and incidents is theirs, and still so. *)
HomeTells == DossierOfOne /\ CardsSettle /\ IncidentsSettle

(* What is erased or decided is what the admin was shown. *)
OnlyAsShown == ErasesWhatItListed /\ DecisionsStay
=============================================================================
