----------------------------- MODULE PagesProofs -----------------------------
(***************************************************************************)
(* The home page for any number of pupils, incidents, clicks and requests   *)
(* under way, and the types of all the pages and logs side by side.        *)
(***************************************************************************)
EXTENDS MCPages, ReviewProofs, CodesProofs, FiniteSetTheorems, TLAPS

-----------------------------------------------------------------------------
(* The page, what is stored and the requests. *)

HmKinds == {"preview", "execute", "disclose", "record", "resolve", "status", "incidents"}
HmList == [of : HmPupils, rows : SUBSET Submission, upto : Nat, disabled : BOOLEAN]
HmDossier == [of : {""} \cup HmPupils, rows : SUBSET Submission]
HmReq == [kind : HmKinds, of : {""} \cup HmPupils, nr : Nat, id : 0 .. HmIncidents, how : {""} \cup Decisions,
          done : BOOLEAN, listed : SUBSET Submission, upto : Nat, rows : SUBSET Submission, incs : Incidents]
HmPage == [name : HmPupils, lists : SUBSET HmList, said : {"", "nobody", "erased", "error"},
           person : {""} \cup HmPupils, box : SUBSET HmDossier, counted : SUBSET Submission, incs : Incidents,
           sent : SUBSET HmReq, clicks : 0 .. HmClicks, raced : SUBSET HmKinds,
           twice : SUBSET (1 .. HmIncidents), failed : BOOLEAN]
HmStored == [data : SUBSET Submission, nr : 0 .. HmClicks, incs : Incidents]

(* Only an incident's resolution has an id. *)
HmTypes ==
    /\ hm \in HmPage /\ hm.sent = {}
    /\ hmStore \in HmStored /\ hmStore.nr <= hm.clicks
    /\ IsFiniteSet(hmReqs) /\ hmReqs \subseteq HmReq
    /\ \A r \in hmReqs : /\ r.kind = "resolve" => r.id \in 1 .. HmIncidents /\ r.how \in Decisions
                         /\ r.kind \in {"preview", "execute", "disclose"} => r.of \in HmPupils

(* What a list shows is of one pupil, and it is all that was stored of the  *)
(* pupil by then.                                                          *)
Shows(of, rows, upto) ==
    /\ upto <= hmStore.nr /\ \A d \in rows : d.of = of
    /\ \A d \in hmStore.data : d.of = of /\ d.nr <= upto => d \in rows

ListsCover ==
    /\ \A list \in hm.lists : Shows(list.of, list.rows, list.upto) /\ list.rows # {}
    /\ \A r \in hmReqs :
           /\ r.kind = "preview" /\ r.done => Shows(r.of, r.rows, r.upto)
           /\ r.kind = "execute" /\ ~r.done => Shows(r.of, r.listed, r.upto) /\ r.listed # {}

(* One disclosure in the box, of the one asked for last. *)
OneDossier ==
    /\ \A a, b \in hm.box : a = b
    /\ \A d \in hm.box : /\ \A s \in d.rows : s.of = d.of
                         /\ d.of \in {"", hm.person} \/ "disclose" \in hm.raced
    /\ \A r \in hmReqs : r.kind = "disclose" =>
           /\ r.of = hm.person \/ "disclose" \in hm.raced
           /\ \A s \in r.rows : s.of = r.of

(* Something has changed since a load, and the answer that makes the page   *)
(* load again is on its way.                                               *)
Reloads(kinds) == \E r \in hmReqs : r.kind \in kinds /\ r.done

CardsFresh ==
    ~hm.failed /\ "status" \notin hm.raced =>
        /\ \A r, s \in hmReqs : r.kind = "status" /\ s.kind = "status" => r = s
        /\ Reloads({"execute"}) \/
               /\ \A r \in hmReqs : r.kind = "status" /\ r.done => r.rows \subseteq hmStore.data
               /\ (\A r \in hmReqs : r.kind # "status") => hm.counted \subseteq hmStore.data

IncidentsFresh ==
    ~hm.failed /\ "incidents" \notin hm.raced =>
        /\ \A r, s \in hmReqs : r.kind = "incidents" /\ s.kind = "incidents" => r = s
        /\ Reloads({"record", "resolve"}) \/
               /\ \A r \in hmReqs : r.kind = "incidents" /\ r.done => r.incs = hmStore.incs
               /\ (\A r \in hmReqs : r.kind # "incidents") => hm.incs = hmStore.incs

(* An incident the page shows is on file; one that is being decided is open, *)
(* unless the page did not show, or had not got, the other decision.        *)
Filed(incs) == \A id \in 1 .. HmIncidents : incs[id] # "none" => hmStore.incs[id] # "none"

DecisionsKnown ==
    /\ Filed(hm.incs) /\ \A r \in hmReqs : Filed(r.incs)
    /\ \A r \in hmReqs : r.kind = "resolve" => hmStore.incs[r.id] # "none"
    /\ \A r \in hmReqs : r.kind = "resolve" /\ ~r.done => hmStore.incs[r.id] = "open" \/ r.id \in hm.twice
    /\ \A r, s \in hmReqs :
           r.kind = "resolve" /\ ~r.done /\ s.kind = "resolve" /\ ~s.done /\ r.id = s.id => r = s \/ r.id \in hm.twice

(* There is room in the log for each record on its way. *)
Recording == {r \in hmReqs : r.kind = "record" /\ ~r.done}
RecordsFit == Cardinality(Recording) <= Cardinality(Free)

HmInv == HmTypes /\ ListsCover /\ OneDossier /\ CardsFresh /\ IncidentsFresh /\ DecisionsKnown /\ RecordsFit

LEMMA HmBounds == HmIncidents \in Nat /\ HmClicks \in Nat /\ HmIncidents \in Int /\ 0 \in 0 .. HmClicks /\ 0 \in 0 .. HmIncidents
<1>1. HmIncidents \in Nat /\ HmClicks \in Nat BY HmAssumption
<1> QED BY <1>1

LEMMA FreeFinite ==
    ASSUME hmStore \in HmStored
    PROVE  IsFiniteSet(Free) /\ Free \subseteq 1 .. HmIncidents
<1>1. DOMAIN hmStore.incs = 1 .. HmIncidents BY DEF HmStored, Incidents
<1>2. IsFiniteSet(1 .. HmIncidents) BY HmBounds, FS_Interval
<1> QED BY <1>1, <1>2, FS_Subset DEF Free

LEMMA HmInitInv == HmInit => HmInv
<1> SUFFICES ASSUME HmInit PROVE HmInv
    OBVIOUS
<1>1. /\ hm.lists = {} /\ hm.box = {} /\ hm.counted = {} /\ hm.incs = NoIncidents /\ hm.sent = {}
      /\ hm.raced = {} /\ hm.twice = {} /\ ~hm.failed /\ hm.clicks = 0
      /\ hmStore.nr = 0 /\ hmStore.incs = NoIncidents
    BY DEF HmInit
<1> DEFINE a == HmRequest("status", "", 0, 0, "")
           b == HmRequest("incidents", "", 0, 0, "")
<1>2. hmReqs = {a, b} BY DEF HmInit
<1>3. NoIncidents \in Incidents /\ \A id \in 1 .. HmIncidents : NoIncidents[id] = "none"
    BY DEF NoIncidents, Incidents
<1>4. hm \in HmPage
    <2> DEFINE p == CHOOSE q \in HmPupils : TRUE
    <2>1. p \in HmPupils BY HmAssumption
    <2>2. hm = [name |-> p, lists |-> {}, said |-> "", person |-> "", box |-> {},
                counted |-> {}, incs |-> NoIncidents, sent |-> {}, clicks |-> 0, raced |-> {},
                twice |-> {}, failed |-> FALSE]
        BY DEF HmInit
    <2> HIDE DEF p
    <2> QED BY <1>3, <2>1, <2>2, HmBounds DEF HmPage
<1>5. hmStore \in HmStored
    <2>1. hmStore = [data |-> {[of |-> p, nr |-> 0] : p \in HmPupils}, nr |-> 0, incs |-> NoIncidents] BY DEF HmInit
    <2>2. {[of |-> p, nr |-> 0] : p \in HmPupils} \subseteq Submission BY HmBounds DEF Submission
    <2> QED BY <1>3, <2>1, <2>2, HmBounds DEF HmStored
<1>6. /\ a \in HmReq /\ a.kind = "status" /\ ~a.done /\ a.incs = NoIncidents /\ a.rows = {}
      /\ b \in HmReq /\ b.kind = "incidents" /\ ~b.done /\ b.incs = NoIncidents /\ b.rows = {}
    BY <1>3, HmBounds DEF HmRequest, HmReq, HmKinds
<1> HIDE DEF a, b
<1>7. IsFiniteSet(hmReqs)
    <2>1. hmReqs = {a} \cup {b} BY <1>2
    <2> QED BY <2>1, FS_Singleton, FS_Union
<1>8. RecordsFit
    <2>1. Recording = {} BY <1>2, <1>6 DEF Recording
    <2>2. Cardinality(Free) \in Nat BY <1>5, FreeFinite, FS_CardinalityType
    <2> QED BY <2>1, <2>2, FS_EmptySet DEF RecordsFit
<1>9. HmTypes BY <1>1, <1>2, <1>4, <1>5, <1>6, <1>7 DEF HmTypes
<1> QED BY <1>1, <1>2, <1>3, <1>6, <1>8, <1>9
        DEF HmInv, ListsCover, OneDossier, CardsFresh, IncidentsFresh, DecisionsKnown, Filed, Reloads

-----------------------------------------------------------------------------
(* The admin. *)

LEMMA RequestTypes ==
    ASSUME NEW kind \in HmKinds, NEW of \in {""} \cup HmPupils, NEW nr \in Nat,
           NEW id \in 0 .. HmIncidents, NEW how \in {""} \cup Decisions
    PROVE  HmRequest(kind, of, nr, id, how) \in HmReq
<1>1. NoIncidents \in Incidents BY DEF NoIncidents, Incidents
<1> QED BY <1>1 DEF HmRequest, HmReq

(* A click sends one request and changes the page as it says. *)
LEMMA ClickDoes ==
    ASSUME HmTypes, NEW u, u \in HmPage, u.clicks = hm.clicks, NEW r, r \in HmReq, HmClick(u, r)
    PROVE  /\ hm' \in HmPage /\ hm'.sent = {} /\ hm'.clicks = hm.clicks + 1
           /\ hm'.lists = u.lists /\ hm'.person = u.person /\ hm'.box = u.box /\ hm'.counted = u.counted
           /\ hm'.incs = u.incs /\ hm'.raced = u.raced /\ hm'.twice = u.twice /\ hm'.failed = u.failed
           /\ UNCHANGED hmStore
           /\ \E new \in HmReq :
                  /\ hmReqs' = hmReqs \cup {new}
                  /\ new.kind = r.kind /\ new.of = r.of /\ new.id = r.id /\ new.how = r.how /\ new.done = r.done
                  /\ new.listed = r.listed /\ new.upto = r.upto /\ new.rows = r.rows /\ new.incs = r.incs
<1> DEFINE new == [r EXCEPT !.nr = u.clicks + 1]
           v == [u EXCEPT !.clicks = @ + 1, !.sent = {new}]
<1>1. hm.clicks \in Nat /\ hm.clicks < HmClicks /\ u.clicks + 1 \in 0 .. HmClicks /\ hm.clicks + 1 = u.clicks + 1
    <2>1. hm.clicks \in 0 .. HmClicks BY DEF HmTypes, HmPage
    <2>2. hm.clicks < HmClicks BY DEF HmClick
    <2> QED BY <2>1, <2>2, HmBounds
<1>2. /\ new \in HmReq
      /\ new.kind = r.kind /\ new.of = r.of /\ new.id = r.id /\ new.how = r.how /\ new.done = r.done
      /\ new.listed = r.listed /\ new.upto = r.upto /\ new.rows = r.rows /\ new.incs = r.incs
    <2>1. u.clicks + 1 \in Nat BY <1>1
    <2> QED BY <2>1 DEF HmReq
<1> HIDE DEF new
<1>3. /\ v \in HmPage /\ v.clicks = u.clicks + 1 /\ v.sent = {new}
      /\ v.lists = u.lists /\ v.person = u.person /\ v.box = u.box /\ v.counted = u.counted
      /\ v.incs = u.incs /\ v.raced = u.raced /\ v.twice = u.twice /\ v.failed = u.failed
    BY <1>1, <1>2 DEF HmPage
<1>4. HmBecomes(v, hmReqs) /\ UNCHANGED hmStore
    BY DEF HmClick, new
<1> HIDE DEF v
<1>5. hm' = [v EXCEPT !.sent = {}] /\ hmReqs' = hmReqs \cup v.sent
    BY <1>4 DEF HmBecomes
<1>6. /\ hm' \in HmPage /\ hm'.sent = {} /\ hm'.clicks = v.clicks
      /\ hm'.lists = v.lists /\ hm'.person = v.person /\ hm'.box = v.box /\ hm'.counted = v.counted
      /\ hm'.incs = v.incs /\ hm'.raced = v.raced /\ hm'.twice = v.twice /\ hm'.failed = v.failed
    BY <1>3, <1>5 DEF HmPage
<1> QED BY <1>1, <1>2, <1>3, <1>4, <1>5, <1>6

(* One more request that is no load and has no answer yet. *)
LEMMA RequestKeepsFresh ==
    ASSUME CardsFresh, IncidentsFresh,
           NEW new, ~new.done, new.kind \notin {"status", "incidents"}, hmReqs' = hmReqs \cup {new}, UNCHANGED hmStore,
           hm'.counted = hm.counted, hm'.incs = hm.incs, hm'.failed = hm.failed,
           hm.raced \subseteq hm'.raced
    PROVE  CardsFresh' /\ IncidentsFresh'
<1>1. CardsFresh' BY DEF CardsFresh, Reloads
<1>2. IncidentsFresh' BY DEF IncidentsFresh, Reloads
<1> QED BY <1>1, <1>2

LEMMA RequestTypesKept ==
    ASSUME HmTypes, NEW new \in HmReq, hmReqs' = hmReqs \cup {new}, UNCHANGED hmStore,
           hm' \in HmPage, hm'.sent = {}, hm'.clicks = hm.clicks + 1,
           new.kind = "resolve" => new.id \in 1 .. HmIncidents /\ new.how \in Decisions,
           new.kind \in {"preview", "execute", "disclose"} => new.of \in HmPupils
    PROVE  HmTypes'
<1>1. IsFiniteSet(hmReqs') BY FS_AddElement DEF HmTypes
<1>2. hmStore.nr \in Nat /\ hm.clicks \in Nat
    <2>1. hmStore.nr \in 0 .. HmClicks /\ hm.clicks \in 0 .. HmClicks BY DEF HmTypes, HmStored, HmPage
    <2> QED BY <2>1, HmBounds
<1> QED BY <1>1, <1>2 DEF HmTypes

LEMMA RecordingSame ==
    ASSUME RecordsFit, NEW new, new.kind # "record", hmReqs' = hmReqs \cup {new}, UNCHANGED hmStore
    PROVE  RecordsFit'
<1>1. Recording' = Recording BY DEF Recording
<1>2. Free' = Free BY DEF Free
<1> QED BY <1>1, <1>2 DEF RecordsFit

LEMMA DecisionsSame ==
    ASSUME DecisionsKnown, NEW new, new.kind # "resolve", new.incs = NoIncidents, hmReqs' = hmReqs \cup {new},
           UNCHANGED hmStore, hm'.incs = hm.incs, hm'.twice = hm.twice
    PROVE  DecisionsKnown'
<1>1. Filed(NoIncidents) BY DEF Filed, NoIncidents
<1> QED BY <1>1 DEF DecisionsKnown, Filed

LEMMA EraseStudentInv == HmInv /\ EraseStudent => HmInv'
<1> SUFFICES ASSUME HmInv, EraseStudent PROVE HmInv'
    OBVIOUS
<1>1. HmTypes BY DEF HmInv
<1>2. PICK p \in HmPupils :
          HmClick([hm EXCEPT !.name = p, !.lists = {}, !.said = ""], HmRequest("preview", p, 0, 0, ""))
    BY DEF EraseStudent
<1> DEFINE u == [hm EXCEPT !.name = p, !.lists = {}, !.said = ""]
           r == HmRequest("preview", p, 0, 0, "")
<1>3. /\ r \in HmReq /\ r.kind = "preview" /\ r.of = p /\ ~r.done /\ r.rows = {} /\ r.incs = NoIncidents
    <2>1. "preview" \in HmKinds /\ p \in {""} \cup HmPupils /\ "" \in {""} \cup Decisions /\ 0 \in 0 .. HmIncidents
        BY HmBounds DEF HmKinds
    <2>2. r \in HmReq BY <2>1, RequestTypes
    <2> QED BY <2>2 DEF HmRequest
<1>4. /\ u \in HmPage /\ u.clicks = hm.clicks /\ u.lists = {} /\ u.person = hm.person /\ u.box = hm.box
      /\ u.counted = hm.counted /\ u.incs = hm.incs /\ u.raced = hm.raced /\ u.twice = hm.twice /\ u.failed = hm.failed
    BY <1>1 DEF HmTypes, HmPage
<1>5. HmClick(u, r) BY <1>2
<1> HIDE DEF u, r
<1>6. /\ hm' \in HmPage /\ hm'.sent = {} /\ hm'.clicks = hm.clicks + 1
      /\ hm'.lists = {} /\ hm'.person = hm.person /\ hm'.box = hm.box /\ hm'.counted = hm.counted
      /\ hm'.incs = hm.incs /\ hm'.raced = hm.raced /\ hm'.twice = hm.twice /\ hm'.failed = hm.failed
      /\ UNCHANGED hmStore
    BY <1>1, <1>3, <1>4, <1>5, ClickDoes
<1>7. PICK new \in HmReq : /\ hmReqs' = hmReqs \cup {new}
                           /\ new.kind = "preview" /\ new.of = p /\ ~new.done /\ new.rows = {} /\ new.incs = NoIncidents
    BY <1>1, <1>3, <1>4, <1>5, ClickDoes
<1>8. HmTypes' BY <1>1, <1>6, <1>7, RequestTypesKept
<1>9. CardsFresh' /\ IncidentsFresh' BY <1>6, <1>7, RequestKeepsFresh DEF HmInv
<1>10. RecordsFit' BY <1>6, <1>7, RecordingSame DEF HmInv
<1>11. DecisionsKnown' BY <1>6, <1>7, DecisionsSame DEF HmInv
<1>12. OneDossier' BY <1>6, <1>7 DEF HmInv, OneDossier
<1>13. ListsCover' BY <1>6, <1>7 DEF HmInv, ListsCover, Shows
<1> QED BY <1>8, <1>9, <1>10, <1>11, <1>12, <1>13 DEF HmInv

LEMMA ConfirmErasureInv == HmInv /\ ConfirmErasure => HmInv'
<1> SUFFICES ASSUME HmInv, ConfirmErasure PROVE HmInv'
    OBVIOUS
<1>1. HmTypes BY DEF HmInv
<1>2. PICK list \in hm.lists :
          HmClick([hm EXCEPT !.lists = (@ \ {list}) \cup {[list EXCEPT !.disabled = TRUE]}], Executes(list))
    BY DEF ConfirmErasure
<1>3. list \in HmList /\ Shows(list.of, list.rows, list.upto) /\ list.rows # {}
    BY <1>1 DEF HmInv, ListsCover, HmTypes, HmPage
<1> DEFINE off == [list EXCEPT !.disabled = TRUE]
           lists == (hm.lists \ {list}) \cup {off}
           u == [hm EXCEPT !.lists = lists]
           r == Executes(list)
<1>4. off \in HmList /\ off.of = list.of /\ off.rows = list.rows /\ off.upto = list.upto
    BY <1>3 DEF HmList
<1>5. lists \subseteq HmList BY <1>1, <1>4 DEF HmTypes, HmPage
<1>6. \A l \in lists : Shows(l.of, l.rows, l.upto) /\ l.rows # {}
    BY <1>3, <1>4 DEF HmInv, ListsCover
<1> HIDE DEF off
<1>7. /\ r \in HmReq /\ r.kind = "execute" /\ r.of = list.of /\ ~r.done /\ r.listed = list.rows /\ r.upto = list.upto
      /\ r.rows = {} /\ r.incs = NoIncidents
    <2> DEFINE q == HmRequest("execute", list.of, 0, 0, "")
    <2>1. "execute" \in HmKinds /\ list.of \in {""} \cup HmPupils /\ "" \in {""} \cup Decisions /\ 0 \in 0 .. HmIncidents
        BY <1>3, HmBounds DEF HmKinds, HmList
    <2>2. q \in HmReq BY <2>1, RequestTypes
    <2>3. q.kind = "execute" /\ q.of = list.of /\ ~q.done /\ q.rows = {} /\ q.incs = NoIncidents BY DEF HmRequest
    <2>4. r = [q EXCEPT !.listed = list.rows, !.upto = list.upto] BY DEF Executes
    <2>5. list.rows \in SUBSET Submission /\ list.upto \in Nat BY <1>3 DEF HmList
    <2> HIDE DEF q, r
    <2> QED BY <2>2, <2>3, <2>4, <2>5 DEF HmReq
<1>8. /\ u \in HmPage /\ u.clicks = hm.clicks /\ u.lists = lists /\ u.person = hm.person /\ u.box = hm.box
      /\ u.counted = hm.counted /\ u.incs = hm.incs /\ u.raced = hm.raced /\ u.twice = hm.twice /\ u.failed = hm.failed
    <2> HIDE DEF lists
    <2> QED BY <1>1, <1>5 DEF HmTypes, HmPage
<1>9. HmClick(u, r) BY <1>2 DEF off
<1> HIDE DEF lists, u, r
<1>10. /\ hm' \in HmPage /\ hm'.sent = {} /\ hm'.clicks = hm.clicks + 1
       /\ hm'.lists = lists /\ hm'.person = hm.person /\ hm'.box = hm.box /\ hm'.counted = hm.counted
       /\ hm'.incs = hm.incs /\ hm'.raced = hm.raced /\ hm'.twice = hm.twice /\ hm'.failed = hm.failed
       /\ UNCHANGED hmStore
    BY <1>1, <1>7, <1>8, <1>9, ClickDoes
<1>11. PICK new \in HmReq :
           /\ hmReqs' = hmReqs \cup {new}
           /\ new.kind = "execute" /\ new.of = list.of /\ ~new.done /\ new.listed = list.rows /\ new.upto = list.upto
           /\ new.rows = {} /\ new.incs = NoIncidents
    BY <1>1, <1>7, <1>8, <1>9, ClickDoes
<1>12. HmTypes'
    <2>1. new.of \in HmPupils BY <1>3, <1>11 DEF HmList
    <2> QED BY <1>1, <1>10, <1>11, <2>1, RequestTypesKept
<1>13. CardsFresh' /\ IncidentsFresh' BY <1>10, <1>11, RequestKeepsFresh DEF HmInv
<1>14. RecordsFit' BY <1>10, <1>11, RecordingSame DEF HmInv
<1>15. DecisionsKnown' BY <1>10, <1>11, DecisionsSame DEF HmInv
<1>16. OneDossier' BY <1>10, <1>11 DEF HmInv, OneDossier
<1>17. ListsCover'
    <2>1. \A of, rows, upto : Shows(of, rows, upto) => Shows(of, rows, upto)' BY <1>10 DEF Shows
    <2>2. Shows(new.of, new.listed, new.upto) BY <1>3, <1>11
    <2> QED BY <1>3, <1>6, <1>10, <1>11, <2>1, <2>2 DEF HmInv, ListsCover
<1> QED BY <1>12, <1>13, <1>14, <1>15, <1>16, <1>17 DEF HmInv

LEMMA DiscloseStudentInv == HmInv /\ DiscloseStudent => HmInv'
<1> SUFFICES ASSUME HmInv, DiscloseStudent PROVE HmInv'
    OBVIOUS
<1>1. HmTypes BY DEF HmInv
<1> DEFINE raced == IF \E r \in hmReqs : r.kind = "disclose" THEN hm.raced \cup {"disclose"} ELSE hm.raced
<1>2. PICK p \in HmPupils :
          HmClick([hm EXCEPT !.box = {}, !.person = p, !.raced = raced], HmRequest("disclose", p, 0, 0, ""))
    BY DEF DiscloseStudent
<1> DEFINE u == [hm EXCEPT !.box = {}, !.person = p, !.raced = raced]
           r == HmRequest("disclose", p, 0, 0, "")
<1>3. /\ r \in HmReq /\ r.kind = "disclose" /\ r.of = p /\ ~r.done /\ r.rows = {} /\ r.incs = NoIncidents
    <2>1. "disclose" \in HmKinds /\ p \in {""} \cup HmPupils /\ "" \in {""} \cup Decisions /\ 0 \in 0 .. HmIncidents
        BY HmBounds DEF HmKinds
    <2>2. r \in HmReq BY <2>1, RequestTypes
    <2> QED BY <2>2 DEF HmRequest
<1>3a. /\ raced \in SUBSET HmKinds /\ hm.raced \subseteq raced
       /\ (\E q \in hmReqs : q.kind = "disclose") => "disclose" \in raced
    BY <1>1 DEF HmTypes, HmPage, HmKinds
<1> HIDE DEF raced
<1>4. /\ u \in HmPage /\ u.clicks = hm.clicks /\ u.lists = hm.lists /\ u.person = p /\ u.box = {}
      /\ u.counted = hm.counted /\ u.incs = hm.incs /\ u.raced = raced /\ u.twice = hm.twice /\ u.failed = hm.failed
    BY <1>1, <1>3a DEF HmTypes, HmPage
<1>5. HmClick(u, r) BY <1>2
<1> HIDE DEF u, r
<1>6. /\ hm' \in HmPage /\ hm'.sent = {} /\ hm'.clicks = hm.clicks + 1
      /\ hm'.lists = hm.lists /\ hm'.person = p /\ hm'.box = {} /\ hm'.counted = hm.counted
      /\ hm'.incs = hm.incs /\ hm'.raced = raced /\ hm'.twice = hm.twice /\ hm'.failed = hm.failed
      /\ UNCHANGED hmStore
    BY <1>1, <1>3, <1>4, <1>5, ClickDoes
<1>7. PICK new \in HmReq : /\ hmReqs' = hmReqs \cup {new}
                           /\ new.kind = "disclose" /\ new.of = p /\ ~new.done /\ new.rows = {} /\ new.incs = NoIncidents
    BY <1>1, <1>3, <1>4, <1>5, ClickDoes
<1>8. HmTypes' BY <1>1, <1>6, <1>7, RequestTypesKept
<1>9. CardsFresh' /\ IncidentsFresh' BY <1>3a, <1>6, <1>7, RequestKeepsFresh DEF HmInv
<1>10. RecordsFit' BY <1>6, <1>7, RecordingSame DEF HmInv
<1>11. DecisionsKnown' BY <1>6, <1>7, DecisionsSame DEF HmInv
<1>12. OneDossier' BY <1>3a, <1>6, <1>7 DEF HmInv, OneDossier
<1>13. ListsCover' BY <1>6, <1>7 DEF HmInv, ListsCover, Shows
<1> QED BY <1>8, <1>9, <1>10, <1>11, <1>12, <1>13 DEF HmInv

LEMMA RecordIncidentInv == HmInv /\ RecordIncident => HmInv'
<1> SUFFICES ASSUME HmInv, RecordIncident PROVE HmInv'
    OBVIOUS
<1>1. HmTypes BY DEF HmInv
<1> DEFINE r == HmRequest("record", "", 0, 0, "")
<1>2. HmClick(hm, r) BY DEF RecordIncident
<1>3. /\ r \in HmReq /\ r.kind = "record" /\ ~r.done /\ r.rows = {} /\ r.incs = NoIncidents
    <2>1. "record" \in HmKinds /\ "" \in {""} \cup HmPupils /\ "" \in {""} \cup Decisions /\ 0 \in 0 .. HmIncidents
        BY HmBounds DEF HmKinds
    <2>2. r \in HmReq BY <2>1, RequestTypes
    <2> QED BY <2>2 DEF HmRequest
<1> HIDE DEF r
<1>4. hm \in HmPage BY <1>1 DEF HmTypes
<1>6. /\ hm' \in HmPage /\ hm'.sent = {} /\ hm'.clicks = hm.clicks + 1
      /\ hm'.lists = hm.lists /\ hm'.person = hm.person /\ hm'.box = hm.box /\ hm'.counted = hm.counted
      /\ hm'.incs = hm.incs /\ hm'.raced = hm.raced /\ hm'.twice = hm.twice /\ hm'.failed = hm.failed
      /\ UNCHANGED hmStore
    BY <1>1, <1>2, <1>3, <1>4, ClickDoes
<1>7. PICK new \in HmReq : /\ hmReqs' = hmReqs \cup {new}
                           /\ new.kind = "record" /\ ~new.done /\ new.rows = {} /\ new.incs = NoIncidents
    BY <1>1, <1>2, <1>3, <1>4, ClickDoes
<1>8. HmTypes' BY <1>1, <1>6, <1>7, RequestTypesKept
<1>9. CardsFresh' /\ IncidentsFresh' BY <1>6, <1>7, RequestKeepsFresh DEF HmInv
<1>10. RecordsFit'
    <2> DEFINE All == {q \in hmReqs : q.kind = "record"}
    <2>1. Cardinality(All) < Cardinality(Free)
        <3>1. DOMAIN hm.incs = 1 .. HmIncidents /\ DOMAIN hmStore.incs = 1 .. HmIncidents
            BY <1>1 DEF HmTypes, HmPage, HmStored, Incidents
        <3>2. Free = {i \in DOMAIN hm.incs : hmStore.incs[i] = "none"} BY <3>1 DEF Free
        <3> QED BY <3>2 DEF RecordIncident
    <2>2. IsFiniteSet(All) /\ Cardinality(All) \in Nat BY <1>1, FS_Subset, FS_CardinalityType DEF HmTypes
    <2>3. Cardinality(Free) \in Nat BY <1>1, FreeFinite, FS_CardinalityType DEF HmTypes
    <2>4. Recording' \subseteq All \cup {new} BY <1>7 DEF Recording
    <2> HIDE DEF All
    <2>5. IsFiniteSet(All \cup {new}) /\ Cardinality(All \cup {new}) <= Cardinality(All) + 1
          /\ Cardinality(All \cup {new}) \in Nat
        <3>1. IsFiniteSet(All \cup {new})
              /\ Cardinality(All \cup {new}) = IF new \in All THEN Cardinality(All) ELSE Cardinality(All) + 1
            BY <2>2, FS_AddElement
        <3> QED BY <2>2, <3>1, FS_CardinalityType
    <2>6. Cardinality(Recording') <= Cardinality(All \cup {new}) /\ Cardinality(Recording') \in Nat
        BY <2>4, <2>5, FS_Subset, FS_CardinalityType
    <2>7. Free' = Free BY <1>6 DEF Free
    <2> QED BY <2>1, <2>2, <2>3, <2>5, <2>6, <2>7 DEF RecordsFit
<1>11. DecisionsKnown' BY <1>6, <1>7, DecisionsSame DEF HmInv
<1>12. OneDossier' BY <1>6, <1>7 DEF HmInv, OneDossier
<1>13. ListsCover' BY <1>6, <1>7 DEF HmInv, ListsCover, Shows
<1> QED BY <1>8, <1>9, <1>10, <1>11, <1>12, <1>13 DEF HmInv

LEMMA ResolveIncidentInv == HmInv /\ ResolveIncident => HmInv'
<1> SUFFICES ASSUME HmInv, ResolveIncident PROVE HmInv'
    OBVIOUS
<1>1. HmTypes BY DEF HmInv
<1>2. PICK id \in DOMAIN hm.incs, how \in Decisions :
          /\ Undecided(id)
          /\ HmClick([hm EXCEPT !.twice = IF \/ \E r \in hmReqs : r.kind = "resolve" /\ r.id = id
                                             \/ hm.incs[id] = "open" /\ hmStore.incs[id] \in Decisions
                                          THEN @ \cup {id} ELSE @],
                     HmRequest("resolve", "", 0, id, how))
    BY DEF ResolveIncident
<1> DEFINE twice == IF \/ \E r \in hmReqs : r.kind = "resolve" /\ r.id = id
                       \/ hm.incs[id] = "open" /\ hmStore.incs[id] \in Decisions
                    THEN hm.twice \cup {id} ELSE hm.twice
           u == [hm EXCEPT !.twice = twice]
           r == HmRequest("resolve", "", 0, id, how)
<1>3. id \in 1 .. HmIncidents /\ id \in 0 .. HmIncidents
    <2>1. DOMAIN hm.incs = 1 .. HmIncidents BY <1>1 DEF HmTypes, HmPage, Incidents
    <2> QED BY <2>1, HmBounds
<1>4. /\ r \in HmReq /\ r.kind = "resolve" /\ ~r.done /\ r.id = id /\ r.how = how /\ r.rows = {} /\ r.incs = NoIncidents
    <2>1. "resolve" \in HmKinds /\ "" \in {""} \cup HmPupils /\ how \in {""} \cup Decisions
        BY DEF HmKinds
    <2>2. r \in HmReq BY <1>3, <2>1, RequestTypes
    <2> QED BY <2>2 DEF HmRequest
<1>5. /\ twice \in SUBSET (1 .. HmIncidents) /\ hm.twice \subseteq twice
      /\ (\E q \in hmReqs : q.kind = "resolve" /\ q.id = id) => id \in twice
      /\ hmStore.incs[id] \in Decisions => id \in twice
    <2>1. hm.incs[id] = "open" BY <1>2 DEF Undecided
    <2>2. hm.twice \in SUBSET (1 .. HmIncidents) BY <1>1 DEF HmTypes, HmPage
    <2> QED BY <1>3, <2>1, <2>2
<1>6. hmStore.incs[id] = "open" \/ hmStore.incs[id] \in Decisions
    <2>1. hm.incs[id] = "open" BY <1>2 DEF Undecided
    <2>2. hmStore.incs[id] # "none" BY <1>3, <2>1 DEF HmInv, DecisionsKnown, Filed
    <2>3. hmStore.incs[id] \in {"none", "open"} \cup Decisions BY <1>1, <1>3 DEF HmTypes, HmStored, Incidents
    <2> QED BY <2>2, <2>3
<1>7. HmClick(u, r) BY <1>2
<1> HIDE DEF twice, r
<1>8. /\ u \in HmPage /\ u.clicks = hm.clicks /\ u.lists = hm.lists /\ u.person = hm.person /\ u.box = hm.box
      /\ u.counted = hm.counted /\ u.incs = hm.incs /\ u.raced = hm.raced /\ u.twice = twice /\ u.failed = hm.failed
    BY <1>1, <1>5 DEF HmTypes, HmPage
<1> HIDE DEF u
<1>9. /\ hm' \in HmPage /\ hm'.sent = {} /\ hm'.clicks = hm.clicks + 1
      /\ hm'.lists = hm.lists /\ hm'.person = hm.person /\ hm'.box = hm.box /\ hm'.counted = hm.counted
      /\ hm'.incs = hm.incs /\ hm'.raced = hm.raced /\ hm'.twice = twice /\ hm'.failed = hm.failed
      /\ UNCHANGED hmStore
    BY <1>1, <1>4, <1>7, <1>8, ClickDoes
<1>10. PICK new \in HmReq :
           /\ hmReqs' = hmReqs \cup {new} /\ new.kind = "resolve" /\ ~new.done /\ new.id = id /\ new.how = how
           /\ new.rows = {} /\ new.incs = NoIncidents
    BY <1>1, <1>4, <1>7, <1>8, ClickDoes
<1>11. HmTypes' BY <1>1, <1>3, <1>9, <1>10, RequestTypesKept
<1>12. CardsFresh' /\ IncidentsFresh' BY <1>9, <1>10, RequestKeepsFresh DEF HmInv
<1>13. RecordsFit' BY <1>9, <1>10, RecordingSame DEF HmInv
<1>14. DecisionsKnown'
    <2>1. Filed(NoIncidents) BY DEF Filed, NoIncidents
    <2>2. Filed(hm.incs)' /\ (\A q \in hmReqs : Filed(q.incs))' BY <1>9, <1>10, <2>1 DEF HmInv, DecisionsKnown, Filed
    <2>3. \A q \in hmReqs' : q.kind = "resolve" /\ ~q.done => hmStore'.incs[q.id] = "open" \/ q.id \in hm'.twice
        BY <1>5, <1>6, <1>9, <1>10 DEF HmInv, DecisionsKnown
    <2>3a. \A q \in hmReqs' : q.kind = "resolve" => hmStore'.incs[q.id] # "none"
        BY <1>6, <1>9, <1>10 DEF HmInv, DecisionsKnown, Decisions
    <2>4. ASSUME NEW q \in hmReqs', NEW s \in hmReqs',
                 q.kind = "resolve", ~q.done, s.kind = "resolve", ~s.done, q.id = s.id, q # s
          PROVE  q.id \in hm'.twice
        <3>1. CASE q \in hmReqs /\ s \in hmReqs BY <1>5, <1>9, <2>4, <3>1 DEF HmInv, DecisionsKnown
        <3>2. CASE q = new \/ s = new BY <1>5, <1>9, <1>10, <2>4, <3>2
        <3> QED BY <1>10, <3>1, <3>2
    <2> QED BY <2>2, <2>3, <2>3a, <2>4 DEF DecisionsKnown
<1>15. OneDossier' BY <1>9, <1>10 DEF HmInv, OneDossier
<1>16. ListsCover' BY <1>9, <1>10 DEF HmInv, ListsCover, Shows
<1> QED BY <1>11, <1>12, <1>13, <1>14, <1>15, <1>16 DEF HmInv

(* A pupil hands in. *)
LEMMA HandsInv == HmInv /\ (\E p \in HmPupils : Hands(p)) => HmInv'
<1> SUFFICES ASSUME HmInv, NEW p \in HmPupils, Hands(p) PROVE HmInv'
    OBVIOUS
<1>1. HmTypes BY DEF HmInv
<1> DEFINE d == [of |-> p, nr |-> hmStore.nr + 1]
<1>2. hmStore.nr \in Nat /\ hm.clicks \in Nat /\ hm.clicks + 1 \in 0 .. HmClicks /\ hmStore.nr + 1 \in 0 .. HmClicks
    <2>1. hmStore.nr \in 0 .. HmClicks /\ hm.clicks \in 0 .. HmClicks /\ hmStore.nr <= hm.clicks
        BY <1>1 DEF HmTypes, HmStored, HmPage
    <2>2. hm.clicks < HmClicks BY DEF Hands
    <2> QED BY <2>1, <2>2, HmBounds
<1>3. /\ hm' \in HmPage /\ hm'.sent = {} /\ hm'.clicks = hm.clicks + 1
      /\ hm'.lists = hm.lists /\ hm'.person = hm.person /\ hm'.box = hm.box /\ hm'.counted = hm.counted
      /\ hm'.incs = hm.incs /\ hm'.raced = hm.raced /\ hm'.twice = hm.twice /\ hm'.failed = hm.failed
    <2>1. hm' = [hm EXCEPT !.clicks = @ + 1] BY DEF Hands
    <2> QED BY <1>1, <1>2, <2>1 DEF HmTypes, HmPage
<1>4. d \in Submission /\ d.of = p /\ d.nr = hmStore.nr + 1 BY <1>2 DEF Submission
<1> HIDE DEF d
<1>5. hmStore' \in HmStored /\ hmStore'.nr = hmStore.nr + 1 /\ hmStore'.data = hmStore.data \cup {d} /\ hmStore'.incs = hmStore.incs
    <2>1. hmStore' = [hmStore EXCEPT !.nr = @ + 1, !.data = @ \cup {d}] BY DEF Hands, d
    <2> QED BY <1>1, <1>2, <1>4, <2>1 DEF HmTypes, HmStored
<1>6. hmReqs' = hmReqs BY DEF Hands
<1>7. HmTypes' BY <1>1, <1>2, <1>3, <1>5, <1>6 DEF HmTypes
<1>8. CardsFresh' BY <1>3, <1>5, <1>6 DEF HmInv, CardsFresh, Reloads
<1>9. IncidentsFresh' BY <1>3, <1>5, <1>6 DEF HmInv, IncidentsFresh, Reloads
<1>10. RecordsFit'
    <2>1. Recording' = Recording BY <1>6 DEF Recording
    <2>2. Free' = Free BY <1>5 DEF Free
    <2> QED BY <2>1, <2>2 DEF HmInv, RecordsFit
<1>11. DecisionsKnown' BY <1>3, <1>5, <1>6 DEF HmInv, DecisionsKnown, Filed
<1>12. OneDossier' BY <1>3, <1>6 DEF HmInv, OneDossier
<1>13. ListsCover'
    <2>1. ASSUME NEW of, NEW rows, NEW upto \in Nat, Shows(of, rows, upto) PROVE Shows(of, rows, upto)'
        <3>1. upto <= hmStore.nr BY <2>1 DEF Shows
        <3>2. upto <= hmStore'.nr /\ ~(d.nr <= upto) BY <1>2, <1>4, <1>5, <2>1, <3>1
        <3> QED BY <1>5, <2>1, <3>2 DEF Shows
    <2>2. \A list \in hm.lists : list.upto \in Nat BY <1>1 DEF HmTypes, HmPage, HmList
    <2>3. \A r \in hmReqs : r.upto \in Nat BY <1>1 DEF HmTypes, HmReq
    <2> QED BY <1>3, <1>6, <2>1, <2>2, <2>3 DEF HmInv, ListsCover
<1> QED BY <1>7, <1>8, <1>9, <1>10, <1>11, <1>12, <1>13 DEF HmInv

-----------------------------------------------------------------------------
(* A request is answered, or lost, and the page may load again. *)

FreshLoads(S) ==
    \A q \in S : /\ q \in HmReq /\ q.kind \in {"status", "incidents"}
                 /\ ~q.done /\ q.rows = {} /\ q.incs = NoIncidents

LEMMA RemovalTypes ==
    ASSUME HmTypes, NEW r, NEW S, IsFiniteSet(S), FreshLoads(S), hmReqs' = (hmReqs \ {r}) \cup S, UNCHANGED hmStore,
           hm' \in HmPage, hm'.sent = {}, hm'.clicks = hm.clicks \/ hm'.clicks = hm.clicks + 1
    PROVE  HmTypes'
<1>1. IsFiniteSet(hmReqs')
    <2>1. IsFiniteSet(hmReqs \ {r}) BY FS_Subset DEF HmTypes
    <2> QED BY <2>1, FS_Union
<1>2. hmStore.nr \in Nat /\ hm.clicks \in Nat
    <2>1. hmStore.nr \in 0 .. HmClicks /\ hm.clicks \in 0 .. HmClicks BY DEF HmTypes, HmStored, HmPage
    <2> QED BY <2>1, HmBounds
<1>3. hmStore'.nr <= hm'.clicks BY <1>2 DEF HmTypes
<1> QED BY <1>1, <1>3 DEF HmTypes, FreshLoads

LEMMA RemovalFit ==
    ASSUME HmTypes, RecordsFit, NEW r, NEW S, FreshLoads(S), hmReqs' = (hmReqs \ {r}) \cup S, UNCHANGED hmStore
    PROVE  RecordsFit'
<1>1. Recording' \subseteq Recording BY DEF Recording, FreshLoads
<1>2. IsFiniteSet(Recording) BY FS_Subset DEF HmTypes, Recording
<1>3. Cardinality(Recording') <= Cardinality(Recording) /\ Cardinality(Recording') \in Nat /\ Cardinality(Recording) \in Nat
    BY <1>1, <1>2, FS_Subset, FS_CardinalityType
<1>4. Cardinality(Free) \in Nat BY FreeFinite, FS_CardinalityType DEF HmTypes
<1>5. Free' = Free BY DEF Free
<1> QED BY <1>3, <1>4, <1>5 DEF RecordsFit

LEMMA RemovalLists ==
    ASSUME ListsCover, NEW r, NEW S, FreshLoads(S), hmReqs' = (hmReqs \ {r}) \cup S, UNCHANGED hmStore,
           hm'.lists \subseteq hm.lists
    PROVE  ListsCover'
BY DEF ListsCover, Shows, FreshLoads

LEMMA RemovalDossier ==
    ASSUME OneDossier, NEW r, NEW S, FreshLoads(S), hmReqs' = (hmReqs \ {r}) \cup S,
           hm'.box = hm.box, hm'.person = hm.person, hm.raced \subseteq hm'.raced
    PROVE  OneDossier'
BY DEF OneDossier, FreshLoads

LEMMA RemovalDecisions ==
    ASSUME DecisionsKnown, NEW r, NEW S, FreshLoads(S), hmReqs' = (hmReqs \ {r}) \cup S, UNCHANGED hmStore,
           hm'.twice = hm.twice, Filed(hm'.incs)
    PROVE  DecisionsKnown'
<1>1. Filed(NoIncidents) BY DEF Filed, NoIncidents
<1>2. \A q \in S : Filed(q.incs) /\ q.kind # "resolve" BY <1>1 DEF FreshLoads
<1>3. \A q \in hmReqs' : q \in hmReqs \/ (Filed(q.incs) /\ q.kind # "resolve") BY <1>2
<1> QED BY <1>3 DEF DecisionsKnown, Filed

(* Nothing in the way of the cards but this request, which is none of theirs. *)
LEMMA RemovalFresh ==
    ASSUME CardsFresh, IncidentsFresh, NEW r, r.kind \in {"preview", "disclose"}, hmReqs' = hmReqs \ {r},
           UNCHANGED hmStore, hm'.counted = hm.counted, hm'.incs = hm.incs, hm'.failed = hm.failed, hm'.raced = hm.raced
    PROVE  CardsFresh' /\ IncidentsFresh'
<1>1. CardsFresh' BY DEF CardsFresh, Reloads
<1>2. IncidentsFresh' BY DEF IncidentsFresh, Reloads
<1> QED BY <1>1, <1>2

LEMMA HmBecomesDoes ==
    ASSUME NEW u \in HmPage, NEW reqs, HmBecomes(u, reqs)
    PROVE  /\ hm' \in HmPage /\ hm'.sent = {} /\ hmReqs' = reqs \cup u.sent /\ hm'.clicks = u.clicks
           /\ hm'.lists = u.lists /\ hm'.person = u.person /\ hm'.box = u.box /\ hm'.counted = u.counted
           /\ hm'.incs = u.incs /\ hm'.raced = u.raced /\ hm'.twice = u.twice /\ hm'.failed = u.failed
<1>1. hm' = [u EXCEPT !.sent = {}] /\ hmReqs' = reqs \cup u.sent BY DEF HmBecomes
<1> QED BY <1>1 DEF HmPage

LEMMA HmLostInv == HmInv /\ (\E r \in hmReqs : HmLost(r)) => HmInv'
<1> SUFFICES ASSUME HmInv, NEW r \in hmReqs, HmLost(r) PROVE HmInv'
    OBVIOUS
<1>1. HmTypes /\ hm \in HmPage BY DEF HmInv, HmTypes
<1>2. hm.clicks \in Nat /\ hm.clicks + 1 \in 0 .. HmClicks
    <2>1. hm.clicks \in 0 .. HmClicks /\ hm.clicks < HmClicks BY <1>1 DEF HmLost, HmPage
    <2> QED BY <2>1, HmBounds
<1> DEFINE u == [hm EXCEPT !.clicks = @ + 1, !.failed = TRUE]
<1>3. /\ u \in HmPage /\ u.sent = {} /\ u.clicks = hm.clicks + 1 /\ u.failed
      /\ u.lists = hm.lists /\ u.person = hm.person /\ u.box = hm.box /\ u.incs = hm.incs
      /\ u.raced = hm.raced /\ u.twice = hm.twice
    BY <1>1, <1>2 DEF HmTypes, HmPage
<1>4. hm' = CASE r.kind \in {"preview", "execute"} -> [u EXCEPT !.lists = {}, !.said = "error"]
              [] r.kind = "disclose" -> [u EXCEPT !.box = {NoDossier}] [] OTHER -> u
    BY DEF HmLost
<1> HIDE DEF u
<1>5. NoDossier \in HmDossier /\ NoDossier.of = "" /\ NoDossier.rows = {} BY DEF NoDossier, HmDossier
<1>6. /\ hm' \in HmPage /\ hm'.sent = {} /\ hm'.clicks = hm.clicks + 1 /\ hm'.failed
      /\ hm'.lists \subseteq hm.lists /\ hm'.person = hm.person /\ (hm'.box = hm.box \/ hm'.box = {NoDossier})
      /\ hm'.incs = hm.incs /\ hm'.raced = hm.raced /\ hm'.twice = hm.twice
    <2>1. CASE r.kind \in {"preview", "execute"}
        <3>1. hm' = [u EXCEPT !.lists = {}, !.said = "error"] BY <1>4, <2>1
        <3> QED BY <1>3, <3>1 DEF HmPage
    <2>2. CASE r.kind = "disclose"
        <3>1. hm' = [u EXCEPT !.box = {NoDossier}] BY <1>4, <2>2
        <3> QED BY <1>3, <1>5, <3>1 DEF HmPage
    <2>3. CASE r.kind \notin {"preview", "execute", "disclose"}
        <3>1. hm' = u BY <1>4, <2>3
        <3> QED BY <1>3, <3>1
    <2> QED BY <2>1, <2>2, <2>3
<1>7. FreshLoads({}) /\ IsFiniteSet({}) /\ hmReqs' = (hmReqs \ {r}) \cup {} /\ UNCHANGED hmStore
    BY FS_EmptySet DEF FreshLoads, HmLost
<1>8. HmTypes' BY <1>1, <1>6, <1>7, RemovalTypes
<1>9. RecordsFit' BY <1>1, <1>7, RemovalFit DEF HmInv
<1>10. ListsCover' BY <1>6, <1>7, RemovalLists DEF HmInv
<1>11. OneDossier' BY <1>5, <1>6, <1>7 DEF HmInv, OneDossier
<1>12. DecisionsKnown'
    <2>1. Filed(hm'.incs) BY <1>6, <1>7 DEF HmInv, DecisionsKnown
    <2> QED BY <1>6, <1>7, <2>1, RemovalDecisions DEF HmInv
<1>13. CardsFresh' /\ IncidentsFresh' BY <1>6 DEF CardsFresh, IncidentsFresh
<1> QED BY <1>8, <1>9, <1>10, <1>11, <1>12, <1>13 DEF HmInv

(* What an answer does that makes the page load again. *)
Load(k, nr) == HmRequest(k, "", nr, 0, "")
Loads(kinds, nr) == {Load(k, nr) : k \in kinds}

LEMMA LoadsDo ==
    ASSUME HmTypes, NEW u \in HmPage, u.sent = {}, NEW kinds, kinds \subseteq {"status", "incidents"},
           NEW r \in hmReqs, HmBecomes(HmLoads(u, kinds, r.nr), hmReqs \ {r})
    PROVE  /\ hm' \in HmPage /\ hm'.sent = {} /\ hm'.clicks = u.clicks
           /\ hm'.lists = u.lists /\ hm'.person = u.person /\ hm'.box = u.box /\ hm'.counted = u.counted
           /\ hm'.incs = u.incs /\ hm'.twice = u.twice /\ hm'.failed = u.failed
           /\ hm'.raced = u.raced \cup {k \in kinds : \E q \in hmReqs : q.kind = k}
           /\ hmReqs' = (hmReqs \ {r}) \cup Loads(kinds, r.nr)
           /\ FreshLoads(Loads(kinds, r.nr)) /\ IsFiniteSet(Loads(kinds, r.nr))
<1> DEFINE S == {Load(k, r.nr) : k \in kinds}
           raced == u.raced \cup {k \in kinds : \E q \in hmReqs : q.kind = k}
           v == HmLoads(u, kinds, r.nr)
<1>1. r.nr \in Nat BY DEF HmTypes, HmReq
<1>2. ASSUME NEW k \in kinds
      PROVE  /\ Load(k, r.nr) \in HmReq /\ Load(k, r.nr).kind = k /\ ~Load(k, r.nr).done
             /\ Load(k, r.nr).rows = {} /\ Load(k, r.nr).incs = NoIncidents
    <2>1. k \in HmKinds /\ "" \in {""} \cup HmPupils /\ "" \in {""} \cup Decisions /\ 0 \in 0 .. HmIncidents
        BY HmBounds DEF HmKinds
    <2>2. Load(k, r.nr) \in HmReq BY <1>1, <2>1, RequestTypes DEF Load
    <2> QED BY <2>2 DEF Load, HmRequest
<1>3. FreshLoads(S)
    <2>1. ASSUME NEW q \in S
          PROVE  q \in HmReq /\ q.kind \in {"status", "incidents"} /\ ~q.done /\ q.rows = {} /\ q.incs = NoIncidents
        <3>1. PICK k \in kinds : q = Load(k, r.nr) OBVIOUS
        <3> QED BY <1>2, <3>1
    <2> HIDE DEF S
    <2> QED BY <2>1 DEF FreshLoads
<1>4. IsFiniteSet(S)
    <2>1. S \subseteq {Load("status", r.nr)} \cup {Load("incidents", r.nr)} OBVIOUS
    <2>2. IsFiniteSet({Load("status", r.nr)} \cup {Load("incidents", r.nr)}) BY FS_Singleton, FS_Union
    <2> HIDE DEF S
    <2> QED BY <2>1, <2>2, FS_Subset
<1>5. S \in SUBSET HmReq BY <1>2
<1>6. v = [u EXCEPT !.sent = @ \cup S, !.raced = @ \cup {k \in kinds : \E q \in hmReqs : q.kind = k}]
    BY DEF HmLoads, Load
<1>7. raced \in SUBSET HmKinds BY DEF HmPage, HmKinds
<1>8. /\ u.sent \cup S = S
      /\ v = [u EXCEPT !.sent = u.sent \cup S, !.raced = raced]
    BY <1>6 DEF HmPage
<1> HIDE DEF S, raced, v
<1>9. /\ v \in HmPage /\ v.sent = S /\ v.clicks = u.clicks /\ v.raced = raced
      /\ v.lists = u.lists /\ v.person = u.person /\ v.box = u.box /\ v.counted = u.counted
      /\ v.incs = u.incs /\ v.twice = u.twice /\ v.failed = u.failed
    BY <1>5, <1>7, <1>8 DEF HmPage
<1>10. HmBecomes(v, hmReqs \ {r}) BY DEF v
<1>11. /\ hm' \in HmPage /\ hm'.sent = {} /\ hmReqs' = (hmReqs \ {r}) \cup v.sent /\ hm'.clicks = v.clicks
       /\ hm'.lists = v.lists /\ hm'.person = v.person /\ hm'.box = v.box /\ hm'.counted = v.counted
       /\ hm'.incs = v.incs /\ hm'.raced = v.raced /\ hm'.twice = v.twice /\ hm'.failed = v.failed
    BY <1>9, <1>10, HmBecomesDoes
<1>12. /\ hm' \in HmPage /\ hm'.sent = {} /\ hmReqs' = (hmReqs \ {r}) \cup S /\ hm'.clicks = u.clicks
       /\ hm'.lists = u.lists /\ hm'.person = u.person /\ hm'.box = u.box /\ hm'.counted = u.counted
       /\ hm'.incs = u.incs /\ hm'.raced = raced /\ hm'.twice = u.twice /\ hm'.failed = u.failed
    BY <1>9, <1>11
<1>13. S = Loads(kinds, r.nr) BY DEF S, Loads
<1> QED BY <1>3, <1>4, <1>12, <1>13 DEF raced

LEMMA LoadKind == ASSUME NEW k, NEW nr PROVE Load(k, nr).kind = k
BY DEF Load, HmRequest

LEMMA PreviewedInv ==
    ASSUME HmInv, NEW r \in hmReqs, r.kind = "preview", r.done, UNCHANGED hmStore,
           HmBecomes(Previewed(hm, r), hmReqs \ {r})
    PROVE  HmInv'
<1>1. HmTypes /\ hm \in HmPage /\ hm.sent = {} BY DEF HmInv, HmTypes
<1> DEFINE list == [of |-> r.of, rows |-> r.rows, upto |-> r.upto, disabled |-> FALSE]
           u == Previewed(hm, r)
<1>2. r \in HmReq /\ r.of \in HmPupils /\ Shows(r.of, r.rows, r.upto) BY DEF HmInv, HmTypes, ListsCover
<1>3. list \in HmList /\ list.of = r.of /\ list.rows = r.rows /\ list.upto = r.upto BY <1>2 DEF HmList, HmReq
<1>4. (r.rows = {} /\ u = [hm EXCEPT !.lists = {}, !.said = "nobody"])
      \/ (r.rows # {} /\ u = [hm EXCEPT !.lists = @ \cup {list}])
    BY DEF Previewed
<1> HIDE DEF list, u
<1>5. /\ u \in HmPage /\ u.sent = {} /\ u.clicks = hm.clicks /\ u.person = hm.person /\ u.box = hm.box
      /\ u.counted = hm.counted /\ u.incs = hm.incs /\ u.raced = hm.raced /\ u.twice = hm.twice /\ u.failed = hm.failed
      /\ u.lists = {} \/ (r.rows # {} /\ u.lists = hm.lists \cup {list})
    <2>1. CASE u = [hm EXCEPT !.lists = {}, !.said = "nobody"] BY <1>1, <2>1 DEF HmPage
    <2>2. CASE r.rows # {} /\ u = [hm EXCEPT !.lists = @ \cup {list}] BY <1>1, <1>3, <2>2 DEF HmPage
    <2> QED BY <1>4, <2>1, <2>2
<1>6. /\ hm' \in HmPage /\ hm'.sent = {} /\ hmReqs' = (hmReqs \ {r}) \cup u.sent /\ hm'.clicks = u.clicks
      /\ hm'.lists = u.lists /\ hm'.person = u.person /\ hm'.box = u.box /\ hm'.counted = u.counted
      /\ hm'.incs = u.incs /\ hm'.raced = u.raced /\ hm'.twice = u.twice /\ hm'.failed = u.failed
    <2>1. HmBecomes(u, hmReqs \ {r}) BY DEF u
    <2> QED BY <1>5, <2>1, HmBecomesDoes
<1>7. hmReqs' = (hmReqs \ {r}) \cup {} /\ hmReqs' = hmReqs \ {r} BY <1>5, <1>6
<1>8. FreshLoads({}) /\ IsFiniteSet({}) BY FS_EmptySet DEF FreshLoads
<1>9. HmTypes' BY <1>1, <1>5, <1>6, <1>7, <1>8, RemovalTypes
<1>10. RecordsFit' BY <1>1, <1>7, <1>8, RemovalFit DEF HmInv
<1>11. OneDossier' BY <1>5, <1>6, <1>7, <1>8, RemovalDossier DEF HmInv
<1>12. DecisionsKnown'
    <2>1. Filed(hm'.incs) BY <1>5, <1>6 DEF HmInv, DecisionsKnown
    <2> QED BY <1>5, <1>6, <1>7, <1>8, <2>1, RemovalDecisions DEF HmInv
<1>13. CardsFresh' /\ IncidentsFresh' BY <1>5, <1>6, <1>7, RemovalFresh DEF HmInv
<1>14. ListsCover'
    <2>1. \A of, rows, upto : Shows(of, rows, upto) => Shows(of, rows, upto)' BY DEF Shows
    <2>2. \A l \in hm'.lists : l \in hm.lists \/ (l = list /\ r.rows # {}) BY <1>5, <1>6
    <2> QED BY <1>2, <1>3, <1>7, <2>1, <2>2 DEF HmInv, ListsCover
<1> QED BY <1>9, <1>10, <1>11, <1>12, <1>13, <1>14 DEF HmInv

LEMMA RenderDossierInv ==
    ASSUME HmInv, NEW r \in hmReqs, r.kind = "disclose", r.done, UNCHANGED hmStore,
           HmBecomes(RenderDossier(hm, r), hmReqs \ {r})
    PROVE  HmInv'
<1>1. HmTypes /\ hm \in HmPage /\ hm.sent = {} BY DEF HmInv, HmTypes
<1> DEFINE d == [of |-> r.of, rows |-> r.rows]
           u == RenderDossier(hm, r)
<1>2. r \in HmReq /\ r.of \in HmPupils BY DEF HmInv, HmTypes
<1>3. d \in HmDossier /\ d.of = r.of /\ d.rows = r.rows BY <1>2 DEF HmDossier, HmReq
<1>4. u = [hm EXCEPT !.box = {d}] BY DEF RenderDossier
<1> HIDE DEF d, u
<1>5. /\ u \in HmPage /\ u.sent = {} /\ u.clicks = hm.clicks /\ u.person = hm.person /\ u.box = {d} /\ u.lists = hm.lists
      /\ u.counted = hm.counted /\ u.incs = hm.incs /\ u.raced = hm.raced /\ u.twice = hm.twice /\ u.failed = hm.failed
    BY <1>1, <1>3, <1>4 DEF HmPage
<1>6. /\ hm' \in HmPage /\ hm'.sent = {} /\ hmReqs' = (hmReqs \ {r}) \cup u.sent /\ hm'.clicks = u.clicks
      /\ hm'.lists = u.lists /\ hm'.person = u.person /\ hm'.box = u.box /\ hm'.counted = u.counted
      /\ hm'.incs = u.incs /\ hm'.raced = u.raced /\ hm'.twice = u.twice /\ hm'.failed = u.failed
    <2>1. HmBecomes(u, hmReqs \ {r}) BY DEF u
    <2> QED BY <1>5, <2>1, HmBecomesDoes
<1>7. hmReqs' = (hmReqs \ {r}) \cup {} /\ hmReqs' = hmReqs \ {r} BY <1>5, <1>6
<1>8. FreshLoads({}) /\ IsFiniteSet({}) BY FS_EmptySet DEF FreshLoads
<1>9. HmTypes' BY <1>1, <1>5, <1>6, <1>7, <1>8, RemovalTypes
<1>10. RecordsFit' BY <1>1, <1>7, <1>8, RemovalFit DEF HmInv
<1>11. ListsCover' BY <1>5, <1>6, <1>7, <1>8, RemovalLists DEF HmInv
<1>12. DecisionsKnown'
    <2>1. Filed(hm'.incs) BY <1>5, <1>6 DEF HmInv, DecisionsKnown
    <2> QED BY <1>5, <1>6, <1>7, <1>8, <2>1, RemovalDecisions DEF HmInv
<1>13. CardsFresh' /\ IncidentsFresh' BY <1>5, <1>6, <1>7, RemovalFresh DEF HmInv
<1>14. OneDossier'
    <2>1. hm'.box = {d} /\ hm'.person = hm.person /\ hm'.raced = hm.raced BY <1>5, <1>6
    <2>2. /\ r.of = hm.person \/ "disclose" \in hm.raced
          /\ \A s \in r.rows : s.of = r.of
        BY DEF HmInv, OneDossier
    <2> QED BY <1>3, <1>7, <2>1, <2>2 DEF HmInv, OneDossier
<1> QED BY <1>9, <1>10, <1>11, <1>12, <1>13, <1>14 DEF HmInv

LEMMA StatusInv ==
    ASSUME HmInv, NEW r \in hmReqs, r.kind = "status", r.done, UNCHANGED hmStore,
           HmBecomes([hm EXCEPT !.counted = r.rows], hmReqs \ {r})
    PROVE  HmInv'
<1>1. HmTypes /\ hm \in HmPage /\ hm.sent = {} BY DEF HmInv, HmTypes
<1> DEFINE u == [hm EXCEPT !.counted = r.rows]
<1>2. r.rows \in SUBSET Submission BY DEF HmInv, HmTypes, HmReq
<1>3. /\ u \in HmPage /\ u.sent = {} /\ u.clicks = hm.clicks /\ u.person = hm.person /\ u.box = hm.box /\ u.lists = hm.lists
      /\ u.counted = r.rows /\ u.incs = hm.incs /\ u.raced = hm.raced /\ u.twice = hm.twice /\ u.failed = hm.failed
    BY <1>1, <1>2 DEF HmPage
<1> HIDE DEF u
<1>4. /\ hm' \in HmPage /\ hm'.sent = {} /\ hmReqs' = (hmReqs \ {r}) \cup u.sent /\ hm'.clicks = u.clicks
      /\ hm'.lists = u.lists /\ hm'.person = u.person /\ hm'.box = u.box /\ hm'.counted = u.counted
      /\ hm'.incs = u.incs /\ hm'.raced = u.raced /\ hm'.twice = u.twice /\ hm'.failed = u.failed
    <2>1. HmBecomes(u, hmReqs \ {r}) BY DEF u
    <2> QED BY <1>3, <2>1, HmBecomesDoes
<1>5. hmReqs' = (hmReqs \ {r}) \cup {} /\ hmReqs' = hmReqs \ {r} BY <1>3, <1>4
<1>6. FreshLoads({}) /\ IsFiniteSet({}) BY FS_EmptySet DEF FreshLoads
<1>7. HmTypes' BY <1>1, <1>3, <1>4, <1>5, <1>6, RemovalTypes
<1>8. RecordsFit' BY <1>1, <1>5, <1>6, RemovalFit DEF HmInv
<1>9. ListsCover' BY <1>3, <1>4, <1>5, <1>6, RemovalLists DEF HmInv
<1>10. OneDossier' BY <1>3, <1>4, <1>5, <1>6, RemovalDossier DEF HmInv
<1>11. DecisionsKnown'
    <2>1. Filed(hm'.incs) BY <1>3, <1>4 DEF HmInv, DecisionsKnown
    <2> QED BY <1>3, <1>4, <1>5, <1>6, <2>1, RemovalDecisions DEF HmInv
<1>12. hm'.counted = r.rows /\ hm'.raced = hm.raced /\ hm'.failed = hm.failed /\ hm'.incs = hm.incs BY <1>3, <1>4
<1>13. CardsFresh' BY <1>5, <1>12 DEF HmInv, CardsFresh, Reloads
<1>14. IncidentsFresh' BY <1>5, <1>12 DEF HmInv, IncidentsFresh, Reloads
<1> QED BY <1>7, <1>8, <1>9, <1>10, <1>11, <1>13, <1>14 DEF HmInv

LEMMA IncidentsInv ==
    ASSUME HmInv, NEW r \in hmReqs, r.kind = "incidents", r.done, UNCHANGED hmStore,
           HmBecomes([hm EXCEPT !.incs = r.incs], hmReqs \ {r})
    PROVE  HmInv'
<1>1. HmTypes /\ hm \in HmPage /\ hm.sent = {} BY DEF HmInv, HmTypes
<1> DEFINE u == [hm EXCEPT !.incs = r.incs]
<1>2. r.incs \in Incidents BY DEF HmInv, HmTypes, HmReq
<1>3. /\ u \in HmPage /\ u.sent = {} /\ u.clicks = hm.clicks /\ u.person = hm.person /\ u.box = hm.box /\ u.lists = hm.lists
      /\ u.counted = hm.counted /\ u.incs = r.incs /\ u.raced = hm.raced /\ u.twice = hm.twice /\ u.failed = hm.failed
    BY <1>1, <1>2 DEF HmPage
<1> HIDE DEF u
<1>4. /\ hm' \in HmPage /\ hm'.sent = {} /\ hmReqs' = (hmReqs \ {r}) \cup u.sent /\ hm'.clicks = u.clicks
      /\ hm'.lists = u.lists /\ hm'.person = u.person /\ hm'.box = u.box /\ hm'.counted = u.counted
      /\ hm'.incs = u.incs /\ hm'.raced = u.raced /\ hm'.twice = u.twice /\ hm'.failed = u.failed
    <2>1. HmBecomes(u, hmReqs \ {r}) BY DEF u
    <2> QED BY <1>3, <2>1, HmBecomesDoes
<1>5. hmReqs' = (hmReqs \ {r}) \cup {} /\ hmReqs' = hmReqs \ {r} BY <1>3, <1>4
<1>6. FreshLoads({}) /\ IsFiniteSet({}) BY FS_EmptySet DEF FreshLoads
<1>7. HmTypes' BY <1>1, <1>3, <1>4, <1>5, <1>6, RemovalTypes
<1>8. RecordsFit' BY <1>1, <1>5, <1>6, RemovalFit DEF HmInv
<1>9. ListsCover' BY <1>3, <1>4, <1>5, <1>6, RemovalLists DEF HmInv
<1>10. OneDossier' BY <1>3, <1>4, <1>5, <1>6, RemovalDossier DEF HmInv
<1>11. DecisionsKnown'
    <2>1. Filed(hm'.incs) BY <1>3, <1>4 DEF HmInv, DecisionsKnown
    <2> QED BY <1>3, <1>4, <1>5, <1>6, <2>1, RemovalDecisions DEF HmInv
<1>12. hm'.counted = hm.counted /\ hm'.raced = hm.raced /\ hm'.failed = hm.failed /\ hm'.incs = r.incs BY <1>3, <1>4
<1>13. CardsFresh' BY <1>5, <1>12 DEF HmInv, CardsFresh, Reloads
<1>14. IncidentsFresh' BY <1>5, <1>12 DEF HmInv, IncidentsFresh, Reloads
<1> QED BY <1>7, <1>8, <1>9, <1>10, <1>11, <1>13, <1>14 DEF HmInv

LEMMA ExecutedInv ==
    ASSUME HmInv, NEW r \in hmReqs, r.kind = "execute", r.done, UNCHANGED hmStore,
           HmBecomes(Executed(hm, r), hmReqs \ {r})
    PROVE  HmInv'
<1>1. HmTypes /\ hm \in HmPage /\ hm.sent = {} BY DEF HmInv, HmTypes
<1> DEFINE u == [hm EXCEPT !.lists = {}, !.said = "erased"]
           S == Loads({"status"}, r.nr)
           new == Load("status", r.nr)
<1>2. /\ u \in HmPage /\ u.sent = {} /\ u.clicks = hm.clicks /\ u.person = hm.person /\ u.box = hm.box /\ u.lists = {}
      /\ u.counted = hm.counted /\ u.incs = hm.incs /\ u.raced = hm.raced /\ u.twice = hm.twice /\ u.failed = hm.failed
    BY <1>1 DEF HmPage
<1>3. HmBecomes(HmLoads(u, {"status"}, r.nr), hmReqs \ {r}) BY DEF Executed
<1> HIDE DEF u
<1>4. /\ hm' \in HmPage /\ hm'.sent = {} /\ hm'.clicks = u.clicks
      /\ hm'.lists = u.lists /\ hm'.person = u.person /\ hm'.box = u.box /\ hm'.counted = u.counted
      /\ hm'.incs = u.incs /\ hm'.twice = u.twice /\ hm'.failed = u.failed
      /\ hm'.raced = u.raced \cup {k \in {"status"} : \E q \in hmReqs : q.kind = k}
      /\ hmReqs' = (hmReqs \ {r}) \cup S /\ FreshLoads(S) /\ IsFiniteSet(S) /\ new.kind = "status"
    <2>1. {"status"} \subseteq {"status", "incidents"} OBVIOUS
    <2> HIDE DEF new
    <2>2. new.kind = "status" BY LoadKind DEF new
    <2> QED BY <1>1, <1>2, <1>3, <2>1, <2>2, LoadsDo
<1>5. S = {new} BY DEF Loads
<1> HIDE DEF S, new
<1>6. /\ hm.raced \subseteq hm'.raced /\ ("status" \in hm'.raced \/ \A q \in hmReqs : q.kind # "status")
      /\ "incidents" \in hm.raced => "incidents" \in hm'.raced
    BY <1>2, <1>4
<1>7. HmTypes' BY <1>1, <1>2, <1>4, RemovalTypes
<1>8. RecordsFit' BY <1>1, <1>4, RemovalFit DEF HmInv
<1>9. ListsCover' BY <1>2, <1>4, RemovalLists DEF HmInv
<1>10. OneDossier' BY <1>2, <1>4, <1>6, RemovalDossier DEF HmInv
<1>11. DecisionsKnown'
    <2>1. Filed(hm'.incs) BY <1>2, <1>4 DEF HmInv, DecisionsKnown
    <2> QED BY <1>2, <1>4, <2>1, RemovalDecisions DEF HmInv
<1>12. new.kind = "status" /\ ~new.done /\ hmReqs' = (hmReqs \ {r}) \cup {new} BY <1>4, <1>5 DEF FreshLoads
<1>13. CardsFresh' BY <1>6, <1>12 DEF CardsFresh, Reloads
<1>14. hm'.incs = hm.incs /\ hm'.failed = hm.failed BY <1>2, <1>4
<1>15. IncidentsFresh' BY <1>6, <1>12, <1>14 DEF HmInv, IncidentsFresh, Reloads
<1> QED BY <1>7, <1>8, <1>9, <1>10, <1>11, <1>13, <1>15 DEF HmInv

LEMMA DocumentedInv ==
    ASSUME HmInv, NEW r \in hmReqs, r.kind \in {"record", "resolve"}, r.done, UNCHANGED hmStore,
           HmBecomes(Documented(hm, r), hmReqs \ {r})
    PROVE  HmInv'
<1>1. HmTypes /\ hm \in HmPage /\ hm.sent = {} BY DEF HmInv, HmTypes
<1> DEFINE both == {"incidents", "status"}
           S == Loads(both, r.nr)
           a == Load("status", r.nr)
           b == Load("incidents", r.nr)
<1>2. HmBecomes(HmLoads(hm, both, r.nr), hmReqs \ {r}) BY DEF Documented
<1>3. /\ hm' \in HmPage /\ hm'.sent = {} /\ hm'.clicks = hm.clicks
      /\ hm'.lists = hm.lists /\ hm'.person = hm.person /\ hm'.box = hm.box /\ hm'.counted = hm.counted
      /\ hm'.incs = hm.incs /\ hm'.twice = hm.twice /\ hm'.failed = hm.failed
      /\ hm'.raced = hm.raced \cup {k \in both : \E q \in hmReqs : q.kind = k}
      /\ hmReqs' = (hmReqs \ {r}) \cup S /\ FreshLoads(S) /\ IsFiniteSet(S) /\ a.kind = "status" /\ b.kind = "incidents"
    <2>1. both \subseteq {"status", "incidents"} OBVIOUS
    <2> HIDE DEF both, a, b
    <2>2. a.kind = "status" /\ b.kind = "incidents" BY LoadKind DEF a, b
    <2> QED BY <1>1, <1>2, <2>1, <2>2, LoadsDo
<1>4. S = {a, b} BY DEF Loads
<1>5. /\ hm.raced \subseteq hm'.raced
      /\ "status" \in hm'.raced \/ \A q \in hmReqs : q.kind # "status"
      /\ "incidents" \in hm'.raced \/ \A q \in hmReqs : q.kind # "incidents"
    BY <1>3
<1> HIDE DEF S, a, b, both
<1>7. HmTypes' BY <1>1, <1>3, RemovalTypes
<1>8. RecordsFit' BY <1>1, <1>3, RemovalFit DEF HmInv
<1>9. ListsCover' BY <1>3, RemovalLists DEF HmInv
<1>10. OneDossier' BY <1>3, <1>5, RemovalDossier DEF HmInv
<1>11. DecisionsKnown'
    <2>1. Filed(hm'.incs) BY <1>3 DEF HmInv, DecisionsKnown
    <2> QED BY <1>3, <2>1, RemovalDecisions DEF HmInv
<1>12. /\ a.kind = "status" /\ ~a.done /\ b.kind = "incidents" /\ ~b.done
       /\ hmReqs' = (hmReqs \ {r}) \cup {a, b}
    BY <1>3, <1>4 DEF FreshLoads
<1>13. CardsFresh' BY <1>5, <1>12 DEF CardsFresh, Reloads
<1>14. IncidentsFresh' BY <1>5, <1>12 DEF IncidentsFresh, Reloads
<1> QED BY <1>7, <1>8, <1>9, <1>10, <1>11, <1>13, <1>14 DEF HmInv

LEMMA HmArrivesInv == HmInv /\ (\E r \in hmReqs : HmArrives(r)) => HmInv'
<1> SUFFICES ASSUME HmInv, NEW r \in hmReqs, HmArrives(r) PROVE HmInv'
    OBVIOUS
<1>1. r.done /\ UNCHANGED hmStore BY DEF HmArrives
<1>2. r.kind \in HmKinds BY DEF HmInv, HmTypes, HmReq
<1>3. CASE r.kind = "preview"
    <2>1. HmBecomes(Previewed(hm, r), hmReqs \ {r}) BY <1>3 DEF HmArrives
    <2> QED BY <1>1, <1>3, <2>1, PreviewedInv
<1>4. CASE r.kind = "execute"
    <2>1. HmBecomes(Executed(hm, r), hmReqs \ {r}) BY <1>4 DEF HmArrives
    <2> QED BY <1>1, <1>4, <2>1, ExecutedInv
<1>5. CASE r.kind = "disclose"
    <2>1. HmBecomes(RenderDossier(hm, r), hmReqs \ {r}) BY <1>5 DEF HmArrives
    <2> QED BY <1>1, <1>5, <2>1, RenderDossierInv
<1>6. CASE r.kind = "status"
    <2>1. HmBecomes([hm EXCEPT !.counted = r.rows], hmReqs \ {r}) BY <1>6 DEF HmArrives
    <2> QED BY <1>1, <1>6, <2>1, StatusInv
<1>7. CASE r.kind = "incidents"
    <2>1. HmBecomes([hm EXCEPT !.incs = r.incs], hmReqs \ {r}) BY <1>7 DEF HmArrives
    <2> QED BY <1>1, <1>7, <2>1, IncidentsInv
<1>8. CASE r.kind \in {"record", "resolve"}
    <2>1. HmBecomes(Documented(hm, r), hmReqs \ {r}) BY <1>8 DEF HmArrives
    <2> QED BY <1>1, <1>8, <2>1, DocumentedInv
<1> QED BY <1>2, <1>3, <1>4, <1>5, <1>6, <1>7, <1>8 DEF HmKinds

-----------------------------------------------------------------------------
(* The server. *)

(* The answer to r, with what it found. *)
Answer(r, t) ==
    /\ t \in HmReq /\ t.kind = r.kind /\ t.of = r.of /\ t.id = r.id /\ t.how = r.how /\ t.done
    /\ t.rows = Found(r) /\ t.listed = r.listed
    /\ t.upto = (IF r.kind = "preview" THEN hmStore.nr ELSE r.upto)
    /\ t.incs = (IF r.kind = "incidents" THEN hmStore.incs ELSE r.incs)

(* What each kind of request does to what is stored. *)
Serves(r) ==
    /\ hmStore' \in HmStored /\ hmStore'.nr = hmStore.nr
    /\ hmStore'.data = (IF r.kind = "execute" THEN hmStore.data \ DataOf(r.of) ELSE hmStore.data)
    /\ r.kind = "record" => \E i \in Free : hmStore'.incs = [hmStore.incs EXCEPT ![i] = "open"]
    /\ r.kind = "resolve" => hmStore'.incs = [hmStore.incs EXCEPT ![r.id] = r.how]
    /\ r.kind \notin {"record", "resolve"} => hmStore'.incs = hmStore.incs

LEMMA ServeAnswers ==
    ASSUME HmInv, NEW r \in hmReqs, HmServe(r)
    PROVE  \E t : Answer(r, t) /\ hmReqs' = (hmReqs \ {r}) \cup {t}
<1> DEFINE upto == IF r.kind = "preview" THEN hmStore.nr ELSE r.upto
           incs == IF r.kind = "incidents" THEN hmStore.incs ELSE r.incs
           rows == Found(r)
           t == [r EXCEPT !.done = TRUE, !.rows = rows, !.upto = upto, !.incs = incs]
<1>1. r \in HmReq /\ hmStore \in HmStored BY DEF HmInv, HmTypes
<1>2. upto \in Nat /\ incs \in Incidents
    <2>1. hmStore.nr \in Nat /\ hmStore.incs \in Incidents BY <1>1, HmBounds DEF HmStored
    <2> QED BY <1>1, <2>1 DEF HmReq
<1>3. rows \subseteq Submission BY <1>1 DEF Found, DataOf, HmStored
<1>4. hmReqs' = (hmReqs \ {r}) \cup {[r EXCEPT !.done = TRUE, !.rows = rows, !.upto = upto, !.incs = incs]}
    <2>1. \A x, y, z, w :
             [r EXCEPT !.done = TRUE, !.rows = x, !.upto = IF y THEN z ELSE @, !.incs = IF w THEN hmStore.incs ELSE @]
             = [r EXCEPT !.done = TRUE, !.rows = x, !.upto = IF y THEN z ELSE r.upto, !.incs = IF w THEN hmStore.incs ELSE r.incs]
        BY <1>1 DEF HmReq
    <2> QED BY <2>1 DEF HmServe
<1> HIDE DEF upto, incs, rows
<1>5. /\ t \in HmReq /\ t.kind = r.kind /\ t.of = r.of /\ t.id = r.id /\ t.how = r.how /\ t.done
      /\ t.rows = rows /\ t.listed = r.listed /\ t.upto = upto /\ t.incs = incs
    BY <1>1, <1>2, <1>3 DEF HmReq
<1>6. Answer(r, t) BY <1>5 DEF Answer, upto, incs, rows
<1> QED BY <1>4, <1>6

(* A record finds room. *)
LEMMA RoomForRecord ==
    ASSUME HmInv, NEW r \in hmReqs, r.kind = "record", ~r.done
    PROVE  Free # {} /\ (CHOOSE i \in Free : \A j \in Free : i <= j) \in Free
<1>1. r \in Recording BY DEF Recording
<1>2. IsFiniteSet(Recording) BY FS_Subset DEF HmInv, HmTypes, Recording
<1>3. Cardinality(Recording) # 0 /\ Cardinality(Recording) \in Nat BY <1>1, <1>2, FS_EmptySet, FS_CardinalityType
<1>4. Cardinality(Recording) <= Cardinality(Free) BY DEF HmInv, RecordsFit
<1>5. IsFiniteSet(Free) /\ Free \subseteq 1 .. HmIncidents BY FreeFinite DEF HmInv, HmTypes
<1>6. Cardinality(Free) \in Nat BY <1>5, FS_CardinalityType
<1>7. Free # {}
    <2>1. SUFFICES ASSUME Free = {} PROVE FALSE
        OBVIOUS
    <2>2. Cardinality(Free) = 0 BY <2>1, FS_EmptySet
    <2> QED BY <1>3, <1>4, <2>2
<1>8. Free \subseteq Nat BY <1>5, HmBounds
<1>9. \E i \in Free : \A j \in Free : i <= j BY <1>7, <1>8, LeastOf
<1> QED BY <1>7, <1>9

LEMMA ServeStores ==
    ASSUME HmInv, NEW r \in hmReqs, HmServe(r)
    PROVE  Serves(r)
<1>1. hmStore \in HmStored /\ r.kind \in HmKinds BY DEF HmInv, HmTypes, HmReq
<1>2. ~r.done BY DEF HmServe
<1>3. CASE r.kind = "execute"
    <2>1. hmStore' = [hmStore EXCEPT !.data = @ \ DataOf(r.of)] BY <1>3 DEF HmServe, Erased
    <2> QED BY <1>1, <1>3, <2>1 DEF Serves, HmStored
<1>4. CASE r.kind = "record"
    <2> DEFINE c == CHOOSE i \in Free : \A j \in Free : i <= j
    <2>1. c \in Free BY <1>2, <1>4, RoomForRecord
    <2>2. hmStore' = [hmStore EXCEPT !.incs[c] = "open"] BY <1>4 DEF HmServe, AddIncident
    <2> HIDE DEF c
    <2>3. [hmStore.incs EXCEPT ![c] = "open"] \in Incidents BY <1>1 DEF HmStored, Incidents
    <2>4. /\ hmStore'.incs = [hmStore.incs EXCEPT ![c] = "open"]
          /\ hmStore'.data = hmStore.data /\ hmStore'.nr = hmStore.nr /\ hmStore' \in HmStored
        BY <1>1, <2>2, <2>3 DEF HmStored
    <2> QED BY <1>4, <2>1, <2>4 DEF Serves
<1>5. CASE r.kind = "resolve"
    <2>1. hmStore' = [hmStore EXCEPT !.incs[r.id] = r.how] BY <1>5 DEF HmServe, Resolved
    <2>2. r.how \in Decisions BY <1>5 DEF HmInv, HmTypes
    <2>3. [hmStore.incs EXCEPT ![r.id] = r.how] \in Incidents BY <1>1, <2>2 DEF HmStored, Incidents
    <2>4. /\ hmStore'.incs = [hmStore.incs EXCEPT ![r.id] = r.how]
          /\ hmStore'.data = hmStore.data /\ hmStore'.nr = hmStore.nr /\ hmStore' \in HmStored
        BY <1>1, <2>1, <2>3 DEF HmStored
    <2> QED BY <1>5, <2>4 DEF Serves
<1>6. CASE r.kind \notin {"execute", "record", "resolve"}
    <2>1. hmStore' = hmStore BY <1>6 DEF HmServe
    <2> QED BY <1>1, <1>6, <2>1 DEF Serves
<1> QED BY <1>3, <1>4, <1>5, <1>6

LEMMA HmServeInv == HmInv /\ (\E r \in hmReqs : HmServe(r)) => HmInv'
<1> SUFFICES ASSUME HmInv, NEW r \in hmReqs, HmServe(r) PROVE HmInv'
    OBVIOUS
<1>1. PICK t : Answer(r, t) /\ hmReqs' = (hmReqs \ {r}) \cup {t} BY ServeAnswers
<1>2. Serves(r) BY ServeStores
<1>3. ~r.done /\ hm' = hm BY DEF HmServe
<1>4. HmTypes BY DEF HmInv
<1>5. hmStore \in HmStored /\ hmStore' \in HmStored /\ hmStore'.nr = hmStore.nr /\ hmStore'.data \subseteq hmStore.data
    BY <1>2, <1>4 DEF Serves, HmTypes
<1>6. /\ t \in HmReq /\ t.kind = r.kind /\ t.of = r.of /\ t.id = r.id /\ t.how = r.how /\ t.done
      /\ t.rows = Found(r) /\ t.upto = (IF r.kind = "preview" THEN hmStore.nr ELSE r.upto)
      /\ t.incs = (IF r.kind = "incidents" THEN hmStore.incs ELSE r.incs)
    BY <1>1 DEF Answer
<1>7. \A q \in hmReqs' : q = t \/ (q \in hmReqs /\ q # r) BY <1>1
<1>8. HmTypes'
    <2>1. IsFiniteSet(hmReqs')
        <3>1. IsFiniteSet(hmReqs \ {r}) BY <1>4, FS_Subset DEF HmTypes
        <3> QED BY <1>1, <3>1, FS_AddElement
    <2>2. hmStore'.nr <= hm'.clicks BY <1>3, <1>4, <1>5 DEF HmTypes
    <2>3. \A q \in hmReqs' : /\ q \in HmReq
                             /\ q.kind = "resolve" => q.id \in 1 .. HmIncidents /\ q.how \in Decisions
                             /\ q.kind \in {"preview", "execute", "disclose"} => q.of \in HmPupils
        BY <1>4, <1>6, <1>7 DEF HmTypes
    <2> QED BY <1>3, <1>4, <1>5, <2>1, <2>2, <2>3 DEF HmTypes
<1>9. ListsCover'
    <2>1. \A of, rows, upto : Shows(of, rows, upto) => Shows(of, rows, upto)' BY <1>5 DEF Shows
    <2>2. \A q \in hmReqs' : q.kind = "preview" /\ q.done => Shows(q.of, q.rows, q.upto)'
        <3>1. CASE r.kind = "preview"
            <4>1. Found(r) = DataOf(r.of) BY <3>1 DEF Found
            <4>2. hmStore.nr <= hmStore'.nr
                <5>1. hmStore.nr \in Nat BY <1>5, HmBounds DEF HmStored
                <5> QED BY <1>5, <5>1
            <4>3. Shows(t.of, t.rows, t.upto)' BY <1>5, <1>6, <3>1, <4>1, <4>2 DEF Shows, DataOf
            <4> QED BY <1>7, <2>1, <4>3 DEF HmInv, ListsCover
        <3>2. CASE r.kind # "preview"
            BY <1>6, <1>7, <2>1, <3>2 DEF HmInv, ListsCover
        <3> QED BY <3>1, <3>2
    <2>3. \A q \in hmReqs' : q.kind = "execute" /\ ~q.done => Shows(q.of, q.listed, q.upto)' /\ q.listed # {}
        BY <1>6, <1>7, <2>1 DEF HmInv, ListsCover
    <2>4. \A list \in hm.lists : Shows(list.of, list.rows, list.upto)' /\ list.rows # {}
        BY <2>1 DEF HmInv, ListsCover
    <2> QED BY <1>3, <2>2, <2>3, <2>4 DEF ListsCover
<1>10. OneDossier'
    <2>1. r.kind = "disclose" => \A s \in t.rows : s.of = t.of BY <1>6 DEF Found, DataOf
    <2>2. \A q \in hmReqs' : q.kind = "disclose" => /\ q.of = hm.person \/ "disclose" \in hm.raced
                                                    /\ \A s \in q.rows : s.of = q.of
        BY <1>6, <1>7, <2>1 DEF HmInv, OneDossier
    <2> QED BY <1>3, <2>2 DEF HmInv, OneDossier
<1>11. CardsFresh'
    <2> SUFFICES ASSUME ~hm.failed, "status" \notin hm.raced
                 PROVE  /\ \A q, s \in hmReqs' : q.kind = "status" /\ s.kind = "status" => q = s
                        /\ Reloads({"execute"})' \/
                               /\ \A q \in hmReqs' : q.kind = "status" /\ q.done => q.rows \subseteq hmStore'.data
                               /\ (\A q \in hmReqs' : q.kind # "status") => hm.counted \subseteq hmStore'.data
        BY <1>3 DEF CardsFresh
    <2>1. \A q, s \in hmReqs : q.kind = "status" /\ s.kind = "status" => q = s BY DEF HmInv, CardsFresh
    <2>2. \A q, s \in hmReqs' : q.kind = "status" /\ s.kind = "status" => q = s BY <1>6, <1>7, <2>1
    <2>3. CASE r.kind = "execute" \/ Reloads({"execute"})
        <3>1. Reloads({"execute"})' BY <1>1, <1>3, <1>6, <2>3 DEF Reloads
        <3> QED BY <2>2, <3>1
    <2>4. CASE r.kind # "execute" /\ ~Reloads({"execute"})
        <3>1. hmStore'.data = hmStore.data BY <1>2, <2>4 DEF Serves
        <3>2. r.kind = "status" => t.rows = hmStore.data BY <1>6 DEF Found
        <3>3. /\ \A q \in hmReqs : q.kind = "status" /\ q.done => q.rows \subseteq hmStore.data
              /\ (\A q \in hmReqs : q.kind # "status") => hm.counted \subseteq hmStore.data
            BY <2>4 DEF HmInv, CardsFresh
        <3> QED BY <1>1, <1>6, <1>7, <2>2, <3>1, <3>2, <3>3
    <2> QED BY <2>3, <2>4
<1>12. IncidentsFresh'
    <2> SUFFICES ASSUME ~hm.failed, "incidents" \notin hm.raced
                 PROVE  /\ \A q, s \in hmReqs' : q.kind = "incidents" /\ s.kind = "incidents" => q = s
                        /\ Reloads({"record", "resolve"})' \/
                               /\ \A q \in hmReqs' : q.kind = "incidents" /\ q.done => q.incs = hmStore'.incs
                               /\ (\A q \in hmReqs' : q.kind # "incidents") => hm.incs = hmStore'.incs
        BY <1>3 DEF IncidentsFresh
    <2>1. \A q, s \in hmReqs : q.kind = "incidents" /\ s.kind = "incidents" => q = s BY DEF HmInv, IncidentsFresh
    <2>2. \A q, s \in hmReqs' : q.kind = "incidents" /\ s.kind = "incidents" => q = s BY <1>6, <1>7, <2>1
    <2>3. CASE r.kind \in {"record", "resolve"} \/ Reloads({"record", "resolve"})
        <3>1. Reloads({"record", "resolve"})' BY <1>1, <1>3, <1>6, <2>3 DEF Reloads
        <3> QED BY <2>2, <3>1
    <2>4. CASE r.kind \notin {"record", "resolve"} /\ ~Reloads({"record", "resolve"})
        <3>1. hmStore'.incs = hmStore.incs BY <1>2, <2>4 DEF Serves
        <3>2. /\ \A q \in hmReqs : q.kind = "incidents" /\ q.done => q.incs = hmStore.incs
              /\ (\A q \in hmReqs : q.kind # "incidents") => hm.incs = hmStore.incs
            BY <2>4 DEF HmInv, IncidentsFresh
        <3> QED BY <1>1, <1>6, <1>7, <2>2, <3>1, <3>2
    <2> QED BY <2>3, <2>4
<1>13. DecisionsKnown'
    <2>1. \A id \in 1 .. HmIncidents : hmStore.incs[id] # "none" => hmStore'.incs[id] # "none"
        <3>1. hmStore.incs \in Incidents BY <1>5 DEF HmStored
        <3>2. r.kind = "resolve" => r.how \in Decisions BY <1>4 DEF HmTypes
        <3> QED BY <1>2, <3>1, <3>2 DEF Serves, Incidents, Decisions
    <2>2. \A incs : Filed(incs) => Filed(incs)' BY <2>1 DEF Filed
    <2>3. Filed(hm.incs) /\ (\A q \in hmReqs : Filed(q.incs)) /\ Filed(hmStore.incs)
        BY DEF HmInv, DecisionsKnown, Filed
    <2>4. Filed(t.incs) BY <1>6, <2>3
    <2>5. Filed(hm.incs)' /\ (\A q \in hmReqs : Filed(q.incs))'
        <3>1. Filed(hm.incs)' BY <1>3, <2>2, <2>3
        <3>2. \A q \in hmReqs' : Filed(q.incs) BY <1>7, <2>3, <2>4
        <3> QED BY <2>2, <3>1, <3>2
    <2>6. \A q \in hmReqs' : q.kind = "resolve" => hmStore'.incs[q.id] # "none"
        BY <1>4, <1>6, <1>7, <2>1 DEF HmInv, DecisionsKnown, HmTypes
    <2>7. ASSUME NEW q \in hmReqs', q.kind = "resolve", ~q.done
          PROVE  hmStore'.incs[q.id] = "open" \/ q.id \in hm.twice
        <3>1. q \in hmReqs /\ q # r /\ q.id \in 1 .. HmIncidents BY <1>4, <1>6, <1>7, <2>7 DEF HmTypes
        <3>2. hmStore.incs[q.id] = "open" \/ q.id \in hm.twice BY <2>7, <3>1 DEF HmInv, DecisionsKnown
        <3>3. hmStore.incs \in Incidents BY <1>5 DEF HmStored
        <3>4. CASE r.kind = "resolve" /\ r.id = q.id
            BY <1>3, <2>7, <3>1, <3>4 DEF HmInv, DecisionsKnown
        <3>5. CASE r.kind = "resolve" /\ r.id # q.id
            BY <1>2, <3>1, <3>2, <3>3, <3>5 DEF Serves, Incidents
        <3>6. CASE r.kind = "record"
            BY <1>2, <3>1, <3>2, <3>3, <3>6 DEF Serves, Incidents
        <3>7. CASE r.kind \notin {"record", "resolve"}
            BY <1>2, <3>2, <3>7 DEF Serves
        <3> QED BY <3>4, <3>5, <3>6, <3>7
    <2>8. \A q, s \in hmReqs' :
             q.kind = "resolve" /\ ~q.done /\ s.kind = "resolve" /\ ~s.done /\ q.id = s.id => q = s \/ q.id \in hm.twice
        BY <1>6, <1>7 DEF HmInv, DecisionsKnown
    <2> QED BY <1>3, <2>5, <2>6, <2>7, <2>8 DEF DecisionsKnown
<1>14. RecordsFit'
    <2>1. hmStore.incs \in Incidents /\ hmStore'.incs \in Incidents BY <1>5 DEF HmStored
    <2>2. IsFiniteSet(Recording) /\ Cardinality(Recording) \in Nat BY <1>4, FS_Subset, FS_CardinalityType DEF HmTypes, Recording
    <2>3. IsFiniteSet(Free) /\ Cardinality(Free) \in Nat BY <1>5, FreeFinite, FS_CardinalityType
    <2>4. Recording' = Recording \ {r} BY <1>1, <1>6, <1>7 DEF Recording
    <2>5. Cardinality(Recording) <= Cardinality(Free) BY DEF HmInv, RecordsFit
    <2>6. CASE r.kind = "record"
        <3>1. PICK i \in Free : hmStore'.incs = [hmStore.incs EXCEPT ![i] = "open"] BY <1>2, <2>6 DEF Serves
        <3>2. Free' = Free \ {i} BY <2>1, <3>1 DEF Free, Incidents
        <3>3. r \in Recording BY <1>3, <2>6 DEF Recording
        <3>4. Cardinality(Recording') = Cardinality(Recording) - 1 BY <2>2, <2>4, <3>3, FS_RemoveElement
        <3>5. Cardinality(Free') = Cardinality(Free) - 1 BY <2>3, <3>2, FS_RemoveElement
        <3> QED BY <2>2, <2>3, <2>5, <3>4, <3>5 DEF RecordsFit
    <2>7. CASE r.kind # "record"
        <3>1. Recording' = Recording BY <2>4, <2>7 DEF Recording
        <3>2. Free' = Free
            <4>1. CASE r.kind = "resolve"
                <5>1. hmStore.incs[r.id] # "none" /\ r.how # "none"
                    BY <1>4, <4>1 DEF HmInv, DecisionsKnown, HmTypes, Decisions
                <5>2. hmStore'.incs = [hmStore.incs EXCEPT ![r.id] = r.how] BY <1>2, <4>1 DEF Serves
                <5> QED BY <2>1, <5>1, <5>2 DEF Free, Incidents
            <4>2. CASE r.kind # "resolve"
                <5>1. hmStore'.incs = hmStore.incs BY <1>2, <2>7, <4>2 DEF Serves
                <5> QED BY <5>1 DEF Free
            <4> QED BY <4>1, <4>2
        <3> QED BY <2>5, <3>1, <3>2 DEF RecordsFit
    <2> QED BY <2>6, <2>7
<1> QED BY <1>8, <1>9, <1>10, <1>11, <1>12, <1>13, <1>14 DEF HmInv

LEMMA HmNextInv == HmInv /\ [HmNext]_hmVars => HmInv'
<1> SUFFICES ASSUME HmInv, [HmNext]_hmVars PROVE HmInv'
    OBVIOUS
<1>1. CASE HmAdmin
    BY <1>1, EraseStudentInv, ConfirmErasureInv, DiscloseStudentInv, RecordIncidentInv, ResolveIncidentInv DEF HmAdmin
<1>2. CASE \E p \in HmPupils : Hands(p)
    BY <1>2, HandsInv
<1>3. CASE \E r \in hmReqs : HmServe(r) \/ HmArrives(r) \/ HmLost(r)
    BY <1>3, HmServeInv, HmArrivesInv, HmLostInv
<1>4. CASE UNCHANGED hmVars
    BY <1>4 DEF hmVars, HmInv, HmTypes, ListsCover, Shows, OneDossier, CardsFresh, IncidentsFresh, Reloads,
        DecisionsKnown, Filed, RecordsFit, Recording, Free
<1> QED BY <1>1, <1>2, <1>3, <1>4 DEF HmNext

LEMMA HmInvTells == HmInv => HomeTells
<1> SUFFICES ASSUME HmInv PROVE HomeTells
    OBVIOUS
<1>1. DossierOfOne
    <2>1. \A a, b \in hm.box : a = b BY DEF HmInv, OneDossier
    <2>2. Cardinality(hm.box) <= 1
        <3>1. CASE hm.box = {} BY <3>1, FS_EmptySet
        <3>2. CASE hm.box # {}
            <4>1. PICK a : hm.box = {a} BY <2>1, <3>2
            <4>2. Cardinality(hm.box) = 1 BY <4>1, FS_Singleton
            <4> QED BY <4>2
        <3> QED BY <3>1, <3>2
    <2> QED BY <2>2 DEF HmInv, OneDossier, DossierOfOne
<1>2. CardsSettle BY DEF HmInv, CardsFresh, Reloads, CardsSettle
<1>3. IncidentsSettle BY DEF HmInv, IncidentsFresh, Reloads, IncidentsSettle
<1> QED BY <1>1, <1>2, <1>3 DEF HomeTells

-----------------------------------------------------------------------------
(* Only what is asked for last is in the disclosure box, and the cards and   *)
(* the list of incidents are the truth once everything is answered.        *)
THEOREM HomeIsTrue == HmSpec => []HomeTells
<1>1. HmInit => HmInv BY HmInitInv
<1>2. HmInv /\ [HmNext]_hmVars => HmInv' BY HmNextInv
<1>3. HmInv => HomeTells BY HmInvTells
<1> QED BY <1>1, <1>2, <1>3, PTL DEF HmSpec

(* What a step erases or decides, for the theorem below. *)
ErasesListed ==
    \A d \in hmStore.data \ hmStore'.data :
        \E r \in hmReqs :
            /\ r.kind = "execute" /\ ~r.done
            /\ d \in r.listed \/ (d.nr > r.upto /\ \E l \in r.listed : l.of = d.of)

DecidesOnce ==
    \A id \in DOMAIN hmStore.incs :
        hmStore.incs[id] \in Decisions => hmStore'.incs[id] = hmStore.incs[id] \/ id \in hm.twice

LEMMA StepsAsShown == HmInv /\ [HmNext]_hmVars => [ErasesListed]_hmVars /\ [DecidesOnce]_hmVars
<1> SUFFICES ASSUME HmInv, HmNext PROVE ErasesListed /\ DecidesOnce
    OBVIOUS
<1>1. CASE \E r \in hmReqs : HmServe(r)
    <2>1. PICK r \in hmReqs : HmServe(r) BY <1>1
    <2>2. Serves(r) /\ ~r.done BY <2>1, ServeStores DEF HmServe
    <2>3. hmStore \in HmStored /\ hmStore.incs \in Incidents BY DEF HmInv, HmTypes, HmStored
    <2>4. ErasesListed
        <3> SUFFICES ASSUME NEW d \in hmStore.data \ hmStore'.data
                     PROVE  /\ r.kind = "execute"
                            /\ d \in r.listed \/ (d.nr > r.upto /\ \E l \in r.listed : l.of = d.of)
            BY <2>2 DEF ErasesListed
        <3>1. r.kind = "execute" /\ d.of = r.of BY <2>2 DEF Serves, DataOf
        <3>2. Shows(r.of, r.listed, r.upto) /\ r.listed # {} BY <2>2, <3>1 DEF HmInv, ListsCover
        <3>3. d.nr \in Int /\ r.upto \in Int
            <4>1. d \in Submission /\ r \in HmReq BY <2>3 DEF HmInv, HmTypes, HmStored
            <4>2. d.nr \in 0 .. HmClicks /\ r.upto \in Nat BY <4>1 DEF Submission, HmReq
            <4> QED BY <4>2, HmBounds
        <3>4. CASE d.nr <= r.upto BY <3>1, <3>2, <3>4 DEF Shows
        <3>5. CASE d.nr > r.upto BY <3>1, <3>2, <3>5 DEF Shows
        <3> QED BY <3>1, <3>3, <3>4, <3>5
    <2>5. DecidesOnce
        <3> SUFFICES ASSUME NEW id \in DOMAIN hmStore.incs, hmStore.incs[id] \in Decisions, hmStore'.incs[id] # hmStore.incs[id]
                     PROVE  id \in hm.twice
            BY DEF DecidesOnce
        <3>1. r.kind = "resolve"
            <4>1. CASE r.kind = "record" BY <2>2, <2>3, <4>1 DEF Serves, Free, Incidents, Decisions
            <4>2. CASE r.kind \notin {"record", "resolve"} BY <2>2, <4>2 DEF Serves
            <4> QED BY <4>1, <4>2
        <3>2. r.id = id BY <2>2, <2>3, <3>1 DEF Serves, Incidents
        <3>3. hmStore.incs[id] # "open" BY DEF Decisions
        <3> QED BY <2>2, <3>1, <3>2, <3>3 DEF HmInv, DecisionsKnown
    <2> QED BY <2>4, <2>5
<1>2. CASE ~ \E r \in hmReqs : HmServe(r)
    <2>1. hmStore.data \subseteq hmStore'.data /\ hmStore'.incs = hmStore.incs
        <3>1. CASE \E p \in HmPupils : Hands(p) BY <3>1 DEF Hands, HmInv, HmTypes, HmStored
        <3>2. CASE HmAdmin
            BY <3>2 DEF HmAdmin, EraseStudent, ConfirmErasure, DiscloseStudent, RecordIncident, ResolveIncident, HmClick
        <3>3. CASE \E r \in hmReqs : HmArrives(r) \/ HmLost(r) BY <3>3 DEF HmArrives, HmLost
        <3> QED BY <1>2, <3>1, <3>2, <3>3 DEF HmNext
    <2> QED BY <2>1 DEF ErasesListed, DecidesOnce
<1> QED BY <1>1, <1>2

(* An erasure takes what was in the list above the button, or was handed in *)
(* by the same pupil since, and a decision on file stays.                  *)
THEOREM HomeDoesAsShown == HmSpec => OnlyAsShown
<1>1. HmInit => HmInv BY HmInitInv
<1>2. HmInv /\ [HmNext]_hmVars => HmInv' BY HmNextInv
<1>3. HmInv /\ [HmNext]_hmVars => [ErasesListed]_hmVars /\ [DecidesOnce]_hmVars BY StepsAsShown
<1>4. HmSpec => [][ErasesListed]_hmVars /\ [][DecidesOnce]_hmVars BY <1>1, <1>2, <1>3, PTL DEF HmSpec
<1> QED BY <1>4 DEF OnlyAsShown, ErasesWhatItListed, DecisionsStay, ErasesListed, DecidesOnce

-----------------------------------------------------------------------------
(* The types of the home page, and of the sync page. *)

LEMMA HomeTypes == HmInv => HmTypeOK
<1> SUFFICES ASSUME HmInv PROVE HmTypeOK OBVIOUS
<1>1. hm \in HmPage /\ hmStore \in HmStored BY DEF HmInv, HmTypes
<1>2. ASSUME NEW list \in hm.lists
      PROVE  list.rows \subseteq Submission /\ list.rows # {} /\ \A d \in list.rows : d.of = list.of
    <2>1. list \in HmList BY <1>1 DEF HmPage
    <2> QED BY <1>2, <2>1 DEF HmInv, ListsCover, Shows, HmList
<1> QED BY <1>1, <1>2 DEF HmTypeOK, HmPage, HmStored, HmDossier

SpPage == [timer : {"off", "draw", "open", "busy"}, bar : BOOLEAN, hides : Nat, msg : BOOLEAN,
           post : {"none", "asked", "running", "ok", "busy"}, clicks : Nat, stale : BOOLEAN]
SpPoll == [kind : {"none", "first", "draw", "open", "busy"}, old : BOOLEAN, says : {"asked", "running", "idle"}]
SpTyped ==
    /\ sp \in SpPage /\ spPolls \in [1 .. SpPolls -> SpPoll]
    /\ spServer \in [run : {"none", "page", "other"}, runs : Nat]
    /\ sp.post = "running" => spServer.run = "page"

LEMMA SpTypedHolds == SpTyped => SpTypeOK
BY DEF SpTyped, SpTypeOK, SpPage, SpPoll

(* A page and its polls after a handler; the runs stay. *)
LEMMA PageTyped ==
    ASSUME SpTyped, NEW u \in SpPage, sp' = u, spPolls' \in [1 .. SpPolls -> SpPoll], UNCHANGED spServer,
           u.post \in {"none", "asked", "ok", "busy", sp.post}
    PROVE  SpTyped'
BY DEF SpTyped

LEMMA PollsTyped ==
    ASSUME SpTyped, spPolls' \in [1 .. SpPolls -> SpPoll], UNCHANGED <<sp, spServer>>
    PROVE  SpTyped'
BY DEF SpTyped

LEMMA NoPollTyped == NoPoll \in SpPoll
BY DEF NoPoll, SpPoll

LEMMA SpInitTyped == SpInit => SpTyped
<1> SUFFICES ASSUME SpInit PROVE SpTyped OBVIOUS
<1>1. sp \in SpPage /\ sp.post = "none" BY DEF SpInit, SpPage
<1>2. spPolls \in [1 .. SpPolls -> SpPoll]
    <2>1. [NoPoll EXCEPT !.kind = "first"] \in SpPoll BY DEF NoPoll, SpPoll
    <2> QED BY <2>1, NoPollTyped DEF SpInit
<1>3. spServer \in [run : {"none", "page", "other"}, runs : Nat] BY DEF SpInit
<1> QED BY <1>1, <1>2, <1>3 DEF SpTyped

LEMMA StartTyped ==
    ASSUME SpTyped, NEW u \in SpPage, NEW kind \in {"draw", "busy"}, StartPolling(u, kind), UNCHANGED spServer,
           u.post \in {"none", "asked"}
    PROVE  SpTyped'
<1> DEFINE v == [u EXCEPT !.timer = kind, !.bar = TRUE]
<1>1. sp' = v /\ v \in SpPage /\ v.post = u.post BY DEF StartPolling, SpPage
<1>2. spPolls \in [1 .. SpPolls -> SpPoll] BY DEF SpTyped
<1>3. \A i \in 1 .. SpPolls : [spPolls[i] EXCEPT !.old = spPolls[i] # NoPoll] \in SpPoll
    <2> SUFFICES ASSUME NEW i \in 1 .. SpPolls, NEW old \in BOOLEAN PROVE [spPolls[i] EXCEPT !.old = old] \in SpPoll
        OBVIOUS
    <2> QED BY <1>2 DEF SpPoll
<1>4. spPolls' \in [1 .. SpPolls -> SpPoll]
    <2>1. spPolls' = [i \in 1 .. SpPolls |-> [spPolls[i] EXCEPT !.old = spPolls[i] # NoPoll]]
        BY <1>2 DEF StartPolling
    <2> QED BY <1>3, <2>1
<1> HIDE DEF v
<1> QED BY <1>1, <1>4, PageTyped

LEMMA SpClicksTyped == SpTyped /\ (SyncAll \/ PostLost \/ PostOk \/ PostBusy \/ HideBar) => SpTyped'
<1> SUFFICES ASSUME SpTyped, SyncAll \/ PostLost \/ PostOk \/ PostBusy \/ HideBar PROVE SpTyped' OBVIOUS
<1>1. /\ sp \in SpPage /\ sp.clicks \in Nat /\ sp.hides \in Nat /\ sp.clicks + 1 \in Nat /\ sp.hides + 1 \in Nat
      /\ spPolls \in [1 .. SpPolls -> SpPoll]
    BY DEF SpTyped, SpPage
<1>2. CASE SyncAll
    <2> DEFINE u == [sp EXCEPT !.clicks = @ + 1, !.msg = FALSE, !.post = "asked"]
    <2>1. u \in SpPage /\ u.post = "asked" BY <1>1 DEF SpPage
    <2>2. StartPolling(u, "draw") /\ UNCHANGED spServer BY <1>2 DEF SyncAll
    <2> HIDE DEF u
    <2> QED BY <2>1, <2>2, StartTyped
<1>3. CASE PostLost
    <2> DEFINE u == [StopPolling(sp) EXCEPT !.post = "none", !.bar = FALSE, !.clicks = @ + 1]
    <2>1. u \in SpPage /\ u.post = "none" BY <1>1 DEF SpPage, StopPolling
    <2>2. sp' = u /\ UNCHANGED <<spPolls, spServer>> BY <1>3 DEF PostLost
    <2> HIDE DEF u
    <2> QED BY <1>1, <2>1, <2>2, PageTyped
<1>4. CASE PostOk
    <2> DEFINE u == FinishBar(StopPolling([sp EXCEPT !.post = "none"]))
    <2>1. u \in SpPage /\ u.post = "none" BY <1>1 DEF SpPage, StopPolling, FinishBar
    <2>2. sp' = u /\ UNCHANGED <<spPolls, spServer>> BY <1>4 DEF PostOk
    <2> HIDE DEF u
    <2> QED BY <1>1, <2>1, <2>2, PageTyped
<1>5. CASE PostBusy
    <2> DEFINE u == [sp EXCEPT !.post = "none", !.msg = TRUE]
    <2>1. u \in SpPage /\ u.post = "none" BY <1>1 DEF SpPage
    <2>2. StartPolling(u, "busy") /\ UNCHANGED spServer BY <1>5 DEF PostBusy
    <2> HIDE DEF u
    <2> QED BY <2>1, <2>2, StartTyped
<1>6. CASE HideBar
    <2> DEFINE u == [sp EXCEPT !.hides = @ - 1, !.bar = FALSE]
    <2>1. sp.hides - 1 \in Nat BY <1>1, <1>6 DEF HideBar
    <2>2. u \in SpPage /\ u.post = sp.post BY <1>1, <2>1 DEF SpPage
    <2>3. sp' = u /\ UNCHANGED <<spPolls, spServer>> BY <1>6 DEF HideBar
    <2> HIDE DEF u
    <2> QED BY <1>1, <2>2, <2>3, PageTyped
<1> QED BY <1>2, <1>3, <1>4, <1>5, <1>6

LEMMA SpRunsTyped == SpTyped /\ (PostArrives \/ OtherRun \/ RunEnds) => SpTyped'
<1> SUFFICES ASSUME SpTyped, PostArrives \/ OtherRun \/ RunEnds PROVE SpTyped' OBVIOUS
<1>1. sp \in SpPage /\ spServer \in [run : {"none", "page", "other"}, runs : Nat]
    BY DEF SpTyped
<1>2. CASE PostArrives
    <2>1. spServer' \in [run : {"none", "page", "other"}, runs : Nat] /\ spPolls' = spPolls BY <1>1, <1>2 DEF PostArrives
    <2>2. sp' \in SpPage /\ (sp'.post = "running" => spServer'.run = "page") BY <1>1, <1>2 DEF PostArrives, SpPage
    <2> QED BY <2>1, <2>2 DEF SpTyped
<1>3. CASE OtherRun
    <2>1. spServer.runs + 1 \in Nat BY <1>1
    <2>2. spServer' \in [run : {"none", "page", "other"}, runs : Nat] BY <1>1, <1>3, <2>1 DEF OtherRun
    <2> QED BY <1>3, <2>2 DEF SpTyped, OtherRun
<1>4. CASE RunEnds
    <2>1. spServer' \in [run : {"none", "page", "other"}, runs : Nat] /\ spPolls' = spPolls BY <1>1, <1>4 DEF RunEnds
    <2>2. sp' \in SpPage /\ sp'.post # "running" BY <1>1, <1>4 DEF RunEnds, SpPage
    <2> QED BY <2>1, <2>2 DEF SpTyped
<1> QED BY <1>2, <1>3, <1>4

LEMMA SpPollsTyped ==
    ASSUME SpTyped, NEW i \in 1 .. SpPolls, ProgressServed(i) \/ FirstAnswer(i) \/ PollAnswer(i) \/ PollLost(i)
    PROVE  SpTyped'
<1>1. sp \in SpPage /\ spPolls \in [1 .. SpPolls -> SpPoll] /\ NoPoll \in SpPoll BY NoPollTyped DEF SpTyped
<1>2. [spPolls EXCEPT ![i] = NoPoll] \in [1 .. SpPolls -> SpPoll] BY <1>1
<1>3. CASE ProgressServed(i)
    <2>1. \A says \in {"idle", "running"} : [spPolls EXCEPT ![i].says = says] \in [1 .. SpPolls -> SpPoll]
        BY <1>1 DEF SpPoll
    <2> QED BY <1>3, <2>1, PollsTyped DEF ProgressServed
<1>4. CASE FirstAnswer(i)
    <2>1. CASE spPolls[i].says = "running"
        <3> DEFINE stale == sp.stale \/ sp.timer = "busy"
                   u == [sp EXCEPT !.timer = "open", !.bar = TRUE, !.stale = stale]
                   polls == [j \in DOMAIN spPolls |->
                               IF j = i \/ spPolls[j] = NoPoll THEN NoPoll ELSE [spPolls[j] EXCEPT !.old = TRUE]]
        <3>1. u \in SpPage /\ u.post = sp.post
            <4>1. stale \in BOOLEAN BY <1>1 DEF SpPage
            <4> HIDE DEF stale
            <4> QED BY <1>1, <4>1 DEF SpPage
        <3>2. polls \in [1 .. SpPolls -> SpPoll]
            <4>1. \A j \in 1 .. SpPolls : [spPolls[j] EXCEPT !.old = TRUE] \in SpPoll BY <1>1 DEF SpPoll
            <4> QED BY <1>1, <4>1
        <3>3. sp' = u /\ spPolls' = polls /\ UNCHANGED spServer BY <1>4, <2>1 DEF FirstAnswer
        <3> HIDE DEF u, polls
        <3> QED BY <3>1, <3>2, <3>3, PageTyped
    <2>2. CASE spPolls[i].says # "running"
        BY <1>2, <1>4, <2>2, PollsTyped DEF FirstAnswer
    <2> QED BY <2>1, <2>2
<1>5. CASE PollAnswer(i)
    <2> DEFINE late == spPolls[i].old /\ sp.timer # "off"
               u == OnFinished(StopPolling([sp EXCEPT !.stale = @ \/ late]), spPolls[i].kind)
    <2>1. sp' = sp \/ sp' = u BY <1>5 DEF PollAnswer
    <2>2. spPolls' = [spPolls EXCEPT ![i] = NoPoll] /\ UNCHANGED spServer BY <1>5 DEF PollAnswer
    <2>3. u \in SpPage /\ u.post = sp.post
        <3> DEFINE stale == sp.stale \/ late
                   v == [sp EXCEPT !.stale = stale, !.timer = "off"]
                   msg == IF spPolls[i].kind = "busy" THEN FALSE ELSE sp.msg
        <3>1. stale \in BOOLEAN BY <1>1 DEF SpPage
        <3>2. sp.hides + 1 \in Nat /\ msg \in BOOLEAN
            <4>1. sp.hides \in Nat /\ sp.msg \in BOOLEAN BY <1>1 DEF SpPage
            <4>2. sp.hides + 1 \in Nat BY <4>1
            <4>3. msg \in BOOLEAN
                <5>1. CASE spPolls[i].kind = "busy" BY <5>1
                <5>2. CASE spPolls[i].kind # "busy" BY <4>1, <5>2
                <5> QED BY <5>1, <5>2
            <4> HIDE DEF msg
            <4> QED BY <4>2, <4>3
        <3> DEFINE x == [sp EXCEPT !.stale = stale]
        <3>2a. [sp EXCEPT !.stale = @ \/ late] = x OBVIOUS
        <3> HIDE DEF stale
        <3>2b. StopPolling(x) = v BY <1>1 DEF StopPolling, SpPage
        <3>3. StopPolling([sp EXCEPT !.stale = @ \/ late]) = v BY <3>2a, <3>2b
        <3>4. v \in SpPage /\ v.post = sp.post /\ v.hides = sp.hides /\ v.msg = sp.msg BY <1>1, <3>1 DEF SpPage
        <3>5. u = v \/ u = [v EXCEPT !.msg = msg, !.hides = sp.hides + 1]
            <4>1. u = OnFinished(v, spPolls[i].kind) BY <3>3
            <4> HIDE DEF v, u
            <4> QED BY <3>4, <4>1 DEF OnFinished, FinishBar, SpPage
        <3> HIDE DEF v, u, msg
        <3> QED BY <3>2, <3>4, <3>5 DEF SpPage
    <2> HIDE DEF u
    <2>4. CASE sp' = sp BY <1>2, <2>2, <2>4, PollsTyped
    <2>5. CASE sp' = u BY <1>2, <2>2, <2>3, <2>5, PageTyped
    <2> QED BY <2>1, <2>4, <2>5
<1>6. CASE PollLost(i)
    <2> DEFINE u == [sp EXCEPT !.clicks = @ + 1]
    <2>1. sp.clicks + 1 \in Nat BY <1>1 DEF SpPage
    <2>2. u \in SpPage /\ u.post = sp.post BY <1>1, <2>1 DEF SpPage
    <2>3. sp' = u /\ spPolls' = [spPolls EXCEPT ![i] = NoPoll] /\ UNCHANGED spServer BY <1>6 DEF PollLost
    <2> HIDE DEF u
    <2> QED BY <1>2, <2>2, <2>3, PageTyped
<1> QED BY <1>3, <1>4, <1>5, <1>6

LEMMA SpNextTyped == SpTyped /\ [SpNext]_spVars => SpTyped'
<1> SUFFICES ASSUME SpTyped, [SpNext]_spVars PROVE SpTyped' OBVIOUS
<1>1. DOMAIN spPolls = 1 .. SpPolls /\ sp \in SpPage BY DEF SpTyped
<1>2. CASE UNCHANGED spVars BY <1>2 DEF spVars, SpTyped
<1>3. CASE Tick
    <2>1. PICK i \in 1 .. SpPolls : spPolls' = [spPolls EXCEPT ![i].kind = sp.timer] BY <1>1, <1>3 DEF Tick
    <2>2. sp.timer \in {"draw", "open", "busy"} BY <1>1, <1>3 DEF SpPage, Tick
    <2>3. spPolls' \in [1 .. SpPolls -> SpPoll] BY <2>1, <2>2 DEF SpTyped, SpPoll
    <2> QED BY <1>3, <2>3, PollsTyped DEF Tick
<1> QED BY <1>1, <1>2, <1>3, SpClicksTyped, SpRunsTyped, SpPollsTyped
        DEF SpNext, SpTimers, SpAnswers, SpServes, SpTrouble

-----------------------------------------------------------------------------
(* All of them side by side: the part that moves keeps its invariant, the   *)
(* others stay as they are.                                                *)

ReviewInv == RvInv /\ RvMore
UploadInv == UpInv /\ UpMore
GuardInv == CgInv /\ CgTyped
LogInv == AlInv /\ AlClocked
PagesInv == ReviewInv /\ SpTyped /\ UploadInv /\ HmInv /\ GuardInv /\ LogInv

LEMMA PartsStay ==
    /\ ReviewInv /\ [RvNext]_rvVars => ReviewInv'
    /\ UploadInv /\ [UpNext]_upVars => UploadInv'
    /\ GuardInv /\ [CgNext]_cgVars => GuardInv'
    /\ LogInv /\ [AlNext]_alVars => LogInv'
BY AlAssumption, RvNextInv, RvNextMore, UpNextInv, UpNextMore, CgNextInv, CgTypedStep, AlStep, AlClockStep
   DEF ReviewInv, UploadInv, GuardInv, LogInv

LEMMA PagesInit == Init => PagesInv
<1> SUFFICES ASSUME Init PROVE PagesInv OBVIOUS
<1>1. RvInit /\ SpInit /\ UpInit /\ HmInit /\ CgInit /\ AlInit BY DEF Init
<1>2. LogInv BY <1>1, AlAssumption, AlInitInv DEF LogInv, AlClocked, AlInit
<1> QED BY <1>1, <1>2, RvInitInv, RvInitMore, SpInitTyped, UpInitInv, UpInitMore, HmInitInv, CgInitInv, CgTypedInit
        DEF PagesInv, ReviewInv, UploadInv, GuardInv

LEMMA PagesStep == PagesInv /\ [Next]_pages => PagesInv'
<1> SUFFICES ASSUME PagesInv, [Next]_pages PROVE PagesInv' OBVIOUS
<1>1. /\ [RvNext]_rvVars /\ [SpNext]_spVars /\ [UpNext]_upVars
      /\ [HmNext]_hmVars /\ [CgNext]_cgVars /\ [AlNext]_alVars
    BY DEF Next, InReview, InSync, InUpload, InHome, InGuard, InLog, pages
<1> QED BY <1>1, PartsStay, SpNextTyped, HmNextInv DEF PagesInv

(* The pages and the logs keep to their types, whichever of them moves: for *)
(* every number of files, clicks, sessions, polls, pupils, incidents, tries *)
(* and accesses.  MCPages, the routes and scripts of its parts.            *)
THEOREM PagesKeepTypes == Spec => []PagesTypeOK
<1>1. PagesInv => PagesTypeOK
    BY RvTypes, SpTypedHolds, UpTypesOfMore, HomeTypes, AlTyped
       DEF PagesInv, ReviewInv, UploadInv, GuardInv, LogInv, CgTyped, PagesTypeOK
<1> QED BY <1>1, PagesInit, PagesStep, PTL DEF Spec
=============================================================================
