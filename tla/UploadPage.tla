----------------------------- MODULE UploadPage -----------------------------
(***************************************************************************)
(* The admin's upload page: admin-upload.js in the browser, the routes of   *)
(* routes/admin-upload.js and the session store behind them.  A code is     *)
(* sent once; the server keeps a hash of the valid one.                     *)
(***************************************************************************)
EXTENDS Naturals, FiniteSets

CONSTANTS
    UpSessions,     \* sessions are 1 .. UpSessions, in the order they are created
    UpClicks,       \* bound on what the admin does and what gets lost
    UpFlying,       \* the admin, and the timer, wait until fewer requests than these are under way
    UpUploads       \* bound on submissions of a session

ASSUME UpAssumption ==
    UpSessions \in Nat /\ UpClicks \in Nat /\ UpFlying \in Nat \ {0} /\ UpUploads \in Nat

VARIABLES
    up,         \* the page
    upStore,    \* per session: its status, the code that is valid, its submissions
    upReqs      \* requests under way

upVars == <<up, upStore, upReqs>>

Ids == 1 .. UpSessions
Codes == 0 .. UpClicks + UpSessions \* in the order they are made; 0 is no code
NoRows == [of |-> 0, n |-> 0]

UpTypeOK ==
    /\ upStore \in [Ids -> [status : {"none", "open", "closed", "gone"}, code : Codes, n : 0 .. UpUploads]]
    /\ up.dash \in {0} \cup Ids /\ up.timer \in BOOLEAN /\ up.rows \in [of : {0} \cup Ids, n : 0 .. UpUploads]
    /\ up.reveal \in [id : {0} \cup Ids, code : Codes, open : BOOLEAN]
    /\ up.stash \in [Ids -> Codes] /\ up.poster \in [id : {0} \cup Ids, code : Codes]
    /\ up.buttons \subseteq DOMAIN up.list
    \* The dashboard is of a session the page knows, and is refreshed while it is open.
    /\ up.timer <=> up.dash # 0

(* nr, the click that led to it, tells two requests for a code apart. *)
UpRequest(kind, id, nr) ==
    [kind |-> kind, id |-> id, nr |-> nr, done |-> FALSE, ok |-> TRUE, list |-> <<>>, n |-> 0, code |-> 0]

-----------------------------------------------------------------------------
(* The page: handlers from a page to the page after them, with what is sent. *)

Fetches(u, kind, id) == [u EXCEPT !.sent = @ \cup {UpRequest(kind, id, IF kind = "regenerate" THEN u.clicks ELSE 0)}]
LoadSessions(u) == Fetches(u, "list", 0)

(* refreshDash asks for the session that is in the dashboard now. *)
RefreshDash(u) == IF u.dash = 0 THEN u ELSE Fetches(u, "subs", u.dash)

NoTimer(u, id) ==               \* mutant of ShowDashboard: no live updates
    IF id \notin DOMAIN u.list THEN u ELSE RefreshDash([u EXCEPT !.dash = id])

(* The old rows stay in the table until an answer replaces them. *)
ShowDashboard(u, id) ==
    IF id \notin DOMAIN u.list THEN u ELSE RefreshDash([u EXCEPT !.dash = id, !.timer = TRUE])

CloseDash(u) == [u EXCEPT !.dash = 0, !.timer = FALSE]
ShowReveal(u, id, code) == [u EXCEPT !.reveal = [id |-> id, code |-> code, open |-> TRUE]]
ShowCode(u, r) ==               \* raced remembers an older code that came after a newer one
    LET v == ShowReveal(u, r.id, r.code) IN
    IF r.code < u.seen[r.id] THEN [v EXCEPT !.raced = @ \cup {r.id}] ELSE [v EXCEPT !.seen[r.id] = r.code]
CloseReveal(u) == [u EXCEPT !.reveal.open = FALSE]

StashesOnce(u) ==               \* mutant of OpenPoster: a code that is stashed is not replaced
    LET id == u.reveal.id
        code == IF u.stash[id] = 0 THEN u.reveal.code ELSE u.stash[id] IN
    [u EXCEPT !.stash[id] = code, !.poster = [id |-> id, code |-> code],
              !.renewed = IF u.reveal.code = upStore[id].code THEN @ \ {id} ELSE @]

(* openPosterFromReveal and the poster page, which prints the code that is  *)
(* stashed: this popup's, or one of before.  renewed is there to tell when  *)
(* a newer one has been made since.                                        *)
OpenPoster(u) ==
    LET id == u.reveal.id
        code == IF u.reveal.code # 0 THEN u.reveal.code ELSE u.stash[id] IN
    [u EXCEPT !.stash[id] = code, !.poster = [id |-> id, code |-> code],
              !.renewed = IF u.reveal.code = upStore[id].code THEN @ \ {id} ELSE @]

UpBecomes(u, reqs) == up' = [u EXCEPT !.sent = {}] /\ upReqs' = reqs \cup u.sent

-----------------------------------------------------------------------------
(* The admin. *)

Clicked == [up EXCEPT !.clicks = @ + 1]
UpClick(u) ==
    /\ up.clicks < UpClicks /\ Cardinality(upReqs) < UpFlying
    /\ UpBecomes(u, upReqs) /\ UNCHANGED upStore

NewSession == UpClick(Fetches(Clicked, "create", 0))
SessionButton ==
    \E id \in up.buttons :
        \/ UpClick(ShowDashboard(Clicked, id))
        \/ UpClick(ShowReveal(Clicked, id, 0))
        \/ up.list[id] = "open" /\ UpClick(Fetches(Clicked, "close", id))
        \/ \E kind \in {"regenerate", "delete"} : UpClick(Fetches(Clicked, kind, id))
DashButton == up.dash # 0 /\ UpClick(CloseDash(Clicked))
RevealButton == up.reveal.open /\ (UpClick(CloseReveal(Clicked)) \/ UpClick(OpenPoster(Clicked)))

-----------------------------------------------------------------------------
(* The server: each handler runs to its end. *)

Exists(id) == id # 0 /\ upStore[id].status \in {"open", "closed"}
Made == {id \in Ids : upStore[id].status # "none"}

CodesMade == {upStore[id].code : id \in Ids}
NewCode == 1 + CHOOSE c \in CodesMade : \A d \in CodesMade : d <= c

Regenerates(id, code) == [upStore EXCEPT ![id].code = code]
Creates(id, code) == [upStore EXCEPT ![id] = [status |-> "open", code |-> code, n |-> 0]]
Closes(id) == [upStore EXCEPT ![id].status = "closed"]
Removes(id) == [upStore EXCEPT ![id].status = "gone"]
ReadSessions == [id \in {i \in Ids : Exists(i)} |-> upStore[id].status]

(* A session that is not there is answered with 404. *)
UpServe(r) ==
    /\ r \in upReqs /\ ~r.done
    /\ LET new == Cardinality(Made) + 1
           id == IF r.kind = "create" THEN new ELSE r.id
           ok == CASE r.kind = "list" -> TRUE [] r.kind = "create" -> new \in Ids [] OTHER -> Exists(id)
           code == IF ok /\ r.kind \in {"create", "regenerate"} THEN NewCode ELSE 0
           answer == [r EXCEPT !.done = TRUE, !.ok = ok, !.code = code, !.id = IF ok THEN id ELSE r.id] IN
       /\ upReqs' = (upReqs \ {r}) \cup
            {IF r.kind = "list" THEN [answer EXCEPT !.list = ReadSessions]
             ELSE IF r.kind = "subs" /\ ok THEN [answer EXCEPT !.n = upStore[id].n] ELSE answer}
       /\ upStore' = CASE ~ok \/ r.kind \in {"list", "subs"} -> upStore
                       [] ok /\ r.kind = "create" -> Creates(id, code)
                       [] ok /\ r.kind = "close" -> Closes(id)
                       [] ok /\ r.kind = "regenerate" -> Regenerates(id, code)
                       [] ok /\ r.kind = "delete" -> Removes(id)
       /\ up' = IF ok /\ r.kind = "regenerate" THEN [up EXCEPT !.renewed = @ \cup {id}] ELSE up

Submit(id) ==
    /\ upStore[id].status = "open" /\ upStore[id].n < UpUploads
    /\ upStore' = [upStore EXCEPT ![id].n = @ + 1] /\ UNCHANGED <<up, upReqs>>

-----------------------------------------------------------------------------
(* Answers and the timer. *)

Painted(u, r) == [u EXCEPT !.list = r.list, !.buttons = DOMAIN r.list]

(* refreshDash does not ask which session the answer is about. *)
Rows(u, r) == [u EXCEPT !.rows = [of |-> r.id, n |-> r.n]]

(* A code is shown when there is one; closeSession and deleteSession load   *)
(* the list whatever came back.                                            *)
Answered(u, r) ==
    CASE r.kind = "list" -> Painted(u, r) [] r.kind = "subs" -> Rows(u, r)
      [] r.kind = "create" -> IF r.ok THEN LoadSessions(ShowCode(u, r)) ELSE u
      [] r.kind = "regenerate" -> IF r.ok THEN ShowCode(u, r) ELSE u
      [] OTHER -> LoadSessions(u)

UpArrives(r) ==
    /\ r \in upReqs /\ r.done /\ UpBecomes(Answered(up, r), upReqs \ {r}) /\ UNCHANGED upStore

(* No answer.  The list and the table say so; raced remembers a code that   *)
(* may be valid and was never shown.                                       *)
UpLost(r) ==
    /\ r \in upReqs /\ up.clicks < UpClicks
    /\ LET u == [up EXCEPT !.clicks = @ + 1, !.raced = IF r.kind = "regenerate" THEN @ \cup {r.id} ELSE @] IN
       UpBecomes(CASE r.kind = "list" -> [u EXCEPT !.buttons = {}]
                   [] r.kind = "subs" -> [u EXCEPT !.rows = NoRows] [] OTHER -> u, upReqs \ {r})
    /\ UNCHANGED upStore

DashTick ==
    /\ up.timer /\ Cardinality(upReqs) < UpFlying
    /\ UpBecomes(RefreshDash(up), upReqs) /\ UNCHANGED upStore

-----------------------------------------------------------------------------
(* The page is opened.  Sessions may be there already, with codes that were  *)
(* made, and stashed, in this tab.                                         *)
UpInit ==
    /\ upStore \in {[id \in Ids |-> [status |-> "none", code |-> 0, n |-> 0]],
                   [id \in Ids |-> [status |-> "open", code |-> id, n |-> 0]]}
    /\ up = [list |-> <<>>, buttons |-> {}, dash |-> 0, timer |-> FALSE, rows |-> NoRows,
             reveal |-> [id |-> 0, code |-> 0, open |-> FALSE], stash |-> [id \in Ids |-> upStore[id].code],
             poster |-> [id |-> 0, code |-> 0], renewed |-> {}, raced |-> {}, seen |-> [id \in Ids |-> 0], sent |-> {},
             clicks |-> 0]
    /\ upReqs = {UpRequest("list", 0, 0)}

UpAdmin == NewSession \/ SessionButton \/ DashButton \/ RevealButton
UpNext == UpAdmin \/ DashTick \/ (\E id \in Ids : Submit(id)) \/ \E r \in upReqs : UpServe(r) \/ UpArrives(r) \/ UpLost(r)

(* The tab is in view again and again, and what is asked is answered. *)
UpSpec == /\ UpInit /\ [][UpNext]_upVars /\ WF_upVars(DashTick)
          /\ WF_upVars(\E r \in upReqs : UpServe(r)) /\ WF_upVars(\E r \in upReqs : UpArrives(r))

-----------------------------------------------------------------------------
(* Properties. *)

(* A dashboard that stays open shows its own session's submissions, all of  *)
(* them, in the end: an answer about another session, or an older one, does *)
(* not stay.                                                               *)
DashCatchesUp ==
    <>[](Exists(up.dash) => up.rows = [of |-> up.dash, n |-> upStore[up.dash].n])

(* The code in the popup is the one that lets pupils in, unless another one *)
(* was asked for meanwhile whose answer is on its way, lost or came first. *)
CodeIsValid ==
    LET id == up.reveal.id IN
    up.reveal.code # 0 /\ id \notin up.raced => \/ up.reveal.code = upStore[id].code
                                              \/ \E r \in upReqs : r.kind = "regenerate" /\ r.id = id

(* A poster shows the valid code, unless a newer one has been made and no   *)
(* poster was opened from a popup that shows it, or it was never shown.     *)
PosterTells ==
    LET id == up.poster.id IN
    up.poster.code # 0 /\ id \notin up.renewed \cup up.raced => up.poster.code = upStore[id].code

(* Whoever is shown a code is shown one that works. *)
CodesTell == CodeIsValid /\ PosterTells
=============================================================================
