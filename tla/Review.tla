------------------------------- MODULE Review -------------------------------
(***************************************************************************)
(* The file viewer: review.js in the browser, routes/review.js and          *)
(* review/notes.js on the server.  What the page remembers is the record    *)
(* rv; handlers are operators from a page to the page after them, because   *)
(* they call each other before anything is drawn or answered.               *)
(***************************************************************************)
EXTENDS Naturals, Sequences, FiniteSets, SequencesExt

CONSTANTS
    RvFiles,        \* files of the folder
    RvKind,         \* RvKind[f]: the renderer of f: "text", "pdf", "image" or "other"
    RvPages,        \* pages of a PDF
    RvLinks,        \* deep links the page is opened with: at most two files
    RvStatuses,     \* review statuses besides "unreviewed"
    RvClicks,       \* bound on what the user does and what fails; a new note's id is its click
    RvFlying        \* the user waits until no more requests than these are under way

ASSUME RvAssumption ==
    /\ RvKind \in [RvFiles -> {"text", "pdf", "image", "other"}]
    /\ RvPages \in Nat \ {0} /\ RvClicks \in Nat /\ "" \notin RvFiles
    /\ \A links \in RvLinks : links \in Seq(RvFiles) /\ Len(links) <= 2

VARIABLES
    rv,         \* the page
    rvStore,    \* review_notes.json; a file without an entry has the default one
    rvReqs      \* requests about notes, status and listing

rvVars == <<rv, rvStore, rvReqs>>

States == {"unreviewed"} \cup RvStatuses
Note == [id : 0 .. RvClicks, of : RvFiles, edited : BOOLEAN]
NoFile == [rel |-> "", list |-> 0]
FileObject == [rel : RvFiles, list : 0 .. RvClicks + 1]   \* of which listing; 0: made by pseudoFile
FreshPane == [file |-> NoFile, token |-> 0, body |-> <<>>, img |-> FALSE]

RvTypeOK ==
    /\ rvStore \in [RvFiles -> [status : States, notes : SUBSET Note]]
    /\ rv.focus \in DOMAIN rv.panes
    /\ \A i \in DOMAIN rv.panes : /\ rv.panes[i].file \in {NoFile} \cup FileObject
                                  /\ rv.panes[i].img \in BOOLEAN
    /\ rv.lists \in Seq([RvFiles -> States]) /\ rv.status \in States /\ rv.fresh \in BOOLEAN
    /\ rv.shown \subseteq Note /\ rv.hidden \in BOOLEAN /\ rv.msg \in BOOLEAN /\ rv.tools \in BOOLEAN

Focused(u) == u.panes[u.focus]
CurrentRel(u) == Focused(u).file.rel

RvRequest(kind, rel, note, status, nr) ==
    [kind |-> kind, rel |-> rel, note |-> note, status |-> status, nr |-> nr, done |-> FALSE, ok |-> TRUE,
     notes |-> {}, list |-> [f \in RvFiles |-> "unreviewed"]]
NoNote == [id |-> 0, of |-> "", edited |-> FALSE]
RvAsks(u, kind, rel, note, status) ==
    [u EXCEPT !.sent = @ \cup {RvRequest(kind, rel, note, status, u.asked + 1)}, !.asked = @ + 1]

-----------------------------------------------------------------------------
(* The page. *)

SyncTools(u) == [u EXCEPT !.tools = Focused(u).img]

(* loadNotes: the panel is emptied before the answer is there. *)
LoadNotes(u, rel) ==
    LET v == RvAsks(u, "notes", rel, NoNote, "") IN
    [v EXCEPT !.hidden = FALSE, !.msg = FALSE, !.shown = {}, !.painted = 0, !.loads = v.asked]

(* What is in the pane at once.  An image shows its tools when it has       *)
(* loaded; there is nothing to load for a file that can only be downloaded. *)
FirstBody(file) ==
    <<<<file.rel, CASE RvKind[file.rel] = "other" -> "download" [] RvKind[file.rel] = "image" -> "image"
                    [] OTHER -> "loading", 0>>>>
Renders(i, file, token) ==
    IF RvKind[file.rel] = "other" THEN {} ELSE {[pane |-> i, token |-> token, rel |-> file.rel, page |-> 0]}

(* renderInto: a new token makes the pane's older renders give up. *)
Filled(p, file) == [file |-> file, token |-> p.token + 1, img |-> FALSE, body |-> FirstBody(file)]
RenderInto(u, i, file) ==
    [u EXCEPT !.panes[i] = Filled(@, file), !.work = @ \cup Renders(i, file, u.panes[i].token + 1)]

(* The status select shows what the file object says, be it from a listing  *)
(* that was replaced.  fresh remembers that it is from the newest one and    *)
(* that no change of a status is under way.                                *)
ObjectStatus(u, file) ==
    IF file.list = 0 THEN "unreviewed" ELSE u.lists[file.list][file.rel]
ShowStatus(u, file) ==
    [u EXCEPT !.status = ObjectStatus(u, file),
              !.fresh = /\ file.list # 0 /\ file.list = Len(u.lists)
                        /\ \A r \in rvReqs : r.kind # "status"]

(* focusPane: tools, status and notes follow the pane. *)
FocusPane(u, i) ==
    LET v == SyncTools([u EXCEPT !.focus = i])
        file == Focused(v).file IN
    IF file = NoFile THEN [v EXCEPT !.hidden = TRUE] ELSE LoadNotes(ShowStatus(v, file), file.rel)

(* openFile. *)
OpenFile(u, file) == LoadNotes(ShowStatus(SyncTools(RenderInto(u, u.focus, file)), file), file.rel)

(* buildPanes: files stay in the first n panes, rendered anew.  Renders of  *)
(* the old panes go on into elements that are no longer on the page.        *)
BuildPanes(u, n) ==
    LET full == {i \in 1 .. n : i \in DOMAIN u.panes /\ u.panes[i].file # NoFile} IN
    FocusPane([u EXCEPT
        !.panes = [i \in 1 .. n |-> IF i \in full THEN Filled(FreshPane, u.panes[i].file) ELSE FreshPane],
        !.work = UNION {Renders(i, u.panes[i].file, FreshPane.token + 1) : i \in full}],
        IF u.focus <= n THEN u.focus ELSE n)

Newest(u, rel) == [rel |-> rel, list |-> Len(u.lists)]

(* The deep links of the boot code, opened when the first listing is there, *)
(* the second one in a second pane.                                        *)
OpenLink(u, i) == IF i \in DOMAIN u.links THEN OpenFile(FocusPane(u, i), Newest(u, u.links[i])) ELSE u
DeepLinks(u) ==
    LET v == IF Len(u.links) = 2 THEN BuildPanes(u, 2) ELSE u IN
    IF u.links = <<>> THEN u ELSE [FocusPane(OpenLink(OpenLink(v, 1), 2), 1) EXCEPT !.links = <<>>]

(* What a handler asks for is sent when it is over.  raced remembers that a *)
(* status and a listing, or two statuses, were under way together.         *)
Becomes(u, reqs) ==
    LET all == reqs \cup u.sent
        races == Cardinality({r \in all : r.kind \in {"list", "status"}}) > 1 IN
    /\ rv' = [u EXCEPT !.sent = {}, !.raced = @ \/ races]
    /\ rvReqs' = all
User(u) == /\ rv.clicks < RvClicks /\ Cardinality(rvReqs) <= RvFlying
           /\ Becomes([u EXCEPT !.clicks = @ + 1], rvReqs)
           /\ UNCHANGED rvStore

OpenListed == \E f \in RvFiles : rv.lists # <<>> /\ User(OpenFile(rv, Newest(rv, f)))
Split == \E n \in {1, 2} : User(BuildPanes(rv, n))
Focus == \E i \in DOMAIN rv.panes : User(FocusPane(rv, i))
Relist == rv.lists # <<>> /\ User(RvAsks(rv, "list", "", NoNote, ""))
AddNote ==
    LET rel == CurrentRel(rv) IN
    rel # "" /\ User(RvAsks(rv, "add", rel, [id |-> rv.clicks + 1, of |-> rel, edited |-> FALSE], ""))
ChangeNote(kind) == /\ ~rv.hidden /\ CurrentRel(rv) # ""
                    /\ \E note \in rv.shown : User(RvAsks(rv, kind, CurrentRel(rv), note, ""))
SetStatus ==
    \E s \in States \ {rv.status} :
        /\ CurrentRel(rv) # ""
        /\ User(RvAsks([rv EXCEPT !.status = s, !.fresh = TRUE], "status", CurrentRel(rv), NoNote, s))

-----------------------------------------------------------------------------
(* The server: each handler runs to its end; mutations take turns.         *)

Rest(r) == {note \in rvStore[r.rel].notes : note.id # r.note.id}
Known(r) == rvStore[r.rel].notes # Rest(r)

(* addNote, updateNote, deleteNote and setStatus; an id that is not there    *)
(* is answered with 404.                                                   *)
Mutated(r) ==
    CASE r.kind = "status" -> [rvStore EXCEPT ![r.rel].status = r.status]
      [] r.kind = "add" -> [rvStore EXCEPT ![r.rel].notes = @ \cup {r.note}]
      [] r.kind = "edit" -> [rvStore EXCEPT ![r.rel].notes = Rest(r) \cup {[r.note EXCEPT !.edited = TRUE]}]
      [] r.kind = "delete" -> [rvStore EXCEPT ![r.rel].notes = Rest(r)]
      [] OTHER -> rvStore

Listed == [f \in RvFiles |-> rvStore[f].status]

Serve(r) ==
    /\ r \in rvReqs /\ ~r.done
    /\ LET found == r.kind \in {"edit", "delete"} => Known(r) IN
       /\ rvReqs' = (rvReqs \ {r}) \cup
            {[r EXCEPT !.done = TRUE, !.ok = found, !.list = IF r.kind = "list" THEN Listed ELSE @,
                       !.notes = IF r.kind = "notes" THEN rvStore[r.rel].notes ELSE @]}
       /\ rvStore' = IF found THEN Mutated(r) ELSE rvStore
    /\ UNCHANGED rv

-----------------------------------------------------------------------------
(* The answers. *)

PaintsAny(u, r) == [u EXCEPT !.shown = r.notes, !.painted = r.nr]    \* mutant of NotesAnswer

(* A response for a file that is no longer the current one is ignored. *)
NotesAnswer(u, r) ==
    IF r.rel # CurrentRel(u) THEN u ELSE [u EXCEPT !.shown = r.notes, !.painted = r.nr]

TellsThePane(u, r) ==           \* mutant of StatusAnswer: the status goes to the pane's file object
    IF Focused(u).file.list = 0 THEN u ELSE [u EXCEPT !.lists[Focused(u).file.list][r.rel] = r.status]

(* The status goes to the newest listing's object, which the dot shows. *)
StatusAnswer(u, r) == IF u.lists = <<>> THEN u ELSE [u EXCEPT !.lists[Len(u.lists)][r.rel] = r.status]

(* renderFiles: new file objects; the first listing opens the deep links. *)
ListAnswer(u, r) == DeepLinks([u EXCEPT !.lists = Append(@, r.list)])

(* After a note was added, edited or deleted its file's notes are loaded. *)
NoteChanged(u, r) == LoadNotes(u, r.rel)

Arrives(r) ==
    /\ r \in rvReqs /\ r.done /\ r.ok
    /\ LET u == CASE r.kind = "notes" -> NotesAnswer(rv, r) [] r.kind = "list" -> ListAnswer(rv, r)
                  [] r.kind = "status" -> StatusAnswer(rv, r) [] OTHER -> NoteChanged(rv, r) IN
       Becomes(u, rvReqs \ {r})
    /\ UNCHANGED rvStore

(* An error answer, or none.  The catch of loadNotes empties the list,      *)
(* whichever file it was for; loadDir leaves the old listing.              *)
Refused(r) ==
    /\ r \in rvReqs /\ r.done /\ ~r.ok
    /\ rv' = [rv EXCEPT !.msg = TRUE] /\ rvReqs' = rvReqs \ {r} /\ UNCHANGED rvStore
Lost(r) ==
    /\ r \in rvReqs /\ rv.clicks < RvClicks
    /\ LET v == [rv EXCEPT !.clicks = @ + 1, !.raced = @ \/ r.kind = "status"]
           w == CASE r.kind = "list" -> DeepLinks(v)
                  [] r.kind = "notes" -> [v EXCEPT !.msg = TRUE, !.shown = {}, !.painted = 0]
                  [] OTHER -> [v EXCEPT !.msg = TRUE] IN
       Becomes(w, rvReqs \ {r})
    /\ UNCHANGED rvStore

-----------------------------------------------------------------------------
(* The renders. *)

NoTokenCheck(w) == FALSE        \* mutant of Gone

Gone(w) == rv.panes[w.pane].token # w.token

(* renderText and renderPdf: the response or a page is there.  One that      *)
(* finds a newer token gives up.                                           *)
Draws(w) ==
    /\ w \in rv.work /\ RvKind[w.rel] \in {"text", "pdf"}
    /\ LET last == RvKind[w.rel] = "text" \/ w.page = RvPages
           rest == (rv.work \ {w}) \cup (IF last \/ Gone(w) THEN {} ELSE {[w EXCEPT !.page = @ + 1]})
           body == CASE RvKind[w.rel] = "text" -> <<<<w.rel, "text", 0>>>>
                     [] RvKind[w.rel] = "pdf" /\ w.page = 0 -> <<>>
                     [] OTHER -> Append(rv.panes[w.pane].body, <<w.rel, "page", w.page>>) IN
       rv' = IF Gone(w) THEN [rv EXCEPT !.work = rest]
             ELSE [rv EXCEPT !.work = rest, !.panes[w.pane].body = body]
    /\ UNCHANGED <<rvStore, rvReqs>>

(* renderImage: the image has been put in at once, now it has loaded. *)
ImageLoads(w) ==
    /\ w \in rv.work /\ RvKind[w.rel] = "image"
    /\ rv' = IF Gone(w) THEN [rv EXCEPT !.work = @ \ {w}]
             ELSE SyncTools([rv EXCEPT !.work = @ \ {w}, !.panes[w.pane].img = TRUE])
    /\ UNCHANGED <<rvStore, rvReqs>>

(* It fails: the message replaces what was drawn, unless it is out of date. *)
Breaks(w) ==
    /\ w \in rv.work /\ rv.clicks < RvClicks
    /\ LET failed == [rv EXCEPT !.work = @ \ {w}, !.clicks = @ + 1,
                                !.panes[w.pane] = [@ EXCEPT !.img = FALSE, !.body = <<<<w.rel, "error", 0>>>>]] IN
       rv' = IF Gone(w) THEN [rv EXCEPT !.work = @ \ {w}, !.clicks = @ + 1] ELSE SyncTools(failed)
    /\ UNCHANGED <<rvStore, rvReqs>>

-----------------------------------------------------------------------------
(* buildPanes(1) and the first listing on its way; a deep link counts as a  *)
(* click.  Every file has a note already.                                  *)
RvInit ==
    /\ \E links \in RvLinks :
         rv = [panes |-> <<FreshPane>>, focus |-> 1, tools |-> FALSE, work |-> {}, lists |-> <<>>,
               links |-> links, status |-> "unreviewed", fresh |-> FALSE, shown |-> {}, hidden |-> TRUE,
               msg |-> FALSE, painted |-> 0, loads |-> 0,
               asked |-> 0, sent |-> {}, clicks |-> Len(links), raced |-> FALSE]
    /\ rvStore = [f \in RvFiles |-> [status |-> "unreviewed", notes |-> {[id |-> 0, of |-> f, edited |-> FALSE]}]]
    /\ rvReqs = {RvRequest("list", "", NoNote, "", 0)}

Clicks == OpenListed \/ Split \/ Focus \/ Relist \/ AddNote \/ ChangeNote("edit") \/ ChangeNote("delete")
          \/ SetStatus
Network == \E r \in rvReqs : Serve(r) \/ Arrives(r) \/ Refused(r) \/ Lost(r)
Drawing == \E w \in rv.work : Draws(w) \/ ImageLoads(w) \/ Breaks(w)

RvNext == Clicks \/ Network \/ Drawing

RvSpec == RvInit /\ [][RvNext]_rvVars

-----------------------------------------------------------------------------
(* Properties. *)

Whole(f) == [n \in 1 .. RvPages |-> <<f, "page", n>>]

(* A pane never mixes files or pages: it shows its own file's message,      *)
(* text or image, or the first pages of its PDF, each once and in order,    *)
(* however fast files were opened one after another.                        *)
ShowsItsFile ==
    \A i \in DOMAIN rv.panes : LET p == rv.panes[i] IN
        /\ p.file = NoFile => p.body = <<>>
        /\ p.file # NoFile => \/ RvKind[p.file.rel] = "pdf" /\ IsPrefix(p.body, Whole(p.file.rel))
                              \/ \E what \in {"loading", "download", "text", "image", "error"} :
                                     p.body = <<<<p.file.rel, what, 0>>>>

(* The zoom and rotate tools are there exactly when the focused pane shows  *)
(* an image that has loaded.                                                *)
ToolsTell ==
    LET p == Focused(rv) IN
    rv.tools <=> /\ p.body = <<<<p.file.rel, "image", 0>>>>
                 /\ \A w \in rv.work : w.pane # rv.focus \/ w.token # p.token

(* The notes one can read, edit and delete belong to the file in the        *)
(* focused pane, and an edit or a deletion names the file its note is of:   *)
(* saveEdit and deleteNote take the file from the page, the id from the list. *)
NotesOfFile ==
    /\ ~rv.hidden => \A note \in rv.shown : note.of = CurrentRel(rv)
    /\ \A r \in rvReqs : r.kind \in {"add", "edit", "delete"} => r.note.of = r.rel

(* When everything is answered, nothing complained and the last load is the *)
(* one that was painted, the list is what is stored.                        *)
SettledList ==
    rvReqs = {} /\ ~rv.hidden /\ ~rv.msg /\ rv.painted = rv.loads
        => rv.shown = rvStore[CurrentRel(rv)].notes

(* When everything is answered, the dots tell the stored statuses, unless   *)
(* one was lost or answers could overtake each other.                       *)
DotsTell ==
    rvReqs = {} /\ rv.lists # <<>> /\ ~rv.raced
        => \A f \in RvFiles : rv.lists[Len(rv.lists)][f] = rvStore[f].status

(* The select tells the stored status of the file one looks at, whichever   *)
(* pane and file it followed since, if the file is of the newest listing    *)
(* and no change was under way when it got the focus, and nothing was lost  *)
(* or could overtake.  (A pane keeps the object of the listing it was       *)
(* opened from: a status set after a new listing is not in that object.)    *)
SelectTells ==
    rvReqs = {} /\ CurrentRel(rv) # "" /\ rv.fresh /\ ~rv.raced
        => rv.status = rvStore[CurrentRel(rv)].status

(* No pane is left at "Wird geladen…" or with half a PDF: without a render   *)
(* still at work it shows its whole file, or an error.                     *)
PanesSettle ==
    \A i \in DOMAIN rv.panes : LET p == rv.panes[i] IN
        \/ p.file = NoFile \/ p.body = Whole(p.file.rel)
        \/ \E w \in rv.work : w.pane = i /\ w.token = p.token
        \/ \E what \in {"download", "text", "image", "error"} : p.body = <<<<p.file.rel, what, 0>>>>

(* A pane shows one file, whole in the end, and has the tools that go with   *)
(* what it shows.                                                          *)
PanesTell == ShowsItsFile /\ PanesSettle /\ ToolsTell

(* The notes one reads and changes are those of the file one looks at and   *)
(* those stored; dots and select tell the stored status where they can.     *)
NotesTell == NotesOfFile /\ SettledList /\ DotsTell /\ SelectTells
=============================================================================
