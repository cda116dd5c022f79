---------------------------- MODULE ReviewProofs ----------------------------
(***************************************************************************)
(* The file viewer keeps what Review promises, for any files, any number of *)
(* clicks and of requests and renders under way.                           *)
(***************************************************************************)
EXTENDS Review, FiniteSetTheorems, SequenceTheorems, TLAPS

RvNote == [id : Nat, of : RvFiles, edited : BOOLEAN]
RvReq == [kind : {"list", "notes", "add", "edit", "delete", "status"}, rel : {""} \cup RvFiles,
          note : RvNote \cup {NoNote}, status : {""} \cup States, nr : Nat, done : BOOLEAN, ok : BOOLEAN,
          notes : SUBSET RvNote, list : [RvFiles -> States]]
RvFile == [rel : RvFiles, list : Nat]
Drawn == RvFiles \X {"loading", "download", "image", "text", "error", "page"} \X Nat
Pane == [file : {NoFile} \cup RvFile, token : Nat, img : BOOLEAN, body : Seq(Drawn)]
RvWork == [pane : Nat, token : Nat, rel : RvFiles, page : Nat]
RvPage == [panes : Seq(Pane), focus : Nat, tools : BOOLEAN, work : SUBSET RvWork, lists : Seq([RvFiles -> States]),
           links : Seq(RvFiles), shown : SUBSET RvNote, hidden : BOOLEAN, msg : BOOLEAN, painted : Nat, loads : Nat,
           asked : Nat, sent : SUBSET RvReq, clicks : Nat, raced : BOOLEAN, status : States, fresh : BOOLEAN]

(* What a pane may show. *)
Says(f, what) == <<<<f, what, 0>>>>
Pages(f, k) == [n \in 1 .. k |-> <<f, "page", n>>]

(* What is in the pane while its render is at work, and afterwards. *)
Begun(p, w) ==
    \/ RvKind[w.rel] = "image" /\ p.body = Says(w.rel, "image")
    \/ w.page = 0 /\ RvKind[w.rel] # "image" /\ p.body = Says(w.rel, "loading")
    \/ w.page # 0 /\ RvKind[w.rel] = "pdf" /\ p.body = Pages(w.rel, w.page - 1)
Over(p) ==
    \/ p.img /\ p.body = Says(p.file.rel, "image")
    \/ ~p.img /\ \E what \in {"download", "text", "error"} : p.body = Says(p.file.rel, what)
    \/ ~p.img /\ RvKind[p.file.rel] = "pdf" /\ p.body = Pages(p.file.rel, RvPages)

AtWork(work, i, p, w) == w \in work /\ w.pane = i /\ w.token = p.token

PaneOK(work, i, p) ==
    \/ p.file = NoFile /\ p.body = <<>> /\ ~p.img /\ \A w \in work : ~AtWork(work, i, p, w)
    \/ p.file # NoFile /\ ~p.img /\ \E w \in work : AtWork(work, i, p, w) /\ w.rel = p.file.rel /\ Begun(p, w)
    \/ p.file # NoFile /\ Over(p) /\ \A w \in work : ~AtWork(work, i, p, w)

WorkOK(panes, w) ==
    /\ w.pane \in DOMAIN panes /\ w.token <= panes[w.pane].token
    /\ RvKind[w.rel] # "other" /\ w.page <= RvPages /\ (w.page # 0 => RvKind[w.rel] = "pdf")

(* Every pane has its one render at work or what has become of it. *)
PanesInv(panes, work) ==
    /\ \A w \in work : WorkOK(panes, w)
    /\ \A w, v \in work : w.pane = v.pane /\ w.token = v.token => w = v
    /\ \A i \in DOMAIN panes : PaneOK(work, i, panes[i])

ToolsOK(u) == u.tools = u.panes[u.focus].img

Changing == {"add", "edit", "delete"}

ReqOK(r) ==
    /\ r \in RvReq
    /\ r.kind # "list" => r.rel \in RvFiles
    /\ r.kind \in Changing => r.note \in RvNote /\ r.note.of = r.rel
    /\ r.kind = "notes" => \A note \in r.notes : note.of = r.rel
    /\ r.kind = "status" => r.status \in States
    /\ ~r.ok => r.done /\ r.kind \in {"edit", "delete"}

RvStored(s) ==
    /\ s \in [RvFiles -> [status : States, notes : SUBSET RvNote]]
    /\ \A f \in RvFiles : \A note \in s[f].notes : note.of = f

(* No pane has a file of a listing that is yet to come. *)
FilesListed(panes, lists) == \A i \in DOMAIN panes : panes[i].file.list <= Len(lists)

(* A page between two calls of one handler. *)
Unfocused(u, reqs) ==
    /\ u \in RvPage /\ PanesInv(u.panes, u.work) /\ FilesListed(u.panes, u.lists)
    /\ IsFiniteSet(u.sent) /\ \A q \in u.sent : ~q.done
    /\ \A r \in reqs \cup u.sent : ReqOK(r) /\ r.nr <= u.asked
Between(u, reqs) == Unfocused(u, reqs) /\ u.focus \in DOMAIN u.panes

(* A change of notes that the page has not heard of yet. *)
Changed(reqs) == \E q \in reqs : q.kind \in Changing /\ q.done

(* The answer to the last load is up to date, and so is the list when it is *)
(* the one painted, but for changes whose answer brings the next load.      *)
NotesOK(u, reqs, s) ==
    ~u.hidden =>
        /\ \A note \in u.shown : note.of = CurrentRel(u)
        /\ u.loads # 0
        /\ ~u.msg /\ ~Changed(reqs) =>
              /\ u.painted = u.loads => CurrentRel(u) \in RvFiles /\ u.shown = s[CurrentRel(u)].notes
              /\ \A r \in reqs : r.kind = "notes" /\ r.nr = u.loads /\ r.done => r.notes = s[r.rel].notes

(* A page at the end of a handler. *)
Done(u, reqs, s) == Between(u, reqs) /\ ToolsOK(u) /\ NotesOK(u, reqs \cup u.sent, s)

StatusesOf(s) == [f \in RvFiles |-> s[f].status]

(* The dots are right, or one answer away from it. *)
Dots(u, reqs, s) ==
    /\ \A r \in reqs : r.kind = "list" /\ r.done => r.list = StatusesOf(s)
    /\ u.lists # <<>> =>
        LET last == u.lists[Len(u.lists)] IN
        /\ (\A r \in reqs : ~(r.kind = "status" /\ r.done)) => last = StatusesOf(s)
        /\ \A r \in reqs : r.kind = "status" /\ r.done => [last EXCEPT ![r.rel] = r.status] = StatusesOf(s)

Racing(r) == r.kind \in {"list", "status"}
Single(reqs) == \A r, q \in reqs : Racing(r) /\ Racing(q) => r = q

RvInv ==
    /\ RvStored(rvStore) /\ IsFiniteSet(rvReqs) /\ rv.sent = {} /\ Len(rv.links) <= 2
    /\ Done(rv, rvReqs, rvStore)
    /\ ~rv.raced => Single(rvReqs) /\ Dots(rv, rvReqs, rvStore)

LEMMA RvBounds ==
    /\ RvPages \in Nat /\ RvPages # 0 /\ 0 <= RvPages /\ "" \notin RvFiles
    /\ \A f \in RvFiles : RvKind[f] \in {"text", "pdf", "image", "other"}
<1>1. RvPages \in Nat /\ RvPages # 0 /\ "" \notin RvFiles BY RvAssumption
<1>2. 0 <= RvPages
    <2>1. RvPages \in Nat BY RvAssumption
    <2> QED BY <2>1
<1>3. \A f \in RvFiles : RvKind[f] \in {"text", "pdf", "image", "other"} BY RvAssumption
<1> QED BY <1>1, <1>2, <1>3

-----------------------------------------------------------------------------
(* What panes show. *)

LEMMA SaysDo ==
    ASSUME NEW f \in RvFiles, NEW what \in {"loading", "download", "image", "text", "error", "page"}
    PROVE  Says(f, what) \in Seq(Drawn) /\ Says(f, what) # <<>> /\ Says(f, what)[1] = <<f, what, 0>>
<1>1. <<f, what, 0>> \in Drawn BY DEF Drawn
<1>2. Len(Says(f, what)) = 1 /\ Says(f, what)[1] = <<f, what, 0>> BY DEF Says
<1>3. Says(f, what) \in Seq(Drawn) BY <1>1 DEF Says
<1>4. Says(f, what) # <<>> BY <1>2
<1> QED BY <1>2, <1>3, <1>4

LEMMA SaysDiffer ==
    ASSUME NEW f, NEW g, NEW what, NEW other, Says(f, what) = Says(g, other)
    PROVE  f = g /\ what = other
<1>1. Says(f, what)[1] = <<f, what, 0>> /\ Says(g, other)[1] = <<g, other, 0>> BY DEF Says
<1>2. <<f, what, 0>> = <<g, other, 0>> BY <1>1
<1> QED BY <1>2

LEMMA PagesDo ==
    ASSUME NEW f \in RvFiles, NEW k \in Nat
    PROVE  /\ Pages(f, k) \in Seq(Drawn) /\ Len(Pages(f, k)) = k /\ \A n \in 1 .. k : Pages(f, k)[n] = <<f, "page", n>>
           /\ Pages(f, 0) = <<>>
<1>1. \A n \in 1 .. k : <<f, "page", n>> \in Drawn BY DEF Drawn
<1>2. Pages(f, k) \in [1 .. k -> Drawn] BY <1>1 DEF Pages
<1>3. Pages(f, k) \in Seq(Drawn) BY <1>2
<1>4. Len(Pages(f, k)) = k BY <1>2, <1>3
<1>5. Pages(f, 0) = <<>> BY DEF Pages
<1>6. \A n \in 1 .. k : Pages(f, k)[n] = <<f, "page", n>> BY DEF Pages
<1> QED BY <1>3, <1>4, <1>5, <1>6

LEMMA NextPage ==
    ASSUME NEW f \in RvFiles, NEW k \in Nat
    PROVE  Append(Pages(f, k), <<f, "page", k + 1>>) = Pages(f, k + 1)
<1> DEFINE s == Pages(f, k)
           e == <<f, "page", k + 1>>
           t == Pages(f, k + 1)
<1>1. s \in Seq(Drawn) /\ Len(s) = k /\ \A n \in 1 .. k : s[n] = <<f, "page", n>> BY PagesDo
<1>2. t \in Seq(Drawn) /\ Len(t) = k + 1 /\ \A n \in 1 .. k + 1 : t[n] = <<f, "page", n>>
    <2>1. k + 1 \in Nat OBVIOUS
    <2> QED BY <2>1, PagesDo
<1>3. e \in Drawn BY DEF Drawn
<1>3a. e = <<f, "page", k + 1>> OBVIOUS
<1> HIDE DEF s, e, t
<1>4. /\ Append(s, e) \in Seq(Drawn) /\ Len(Append(s, e)) = Len(s) + 1
      /\ (\A i \in 1 .. Len(s) : Append(s, e)[i] = s[i]) /\ Append(s, e)[Len(s) + 1] = e
    BY <1>1, <1>3, AppendProperties
<1>5. \A i \in 1 .. k + 1 : Append(s, e)[i] = t[i]
    <2> SUFFICES ASSUME NEW i \in 1 .. k + 1 PROVE Append(s, e)[i] = t[i]
        OBVIOUS
    <2>1. CASE i = k + 1 BY <1>1, <1>2, <1>3a, <1>4, <2>1
    <2>2. CASE i # k + 1
        <3>1. i \in 1 .. k BY <2>2
        <3> QED BY <1>1, <1>2, <1>4, <3>1
    <2> QED BY <2>1, <2>2
<1>6. Append(s, e) = t BY <1>1, <1>2, <1>4, <1>5, SeqEqual
<1> QED BY <1>6 DEF s, e, t

LEMMA PagesAreNoImage ==
    ASSUME NEW f \in RvFiles, NEW k \in Nat, NEW g, NEW what, Pages(f, k) = Says(g, what)
    PROVE  what = "page"
<1>1. Len(Says(g, what)) = 1 /\ Says(g, what)[1] = <<g, what, 0>> BY DEF Says
<1>2. k = 1 BY <1>1, PagesDo
<1>3. Pages(f, k)[1] = <<f, "page", 1>> BY <1>2, PagesDo
<1>4. <<f, "page", 1>> = <<g, what, 0>> BY <1>1, <1>3
<1> QED BY <1>4

-----------------------------------------------------------------------------
(* Panes and their renders. *)

LEMMA FilledDoes ==
    ASSUME NEW p \in Pane, NEW file \in RvFile, NEW i \in Nat
    PROVE  /\ Filled(p, file) \in Pane /\ Filled(p, file).token = p.token + 1 /\ Filled(p, file).file = file
           /\ ~Filled(p, file).img /\ file # NoFile /\ file.rel \in RvFiles
           /\ Filled(p, file).body = FirstBody(file)
           /\ Renders(i, file, p.token + 1) \subseteq RvWork
<1>1. file.rel \in RvFiles /\ file # NoFile
    <2>1. file.rel \in RvFiles BY DEF RvFile
    <2>2. NoFile.rel = "" BY DEF NoFile
    <2> QED BY <2>1, <2>2, RvBounds
<1>2. FirstBody(file) \in Seq(Drawn)
    <2> DEFINE what == CASE RvKind[file.rel] = "other" -> "download" [] RvKind[file.rel] = "image" -> "image"
                         [] OTHER -> "loading"
    <2>1. what \in {"loading", "download", "image", "text", "error", "page"} OBVIOUS
    <2>2. FirstBody(file) = Says(file.rel, what) BY DEF FirstBody, Says
    <2> HIDE DEF what
    <2> QED BY <1>1, <2>1, <2>2, SaysDo
<1>3. p.token + 1 \in Nat BY DEF Pane
<1>4. Filled(p, file) = [file |-> file, token |-> p.token + 1, img |-> FALSE, body |-> FirstBody(file)] BY DEF Filled
<1>5. Filled(p, file) \in Pane BY <1>2, <1>3, <1>4 DEF Pane
<1>6. Renders(i, file, p.token + 1) \subseteq RvWork BY <1>1, <1>3 DEF Renders, RvWork
<1> QED BY <1>1, <1>4, <1>5, <1>6

(* A pane that was just filled, with its render, is in order. *)
LEMMA FilledOK ==
    ASSUME NEW p \in Pane, NEW file \in RvFile, NEW i \in Nat, NEW work,
           \A w \in work : AtWork(work, i, Filled(p, file), w) => w \in Renders(i, file, p.token + 1),
           Renders(i, file, p.token + 1) \subseteq work
    PROVE  PaneOK(work, i, Filled(p, file))
<1> DEFINE q == Filled(p, file)
<1>1. /\ q.token = p.token + 1 /\ q.file = file /\ ~q.img /\ file # NoFile /\ file.rel \in RvFiles
      /\ q.body = FirstBody(file)
    BY FilledDoes
<1>1a. \A w \in work : AtWork(work, i, q, w) => w \in Renders(i, file, p.token + 1) OBVIOUS
<1> HIDE DEF q
<1>2. CASE RvKind[file.rel] = "other"
    <2>1. q.body = Says(file.rel, "download") BY <1>1, <1>2 DEF FirstBody, Says
    <2>2. \A w \in work : ~AtWork(work, i, q, w) BY <1>1a, <1>2 DEF Renders
    <2> QED BY <1>1, <2>1, <2>2 DEF PaneOK, Over, q
<1>3. CASE RvKind[file.rel] # "other"
    <2> DEFINE w == [pane |-> i, token |-> p.token + 1, rel |-> file.rel, page |-> 0]
    <2>1. Renders(i, file, p.token + 1) = {w} BY <1>3 DEF Renders
    <2>2. w.pane = i /\ w.token = p.token + 1 /\ w.rel = file.rel /\ w.page = 0 OBVIOUS
    <2> HIDE DEF w
    <2>3. AtWork(work, i, q, w) BY <1>1, <2>1, <2>2 DEF AtWork
    <2>4. Begun(q, w)
        <3>1. CASE RvKind[file.rel] = "image"
            <4>1. q.body = Says(file.rel, "image") BY <1>1, <3>1 DEF FirstBody, Says
            <4> QED BY <2>2, <3>1, <4>1 DEF Begun
        <3>2. CASE RvKind[file.rel] # "image"
            <4>1. q.body = Says(file.rel, "loading") BY <1>1, <1>3, <3>2 DEF FirstBody, Says
            <4> QED BY <2>2, <3>2, <4>1 DEF Begun
        <3> QED BY <3>1, <3>2
    <2> QED BY <1>1, <2>2, <2>3, <2>4 DEF PaneOK, AtWork, q
<1> QED BY <1>2, <1>3

(* What another pane's render has drawn, or that another pane was filled,   *)
(* does not disturb a pane.                                                *)
LEMMA OtherPane ==
    ASSUME NEW work, NEW after, NEW i, NEW p, PaneOK(work, i, p),
           \A w \in after : w.pane = i /\ w.token = p.token => w \in work,
           \A w \in work : w.pane = i /\ w.token = p.token => w \in after
    PROVE  PaneOK(after, i, p)
<1>1. \A w : AtWork(work, i, p, w) <=> AtWork(after, i, p, w) BY DEF AtWork
<1>2. CASE p.file = NoFile /\ p.body = <<>> /\ ~p.img /\ \A w \in work : ~AtWork(work, i, p, w)
    BY <1>1, <1>2 DEF PaneOK, AtWork
<1>3. CASE p.file # NoFile /\ ~p.img /\ \E w \in work : AtWork(work, i, p, w) /\ w.rel = p.file.rel /\ Begun(p, w)
    <2>1. PICK w \in work : AtWork(work, i, p, w) /\ w.rel = p.file.rel /\ Begun(p, w) BY <1>3
    <2>2. w \in after /\ AtWork(after, i, p, w) BY <1>1, <2>1 DEF AtWork
    <2> QED BY <1>3, <2>1, <2>2 DEF PaneOK
<1>4. CASE p.file # NoFile /\ Over(p) /\ \A w \in work : ~AtWork(work, i, p, w)
    BY <1>1, <1>4 DEF PaneOK, AtWork
<1> QED BY <1>2, <1>3, <1>4 DEF PaneOK

LEMMA FilledPanes ==
    ASSUME NEW panes \in Seq(Pane), NEW work \in SUBSET RvWork, PanesInv(panes, work),
           NEW i \in DOMAIN panes, NEW file \in RvFile,
           NEW after, after = [panes EXCEPT ![i] = Filled(panes[i], file)],
           NEW rest, rest = work \cup Renders(i, file, panes[i].token + 1)
    PROVE  after \in Seq(Pane) /\ DOMAIN after = DOMAIN panes /\ rest \in SUBSET RvWork /\ PanesInv(after, rest)
<1> DEFINE p == panes[i]
           q == Filled(p, file)
           new == Renders(i, file, p.token + 1)
<1>1. p \in Pane /\ i \in Nat /\ p.token \in Nat
    <2>1. DOMAIN panes = 1 .. Len(panes) /\ Len(panes) \in Nat OBVIOUS
    <2>2. p \in Pane /\ i \in Nat BY <2>1
    <2> QED BY <2>2 DEF Pane
<1>1a. after = [panes EXCEPT ![i] = q] /\ rest = work \cup new OBVIOUS
<1>2. /\ q \in Pane /\ q.token = p.token + 1 /\ q.file = file /\ file.rel \in RvFiles /\ new \subseteq RvWork
    BY <1>1, FilledDoes
<1>3. \A w \in new : w.pane = i /\ w.token = p.token + 1 /\ w.rel = file.rel /\ w.page = 0 /\ RvKind[w.rel] # "other"
    BY DEF Renders
<1>4. \A w, v \in new : w = v BY DEF Renders
<1>5. \A w \in work : WorkOK(panes, w) /\ w.token \in Nat BY DEF PanesInv, RvWork
<1> HIDE DEF p, q, new
<1>6. after \in Seq(Pane) /\ DOMAIN after = DOMAIN panes BY <1>1a, <1>2
<1>7. after[i] = q /\ \A j \in DOMAIN panes : j # i => after[j] = panes[j] BY <1>1a
<1>8. \A w \in work : w.pane = i => w.token <= p.token BY <1>5 DEF WorkOK, p
<1>9. ASSUME NEW w \in rest PROVE WorkOK(after, w)
    <2>1. CASE w \in work
        <3>1. WorkOK(panes, w) /\ w.token \in Nat BY <1>5, <2>1
        <3>2. CASE w.pane = i
            <4>1. w.token <= q.token BY <1>1, <1>2, <1>8, <2>1, <3>1, <3>2
            <4> QED BY <1>6, <1>7, <3>1, <3>2, <4>1 DEF WorkOK
        <3>3. CASE w.pane # i BY <1>6, <1>7, <3>1, <3>3 DEF WorkOK
        <3> QED BY <3>2, <3>3
    <2>2. CASE w \in new
        <3>1. w.pane = i /\ w.token = p.token + 1 /\ w.page = 0 /\ RvKind[w.rel] # "other" BY <1>3, <2>2
        <3>2. w.token <= after[i].token BY <1>1, <1>2, <1>7, <3>1
        <3> QED BY <1>6, <3>1, <3>2, RvBounds DEF WorkOK
    <2> QED BY <1>1a, <2>1, <2>2
<1>10. \A w, v \in rest : w.pane = v.pane /\ w.token = v.token => w = v
    <2>1. \A w, v \in work : w.pane = v.pane /\ w.token = v.token => w = v BY DEF PanesInv
    <2>2. \A w \in work : \A v \in new : ~(w.pane = v.pane /\ w.token = v.token)
        <3> SUFFICES ASSUME NEW w \in work, NEW v \in new, w.pane = v.pane, w.token = v.token PROVE FALSE
            OBVIOUS
        <3>1. w.pane = i /\ w.token = p.token + 1 BY <1>3
        <3>2. w.token <= p.token BY <1>8, <3>1
        <3> QED BY <1>1, <3>1, <3>2 DEF p
    <2> QED BY <1>1a, <1>4, <2>1, <2>2
<1>11. ASSUME NEW j \in DOMAIN after PROVE PaneOK(rest, j, after[j])
    <2>1. CASE j = i
        <3>1. \A w \in rest : AtWork(rest, i, q, w) => w \in new
            <4> SUFFICES ASSUME NEW w \in work, w.pane = i, w.token = q.token PROVE FALSE
                BY <1>1a DEF AtWork
            <4>1. w.token <= p.token /\ w.token \in Nat BY <1>5, <1>8
            <4> QED BY <1>1, <1>2, <4>1 DEF p
        <3>2. PaneOK(rest, i, q) BY <1>1, <1>1a, <3>1, FilledOK DEF q, new
        <3> QED BY <1>7, <2>1, <3>2
    <2>2. CASE j # i
        <3>1. after[j] = panes[j] /\ PaneOK(work, j, panes[j]) BY <1>6, <1>7, <2>2 DEF PanesInv
        <3>2. \A w \in rest : w.pane = j => w \in work BY <1>1a, <1>3, <2>2
        <3>3. \A w \in work : w \in rest BY <1>1a
        <3>4. PaneOK(rest, j, panes[j]) BY <3>1, <3>2, <3>3, OtherPane
        <3> QED BY <3>1, <3>4
    <2> QED BY <2>1, <2>2
<1> QED BY <1>1a, <1>2, <1>6, <1>9, <1>10, <1>11 DEF PanesInv

LEMMA FreshDoes == FreshPane \in Pane /\ FreshPane.token = 0 /\ FreshPane.file = NoFile /\ ~FreshPane.img /\ FreshPane.body = <<>>
<1>1. <<>> \in Seq(Drawn) OBVIOUS
<1> QED BY <1>1 DEF FreshPane, Pane

(* Panes that were just built, with the files that were in the old ones. *)
Panes(n, full, file) == [i \in 1 .. n |-> IF i \in full THEN Filled(FreshPane, file[i]) ELSE FreshPane]
Works(full, file) == UNION {Renders(i, file[i], FreshPane.token + 1) : i \in full}

BuiltOK(n, panes, work) ==
    panes \in Seq(Pane) /\ DOMAIN panes = 1 .. n /\ work \in SUBSET RvWork /\ PanesInv(panes, work)

LEMMA BuiltPanes ==
    ASSUME NEW n \in {1, 2}, NEW full \in SUBSET (1 .. n), NEW file \in [full -> RvFile],
           NEW panes, panes = Panes(n, full, file), NEW work, work = Works(full, file)
    PROVE  BuiltOK(n, panes, work)
<1>0. /\ panes = [i \in 1 .. n |-> IF i \in full THEN Filled(FreshPane, file[i]) ELSE FreshPane]
      /\ work = UNION {Renders(i, file[i], FreshPane.token + 1) : i \in full}
    BY DEF Panes, Works
<1>1. FreshPane \in Pane /\ FreshPane.token = 0 /\ FreshPane.file = NoFile /\ ~FreshPane.img /\ FreshPane.body = <<>>
    BY FreshDoes
<1>2. \A i \in full : i \in Nat /\ file[i] \in RvFile OBVIOUS
<1>3. \A i \in full : /\ Filled(FreshPane, file[i]) \in Pane /\ Filled(FreshPane, file[i]).token = FreshPane.token + 1
                      /\ Renders(i, file[i], FreshPane.token + 1) \subseteq RvWork
    BY <1>1, <1>2, FilledDoes
<1>4. panes \in [1 .. n -> Pane] BY <1>0, <1>1, <1>3
<1>5. panes \in Seq(Pane) /\ DOMAIN panes = 1 .. n
    <2>1. n \in Nat OBVIOUS
    <2> QED BY <1>4, <2>1
<1>6. work \in SUBSET RvWork BY <1>0, <1>3
<1>7. \A w \in work : w.pane \in full /\ w \in Renders(w.pane, file[w.pane], FreshPane.token + 1)
    BY <1>0 DEF Renders
<1>8. \A i \in full : \A w \in Renders(i, file[i], FreshPane.token + 1) :
          w.token = FreshPane.token + 1 /\ w.page = 0 /\ RvKind[w.rel] # "other" /\ w.pane = i
    BY DEF Renders
<1>9. ASSUME NEW w \in work PROVE WorkOK(panes, w)
    <2>1. w.pane \in full /\ w.token = FreshPane.token + 1 /\ w.page = 0 /\ RvKind[w.rel] # "other" BY <1>7, <1>8
    <2>2. panes[w.pane].token = FreshPane.token + 1 BY <1>0, <1>3, <2>1
    <2>3. w.token <= panes[w.pane].token BY <1>1, <2>1, <2>2
    <2> QED BY <1>5, <2>1, <2>3, RvBounds DEF WorkOK
<1>10. \A w, v \in work : w.pane = v.pane /\ w.token = v.token => w = v
    <2>1. \A i \in full : \A w, v \in Renders(i, file[i], FreshPane.token + 1) : w = v BY DEF Renders
    <2> QED BY <1>7, <2>1
<1>11. ASSUME NEW i \in DOMAIN panes PROVE PaneOK(work, i, panes[i])
    <2>1. CASE i \in full
        <3>1. panes[i] = Filled(FreshPane, file[i]) BY <1>0, <2>1
        <3>2. \A w \in work : AtWork(work, i, Filled(FreshPane, file[i]), w) => w \in Renders(i, file[i], FreshPane.token + 1)
            BY <1>7 DEF AtWork
        <3>3. Renders(i, file[i], FreshPane.token + 1) \subseteq work BY <1>0, <2>1
        <3>4. PaneOK(work, i, Filled(FreshPane, file[i])) BY <1>1, <1>2, <2>1, <3>2, <3>3, FilledOK
        <3> QED BY <3>1, <3>4
    <2>2. CASE i \notin full
        <3>1. panes[i] = FreshPane BY <1>0, <1>5, <2>2
        <3>2. \A w \in work : w.pane # i BY <1>7, <2>2
        <3> QED BY <1>1, <3>1, <3>2 DEF PaneOK, AtWork
    <2> QED BY <2>1, <2>2
<1> QED BY <1>5, <1>6, <1>9, <1>10, <1>11 DEF PanesInv, BuiltOK

-----------------------------------------------------------------------------
(* The renders. *)

(* A render with an older token leaves, and nothing changes. *)
LEMMA GoneLeaves ==
    ASSUME NEW panes \in Seq(Pane), NEW work \in SUBSET RvWork, PanesInv(panes, work),
           NEW w \in work, panes[w.pane].token # w.token
    PROVE  PanesInv(panes, work \ {w})
<1> DEFINE rest == work \ {w}
<1>1. /\ \A v \in rest : WorkOK(panes, v)
      /\ \A v, x \in rest : v.pane = x.pane /\ v.token = x.token => v = x
    BY DEF PanesInv
<1>2. ASSUME NEW i \in DOMAIN panes PROVE PaneOK(rest, i, panes[i])
    <2>1. PaneOK(work, i, panes[i]) BY DEF PanesInv
    <2>2. \A v \in rest : v \in work OBVIOUS
    <2>3. \A v \in work : v.pane = i /\ v.token = panes[i].token => v \in rest OBVIOUS
    <2> HIDE DEF rest
    <2> QED BY <2>1, <2>2, <2>3, OtherPane
<1> HIDE DEF rest
<1>3. PanesInv(panes, rest) BY <1>1, <1>2 DEF PanesInv
<1> QED BY <1>3 DEF rest

(* A render that has drawn more, and goes on or is over: "next" is what is   *)
(* left of it.                                                             *)
RenderStep(panes, work, w, q, next, after, rest) ==
    /\ panes \in Seq(Pane) /\ work \in SUBSET RvWork /\ PanesInv(panes, work)
    /\ w \in work /\ panes[w.pane].token = w.token
    /\ q \in Pane /\ q.token = w.token /\ q.file = panes[w.pane].file
    /\ next \in SUBSET RvWork
    /\ \A v \in next : /\ v.pane = w.pane /\ v.token = w.token /\ v.rel = w.rel
                       /\ v.page <= RvPages /\ (v.page # 0 => RvKind[v.rel] = "pdf") /\ Begun(q, v)
                       /\ ~q.img
    /\ \A v, x \in next : v = x
    /\ next = {} => Over(q)
    /\ after = [panes EXCEPT ![w.pane] = q]
    /\ rest = (work \ {w}) \cup next

LEMMA RenderGoesOn ==
    ASSUME NEW panes, NEW work, NEW w, NEW q, NEW next, NEW after, NEW rest,
           RenderStep(panes, work, w, q, next, after, rest)
    PROVE  after \in Seq(Pane) /\ DOMAIN after = DOMAIN panes /\ rest \in SUBSET RvWork /\ PanesInv(after, rest)
<1> SUFFICES ASSUME panes \in Seq(Pane), work \in SUBSET RvWork, PanesInv(panes, work),
                    w \in work, panes[w.pane].token = w.token,
                    q \in Pane, q.token = w.token, q.file = panes[w.pane].file,
                    next \in SUBSET RvWork,
                    \A v \in next : /\ v.pane = w.pane /\ v.token = w.token /\ v.rel = w.rel
                                    /\ v.page <= RvPages /\ (v.page # 0 => RvKind[v.rel] = "pdf") /\ Begun(q, v)
                                    /\ ~q.img,
                    \A v, x \in next : v = x,
                    next = {} => Over(q),
                    after = [panes EXCEPT ![w.pane] = q],
                    rest = (work \ {w}) \cup next
             PROVE  after \in Seq(Pane) /\ DOMAIN after = DOMAIN panes /\ rest \in SUBSET RvWork /\ PanesInv(after, rest)
    BY DEF RenderStep
<1> DEFINE i == w.pane
<1>1. i \in DOMAIN panes /\ RvKind[w.rel] # "other" /\ WorkOK(panes, w) BY DEF PanesInv, WorkOK
<1>2. after \in Seq(Pane) /\ DOMAIN after = DOMAIN panes BY <1>1
<1>3. after[i] = q /\ \A j \in DOMAIN panes : j # i => after[j] = panes[j] BY <1>1
<1>4. \A v \in work : WorkOK(panes, v) BY DEF PanesInv
<1>5. \A v \in work : v.pane = i /\ v.token = w.token => v = w BY DEF PanesInv
<1>6. w.token \in Nat BY DEF RvWork
<1>7. ASSUME NEW v \in rest PROVE WorkOK(after, v)
    <2>1. CASE v \in work
        <3>1. CASE v.pane = i BY <1>2, <1>3, <1>4, <2>1, <3>1 DEF WorkOK
        <3>2. CASE v.pane # i BY <1>2, <1>3, <1>4, <2>1, <3>2 DEF WorkOK
        <3> QED BY <3>1, <3>2
    <2>2. CASE v \in next
        <3>1. v.token <= after[v.pane].token BY <1>3, <1>6, <2>2
        <3> QED BY <1>1, <1>2, <2>2, <3>1 DEF WorkOK
    <2> QED BY <2>1, <2>2
<1>8. \A v, x \in rest : v.pane = x.pane /\ v.token = x.token => v = x
    <2>1. \A v, x \in work : v.pane = x.pane /\ v.token = x.token => v = x BY DEF PanesInv
    <2> QED BY <1>5, <2>1
<1>9. PaneOK(work, i, panes[i]) /\ AtWork(work, i, panes[i], w) BY <1>1 DEF PanesInv, AtWork
<1>10. panes[i].file # NoFile /\ w.rel = panes[i].file.rel
    BY <1>5, <1>9 DEF PaneOK, AtWork
<1>11. ASSUME NEW j \in DOMAIN after PROVE PaneOK(rest, j, after[j])
    <2>1. CASE j = i
        <3>1. CASE next = {}
            <4>1. \A v \in rest : ~AtWork(rest, i, q, v) BY <1>5, <3>1 DEF AtWork
            <4> QED BY <1>3, <1>10, <2>1, <3>1, <4>1 DEF PaneOK
        <3>2. CASE next # {}
            <4>1. PICK v \in next : TRUE BY <3>2
            <4>2. v \in rest /\ AtWork(rest, i, q, v) /\ v.rel = q.file.rel /\ Begun(q, v) /\ ~q.img
                BY <1>10, <4>1 DEF AtWork
            <4> QED BY <1>3, <1>10, <2>1, <4>2 DEF PaneOK
        <3> QED BY <3>1, <3>2
    <2>2. CASE j # i
        <3>1. after[j] = panes[j] /\ PaneOK(work, j, panes[j]) BY <1>2, <1>3, <2>2 DEF PanesInv
        <3>2. \A v \in rest : v.pane = j /\ v.token = panes[j].token => v \in work BY <2>2
        <3>3. \A v \in work : v.pane = j /\ v.token = panes[j].token => v \in rest BY <2>2
        <3>4. PaneOK(rest, j, panes[j]) BY <3>1, <3>2, <3>3, OtherPane
        <3> QED BY <3>1, <3>4
    <2> QED BY <2>1, <2>2
<1>12. rest \in SUBSET RvWork OBVIOUS
<1> QED BY <1>2, <1>7, <1>8, <1>11, <1>12 DEF PanesInv

(* What a render that is not out of date finds in its pane. *)
LEMMA RenderFinds ==
    ASSUME NEW panes \in Seq(Pane), NEW work \in SUBSET RvWork, PanesInv(panes, work),
           NEW w \in work, panes[w.pane].token = w.token
    PROVE  /\ w.pane \in DOMAIN panes /\ panes[w.pane] \in Pane /\ ~panes[w.pane].img
           /\ panes[w.pane].file.rel = w.rel /\ Begun(panes[w.pane], w)
           /\ w.page <= RvPages /\ (w.page # 0 => RvKind[w.rel] = "pdf") /\ RvKind[w.rel] # "other"
<1> DEFINE p == panes[w.pane]
<1>1. w.pane \in DOMAIN panes /\ WorkOK(panes, w) BY DEF PanesInv, WorkOK
<1>2. p \in Pane BY <1>1
<1>3. PaneOK(work, w.pane, p) /\ AtWork(work, w.pane, p, w) BY <1>1 DEF PanesInv, AtWork
<1>4. \A v \in work : AtWork(work, w.pane, p, v) => v = w BY DEF PanesInv, AtWork
<1>5. ~p.img /\ p.file.rel = w.rel /\ Begun(p, w) BY <1>3, <1>4 DEF PaneOK
<1> QED BY <1>1, <1>2, <1>5 DEF WorkOK

-----------------------------------------------------------------------------
(* The page's own handlers, which call each other. *)

(* What has to do with the list of files stays, and a file's notes are all   *)
(* that is asked for.                                                      *)
ForNotes(q) == q.kind = "notes" /\ q.note = NoNote /\ q.notes = {}
Follows(u, v) ==
    /\ v.lists = u.lists /\ v.raced = u.raced /\ v.clicks = u.clicks /\ v.shown \subseteq u.shown
    /\ \A q \in v.sent : q \in u.sent \/ ForNotes(q)
Opens(u, v) == Follows(u, v) /\ v.links = u.links

SameView(u, v) ==
    /\ v.panes = u.panes /\ v.focus = u.focus /\ v.tools = u.tools /\ v.work = u.work /\ v.shown = u.shown
    /\ v.hidden = u.hidden /\ v.msg = u.msg /\ v.painted = u.painted /\ v.loads = u.loads
    /\ v.lists = u.lists /\ v.links = u.links /\ v.raced = u.raced /\ v.clicks = u.clicks

(* What may be asked for. *)
Askable(kind, rel, note, status) ==
    /\ kind \in {"list", "notes", "add", "edit", "delete", "status"} /\ rel \in {""} \cup RvFiles
    /\ note \in RvNote \cup {NoNote} /\ status \in {""} \cup States
    /\ kind # "list" => rel \in RvFiles
    /\ kind \in Changing => note \in RvNote /\ note.of = rel
    /\ kind = "status" => status \in States

LEMMA RequestOK ==
    ASSUME NEW kind, NEW rel, NEW note, NEW status, NEW nr \in Nat, Askable(kind, rel, note, status)
    PROVE  /\ ReqOK(RvRequest(kind, rel, note, status, nr)) /\ RvRequest(kind, rel, note, status, nr).nr = nr
           /\ ~RvRequest(kind, rel, note, status, nr).done /\ RvRequest(kind, rel, note, status, nr).kind = kind
           /\ RvRequest(kind, rel, note, status, nr).note = note /\ RvRequest(kind, rel, note, status, nr).notes = {}
<1> DEFINE q == RvRequest(kind, rel, note, status, nr)
           list == [f \in RvFiles |-> "unreviewed"]
<1>1. list \in [RvFiles -> States] BY DEF States
<1>2. q = [kind |-> kind, rel |-> rel, note |-> note, status |-> status, nr |-> nr, done |-> FALSE, ok |-> TRUE,
           notes |-> {}, list |-> list]
    BY DEF RvRequest
<1> HIDE DEF q, list
<1>3. q \in RvReq BY <1>1, <1>2 DEF RvReq, Askable
<1>4. q.kind = kind /\ q.rel = rel /\ q.note = note /\ q.status = status /\ q.nr = nr /\ ~q.done /\ q.ok /\ q.notes = {}
    BY <1>2
<1>5. ReqOK(q) BY <1>3, <1>4 DEF ReqOK, Askable
<1> QED BY <1>4, <1>5 DEF q

Asked(u, v, reqs, kind, note) ==
    /\ Between(v, reqs) /\ SameView(u, v) /\ v.asked = u.asked + 1
    /\ \E q : v.sent = u.sent \cup {q} /\ q.kind = kind /\ q.note = note /\ q.notes = {} /\ ~q.done /\ q.nr = v.asked

LEMMA AsksDo ==
    ASSUME NEW u, NEW reqs, Between(u, reqs),
           NEW kind, NEW rel, NEW note, NEW status, Askable(kind, rel, note, status),
           NEW v, v = RvAsks(u, kind, rel, note, status)
    PROVE  Asked(u, v, reqs, kind, note)
<1> DEFINE nr == u.asked + 1
           q == RvRequest(kind, rel, note, status, nr)
<1>1. u \in RvPage /\ u.asked \in Nat /\ nr \in Nat /\ u.sent \subseteq RvReq
    <2>1. u \in RvPage BY DEF Between, Unfocused
    <2>2. u.asked \in Nat /\ u.sent \subseteq RvReq BY <2>1 DEF RvPage
    <2> QED BY <2>1, <2>2
<1>1a. nr = u.asked + 1 OBVIOUS
<1>3. v = [u EXCEPT !.sent = u.sent \cup {q}, !.asked = nr] BY <1>1 DEF RvAsks, RvPage
<1> HIDE DEF nr
<1>2. ReqOK(q) /\ q.nr = nr /\ ~q.done /\ q.kind = kind /\ q.note = note /\ q.notes = {} BY <1>1, RequestOK
<1> HIDE DEF q
<1>4. q \in RvReq BY <1>2 DEF ReqOK
<1>5. v \in RvPage /\ v.sent = u.sent \cup {q} /\ v.asked = nr /\ SameView(u, v)
    <2>1. u.sent \cup {q} \in SUBSET RvReq BY <1>1, <1>4
    <2> DEFINE sent == u.sent \cup {q}
    <2>2. v = [u EXCEPT !.sent = sent, !.asked = nr] BY <1>3
    <2>3. sent = u.sent \cup {q} OBVIOUS
    <2> HIDE DEF sent
    <2>4. v \in RvPage /\ v.sent = sent /\ v.asked = nr BY <1>1, <2>1, <2>2, <2>3 DEF RvPage
    <2>5. SameView(u, v) BY <1>1, <2>2 DEF RvPage, SameView
    <2> QED BY <2>3, <2>4, <2>5
<1>6. IsFiniteSet(v.sent)
    <2>1. IsFiniteSet(u.sent) BY DEF Between, Unfocused
    <2> QED BY <1>5, <2>1, FS_AddElement
<1>7. \A r \in reqs \cup v.sent : ReqOK(r) /\ r.nr <= v.asked
    <2> SUFFICES ASSUME NEW r \in reqs \cup v.sent PROVE ReqOK(r) /\ r.nr <= v.asked
        OBVIOUS
    <2>1. CASE r = q BY <1>1, <1>2, <1>5, <2>1
    <2>2. CASE r # q
        <3>1. ReqOK(r) /\ r.nr <= u.asked BY <1>5, <2>2 DEF Between, Unfocused
        <3>2. r.nr \in Nat BY <3>1 DEF ReqOK, RvReq
        <3> QED BY <1>1, <1>1a, <1>5, <3>1, <3>2
    <2> QED BY <2>1, <2>2
<1>8. Between(v, reqs) BY <1>2, <1>5, <1>6, <1>7 DEF Between, Unfocused, SameView
<1> QED BY <1>1a, <1>2, <1>5, <1>8 DEF Asked

(* The panel of notes is empty until the answer to its own load, or hidden. *)
NotesFresh(u, reqs) ==
    ~u.hidden => /\ u.shown = {} /\ u.loads # 0 /\ u.painted # u.loads
                 /\ \A r \in reqs : r.nr = u.loads => ~r.done

LEMMA FreshNotesOK ==
    ASSUME NEW u, NEW reqs, NEW s, NotesFresh(u, reqs)
    PROVE  NotesOK(u, reqs, s)
BY DEF NotesFresh, NotesOK

Ready(u, reqs) == Between(u, reqs) /\ ToolsOK(u) /\ NotesFresh(u, reqs \cup u.sent)

LEMMA LoadNotesDoes ==
    ASSUME NEW u, NEW reqs, Between(u, reqs), NEW rel \in RvFiles, NEW v, v = LoadNotes(u, rel)
    PROVE  /\ Between(v, reqs) /\ NotesFresh(v, reqs \cup v.sent) /\ Opens(u, v)
           /\ v.panes = u.panes /\ v.focus = u.focus /\ v.tools = u.tools /\ v.work = u.work
           /\ v.status = u.status /\ v.fresh = u.fresh
<1> DEFINE a == RvAsks(u, "notes", rel, NoNote, "")
<1>0. a = RvAsks(u, "notes", rel, NoNote, "") OBVIOUS
<1>2. v = [a EXCEPT !.hidden = FALSE, !.msg = FALSE, !.shown = {}, !.painted = 0, !.loads = a.asked] BY DEF LoadNotes
<1> HIDE DEF a
<1>1. /\ Between(a, reqs) /\ SameView(u, a) /\ a.asked = u.asked + 1
      /\ \E q : a.sent = u.sent \cup {q} /\ ForNotes(q) /\ ~q.done /\ q.nr = a.asked
    <2>1. Askable("notes", rel, NoNote, "") BY DEF Askable, Changing
    <2>2. Asked(u, a, reqs, "notes", NoNote) BY <1>0, <2>1, AsksDo
    <2> QED BY <2>2 DEF Asked, ForNotes
<1>3. PICK q : a.sent = u.sent \cup {q} /\ ForNotes(q) /\ ~q.done /\ q.nr = a.asked BY <1>1
<1>4. a \in RvPage /\ a.asked \in Nat /\ u.asked \in Nat BY <1>1 DEF Between, Unfocused, RvPage
<1>4a. a.status = u.status /\ a.fresh = u.fresh
    <2>1. u \in RvPage BY DEF Between, Unfocused
    <2> QED BY <1>0, <2>1 DEF RvAsks, RvPage
<1>5. /\ v \in RvPage /\ ~v.hidden /\ v.shown = {} /\ v.painted = 0 /\ v.loads = a.asked /\ v.asked = a.asked
      /\ v.sent = a.sent /\ v.panes = a.panes /\ v.focus = a.focus /\ v.tools = a.tools /\ v.work = a.work
      /\ v.lists = a.lists /\ v.links = a.links /\ v.raced = a.raced /\ v.clicks = a.clicks
      /\ v.status = a.status /\ v.fresh = a.fresh
    <2> DEFINE b == [a EXCEPT !.hidden = FALSE, !.msg = FALSE]
               c == [b EXCEPT !.shown = {}, !.painted = 0]
    <2>0. v = [c EXCEPT !.loads = a.asked] BY <1>2, <1>4 DEF RvPage
    <2>1. b \in RvPage BY <1>4 DEF RvPage
    <2> HIDE DEF b
    <2>1a. {} \in SUBSET RvNote /\ 0 \in Nat OBVIOUS
    <2>1b. c \in RvPage BY <2>1, <2>1a DEF RvPage
    <2> HIDE DEF c
    <2>2. v \in RvPage BY <1>4, <2>0, <2>1b DEF RvPage
    <2>3. ~v.hidden /\ v.shown = {} /\ v.painted = 0 /\ v.loads = a.asked BY <1>2, <1>4 DEF RvPage
    <2>4. /\ v.asked = a.asked
          /\ v.sent = a.sent /\ v.panes = a.panes /\ v.focus = a.focus /\ v.tools = a.tools /\ v.work = a.work
          /\ v.lists = a.lists /\ v.links = a.links /\ v.raced = a.raced /\ v.clicks = a.clicks
          /\ v.status = a.status /\ v.fresh = a.fresh
        BY <1>2, <1>4 DEF RvPage
    <2> QED BY <2>2, <2>3, <2>4
<1>6. Between(v, reqs) BY <1>1, <1>5 DEF Between, Unfocused
<1>7. v.loads # 0 /\ v.painted # v.loads BY <1>1, <1>4, <1>5
<1>8. ASSUME NEW r \in reqs \cup v.sent, r.nr = v.loads PROVE ~r.done
    <2>1. CASE r = q BY <1>3, <2>1
    <2>2. CASE r # q
        <3>1. r \in reqs \cup u.sent BY <1>3, <1>5, <2>2
        <3>2. ReqOK(r) /\ r.nr <= u.asked BY <3>1 DEF Between, Unfocused
        <3> QED BY <1>1, <1>4, <1>5, <1>8, <3>2
    <2> QED BY <2>1, <2>2
<1>9. NotesFresh(v, reqs \cup v.sent) BY <1>5, <1>7, <1>8 DEF NotesFresh
<1>10. Opens(u, v) BY <1>1, <1>3, <1>5 DEF Opens, Follows, SameView
<1> QED BY <1>1, <1>4a, <1>5, <1>6, <1>9, <1>10 DEF SameView

LEMMA SyncToolsDoes ==
    ASSUME NEW u, NEW reqs, Between(u, reqs), NEW v, v = SyncTools(u)
    PROVE  /\ Between(v, reqs) /\ ToolsOK(v) /\ Opens(u, v)
           /\ v.panes = u.panes /\ v.focus = u.focus /\ v.work = u.work /\ v.sent = u.sent /\ v.shown = u.shown
           /\ v.hidden = u.hidden /\ v.msg = u.msg /\ v.painted = u.painted /\ v.loads = u.loads
<1>1. u \in RvPage /\ u.panes[u.focus] \in Pane BY DEF Between, Unfocused, RvPage
<1>2. u.panes[u.focus].img \in BOOLEAN BY <1>1 DEF Pane
<1>3. v = [u EXCEPT !.tools = u.panes[u.focus].img] BY DEF SyncTools, Focused
<1>4. /\ v \in RvPage /\ v.tools = u.panes[u.focus].img /\ v.panes = u.panes /\ v.focus = u.focus /\ v.work = u.work
      /\ v.sent = u.sent /\ v.shown = u.shown /\ v.asked = u.asked
      /\ v.hidden = u.hidden /\ v.msg = u.msg /\ v.painted = u.painted /\ v.loads = u.loads
      /\ v.lists = u.lists /\ v.links = u.links /\ v.raced = u.raced /\ v.clicks = u.clicks
    BY <1>1, <1>2, <1>3 DEF RvPage
<1> QED BY <1>4 DEF Between, Unfocused, ToolsOK, Opens, Follows

(* A select that is up to date tells what the newest listing says of the    *)
(* file one looks at, and no change of a status is under way.               *)
Tells(u) ==
    u.fresh /\ CurrentRel(u) # "" =>
        /\ CurrentRel(u) \in RvFiles /\ u.lists # <<>> /\ u.status = u.lists[Len(u.lists)][CurrentRel(u)]
        /\ \A r \in rvReqs : r.kind # "status"

(* The select shows the status of the file in the focused pane.             *)
LEMMA ShowStatusDoes ==
    ASSUME NEW u, NEW reqs, Between(u, reqs), ToolsOK(u), NEW file \in RvFile, file = Focused(u).file,
           NEW v, v = ShowStatus(u, file)
    PROVE  /\ Between(v, reqs) /\ ToolsOK(v) /\ Opens(u, v) /\ Tells(v)
           /\ v.panes = u.panes /\ v.focus = u.focus /\ v.sent = u.sent
<1> DEFINE status == ObjectStatus(u, file)
           fresh == /\ file.list # 0 /\ file.list = Len(u.lists)
                    /\ \A r \in rvReqs : r.kind # "status"
<1>1. /\ u \in RvPage /\ u.focus \in DOMAIN u.panes /\ FilesListed(u.panes, u.lists)
      /\ u.lists \in Seq([RvFiles -> States]) /\ Len(u.lists) \in Nat
    BY DEF Between, Unfocused, RvPage
<1>2. file.list \in Nat /\ file.rel \in RvFiles /\ file.list <= Len(u.lists) BY <1>1 DEF RvFile, FilesListed, Focused
<1>3. status \in States
    <2>1. CASE file.list = 0 BY <2>1 DEF ObjectStatus, States
    <2>2. CASE file.list # 0
        <3>1. file.list \in DOMAIN u.lists BY <1>1, <1>2, <2>2
        <3>2. u.lists[file.list] \in [RvFiles -> States] BY <1>1, <3>1
        <3> QED BY <1>2, <2>2, <3>2 DEF ObjectStatus
    <2> QED BY <2>1, <2>2
<1>4. v = [u EXCEPT !.status = status, !.fresh = fresh] BY DEF ShowStatus
<1>5. fresh \in BOOLEAN OBVIOUS
<1>6. fresh => /\ file.list # 0 /\ file.list = Len(u.lists) /\ status = u.lists[file.list][file.rel]
               /\ \A r \in rvReqs : r.kind # "status"
    BY DEF ObjectStatus
<1> HIDE DEF status, fresh
<1>7. /\ v \in RvPage /\ v.status = status /\ v.fresh = fresh /\ v.panes = u.panes /\ v.focus = u.focus
      /\ v.work = u.work /\ v.sent = u.sent /\ v.asked = u.asked /\ v.tools = u.tools /\ v.shown = u.shown
      /\ v.lists = u.lists /\ v.links = u.links /\ v.raced = u.raced /\ v.clicks = u.clicks
    BY <1>1, <1>3, <1>4, <1>5 DEF RvPage
<1>8. Tells(v)
    <2> SUFFICES ASSUME v.fresh, CurrentRel(v) # ""
                 PROVE  /\ CurrentRel(v) \in RvFiles /\ v.lists # <<>>
                        /\ v.status = v.lists[Len(v.lists)][CurrentRel(v)]
                        /\ \A r \in rvReqs : r.kind # "status"
        BY DEF Tells
    <2>1. CurrentRel(v) = file.rel BY <1>7 DEF CurrentRel, Focused
    <2>2. v.lists # <<>>
        <3>1. Len(u.lists) # 0 BY <1>6, <1>7
        <3>2. Len(<<>>) = 0 OBVIOUS
        <3> QED BY <1>7, <3>1, <3>2
    <2>3. fresh BY <1>7
    <2>4. file.list = Len(u.lists) /\ status = u.lists[file.list][file.rel] /\ \A r \in rvReqs : r.kind # "status"
        BY <1>6, <2>3
    <2>5. v.status = v.lists[Len(v.lists)][CurrentRel(v)] BY <1>7, <2>1, <2>4
    <2> QED BY <1>2, <2>1, <2>2, <2>4, <2>5
<1> QED BY <1>7, <1>8 DEF Between, Unfocused, ToolsOK, Opens, Follows

LEMMA FocusPaneDoes ==
    ASSUME NEW u, NEW reqs, Unfocused(u, reqs), NEW i \in DOMAIN u.panes, NEW v, v = FocusPane(u, i)
    PROVE  Ready(v, reqs) /\ Opens(u, v) /\ v.panes = u.panes /\ v.focus = i /\ Tells(v)
<1> DEFINE a == [u EXCEPT !.focus = i]
           b == SyncTools(a)
           file == Focused(b).file
<1>1. u \in RvPage /\ i \in Nat
    <2>1. u \in RvPage /\ u.panes \in Seq(Pane) BY DEF Between, Unfocused, RvPage
    <2> QED BY <2>1
<1>2. /\ a \in RvPage /\ a.focus = i /\ a.shown = u.shown /\ a.panes = u.panes /\ a.work = u.work /\ a.sent = u.sent /\ a.asked = u.asked
      /\ a.lists = u.lists /\ a.links = u.links /\ a.raced = u.raced /\ a.clicks = u.clicks
    BY <1>1 DEF RvPage
<1>3. v = IF file = NoFile THEN [b EXCEPT !.hidden = TRUE] ELSE LoadNotes(ShowStatus(b, file), file.rel) BY DEF FocusPane
<1> HIDE DEF a
<1>4. Between(a, reqs) BY <1>2 DEF Between, Unfocused
<1>5. /\ Between(b, reqs) /\ ToolsOK(b) /\ Opens(a, b) /\ b.panes = a.panes /\ b.focus = a.focus /\ b.shown = u.shown
    BY <1>2, <1>4, SyncToolsDoes
<1>5a. Follows(u, b) BY <1>2, <1>5 DEF Opens, Follows
<1> HIDE DEF b
<1>6. b \in RvPage /\ b.panes[b.focus] \in Pane
    <2>1. b \in RvPage /\ b.focus \in DOMAIN b.panes BY <1>5 DEF Between, Unfocused
    <2>2. b.panes \in Seq(Pane) BY <2>1 DEF RvPage
    <2> QED BY <2>1, <2>2
<1>7. CASE file = NoFile
    <2>1. v = [b EXCEPT !.hidden = TRUE] BY <1>3, <1>7
    <2>2. /\ v \in RvPage /\ v.hidden /\ v.panes = b.panes /\ v.focus = b.focus /\ v.work = b.work /\ v.sent = b.sent
          /\ v.asked = b.asked /\ v.tools = b.tools /\ v.shown = b.shown
          /\ v.lists = b.lists /\ v.links = b.links /\ v.raced = b.raced /\ v.clicks = b.clicks
        BY <1>6, <2>1 DEF RvPage
    <2>3. Between(v, reqs) BY <1>5, <2>2 DEF Between, Unfocused
    <2>4. NotesFresh(v, reqs \cup v.sent) BY <2>2 DEF NotesFresh
    <2>5. Follows(u, v) BY <1>5a, <2>2 DEF Follows
    <2>6. Tells(v)
        <3>1. file = b.panes[b.focus].file BY DEF Focused
        <3>2. CurrentRel(v) = b.panes[b.focus].file.rel BY <2>2 DEF CurrentRel, Focused
        <3>3. NoFile.rel = "" BY DEF NoFile
        <3> HIDE DEF file
        <3>4. CurrentRel(v) = "" BY <1>7, <3>1, <3>2, <3>3
        <3> QED BY <3>4 DEF Tells
    <2> QED BY <1>2, <1>5, <2>2, <2>3, <2>4, <2>5, <2>6 DEF Ready, ToolsOK, Opens
<1>8. CASE file # NoFile
    <2> DEFINE c == ShowStatus(b, file)
    <2>1. v = LoadNotes(c, file.rel) BY <1>3, <1>8
    <2>2. file \in RvFile /\ file.rel \in RvFiles BY <1>6, <1>8 DEF Pane, RvFile, Focused
    <2>2a. /\ Between(c, reqs) /\ ToolsOK(c) /\ Opens(b, c) /\ Tells(c)
           /\ c.panes = b.panes /\ c.focus = b.focus
        BY <1>5, <2>2, ShowStatusDoes
    <2> HIDE DEF c
    <2>3. /\ Between(v, reqs) /\ NotesFresh(v, reqs \cup v.sent) /\ Opens(c, v)
          /\ v.panes = c.panes /\ v.focus = c.focus /\ v.tools = c.tools
          /\ v.status = c.status /\ v.fresh = c.fresh
        BY <2>1, <2>2, <2>2a, LoadNotesDoes
    <2>4. Follows(u, v) BY <1>5a, <2>2a, <2>3 DEF Opens, Follows
    <2>5. Tells(v) BY <2>2a, <2>3 DEF Tells, CurrentRel, Focused, Opens, Follows
    <2> QED BY <1>2, <1>5, <2>2a, <2>3, <2>4, <2>5 DEF Ready, ToolsOK, Opens
<1> QED BY <1>7, <1>8

LEMMA OpenFileDoes ==
    ASSUME NEW u, NEW reqs, Between(u, reqs), NEW file \in RvFile, file.list <= Len(u.lists),
           NEW v, v = OpenFile(u, file)
    PROVE  Ready(v, reqs) /\ Opens(u, v) /\ DOMAIN v.panes = DOMAIN u.panes /\ Tells(v)
<1> DEFINE i == u.focus
           a == RenderInto(u, i, file)
           b == SyncTools(a)
           panes == [u.panes EXCEPT ![i] = Filled(u.panes[i], file)]
           work == u.work \cup Renders(i, file, u.panes[i].token + 1)
<1>1. u \in RvPage /\ u.panes \in Seq(Pane) /\ u.work \in SUBSET RvWork /\ i \in DOMAIN u.panes /\ PanesInv(u.panes, u.work)
    BY DEF Between, Unfocused, RvPage
<1>2. a = [u EXCEPT !.panes = panes, !.work = work] BY <1>1 DEF RenderInto, RvPage
<1>3. panes \in Seq(Pane) /\ DOMAIN panes = DOMAIN u.panes /\ work \in SUBSET RvWork /\ PanesInv(panes, work)
    BY <1>1, FilledPanes
<1>3a. \A j \in DOMAIN u.panes : panes[j].file \in {u.panes[j].file, file} BY <1>1 DEF Filled
<1>3b. FilesListed(panes, u.lists)
    <2>1. FilesListed(u.panes, u.lists) BY DEF Between, Unfocused
    <2> QED BY <1>3, <1>3a, <2>1 DEF FilesListed
<1>3c. panes[i].file = file BY <1>1 DEF Filled
<1>4. v = LoadNotes(ShowStatus(b, file), file.rel) /\ file.rel \in RvFiles BY DEF OpenFile, RvFile
<1> HIDE DEF a, panes, work
<1>5. /\ a \in RvPage /\ a.panes = panes /\ a.work = work /\ a.focus = u.focus /\ a.sent = u.sent /\ a.asked = u.asked
      /\ a.lists = u.lists /\ a.links = u.links /\ a.raced = u.raced /\ a.clicks = u.clicks /\ a.shown = u.shown
    BY <1>1, <1>2, <1>3 DEF RvPage
<1>5a. Opens(u, a) BY <1>3, <1>3a, <1>5 DEF Opens, Follows
<1>6. Between(a, reqs) BY <1>1, <1>3, <1>3b, <1>5 DEF Between, Unfocused
<1>7. Between(b, reqs) /\ ToolsOK(b) /\ Opens(a, b) /\ b.panes = a.panes /\ b.focus = a.focus
    BY <1>6, SyncToolsDoes
<1> HIDE DEF b
<1> DEFINE c == ShowStatus(b, file)
<1>7a. file = Focused(b).file BY <1>3c, <1>5, <1>7 DEF Focused
<1>7b. /\ Between(c, reqs) /\ ToolsOK(c) /\ Opens(b, c) /\ Tells(c)
       /\ c.panes = b.panes /\ c.focus = b.focus
    BY <1>7, <1>7a, ShowStatusDoes
<1>7c. v = LoadNotes(c, file.rel) BY <1>4
<1> HIDE DEF c
<1>8. /\ Between(v, reqs) /\ NotesFresh(v, reqs \cup v.sent) /\ Opens(c, v)
      /\ v.panes = c.panes /\ v.focus = c.focus /\ v.tools = c.tools
      /\ v.status = c.status /\ v.fresh = c.fresh
    BY <1>4, <1>7b, <1>7c, LoadNotesDoes
<1>9. Opens(u, v) BY <1>5a, <1>7, <1>7b, <1>8 DEF Opens, Follows
<1>10. Tells(v) BY <1>7b, <1>8 DEF Tells, CurrentRel, Focused, Opens, Follows
<1> QED BY <1>3, <1>5, <1>7, <1>7b, <1>8, <1>9, <1>10 DEF Ready, ToolsOK

LEMMA BuildPanesDoes ==
    ASSUME NEW u, NEW reqs, Between(u, reqs), NEW n \in {1, 2}, NEW v, v = BuildPanes(u, n)
    PROVE  Ready(v, reqs) /\ Opens(u, v) /\ DOMAIN v.panes = 1 .. n /\ Tells(v)
<1> DEFINE full == {i \in 1 .. n : i \in DOMAIN u.panes /\ u.panes[i].file # NoFile}
           file == [i \in full |-> u.panes[i].file]
           panes == [i \in 1 .. n |-> IF i \in full THEN Filled(FreshPane, u.panes[i].file) ELSE FreshPane]
           work == UNION {Renders(i, u.panes[i].file, FreshPane.token + 1) : i \in full}
           a == [u EXCEPT !.panes = panes, !.work = work]
           focus == IF u.focus <= n THEN u.focus ELSE n
<1>1. u \in RvPage /\ u.panes \in Seq(Pane) /\ u.focus \in DOMAIN u.panes BY DEF Between, Unfocused, RvPage
<1>2. file \in [full -> RvFile]
    <2>1. \A i \in full : u.panes[i] \in Pane /\ u.panes[i].file # NoFile BY <1>1
    <2>2. \A i \in full : u.panes[i].file \in RvFile BY <2>1 DEF Pane
    <2> QED BY <2>2
<1>3. panes = Panes(n, full, file) BY DEF Panes
<1>4. work = Works(full, file) BY DEF Works
<1>5. full \in SUBSET (1 .. n) OBVIOUS
<1>5a. \A i \in 1 .. n : panes[i].file = NoFile \/ (i \in DOMAIN u.panes /\ panes[i].file = u.panes[i].file)
    BY DEF Filled, FreshPane
<1>6. v = FocusPane(a, focus) BY DEF BuildPanes
<1> HIDE DEF full, file, panes, work
<1>7. panes \in Seq(Pane) /\ DOMAIN panes = 1 .. n /\ work \in SUBSET RvWork /\ PanesInv(panes, work)
    <2>1. BuiltOK(n, panes, work) BY <1>2, <1>3, <1>4, <1>5, BuiltPanes
    <2> QED BY <2>1 DEF BuiltOK
<1>8. /\ a \in RvPage /\ a.panes = panes /\ a.work = work /\ a.focus = u.focus /\ a.sent = u.sent /\ a.asked = u.asked
      /\ a.lists = u.lists /\ a.links = u.links /\ a.raced = u.raced /\ a.clicks = u.clicks /\ a.shown = u.shown
    BY <1>1, <1>7 DEF RvPage
<1>8a. Opens(u, a) BY <1>8 DEF Opens, Follows
<1>8b. FilesListed(panes, u.lists)
    <2>1. NoFile.list = 0 /\ Len(u.lists) \in Nat BY <1>1 DEF NoFile, RvPage
    <2>2. NoFile.list <= Len(u.lists) BY <2>1
    <2>3. FilesListed(u.panes, u.lists) BY DEF Between, Unfocused
    <2> QED BY <1>5a, <1>7, <2>2, <2>3 DEF FilesListed
<1>9. focus \in 1 .. n
    <2>1. u.focus \in Nat /\ u.focus >= 1 BY <1>1
    <2> QED BY <2>1
<1>10. Unfocused(a, reqs)
    <2> HIDE DEF a
    <2> QED BY <1>7, <1>8, <1>8b DEF Between, Unfocused
<1> HIDE DEF a, focus
<1>11. Ready(v, reqs) /\ Opens(a, v) /\ v.panes = a.panes /\ Tells(v) BY <1>6, <1>7, <1>8, <1>9, <1>10, FocusPaneDoes
<1> QED BY <1>7, <1>8, <1>8a, <1>11 DEF Opens, Follows

(* The deep links. *)
LEMMA OpenLinkDoes ==
    ASSUME NEW u, NEW reqs, Between(u, reqs), NEW i, i \in DOMAIN u.panes \/ i \notin DOMAIN u.links,
           NEW v, v = OpenLink(u, i)
    PROVE  Between(v, reqs) /\ Opens(u, v) /\ DOMAIN v.panes = DOMAIN u.panes
<1>1. CASE i \notin DOMAIN u.links
    <2>1. v = u BY <1>1 DEF OpenLink
    <2> QED BY <2>1 DEF Opens, Follows
<1>2. CASE i \in DOMAIN u.links
    <2> DEFINE a == FocusPane(u, i)
               file == Newest(a, u.links[i])
    <2>1. v = OpenFile(a, Newest(u, u.links[i])) BY <1>2 DEF OpenLink
    <2>2. a = FocusPane(u, i) OBVIOUS
    <2> HIDE DEF a
    <2>3. Unfocused(u, reqs) /\ i \in DOMAIN u.panes BY <1>2 DEF Between
    <2>4. Ready(a, reqs) /\ Opens(u, a) /\ a.panes = u.panes BY <2>2, <2>3, FocusPaneDoes
    <2>5. file \in RvFile /\ Newest(u, u.links[i]) = file /\ file.list <= Len(a.lists)
        <3>1. u \in RvPage BY <2>3 DEF Unfocused
        <3>2. u.links[i] \in RvFiles /\ Len(u.lists) \in Nat BY <1>2, <3>1 DEF RvPage
        <3> QED BY <2>4, <3>2 DEF Newest, RvFile, Opens, Follows
    <2> HIDE DEF file
    <2>6. Between(a, reqs) BY <2>4 DEF Ready
    <2>7. v = OpenFile(a, file) BY <2>1, <2>5
    <2>8. Ready(v, reqs) /\ Opens(a, v) /\ DOMAIN v.panes = DOMAIN a.panes BY <2>5, <2>6, <2>7, OpenFileDoes
    <2> QED BY <2>4, <2>8 DEF Ready, Opens, Follows
<1> QED BY <1>1, <1>2

LEMMA DeepLinksDoes ==
    ASSUME NEW u, NEW reqs, Between(u, reqs), Len(u.links) <= 2, NEW v, v = DeepLinks(u)
    PROVE  \/ v = u
           \/ Ready(v, reqs) /\ Follows(u, v) /\ v.links = <<>> /\ Tells(v)
<1> SUFFICES ASSUME u.links # <<>>
             PROVE  Ready(v, reqs) /\ Follows(u, v) /\ v.links = <<>> /\ Tells(v)
    BY DEF DeepLinks
<1> DEFINE a == IF Len(u.links) = 2 THEN BuildPanes(u, 2) ELSE u
           b == OpenLink(a, 1)
           c == OpenLink(b, 2)
           d == FocusPane(c, 1)
<1>1. u.links \in Seq(RvFiles) /\ u.panes \in Seq(Pane) /\ u.focus \in DOMAIN u.panes BY DEF Between, Unfocused, RvPage
<1>2. 1 \in DOMAIN u.panes
    <2>1. DOMAIN u.panes = 1 .. Len(u.panes) /\ Len(u.panes) \in Nat BY <1>1
    <2> QED BY <1>1, <2>1
<1>3. Len(u.links) \in {1, 2}
    <2>1. Len(u.links) \in Nat /\ Len(u.links) # 0 BY <1>1
    <2>2. \A n \in Nat : n # 0 /\ n <= 2 => n \in {1, 2} OBVIOUS
    <2> QED BY <2>1, <2>2
<1>4. Between(a, reqs) /\ Opens(u, a) /\ 1 \in DOMAIN a.panes /\ (2 \in DOMAIN a.panes \/ 2 \notin DOMAIN a.links)
    <2>1. CASE Len(u.links) = 2
        <3>1. a = BuildPanes(u, 2) BY <2>1
        <3> HIDE DEF a
        <3>2. Ready(a, reqs) /\ Opens(u, a) /\ DOMAIN a.panes = 1 .. 2 BY <3>1, BuildPanesDoes
        <3> QED BY <3>2 DEF Ready
    <2>2. CASE Len(u.links) = 1
        <3>1. a = u BY <2>2
        <3> HIDE DEF a
        <3>2. 2 \notin DOMAIN u.links BY <1>1, <2>2
        <3> QED BY <1>2, <3>1, <3>2 DEF Opens, Follows
    <2> QED BY <1>3, <2>1, <2>2
<1>5. b = OpenLink(a, 1) /\ c = OpenLink(b, 2) /\ d = FocusPane(c, 1) OBVIOUS
<1>6. v = [d EXCEPT !.links = <<>>] BY DEF DeepLinks
<1> HIDE DEF a, b, c, d
<1>7. Between(b, reqs) /\ Opens(a, b) /\ DOMAIN b.panes = DOMAIN a.panes BY <1>4, <1>5, OpenLinkDoes
<1>8. 2 \in DOMAIN b.panes \/ 2 \notin DOMAIN b.links BY <1>4, <1>7 DEF Opens
<1>9. Between(c, reqs) /\ Opens(b, c) /\ DOMAIN c.panes = DOMAIN b.panes BY <1>5, <1>7, <1>8, OpenLinkDoes
<1>10. Unfocused(c, reqs) /\ 1 \in DOMAIN c.panes BY <1>4, <1>7, <1>9 DEF Between
<1>11. Ready(d, reqs) /\ Opens(c, d) /\ Tells(d) BY <1>5, <1>10, FocusPaneDoes
<1>12. d \in RvPage /\ <<>> \in Seq(RvFiles) BY <1>11 DEF Ready, Between, Unfocused
<1>13. /\ v \in RvPage /\ v.links = <<>> /\ v.sent = d.sent /\ v.asked = d.asked /\ v.panes = d.panes /\ v.work = d.work
       /\ v.focus = d.focus /\ v.tools = d.tools /\ v.shown = d.shown /\ v.hidden = d.hidden /\ v.painted = d.painted
       /\ v.loads = d.loads /\ v.lists = d.lists /\ v.raced = d.raced /\ v.clicks = d.clicks
       /\ v.status = d.status /\ v.fresh = d.fresh
    BY <1>6, <1>12 DEF RvPage
<1>14. Ready(v, reqs) BY <1>11, <1>13 DEF Ready, Between, Unfocused, ToolsOK, NotesFresh
<1>15. Follows(u, d) BY <1>4, <1>7, <1>9, <1>11 DEF Opens, Follows
<1>16. Follows(u, v) BY <1>13, <1>15 DEF Follows
<1>17. Tells(v) BY <1>11, <1>13 DEF Tells, CurrentRel, Focused
<1> QED BY <1>13, <1>14, <1>16, <1>17

-----------------------------------------------------------------------------
(* What a handler leaves. *)

LEMMA ReadyDone == ASSUME NEW u, NEW reqs, NEW s, Ready(u, reqs) PROVE Done(u, reqs, s)
BY FreshNotesOK DEF Ready, Done

LEMMA DotsKept ==
    ASSUME NEW u, NEW reqs, NEW s, Dots(u, reqs, s), NEW v, v.lists = u.lists, NEW after,
           \A q \in after : Racing(q) /\ q.done => q \in reqs,
           \A q \in reqs : q.kind = "status" /\ q.done => q \in after
    PROVE  Dots(v, after, s)
<1>1. \A r \in after : r.kind = "list" /\ r.done => r.list = StatusesOf(s) BY DEF Dots, Racing
<1>2. ASSUME v.lists # <<>>
      PROVE  /\ (\A r \in after : ~(r.kind = "status" /\ r.done)) => v.lists[Len(v.lists)] = StatusesOf(s)
             /\ \A r \in after : r.kind = "status" /\ r.done =>
                    [v.lists[Len(v.lists)] EXCEPT ![r.rel] = r.status] = StatusesOf(s)
    BY <1>2 DEF Dots, Racing
<1> QED BY <1>1, <1>2 DEF Dots

LEMMA SingleOf ==
    ASSUME NEW reqs, IsFiniteSet(reqs), ~(Cardinality({r \in reqs : r.kind \in {"list", "status"}}) > 1)
    PROVE  Single(reqs)
<1> DEFINE S == {r \in reqs : r.kind \in {"list", "status"}}
<1>1. IsFiniteSet(S) BY FS_Subset
<1>2. Cardinality(S) \in Nat BY <1>1, FS_CardinalityType
<1>3. S = {} \/ \E x : S = {x}
    <2>1. Cardinality(S) = 0 \/ Cardinality(S) = 1
        <3>1. ~(Cardinality(S) > 1) OBVIOUS
        <3> HIDE DEF S
        <3> QED BY <1>2, <3>1
    <2> HIDE DEF S
    <2> QED BY <1>1, <2>1, FS_EmptySet, FS_Singleton
<1> QED BY <1>3 DEF Single, Racing

LEMMA BecomesDoes ==
    ASSUME NEW u, NEW reqs, IsFiniteSet(reqs), Done(u, reqs, rvStore), Len(u.links) <= 2, RvStored(rvStore),
           ~u.raced => Dots(u, reqs \cup u.sent, rvStore), Becomes(u, reqs), UNCHANGED rvStore
    PROVE  RvInv'
<1> DEFINE all == reqs \cup u.sent
           races == Cardinality({r \in all : r.kind \in {"list", "status"}}) > 1
           raced == u.raced \/ races
<1>1. rv' = [u EXCEPT !.sent = {}, !.raced = @ \/ races] /\ rvReqs' = all BY DEF Becomes
<1>2. u \in RvPage /\ IsFiniteSet(all)
    <2>1. u \in RvPage /\ IsFiniteSet(u.sent) BY DEF Done, Between, Unfocused
    <2> QED BY <2>1, FS_Union
<1>3. ~races => Single(all) BY <1>2, SingleOf
<1>3a. races \in BOOLEAN OBVIOUS
<1> HIDE DEF races
<1>4. raced \in BOOLEAN /\ (~raced => ~u.raced /\ ~races) BY <1>2, <1>3a DEF RvPage
<1>5. rv' = [u EXCEPT !.sent = {}, !.raced = raced] BY <1>1, <1>2 DEF RvPage
<1>6. all = reqs \cup u.sent OBVIOUS
<1> HIDE DEF all, raced
<1>7. /\ rv' \in RvPage /\ rv'.sent = {} /\ rv'.raced = raced /\ rv'.links = u.links /\ rv'.asked = u.asked /\ rv'.panes = u.panes
      /\ rv'.work = u.work /\ rv'.msg = u.msg
      /\ rv'.focus = u.focus /\ rv'.tools = u.tools /\ rv'.shown = u.shown /\ rv'.hidden = u.hidden /\ rv'.painted = u.painted
      /\ rv'.loads = u.loads /\ rv'.lists = u.lists
    <2>1. {} \in SUBSET RvReq OBVIOUS
    <2>2. rv' \in RvPage BY <1>2, <1>4, <1>5, <2>1 DEF RvPage
    <2> QED BY <1>2, <1>5, <2>2 DEF RvPage
<1>8. Between(rv', all) /\ ToolsOK(rv')
    BY <1>6, <1>7, FS_EmptySet DEF Done, Between, Unfocused, ToolsOK
<1>9. NotesOK(rv', all, rvStore) BY <1>6, <1>7 DEF Done, NotesOK, CurrentRel, Focused
<1>10. Done(rv', all, rvStore)
    <2>1. all \cup rv'.sent = all BY <1>7
    <2> QED BY <1>8, <1>9, <2>1 DEF Done
<1>11. ~raced => Single(all) /\ Dots(rv', all, rvStore) BY <1>3, <1>4, <1>6, <1>7 DEF Dots
<1> QED BY <1>1, <1>2, <1>7, <1>10, <1>11, <1>6 DEF RvInv

-----------------------------------------------------------------------------
(* The clicks. *)

LEMMA RvHas ==
    ASSUME RvInv
    PROVE  /\ rv \in RvPage /\ Between(rv, rvReqs) /\ Unfocused(rv, rvReqs) /\ ToolsOK(rv) /\ NotesOK(rv, rvReqs, rvStore)
           /\ rv.sent = {} /\ IsFiniteSet(rvReqs) /\ RvStored(rvStore) /\ Len(rv.links) <= 2
           /\ \A r \in rvReqs : ReqOK(r)
<1>1. rvReqs \cup rv.sent = rvReqs BY DEF RvInv
<1> QED BY <1>1 DEF RvInv, Done, Between, Unfocused

(* A handler that asks for what no answer has come to yet. *)
LEMMA UserDoes ==
    ASSUME RvInv, NEW u, Done(u, rvReqs, rvStore), u.lists = rv.lists, u.links = rv.links, u.raced = rv.raced, User(u)
    PROVE  RvInv'
<1> DEFINE v == [u EXCEPT !.clicks = @ + 1]
<1>1. Becomes(v, rvReqs) /\ UNCHANGED rvStore BY DEF User
<1>2. u \in RvPage /\ u.clicks + 1 \in Nat
    <2>1. u \in RvPage BY DEF Done, Between, Unfocused
    <2> QED BY <2>1 DEF RvPage
<1>3. v = [u EXCEPT !.clicks = u.clicks + 1] BY <1>2 DEF RvPage
<1> HIDE DEF v
<1>4. /\ v \in RvPage /\ v.sent = u.sent /\ v.raced = u.raced /\ v.links = u.links /\ v.asked = u.asked /\ v.panes = u.panes
      /\ v.work = u.work /\ v.msg = u.msg
      /\ v.focus = u.focus /\ v.tools = u.tools /\ v.shown = u.shown /\ v.hidden = u.hidden /\ v.painted = u.painted
      /\ v.loads = u.loads /\ v.lists = u.lists
    <2>1. v \in RvPage BY <1>2, <1>3 DEF RvPage
    <2> QED BY <1>2, <1>3, <2>1 DEF RvPage
<1>5. Done(v, rvReqs, rvStore)
    <2>1. Between(v, rvReqs) /\ ToolsOK(v) BY <1>4 DEF Done, Between, Unfocused, ToolsOK
    <2>2. NotesOK(v, rvReqs \cup v.sent, rvStore) BY <1>4 DEF Done, NotesOK, CurrentRel, Focused
    <2> QED BY <2>1, <2>2 DEF Done
<1>6. ~v.raced => Dots(v, rvReqs \cup v.sent, rvStore)
    <2> SUFFICES ASSUME ~v.raced PROVE Dots(v, rvReqs \cup v.sent, rvStore)
        OBVIOUS
    <2> DEFINE after == rvReqs \cup v.sent
    <2>1. Dots(rv, rvReqs, rvStore) /\ v.lists = rv.lists BY <1>4 DEF RvInv
    <2>2. \A q \in after : Racing(q) /\ q.done => q \in rvReqs BY <1>4 DEF Done, Between, Unfocused
    <2>3. \A q \in rvReqs : q.kind = "status" /\ q.done => q \in after OBVIOUS
    <2> HIDE DEF after
    <2>4. Dots(v, after, rvStore) BY <2>1, <2>2, <2>3, DotsKept
    <2> QED BY <2>4 DEF after
<1> QED BY <1>1, <1>4, <1>5, <1>6, RvHas, BecomesDoes

(* What was asked for by one more request leaves the rest as it was. *)
LEMMA AskedDone ==
    ASSUME RvInv, NEW u, NEW kind, NEW note, Asked(rv, u, rvReqs, kind, note)
    PROVE  Done(u, rvReqs, rvStore) /\ u.lists = rv.lists /\ u.links = rv.links /\ u.raced = rv.raced
<1>1. SameView(rv, u) /\ Between(u, rvReqs) BY DEF Asked
<1>2. PICK q : u.sent = {q} /\ ~q.done BY RvHas DEF Asked
<1>3. ToolsOK(u) BY <1>1, RvHas DEF ToolsOK, SameView
<1>4. NotesOK(u, rvReqs \cup u.sent, rvStore)
    <2>1. NotesOK(rv, rvReqs, rvStore) BY RvHas
    <2>2. Changed(rvReqs \cup u.sent) <=> Changed(rvReqs) BY <1>2 DEF Changed
    <2> QED BY <1>1, <1>2, <2>1, <2>2 DEF NotesOK, CurrentRel, Focused, SameView
<1> QED BY <1>1, <1>3, <1>4 DEF Done, SameView

LEMMA AskingClick ==
    ASSUME RvInv, NEW kind, NEW rel, NEW note, NEW status, Askable(kind, rel, note, status),
           User(RvAsks(rv, kind, rel, note, status))
    PROVE  RvInv'
<1> DEFINE u == RvAsks(rv, kind, rel, note, status)
<1>1. u = RvAsks(rv, kind, rel, note, status) /\ User(u) OBVIOUS
<1> HIDE DEF u
<1>2. Asked(rv, u, rvReqs, kind, note) BY <1>1, RvHas, AsksDo
<1>3. Done(u, rvReqs, rvStore) /\ u.lists = rv.lists /\ u.links = rv.links /\ u.raced = rv.raced BY <1>2, AskedDone
<1> QED BY <1>1, <1>3, UserDoes

(* A new choice in the status select is shown, and asked for.               *)
Chosen(status) == [rv EXCEPT !.status = status, !.fresh = TRUE]

LEMMA ChosenAsked ==
    ASSUME RvInv, NEW status \in States, NEW rel \in RvFiles,
           NEW u, u = RvAsks(Chosen(status), "status", rel, NoNote, status)
    PROVE  /\ Asked(rv, u, rvReqs, "status", NoNote) /\ u.status = status /\ u.fresh
           /\ \A q \in u.sent : q.rel = rel /\ q.status = status
<1> DEFINE v == Chosen(status)
<1>1. rv \in RvPage BY RvHas
<1>2. v = [rv EXCEPT !.status = status, !.fresh = TRUE] BY DEF Chosen
<1>3. u = RvAsks(v, "status", rel, NoNote, status) OBVIOUS
<1> HIDE DEF v
<1>4. v \in RvPage /\ SameView(rv, v) /\ v.sent = rv.sent /\ v.asked = rv.asked /\ v.status = status /\ v.fresh
    <2>1. v \in RvPage BY <1>1, <1>2 DEF RvPage
    <2>2. SameView(rv, v) BY <1>1, <1>2 DEF RvPage, SameView
    <2> QED BY <1>1, <1>2, <2>1, <2>2 DEF RvPage
<1>5. Between(v, rvReqs) BY <1>4, RvHas DEF Between, Unfocused, SameView
<1>6. Askable("status", rel, NoNote, status) BY DEF Askable, Changing
<1>7. Asked(v, u, rvReqs, "status", NoNote) BY <1>3, <1>5, <1>6, AsksDo
<1>8. Asked(rv, u, rvReqs, "status", NoNote) BY <1>4, <1>7 DEF Asked, SameView
<1>9. u.status = status /\ u.fresh BY <1>3, <1>4 DEF RvAsks, RvPage
<1>10. u.sent = {RvRequest("status", rel, NoNote, status, v.asked + 1)} BY <1>3, <1>4, RvHas DEF RvAsks, RvPage
<1> QED BY <1>8, <1>9, <1>10 DEF RvRequest

LEMMA ReadyClick ==
    ASSUME RvInv, NEW u, Ready(u, rvReqs), Opens(rv, u), User(u)
    PROVE  RvInv'
<1>1. Done(u, rvReqs, rvStore) BY ReadyDone
<1> QED BY <1>1, UserDoes DEF Opens, Follows

LEMMA OpenListedInv == RvInv /\ OpenListed => RvInv'
<1> SUFFICES ASSUME RvInv, NEW f \in RvFiles, rv.lists # <<>>, User(OpenFile(rv, Newest(rv, f))) PROVE RvInv'
    BY DEF OpenListed
<1> DEFINE file == Newest(rv, f)
           u == OpenFile(rv, file)
<1>1. file \in RvFile /\ file.list <= Len(rv.lists)
    <2>1. Len(rv.lists) \in Nat BY RvHas DEF RvPage
    <2> QED BY <2>1 DEF Newest, RvFile
<1>2. u = OpenFile(rv, file) /\ User(u) OBVIOUS
<1> HIDE DEF file, u
<1>3. Ready(u, rvReqs) /\ Opens(rv, u) BY <1>1, <1>2, RvHas, OpenFileDoes
<1> QED BY <1>2, <1>3, ReadyClick

LEMMA SplitInv == RvInv /\ Split => RvInv'
<1> SUFFICES ASSUME RvInv, NEW n \in {1, 2}, User(BuildPanes(rv, n)) PROVE RvInv'
    BY DEF Split
<1> DEFINE u == BuildPanes(rv, n)
<1>1. u = BuildPanes(rv, n) /\ User(u) OBVIOUS
<1> HIDE DEF u
<1>2. Ready(u, rvReqs) /\ Opens(rv, u) BY <1>1, RvHas, BuildPanesDoes
<1> QED BY <1>1, <1>2, ReadyClick

LEMMA FocusInv == RvInv /\ Focus => RvInv'
<1> SUFFICES ASSUME RvInv, NEW i \in DOMAIN rv.panes, User(FocusPane(rv, i)) PROVE RvInv'
    BY DEF Focus
<1> DEFINE u == FocusPane(rv, i)
<1>1. u = FocusPane(rv, i) /\ User(u) OBVIOUS
<1> HIDE DEF u
<1>2. Ready(u, rvReqs) /\ Opens(rv, u) BY <1>1, RvHas, FocusPaneDoes
<1> QED BY <1>1, <1>2, ReadyClick

(* The file that is looked at. *)
LEMMA CurrentDoes == ASSUME RvInv PROVE CurrentRel(rv) \in {""} \cup RvFiles
<1>1. rv.panes \in Seq(Pane) /\ rv.focus \in DOMAIN rv.panes BY RvHas DEF Between, RvPage
<1>2. rv.panes[rv.focus] \in Pane BY <1>1
<1>3. CurrentRel(rv) = rv.panes[rv.focus].file.rel BY DEF CurrentRel, Focused
<1>4. CASE rv.panes[rv.focus].file = NoFile
    <2>1. NoFile.rel = "" BY DEF NoFile
    <2>2. CurrentRel(rv) = "" BY <1>3, <1>4, <2>1
    <2> QED BY <2>2
<1>5. CASE rv.panes[rv.focus].file \in RvFile BY <1>3, <1>5 DEF RvFile
<1> QED BY <1>2, <1>4, <1>5 DEF Pane

LEMMA AskingInv == RvInv /\ (Relist \/ AddNote \/ ChangeNote("edit") \/ ChangeNote("delete") \/ SetStatus) => RvInv'
<1> SUFFICES ASSUME RvInv, Relist \/ AddNote \/ ChangeNote("edit") \/ ChangeNote("delete") \/ SetStatus PROVE RvInv'
    OBVIOUS
<1>1. CASE Relist
    <2>1. Askable("list", "", NoNote, "") BY DEF Askable, Changing
    <2>2. User(RvAsks(rv, "list", "", NoNote, "")) BY <1>1 DEF Relist
    <2> QED BY <2>1, <2>2, AskingClick
<1>2. CASE AddNote
    <2> DEFINE rel == CurrentRel(rv)
               note == [id |-> rv.clicks + 1, of |-> rel, edited |-> FALSE]
    <2>1. rel # "" /\ User(RvAsks(rv, "add", rel, note, "")) BY <1>2 DEF AddNote
    <2>2. rel \in RvFiles BY <2>1, CurrentDoes
    <2>3. rv.clicks + 1 \in Nat
        <3>1. rv \in RvPage BY RvHas
        <3> QED BY <3>1 DEF RvPage
    <2> HIDE DEF rel
    <2>4. note \in RvNote /\ note.of = rel BY <2>2, <2>3 DEF RvNote
    <2> HIDE DEF note
    <2>5. Askable("add", rel, note, "") BY <2>2, <2>4 DEF Askable, Changing
    <2> QED BY <2>1, <2>5, AskingClick
<1>3. ASSUME NEW kind \in {"edit", "delete"}, ChangeNote(kind) PROVE RvInv'
    <2> DEFINE rel == CurrentRel(rv)
    <2>1. PICK note \in rv.shown : User(RvAsks(rv, kind, rel, note, "")) BY <1>3 DEF ChangeNote
    <2>2. rel # "" /\ ~rv.hidden BY <1>3 DEF ChangeNote
    <2>3. rel \in RvFiles BY <2>2, CurrentDoes
    <2>4. note.of = rel BY <2>2, RvHas DEF NotesOK
    <2>5. note \in RvNote
        <3>1. rv.shown \subseteq RvNote BY RvHas DEF RvPage
        <3> QED BY <3>1
    <2> HIDE DEF rel
    <2>6. Askable(kind, rel, note, "") BY <2>3, <2>4, <2>5 DEF Askable, Changing
    <2> QED BY <2>1, <2>6, AskingClick
<1>4. CASE SetStatus
    <2> DEFINE rel == CurrentRel(rv)
    <2>1. PICK status \in States : rel # "" /\ User(RvAsks(Chosen(status), "status", rel, NoNote, status))
        BY <1>4 DEF SetStatus, Chosen
    <2> DEFINE u == RvAsks(Chosen(status), "status", rel, NoNote, status)
    <2>2. rel \in RvFiles BY <2>1, CurrentDoes
    <2> HIDE DEF rel
    <2>3. Asked(rv, u, rvReqs, "status", NoNote) BY <2>2, ChosenAsked
    <2>4. User(u) BY <2>1
    <2> HIDE DEF u
    <2>5. Done(u, rvReqs, rvStore) /\ u.lists = rv.lists /\ u.links = rv.links /\ u.raced = rv.raced BY <2>3, AskedDone
    <2> QED BY <2>4, <2>5, UserDoes
<1> QED BY <1>1, <1>2, <1>3, <1>4

LEMMA ClicksInv == RvInv /\ Clicks => RvInv'
BY OpenListedInv, SplitInv, FocusInv, AskingInv DEF Clicks

-----------------------------------------------------------------------------
(* The renders' steps: panes keep their files, and the notes what they were. *)

PanesDrawn(panes, work, after) ==
    /\ panes \in Seq(Pane) /\ DOMAIN panes = DOMAIN rv.panes /\ work \in SUBSET RvWork /\ PanesInv(panes, work)
    /\ \A i \in DOMAIN panes : panes[i].file = rv.panes[i].file
    /\ after \in RvPage /\ after.panes = panes /\ after.work = work /\ after.tools = panes[rv.focus].img
    /\ after.focus = rv.focus /\ after.lists = rv.lists /\ after.links = rv.links /\ after.shown = rv.shown
    /\ after.hidden = rv.hidden /\ after.msg = rv.msg /\ after.painted = rv.painted /\ after.loads = rv.loads
    /\ after.asked = rv.asked /\ after.sent = rv.sent /\ after.raced = rv.raced

LEMMA DrawnDone ==
    ASSUME RvInv, NEW panes, NEW work, PanesDrawn(panes, work, rv'), UNCHANGED <<rvStore, rvReqs>>
    PROVE  RvInv'
<1>0. FilesListed(panes, rv.lists)
    <2>1. FilesListed(rv.panes, rv.lists) BY RvHas DEF Unfocused
    <2> QED BY <2>1 DEF PanesDrawn, FilesListed
<1>1. Between(rv', rvReqs) BY <1>0, RvHas DEF PanesDrawn, Between, Unfocused
<1>2. ToolsOK(rv') BY DEF PanesDrawn, ToolsOK
<1>3. NotesOK(rv', rvReqs, rvStore)
    <2>1. CurrentRel(rv') = CurrentRel(rv) BY RvHas DEF PanesDrawn, CurrentRel, Focused, Between
    <2> QED BY <2>1, RvHas DEF PanesDrawn, NotesOK
<1>4. Done(rv', rvReqs, rvStore)
    <2>1. rvReqs \cup rv'.sent = rvReqs BY RvHas DEF PanesDrawn
    <2> QED BY <1>1, <1>2, <1>3, <2>1 DEF Done
<1>5. ~rv'.raced => Single(rvReqs) /\ Dots(rv', rvReqs, rvStore) BY DEF PanesDrawn, RvInv, Dots
<1> QED BY <1>4, <1>5, RvHas DEF PanesDrawn, RvInv

(* A render that is out of date. *)
LEMMA GoneInv ==
    ASSUME RvInv, NEW w \in rv.work, Gone(w), NEW clicks \in Nat,
           rv' = [rv EXCEPT !.work = rv.work \ {w}, !.clicks = clicks], UNCHANGED <<rvStore, rvReqs>>
    PROVE  RvInv'
<1> DEFINE work == rv.work \ {w}
<1>1. rv \in RvPage /\ rv.panes \in Seq(Pane) /\ rv.work \in SUBSET RvWork /\ PanesInv(rv.panes, rv.work)
    BY RvHas DEF Between, Unfocused, RvPage
<1>2. PanesInv(rv.panes, work) BY <1>1, GoneLeaves DEF Gone
<1>3. work \in SUBSET RvWork /\ rv' = [rv EXCEPT !.work = work, !.clicks = clicks] BY <1>1
<1> HIDE DEF work
<1>4. rv' \in RvPage BY <1>1, <1>3 DEF RvPage
<1>5. PanesDrawn(rv.panes, work, rv')
    BY <1>1, <1>2, <1>3, <1>4, RvHas DEF RvPage, PanesDrawn, ToolsOK
<1> QED BY <1>5, DrawnDone

(* A render that finds its own token. *)
GoesOn(w, body, img, clicks, next, after) ==
    /\ body \in Seq(Drawn) /\ img \in BOOLEAN /\ clicks \in Nat /\ next \in SUBSET RvWork
    /\ \A v \in next : /\ v.pane = w.pane /\ v.token = w.token /\ v.rel = w.rel
                       /\ v.page <= RvPages /\ RvKind[v.rel] = "pdf" /\ v.page # 0
                       /\ body = Pages(w.rel, v.page - 1) /\ ~img
    /\ \A v, x \in next : v = x
    /\ next = {} => \/ img /\ body = Says(w.rel, "image")
                    \/ ~img /\ \E what \in {"download", "text", "error"} : body = Says(w.rel, what)
                    \/ ~img /\ RvKind[w.rel] = "pdf" /\ body = Pages(w.rel, RvPages)
    /\ after.panes = [rv.panes EXCEPT ![w.pane].body = body, ![w.pane].img = img]
    /\ after.work = (rv.work \ {w}) \cup next
    /\ after.tools = after.panes[rv.focus].img /\ after.clicks = clicks
    /\ after = [rv EXCEPT !.panes = after.panes, !.work = after.work, !.tools = after.tools, !.clicks = after.clicks]

LEMMA InSeq == ASSUME NEW S, NEW s \in Seq(S), NEW i \in DOMAIN s PROVE s[i] \in S
OBVIOUS

LEMMA GoesOnInv ==
    ASSUME RvInv, NEW w \in rv.work, ~Gone(w),
           NEW body, NEW img, NEW clicks, NEW next, GoesOn(w, body, img, clicks, next, rv'), UNCHANGED <<rvStore, rvReqs>>
    PROVE  RvInv'
<1> SUFFICES
      ASSUME body \in Seq(Drawn), img \in BOOLEAN, clicks \in Nat, next \in SUBSET RvWork,
             \A v \in next : /\ v.pane = w.pane /\ v.token = w.token /\ v.rel = w.rel
                             /\ v.page <= RvPages /\ RvKind[v.rel] = "pdf" /\ v.page # 0
                             /\ body = Pages(w.rel, v.page - 1) /\ ~img,
             \A v, x \in next : v = x,
             next = {} => \/ img /\ body = Says(w.rel, "image")
                          \/ ~img /\ \E what \in {"download", "text", "error"} : body = Says(w.rel, what)
                          \/ ~img /\ RvKind[w.rel] = "pdf" /\ body = Pages(w.rel, RvPages),
             rv'.panes = [rv.panes EXCEPT ![w.pane].body = body, ![w.pane].img = img],
             rv'.work = (rv.work \ {w}) \cup next,
             rv'.tools = rv'.panes[rv.focus].img, rv'.clicks = clicks,
             rv' = [rv EXCEPT !.panes = rv'.panes, !.work = rv'.work, !.tools = rv'.tools, !.clicks = rv'.clicks]
      PROVE  RvInv'
    BY DEF GoesOn
<1> DEFINE p == rv.panes[w.pane]
           q == [p EXCEPT !.body = body, !.img = img]
           panes == [rv.panes EXCEPT ![w.pane] = q]
           work == (rv.work \ {w}) \cup next
<1>1. rv \in RvPage /\ rv.panes \in Seq(Pane) /\ rv.work \in SUBSET RvWork /\ PanesInv(rv.panes, rv.work)
    BY RvHas DEF Between, Unfocused, RvPage
<1>2. p.token = w.token BY DEF Gone
<1>3. w.pane \in DOMAIN rv.panes /\ p \in Pane /\ p.file.rel = w.rel BY <1>1, <1>2, RenderFinds
<1>4. q \in Pane /\ q.token = w.token /\ q.file = p.file /\ q.body = body /\ q.img = img
    <2> HIDE DEF p
    <2> QED BY <1>2, <1>3 DEF Pane
<1>5. rv'.panes = panes BY <1>1, <1>3 DEF Pane
<1>6. rv'.work = work OBVIOUS
<1>6a. panes = [rv.panes EXCEPT ![w.pane] = q] /\ work = (rv.work \ {w}) \cup next OBVIOUS
<1> HIDE DEF q, panes, work
<1>7. \A v \in next : /\ v.pane = w.pane /\ v.token = w.token /\ v.rel = w.rel
                      /\ v.page <= RvPages /\ (v.page # 0 => RvKind[v.rel] = "pdf") /\ Begun(q, v) /\ ~q.img
    <2> SUFFICES ASSUME NEW v \in next PROVE Begun(q, v) /\ ~q.img
        OBVIOUS
    <2>1. v.page # 0 /\ RvKind[v.rel] = "pdf" /\ q.body = Pages(v.rel, v.page - 1) /\ ~img BY <1>4
    <2>2. Begun(q, v) BY <2>1 DEF Begun
    <2> QED BY <1>4, <2>1, <2>2
<1>8. next = {} => Over(q) BY <1>3, <1>4 DEF Over
<1>9. panes \in Seq(Pane) /\ DOMAIN panes = DOMAIN rv.panes /\ work \in SUBSET RvWork /\ PanesInv(panes, work)
    <2>1. rv.panes[w.pane].token = w.token /\ q.file = rv.panes[w.pane].file BY <1>2, <1>4
    <2> HIDE DEF p
    <2>2. RenderStep(rv.panes, rv.work, w, q, next, panes, work) BY <1>1, <1>4, <1>6a, <1>7, <1>8, <2>1 DEF RenderStep
    <2> QED BY <2>2, RenderGoesOn
<1>10. \A i \in DOMAIN panes : panes[i].file = rv.panes[i].file BY <1>3, <1>4, <1>6a, <1>9
<1>11. rv.focus \in DOMAIN panes BY <1>9, RvHas DEF Between
<1>12. panes[rv.focus].img \in BOOLEAN
    <2>2. panes[rv.focus] \in Pane BY <1>9, <1>11, InSeq
    <2> QED BY <2>2 DEF Pane
<1>13. rv' = [rv EXCEPT !.panes = panes, !.work = work, !.tools = panes[rv.focus].img, !.clicks = clicks] BY <1>5, <1>6
<1>14. rv' \in RvPage BY <1>1, <1>9, <1>12, <1>13 DEF RvPage
<1>15. PanesDrawn(panes, work, rv') BY <1>1, <1>5, <1>6, <1>9, <1>10, <1>13, <1>14 DEF RvPage, PanesDrawn
<1> QED BY <1>15, DrawnDone

LEMMA DrawsInv == ASSUME RvInv, NEW w \in rv.work, Draws(w) PROVE RvInv'
<1> DEFINE last == RvKind[w.rel] = "text" \/ w.page = RvPages
           page == [w EXCEPT !.page = @ + 1]
           next == IF last THEN {} ELSE {page}
           p == rv.panes[w.pane]
           text == <<<<w.rel, "text", 0>>>>
           none == <<>>
           more == Append(p.body, <<w.rel, "page", w.page>>)
           body == CASE RvKind[w.rel] = "text" -> text
                     [] RvKind[w.rel] = "pdf" /\ w.page = 0 -> none
                     [] OTHER -> more
           work == (rv.work \ {w}) \cup next
           panes == [rv.panes EXCEPT ![w.pane].body = body]
<1>1. RvKind[w.rel] \in {"text", "pdf"} /\ UNCHANGED <<rvStore, rvReqs>> BY DEF Draws
<1>2. rv \in RvPage /\ rv.panes \in Seq(Pane) /\ rv.work \in SUBSET RvWork /\ PanesInv(rv.panes, rv.work)
    BY RvHas DEF Between, Unfocused, RvPage
<1>3. w \in RvWork /\ w.rel \in RvFiles /\ w.page \in Nat BY <1>2 DEF RvWork
<1>4. CASE Gone(w)
    <2>1. rv' = [rv EXCEPT !.work = rv.work \ {w}] BY <1>4 DEF Draws
    <2>2. rv' = [rv EXCEPT !.work = rv.work \ {w}, !.clicks = rv.clicks] BY <1>2, <2>1 DEF RvPage
    <2>3. rv.clicks \in Nat BY <1>2 DEF RvPage
    <2> QED BY <1>1, <1>4, <2>2, <2>3, GoneInv
<1>5. CASE ~Gone(w)
    <2>1. rv' = [rv EXCEPT !.work = work, !.panes[w.pane].body = body] BY <1>5 DEF Draws
    <2>2. /\ w.pane \in DOMAIN rv.panes /\ p \in Pane /\ ~p.img /\ Begun(p, w)
          /\ w.page <= RvPages /\ (w.page # 0 => RvKind[w.rel] = "pdf")
        BY <1>2, <1>5, RenderFinds DEF Gone
    <2>3. /\ rv' = [rv EXCEPT !.work = work, !.panes = panes]
          /\ rv'.panes = panes /\ rv'.work = work /\ rv'.tools = rv.tools /\ rv'.clicks = rv.clicks
        BY <1>2, <2>1 DEF RvPage
    <2>4. panes = [rv.panes EXCEPT ![w.pane].body = body, ![w.pane].img = FALSE]
        <3> HIDE DEF body
        <3> QED BY <1>2, <2>2 DEF Pane
    <2>5. rv.tools = panes[rv.focus].img
        <3> HIDE DEF body
        <3>1. rv.focus \in DOMAIN rv.panes /\ rv.tools = rv.panes[rv.focus].img BY RvHas DEF Between, ToolsOK
        <3>2. rv.panes[rv.focus] \in Pane BY <1>2, <3>1
        <3> QED BY <2>2, <3>1, <3>2 DEF Pane
    <2>6. /\ page.pane = w.pane /\ page.token = w.token /\ page.rel = w.rel /\ page.page = w.page + 1
          /\ page \in RvWork
        <3>1. w.page + 1 \in Nat BY <1>3
        <3>2. page = [w EXCEPT !.page = w.page + 1] BY <1>3 DEF RvWork
        <3> HIDE DEF page
        <3> QED BY <1>3, <3>1, <3>2 DEF RvWork
    <2>7. /\ body \in Seq(Drawn)
          /\ ~last => w.page + 1 <= RvPages /\ RvKind[w.rel] = "pdf" /\ body = Pages(w.rel, w.page)
          /\ last => \/ body = Says(w.rel, "text")
                     \/ RvKind[w.rel] = "pdf" /\ body = Pages(w.rel, RvPages)
        <3>1. CASE RvKind[w.rel] = "text"
            <4>0. text = Says(w.rel, "text") BY DEF Says
            <4> HIDE DEF text, more, none
            <4>0a. body = text BY <1>3, <3>1
            <4> HIDE DEF body
            <4>1. body = Says(w.rel, "text") BY <4>0, <4>0a
            <4> HIDE DEF body
            <4>2. body \in Seq(Drawn) BY <1>3, <4>1, SaysDo
            <4> QED BY <3>1, <4>1, <4>2
        <3>2. CASE RvKind[w.rel] = "pdf" /\ w.page = 0
            <4>1. body = Pages(w.rel, 0) BY <1>3, <3>2, PagesDo
            <4> HIDE DEF body
            <4>2. body \in Seq(Drawn) BY <1>3, <4>1, PagesDo
            <4>3. ~last BY <3>2, RvBounds
            <4>4. 0 + 1 <= RvPages
                <5>1. \A n \in Nat : n # 0 => 0 + 1 <= n OBVIOUS
                <5> QED BY <5>1, RvBounds
            <4> QED BY <3>2, <4>1, <4>2, <4>3, <4>4
        <3>3. CASE RvKind[w.rel] = "pdf" /\ w.page # 0
            <4> DEFINE k == w.page - 1
            <4>1. p.body = Pages(w.rel, k) BY <2>2, <3>3 DEF Begun
            <4>2. k \in Nat /\ k + 1 = w.page BY <1>3, <3>3
            <4>3. body = Append(Pages(w.rel, k), <<w.rel, "page", k + 1>>) BY <3>3, <4>1, <4>2
            <4> HIDE DEF body, k
            <4>4. body = Pages(w.rel, w.page) BY <1>3, <4>2, <4>3, NextPage
            <4>5. body \in Seq(Drawn) BY <1>3, <4>4, PagesDo
            <4>6. ~last => w.page + 1 <= RvPages
                <5>1. \A m, n \in Nat : m <= n /\ m # n => m + 1 <= n OBVIOUS
                <5> QED BY <1>3, <2>2, <5>1, RvBounds
            <4> QED BY <3>3, <4>4, <4>5, <4>6
        <3> QED BY <1>1, <3>1, <3>2, <3>3
    <2>8. rv' = [rv EXCEPT !.panes = rv'.panes, !.work = rv'.work, !.tools = rv'.tools, !.clicks = rv'.clicks]
        <3> HIDE DEF panes, work
        <3>1. rv' = [rv EXCEPT !.work = work, !.panes = panes, !.tools = rv.tools, !.clicks = rv.clicks]
            BY <1>2, <2>3 DEF RvPage
        <3> QED BY <2>3, <3>1
    <2>9. next \in SUBSET RvWork /\ \A v, x \in next : v = x BY <2>6
    <2>10. \A v \in next : /\ v.pane = w.pane /\ v.token = w.token /\ v.rel = w.rel
                           /\ v.page <= RvPages /\ RvKind[v.rel] = "pdf" /\ v.page # 0
                           /\ body = Pages(w.rel, v.page - 1) /\ ~FALSE
        <3> HIDE DEF body, page
        <3>1. (w.page + 1) - 1 = w.page /\ w.page + 1 # 0 BY <1>3
        <3> QED BY <2>6, <2>7, <3>1
    <2>11. next = {} => \/ FALSE /\ body = Says(w.rel, "image")
                        \/ ~FALSE /\ \E what \in {"download", "text", "error"} : body = Says(w.rel, what)
                        \/ ~FALSE /\ RvKind[w.rel] = "pdf" /\ body = Pages(w.rel, RvPages)
        <3> HIDE DEF body, page
        <3> QED BY <2>7
    <2>12. rv.clicks \in Nat /\ FALSE \in BOOLEAN BY <1>2 DEF RvPage
    <2>13. rv'.panes = [rv.panes EXCEPT ![w.pane].body = body, ![w.pane].img = FALSE] BY <2>3, <2>4
    <2>14. rv'.work = (rv.work \ {w}) \cup next BY <2>3
    <2>15. rv'.tools = rv'.panes[rv.focus].img BY <2>3, <2>5
    <2> HIDE DEF body, next
    <2> HIDE DEF panes, work, p, page, last
    <2>16. GoesOn(w, body, FALSE, rv.clicks, next, rv')
        BY <2>3, <2>7, <2>8, <2>9, <2>10, <2>11, <2>12, <2>13, <2>14, <2>15 DEF GoesOn
    <2> QED BY <1>1, <1>5, <2>16, GoesOnInv
<1> QED BY <1>4, <1>5

LEMMA ImageLoadsInv == ASSUME RvInv, NEW w \in rv.work, ImageLoads(w) PROVE RvInv'
<1> DEFINE p == rv.panes[w.pane]
           panes == [rv.panes EXCEPT ![w.pane].img = TRUE]
           work == rv.work \ {w}
           u == [rv EXCEPT !.work = work, !.panes = panes]
<1>1. RvKind[w.rel] = "image" /\ UNCHANGED <<rvStore, rvReqs>> BY DEF ImageLoads
<1>2. rv \in RvPage /\ rv.panes \in Seq(Pane) /\ rv.work \in SUBSET RvWork /\ PanesInv(rv.panes, rv.work)
    BY RvHas DEF Between, Unfocused, RvPage
<1>3. rv.clicks \in Nat BY <1>2 DEF RvPage
<1>4. CASE Gone(w)
    <2>1. rv' = [rv EXCEPT !.work = rv.work \ {w}] BY <1>4 DEF ImageLoads
    <2>2. rv' = [rv EXCEPT !.work = rv.work \ {w}, !.clicks = rv.clicks] BY <1>2, <2>1 DEF RvPage
    <2> QED BY <1>1, <1>3, <1>4, <2>2, GoneInv
<1>5. CASE ~Gone(w)
    <2>1. rv' = SyncTools(u) BY <1>2, <1>5 DEF ImageLoads, RvPage
    <2>2. u.panes = panes /\ u.work = work /\ u.focus = rv.focus BY <1>2 DEF RvPage
    <2>3. /\ rv' = [rv EXCEPT !.work = work, !.panes = panes, !.tools = panes[rv.focus].img]
          /\ rv'.panes = panes /\ rv'.work = work /\ rv'.tools = panes[rv.focus].img /\ rv'.clicks = rv.clicks
        <3> HIDE DEF panes, work
        <3>1. rv' = [u EXCEPT !.tools = panes[rv.focus].img] BY <2>1, <2>2 DEF SyncTools, Focused
        <3> QED BY <1>2, <3>1 DEF RvPage
    <2>4. w.pane \in DOMAIN rv.panes /\ p \in Pane /\ Begun(p, w) BY <1>2, <1>5, RenderFinds DEF Gone
    <2>5. p.body = Says(w.rel, "image") /\ p.body \in Seq(Drawn) BY <1>1, <2>4 DEF Begun, Pane
    <2>6. panes = [rv.panes EXCEPT ![w.pane].body = p.body, ![w.pane].img = TRUE] BY <1>2, <2>4 DEF Pane
    <2> HIDE DEF panes, work
    <2>7. rv' = [rv EXCEPT !.panes = rv'.panes, !.work = rv'.work, !.tools = rv'.tools, !.clicks = rv'.clicks]
        <3>1. rv' = [rv EXCEPT !.work = work, !.panes = panes, !.tools = rv'.tools, !.clicks = rv.clicks]
            BY <1>2, <2>3 DEF RvPage
        <3> QED BY <2>3, <3>1
    <2>8. rv'.work = (rv.work \ {w}) \cup {} BY <2>3 DEF work
    <2> HIDE DEF p
    <2>9. GoesOn(w, p.body, TRUE, rv.clicks, {}, rv') BY <1>3, <2>3, <2>5, <2>6, <2>7, <2>8 DEF GoesOn
    <2> QED BY <1>1, <1>5, <2>9, GoesOnInv
<1> QED BY <1>4, <1>5

LEMMA BreaksInv == ASSUME RvInv, NEW w \in rv.work, Breaks(w) PROVE RvInv'
<1> DEFINE clicks == rv.clicks + 1
           body == <<<<w.rel, "error", 0>>>>
           panes == [rv.panes EXCEPT ![w.pane] = [@ EXCEPT !.img = FALSE, !.body = body]]
           work == rv.work \ {w}
           u == [rv EXCEPT !.work = work, !.clicks = clicks, !.panes = panes]
<1>1. UNCHANGED <<rvStore, rvReqs>> BY DEF Breaks
<1>2. rv \in RvPage /\ rv.panes \in Seq(Pane) /\ rv.work \in SUBSET RvWork /\ PanesInv(rv.panes, rv.work)
    BY RvHas DEF Between, Unfocused, RvPage
<1>3. clicks \in Nat BY <1>2 DEF RvPage
<1>4. CASE Gone(w)
    <2>1. rv' = [rv EXCEPT !.work = rv.work \ {w}, !.clicks = clicks] BY <1>2, <1>4 DEF Breaks, RvPage
    <2> HIDE DEF clicks
    <2> QED BY <1>1, <1>3, <1>4, <2>1, GoneInv
<1>5. CASE ~Gone(w)
    <2>1. rv' = SyncTools(u)
        <3>1. rv' = SyncTools([rv EXCEPT !.work = @ \ {w}, !.clicks = @ + 1, !.panes[w.pane] = [@ EXCEPT !.img = FALSE, !.body = body]])
            BY <1>5 DEF Breaks
        <3> HIDE DEF body
        <3>2. [rv EXCEPT !.work = @ \ {w}, !.clicks = @ + 1, !.panes[w.pane] = [@ EXCEPT !.img = FALSE, !.body = body]] = u
            BY <1>2 DEF RvPage
        <3> QED BY <3>1, <3>2
    <2> HIDE DEF clicks
    <2>2. u.panes = panes /\ u.work = work /\ u.focus = rv.focus BY <1>2 DEF RvPage
    <2>3. /\ rv' = [rv EXCEPT !.work = work, !.panes = panes, !.tools = panes[rv.focus].img, !.clicks = clicks]
          /\ rv'.panes = panes /\ rv'.work = work /\ rv'.tools = panes[rv.focus].img /\ rv'.clicks = clicks
        <3> HIDE DEF panes, work
        <3>1. rv' = [u EXCEPT !.tools = panes[rv.focus].img] BY <2>1, <2>2 DEF SyncTools, Focused
        <3> QED BY <1>2, <3>1 DEF RvPage
    <2>4. w.rel \in RvFiles BY <1>2 DEF RvWork
    <2>5. body = Says(w.rel, "error") /\ body \in Seq(Drawn)
        <3>1. body = Says(w.rel, "error") BY DEF Says
        <3> HIDE DEF body
        <3> QED BY <2>4, <3>1, SaysDo
    <2>6. panes = [rv.panes EXCEPT ![w.pane].body = body, ![w.pane].img = FALSE]
        <3>1. w.pane \in DOMAIN rv.panes /\ rv.panes[w.pane] \in Pane BY <1>2, <1>5, RenderFinds DEF Gone
        <3> HIDE DEF body
        <3> QED BY <1>2, <3>1 DEF Pane
    <2> HIDE DEF panes, work, body
    <2>7. rv' = [rv EXCEPT !.panes = rv'.panes, !.work = rv'.work, !.tools = rv'.tools, !.clicks = rv'.clicks]
        <3>1. rv' = [rv EXCEPT !.work = work, !.panes = panes, !.tools = rv'.tools, !.clicks = clicks]
            BY <1>2, <2>3 DEF RvPage
        <3> QED BY <2>3, <3>1
    <2>8. rv'.work = (rv.work \ {w}) \cup {} BY <2>3 DEF work
    <2>9. GoesOn(w, body, FALSE, clicks, {}, rv') BY <1>3, <2>3, <2>5, <2>6, <2>7, <2>8 DEF GoesOn
    <2> QED BY <1>1, <1>5, <2>9, GoesOnInv
<1> QED BY <1>4, <1>5

LEMMA DrawingInv == RvInv /\ Drawing => RvInv'
BY DrawsInv, ImageLoadsInv, BreaksInv DEF Drawing

-----------------------------------------------------------------------------
(* The server. *)

(* What a request does to review_notes.json. *)
StoreStep(r, t) ==
    /\ RvStored(t)
    /\ r.kind \notin Changing => \A f \in RvFiles : t[f].notes = rvStore[f].notes
    /\ \A f \in RvFiles : \A note \in t[f].notes : note \in rvStore[f].notes \/ note.id = r.note.id
    /\ r.kind # "status" => StatusesOf(t) = StatusesOf(rvStore)
    /\ r.kind = "status" => StatusesOf(t) = [StatusesOf(rvStore) EXCEPT ![r.rel] = r.status]

LEMMA MutatedDoes == ASSUME RvInv, NEW r \in rvReqs PROVE StoreStep(r, Mutated(r))
<1>1. ReqOK(r) /\ r \in RvReq BY RvHas DEF ReqOK
<1>2. /\ rvStore \in [RvFiles -> [status : States, notes : SUBSET RvNote]]
      /\ \A f \in RvFiles : \A note \in rvStore[f].notes : note.of = f
    BY RvHas DEF RvStored
<1>3. CASE r.kind \notin Changing /\ r.kind # "status"
    <2>1. Mutated(r) = rvStore BY <1>3 DEF Mutated, Changing
    <2> QED BY <1>3, <2>1, RvHas DEF StoreStep
<1>4. CASE r.kind = "status"
    <2> DEFINE t == [rvStore EXCEPT ![r.rel].status = r.status]
    <2>1. Mutated(r) = t BY <1>4 DEF Mutated
    <2>2. r.rel \in RvFiles /\ r.status \in States BY <1>1, <1>4 DEF ReqOK
    <2>3. /\ \A f \in RvFiles : t[f].notes = rvStore[f].notes
          /\ \A f \in RvFiles : t[f].status = IF f = r.rel THEN r.status ELSE rvStore[f].status
          /\ t \in [RvFiles -> [status : States, notes : SUBSET RvNote]]
        BY <1>2, <2>2
    <2> HIDE DEF t
    <2>4. StatusesOf(t) = [StatusesOf(rvStore) EXCEPT ![r.rel] = r.status] BY <2>2, <2>3 DEF StatusesOf
    <2>5. RvStored(t) BY <1>2, <2>3 DEF RvStored
    <2> QED BY <1>4, <2>1, <2>3, <2>4, <2>5 DEF StoreStep
<1>5. CASE r.kind \in Changing
    <2>1. r.rel \in RvFiles /\ r.note \in RvNote /\ r.note.of = r.rel BY <1>1, <1>5 DEF ReqOK, Changing
    <2>2. rvStore[r.rel].notes \subseteq RvNote /\ \A note \in rvStore[r.rel].notes : note.of = r.rel BY <1>2, <2>1
    <2>3. Rest(r) \subseteq rvStore[r.rel].notes BY DEF Rest
    <2>4. PICK notes \in SUBSET RvNote : /\ Mutated(r) = [rvStore EXCEPT ![r.rel].notes = notes]
                                         /\ \A note \in notes : note.of = r.rel
                                         /\ \A note \in notes : note \in rvStore[r.rel].notes \/ note.id = r.note.id
        <3>1. CASE r.kind = "add"
            <4> DEFINE all == rvStore[r.rel].notes \cup {r.note}
            <4>1. Mutated(r) = [rvStore EXCEPT ![r.rel].notes = all] BY <1>2, <2>1, <3>1 DEF Mutated
            <4>2. /\ all \in SUBSET RvNote /\ \A note \in all : note.of = r.rel
                  /\ \A note \in all : note \in rvStore[r.rel].notes \/ note.id = r.note.id
                BY <2>1, <2>2
            <4> HIDE DEF all
            <4> QED BY <4>1, <4>2
        <3>2. CASE r.kind = "edit"
            <4> DEFINE note == [r.note EXCEPT !.edited = TRUE]
            <4>1. note \in RvNote /\ note.of = r.rel /\ note.id = r.note.id BY <2>1 DEF RvNote
            <4> DEFINE all == Rest(r) \cup {note}
            <4>2. Mutated(r) = [rvStore EXCEPT ![r.rel].notes = all] BY <3>2 DEF Mutated
            <4> HIDE DEF note
            <4>3. /\ all \in SUBSET RvNote /\ \A other \in all : other.of = r.rel
                  /\ \A other \in all : other \in rvStore[r.rel].notes \/ other.id = r.note.id
                BY <2>2, <2>3, <4>1
            <4> HIDE DEF all
            <4> QED BY <4>2, <4>3
        <3>3. CASE r.kind = "delete"
            <4>1. Mutated(r) = [rvStore EXCEPT ![r.rel].notes = Rest(r)] BY <3>3 DEF Mutated
            <4> QED BY <2>2, <2>3, <4>1
        <3> QED BY <1>5, <3>1, <3>2, <3>3 DEF Changing
    <2> DEFINE t == [rvStore EXCEPT ![r.rel].notes = notes]
    <2>5. /\ \A f \in RvFiles : t[f].notes = IF f = r.rel THEN notes ELSE rvStore[f].notes
          /\ \A f \in RvFiles : t[f].status = rvStore[f].status
          /\ t \in [RvFiles -> [status : States, notes : SUBSET RvNote]]
        BY <1>2, <2>1
    <2>6. Mutated(r) = t BY <2>4
    <2> HIDE DEF t
    <2>7. StatusesOf(t) = StatusesOf(rvStore) BY <2>5 DEF StatusesOf
    <2>8. RvStored(t) BY <1>2, <2>4, <2>5 DEF RvStored
    <2> QED BY <1>5, <2>4, <2>5, <2>6, <2>7, <2>8 DEF StoreStep, Changing
<1> QED BY <1>3, <1>4, <1>5 DEF Changing

(* The answered request. *)
AnsweredAs(r, t) ==
    /\ ReqOK(t) /\ t.done /\ t.kind = r.kind /\ t.note = r.note /\ t.rel = r.rel /\ t.status = r.status /\ t.nr = r.nr
    /\ r.kind = "list" => t.list = StatusesOf(rvStore)
    /\ t.notes = IF r.kind = "notes" THEN rvStore[r.rel].notes ELSE r.notes

LEMMA ServeDoes ==
    ASSUME RvInv, NEW r, Serve(r)
    PROVE  /\ r \in rvReqs /\ ~r.done /\ UNCHANGED rv /\ StoreStep(r, rvStore')
           /\ \E t : AnsweredAs(r, t) /\ rvReqs' = (rvReqs \ {r}) \cup {t}
<1> DEFINE found == r.kind \in {"edit", "delete"} => Known(r)
           list == IF r.kind = "list" THEN Listed ELSE r.list
           notes == IF r.kind = "notes" THEN rvStore[r.rel].notes ELSE r.notes
           t == [r EXCEPT !.done = TRUE, !.ok = found, !.list = list, !.notes = notes]
<1>1. r \in rvReqs /\ ~r.done /\ UNCHANGED rv /\ rvStore' = IF found THEN Mutated(r) ELSE rvStore BY DEF Serve
<1>2. ReqOK(r) /\ r \in RvReq BY <1>1, RvHas DEF ReqOK
<1>3. rvReqs' = (rvReqs \ {r}) \cup {t}
    <2>1. rvReqs' = (rvReqs \ {r}) \cup
             {[r EXCEPT !.done = TRUE, !.ok = found, !.list = IF r.kind = "list" THEN Listed ELSE @,
                        !.notes = IF r.kind = "notes" THEN rvStore[r.rel].notes ELSE @]}
        BY DEF Serve
    <2> HIDE DEF found
    <2> QED BY <1>2, <2>1 DEF RvReq
<1>4. found \in BOOLEAN /\ (~found => r.kind \in {"edit", "delete"}) OBVIOUS
<1>5. /\ rvStore \in [RvFiles -> [status : States, notes : SUBSET RvNote]]
      /\ \A f \in RvFiles : \A note \in rvStore[f].notes : note.of = f
    BY RvHas DEF RvStored
<1>6. list \in [RvFiles -> States] /\ (r.kind = "list" => list = StatusesOf(rvStore))
    <2>1. Listed \in [RvFiles -> States] /\ Listed = StatusesOf(rvStore) BY <1>5 DEF Listed, StatusesOf
    <2> QED BY <1>2, <2>1 DEF RvReq
<1>7. /\ notes \in SUBSET RvNote /\ notes = IF r.kind = "notes" THEN rvStore[r.rel].notes ELSE r.notes
      /\ r.kind = "notes" => \A note \in notes : note.of = r.rel
    <2>1. r.kind = "notes" => r.rel \in RvFiles BY <1>2 DEF ReqOK
    <2>2. r.notes \in SUBSET RvNote BY <1>2 DEF RvReq
    <2> QED BY <1>5, <2>1, <2>2
<1>8. StoreStep(r, rvStore')
    <2>1. CASE found BY <1>1, <2>1, MutatedDoes
    <2>2. CASE ~found
        <3>1. r.kind \in {"edit", "delete"} /\ rvStore' = rvStore BY <1>1, <2>2
        <3> QED BY <3>1, RvHas DEF StoreStep, Changing
    <2> QED BY <2>1, <2>2
<1>8a. t = [r EXCEPT !.done = TRUE, !.ok = found, !.list = list, !.notes = notes] OBVIOUS
<1> HIDE DEF found, list, notes, t
<1>9. /\ t \in RvReq /\ t.done /\ t.ok = found /\ t.kind = r.kind /\ t.rel = r.rel /\ t.status = r.status /\ t.nr = r.nr
      /\ t.note = r.note /\ t.list = list /\ t.notes = notes
    BY <1>2, <1>4, <1>6, <1>7, <1>8a DEF RvReq
<1>10. ReqOK(t) BY <1>2, <1>4, <1>7, <1>9 DEF ReqOK
<1>11. AnsweredAs(r, t) BY <1>6, <1>7, <1>9, <1>10 DEF AnsweredAs
<1> QED BY <1>1, <1>3, <1>8, <1>11

LEMMA ServeInv == ASSUME RvInv, NEW r, Serve(r) PROVE RvInv'
<1>1. r \in rvReqs /\ ~r.done /\ rv' = rv /\ StoreStep(r, rvStore') BY ServeDoes
<1>2. PICK t : AnsweredAs(r, t) /\ rvReqs' = (rvReqs \ {r}) \cup {t} BY ServeDoes
<1>3. ReqOK(r) /\ r.nr <= rv.asked BY <1>1, RvHas DEF Between, Unfocused
<1>4. IsFiniteSet(rvReqs')
    <2>1. IsFiniteSet(rvReqs \ {r}) BY RvHas, FS_RemoveElement
    <2> QED BY <1>2, <2>1, FS_AddElement
<1>5. Between(rv, rvReqs')
    <2>1. \A q \in rvReqs' : ReqOK(q) /\ q.nr <= rv.asked
        BY <1>2, <1>3, RvHas DEF AnsweredAs, Between, Unfocused
    <2> QED BY <2>1, RvHas DEF Between, Unfocused
<1>6. NotesOK(rv, rvReqs', rvStore')
    <2>1. NotesOK(rv, rvReqs, rvStore) BY RvHas
    <2> SUFFICES ASSUME ~rv.hidden, ~rv.msg, ~Changed(rvReqs')
                 PROVE  /\ rv.painted = rv.loads =>
                             CurrentRel(rv) \in RvFiles /\ rv.shown = rvStore'[CurrentRel(rv)].notes
                        /\ \A q \in rvReqs' : q.kind = "notes" /\ q.nr = rv.loads /\ q.done => q.notes = rvStore'[q.rel].notes
        BY <2>1 DEF NotesOK
    <2>2. r.kind \notin Changing BY <1>2 DEF Changed, AnsweredAs
    <2>3. ~Changed(rvReqs) BY <1>1, <1>2 DEF Changed
    <2>4. \A f \in RvFiles : rvStore'[f].notes = rvStore[f].notes BY <1>1, <2>2 DEF StoreStep
    <2>5. rv.painted = rv.loads => CurrentRel(rv) \in RvFiles /\ rv.shown = rvStore'[CurrentRel(rv)].notes
        BY <2>1, <2>3, <2>4 DEF NotesOK
    <2>6. ASSUME NEW q \in rvReqs', q.kind = "notes", q.nr = rv.loads, q.done PROVE q.notes = rvStore'[q.rel].notes
        <3>1. q.rel \in RvFiles BY <1>5, <2>6 DEF Between, Unfocused, ReqOK
        <3>2. CASE q = t BY <1>2, <2>4, <2>6, <3>1, <3>2 DEF AnsweredAs
        <3>3. CASE q \in rvReqs BY <2>1, <2>3, <2>4, <2>6, <3>1, <3>3 DEF NotesOK
        <3> QED BY <1>2, <3>2, <3>3
    <2> QED BY <2>5, <2>6
<1>7. ASSUME ~rv.raced PROVE Single(rvReqs') /\ Dots(rv, rvReqs', rvStore')
    <2>1. Single(rvReqs) /\ Dots(rv, rvReqs, rvStore) BY <1>7 DEF RvInv
    <2>2. Racing(t) <=> Racing(r) BY <1>2 DEF AnsweredAs, Racing
    <2>3. Single(rvReqs') BY <1>1, <1>2, <2>1, <2>2 DEF Single
    <2>4. ASSUME NEW q \in rvReqs', q.kind = "list", q.done PROVE q.list = StatusesOf(rvStore')
        <3>1. CASE q = t BY <1>1, <1>2, <2>4, <3>1 DEF AnsweredAs, StoreStep
        <3>2. CASE q \in rvReqs /\ q # r
            <4>1. r.kind # "status" BY <1>1, <2>1, <2>4, <3>2 DEF Single, Racing
            <4> QED BY <1>1, <2>1, <2>4, <3>2, <4>1 DEF Dots, StoreStep
        <3> QED BY <1>2, <3>1, <3>2
    <2>5. ASSUME rv.lists # <<>>, \A q \in rvReqs' : ~(q.kind = "status" /\ q.done)
          PROVE  rv.lists[Len(rv.lists)] = StatusesOf(rvStore')
        <3>1. r.kind # "status" BY <1>2, <2>5 DEF AnsweredAs
        <3>2. \A q \in rvReqs : ~(q.kind = "status" /\ q.done) BY <1>1, <1>2, <2>5
        <3> QED BY <1>1, <2>1, <2>5, <3>1, <3>2 DEF Dots, StoreStep
    <2>6. ASSUME rv.lists # <<>>, NEW q \in rvReqs', q.kind = "status", q.done
          PROVE  [rv.lists[Len(rv.lists)] EXCEPT ![q.rel] = q.status] = StatusesOf(rvStore')
        <3>1. CASE q = t
            <4>1. r.kind = "status" BY <1>2, <2>6, <3>1 DEF AnsweredAs
            <4>2. \A x \in rvReqs : ~(x.kind = "status" /\ x.done) BY <1>1, <2>1, <4>1 DEF Single, Racing
            <4>3. rv.lists[Len(rv.lists)] = StatusesOf(rvStore) BY <2>1, <2>6, <4>2 DEF Dots
            <4> QED BY <1>1, <1>2, <3>1, <4>1, <4>3 DEF AnsweredAs, StoreStep
        <3>2. CASE q \in rvReqs /\ q # r
            <4>1. r.kind # "status" BY <1>1, <2>1, <2>6, <3>2 DEF Single, Racing
            <4> QED BY <1>1, <2>1, <2>6, <3>2, <4>1 DEF Dots, StoreStep
        <3> QED BY <1>2, <3>1, <3>2
    <2> QED BY <2>3, <2>4, <2>5, <2>6 DEF Dots
<1>8. Done(rv, rvReqs', rvStore')
    <2>1. rvReqs' \cup rv.sent = rvReqs' BY RvHas
    <2> QED BY <1>5, <1>6, <2>1, RvHas DEF Done
<1>9. RvStored(rvStore') BY <1>1 DEF StoreStep
<1> QED BY <1>1, <1>4, <1>7, <1>8, <1>9, RvHas DEF RvInv

-----------------------------------------------------------------------------
(* The answers. *)

LEMMA Without ==
    ASSUME RvInv, NEW r \in rvReqs, NEW reqs, reqs = rvReqs \ {r}
    PROVE  /\ IsFiniteSet(reqs) /\ Between(rv, reqs) /\ (r.kind \notin Changing => NotesOK(rv, reqs, rvStore))
           /\ Single(rvReqs) => Single(reqs)
<1>1. IsFiniteSet(reqs) BY RvHas, FS_RemoveElement
<1>2. Between(rv, reqs) BY RvHas DEF Between, Unfocused
<1>3. r.kind \notin Changing => NotesOK(rv, reqs, rvStore)
    <2>1. r.kind \notin Changing => (Changed(reqs) <=> Changed(rvReqs)) BY DEF Changed
    <2> QED BY <2>1, RvHas DEF NotesOK
<1> QED BY <1>1, <1>2, <1>3 DEF Single

LEMMA RefusedInv == ASSUME RvInv, NEW r, Refused(r) PROVE RvInv'
<1> DEFINE reqs == rvReqs \ {r}
<1>1. r \in rvReqs /\ ~r.ok /\ rv' = [rv EXCEPT !.msg = TRUE] /\ rvReqs' = reqs /\ UNCHANGED rvStore BY DEF Refused
<1>2. r.kind \in {"edit", "delete"} BY <1>1, RvHas DEF ReqOK
<1>3. IsFiniteSet(reqs) /\ Between(rv, reqs) /\ (Single(rvReqs) => Single(reqs)) BY <1>1, Without
<1>4. /\ rv' \in RvPage /\ rv'.msg /\ rv'.sent = rv.sent /\ rv'.raced = rv.raced /\ rv'.links = rv.links /\ rv'.asked = rv.asked
      /\ rv'.panes = rv.panes /\ rv'.work = rv.work /\ rv'.focus = rv.focus /\ rv'.tools = rv.tools /\ rv'.shown = rv.shown
      /\ rv'.hidden = rv.hidden /\ rv'.painted = rv.painted /\ rv'.loads = rv.loads /\ rv'.lists = rv.lists
    BY <1>1, RvHas DEF RvPage
<1>4a. \A q \in reqs : q \in rvReqs OBVIOUS
<1>4b. \A q \in rvReqs : q.kind = "status" => q \in reqs BY <1>2
<1> HIDE DEF reqs
<1>5. Between(rv', reqs) /\ ToolsOK(rv') BY <1>3, <1>4, RvHas DEF Between, Unfocused, ToolsOK
<1>6. NotesOK(rv', reqs, rvStore) BY <1>4, RvHas DEF NotesOK, CurrentRel, Focused
<1>7. Done(rv', reqs, rvStore)
    <2>1. reqs \cup rv'.sent = reqs BY <1>4, RvHas
    <2> QED BY <1>5, <1>6, <2>1 DEF Done
<1>8. ~rv'.raced => Single(reqs) /\ Dots(rv', reqs, rvStore) BY <1>3, <1>4, <1>4a, <1>4b, DotsKept DEF RvInv
<1> QED BY <1>1, <1>3, <1>4, <1>7, <1>8, RvHas DEF RvInv

(* Pages that look the same. *)
SameLook(u, v) ==
    /\ v \in RvPage /\ v.sent = u.sent /\ v.asked = u.asked /\ v.panes = u.panes /\ v.work = u.work /\ v.focus = u.focus
    /\ v.tools = u.tools /\ v.shown = u.shown /\ v.hidden = u.hidden /\ v.msg = u.msg /\ v.painted = u.painted
    /\ v.loads = u.loads /\ v.links = u.links /\ v.status = u.status /\ v.fresh = u.fresh
    /\ Len(u.lists) <= Len(v.lists)

LEMMA LaterListed ==
    ASSUME NEW panes \in Seq(Pane), NEW lists, NEW after, Len(lists) \in Nat, Len(after) \in Nat,
           Len(lists) <= Len(after), FilesListed(panes, lists)
    PROVE  FilesListed(panes, after)
<1> SUFFICES ASSUME NEW i \in DOMAIN panes PROVE panes[i].file.list <= Len(after)
    BY DEF FilesListed
<1>1. panes[i] \in Pane OBVIOUS
<1>2. panes[i].file.list \in Nat
    <2>1. NoFile.list = 0 BY DEF NoFile
    <2>2. panes[i].file = NoFile \/ panes[i].file \in RvFile BY <1>1 DEF Pane
    <2> QED BY <2>1, <2>2 DEF RvFile
<1>3. panes[i].file.list <= Len(lists) BY DEF FilesListed
<1> QED BY <1>2, <1>3

(* The select goes on showing what it showed, of the same file.             *)
SelectKept(u, v) == CurrentRel(v) = CurrentRel(u) /\ v.status = u.status /\ v.fresh = u.fresh

(* The first listing, whether it came or not: the deep links are opened. *)
LEMMA ListingDone ==
    ASSUME RvInv, NEW r \in rvReqs, r.kind = "list", NEW reqs, reqs = rvReqs \ {r},
           NEW u, SameLook(rv, u), NEW v, v = DeepLinks(u)
    PROVE  /\ Done(v, reqs, rvStore) /\ Len(v.links) <= 2 /\ v.lists = u.lists /\ v.raced = u.raced
           /\ \A q \in v.sent : ~q.done /\ q.kind = "notes"
           /\ SelectKept(rv, v) \/ Tells(v)
<1>1. IsFiniteSet(reqs) /\ Between(rv, reqs) /\ NotesOK(rv, reqs, rvStore) BY Without DEF Changing
<1>1a. FilesListed(u.panes, u.lists)
    <2>1. rv \in RvPage /\ u \in RvPage /\ FilesListed(rv.panes, rv.lists) BY RvHas DEF SameLook, Unfocused
    <2>2. rv.panes \in Seq(Pane) /\ Len(rv.lists) \in Nat /\ Len(u.lists) \in Nat BY <2>1 DEF RvPage
    <2> QED BY <2>1, <2>2, LaterListed DEF SameLook
<1>2. Between(u, reqs) /\ Len(u.links) <= 2 /\ u.sent = {}
    BY <1>1, <1>1a, RvHas DEF SameLook, Between, Unfocused
<1>3. CASE v = u
    <2>1. ToolsOK(u) BY RvHas DEF SameLook, ToolsOK
    <2>2. NotesOK(u, reqs, rvStore) BY <1>1 DEF SameLook, NotesOK, CurrentRel, Focused
    <2>3. reqs \cup u.sent = reqs BY <1>2
    <2>4. Done(u, reqs, rvStore) BY <1>2, <2>1, <2>2, <2>3 DEF Done
    <2>5. SelectKept(rv, u) BY DEF SameLook, SelectKept, CurrentRel, Focused
    <2> QED BY <1>2, <1>3, <2>4, <2>5
<1>4. CASE Ready(v, reqs) /\ Follows(u, v) /\ v.links = <<>> /\ Tells(v)
    <2>1. Done(v, reqs, rvStore) BY <1>4, ReadyDone
    <2>2. \A q \in v.sent : ~q.done BY <2>1 DEF Done, Between, Unfocused
    <2>3. Len(v.links) = 0 BY <1>4
    <2> QED BY <1>2, <1>4, <2>1, <2>2, <2>3 DEF Follows, ForNotes
<1> QED BY <1>2, <1>3, <1>4, DeepLinksDoes

LEMMA LostInv == ASSUME RvInv, NEW r, Lost(r) PROVE RvInv'
<1> DEFINE reqs == rvReqs \ {r}
           raced == rv.raced \/ r.kind = "status"
           v == [rv EXCEPT !.clicks = @ + 1, !.raced = raced]
           w == CASE r.kind = "list" -> DeepLinks(v)
                  [] r.kind = "notes" -> [v EXCEPT !.msg = TRUE, !.shown = {}, !.painted = 0]
                  [] OTHER -> [v EXCEPT !.msg = TRUE]
<1>1. r \in rvReqs /\ Becomes(w, reqs) /\ UNCHANGED rvStore BY DEF Lost
<1>2. rv \in RvPage /\ raced \in BOOLEAN /\ rv.clicks + 1 \in Nat
    <2>1. rv \in RvPage BY RvHas
    <2> QED BY <2>1 DEF RvPage
<1>3. SameLook(rv, v) /\ v.lists = rv.lists /\ v.raced = raced
    <2>1. v = [rv EXCEPT !.clicks = rv.clicks + 1, !.raced = raced] BY <1>2 DEF RvPage
    <2> HIDE DEF v, raced
    <2>2. v \in RvPage BY <1>2, <2>1 DEF RvPage
    <2>3. v.lists = rv.lists /\ Len(rv.lists) \in Nat BY <1>2, <2>1 DEF RvPage
    <2>4. Len(rv.lists) <= Len(v.lists) BY <2>3
    <2> QED BY <1>2, <2>1, <2>2, <2>4 DEF RvPage, SameLook
<1>4. IsFiniteSet(reqs) /\ Between(rv, reqs) BY <1>1, Without
<1>4a. /\ r.kind = "list" => w = DeepLinks(v)
       /\ r.kind = "notes" => w = [v EXCEPT !.msg = TRUE, !.shown = {}, !.painted = 0]
       /\ r.kind \notin {"list", "notes"} => w = [v EXCEPT !.msg = TRUE]
    OBVIOUS
<1>4b. /\ \A q \in reqs : q \in rvReqs
       /\ r.kind # "status" => \A q \in rvReqs : q.kind = "status" => q \in reqs
    OBVIOUS
<1>4c. ~raced => ~rv.raced /\ r.kind # "status" OBVIOUS
<1>4d. reqs = rvReqs \ {r} OBVIOUS
<1> HIDE DEF reqs, w, v, raced
<1>5. CASE r.kind = "list"
    <2>1. /\ Done(w, reqs, rvStore) /\ Len(w.links) <= 2 /\ w.lists = v.lists /\ w.raced = v.raced
          /\ \A q \in w.sent : ~q.done /\ q.kind = "notes"
        <3>1. r \in rvReqs /\ w = DeepLinks(v) /\ SameLook(rv, v) BY <1>1, <1>3, <1>4a, <1>5
        <3> QED BY <1>4d, <1>5, <3>1, ListingDone
    <2>2. ~w.raced => Dots(w, reqs \cup w.sent, rvStore)
        <3> SUFFICES ASSUME ~w.raced PROVE Dots(w, reqs \cup w.sent, rvStore)
            OBVIOUS
        <3> DEFINE after == reqs \cup w.sent
        <3>1. Dots(rv, rvReqs, rvStore) /\ w.lists = rv.lists BY <1>3, <1>4c, <2>1 DEF RvInv
        <3>2. \A q \in after : Racing(q) /\ q.done => q \in rvReqs BY <1>4b, <2>1
        <3>3. \A q \in rvReqs : q.kind = "status" /\ q.done => q \in after BY <1>4b, <1>5
        <3> HIDE DEF after
        <3>4. Dots(w, after, rvStore) BY <3>1, <3>2, <3>3, DotsKept
        <3> QED BY <3>4 DEF after
    <2> QED BY <1>1, <1>4, <2>1, <2>2, RvHas, BecomesDoes
<1>6. CASE r.kind # "list"
    <2>1. /\ w \in RvPage /\ w.msg /\ w.sent = rv.sent /\ w.raced = raced /\ w.links = rv.links /\ w.asked = rv.asked
          /\ w.panes = rv.panes /\ w.work = rv.work /\ w.focus = rv.focus /\ w.tools = rv.tools
          /\ w.hidden = rv.hidden /\ w.loads = rv.loads /\ w.lists = rv.lists /\ w.shown \subseteq rv.shown
        <3>1. CASE r.kind = "notes"
            <4>1. w = [v EXCEPT !.msg = TRUE, !.shown = {}, !.painted = 0] BY <1>4a, <3>1
            <4>2. {} \in SUBSET RvNote /\ 0 \in Nat /\ v \in RvPage BY <1>3 DEF SameLook
            <4>3. w \in RvPage /\ w.shown = {} BY <4>1, <4>2 DEF RvPage
            <4> QED BY <1>3, <4>1, <4>2, <4>3 DEF RvPage, SameLook
        <3>2. CASE r.kind # "notes"
            <4>1. w = [v EXCEPT !.msg = TRUE] BY <1>4a, <1>6, <3>2
            <4>2. v \in RvPage BY <1>3 DEF SameLook
            <4> QED BY <1>3, <4>1, <4>2 DEF RvPage, SameLook
        <3> QED BY <3>1, <3>2
    <2>2. Between(w, reqs) /\ ToolsOK(w) BY <1>4, <2>1, RvHas DEF Between, Unfocused, ToolsOK
    <2>3. NotesOK(w, reqs \cup w.sent, rvStore) BY <2>1, RvHas DEF NotesOK, CurrentRel, Focused
    <2>4. Done(w, reqs, rvStore) BY <2>2, <2>3 DEF Done
    <2>5. ~w.raced => Dots(w, reqs \cup w.sent, rvStore)
        <3>1. reqs \cup w.sent = reqs BY <2>1, RvHas
        <3> QED BY <1>4b, <1>4c, <2>1, <3>1, DotsKept DEF RvInv
    <2> QED BY <1>1, <1>4, <2>1, <2>4, <2>5, RvHas, BecomesDoes
<1> QED BY <1>5, <1>6

(* The four kinds of answers, up to where the handler is over. *)
LEMMA NotesAnswerDone ==
    ASSUME RvInv, NEW r \in rvReqs, r.kind = "notes", r.done, NEW reqs, reqs = rvReqs \ {r},
           NEW u, u = NotesAnswer(rv, r)
    PROVE  Done(u, reqs, rvStore) /\ u.sent = {} /\ u.lists = rv.lists /\ u.raced = rv.raced /\ u.links = rv.links
<1>1. /\ IsFiniteSet(reqs) /\ Between(rv, reqs) /\ NotesOK(rv, reqs, rvStore)
      /\ Changed(reqs) <=> Changed(rvReqs)
    BY Without DEF Changing, Changed
<1>2. CASE r.rel # CurrentRel(rv)
    <2>1. u = rv BY <1>2 DEF NotesAnswer
    <2>2. reqs \cup rv.sent = reqs BY RvHas
    <2> QED BY <1>1, <2>1, <2>2, RvHas DEF Done
<1>3. CASE r.rel = CurrentRel(rv)
    <2>1. u = [rv EXCEPT !.shown = r.notes, !.painted = r.nr] BY <1>3 DEF NotesAnswer
    <2>2. r.notes \in SUBSET RvNote /\ r.nr \in Nat /\ r.rel \in RvFiles /\ \A note \in r.notes : note.of = r.rel
        BY RvHas DEF ReqOK, RvReq
    <2>3. /\ u \in RvPage /\ u.shown = r.notes /\ u.painted = r.nr /\ u.sent = rv.sent /\ u.raced = rv.raced
          /\ u.links = rv.links /\ u.asked = rv.asked /\ u.msg = rv.msg
          /\ u.panes = rv.panes /\ u.work = rv.work /\ u.focus = rv.focus /\ u.tools = rv.tools
          /\ u.hidden = rv.hidden /\ u.loads = rv.loads /\ u.lists = rv.lists
        BY <2>1, <2>2, RvHas DEF RvPage
    <2>4. Between(u, reqs) /\ ToolsOK(u) BY <1>1, <2>3, RvHas DEF Between, Unfocused, ToolsOK
    <2>5. CurrentRel(u) = r.rel BY <1>3, <2>3 DEF CurrentRel, Focused
    <2>6. NotesOK(u, reqs, rvStore)
        <3> SUFFICES ASSUME ~rv.hidden PROVE NotesOK(u, reqs, rvStore)
            BY <2>3 DEF NotesOK
        <3>1. rv.loads # 0 BY RvHas DEF NotesOK
        <3>2. ~rv.msg /\ ~Changed(reqs) /\ r.nr = rv.loads => r.notes = rvStore[r.rel].notes
            BY <1>1, RvHas DEF NotesOK
        <3> QED BY <1>1, <2>2, <2>3, <2>5, <3>1, <3>2 DEF NotesOK
    <2>7. reqs \cup u.sent = reqs BY <2>3, RvHas
    <2> QED BY <2>3, <2>4, <2>6, <2>7, RvHas DEF Done
<1> QED BY <1>2, <1>3

LEMMA StatusAnswerDone ==
    ASSUME RvInv, NEW r \in rvReqs, r.kind = "status", r.done, NEW reqs, reqs = rvReqs \ {r},
           NEW u, u = StatusAnswer(rv, r)
    PROVE  /\ Done(u, reqs, rvStore) /\ u.sent = {} /\ u.raced = rv.raced /\ u.links = rv.links
           /\ ~rv.raced => Dots(u, reqs, rvStore)
<1>1. IsFiniteSet(reqs) /\ Between(rv, reqs) /\ NotesOK(rv, reqs, rvStore) BY Without DEF Changing
<1>2. ~rv.raced => Dots(rv, rvReqs, rvStore) /\ \A q \in reqs : ~Racing(q)
    BY DEF RvInv, Single, Racing
<1>3. CASE rv.lists = <<>>
    <2>1. u = rv BY <1>3 DEF StatusAnswer
    <2>2. reqs \cup rv.sent = reqs BY RvHas
    <2>3. ~rv.raced => Dots(u, reqs, rvStore) BY <1>2, <1>3, <2>1 DEF Dots, Racing
    <2> QED BY <1>1, <2>1, <2>2, <2>3, RvHas DEF Done
<1>4. CASE rv.lists # <<>>
    <2> DEFINE n == Len(rv.lists)
               last == [rv.lists[n] EXCEPT ![r.rel] = r.status]
               lists == [rv.lists EXCEPT ![n] = last]
    <2>1. u = [rv EXCEPT !.lists = lists] BY <1>4, RvHas DEF StatusAnswer, RvPage
    <2>2. rv.lists \in Seq([RvFiles -> States]) /\ n \in DOMAIN rv.lists
        <3>1. rv.lists \in Seq([RvFiles -> States]) BY RvHas DEF RvPage
        <3> QED BY <1>4, <3>1
    <2>3. r.rel \in RvFiles /\ r.status \in States BY RvHas DEF ReqOK
    <2>4. last \in [RvFiles -> States]
        <3>1. rv.lists[n] \in [RvFiles -> States] BY <2>2
        <3> QED BY <2>3, <3>1
    <2> HIDE DEF last
    <2>5. lists \in Seq([RvFiles -> States]) /\ Len(lists) = n /\ lists[n] = last BY <2>2, <2>4
    <2>6. ~rv.raced => last = StatusesOf(rvStore) BY <1>2, <1>4 DEF Dots, last
    <2> HIDE DEF lists, n
    <2>7. /\ u \in RvPage /\ u.lists = lists /\ u.sent = rv.sent /\ u.raced = rv.raced
          /\ u.links = rv.links /\ u.asked = rv.asked /\ u.msg = rv.msg /\ u.shown = rv.shown /\ u.painted = rv.painted
          /\ u.panes = rv.panes /\ u.work = rv.work /\ u.focus = rv.focus /\ u.tools = rv.tools
          /\ u.hidden = rv.hidden /\ u.loads = rv.loads
        BY <2>1, <2>5, RvHas DEF RvPage
    <2>7a. FilesListed(u.panes, u.lists)
        <3>1. FilesListed(rv.panes, rv.lists) BY RvHas DEF Unfocused
        <3>2. Len(lists) = Len(rv.lists) BY <2>5 DEF n
        <3> QED BY <2>7, <3>1, <3>2 DEF FilesListed
    <2>8. Between(u, reqs) /\ ToolsOK(u) BY <1>1, <2>7, <2>7a, RvHas DEF Between, Unfocused, ToolsOK
    <2>9. NotesOK(u, reqs, rvStore) BY <1>1, <2>7 DEF NotesOK, CurrentRel, Focused
    <2>10. reqs \cup u.sent = reqs BY <2>7, RvHas
    <2>11. ~rv.raced => Dots(u, reqs, rvStore) BY <1>2, <2>5, <2>6, <2>7 DEF Dots, Racing
    <2> QED BY <2>7, <2>8, <2>9, <2>10, <2>11, RvHas DEF Done
<1> QED BY <1>3, <1>4

LEMMA ListAnswerDone ==
    ASSUME RvInv, NEW r \in rvReqs, r.kind = "list", r.done, NEW reqs, reqs = rvReqs \ {r},
           NEW v, v = ListAnswer(rv, r)
    PROVE  /\ Done(v, reqs, rvStore) /\ Len(v.links) <= 2 /\ v.raced = rv.raced
           /\ ~rv.raced => Dots(v, reqs \cup v.sent, rvStore)
           /\ \A q \in v.sent : q.kind = "notes"
           /\ SelectKept(rv, v) \/ Tells(v)
<1> DEFINE lists == Append(rv.lists, r.list)
           u == [rv EXCEPT !.lists = lists]
<1>1. v = DeepLinks(u) BY RvHas DEF ListAnswer, RvPage
<1>2. rv.lists \in Seq([RvFiles -> States]) /\ r.list \in [RvFiles -> States] BY RvHas DEF RvPage, ReqOK, RvReq
<1>3. lists \in Seq([RvFiles -> States]) /\ lists[Len(lists)] = r.list BY <1>2, AppendProperties
<1>3b. Len(rv.lists) <= Len(lists)
    <2>1. Len(rv.lists) \in Nat /\ Len(lists) = Len(rv.lists) + 1 BY <1>2, AppendProperties
    <2> QED BY <2>1
<1>3a. u = [rv EXCEPT !.lists = lists] OBVIOUS
<1> HIDE DEF lists, u
<1>4. SameLook(rv, u) /\ u.lists = lists /\ u.raced = rv.raced
    <2>1. u \in RvPage BY <1>3, <1>3a, RvHas DEF RvPage
    <2> QED BY <1>3a, <1>3b, <2>1, RvHas DEF RvPage, SameLook
<1>5. /\ Done(v, reqs, rvStore) /\ Len(v.links) <= 2 /\ v.lists = u.lists /\ v.raced = u.raced
      /\ \A q \in v.sent : ~q.done /\ q.kind = "notes"
      /\ SelectKept(rv, v) \/ Tells(v)
    BY <1>1, <1>4, ListingDone
<1>6. ASSUME ~rv.raced PROVE Dots(v, reqs \cup v.sent, rvStore)
    <2>1. r.list = StatusesOf(rvStore) /\ \A q \in reqs : ~Racing(q) BY <1>6 DEF RvInv, Single, Dots, Racing
    <2>2. \A q \in reqs \cup v.sent : q.kind \notin {"list", "status"} BY <1>5, <2>1 DEF Racing
    <2> QED BY <1>3, <1>4, <1>5, <2>1, <2>2 DEF Dots
<1> QED BY <1>4, <1>5, <1>6

LEMMA NoteChangedDone ==
    ASSUME RvInv, NEW r \in rvReqs, r.kind \in Changing, NEW reqs, reqs = rvReqs \ {r},
           NEW v, v = NoteChanged(rv, r)
    PROVE  /\ Done(v, reqs, rvStore) /\ v.links = rv.links /\ v.raced = rv.raced
           /\ ~rv.raced => Dots(v, reqs \cup v.sent, rvStore)
           /\ SelectKept(rv, v) /\ \A q \in v.sent : q.kind = "notes"
<1>1. v = LoadNotes(rv, r.rel) BY DEF NoteChanged
<1>2. r.rel \in RvFiles BY RvHas DEF ReqOK, Changing
<1>3. Between(rv, reqs) BY Without
<1>4. /\ Between(v, reqs) /\ NotesFresh(v, reqs \cup v.sent) /\ Opens(rv, v)
      /\ v.panes = rv.panes /\ v.focus = rv.focus /\ v.tools = rv.tools
      /\ v.status = rv.status /\ v.fresh = rv.fresh
    BY <1>1, <1>2, <1>3, LoadNotesDoes
<1>5. Ready(v, reqs) BY <1>4, RvHas DEF Ready, ToolsOK
<1>6. Done(v, reqs, rvStore) BY <1>5, ReadyDone
<1>7. ASSUME ~rv.raced PROVE Dots(v, reqs \cup v.sent, rvStore)
    <2> DEFINE after == reqs \cup v.sent
    <2>1. Dots(rv, rvReqs, rvStore) /\ v.lists = rv.lists BY <1>4, <1>7 DEF RvInv, Opens, Follows
    <2>2. \A q \in after : Racing(q) /\ q.done => q \in rvReqs BY <1>6 DEF Done, Between, Unfocused
    <2>3. \A q \in rvReqs : q.kind = "status" /\ q.done => q \in after BY DEF Changing
    <2> HIDE DEF after
    <2>4. Dots(v, after, rvStore) BY <2>1, <2>2, <2>3, DotsKept
    <2> QED BY <2>4 DEF after
<1>8. SelectKept(rv, v) BY <1>4 DEF SelectKept, CurrentRel, Focused
<1>9. \A q \in v.sent : q.kind = "notes" BY <1>4, RvHas DEF Opens, Follows, ForNotes
<1> QED BY <1>4, <1>6, <1>7, <1>8, <1>9 DEF Opens, Follows

LEMMA ArrivesInv == ASSUME RvInv, NEW r, Arrives(r) PROVE RvInv'
<1> DEFINE reqs == rvReqs \ {r}
           u == CASE r.kind = "notes" -> NotesAnswer(rv, r) [] r.kind = "list" -> ListAnswer(rv, r)
                  [] r.kind = "status" -> StatusAnswer(rv, r) [] OTHER -> NoteChanged(rv, r)
<1>1. r \in rvReqs /\ r.done /\ Becomes(u, reqs) /\ UNCHANGED rvStore BY DEF Arrives
<1>2. /\ r.kind = "notes" => u = NotesAnswer(rv, r)
      /\ r.kind = "list" => u = ListAnswer(rv, r)
      /\ r.kind = "status" => u = StatusAnswer(rv, r)
      /\ r.kind \in Changing => u = NoteChanged(rv, r)
    BY DEF Changing
<1>3. r.kind \in {"notes", "list", "status"} \cup Changing
    <2>1. r \in RvReq BY <1>1, RvHas DEF ReqOK
    <2>2. r.kind \in {"list", "notes", "add", "edit", "delete", "status"} BY <2>1 DEF RvReq
    <2> QED BY <2>2 DEF Changing
<1>4. IsFiniteSet(reqs) BY <1>1, Without
<1>5. reqs = rvReqs \ {r} OBVIOUS
<1> HIDE DEF reqs, u
<1>6. CASE r.kind = "notes"
    <2>1. Done(u, reqs, rvStore) /\ u.sent = {} /\ u.lists = rv.lists /\ u.raced = rv.raced /\ u.links = rv.links
        BY <1>1, <1>2, <1>5, <1>6, NotesAnswerDone
    <2>2. ~u.raced => Dots(u, reqs \cup u.sent, rvStore)
        <3> DEFINE after == reqs \cup u.sent
        <3>1. \A q \in after : q \in rvReqs BY <1>5, <2>1
        <3>2. \A q \in rvReqs : q.kind = "status" => q \in after BY <1>5, <1>6
        <3> HIDE DEF after
        <3>3. ~u.raced => Dots(u, after, rvStore) BY <2>1, <3>1, <3>2, DotsKept DEF RvInv
        <3> QED BY <3>3 DEF after
    <2> QED BY <1>1, <1>4, <2>1, <2>2, RvHas, BecomesDoes
<1>7. CASE r.kind = "list"
    <2>1. /\ Done(u, reqs, rvStore) /\ Len(u.links) <= 2 /\ u.raced = rv.raced
          /\ ~rv.raced => Dots(u, reqs \cup u.sent, rvStore)
        BY <1>1, <1>2, <1>5, <1>7, ListAnswerDone
    <2> QED BY <1>1, <1>4, <2>1, RvHas, BecomesDoes
<1>8. CASE r.kind = "status"
    <2>1. /\ Done(u, reqs, rvStore) /\ u.sent = {} /\ u.raced = rv.raced /\ u.links = rv.links
          /\ ~rv.raced => Dots(u, reqs, rvStore)
        BY <1>1, <1>2, <1>5, <1>8, StatusAnswerDone
    <2>2. reqs \cup u.sent = reqs BY <2>1
    <2> QED BY <1>1, <1>4, <2>1, <2>2, RvHas, BecomesDoes
<1>9. CASE r.kind \in Changing
    <2>1. /\ Done(u, reqs, rvStore) /\ u.links = rv.links /\ u.raced = rv.raced
          /\ ~rv.raced => Dots(u, reqs \cup u.sent, rvStore)
        BY <1>1, <1>2, <1>5, <1>9, NoteChangedDone
    <2> QED BY <1>1, <1>4, <2>1, RvHas, BecomesDoes
<1> QED BY <1>3, <1>6, <1>7, <1>8, <1>9

LEMMA NetworkInv == RvInv /\ Network => RvInv'
BY ServeInv, ArrivesInv, RefusedInv, LostInv DEF Network

-----------------------------------------------------------------------------
LEMMA RvInitInv == RvInit => RvInv
<1> SUFFICES ASSUME RvInit PROVE RvInv
    OBVIOUS
<1> DEFINE q == RvRequest("list", "", NoNote, "", 0)
           panes == <<FreshPane>>
<1>1. PICK links \in RvLinks :
         rv = [panes |-> panes, focus |-> 1, tools |-> FALSE, work |-> {}, lists |-> <<>>,
               links |-> links, status |-> "unreviewed", fresh |-> FALSE, shown |-> {}, hidden |-> TRUE, msg |-> FALSE, painted |-> 0, loads |-> 0,
               asked |-> 0, sent |-> {}, clicks |-> Len(links), raced |-> FALSE]
    BY DEF RvInit
<1>2. links \in Seq(RvFiles) /\ Len(links) <= 2 /\ Len(links) \in Nat
    <2>1. links \in Seq(RvFiles) /\ Len(links) <= 2 BY RvAssumption
    <2> QED BY <2>1
<1>3. panes \in Seq(Pane) /\ DOMAIN panes = {1} /\ panes[1] = FreshPane BY FreshDoes
<1>4. ReqOK(q) /\ q.nr = 0 /\ ~q.done /\ q.kind = "list"
    <2> DEFINE kind == "list"
               rel == ""
               nr == 0
    <2>1. Askable(kind, rel, NoNote, rel) /\ nr \in Nat BY DEF Askable, Changing
    <2>2. q = RvRequest(kind, rel, NoNote, rel, nr) OBVIOUS
    <2>3. kind = "list" /\ nr = 0 OBVIOUS
    <2> HIDE DEF q, kind, rel, nr
    <2> QED BY <2>1, <2>2, <2>3, RequestOK
<1>5. rvReqs = {q} BY DEF RvInit
<1> HIDE DEF q, panes
<1>6. /\ rv \in RvPage /\ rv.panes = panes /\ rv.focus = 1 /\ ~rv.tools /\ rv.work = {} /\ rv.lists = <<>> /\ rv.links = links
      /\ rv.hidden /\ rv.sent = {} /\ rv.asked = 0
    <2>1. {} \in SUBSET RvWork /\ {} \in SUBSET RvNote /\ {} \in SUBSET RvReq /\ <<>> \in Seq([RvFiles -> States]) OBVIOUS
    <2>2. "unreviewed" \in States BY DEF States
    <2> QED BY <1>1, <1>2, <1>3, <2>1, <2>2 DEF RvPage
<1>7. RvStored(rvStore)
    <2>1. \A f \in RvFiles : [id |-> 0, of |-> f, edited |-> FALSE] \in RvNote BY DEF RvNote
    <2>2. rvStore = [f \in RvFiles |-> [status |-> "unreviewed", notes |-> {[id |-> 0, of |-> f, edited |-> FALSE]}]]
        BY DEF RvInit
    <2> QED BY <2>1, <2>2 DEF RvStored, States
<1>8. PanesInv(panes, {}) BY <1>3, FreshDoes DEF PanesInv, PaneOK
<1>9. Between(rv, rvReqs) /\ ToolsOK(rv)
    <2>1. IsFiniteSet(rv.sent) /\ \A r \in rv.sent : ~r.done BY <1>6, FS_EmptySet
    <2>2. \A r \in rvReqs \cup rv.sent : ReqOK(r) /\ r.nr <= rv.asked BY <1>4, <1>5, <1>6
    <2>2a. FilesListed(rv.panes, rv.lists)
        <3>1. NoFile.list = 0 BY DEF NoFile
        <3>2. Len(rv.lists) = 0 BY <1>6
        <3> QED BY <1>3, <1>6, <3>1, <3>2, FreshDoes DEF FilesListed
    <2>3. Between(rv, rvReqs) BY <1>3, <1>6, <1>8, <2>1, <2>2, <2>2a DEF Between, Unfocused
    <2>4. rv.tools \in BOOLEAN /\ panes[1].img \in BOOLEAN BY <1>3, <1>6, FreshDoes DEF RvPage, Pane
    <2>5. ToolsOK(rv) BY <1>3, <1>6, <2>4, FreshDoes DEF ToolsOK
    <2> QED BY <2>3, <2>5
<1>10. Done(rv, rvReqs, rvStore) BY <1>6, <1>9 DEF Done, NotesOK
<1>11. Single(rvReqs) /\ Dots(rv, rvReqs, rvStore) BY <1>4, <1>5, <1>6 DEF Single, Dots
<1>12. IsFiniteSet(rvReqs) BY <1>5, FS_Singleton
<1> QED BY <1>2, <1>6, <1>7, <1>10, <1>11, <1>12 DEF RvInv

LEMMA RvNextInv == RvInv /\ [RvNext]_rvVars => RvInv'
<1>1. RvInv /\ UNCHANGED rvVars => RvInv'
    <2> SUFFICES ASSUME RvInv, UNCHANGED rvVars PROVE RvInv'
        OBVIOUS
    <2>1. rv' = rv /\ rvStore' = rvStore /\ rvReqs' = rvReqs BY DEF rvVars
    <2> QED BY <2>1 DEF RvInv
<1> QED BY <1>1, ClicksInv, NetworkInv, DrawingInv DEF RvNext

-----------------------------------------------------------------------------
(* A render keeps every pane's file, and all that is not of the drawing.     *)
FilesKept(panes) == DOMAIN panes = DOMAIN rv.panes /\ \A i \in DOMAIN rv.panes : panes[i].file = rv.panes[i].file
Stays(v) ==
    /\ v.lists = rv.lists /\ v.shown = rv.shown /\ v.focus = rv.focus /\ v.raced = rv.raced
    /\ v.status = rv.status /\ v.fresh = rv.fresh

LEMMA DrawsKeep ==
    ASSUME RvInv, NEW w \in rv.work, Draws(w) \/ ImageLoads(w) \/ Breaks(w)
    PROVE  /\ FilesKept(rv'.panes) /\ Stays(rv')
           /\ rv'.clicks = rv.clicks \/ rv'.clicks = rv.clicks + 1
<1>1. rv \in RvPage /\ rv.panes \in Seq(Pane) BY RvHas DEF RvPage
<1>2. \A i \in DOMAIN rv.panes : rv.panes[i] \in Pane BY <1>1
<1>4. /\ \A b : FilesKept([rv.panes EXCEPT ![w.pane].body = b])
      /\ FilesKept([rv.panes EXCEPT ![w.pane].img = TRUE])
      /\ \A b : FilesKept([rv.panes EXCEPT ![w.pane] = [@ EXCEPT !.img = FALSE, !.body = b]])
    BY <1>2 DEF Pane, FilesKept
<1>5. FilesKept(rv.panes) BY DEF FilesKept
<1>6. /\ FilesKept(rv'.panes) /\ Stays(rv')
      /\ rv'.clicks = rv.clicks \/ rv'.clicks = rv.clicks + 1
    <2>1. ASSUME NEW rest, rv' = [rv EXCEPT !.work = rest] PROVE <1>6!:
        <3>1. rv'.panes = rv.panes /\ Stays(rv') /\ rv'.clicks = rv.clicks
            BY <1>1, <2>1 DEF RvPage, Stays
        <3> QED BY <1>5, <3>1
    <2>2. CASE Draws(w)
        <3>1. PICK rest, b : \/ rv' = [rv EXCEPT !.work = rest]
                             \/ rv' = [rv EXCEPT !.work = rest, !.panes[w.pane].body = b]
            BY <2>2 DEF Draws
        <3>2. CASE rv' = [rv EXCEPT !.work = rest, !.panes[w.pane].body = b]
            <4>1. rv'.panes = [rv.panes EXCEPT ![w.pane].body = b] /\ Stays(rv')
                  /\ rv'.clicks = rv.clicks
                BY <1>1, <3>2 DEF RvPage, Stays
            <4> QED BY <1>4, <4>1
        <3> QED BY <2>1, <3>1, <3>2
    <2>3. CASE ImageLoads(w)
        <3>1. PICK rest : \/ rv' = [rv EXCEPT !.work = rest]
                          \/ rv' = SyncTools([rv EXCEPT !.work = rest, !.panes[w.pane].img = TRUE])
            BY <2>3 DEF ImageLoads
        <3>2. CASE rv' = SyncTools([rv EXCEPT !.work = rest, !.panes[w.pane].img = TRUE])
            <4>1. rv'.panes = [rv.panes EXCEPT ![w.pane].img = TRUE] /\ Stays(rv')
                  /\ rv'.clicks = rv.clicks
                BY <1>1, <3>2 DEF RvPage, Stays, SyncTools
            <4> QED BY <1>4, <4>1
        <3> QED BY <2>1, <3>1, <3>2
    <2>4. CASE Breaks(w)
        <3> DEFINE c == rv.clicks + 1
        <3>1. PICK rest, b : \/ rv' = [rv EXCEPT !.work = rest, !.clicks = @ + 1]
                             \/ rv' = SyncTools([rv EXCEPT !.work = rest, !.clicks = @ + 1,
                                                           !.panes[w.pane] = [@ EXCEPT !.img = FALSE, !.body = b]])
            BY <2>4 DEF Breaks
        <3>2. \/ rv' = [rv EXCEPT !.work = rest, !.clicks = c]
              \/ rv' = SyncTools([rv EXCEPT !.work = rest, !.clicks = c,
                                            !.panes[w.pane] = [@ EXCEPT !.img = FALSE, !.body = b]])
            BY <1>1, <3>1 DEF RvPage, Stays
        <3>3. c = rv.clicks + 1 OBVIOUS
        <3> HIDE DEF c
        <3>4. CASE rv' = [rv EXCEPT !.work = rest, !.clicks = c]
            <4>1. rv'.panes = rv.panes /\ Stays(rv') /\ rv'.clicks = c
                BY <1>1, <3>4 DEF RvPage, Stays
            <4> QED BY <1>5, <3>3, <4>1
        <3>5. CASE rv' = SyncTools([rv EXCEPT !.work = rest, !.clicks = c,
                                              !.panes[w.pane] = [@ EXCEPT !.img = FALSE, !.body = b]])
            <4>1. rv'.panes = [rv.panes EXCEPT ![w.pane] = [@ EXCEPT !.img = FALSE, !.body = b]]
                  /\ Stays(rv') /\ rv'.clicks = c
                BY <1>1, <3>5 DEF RvPage, Stays, SyncTools
            <4> QED BY <1>4, <3>3, <4>1
        <3> QED BY <3>2, <3>4, <3>5
    <2> QED BY <2>2, <2>3, <2>4
<1> QED BY <1>6

-----------------------------------------------------------------------------
(* The status select.                                                      *)

(* While it is up to date, the one change under way is the one it shows,    *)
(* and what it shows is what is stored when that change is made, or none is *)
(* under way.                                                              *)
SelectOK(u, reqs, s) ==
    u.fresh /\ CurrentRel(u) # "" /\ ~u.raced =>
        /\ (\A r \in reqs : r.kind # "status") => u.status = s[CurrentRel(u)].status
        /\ \A r \in reqs : r.kind = "status" =>
               /\ r.rel = CurrentRel(u) /\ r.status = u.status
               /\ r.done => s[CurrentRel(u)].status = u.status

(* It stays while nothing but an answered change is taken away.             *)
LEMMA SelectStays ==
    ASSUME SelectOK(rv, rvReqs, rvStore), SelectKept(rv, rv'), UNCHANGED rvStore, ~rv'.raced => ~rv.raced,
           ~rv'.raced => \A q \in rvReqs' : q.kind = "status" => q \in rvReqs,
           ~rv'.raced => \A q \in rvReqs : q.kind = "status" /\ q \notin rvReqs' => q.done
    PROVE  SelectOK(rv', rvReqs', rvStore')
<1> SUFFICES ASSUME rv.fresh, CurrentRel(rv) # "", ~rv.raced, ~rv'.raced
             PROVE  /\ (\A r \in rvReqs' : r.kind # "status") => rv.status = rvStore[CurrentRel(rv)].status
                    /\ \A r \in rvReqs' : r.kind = "status" =>
                           /\ r.rel = CurrentRel(rv) /\ r.status = rv.status
                           /\ r.done => rvStore[CurrentRel(rv)].status = rv.status
    BY DEF SelectOK, SelectKept
<1>1. /\ (\A r \in rvReqs : r.kind # "status") => rv.status = rvStore[CurrentRel(rv)].status
      /\ \A r \in rvReqs : r.kind = "status" =>
             /\ r.rel = CurrentRel(rv) /\ r.status = rv.status
             /\ r.done => rvStore[CurrentRel(rv)].status = rv.status
    BY DEF SelectOK
<1>2. ASSUME \A r \in rvReqs' : r.kind # "status" PROVE rv.status = rvStore[CurrentRel(rv)].status
    <2>1. CASE \A r \in rvReqs : r.kind # "status" BY <1>1, <2>1
    <2>2. ASSUME NEW r \in rvReqs, r.kind = "status" PROVE rv.status = rvStore[CurrentRel(rv)].status
        <3>1. r.done BY <1>2, <2>2
        <3> QED BY <1>1, <2>2, <3>1
    <2> QED BY <2>1, <2>2
<1> QED BY <1>1, <1>2

(* The select that was set from the newest listing tells what the dots tell. *)
LEMMA SelectIsSet ==
    ASSUME RvInv', Tells(rv'), \A q \in rvReqs' : q.kind = "status" => q \in rvReqs, UNCHANGED rvStore
    PROVE  SelectOK(rv', rvReqs', rvStore')
<1> SUFFICES ASSUME rv'.fresh, CurrentRel(rv') # "", ~rv'.raced
             PROVE  /\ rv'.status = rvStore'[CurrentRel(rv')].status
                    /\ \A r \in rvReqs' : r.kind # "status"
    BY DEF SelectOK
<1>1. /\ CurrentRel(rv') \in RvFiles /\ rv'.lists # <<>> /\ rv'.status = rv'.lists[Len(rv'.lists)][CurrentRel(rv')]
      /\ \A r \in rvReqs' : r.kind # "status"
    BY DEF Tells
<1>2. Dots(rv', rvReqs', rvStore') BY DEF RvInv
<1>3. rv'.lists[Len(rv'.lists)] = StatusesOf(rvStore') BY <1>1, <1>2 DEF Dots
<1> QED BY <1>1, <1>3 DEF StatusesOf

(* A handler that keeps the select, or sets it anew, and asks for no change. *)
LEMMA BecomesSelect ==
    ASSUME RvInv', SelectOK(rv, rvReqs, rvStore), NEW u \in RvPage, NEW reqs, Becomes(u, reqs), UNCHANGED rvStore,
           ~u.raced => ~rv.raced, SelectKept(rv, u) \/ Tells(u), reqs \subseteq rvReqs,
           ~u.raced => \A q \in rvReqs : q.kind = "status" /\ q \notin reqs => q.done,
           \A q \in u.sent : q.kind # "status"
    PROVE  SelectOK(rv', rvReqs', rvStore')
<1> DEFINE all == reqs \cup u.sent
           races == Cardinality({r \in all : r.kind \in {"list", "status"}}) > 1
           raced == u.raced \/ races
<1>1. rv' = [u EXCEPT !.sent = {}, !.raced = raced] /\ rvReqs' = all BY DEF Becomes, RvPage
<1>2. ~raced => ~u.raced OBVIOUS
<1>3. all = reqs \cup u.sent OBVIOUS
<1> HIDE DEF all, races, raced
<1>4. /\ rv'.raced = raced /\ rv'.status = u.status /\ rv'.fresh = u.fresh /\ rv'.panes = u.panes
      /\ rv'.focus = u.focus /\ rv'.lists = u.lists
    BY <1>1 DEF RvPage
<1>5. CurrentRel(rv') = CurrentRel(u) BY <1>4 DEF CurrentRel, Focused
<1>6. \A q \in rvReqs' : q.kind = "status" => q \in rvReqs BY <1>1, <1>3
<1>7. CASE SelectKept(rv, u)
    <2>1. SelectKept(rv, rv') BY <1>4, <1>5, <1>7 DEF SelectKept
    <2>2. ~rv'.raced => \A q \in rvReqs : q.kind = "status" /\ q \notin rvReqs' => q.done
        BY <1>1, <1>2, <1>3, <1>4
    <2> QED BY <1>2, <1>4, <1>6, <2>1, <2>2, SelectStays
<1>8. CASE Tells(u)
    <2>1. ASSUME rv'.fresh, CurrentRel(rv') # ""
          PROVE  /\ CurrentRel(rv') \in RvFiles /\ rv'.lists # <<>>
                 /\ rv'.status = rv'.lists[Len(rv'.lists)][CurrentRel(rv')]
                 /\ \A r \in rvReqs : r.kind # "status"
        BY <1>4, <1>5, <1>8, <2>1 DEF Tells
    <2>2. Tells(rv') BY <2>1 DEF Tells
    <2> QED BY <1>6, <2>2, SelectIsSet
<1> QED BY <1>7, <1>8

LEMMA UserSelect ==
    ASSUME RvInv, RvInv', SelectOK(rv, rvReqs, rvStore), NEW u \in RvPage, User(u), u.raced = rv.raced,
           SelectKept(rv, u) \/ Tells(u), \A q \in u.sent : q.kind # "status"
    PROVE  SelectOK(rv', rvReqs', rvStore')
<1> DEFINE c == u.clicks + 1
           v == [u EXCEPT !.clicks = c]
<1>1. Becomes([u EXCEPT !.clicks = @ + 1], rvReqs) /\ UNCHANGED rvStore BY DEF User
<1>2. c \in Nat
    <2>1. u.clicks \in Nat BY DEF RvPage
    <2> QED BY <2>1
<1>3. Becomes(v, rvReqs) BY <1>1 DEF RvPage
<1> HIDE DEF c
<1>4. /\ v \in RvPage /\ v.raced = u.raced /\ v.status = u.status /\ v.fresh = u.fresh /\ v.panes = u.panes
      /\ v.focus = u.focus /\ v.lists = u.lists /\ v.sent = u.sent
    BY <1>2 DEF RvPage
<1> HIDE DEF v
<1>5. SelectKept(rv, v) \/ Tells(v) BY <1>4 DEF SelectKept, Tells, CurrentRel, Focused
<1> QED BY <1>1, <1>3, <1>4, <1>5, BecomesSelect

LEMMA ReadySelect ==
    ASSUME RvInv, RvInv', SelectOK(rv, rvReqs, rvStore), NEW u, Ready(u, rvReqs), Opens(rv, u), Tells(u), User(u)
    PROVE  SelectOK(rv', rvReqs', rvStore')
<1>1. u \in RvPage /\ u.raced = rv.raced BY DEF Ready, Between, Unfocused, Opens, Follows
<1>2. \A q \in u.sent : q.kind # "status" BY RvHas DEF Opens, Follows, ForNotes
<1> QED BY <1>1, <1>2, UserSelect

LEMMA AskedSelect ==
    ASSUME RvInv, RvInv', SelectOK(rv, rvReqs, rvStore), NEW kind, NEW rel, NEW note, NEW status, kind # "status",
           Askable(kind, rel, note, status), User(RvAsks(rv, kind, rel, note, status))
    PROVE  SelectOK(rv', rvReqs', rvStore')
<1> DEFINE u == RvAsks(rv, kind, rel, note, status)
<1>1. u = RvAsks(rv, kind, rel, note, status) /\ User(u) OBVIOUS
<1>2. u.status = rv.status /\ u.fresh = rv.fresh BY RvHas DEF RvAsks, RvPage
<1> HIDE DEF u
<1>3. Asked(rv, u, rvReqs, kind, note) BY <1>1, RvHas, AsksDo
<1>4. u \in RvPage /\ SameView(rv, u) BY <1>3 DEF Asked, Between, Unfocused
<1>5. \A q \in u.sent : q.kind # "status" BY <1>3, RvHas DEF Asked
<1>6. SelectKept(rv, u) /\ u.raced = rv.raced BY <1>2, <1>4 DEF SelectKept, SameView, CurrentRel, Focused
<1> QED BY <1>1, <1>4, <1>5, <1>6, UserSelect

(* The user's own choice: shown at once, and the one change under way.      *)
LEMMA ChosenSelect ==
    ASSUME RvInv, RvInv', SelectOK(rv, rvReqs, rvStore), SetStatus
    PROVE  SelectOK(rv', rvReqs', rvStore')
<1> DEFINE rel == CurrentRel(rv)
<1>1. PICK status \in States : rel # "" /\ User(RvAsks(Chosen(status), "status", rel, NoNote, status))
    BY DEF SetStatus, Chosen
<1>2. rel \in RvFiles BY <1>1, CurrentDoes
<1> DEFINE u == RvAsks(Chosen(status), "status", rel, NoNote, status)
<1>3. rel = CurrentRel(rv) /\ User(u) BY <1>1
<1> HIDE DEF rel
<1>4. /\ Asked(rv, u, rvReqs, "status", NoNote) /\ u.status = status /\ u.fresh
      /\ \A q \in u.sent : q.rel = rel /\ q.status = status
    BY <1>2, ChosenAsked
<1> HIDE DEF u
<1>5. u \in RvPage /\ SameView(rv, u) BY <1>4 DEF Asked, Between, Unfocused
<1>6. PICK q : u.sent = {q} /\ q.kind = "status" /\ ~q.done /\ q.rel = rel /\ q.status = status
    BY <1>4, RvHas DEF Asked
<1> DEFINE all == rvReqs \cup {q}
<1>7. PICK c, raced : rv' = [u EXCEPT !.clicks = c, !.sent = {}, !.raced = raced] /\ rvReqs' = all
    BY <1>3, <1>5, <1>6 DEF User, Becomes, RvPage
<1>8. /\ rv'.status = status /\ CurrentRel(rv') = rel
    BY <1>3, <1>4, <1>5, <1>7 DEF RvPage, SameView, CurrentRel, Focused
<1>9. q \in rvReqs' /\ Racing(q) BY <1>6, <1>7 DEF Racing
<1>10. ~rv'.raced => \A r \in rvReqs' : r.kind = "status" => r = q
    <2>1. ~rv'.raced => Single(rvReqs') BY DEF RvInv
    <2> QED BY <1>9, <2>1 DEF Single, Racing
<1> QED BY <1>6, <1>8, <1>9, <1>10 DEF SelectOK

LEMMA ClicksSelect ==
    ASSUME RvInv, RvInv', SelectOK(rv, rvReqs, rvStore), Clicks
    PROVE  SelectOK(rv', rvReqs', rvStore')
<1>1. CASE OpenListed
    <2>1. PICK f \in RvFiles : User(OpenFile(rv, Newest(rv, f))) BY <1>1 DEF OpenListed
    <2> DEFINE file == Newest(rv, f)
               u == OpenFile(rv, file)
    <2>2. file \in RvFile /\ file.list <= Len(rv.lists)
        <3>1. Len(rv.lists) \in Nat BY RvHas DEF RvPage
        <3> QED BY <3>1 DEF Newest, RvFile
    <2>3. u = OpenFile(rv, file) /\ User(u) BY <2>1
    <2> HIDE DEF file, u
    <2>4. Ready(u, rvReqs) /\ Opens(rv, u) /\ Tells(u) BY <2>2, <2>3, RvHas, OpenFileDoes
    <2> QED BY <2>3, <2>4, ReadySelect
<1>2. CASE Split
    <2>1. PICK n \in {1, 2} : User(BuildPanes(rv, n)) BY <1>2 DEF Split
    <2> DEFINE u == BuildPanes(rv, n)
    <2>2. u = BuildPanes(rv, n) /\ User(u) BY <2>1
    <2> HIDE DEF u
    <2>3. Ready(u, rvReqs) /\ Opens(rv, u) /\ Tells(u) BY <2>2, RvHas, BuildPanesDoes
    <2> QED BY <2>2, <2>3, ReadySelect
<1>3. CASE Focus
    <2>1. PICK i \in DOMAIN rv.panes : User(FocusPane(rv, i)) BY <1>3 DEF Focus
    <2> DEFINE u == FocusPane(rv, i)
    <2>2. u = FocusPane(rv, i) /\ User(u) BY <2>1
    <2> HIDE DEF u
    <2>3. Ready(u, rvReqs) /\ Opens(rv, u) /\ Tells(u) BY <2>2, RvHas, FocusPaneDoes
    <2> QED BY <2>2, <2>3, ReadySelect
<1>4. CASE Relist
    <2>1. Askable("list", "", NoNote, "") BY DEF Askable, Changing
    <2>2. User(RvAsks(rv, "list", "", NoNote, "")) BY <1>4 DEF Relist
    <2> QED BY <2>1, <2>2, AskedSelect
<1>5. CASE AddNote
    <2> DEFINE rel == CurrentRel(rv)
               note == [id |-> rv.clicks + 1, of |-> rel, edited |-> FALSE]
    <2>1. rel # "" /\ User(RvAsks(rv, "add", rel, note, "")) BY <1>5 DEF AddNote
    <2>2. rel \in RvFiles BY <2>1, CurrentDoes
    <2>3. rv.clicks + 1 \in Nat
        <3>1. rv \in RvPage BY RvHas
        <3> QED BY <3>1 DEF RvPage
    <2> HIDE DEF rel
    <2>4. note \in RvNote /\ note.of = rel BY <2>2, <2>3 DEF RvNote
    <2> HIDE DEF note
    <2>5. Askable("add", rel, note, "") BY <2>2, <2>4 DEF Askable, Changing
    <2> QED BY <2>1, <2>5, AskedSelect
<1>6. ASSUME NEW kind \in {"edit", "delete"}, ChangeNote(kind) PROVE SelectOK(rv', rvReqs', rvStore')
    <2> DEFINE rel == CurrentRel(rv)
    <2>1. PICK note \in rv.shown : User(RvAsks(rv, kind, rel, note, "")) BY <1>6 DEF ChangeNote
    <2>2. rel # "" /\ ~rv.hidden BY <1>6 DEF ChangeNote
    <2>3. rel \in RvFiles BY <2>2, CurrentDoes
    <2>4. note.of = rel BY <2>2, RvHas DEF NotesOK
    <2>5. note \in RvNote
        <3>1. rv.shown \subseteq RvNote BY RvHas DEF RvPage
        <3> QED BY <3>1
    <2> HIDE DEF rel
    <2>6. Askable(kind, rel, note, "") /\ kind # "status" BY <2>3, <2>4, <2>5 DEF Askable, Changing
    <2> QED BY <2>1, <2>6, AskedSelect
<1> QED BY <1>1, <1>2, <1>3, <1>4, <1>5, <1>6, ChosenSelect DEF Clicks

(* The server makes the change that the select shows.                       *)
LEMMA ServeSelect ==
    ASSUME RvInv, RvInv', SelectOK(rv, rvReqs, rvStore), NEW r, Serve(r)
    PROVE  SelectOK(rv', rvReqs', rvStore')
<1>1. r \in rvReqs /\ ~r.done /\ rv' = rv /\ StoreStep(r, rvStore') BY ServeDoes
<1>2. PICK t : AnsweredAs(r, t) /\ rvReqs' = (rvReqs \ {r}) \cup {t} BY ServeDoes
<1> SUFFICES ASSUME rv.fresh, CurrentRel(rv) # "", ~rv.raced
             PROVE  /\ (\A q \in rvReqs' : q.kind # "status") => rv.status = rvStore'[CurrentRel(rv)].status
                    /\ \A q \in rvReqs' : q.kind = "status" =>
                           /\ q.rel = CurrentRel(rv) /\ q.status = rv.status
                           /\ q.done => rvStore'[CurrentRel(rv)].status = rv.status
    BY <1>1 DEF SelectOK
<1>3. CurrentRel(rv) \in RvFiles BY CurrentDoes
<1>4. /\ (\A q \in rvReqs : q.kind # "status") => rv.status = rvStore[CurrentRel(rv)].status
      /\ \A q \in rvReqs : q.kind = "status" =>
             /\ q.rel = CurrentRel(rv) /\ q.status = rv.status
             /\ q.done => rvStore[CurrentRel(rv)].status = rv.status
    BY DEF SelectOK
<1>5. Single(rvReqs) BY DEF RvInv
<1>6. t.kind = r.kind /\ t.rel = r.rel /\ t.status = r.status BY <1>2 DEF AnsweredAs
<1>7. CASE r.kind = "status"
    <2>1. \A q \in rvReqs : q.kind = "status" => q = r BY <1>1, <1>5, <1>7 DEF Single, Racing
    <2>2. r.rel = CurrentRel(rv) /\ r.status = rv.status BY <1>1, <1>4, <1>7
    <2>3. StatusesOf(rvStore') = [StatusesOf(rvStore) EXCEPT ![r.rel] = r.status] BY <1>1, <1>7 DEF StoreStep
    <2>4. StatusesOf(rvStore')[CurrentRel(rv)] = rv.status BY <1>3, <2>2, <2>3 DEF StatusesOf
    <2>5. rvStore'[CurrentRel(rv)].status = rv.status BY <1>3, <2>4 DEF StatusesOf
    <2> QED BY <1>2, <1>6, <1>7, <2>1, <2>2, <2>5
<1>8. CASE r.kind # "status"
    <2>1. StatusesOf(rvStore') = StatusesOf(rvStore) BY <1>1, <1>8 DEF StoreStep
    <2>2. rvStore'[CurrentRel(rv)].status = rvStore[CurrentRel(rv)].status BY <1>3, <2>1 DEF StatusesOf
    <2> QED BY <1>1, <1>2, <1>4, <1>6, <1>8, <2>2
<1> QED BY <1>7, <1>8

LEMMA ArrivesSelect ==
    ASSUME RvInv, RvInv', SelectOK(rv, rvReqs, rvStore), NEW r, Arrives(r)
    PROVE  SelectOK(rv', rvReqs', rvStore')
<1> DEFINE reqs == rvReqs \ {r}
           u == CASE r.kind = "notes" -> NotesAnswer(rv, r) [] r.kind = "list" -> ListAnswer(rv, r)
                  [] r.kind = "status" -> StatusAnswer(rv, r) [] OTHER -> NoteChanged(rv, r)
<1>1. r \in rvReqs /\ r.done /\ Becomes(u, reqs) /\ UNCHANGED rvStore BY DEF Arrives
<1>2. /\ r.kind = "notes" => u = NotesAnswer(rv, r)
      /\ r.kind = "list" => u = ListAnswer(rv, r)
      /\ r.kind = "status" => u = StatusAnswer(rv, r)
      /\ r.kind \in Changing => u = NoteChanged(rv, r)
    BY DEF Changing
<1>3. r.kind \in {"notes", "list", "status"} \cup Changing
    <2>1. r \in RvReq BY <1>1, RvHas DEF ReqOK
    <2>2. r.kind \in {"list", "notes", "add", "edit", "delete", "status"} BY <2>1 DEF RvReq
    <2> QED BY <2>2 DEF Changing
<1>4. reqs = rvReqs \ {r} OBVIOUS
<1> HIDE DEF reqs, u
<1>5. reqs \subseteq rvReqs /\ \A q \in rvReqs : q \notin reqs => q.done BY <1>1, <1>4
<1>6. /\ u \in RvPage /\ u.raced = rv.raced /\ (SelectKept(rv, u) \/ Tells(u))
      /\ \A q \in u.sent : q.kind # "status"
    <2>1. CASE r.kind = "notes"
        <3>1. Done(u, reqs, rvStore) /\ u.sent = {} /\ u.raced = rv.raced BY <1>1, <1>2, <1>4, <2>1, NotesAnswerDone
        <3>2. SelectKept(rv, u) BY <1>2, <2>1, RvHas DEF NotesAnswer, SelectKept, CurrentRel, Focused, RvPage
        <3> QED BY <3>1, <3>2 DEF Done, Between, Unfocused
    <2>2. CASE r.kind = "status"
        <3>1. Done(u, reqs, rvStore) /\ u.sent = {} /\ u.raced = rv.raced BY <1>1, <1>2, <1>4, <2>2, StatusAnswerDone
        <3>2. SelectKept(rv, u) BY <1>2, <2>2, RvHas DEF StatusAnswer, SelectKept, CurrentRel, Focused, RvPage
        <3> QED BY <3>1, <3>2 DEF Done, Between, Unfocused
    <2>3. CASE r.kind = "list"
        <3>1. /\ Done(u, reqs, rvStore) /\ u.raced = rv.raced /\ (SelectKept(rv, u) \/ Tells(u))
              /\ \A q \in u.sent : q.kind = "notes"
            BY <1>1, <1>2, <1>4, <2>3, ListAnswerDone
        <3> QED BY <3>1 DEF Done, Between, Unfocused
    <2>4. CASE r.kind \in Changing
        <3>1. /\ Done(u, reqs, rvStore) /\ u.raced = rv.raced /\ SelectKept(rv, u)
              /\ \A q \in u.sent : q.kind = "notes"
            BY <1>1, <1>2, <1>4, <2>4, NoteChangedDone
        <3> QED BY <3>1 DEF Done, Between, Unfocused
    <2> QED BY <1>3, <2>1, <2>2, <2>3, <2>4
<1> QED BY <1>1, <1>5, <1>6, BecomesSelect

LEMMA LostSelect ==
    ASSUME RvInv, RvInv', SelectOK(rv, rvReqs, rvStore), NEW r, Refused(r) \/ Lost(r)
    PROVE  SelectOK(rv', rvReqs', rvStore')
<1>1. CASE Refused(r)
    <2>1. r \in rvReqs /\ ~r.ok /\ rv' = [rv EXCEPT !.msg = TRUE] /\ rvReqs' = rvReqs \ {r} /\ UNCHANGED rvStore
        BY <1>1 DEF Refused
    <2>2. r.kind \in {"edit", "delete"} BY <2>1, RvHas DEF ReqOK
    <2>3. SelectKept(rv, rv') /\ rv'.raced = rv.raced BY <2>1, RvHas DEF SelectKept, CurrentRel, Focused, RvPage
    <2> QED BY <2>1, <2>2, <2>3, SelectStays
<1>2. CASE Lost(r)
    <2> DEFINE reqs == rvReqs \ {r}
               raced == rv.raced \/ r.kind = "status"
               c == rv.clicks + 1
               v == [rv EXCEPT !.clicks = c, !.raced = raced]
               w == CASE r.kind = "list" -> DeepLinks(v)
                      [] r.kind = "notes" -> [v EXCEPT !.msg = TRUE, !.shown = {}, !.painted = 0]
                      [] OTHER -> [v EXCEPT !.msg = TRUE]
    <2>1. rv \in RvPage /\ raced \in BOOLEAN /\ c \in Nat
        <3>1. rv \in RvPage BY RvHas
        <3> QED BY <3>1 DEF RvPage
    <2>2. r \in rvReqs /\ Becomes(w, reqs) /\ UNCHANGED rvStore
        <3>1. [rv EXCEPT !.clicks = @ + 1, !.raced = @ \/ r.kind = "status"] = v BY <2>1 DEF RvPage
        <3> QED BY <1>2, <3>1 DEF Lost
    <2>3. /\ r.kind = "list" => w = DeepLinks(v)
          /\ r.kind = "notes" => w = [v EXCEPT !.msg = TRUE, !.shown = {}, !.painted = 0]
          /\ r.kind \notin {"list", "notes"} => w = [v EXCEPT !.msg = TRUE]
        OBVIOUS
    <2>4. reqs = rvReqs \ {r} /\ (~raced => ~rv.raced /\ r.kind # "status") OBVIOUS
    <2> HIDE DEF reqs, raced, c, w
    <2>5. SameLook(rv, v) /\ v.lists = rv.lists /\ v.raced = raced
        <3> HIDE DEF v
        <3>1. v = [rv EXCEPT !.clicks = c, !.raced = raced] BY DEF v
        <3>2. v \in RvPage BY <2>1, <3>1 DEF RvPage
        <3>3. v.lists = rv.lists /\ Len(rv.lists) \in Nat BY <2>1, <3>1 DEF RvPage
        <3>4. Len(rv.lists) <= Len(v.lists) BY <3>3
        <3> QED BY <2>1, <3>1, <3>2, <3>4 DEF RvPage, SameLook
    <2> HIDE DEF v
    <2>6. /\ w \in RvPage /\ w.raced = raced /\ (SelectKept(rv, w) \/ Tells(w))
          /\ \A q \in w.sent : q.kind # "status"
        <3>1. CASE r.kind = "list"
            <4>1. r \in rvReqs /\ w = DeepLinks(v) /\ SameLook(rv, v) BY <2>2, <2>3, <2>5, <3>1
            <4>2. /\ Done(w, reqs, rvStore) /\ w.raced = v.raced /\ (SelectKept(rv, w) \/ Tells(w))
                  /\ \A q \in w.sent : q.kind = "notes"
                BY <2>4, <3>1, <4>1, ListingDone
            <4> QED BY <2>5, <4>2 DEF Done, Between, Unfocused
        <3>2. CASE r.kind # "list"
            <4>1. /\ w \in RvPage /\ w.sent = v.sent /\ w.raced = v.raced /\ w.panes = v.panes /\ w.focus = v.focus
                  /\ w.status = v.status /\ w.fresh = v.fresh
                <5>1. v \in RvPage BY <2>5 DEF SameLook
                <5>2. CASE r.kind = "notes"
                    <6>1. w = [v EXCEPT !.msg = TRUE, !.shown = {}, !.painted = 0] BY <2>3, <5>2
                    <6>2. {} \in SUBSET RvNote /\ 0 \in Nat OBVIOUS
                    <6>3. w \in RvPage BY <5>1, <6>1, <6>2 DEF RvPage
                    <6> QED BY <5>1, <6>1, <6>3 DEF RvPage
                <5>3. CASE r.kind # "notes"
                    <6>1. w = [v EXCEPT !.msg = TRUE] BY <2>3, <3>2, <5>3
                    <6> QED BY <5>1, <6>1 DEF RvPage
                <5> QED BY <5>2, <5>3
            <4>2. SelectKept(rv, w) /\ w.sent = {}
                BY <2>5, <4>1, RvHas DEF SameLook, SelectKept, CurrentRel, Focused
            <4> QED BY <2>5, <4>1, <4>2
        <3> QED BY <3>1, <3>2
    <2> QED BY <2>2, <2>4, <2>6, BecomesSelect
<1> QED BY <1>1, <1>2

LEMMA DrawingSelect ==
    ASSUME RvInv, SelectOK(rv, rvReqs, rvStore), Drawing
    PROVE  SelectOK(rv', rvReqs', rvStore')
<1>1. PICK w \in rv.work : Draws(w) \/ ImageLoads(w) \/ Breaks(w) BY DEF Drawing
<1>2. UNCHANGED <<rvStore, rvReqs>> BY <1>1 DEF Draws, ImageLoads, Breaks
<1>3. FilesKept(rv'.panes) /\ Stays(rv') BY <1>1, DrawsKeep
<1>4. rv.focus \in DOMAIN rv.panes BY RvHas DEF Between
<1>5. SelectKept(rv, rv') /\ rv'.raced = rv.raced BY <1>3, <1>4 DEF FilesKept, Stays, SelectKept, CurrentRel, Focused
<1> QED BY <1>2, <1>5, SelectStays

LEMMA RvInitSelect == RvInit => SelectOK(rv, rvReqs, rvStore)
<1> SUFFICES ASSUME RvInit PROVE ~rv.fresh
    BY DEF SelectOK
<1>1. PICK links \in RvLinks :
         rv = [panes |-> <<FreshPane>>, focus |-> 1, tools |-> FALSE, work |-> {}, lists |-> <<>>,
               links |-> links, status |-> "unreviewed", fresh |-> FALSE, shown |-> {}, hidden |-> TRUE, msg |-> FALSE,
               painted |-> 0, loads |-> 0, asked |-> 0, sent |-> {}, clicks |-> Len(links), raced |-> FALSE]
    BY DEF RvInit
<1>2. rv.fresh = FALSE BY <1>1
<1> QED BY <1>2

LEMMA RvNextSelect ==
    RvInv /\ RvInv' /\ SelectOK(rv, rvReqs, rvStore) /\ [RvNext]_rvVars => SelectOK(rv, rvReqs, rvStore)'
<1>1. UNCHANGED rvVars /\ SelectOK(rv, rvReqs, rvStore) => SelectOK(rv', rvReqs', rvStore') BY DEF rvVars
<1> QED BY <1>1, ClicksSelect, ServeSelect, ArrivesSelect, LostSelect, DrawingSelect DEF RvNext, Network

-----------------------------------------------------------------------------
(* What the invariant says to someone who looks at the page. *)

LEMMA FirstPages ==
    ASSUME NEW f \in RvFiles, NEW k \in Nat, k <= RvPages
    PROVE  IsPrefix(Pages(f, k), Whole(f))
<1> DEFINE s == Pages(f, k)
           t == Whole(f)
<1>1. s \in Seq(Drawn) /\ Len(s) = k /\ \A n \in 1 .. k : s[n] = <<f, "page", n>> BY PagesDo
<1>2. t \in Seq(Drawn) /\ Len(t) = RvPages /\ \A n \in 1 .. RvPages : t[n] = <<f, "page", n>>
    <2>1. t = Pages(f, RvPages) BY DEF Whole, Pages
    <2> QED BY <2>1, PagesDo, RvBounds
<1> HIDE DEF s, t
<1>3. SubSeq(s, 1, k) = SubSeq(t, 1, k)
    <2>1. \A i \in 1 .. k : i \in 1 .. RvPages
        <3>1. RvPages \in Nat BY RvBounds
        <3> QED BY <3>1
    <2>2. \A i \in 1 .. k : s[i] = t[i] /\ s[i] \in Drawn /\ t[i] \in Drawn
        <3> SUFFICES ASSUME NEW i \in 1 .. k PROVE s[i] = t[i] /\ s[i] \in Drawn /\ t[i] \in Drawn
            OBVIOUS
        <3>1. s[i] = <<f, "page", i>> /\ t[i] = <<f, "page", i>> BY <1>1, <1>2, <2>1
        <3>2. <<f, "page", i>> \in Drawn BY DEF Drawn
        <3> QED BY <3>1, <3>2
    <2> DEFINE a == SubSeq(s, 1, k)
               b == SubSeq(t, 1, k)
    <2>3. k - 1 + 1 = k /\ (IF 1 <= k THEN k - 1 + 1 ELSE 0) = k OBVIOUS
    <2>4. \A i \in 1 .. k : 1 + i - 1 = i OBVIOUS
    <2>5. a \in Seq(Drawn) /\ Len(a) = k /\ \A i \in 1 .. k : a[i] = s[i]
        <3>1. /\ a \in Seq(Drawn) /\ Len(a) = (IF 1 <= k THEN k - 1 + 1 ELSE 0)
              /\ \A i \in 1 .. k - 1 + 1 : a[i] = s[1 + i - 1]
            BY <2>2, SubSeqProperties
        <3> HIDE DEF a
        <3> QED BY <2>3, <2>4, <3>1
    <2>6. b \in Seq(Drawn) /\ Len(b) = k /\ \A i \in 1 .. k : b[i] = t[i]
        <3>1. /\ b \in Seq(Drawn) /\ Len(b) = (IF 1 <= k THEN k - 1 + 1 ELSE 0)
              /\ \A i \in 1 .. k - 1 + 1 : b[i] = t[1 + i - 1]
            BY <2>2, SubSeqProperties
        <3> HIDE DEF b
        <3> QED BY <2>3, <2>4, <3>1
    <2> HIDE DEF a, b
    <2>7. a = b
        <3>1. Len(a) = Len(b) /\ \A i \in 1 .. Len(a) : a[i] = b[i] BY <2>2, <2>5, <2>6
        <3> QED BY <2>5, <2>6, <3>1, SeqEqual
    <2> QED BY <2>7 DEF a, b
<1> QED BY <1>1, <1>2, <1>3 DEF IsPrefix, s, t

LEMMA PanesShow == RvInv => PanesTell
<1> SUFFICES ASSUME RvInv PROVE PanesTell
    OBVIOUS
<1>1. rv \in RvPage /\ rv.panes \in Seq(Pane) /\ rv.work \in SUBSET RvWork /\ PanesInv(rv.panes, rv.work) /\ rv.focus \in DOMAIN rv.panes
    BY RvHas DEF Between, Unfocused, RvPage
<1>2. ASSUME NEW i \in DOMAIN rv.panes
      PROVE  /\ rv.panes[i] \in Pane /\ PaneOK(rv.work, i, rv.panes[i])
             /\ rv.panes[i].file # NoFile => rv.panes[i].file.rel \in RvFiles
    <2>1. rv.panes[i] \in Pane BY <1>1
    <2> QED BY <1>1, <2>1 DEF PanesInv, Pane, RvFile
<1>3. ShowsItsFile
    <2> SUFFICES ASSUME NEW i \in DOMAIN rv.panes, NEW p, p = rv.panes[i]
                 PROVE  /\ p.file = NoFile => p.body = <<>>
                        /\ p.file # NoFile => \/ RvKind[p.file.rel] = "pdf" /\ IsPrefix(p.body, Whole(p.file.rel))
                                              \/ \E what \in {"loading", "download", "text", "image", "error"} :
                                                     p.body = <<<<p.file.rel, what, 0>>>>
        BY DEF ShowsItsFile
    <2>1. PaneOK(rv.work, i, p) BY <1>2
    <2>2. CASE p.file = NoFile BY <2>1, <2>2 DEF PaneOK
    <2>3. CASE p.file # NoFile
        <3>1. p.file.rel \in RvFiles BY <1>2, <2>3
        <3>2. CASE Over(p)
            <4>1. CASE \E what \in {"image", "download", "text", "error"} : p.body = Says(p.file.rel, what)
                BY <2>3, <4>1 DEF Says
            <4>2. CASE RvKind[p.file.rel] = "pdf" /\ p.body = Pages(p.file.rel, RvPages)
                <5>1. RvPages <= RvPages /\ RvPages \in Nat
                    <6>1. RvPages \in Nat BY RvBounds
                    <6> QED BY <6>1
                <5>2. IsPrefix(p.body, Whole(p.file.rel)) BY <3>1, <4>2, <5>1, FirstPages
                <5> QED BY <2>3, <4>2, <5>2
            <4> QED BY <3>2, <4>1, <4>2 DEF Over
        <3>3. CASE \E w \in rv.work : AtWork(rv.work, i, p, w) /\ w.rel = p.file.rel /\ Begun(p, w)
            <4>1. PICK w \in rv.work : AtWork(rv.work, i, p, w) /\ w.rel = p.file.rel /\ Begun(p, w) BY <3>3
            <4>2. CASE \E what \in {"image", "loading"} : p.body = Says(p.file.rel, what)
                BY <2>3, <4>2 DEF Says
            <4>3. CASE w.page # 0 /\ RvKind[w.rel] = "pdf" /\ p.body = Pages(w.rel, w.page - 1)
                <5>1. w.page \in Nat /\ w.page <= RvPages BY <1>1 DEF PanesInv, WorkOK, RvWork
                <5>2. w.page - 1 \in Nat /\ w.page - 1 <= RvPages
                    <6>1. \A m, n \in Nat : m <= n /\ m # 0 => m - 1 \in Nat /\ m - 1 <= n OBVIOUS
                    <6> QED BY <4>3, <5>1, <6>1, RvBounds
                <5> QED BY <2>3, <3>1, <4>1, <4>3, <5>2, FirstPages
            <4> QED BY <4>1, <4>2, <4>3 DEF Begun
        <3> QED BY <2>1, <2>3, <3>2, <3>3 DEF PaneOK
    <2> QED BY <2>2, <2>3
<1>4. PanesSettle
    <2> SUFFICES ASSUME NEW i \in DOMAIN rv.panes, NEW p, p = rv.panes[i]
                 PROVE  \/ p.file = NoFile \/ p.body = Whole(p.file.rel)
                        \/ \E w \in rv.work : w.pane = i /\ w.token = p.token
                        \/ \E what \in {"download", "text", "image", "error"} : p.body = <<<<p.file.rel, what, 0>>>>
        BY DEF PanesSettle
    <2>1. PaneOK(rv.work, i, p) BY <1>2
    <2>2. Pages(p.file.rel, RvPages) = Whole(p.file.rel) BY DEF Pages, Whole
    <2>3. \A what : Says(p.file.rel, what) = <<<<p.file.rel, what, 0>>>> BY DEF Says
    <2>4. p.file = NoFile \/ Over(p) \/ \E w \in rv.work : w.pane = i /\ w.token = p.token
        BY <2>1 DEF PaneOK, AtWork
    <2> QED BY <2>2, <2>3, <2>4 DEF Over
<1>5. ToolsTell
    <2> DEFINE p == rv.panes[rv.focus]
               none == \A w \in rv.work : w.pane # rv.focus \/ w.token # p.token
    <2>1. PaneOK(rv.work, rv.focus, p) /\ rv.tools = p.img BY <1>1, <1>2, RvHas DEF ToolsOK
    <2>2. none <=> \A w \in rv.work : ~AtWork(rv.work, rv.focus, p, w) BY DEF AtWork
    <2>3. rv.tools \in BOOLEAN BY <1>1 DEF RvPage
    <2>4. p.file # NoFile => p.file.rel \in RvFiles BY <1>1, <1>2
    <2> HIDE DEF p, none
    <2>5. ASSUME p.img PROVE p.body = Says(p.file.rel, "image") /\ none
        BY <2>1, <2>2, <2>5 DEF PaneOK, Over
    <2>6. ASSUME ~p.img, p.body = Says(p.file.rel, "image"), none PROVE FALSE
        <3>1. CASE p.body = <<>>
            <4>1. Len(Says(p.file.rel, "image")) = 1 BY DEF Says
            <4>2. Says(p.file.rel, "image") # <<>> BY <4>1
            <4> QED BY <2>6, <3>1, <4>2
        <3>2. CASE p.file # NoFile /\ Over(p)
            <4>1. CASE \E what \in {"download", "text", "error"} : p.body = Says(p.file.rel, what)
                <5>1. PICK what \in {"download", "text", "error"} : p.body = Says(p.file.rel, what) BY <4>1
                <5>2. Says(p.file.rel, what) = Says(p.file.rel, "image") BY <2>6, <5>1
                <5>3. what = "image" BY <5>2, SaysDiffer
                <5> QED BY <5>3
            <4>2. CASE p.body = Pages(p.file.rel, RvPages)
                <5>1. Pages(p.file.rel, RvPages) = Says(p.file.rel, "image") BY <2>6, <4>2
                <5> QED BY <2>4, <3>2, <5>1, PagesAreNoImage, RvBounds
            <4> QED BY <2>6, <3>2, <4>1, <4>2 DEF Over
        <3> QED BY <2>1, <2>2, <2>6, <3>1, <3>2 DEF PaneOK
    <2>7. rv.tools <=> p.body = Says(p.file.rel, "image") /\ none BY <2>1, <2>3, <2>5, <2>6
    <2>8. Focused(rv) = p BY DEF Focused, p
    <2>9. Says(p.file.rel, "image") = <<<<p.file.rel, "image", 0>>>> BY DEF Says
    <2> QED BY <2>7, <2>8, <2>9 DEF ToolsTell, none
<1> QED BY <1>3, <1>4, <1>5 DEF PanesTell

LEMMA NotesShow == RvInv /\ SelectOK(rv, rvReqs, rvStore) => NotesTell
<1> SUFFICES ASSUME RvInv, SelectOK(rv, rvReqs, rvStore) PROVE NotesTell
    OBVIOUS
<1>1. NotesOK(rv, rvReqs, rvStore) BY RvHas
<1>2. NotesOfFile BY <1>1, RvHas DEF NotesOfFile, NotesOK, ReqOK, Changing
<1>3. SettledList
    <2>1. rvReqs = {} => ~Changed(rvReqs) BY DEF Changed
    <2> QED BY <1>1, <2>1 DEF SettledList, NotesOK
<1>4. DotsTell BY DEF DotsTell, RvInv, Dots, StatusesOf
<1>5. SelectTells BY DEF SelectTells, SelectOK
<1> QED BY <1>2, <1>3, <1>4, <1>5 DEF NotesTell

-----------------------------------------------------------------------------
(* Whatever one opens, focuses and splits, and whatever fails, a pane shows  *)
(* its own file, whole or an error in the end, with the tools that go with  *)
(* it (review.js, renderInto, renderPdf and focusPane).                    *)
THEOREM ViewerShowsItsFile == RvSpec => []PanesTell
<1>1. RvInit => RvInv BY RvInitInv
<1>2. RvInv /\ [RvNext]_rvVars => RvInv' BY RvNextInv
<1>3. RvInv => PanesTell BY PanesShow
<1> QED BY <1>1, <1>2, <1>3, PTL DEF RvSpec

(* The notes and the statuses one reads and changes are those of the file    *)
(* one looks at, and of what is stored, once everything is answered: the    *)
(* select, too, where it was set from the newest listing or by the user     *)
(* (review.js, loadNotes, setStatus and focusPane; review/notes.js).        *)
THEOREM ViewerTellsTheNotes == RvSpec => []NotesTell
<1> DEFINE IInv == RvInv /\ SelectOK(rv, rvReqs, rvStore)
<1>1. RvInit => IInv BY RvInitInv, RvInitSelect
<1>2. IInv /\ [RvNext]_rvVars => IInv' BY RvNextInv, RvNextSelect
<1>3. IInv => NotesTell BY NotesShow
<1> QED BY <1>1, <1>2, <1>3, PTL DEF RvSpec

-----------------------------------------------------------------------------
(* The types of the file viewer: notes are numbered by clicks, and there are *)
(* no more listings, with those under way, than were asked for.            *)

Numbered(notes) == \A note \in notes : note.id <= RvClicks
Carries(r) == r.note.id <= RvClicks /\ Numbered(r.notes)
ListReqs(reqs) == {r \in reqs : r.kind = "list"}
Listings(u, reqs) == Len(u.lists) + Cardinality(ListReqs(reqs))
Bounded(u, reqs) ==
    /\ Numbered(u.shown) /\ \A r \in reqs : Carries(r)
    /\ Listings(u, reqs) <= 1 + u.clicks /\ Listings(u, reqs) <= 1 + RvClicks
RvMore == Bounded(rv, rvReqs) /\ \A f \in RvFiles : Numbered(rvStore[f].notes)

LEMMA NumbersBegin == RvClicks \in Nat /\ NoNote.id = 0 /\ NoNote.id <= RvClicks
<1>1. RvClicks \in Nat BY RvAssumption
<1>2. NoNote.id = 0 BY DEF NoNote
<1> QED BY <1>1, <1>2

LEMMA ListingsAreNat ==
    ASSUME NEW u \in RvPage, NEW reqs, IsFiniteSet(reqs)
    PROVE  /\ Len(u.lists) \in Nat /\ Cardinality(ListReqs(reqs)) \in Nat /\ u.clicks \in Nat /\ RvClicks \in Nat
           /\ IsFiniteSet(ListReqs(reqs))
<1>1. u.lists \in Seq([RvFiles -> States]) /\ u.clicks \in Nat /\ RvClicks \in Nat BY RvAssumption DEF RvPage
<1>2. ListReqs(reqs) \subseteq reqs BY DEF ListReqs
<1> QED BY <1>1, <1>2, FS_Subset, FS_CardinalityType

(* Fewer listings under way, on a page with as many. *)
LEMMA FewerListings ==
    ASSUME NEW u \in RvPage, NEW v \in RvPage, NEW reqs, NEW after, IsFiniteSet(reqs), Bounded(u, reqs),
           Len(v.lists) = Len(u.lists), u.clicks <= v.clicks, ListReqs(after) \subseteq ListReqs(reqs)
    PROVE  Listings(v, after) <= 1 + v.clicks /\ Listings(v, after) <= 1 + RvClicks
<1> DEFINE l == Len(u.lists)
           m == Len(v.lists)
           a == Cardinality(ListReqs(reqs))
           b == Cardinality(ListReqs(after))
<1>1. l \in Nat /\ m = l /\ a \in Nat /\ u.clicks \in Nat /\ v.clicks \in Nat /\ RvClicks \in Nat BY ListingsAreNat
<1>2. b \in Nat /\ b <= a
    <2>1. IsFiniteSet(ListReqs(reqs)) BY ListingsAreNat
    <2> QED BY <2>1, FS_Subset, FS_CardinalityType
<1>3. l + a <= 1 + u.clicks /\ l + a <= 1 + RvClicks BY DEF Bounded, Listings
<1>4. Listings(v, after) = m + b BY DEF Listings
<1> HIDE DEF l, m, a, b
<1> QED BY <1>1, <1>2, <1>3, <1>4

LEMMA FollowsBounded ==
    ASSUME NEW u \in RvPage, NEW v \in RvPage, NEW reqs, IsFiniteSet(reqs), Bounded(u, reqs \cup u.sent),
           IsFiniteSet(u.sent), Follows(u, v)
    PROVE  Bounded(v, reqs \cup v.sent)
<1>1. v.lists = u.lists /\ v.clicks = u.clicks /\ v.shown \subseteq u.shown
      /\ \A q \in v.sent : q \in u.sent \/ ForNotes(q)
    BY DEF Follows, Bounded
<1>2. u.clicks <= v.clicks
    <2>1. u.clicks \in Nat BY DEF RvPage
    <2> QED BY <1>1, <2>1
<1>3. IsFiniteSet(reqs \cup u.sent) BY FS_Union
<1>4. ListReqs(reqs \cup v.sent) \subseteq ListReqs(reqs \cup u.sent) BY <1>1 DEF ListReqs, ForNotes
<1>5. Listings(v, reqs \cup v.sent) <= 1 + v.clicks /\ Listings(v, reqs \cup v.sent) <= 1 + RvClicks
    BY <1>1, <1>2, <1>3, <1>4, FewerListings
<1>6. \A q \in v.sent : Carries(q)
    <2>1. NoNote.id <= RvClicks BY NumbersBegin
    <2>2. \A q \in v.sent : ForNotes(q) => Carries(q) BY <2>1 DEF ForNotes, Carries, Numbered
    <2> QED BY <1>1, <2>2 DEF Bounded
<1>7. Numbered(v.shown) BY <1>1 DEF Bounded, Numbered
<1> QED BY <1>1, <1>5, <1>6, <1>7 DEF Bounded

LEMMA BecomesBounded ==
    ASSUME NEW u \in RvPage, NEW reqs, Bounded(u, reqs \cup u.sent), Becomes(u, reqs)
    PROVE  Bounded(rv, rvReqs)'
<1> DEFINE all == reqs \cup u.sent
<1>1. rv' = [u EXCEPT !.sent = {}, !.raced = @ \/ Cardinality({r \in all : r.kind \in {"list", "status"}}) > 1]
      /\ rvReqs' = all
    BY DEF Becomes
<1>2. rv'.lists = u.lists /\ rv'.clicks = u.clicks /\ rv'.shown = u.shown /\ rv'.panes = u.panes BY <1>1 DEF RvPage
<1> QED BY <1>1, <1>2 DEF Bounded, Listings

LEMMA StoreKept == ASSUME RvMore, UNCHANGED rvStore PROVE \A f \in RvFiles : Numbered(rvStore'[f].notes)
BY DEF RvMore

(* What the user asks for. *)
LEMMA UserBounded ==
    ASSUME RvInv, RvMore, NEW u \in RvPage, User(u), u.lists = rv.lists, u.clicks = rv.clicks, u.shown \subseteq rv.shown,
           \A q \in u.sent : Carries(q), NEW q0, ListReqs(u.sent) \subseteq {q0}
    PROVE  RvMore'
<1> DEFINE c == u.clicks + 1
           v == [u EXCEPT !.clicks = c]
           after == rvReqs \cup v.sent
<1>1. Becomes([u EXCEPT !.clicks = @ + 1], rvReqs) /\ UNCHANGED rvStore /\ rv.clicks < RvClicks BY DEF User
<1>2. u.clicks \in Nat /\ RvClicks \in Nat /\ c \in Nat
    <2>1. u.clicks \in Nat BY DEF RvPage
    <2> QED BY <2>1, NumbersBegin
<1>3. Becomes(v, rvReqs) BY <1>1 DEF RvPage
<1>4. c = u.clicks + 1 OBVIOUS
<1> HIDE DEF c
<1>5. /\ v \in RvPage /\ v.clicks = c /\ v.lists = u.lists /\ v.shown = u.shown /\ v.panes = u.panes /\ v.sent = u.sent
    BY <1>2 DEF RvPage
<1> HIDE DEF v
<1>6. Listings(v, after) <= 1 + v.clicks /\ Listings(v, after) <= 1 + RvClicks
    <2> DEFINE A == ListReqs(rvReqs)
               B == ListReqs(after)
               a == Cardinality(A)
               b == Cardinality(B)
               l == Len(rv.lists)
    <2>1. IsFiniteSet(A) /\ a \in Nat /\ l \in Nat BY RvHas, ListingsAreNat
    <2>2. B \subseteq A \cup {q0} BY <1>5 DEF ListReqs
    <2>3. b \in Nat /\ b <= a + 1
        <3>1. IsFiniteSet(A \cup {q0}) /\ Cardinality(A \cup {q0}) <= a + 1
            <4>1. IsFiniteSet(A \cup {q0}) /\ Cardinality(A \cup {q0}) \in {a, a + 1} BY <2>1, FS_AddElement
            <4> HIDE DEF a
            <4> QED BY <2>1, <4>1
        <3>2. b <= Cardinality(A \cup {q0}) /\ b \in Nat /\ Cardinality(A \cup {q0}) \in Nat
            BY <2>2, <3>1, FS_Subset, FS_CardinalityType
        <3> HIDE DEF a, b
        <3> QED BY <2>1, <3>1, <3>2
    <2>4. l + a <= 1 + rv.clicks BY DEF RvMore, Bounded, Listings
    <2>5. Listings(v, after) = l + b BY <1>5 DEF Listings
    <2> HIDE DEF l, a, b
    <2> QED BY <1>1, <1>2, <1>4, <1>5, <2>1, <2>3, <2>4, <2>5
<1>7. \A q \in after : Carries(q) BY <1>5 DEF RvMore, Bounded
<1>8. Numbered(v.shown) BY <1>5 DEF RvMore, Bounded, Numbered
<1>9. Bounded(v, rvReqs \cup v.sent) BY <1>6, <1>7, <1>8 DEF Bounded
<1> QED BY <1>1, <1>3, <1>5, <1>9, BecomesBounded, StoreKept DEF RvMore

LEMMA OpensMore ==
    ASSUME RvInv, RvMore, NEW u, Ready(u, rvReqs), Opens(rv, u), User(u)
    PROVE  RvMore'
<1>1. u \in RvPage BY DEF Ready, Between, Unfocused
<1>2. /\ u.lists = rv.lists /\ u.clicks = rv.clicks /\ u.shown \subseteq rv.shown
      /\ \A q \in u.sent : ForNotes(q)
    BY RvHas DEF Opens, Follows, RvMore, Bounded
<1>3. \A q \in u.sent : Carries(q)
    <2>1. NoNote.id <= RvClicks BY NumbersBegin
    <2> QED BY <1>2, <2>1 DEF ForNotes, Carries, Numbered
<1>4. ListReqs(u.sent) \subseteq {NoNote} BY <1>2 DEF ListReqs, ForNotes
<1> QED BY <1>1, <1>2, <1>3, <1>4, UserBounded

LEMMA AskedMore ==
    ASSUME RvInv, RvMore, NEW u, NEW kind, NEW note, Asked(rv, u, rvReqs, kind, note), note.id <= RvClicks, User(u)
    PROVE  RvMore'
<1>3. u \in RvPage /\ SameView(rv, u) BY DEF Asked, Between, Unfocused
<1>4. PICK q : u.sent = {q} /\ q.note = note /\ q.notes = {} BY RvHas DEF Asked
<1>5. ListReqs(u.sent) \subseteq {q} BY <1>4 DEF ListReqs
<1>6. \A r \in u.sent : Carries(r) BY <1>4 DEF Carries, Numbered
<1> QED BY <1>3, <1>5, <1>6, UserBounded DEF SameView

LEMMA AsksMore ==
    ASSUME RvInv, RvMore, NEW kind, NEW rel, NEW note, NEW status, Askable(kind, rel, note, status), note.id <= RvClicks,
           User(RvAsks(rv, kind, rel, note, status))
    PROVE  RvMore'
<1> DEFINE u == RvAsks(rv, kind, rel, note, status)
<1>1. u = RvAsks(rv, kind, rel, note, status) /\ User(u) OBVIOUS
<1> HIDE DEF u
<1>2. Asked(rv, u, rvReqs, kind, note) BY <1>1, RvHas, AsksDo
<1> QED BY <1>1, <1>2, AskedMore

LEMMA ClicksMore == RvInv /\ RvMore /\ Clicks => RvMore'
<1> SUFFICES ASSUME RvInv, RvMore, Clicks PROVE RvMore' OBVIOUS
<1>1. CASE OpenListed
    <2>1. PICK f \in RvFiles : User(OpenFile(rv, Newest(rv, f))) BY <1>1 DEF OpenListed
    <2> DEFINE file == Newest(rv, f)
               u == OpenFile(rv, file)
    <2>2. file \in RvFile /\ file.list <= Len(rv.lists)
        <3>1. Len(rv.lists) \in Nat BY RvHas DEF RvPage
        <3> QED BY <3>1 DEF Newest, RvFile
    <2>3. u = OpenFile(rv, file) /\ User(u) BY <2>1
    <2> HIDE DEF file, u
    <2>4. Ready(u, rvReqs) /\ Opens(rv, u) BY <2>2, <2>3, RvHas, OpenFileDoes
    <2> QED BY <2>3, <2>4, OpensMore
<1>2. CASE Split
    <2>1. PICK n \in {1, 2} : User(BuildPanes(rv, n)) BY <1>2 DEF Split
    <2> DEFINE u == BuildPanes(rv, n)
    <2>2. u = BuildPanes(rv, n) /\ User(u) BY <2>1
    <2> HIDE DEF u
    <2>3. Ready(u, rvReqs) /\ Opens(rv, u) BY <2>2, RvHas, BuildPanesDoes
    <2> QED BY <2>2, <2>3, OpensMore
<1>3. CASE Focus
    <2>1. PICK i \in DOMAIN rv.panes : User(FocusPane(rv, i)) BY <1>3 DEF Focus
    <2> DEFINE u == FocusPane(rv, i)
    <2>2. u = FocusPane(rv, i) /\ User(u) BY <2>1
    <2> HIDE DEF u
    <2>3. Ready(u, rvReqs) /\ Opens(rv, u) BY <2>2, RvHas, FocusPaneDoes
    <2> QED BY <2>2, <2>3, OpensMore
<1>4. NoNote.id <= RvClicks BY NumbersBegin
<1>5. CASE Relist
    <2>1. Askable("list", "", NoNote, "") BY DEF Askable, Changing
    <2>2. User(RvAsks(rv, "list", "", NoNote, "")) BY <1>5 DEF Relist
    <2> QED BY <1>4, <2>1, <2>2, AsksMore
<1>6. CASE AddNote
    <2> DEFINE rel == CurrentRel(rv)
               id == rv.clicks + 1
               note == [id |-> id, of |-> rel, edited |-> FALSE]
    <2>1. rel # "" /\ User(RvAsks(rv, "add", rel, note, "")) BY <1>6 DEF AddNote
    <2>2. rel \in RvFiles BY <2>1, CurrentDoes
    <2>3. id \in Nat /\ id <= RvClicks
        <3>1. rv.clicks \in Nat /\ RvClicks \in Nat BY RvHas, RvAssumption DEF RvPage
        <3>2. rv.clicks < RvClicks BY <2>1 DEF User
        <3> QED BY <3>1, <3>2
    <2> HIDE DEF rel, id
    <2>4. note \in RvNote /\ note.of = rel /\ note.id <= RvClicks BY <2>2, <2>3 DEF RvNote
    <2> HIDE DEF note
    <2>5. Askable("add", rel, note, "") BY <2>2, <2>4 DEF Askable, Changing
    <2> QED BY <2>1, <2>4, <2>5, AsksMore
<1>7. ASSUME NEW kind \in {"edit", "delete"}, ChangeNote(kind) PROVE RvMore'
    <2> DEFINE rel == CurrentRel(rv)
    <2>1. PICK note \in rv.shown : User(RvAsks(rv, kind, rel, note, "")) BY <1>7 DEF ChangeNote
    <2>2. rel # "" /\ ~rv.hidden BY <1>7 DEF ChangeNote
    <2>3. rel \in RvFiles BY <2>2, CurrentDoes
    <2>4. note.of = rel /\ note.id <= RvClicks BY <2>2, RvHas DEF NotesOK, RvMore, Bounded, Numbered
    <2>5. note \in RvNote
        <3>1. rv.shown \subseteq RvNote BY RvHas DEF RvPage
        <3> QED BY <3>1
    <2> HIDE DEF rel
    <2>6. Askable(kind, rel, note, "") BY <2>3, <2>4, <2>5 DEF Askable, Changing
    <2> QED BY <2>1, <2>4, <2>6, AsksMore
<1>8. CASE SetStatus
    <2> DEFINE rel == CurrentRel(rv)
    <2>1. PICK status \in States : rel # "" /\ User(RvAsks(Chosen(status), "status", rel, NoNote, status))
        BY <1>8 DEF SetStatus, Chosen
    <2>2. rel \in RvFiles BY <2>1, CurrentDoes
    <2> HIDE DEF rel
    <2> DEFINE u == RvAsks(Chosen(status), "status", rel, NoNote, status)
    <2>3. User(u) BY <2>1
    <2>4. Asked(rv, u, rvReqs, "status", NoNote) BY <2>2, ChosenAsked
    <2> HIDE DEF u
    <2> QED BY <1>4, <2>3, <2>4, AskedMore
<1> QED BY <1>1, <1>2, <1>3, <1>5, <1>6, <1>7, <1>8 DEF Clicks

(* The renders. *)

LEMMA PanesKept ==
    ASSUME RvInv, RvMore, rv'.shown = rv.shown, rv'.lists = rv.lists, UNCHANGED <<rvStore, rvReqs>>, rv'.clicks \in Nat,
           rv.clicks <= rv'.clicks, DOMAIN rv'.panes = DOMAIN rv.panes, rv' \in RvPage,
           \A i \in DOMAIN rv.panes : rv'.panes[i].file = rv.panes[i].file
    PROVE  RvMore'
<1>1. Bounded(rv, rvReqs) /\ rv \in RvPage /\ IsFiniteSet(rvReqs) BY RvHas DEF RvMore
<1>2. Listings(rv', rvReqs) <= 1 + rv'.clicks /\ Listings(rv', rvReqs) <= 1 + RvClicks BY <1>1, FewerListings
<1>4. Bounded(rv', rvReqs) BY <1>1, <1>2 DEF Bounded
<1> QED BY <1>4 DEF RvMore

LEMMA DrawsMore == ASSUME RvInv, RvInv', RvMore, NEW w \in rv.work, Draws(w) \/ ImageLoads(w) \/ Breaks(w) PROVE RvMore'
<1>1. rv \in RvPage /\ rv' \in RvPage /\ rv.panes \in Seq(Pane) BY RvHas DEF RvInv, Done, Between, Unfocused, RvPage
<1>2. rv.clicks \in Nat /\ rv'.clicks \in Nat BY <1>1 DEF RvPage
<1>3. UNCHANGED <<rvStore, rvReqs>> BY DEF Draws, ImageLoads, Breaks
<1>4. /\ FilesKept(rv'.panes) /\ rv'.lists = rv.lists /\ rv'.shown = rv.shown
      /\ rv'.clicks = rv.clicks \/ rv'.clicks = rv.clicks + 1
    BY DrawsKeep DEF Stays
<1>5. rv.clicks <= rv'.clicks BY <1>2, <1>4
<1> QED BY <1>1, <1>2, <1>3, <1>4, <1>5, PanesKept DEF FilesKept

(* The server and the answers. *)

LEMMA ServeMore == ASSUME RvInv, RvInv', RvMore, NEW r, Serve(r) PROVE RvMore'
<1>1. r \in rvReqs /\ ~r.done /\ rv' = rv /\ StoreStep(r, rvStore') BY ServeDoes
<1>2. PICK t : AnsweredAs(r, t) /\ rvReqs' = (rvReqs \ {r}) \cup {t} BY ServeDoes
<1>3. ReqOK(r) /\ Carries(r) BY <1>1, RvHas DEF RvMore, Bounded
<1>4. \A f \in RvFiles : Numbered(rvStore'[f].notes) BY <1>1, <1>3 DEF StoreStep, Carries, Numbered, RvMore
<1>5. Carries(t)
    <2>1. r.kind = "notes" => r.rel \in RvFiles BY <1>3 DEF ReqOK
    <2> QED BY <1>2, <1>3, <2>1 DEF AnsweredAs, Carries, RvMore
<1>6. \A q \in rvReqs' : Carries(q) BY <1>2, <1>5 DEF RvMore, Bounded
<1> DEFINE A == ListReqs(rvReqs)
           B == ListReqs(rvReqs')
           a == Cardinality(A)
           b == Cardinality(B)
           l == Len(rv.lists)
<1>7. IsFiniteSet(A) /\ a \in Nat /\ l \in Nat /\ rv.clicks \in Nat /\ RvClicks \in Nat BY RvHas, ListingsAreNat
<1>8. b \in Nat /\ b <= a
    <2>1. CASE r.kind = "list"
        <3>1. B = (A \ {r}) \cup {t} /\ r \in A BY <1>1, <1>2, <2>1 DEF ListReqs, AnsweredAs
        <3>2. IsFiniteSet(A \ {r}) /\ Cardinality(A \ {r}) = a - 1 BY <1>7, <3>1, FS_RemoveElement
        <3>3. IsFiniteSet(B) /\ b \in {a - 1, a - 1 + 1} BY <3>1, <3>2, FS_AddElement
        <3>4. b \in Nat BY <3>3, FS_CardinalityType
        <3> HIDE DEF a, b
        <3> QED BY <1>7, <3>3, <3>4
    <2>2. CASE r.kind # "list"
        <3>1. B = A BY <1>2, <2>2 DEF ListReqs, AnsweredAs
        <3> QED BY <1>7, <3>1
    <2> QED BY <2>1, <2>2
<1>9. Listings(rv, rvReqs') <= 1 + rv.clicks /\ Listings(rv, rvReqs') <= 1 + RvClicks
    <2>1. l + a <= 1 + rv.clicks /\ l + a <= 1 + RvClicks BY DEF RvMore, Bounded, Listings
    <2>2. Listings(rv, rvReqs') = l + b BY DEF Listings
    <2> HIDE DEF l, a, b
    <2> QED BY <1>7, <1>8, <2>1, <2>2
<1> QED BY <1>1, <1>4, <1>6, <1>9 DEF RvMore, Bounded

(* A page that has a request less, and a listing more if it was one. *)
LEMMA WithoutBounded ==
    ASSUME RvInv, RvMore, NEW r \in rvReqs, NEW u \in RvPage, u.sent = {}, u.panes = rv.panes, u.shown \subseteq rv.shown,
           u.clicks \in {rv.clicks, rv.clicks + 1}, Len(u.lists) \in {Len(rv.lists), Len(rv.lists) + 1},
           Len(u.lists) # Len(rv.lists) => r.kind = "list"
    PROVE  Bounded(u, (rvReqs \ {r}) \cup u.sent)
<1> DEFINE reqs == rvReqs \ {r}
           A == ListReqs(rvReqs)
           B == ListReqs(reqs)
           a == Cardinality(A)
           b == Cardinality(B)
           l == Len(rv.lists)
           m == Len(u.lists)
<1>1. /\ IsFiniteSet(A) /\ a \in Nat /\ l \in Nat /\ rv.clicks \in Nat /\ RvClicks \in Nat /\ m \in Nat /\ u.clicks \in Nat
    BY RvHas, ListingsAreNat
<1>2. B = A \ {r} BY DEF ListReqs
<1>3. b \in Nat /\ b <= a /\ (r.kind = "list" => b + 1 = a)
    <2>1. IsFiniteSet(B) /\ (r \in A => b = a - 1) /\ (r \notin A => b = a)
        <3>1. IsFiniteSet(A) BY <1>1
        <3> HIDE DEF A, B
        <3> QED BY <1>2, <3>1, FS_RemoveElement
    <2>2. b \in Nat BY <2>1, FS_CardinalityType
    <2>3. r.kind = "list" => r \in A BY DEF ListReqs
    <2> HIDE DEF a, b
    <2> QED BY <1>1, <2>1, <2>2, <2>3
<1>4. Bounded(rv, rvReqs) BY DEF RvMore
<1>5. l + a <= 1 + rv.clicks /\ l + a <= 1 + RvClicks BY <1>4 DEF Bounded, Listings
<1>6. Listings(u, reqs) = m + b BY DEF Listings
<1>7. l <= m /\ m + b <= l + a
    <2>1. CASE m = l
        <3> HIDE DEF a, b, l, m
        <3> QED BY <1>1, <1>3, <2>1
    <2>2. CASE m # l
        <3>1. m = l + 1 /\ b + 1 = a BY <1>3, <2>2
        <3> HIDE DEF a, b, l, m
        <3> QED BY <1>1, <1>3, <3>1
    <2> QED BY <2>1, <2>2
<1>8. Listings(u, reqs) <= 1 + u.clicks /\ Listings(u, reqs) <= 1 + RvClicks
    <2> HIDE DEF a, b, l, m, reqs
    <2> QED BY <1>1, <1>3, <1>5, <1>6, <1>7
<1>10. Numbered(u.shown) /\ \A q \in reqs : Carries(q) BY <1>4 DEF Bounded, Numbered
<1>11. Bounded(u, reqs) BY <1>8, <1>10 DEF Bounded
<1>12. (rvReqs \ {r}) \cup u.sent = reqs OBVIOUS
<1> QED BY <1>11, <1>12

LEMMA ArrivesMore == ASSUME RvInv, RvInv', RvMore, NEW r, Arrives(r) PROVE RvMore'
<1> DEFINE reqs == rvReqs \ {r}
           u == CASE r.kind = "notes" -> NotesAnswer(rv, r) [] r.kind = "list" -> ListAnswer(rv, r)
                  [] r.kind = "status" -> StatusAnswer(rv, r) [] OTHER -> NoteChanged(rv, r)
<1>1. r \in rvReqs /\ r.done /\ Becomes(u, reqs) /\ UNCHANGED rvStore BY DEF Arrives
<1>2. /\ r.kind = "notes" => u = NotesAnswer(rv, r)
      /\ r.kind = "list" => u = ListAnswer(rv, r)
      /\ r.kind = "status" => u = StatusAnswer(rv, r)
      /\ r.kind \in Changing => u = NoteChanged(rv, r)
    BY DEF Changing
<1>3. r \in RvReq /\ ReqOK(r) /\ r.kind \in {"notes", "list", "status"} \cup Changing /\ Carries(r)
    <2>1. r \in RvReq /\ ReqOK(r) /\ Carries(r) BY <1>1, RvHas DEF ReqOK, RvMore, Bounded
    <2>2. r.kind \in {"list", "notes", "add", "edit", "delete", "status"} BY <2>1 DEF RvReq
    <2> QED BY <2>1, <2>2 DEF Changing
<1>4. rv \in RvPage /\ rv.sent = {} /\ IsFiniteSet(reqs) /\ Between(rv, reqs) /\ Len(rv.links) <= 2
    BY <1>1, RvHas, Without
<1>5. reqs = rvReqs \ {r} OBVIOUS
<1> HIDE DEF reqs, u
<1>6. Bounded(rv, reqs \cup rv.sent) BY <1>1, <1>4, <1>5, WithoutBounded
<1>7. u \in RvPage /\ Bounded(u, reqs \cup u.sent)
    <2>1. CASE r.kind = "notes"
        <3>1. CASE u = rv BY <1>4, <1>6, <3>1
        <3>2. CASE u = [rv EXCEPT !.shown = r.notes, !.painted = r.nr]
            <4>1. r.notes \in SUBSET RvNote /\ r.nr \in Nat BY <1>3 DEF RvReq
            <4>2. u \in RvPage BY <1>4, <3>2, <4>1 DEF RvPage
            <4>3. u.shown = r.notes /\ u.panes = rv.panes /\ u.lists = rv.lists /\ u.clicks = rv.clicks /\ u.sent = rv.sent
                BY <1>4, <3>2 DEF RvPage
            <4> QED BY <1>3, <1>6, <4>2, <4>3 DEF Bounded, Listings, Carries
        <3> QED BY <1>2, <2>1, <3>1, <3>2 DEF NotesAnswer
    <2>2. CASE r.kind = "list"
        <3> DEFINE lists == Append(rv.lists, r.list)
                   v == [rv EXCEPT !.lists = lists]
        <3>1. u = DeepLinks(v) BY <1>2, <1>4, <2>2 DEF ListAnswer, RvPage
        <3>2. rv.lists \in Seq([RvFiles -> States]) /\ r.list \in [RvFiles -> States] BY <1>3, <1>4 DEF RvPage, RvReq
        <3>3. lists \in Seq([RvFiles -> States]) /\ Len(lists) = Len(rv.lists) + 1 BY <3>2, AppendProperties
        <3> HIDE DEF lists
        <3>4. v \in RvPage BY <1>4, <3>3 DEF RvPage
        <3>5. /\ v.shown = rv.shown /\ v.panes = rv.panes /\ v.clicks = rv.clicks /\ v.sent = rv.sent /\ v.lists = lists
              /\ v.links = rv.links /\ v.work = rv.work /\ v.focus = rv.focus /\ v.asked = rv.asked
            BY <1>4 DEF RvPage
        <3> HIDE DEF v
        <3>5a. FilesListed(v.panes, v.lists)
            <4>1. FilesListed(rv.panes, rv.lists) /\ rv.panes \in Seq(Pane) /\ Len(rv.lists) \in Nat
                BY RvHas DEF Unfocused, RvPage
            <4>2. Len(lists) \in Nat /\ Len(rv.lists) <= Len(lists) BY <3>3, <4>1
            <4> QED BY <3>5, <4>1, <4>2, LaterListed
        <3>6. Between(v, reqs) BY <1>4, <3>4, <3>5, <3>5a DEF Between, Unfocused
        <3>7. Bounded(v, reqs \cup v.sent)
            <4>1. v.sent = {} /\ v.shown \subseteq rv.shown /\ v.clicks = rv.clicks /\ Len(v.lists) = Len(rv.lists) + 1
                BY <1>4, <3>3, <3>5
            <4> QED BY <1>1, <1>5, <2>2, <3>4, <3>5, <4>1, WithoutBounded
        <3>8. u = v \/ (Ready(u, reqs) /\ Follows(v, u))
            <4>1. Len(v.links) <= 2 BY <1>4, <3>5
            <4> QED BY <3>1, <3>6, <4>1, DeepLinksDoes
        <3>9. u \in RvPage BY <3>4, <3>8 DEF Ready, Between, Unfocused
        <3>10. IsFiniteSet(v.sent) BY <3>6 DEF Between, Unfocused
        <3> QED BY <1>4, <3>4, <3>7, <3>8, <3>9, <3>10, FollowsBounded
    <2>3. CASE r.kind = "status"
        <3>1. CASE rv.lists = <<>>
            <4>1. u = rv BY <1>2, <2>3, <3>1 DEF StatusAnswer
            <4> QED BY <1>4, <1>6, <4>1
        <3>2. CASE rv.lists # <<>>
            <4> DEFINE n == Len(rv.lists)
                       last == [rv.lists[n] EXCEPT ![r.rel] = r.status]
                       lists == [rv.lists EXCEPT ![n] = last]
            <4>1. rv.lists \in Seq([RvFiles -> States]) /\ n \in 1 .. n BY <1>4, <3>2 DEF RvPage
            <4>2. r.status \in States BY <1>3, <2>3 DEF ReqOK
            <4>3. last \in [RvFiles -> States]
                <5>1. rv.lists[n] \in [RvFiles -> States] BY <4>1
                <5> QED BY <4>2, <5>1
            <4>4. u = [rv EXCEPT !.lists = lists] BY <1>2, <1>4, <2>3, <3>2, <4>1 DEF StatusAnswer, RvPage
            <4>5. lists \in Seq([RvFiles -> States]) /\ Len(lists) = n
                <5> HIDE DEF last
                <5> QED BY <4>1, <4>3
            <4>6. u \in RvPage
                <5> HIDE DEF lists
                <5> QED BY <1>4, <4>4, <4>5 DEF RvPage
            <4>7. u.shown = rv.shown /\ u.panes = rv.panes /\ u.lists = lists /\ u.clicks = rv.clicks /\ u.sent = rv.sent
                BY <1>4, <4>4 DEF RvPage
            <4>8. Len(u.lists) = Len(rv.lists) BY <4>5, <4>7
            <4> HIDE DEF lists, n
            <4> QED BY <1>6, <4>6, <4>7, <4>8 DEF Bounded, Listings
        <3> QED BY <3>1, <3>2
    <2>4. CASE r.kind \in Changing
        <3>1. u = LoadNotes(rv, r.rel) /\ r.rel \in RvFiles BY <1>2, <1>3, <2>4 DEF NoteChanged, ReqOK, Changing
        <3>2. Between(u, reqs) /\ Follows(rv, u) BY <1>4, <3>1, LoadNotesDoes DEF Opens
        <3>3. u \in RvPage /\ IsFiniteSet(rv.sent) BY <1>4, <3>2 DEF Between, Unfocused
        <3> QED BY <1>4, <1>6, <3>2, <3>3, FollowsBounded
    <2> QED BY <1>3, <2>1, <2>2, <2>3, <2>4
<1> QED BY <1>1, <1>7, BecomesBounded, StoreKept DEF RvMore

LEMMA RefusedMore == ASSUME RvInv, RvInv', RvMore, NEW r, Refused(r) PROVE RvMore'
<1>1. r \in rvReqs /\ rv' = [rv EXCEPT !.msg = TRUE] /\ rvReqs' = rvReqs \ {r} /\ UNCHANGED rvStore BY DEF Refused
<1>2. rv \in RvPage /\ rv.sent = {} BY RvHas
<1>3. Bounded(rv, (rvReqs \ {r}) \cup rv.sent) BY <1>1, <1>2, WithoutBounded
<1>4. rv'.shown = rv.shown /\ rv'.panes = rv.panes /\ rv'.lists = rv.lists /\ rv'.clicks = rv.clicks
    BY <1>1, <1>2 DEF RvPage
<1>5. (rvReqs \ {r}) \cup rv.sent = rvReqs' BY <1>1, <1>2
<1>6. Bounded(rv', rvReqs') BY <1>3, <1>4, <1>5 DEF Bounded, Listings
<1> QED BY <1>1, <1>6, StoreKept DEF RvMore

LEMMA LostMore == ASSUME RvInv, RvInv', RvMore, NEW r, Lost(r) PROVE RvMore'
<1> DEFINE reqs == rvReqs \ {r}
           raced == rv.raced \/ r.kind = "status"
           c == rv.clicks + 1
           v == [rv EXCEPT !.clicks = c, !.raced = raced]
           w == CASE r.kind = "list" -> DeepLinks(v)
                  [] r.kind = "notes" -> [v EXCEPT !.msg = TRUE, !.shown = {}, !.painted = 0]
                  [] OTHER -> [v EXCEPT !.msg = TRUE]
<1>1. rv \in RvPage /\ rv.sent = {} /\ Len(rv.links) <= 2 /\ raced \in BOOLEAN /\ c \in Nat /\ rv.clicks \in Nat
    <2>1. rv \in RvPage /\ rv.sent = {} /\ Len(rv.links) <= 2 BY RvHas
    <2> QED BY <2>1 DEF RvPage
<1>2. r \in rvReqs /\ Becomes(w, reqs) /\ UNCHANGED rvStore
    <2>1. [rv EXCEPT !.clicks = @ + 1, !.raced = @ \/ r.kind = "status"] = v BY <1>1 DEF RvPage
    <2> QED BY <2>1 DEF Lost
<1>3. Between(rv, reqs) /\ IsFiniteSet(reqs) BY <1>2, Without
<1>4. /\ r.kind = "list" => w = DeepLinks(v)
      /\ r.kind = "notes" => w = [v EXCEPT !.msg = TRUE, !.shown = {}, !.painted = 0]
      /\ r.kind \notin {"list", "notes"} => w = [v EXCEPT !.msg = TRUE]
    OBVIOUS
<1>5. reqs = rvReqs \ {r} /\ c = rv.clicks + 1 OBVIOUS
<1> HIDE DEF reqs, raced, c, w
<1>6. /\ v \in RvPage /\ v.shown = rv.shown /\ v.panes = rv.panes /\ v.lists = rv.lists /\ v.clicks = c /\ v.sent = {}
      /\ v.links = rv.links /\ v.work = rv.work /\ v.focus = rv.focus /\ v.asked = rv.asked
    BY <1>1 DEF RvPage
<1> HIDE DEF v
<1>7. Bounded(v, reqs \cup v.sent) BY <1>2, <1>5, <1>6, WithoutBounded
<1>8. w \in RvPage /\ Bounded(w, reqs \cup w.sent)
    <2>1. CASE r.kind = "list"
        <3>1. Between(v, reqs) BY <1>1, <1>3, <1>6 DEF Between, Unfocused
        <3>2. w = v \/ (Ready(w, reqs) /\ Follows(v, w))
            <4>1. Len(v.links) <= 2 /\ w = DeepLinks(v) BY <1>1, <1>4, <1>6, <2>1
            <4> QED BY <3>1, <4>1, DeepLinksDoes
        <3>3. w \in RvPage /\ IsFiniteSet(v.sent) BY <1>6, <3>1, <3>2 DEF Ready, Between, Unfocused
        <3> QED BY <1>3, <1>6, <1>7, <3>2, <3>3, FollowsBounded
    <2>2. CASE r.kind # "list"
        <3>1. /\ w \in RvPage /\ w.panes = v.panes /\ w.lists = v.lists /\ w.clicks = v.clicks /\ w.sent = v.sent
              /\ w.shown \subseteq v.shown
            <4>1. CASE r.kind = "notes"
                <5>1. w = [v EXCEPT !.msg = TRUE, !.shown = {}, !.painted = 0] BY <1>4, <4>1
                <5>2. {} \in SUBSET RvNote /\ 0 \in Nat OBVIOUS
                <5>3. w \in RvPage /\ w.shown = {} BY <1>6, <5>1, <5>2 DEF RvPage
                <5> QED BY <1>6, <5>1, <5>3 DEF RvPage
            <4>2. CASE r.kind # "notes"
                <5>1. w = [v EXCEPT !.msg = TRUE] BY <1>4, <2>2, <4>2
                <5> QED BY <1>6, <5>1 DEF RvPage
            <4> QED BY <4>1, <4>2
        <3> QED BY <1>7, <3>1 DEF Bounded, Listings, Numbered
    <2> QED BY <2>1, <2>2
<1> QED BY <1>2, <1>8, BecomesBounded, StoreKept DEF RvMore

LEMMA RvNextMore == RvInv /\ RvInv' /\ RvMore /\ [RvNext]_rvVars => RvMore'
<1> SUFFICES ASSUME RvInv, RvInv', RvMore, [RvNext]_rvVars PROVE RvMore' OBVIOUS
<1>1. CASE UNCHANGED rvVars
    <2>1. rv' = rv /\ rvStore' = rvStore /\ rvReqs' = rvReqs BY <1>1 DEF rvVars
    <2> QED BY <2>1 DEF RvMore
<1>2. CASE RvNext
    BY <1>2, ClicksMore, DrawsMore, ServeMore, ArrivesMore, RefusedMore, LostMore DEF RvNext, Network, Drawing
<1> QED BY <1>1, <1>2

LEMMA RvInitMore == RvInit => RvMore
<1> SUFFICES ASSUME RvInit PROVE RvMore OBVIOUS
<1> DEFINE q == RvRequest("list", "", NoNote, "", 0)
<1>1. PICK links \in RvLinks :
         rv = [panes |-> <<FreshPane>>, focus |-> 1, tools |-> FALSE, work |-> {}, lists |-> <<>>,
               links |-> links, status |-> "unreviewed", fresh |-> FALSE, shown |-> {}, hidden |-> TRUE, msg |-> FALSE, painted |-> 0, loads |-> 0,
               asked |-> 0, sent |-> {}, clicks |-> Len(links), raced |-> FALSE]
    BY DEF RvInit
<1>2. rv.panes = <<FreshPane>> /\ rv.lists = <<>> /\ rv.shown = {} /\ rv.clicks = Len(links) BY <1>1
<1>3. Len(links) \in Nat /\ RvClicks \in Nat
    <2>1. links \in Seq(RvFiles) BY RvAssumption
    <2> QED BY <2>1, NumbersBegin
<1>4. rvReqs = {q} BY DEF RvInit
<1>5. q.kind = "list" /\ q.note = NoNote /\ q.notes = {} BY DEF RvRequest
<1> HIDE DEF q
<1>6. Carries(q) BY <1>5, NumbersBegin DEF Carries, Numbered
<1>7. ListReqs(rvReqs) = {q} BY <1>4, <1>5 DEF ListReqs
<1>8. Cardinality(ListReqs(rvReqs)) = 1 BY <1>7, FS_Singleton
<1>9. Listings(rv, rvReqs) = 1 BY <1>2, <1>8 DEF Listings
<1>11. \A f \in RvFiles : Numbered(rvStore[f].notes)
    <2>1. \A f \in RvFiles : rvStore[f].notes = {[id |-> 0, of |-> f, edited |-> FALSE]} BY DEF RvInit
    <2> QED BY <1>3, <2>1 DEF Numbered
<1>12. 1 <= 1 + rv.clicks /\ 1 <= 1 + RvClicks BY <1>2, <1>3
<1>13. Numbered(rv.shown) BY <1>2 DEF Numbered
<1> QED BY <1>4, <1>6, <1>9, <1>11, <1>12, <1>13 DEF RvMore, Bounded

LEMMA RvTypes == ASSUME RvInv, RvMore PROVE RvTypeOK
<1>1. rv \in RvPage /\ rv.focus \in DOMAIN rv.panes /\ RvStored(rvStore) BY RvHas DEF Between
<1>2. \A note \in RvNote : note.id <= RvClicks => note \in Note BY NumbersBegin DEF RvNote, Note
<1>3. rvStore \in [RvFiles -> [status : States, notes : SUBSET Note]]
    <2>1. rvStore \in [RvFiles -> [status : States, notes : SUBSET RvNote]] BY <1>1 DEF RvStored
    <2>2. \A f \in RvFiles : rvStore[f].notes \in SUBSET Note BY <1>2, <2>1 DEF RvMore, Numbered
    <2>3. \A f \in RvFiles : rvStore[f] \in [status : States, notes : SUBSET Note] BY <2>1, <2>2
    <2> QED BY <2>1, <2>3
<1>4. \A i \in DOMAIN rv.panes : rv.panes[i].file \in {NoFile} \cup FileObject /\ rv.panes[i].img \in BOOLEAN
    <2> SUFFICES ASSUME NEW i \in DOMAIN rv.panes
                 PROVE  rv.panes[i].file \in {NoFile} \cup FileObject /\ rv.panes[i].img \in BOOLEAN
        OBVIOUS
    <2>1. rv.panes[i] \in Pane BY <1>1 DEF RvPage
    <2> DEFINE file == rv.panes[i].file
               n == Len(rv.lists)
               a == Cardinality(ListReqs(rvReqs))
    <2>2. file.list <= n /\ n + a <= 1 + RvClicks
        <3>1. FilesListed(rv.panes, rv.lists) BY RvHas DEF Unfocused
        <3> QED BY <3>1 DEF FilesListed, RvMore, Bounded, Listings
    <2>3. n \in Nat /\ a \in Nat /\ RvClicks \in Nat BY <1>1, RvHas, ListingsAreNat
    <2>4. ASSUME file \in RvFile PROVE file \in FileObject
        <3>1. file.list \in Nat /\ file.rel \in RvFiles /\ file = [rel |-> file.rel, list |-> file.list] BY <2>4 DEF RvFile
        <3>2. file.list <= RvClicks + 1
            <4> HIDE DEF file, n, a
            <4> QED BY <2>2, <2>3, <3>1
        <3> HIDE DEF file
        <3>3. file.list \in 0 .. RvClicks + 1 BY <2>3, <3>1, <3>2
        <3> QED BY <3>1, <3>3 DEF FileObject
    <2> QED BY <2>1, <2>4 DEF Pane
<1>5. rv.shown \subseteq Note BY <1>1, <1>2 DEF RvMore, Bounded, Numbered, RvPage
<1> QED BY <1>1, <1>3, <1>4, <1>5 DEF RvTypeOK, RvPage

(* The viewer's variables keep to their types, for any files, clicks and    *)
(* requests: a pane's file is of a listing that has come, and no more       *)
(* listings come than were asked for.  Review, review.js on both sides.    *)
THEOREM ViewerTypes == RvSpec => []RvTypeOK
<1>1. RvInv /\ RvMore => RvTypeOK BY RvTypes
<1> QED BY <1>1, RvInitInv, RvInitMore, RvNextInv, RvNextMore, PTL DEF RvSpec
=============================================================================
