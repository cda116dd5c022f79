------------------------------- MODULE StudIp -------------------------------
(***************************************************************************)
(* listTree of the Stud.IP provider.  It asks jsonapi.php for all folders   *)
(* and all files of a course, page by page and both at once, and builds the *)
(* tree itself; on any trouble it lets the walk of Listing do it.  The      *)
(* server may change between two pages.                                    *)
(***************************************************************************)
EXTENDS Listing

CONSTANTS
    SiFiles,        \* files the course may have
    SiOrders,       \* orders in which the server may list folders
    SiShapes,       \* what it may say of parents: [folder, file], each id -> folder or ""
    SiAtFirst,      \* the files there when the listing begins, in the server's order
    SiPage,         \* JSONAPI_PAGE
    SiCaps,         \* page sizes the server may really use
    SiChanges       \* bound on changes of the course meanwhile

ASSUME SiAssumption ==
    /\ \A o \in SiOrders : o \in Seq(Folders) /\ IsInjective(o)
    /\ SiShapes # {} /\ \A s \in SiShapes : DOMAIN s.folder = Folders /\ DOMAIN s.file = SiFiles
    /\ IsFiniteSet(SiFiles) /\ SiAtFirst \in Seq(SiFiles) /\ IsInjective(SiAtFirst)
    /\ SiPage \in Nat \ {0} /\ SiCaps \subseteq 1 .. SiPage /\ SiChanges \in Nat

VARIABLES
    siRows,         \* the rows of the two collections, in the server's order
    siShape,        \* what the rows say of their parents
    siServer,       \* [cap, ignores]: its page size, and whether it ignores page[offset]
    siPager,        \* per collection: the jsonApiAll under way
    siRoute,        \* "json", "done", or from the fallback on "top", "walk"
    siRemoved       \* files removed since the listing began

siVars == <<vars, siRows, siShape, siServer, siPager, siRoute, siRemoved>>

Collections == {"folders", "files"}

(* A page as the server has it at that moment.  An offset behind the last   *)
(* row is kept as the first such offset.                                   *)
PageOf(c) ==
    LET from == IF siServer.ignores THEN 0 ELSE siPager[c].offset IN
    SubSeq(siRows[c], from + 1, SmallerOf(from + siServer.cap, Len(siRows[c])))
Beyond == Cardinality(Folders) + Cardinality(SiFiles)

ShortPageEnds(c) ==         \* mutant of Page: a page shorter than asked for is the last
    LET p == siPager[c] IN
    [offset |-> SmallerOf(p.offset + Len(PageOf(c)), Beyond), items |-> p.items \cup Range(PageOf(c)),
     done |-> Len(PageOf(c)) < SiPage, odd |-> ~p.odd]

(* One round of jsonApiAll: only ids not seen before are new, the offset    *)
(* advances by what came, and a page without anything new is the last.      *)
(* odd lets a round be seen that brought nothing.                          *)
Page(c) ==
    LET p == siPager[c]
        fresh == Range(PageOf(c)) \ p.items IN
    [offset |-> IF fresh = {} THEN p.offset ELSE SmallerOf(p.offset + Len(PageOf(c)), Beyond),
     items |-> p.items \cup fresh, done |-> fresh = {}, odd |-> ~p.odd]

-----------------------------------------------------------------------------
(* The tree of listTreeJsonApi, from all the rows. *)

SiFolders(pager) == pager["folders"].items
Tops(known) == {f \in known : siShape.folder[f] \notin known}

(* The breadth-first walk from the top folder, a level at a time. *)
Reached(known) ==
    LET visited[level \in 0 .. Cardinality(known)] ==
            IF level = 0 THEN Tops(known)
            ELSE LET before == visited[level - 1] IN before \cup {f \in known : siShape.folder[f] \in before}
    IN  visited[Cardinality(known)]

(* No folder, two top folders, a folder that cannot be placed or a file in  *)
(* an unknown one: all of these throw.                                     *)
AddsUp(pager) ==
    LET known == SiFolders(pager) IN
    /\ Cardinality(Tops(known)) = 1 /\ Reached(known) = known
    /\ \A x \in pager["files"].items : siShape.file[x] \in known

-----------------------------------------------------------------------------
NothingFetched == [c \in Collections |-> [offset |-> 0, items |-> {}, done |-> FALSE, odd |-> FALSE]]

SiInit ==
    /\ siServer \in [cap : SiCaps, ignores : BOOLEAN]
    /\ siShape \in SiShapes
    /\ \E o \in SiOrders : siRows = [c \in Collections |-> IF c = "folders" THEN o ELSE SiAtFirst]
    /\ siPager = NothingFetched
    /\ siRoute = "json" /\ siRemoved = {}
    /\ queue = <<>> /\ active = 0 /\ flying = {} /\ answers = [f \in Folders |-> {}]
    /\ phase = NotBegun /\ listed = {} /\ failures = 0

(* The pages are forgotten; so is here all that the server would say of them. *)
Forgets ==
    /\ siPager' = NothingFetched /\ siRemoved' = {} /\ siRows' = [c \in Collections |-> <<>>]
    /\ siShape' = CHOOSE s \in SiShapes : TRUE
    /\ siServer' = [cap |-> SiPage, ignores |-> FALSE]

(* listTreeApiPhp begins: it asks for the top folder. *)
FallsBack == siRoute' = "top" /\ Forgets /\ UNCHANGED vars

(* A page comes; with the last one of both collections the tree is built.  *)
SiAnswer(c) ==
    /\ siRoute = "json" /\ ~siPager[c].done
    /\ LET pager == [siPager EXCEPT ![c] = Page(c)]
           over == \A d \in Collections : pager[d].done IN
       IF over /\ ~AddsUp(pager) THEN FallsBack
       ELSE /\ siPager' = pager /\ siRoute' = IF over THEN "done" ELSE "json"
            /\ UNCHANGED <<vars, siRows, siShape, siServer, siRemoved>>

(* jsonapi.php is not there or answers with an error.  Promise.all rejects; *)
(* the other collection's pages are no longer of interest.                 *)
SiFails(c) == siRoute = "json" /\ ~siPager[c].done /\ FallsBack

(* Others remove files and add new ones while the pages are fetched. *)
Changed == Cardinality(siRemoved) + Len(siRows["files"]) + Cardinality(siRemoved) - Len(SiAtFirst)
SiRemove(x) ==
    /\ siRoute = "json" /\ Changed < SiChanges
    /\ \E i \in DOMAIN siRows["files"] : siRows["files"][i] = x /\ siRows' = [siRows EXCEPT !["files"] = RemoveAt(@, i)]
    /\ siRemoved' = siRemoved \cup {x}
    /\ UNCHANGED <<vars, siShape, siServer, siPager, siRoute>>
SiAdd(x) ==
    /\ siRoute = "json" /\ Changed < SiChanges /\ x \notin Range(siRows["files"]) \cup siRemoved
    /\ \E i \in 1 .. Len(siRows["files"]) + 1 : siRows' = [siRows EXCEPT !["files"] = InsertAt(@, i, x)]
    /\ UNCHANGED <<vars, siShape, siServer, siPager, siRoute, siRemoved>>

(* The top folder is there, the walk begins; or there is none. *)
TopAnswer ==
    /\ siRoute = "top" /\ siRoute' = "walk"
    /\ phase' = [phase EXCEPT ![Root] = "asking"] /\ \E calls \in Asks({Root}) : Pump({}, 0, calls)
    /\ UNCHANGED <<answers, listed, failures, siRows, siShape, siServer, siPager, siRemoved>>
TopFails ==
    /\ siRoute = "top" /\ siRoute' = "walk"
    /\ failures < MaxFailures /\ failures' = failures + 1
    /\ phase' = [phase EXCEPT ![Root] = "failed"]
    /\ UNCHANGED <<queue, active, flying, answers, listed, siRows, siShape, siServer, siPager, siRemoved>>

Walking == siRoute = "walk" /\ Next /\ UNCHANGED <<siRows, siShape, siServer, siPager, siRoute, siRemoved>>
Paging == \E c \in Collections : SiAnswer(c) \/ SiFails(c)

SiNext == Paging \/ TopAnswer \/ TopFails \/ Walking \/ \E x \in SiFiles : SiRemove(x) \/ SiAdd(x)

(* Every request is answered or fails; nobody need change the course.  For  *)
(* the pages this is weak fairness with its ENABLED written out: on that    *)
(* route a page is always awaited.                                         *)
PagesCome == []<>(siRoute # "json") \/ []<><<Paging>>_siVars
SiSpec == SiInit /\ [][SiNext]_siVars /\ PagesCome /\ WF_siVars(TopAnswer) /\ WF_siVars(Walking)

-----------------------------------------------------------------------------
(* Properties. *)

SiTypeOK ==
    /\ TypeOK
    /\ siRoute \in {"json", "done", "top", "walk"}
    /\ \A c \in Collections : /\ siPager[c].offset \in Nat /\ siPager[c].done \in BOOLEAN
                              /\ siPager[c].items \subseteq Folders \cup SiFiles /\ IsInjective(siRows[c])
    /\ siRemoved \subseteq SiFiles

(* A listing by pages has all folders and every file that was there from    *)
(* beginning to end, whatever the server makes of page size and offset -    *)
(* unless a file was removed, which moves the rows behind it one up, past   *)
(* the next page, or as many were added as a page holds, which can make the *)
(* next page look old, or the server gives the first page only.             *)
NoRowLost ==
    LET added == Len(siRows["files"]) - Len(SiAtFirst) IN
    siRoute = "done" /\ siRemoved = {} /\ added < siServer.cap /\ ~siServer.ignores =>
        /\ SiFolders(siPager) = Range(siRows["folders"])
        /\ Range(SiAtFirst) \subseteq siPager["files"].items

(* What is built from pages is a tree: one top folder, every other folder   *)
(* hangs below it, and every file is in one of them.  The engine takes a    *)
(* path that is missing for a deletion.                                    *)
IsATree ==
    siRoute = "done" =>
        LET known == SiFolders(siPager) IN
        /\ \E top \in known : \A S \in SUBSET (known \ {top}) :
               S # {} => \E f \in S : siShape.folder[f] \in known \ S
        /\ \A x \in siPager["files"].items : siShape.file[x] \in known

(* No trouble with the JSON:API fails a listing: only the api.php route     *)
(* can, with its request for the top folder or its walk.                   *)
OnlyTheWalkFails == phase[Root] = "failed" => failures > 0

(* What a listing tells can be trusted, on either route: a file that is not *)
(* in it was not there all the time.                                       *)
ListingTells == Complete /\ NoRowLost /\ IsATree /\ OnlyTheWalkFails

(* A listing comes to an end: with a server that ignores the offset, too,   *)
(* and no folder of the walk waits for one that waits for its slot, however *)
(* deep the tree and few the slots.                                        *)
ListingEnds == <>(siRoute = "done" \/ phase[Root] \in {"ok", "failed"})
=============================================================================
