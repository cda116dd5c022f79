# Sinka, specified

Sinka runs on a small computer in a school. It keeps course folders in step
with Stud.IP or IServ, collects files from pupils through upload sessions,
lets a teacher review them, and keeps all of it in an encrypted vault that is
open only while the admin is at work. It is one Node process: callbacks run
one at a time, and everything that is hard about it happens between two
`await`s, between two runs, or between a crash and the next start.

These TLA+ modules follow the code in `src/src` and `src/public/js`. TLC checks them on small
instances, TLAPS proves the main results for every instance. `PROJECT.json`
maps each definition to the lines it models and lists runs, mutants, hazards,
findings and theorems.

## The parts of the system

| part | state | operations | hard because |
|---|---|---|---|
| sync engine `sync/engine.js` | course directory, remote store, `manifest.json`, the variables of a run | one run: list, create folders, plan, one operation per file, remove folders, save the manifest | both ends are edited between (and during) runs, every call may fail, a crash leaves half a run and the old manifest |
| providers `providers/*.js` | the remote tree, the login | list, get, put, delete, create | slow and refusing servers, listings that are minutes old |
| request limiter `util/limiter.js` | slots in use, a queue | run a task when a slot is free | a slot held across a wait for others is a deadlock |
| runs `sync/run-all.js`, `registry.js` | a flag, the registry | run all courses, record outcomes, add and remove courses | manual and scheduled runs meet, entries go while a run uses them |
| scheduler `scheduler.js` | two clocks, an idle clock | auto-logout, sync, retention once a minute | decides on what may have changed some awaits later |
| gate and vault `auth/*.js`, `vault.js` | the mount, login sessions | unlock at login, lock at logout, admit requests | everything else assumes that the vault stays open |
| upload sessions `upload/sessions.js`, `submissions.js`, `naming.js`, `routes/public-upload.js` | sessions, one log per session, the files | open, close, remove, accept a batch | batches of many pupils at once, choosing a name and storing under it are two steps |
| data lifecycle `upload/data-lifecycle.js` | the erasure log | erase a pupil's data, erase what is old | three stores to be emptied, one await after another, while uploads go on |
| review notes `review/notes.js` | one file of notes, by path | add, change, delete, set a status | a path is used again by another file |
| security logs `security/*.js` | events, accesses, incidents | record, fold, prune, decide | limits by age and by number: what is still to be found may fall out |
| guard of the codes `routes/public-upload.js` | per address: fails, lock, last touch | a wrong or a right code, a sweep | the sweep forgets who is still guessing |
| file viewer `public/js/review.js`, `routes/review.js` | panes with render tokens, listings, the notes panel | open, split, focus, relist, note, set a status | renders and answers outlive what they were asked for |
| sync page `public/js/sync.js` | the bar, one timer, polls under way | start a run, follow another's run | three kinds of polls share one timer |
| upload page `public/js/admin-upload.js` | the list, the popup with a code, the poster's stash, the dashboard | create, close, delete, new code, poster, live updates | a code can be shown once only |
| home page `public/js/home.js`, `routes/home.js` | the erasure preview, the dossier, the incidents | preview and erase, disclose, record and decide | time passes between the list and the click on its button |
| settings, credentials, browsing, deployment | configuration | | |

They meet in few places: the scheduler and `POST /api/sync` call
`runAllCourses`, which calls the engine per course, which calls a provider,
which goes through the limiter. The scheduler also calls `runRetention`, which
takes the locks of the upload sessions. An upload session may collect into a
synced folder, so its files are the engine's local files. All but the login
pages and the pupils' upload need the gate; everything needs the vault. The
pages know what they know from answers to requests, and nothing tells them
when it changes.

What makes each part correct, in a sentence each: the engine loses no version
anybody still wants, and settles; at most one run goes on, on an open vault,
and the vault is locked in the end; an upload neither overwrites nor drops
another and is answered; an erasure erases all and nothing else; a log keeps what is
to be found; a page tells of what it names, and sends what it shows.

## The modules

`SyncPlan` is `computeSyncPlan` for one file, as a table: what the disk, the
server and the manifest hold decides one of eight operations. It has no state.

`SyncEngine` is `runSync` and its surroundings: `local`, `remote` and their
folders, `manifest`, the record `run` with the local variables of a run (`pc`
names the await it is at), and users who write and delete on either end, and
who discard conflicted copies through the program (`DiscardCopy`, which is
`DELETE /api/sync-conflicts`). Each
action is what happens from one await to the next; `Throw` is every exception
nobody catches, `Abort` a call that fails or a crash, `CutDownload` and
`CutManifest` writes that stop half way. The remote is addressed by path, as
IServ's WebDAV store is. Contents are numbers, a version per user move. The
ghost `live` holds the versions nobody gave up: who deletes or replaces a file
gives up what is in it, unless the same version is in another file at both ends
(`GivenUp`). The engine does lose one such version, when a conflict takes the
name of a copy that was discarded on the disk but that the server or the
manifest still knows (run `sync_copies`). The ghosts `retaken` and `atRisk` name
such copies and the versions that met there, and the other properties except
just them.

`Replicas` is what the engine promises, without files: two ends that hold sets
of versions, and a synchroniser that copies and forgets but drops no version
that is live, but for those in `void`, for which `SyncEngine` puts `atRisk`. `SyncEngine` is checked to implement it (`PromiseKept`, an
instance of `Replicas!Spec`), and `SyncPromiseProofs` proves that it does,
step by step, for any files and any number of moves and failures.

`Scheduler` composes `scheduler.js`, `run-all.js`, `registry.js`, the gate, the
vault and the opening and closing of upload sessions. Time is counted in
minutes, by counters that stop at the limits they are compared with. A run
takes its courses one at a time: it begins one and ends it with an outcome, or
passes over it, as it does with all that are left once the vault is locked and
the credentials are gone. What happens to the course is `SyncEngine`'s. The
auto-logout may find that it cannot list the session directory or cannot remove
a file; it locks the vault all the same, and the ghost `missed` has the logins
that are left, as `fresh` has those made meanwhile.

`Uploads` is the life of a submission: the handler in `public-upload.js` from
the gate to the answer, the promise chain per session that serves as its lock,
the choice of a free name and the rename that uses it, the log, the notes, and
`sweep` with its two callers, and the failures of a move, of a log and of a
removal. Sweeps overlap with uploads and with each other as they like. Two
ghosts say what the read outside the lock costs: `added` has, for each sweep at
work, the records it has not seen come, and `lost` the files whose record a sweep
dropped that way. Retention is measured in ticks: what is from an earlier tick
is old.

`Listing` is `listTree` of the providers as a walk: one promise per folder,
one or two requests each, all through the queue and the slots of
`limiter.js`. Answers come in any order. It composes the two because the
limiter's one danger, a slot held by what waits for others, lies in how it is
called. `SyncEngine` takes a listing as one step that succeeds or fails; this
module is why it may.

`StudIp` extends `Listing` by what Stud.IP's `listTree` does first: it asks
the JSON:API for all folders and all files, page by page, against a server
that may cap pages, ignore the offset, change between two pages or contradict
itself, and falls back on any trouble to api.php: the request for the top
folder, which may fail, and the walk.

`Review`, `SyncPage`, `UploadPage` and `Home` are the admin's pages, each with
the routes it talks to and the part of a store these change. What a page
remembers is one record; a handler is an operator from a page to the page
after it, because handlers call each other before anything is drawn. A request
is sent, served and answered in three steps, answers come in any order, and
requests get lost. Fields such as `raced` and `renewed` are no state of the
code: they remember that something happened that a property excepts.

`CodeGuard` is the limiter of wrong codes with its sweep, and the ring of
security events with the alert that counts in it. `AccessLog` is `record` of
the access log with folding and pruning.

`MCSyncEngine`, `MCUploads` and `MCListing` give the constants their values.
`MCPages` does so for the four pages and the two logs, and puts them side by
side: they share no variable, so a behaviour of all of them is an interleaving
of behaviours of each, and none of their properties sees another's steps. TLC
therefore walks through one part at a time, as `part` says.

The proofs are in modules of their own: `SyncEngineProofs` (types and trees)
and `SyncPromiseProofs` (versions, manifests and runs), `SchedulerProofs`,
`UploadsProofs`, `ListingProofs` (both routes), `ReviewProofs`, `CodesProofs` for
the upload page, the guard of the codes and the access log, and `PagesProofs`
for the home page and for the types of all parts of `MCPages`.

## What is checked

| run | what it shows |
|---|---|
| `sync_quiet` | Two files, four user moves between runs, conflicted copies discarded among them, one failure anywhere (a crash, a download cut short). No live version is lost (`NoVersionLost`); what the manifest calls unchanged is equal (`NoFalseSync`); a run nobody disturbed leaves nothing to do (`FixedPoint`); conflicts do not breed (`FewCopies`); a run fails only if something outside does (`RunsSucceed`); what was erased stays erased (`ErasedStaysErased`); once the users stop both ends converge (`Converges`). |
| `sync_folders` | A folder in a folder, a file in each, folders created and deleted on both ends; nothing can be created at the root of the server and the outer folder cannot be deleted; a folder call that fails or whose answer is lost, a run or the manifest cut short: no file is ever without its folders (`TreesClosed`), the folders settle (`FoldersSettle`), `Replicas` is implemented (`PromiseKept`). |
| `sync_copies` | Violated: a conflicted copy is discarded, and the next conflict of its file takes the name again before the copy has gone from the server. The same run then deletes the new copy there, the run after it on the disk, and the local version of the conflict is lost (`CopiesKept`, which is `NoVersionLost` without the exception). |
| `sync_restore` | Violated: a local edit in a folder deleted on the server. The upload goes to a folder that is gone, and every later run of the course fails at it. |
| `sync_busy` | Violated: an edit between the upload and the `stat` after it is recorded as synced. |
| `scheduler` | Two browsers and the timer, a course, an upload session, restarts, an unreadable registry, session files that cannot be listed or removed: runs never overlap (`OneRun`) and end (`RunsEnd`), a course removed during its run stays removed (`RemovedStaysRemoved`), the auto-logout leaves no old login but those whose files it could not list or remove (`CookiesDie`) and locks the vault in the end (`LockedInTheEnd`). |
| `auto_logout` | Violated: between the decision to log out and the lock a run can start, and is locked out of its data. |
| `logout` | Violated: a manual logout locks the vault while a run is at work on a course, and the run goes on with it in the directory that was mounted there. The courses behind it are passed over, for want of credentials. |
| `uploads` | Two uploads of one file each, by the same pupil under the same name; retention and an erasure, which overlap with them and with each other; notes, one failure. No upload overwrites another (`NoOverwrite`); a record leaves the log only if a sweep at work selects it or began before it came (`RecordsKept`); every file is in a log but those a sweep dropped (`FilesFindable`); an erasure is complete but for what came, or was put back, since it began, and the erasure log knows of it (`ErasureComplete`); notes stay with their file (`NotesBelong`), every upload is answered (`Answered`), old data go (`OldDataGoes`). |
| `uploads_overlap` | Violated: a retention job while a batch of two files is at work writes back a log without the entries appended since it read it (`EntriesKept`). |
| `listing` | Stud.IP's listing by pages and by the walk over six folders, two slots, two failing requests, that for the top folder among them. No slot is lost or overbooked and none is idle while a request waits (`SlotsUsed`). Pages give every folder and every file that was there throughout, and a tree; a walk that succeeds has everything; nothing but the api.php route fails a listing (`ListingTells`). A listing ends, with a server that repeats its first page, and with fewer slots than the tree is deep (`ListingEnds`). |
| `pages` | Panes show one file, whole in the end, with its tools (`PanesTell`); notes, dots and the status select are those of the file in view and of the store (`NotesTell`); a code or a poster shows the valid code (`CodesTell`); dossiers, cards and incidents are one pupil's and current (`HomeTells`); more guesses than allowed take a lock's time, and lockouts raise the alert (`GuardHolds`); every access within the retention has an entry (`AccessesFound`); bar and "läuft bereits" go (`BarGoes`); a dashboard catches up with its session (`DashCatchesUp`); what is erased was listed, what was decided stays (`OnlyAsShown`). |

The six violated properties are what a comment or the repository's README
says of the code; `findings` in `PROJECT.json` quotes them.

### Bounds, and why they are enough

- Sync: four moves are an edit on each end, and a second one or a deletion on
  each, which reaches every pair of sides in the planner's table, a conflict
  about a conflicted copy, and a deletion crossing an edit. A name taken again
  shows its worst with five, so `sync_copies` has five. Users act between
  runs (`Busy = {}`): during a run the code has windows it does not guard, and
  `sync_busy` shows one. One failure per behaviour, at any await. The names
  of conflicted copies are enough for all conflicts four moves can make. Every
  move has a second, and every version a size, of its own: with equal ones the
  planner cannot tell versions apart, which its comments say.
- Scheduler: limits of two minutes, so that a clock can be below, at and past
  its limit; two browsers, for a login during the auto-logout; one failure to
  read the registry, and any number with session files. `logout` has two
  courses, so that one is still to come when the vault is locked. A tick waits for the auto-logout before it, and only one
  tick waits for its run (sixty seconds are long against a file removal).
- Uploads: two files under one name with room for two versions, one session,
  one erasure beside any number of retention jobs, one failure: two writers
  queue for the lock, and both kinds of sweep meet them and each other at any
  await. A batch of two files and one of a file of the same name run in
  `uploads_overlap`; longer batches and more sessions are in the theorems.
- Listing: two branches, one three folders deep, so that more folders wait at
  once than there are slots, and the queue is longer than the slots are many.
  The second failure meets what is still on its way after the first.
  Pages of two and of four rows, with six folders and up to four files: a page
  that is full, one that is short and not the last, and an empty one. Two
  changes of the course meanwhile, in any place. `CHECK_DEADLOCK FALSE`: a
  listing that is over stops; that it stops nowhere else is `ListingEnds`.
- Pages: three clicks (two on the sync page), losses included, and three files of three kinds with
  two panes, two requests under way at a time (one in the viewer, beside its
  renders), two sessions, two pupils, one incident. That is a second handler between
  a request and its answer, a third one after it, and another file, session or
  pupil to be mixed up with. Two wrong codes lock, the ring holds three events
  and the log three entries, so each is at its limit several times before the
  horizon of six units of time. `CHECK_DEADLOCK FALSE`: an admin who has used
  up his clicks is done.

### What the pages do not promise

Some of what the pages and logs are for holds with exceptions, which the
properties name. They are windows the code does not guard:

- `ListingTells`: a file removed between two pages moves the next ones up past
  the page to come, and a server that ignores the offset gives its first page
  only (`studip.js:252`): either drops rows silently.
- `BarGoes`: a poll of a timer that was replaced stops the newer timer, and a
  first answer that comes after "läuft bereits" takes over without clearing it.
- `NotesTell`: after a note is changed, its file's notes are loaded, which
  empties the panel even if another file is shown by then, and nothing paints
  it; two status changes may overtake each other. A pane keeps the object of the
  listing its file was opened from, and a status that is set goes to the newest
  listing's (`review.js:724`): after a new listing and a changed status, the
  select of a pane that is focused again shows the old one. It is promised for
  objects of the newest listing, read while no change was under way (`fresh`).
- `CodesTell`: a poster opened from "Link & QR" prints the code that is stashed
  in this tab, which a newer one may have replaced; answers to two requests for
  a new code may overtake each other, and a lost answer takes its code with it.
- `HomeTells`: two disclosures or two loads of a card may overtake each
  other.
- `OnlyAsShown`: what a pupil hands in between preview and erasure is erased
  unseen; of two decisions about an incident from a list that shows neither, the
  second replaces the first.
- `GuardHolds`, `AccessesFound`: the ring drops lockouts when as many other
  events follow as it holds, the log accesses when as many follow as it holds.

### Fairness

`SyncEngine` assumes that the engine goes on and is started again, as the
scheduler does; `Scheduler` that time passes, timers fire and runs, the
auto-logout and retention go on; `Uploads` that handlers and sweeps go on and
retention is started; `Listing` that requests are answered or fail, as `fetch`
does (for the pages `PagesCome` writes that out: the route is left, or pages
come again and again); of the pages, that timers fire, requests are served and
answers come in. All of it is weak fairness: each of these steps stays
possible until it is taken. Users, the admin and failures owe nobody a step.
`RunsEnd` and `LockedInTheEnd` assume that the registry can be read: if it
cannot, `running` stays set (`run-all.js:48`).

## What is proved

Every theorem holds for any value of the constants that meets the assumptions
the modules name: any number of files, folders, moves and failures, of
browsers, courses, sessions and pupils, of slots, requests and clicks. Where
one has a hypothesis of its own it is written before `PROVE`, and here.

### Sync engine

`SyncEngineProofs`:

- `TypeCorrect` and `FoldersFirst`: types, and `TreesClosed`, without any
  hypothesis. A file needs its folders in the store it is in, so the invariant
  must say what a run knows: what the plan was made from, and that a file in
  transit has its folder. Each action is a step of the proof, split by the end
  it changes; folder removal is safe because only empty folders go.
- `PromiseSuffices`: from `PromiseKept`, `NoVersionLost`.

`SyncPromiseProofs` assumes `Setting`, which says where the planner's evidence
is sound: users act between the runs (`Busy = {}`; run `sync_busy` shows what an
edit in the middle of one does), and versions differ in size and in the second
they were made in (the planner sees nothing else of them). Users may discard or
rewrite conflicted copies as any file; what that can cost is confined to the
names taken again and the versions that met there (`retaken`, `atRisk`).

- `Implements` (`PromiseKept`) and `NothingLost` (`NoVersionLost`): no step of a
  run, finished, refused or cut short, drops a live version from an end unless
  it is elsewhere at that end, but for versions at risk. The invariant has two parts.
  `Store` speaks of the two ends and the manifest: the planner's questions about
  sizes and times are answered as if it had asked for versions (`LocalTells`,
  `RemoteTells`); and where a live version is synced under a name that only one
  end still has it by, so that the planner will drop it there, both ends hold it
  firmly under another (`MayFollow`). `RunTrue` speaks of the run: what it has
  read is still true of the files whose turn has not come (`PlanTrue`), what it
  means to save is true (`SavedTrue`), and what it has done is settled
  (`DoneTrue`). Of a name taken again less is true, and the invariant says how
  much: while it holds nothing but versions at risk on either end (`Odd`), the
  plan for it may be out of date (`Mixed`) and its entry may be any (`SavedOk`);
  when its turn has come it is not on the server only (`Murky`). What an operation does to the ends is stated once (`Gets`,
  `Puts`, `DropsLocal`, `DropsRemote`, `SetsAside`, `Saves`), with one lemma about
  `Store` for each; the lemmas about the actions reduce to these.
- `SyncedIsSame` (`SyncedAlike`, which is `NoFalseSync` but for names taken again)
  follows from `Store`.
- `RunsSettle` (`FixedPoint`): from `DoneTrue`, and from `DirsKnown`, that the
  server has no folder the run does not know while nobody disturbs it. A name
  taken again may take one more run.
- `NoRunRefused` (`RunsSucceed`), in a course without folders on a server that
  refuses nothing (`Dirs = {}`, `CreateDenied = {}`). Run `sync_restore` shows why
  folders are excluded: a folder removed at the server makes every later run fail.
- `ErasedForGood` (`ErasedStaysErased`), under the same conditions: a version
  given up on the disk does not come back until something fails. It needs a
  third part, `Calm`: as long as nothing has failed every version that is not at
  risk has one name on each end and the same on both (`Once`), and a file of
  which the server has what the disk has, or what its user gave up, is recorded
  in the manifest and unchanged since (`Traced`). The planner then deletes it,
  and never downloads it. `Traced` says this of files whose turn has not come,
  and the end of the run restores it for the others, by `DoneTrue`.
- `FoldersAgree` (`FoldersSettle`), whatever the server refuses to create or to
  delete. The invariant, `FoldersRight`, speaks of a run nobody disturbs: it
  knows the server's folders (`KnowsAll`); it marks for removal only what the
  other end has dropped (`MarksRight`); a folder it has made on the disk is one
  the server keeps (`MadeToStay`); and each folder on one end only has its turn
  to come, is marked, could not be made, still holds something, or may not be
  deleted (`OnlyHere`, `OnlyThere`). The two passes take the folders by depth, so
  the proof needs that a path has finitely many parts (`DepthAssumption`) and
  that what is below is deeper (`BelowIsDeeper`).
- `ConflictsDoNotBreed` (`FewCopies`), in a course without folders on a server
  that refuses nothing. The invariant, `Paid`, is an account for each version
  that is not at risk: the names it has on either end are at most one more than
  the failures; only one of them is a name the manifest knows by another version
  (`Foreign`: the name its user wrote it under); and where both ends hold it and no
  finished run has recorded that, so that the next run will set one aside for
  the other, a name less (`SetsTwin`): the failure that cut the run short has paid
  for the copy to come. Saving the manifest records it, and the reason goes.
  The hypotheses are needed: a run that is refused sets changed files aside and
  records nothing, and so does the next, so that copies breed without any
  failure. A folder the server no longer has is enough for that (run
  `sync_restore`): on the instance of `sync_folders` with five moves and no
  failure TLC finds `FewCopies` violated.

### Runs and scheduler

`SchedulerProofs`: types (`SchedulerTypes`); `OneRunAtATime` (`OneRun`), which is
not inductive alone: it needs that a run goes on only while the flag is up
(`FlagUp`), so that whoever finds the flag down finds no run (the converse is
false, which is the stuck flag of `run-all.js:48`); `RemovalIsFinal`
(`RemovedStaysRemoved`), because a run records its outcome in a registry it has
just read again; `OldLoginsDie` (`CookiesDie`), because each login left is one
the auto-logout has listed, one made since, or one it could not list or remove
(`Listed`).

### Uploads

`UploadsProofs`: types (`UploadTypes`, with the shape of every job, sweep and
lock queue, overlapping sweeps included) and

- `NothingOverwritten` (`NoOverwrite`), where each session has a directory of its
  own (`OwnDirectories`): the place a handler has chosen stays free until it
  renames (`FreeAhead`), because it holds the session's lock. Sessions of the
  program may share a directory (`sessions.js:108-139`), and then hold
  different locks: this is outside the theorem.
- `NoRecordLost` (`RecordsKept`) and `AllFindable` (`FilesFindable`), without any
  hypothesis: a sweep that is about to write a log back has read it, so of what
  is in the log and not in what it keeps, it selected each record or the record
  was added since it began (`Read`); an upload that has a record is past that
  file, so no file is logged twice (`Entered`); and the place a handler has just
  filled holds the file it is about to log (`JustPut`).
- `NotesOfTheFile` (`NotesBelong`) and `ErasureErases` (`ErasureComplete`), under
  `OwnDirectories`: a note whose file is gone is one a sweep at work is about to
  drop (`NotesKnown`); of a session the sweep is done with, what is left of the
  pupil came, or was put back, since it began (`Erased`), and what it keeps of a
  log it has read is not the pupil's (`KeepsOthers`).

### Listing

`ListingProofs`: `WalkListsAll` for the walk alone, as IServ lists, and
`SlotsKept` for both routes (`SlotsUsed`): a request is asked once, so it is in
the queue or under way but not both, the slots counted are the requests under
way, and a queue that is not empty means that no slot is free. A folder is
begun when the one above it has all its answers and is done when all below it
are (`WalkInv`), so a walk that succeeds has listed all of them. `ListingTypes`
(`SiTypeOK`) and `ListingIsTrusted` (`ListingTells`): pages fetched so far hold every row that stayed and lies before
their offset (`Swept`); what the listing accepts is a
tree, shown level by level (`ReachedByLevels`, `ATree`); the api.php route fails only
where one of its requests does. That no row is lost is promised, as in the property,
while nothing was removed and less than a page was added.

### File viewer

`ReviewProofs`: `ViewerShowsItsFile` (`PanesTell`): a pane's token belongs to one
render, so what is drawn in it is of its file, and a pane has either its render
at work or what became of it. `ViewerTellsTheNotes` (`NotesTell`): the answer to
the last load is up to date but for a change whose own answer brings the next
load (`NotesOK`); the dots are right or one answer away from it unless answers
could overtake each other, and so is the select: it says what is stored, or what
the change under way will store (`SelectOK`). `ViewerTypes`: panes and requests name listings that
have come, notes are numbered by clicks, and the listings, those under way
included, are at most one more than the clicks (`RvMore`).

### Home page, upload page, logs

- `PagesProofs`: `HomeIsTrue` (`HomeTells`) and `HomeDoesAsShown` (`OnlyAsShown`). An
  answer under way and the page before it are related to the store of the time
  it was served: the list covers what there was (`ListsCover`), one dossier is
  shown (`OneDossier`), cards and incidents are current or their next answer
  makes them so (`CardsFresh`, `IncidentsFresh`), a decision on file is known
  to the page (`DecisionsKnown`).
- `CodesProofs`: `CodesAlwaysTell` (`CodesTell`): of the codes made for a session the
  newest is the page's or on its way to it (`NewestKnown`). `GuardAlwaysHolds`
  (`GuardHolds`): the wrong codes an entry counts are the last ones tried, and
  those before are a lock old when it lets the next one in (`Counted`), so that
  forgetting an entry in a sweep gives nobody more guesses; lockouts in the
  window are mapped one to one to events of the ring. `AccessesStayFound`
  (`AccessesFound`): the log is in order of time, so what pruning keeps are the
  last entries; the property is then inductive with the types: an entry that is
  pruned is too old to be asked for, or all that are left came later. The types
  are `UploadPageTypes`, which counts the codes by sessions and clicks (`UpMore`),
  `GuardTypes` and `LogTypes`.
- `PagesKeepTypes` (`PagesTypeOK`), in `PagesProofs`: the invariants of the five
  other parts and the sync page's types (`SpTyped`: a page that says its run is at
  work has one) hold together (`PagesInv`), because one part moves and the
  others stay as they are.

### What is only model-checked

Liveness (`Converges`, `LockedInTheEnd`, `RunsEnd`, `Answered`, `OldDataGoes`,
`ListingEnds`, `BarGoes`, `DashCatchesUp`), which is out of the provers' reach.
Every other property of the passing runs is stated by a listed theorem, but
`NoFalseSync`, which is proved except for names taken again (`SyncedIsSame`).

## What is not modelled

- Engine: Stud.IP's ids in place of paths, its uploads, which are verified by
  timestamps, legacy manifest entries, the cleaning of file names. A course
  file called `manifest.json` is hidden from the local scan, in subfolders too
  (`engine.js:76`), and would look deleted; two versions within one second and
  of one size look alike. No run has such files.
- Shared folders: two upload sessions, or the operator's own upload
  (`review.js:260-323`), that put files into one directory hold different locks
  or none, and two courses may be registered with one empty folder. The runs
  give each a directory of its own.
- Tokens, passwords, encryption, multer's limits, the zips, QR codes and PDFs.
- In the viewer: filters, sorting, zoom, rotation and export. On the other
  pages: login forms, the registration dialog, lists that are only drawn.
- Settings, browsing of folders, scripts for the installation.

`PROJECT.json` says why for each. Small JSON stores change in one step, because
`json-file.js` writes a temporary file and renames it; the manifest is the
exception and is modelled as it is written.

## The plan

1. A module for shared folders: two sessions, the operator's upload and two
   registrations in one directory.
2. Stud.IP's uploads, whose answer is not to be trusted, and a sweep over
   several sessions in `Uploads` with the disclosure as a reader of it.
