------------------------------ MODULE SyncPage ------------------------------
(***************************************************************************)
(* The sync page: sync.js in the browser and the routes it asks.  One       *)
(* request starts a run and is answered when the run is over; a timer polls *)
(* the progress meanwhile, or follows a run somebody else has started.      *)
(***************************************************************************)
EXTENDS Naturals

CONSTANTS
    SpClicks,       \* bound on clicks on the button and requests that get no answer
    SpRuns,         \* bound on runs started by the scheduler
    SpPolls         \* polls under way at once

ASSUME SpAssumption == SpClicks \in Nat /\ SpRuns \in Nat /\ SpPolls \in Nat \ {0}

VARIABLES
    sp,         \* the page
    spPolls,    \* a poll or nothing in each slot: GET /api/sync/progress
    spServer    \* the run under way, and how many others have started

spVars == <<sp, spPolls, spServer>>

NoPoll == [kind |-> "none", old |-> FALSE, says |-> "asked"]

SpTypeOK ==
    /\ sp.timer \in {"off", "draw", "open", "busy"} /\ sp.bar \in BOOLEAN /\ sp.msg \in BOOLEAN
    /\ sp.post \in {"none", "asked", "running", "ok", "busy"}
    /\ sp.stale \in BOOLEAN /\ sp.hides \in Nat
    /\ spServer.run \in {"none", "page", "other"}
    \* The POST is under way as long as its run.
    /\ sp.post = "running" => spServer.run = "page"
    /\ \A i \in DOMAIN spPolls : spPolls[i].says \in {"asked", "running", "idle"}

-----------------------------------------------------------------------------
(* What handlers do to the page. *)

(* A new timer; polls of the one before it are still under way. *)
StartPolling(u, kind) ==
    /\ sp' = [u EXCEPT !.timer = kind, !.bar = TRUE]
    /\ spPolls' = [i \in DOMAIN spPolls |-> [spPolls[i] EXCEPT !.old = spPolls[i] # NoPoll]]

StopPolling(u) == [u EXCEPT !.timer = "off"]

(* finishSyncProgress: the bar is full, and hidden a little later. *)
FinishBar(u) == [u EXCEPT !.hides = @ + 1]

(* The callbacks given to startSyncPolling; the one of "draw" is null.  The *)
(* lists that are loaded now do not matter here.                           *)
OnFinished(u, kind) ==
    IF kind = "draw" THEN u ELSE FinishBar([u EXCEPT !.msg = IF kind = "busy" THEN FALSE ELSE @])

-----------------------------------------------------------------------------
(* syncCourseFiles; the button is disabled while its POST is under way. *)
SyncAll ==
    /\ sp.clicks < SpClicks /\ sp.post = "none"
    /\ StartPolling([sp EXCEPT !.clicks = @ + 1, !.msg = FALSE, !.post = "asked"], "draw")
    /\ UNCHANGED spServer

(* The server: runAllCourses for the POST, unless a run is under way. *)
PostArrives ==
    /\ sp.post = "asked"
    /\ IF spServer.run # "none" THEN sp' = [sp EXCEPT !.post = "busy"] /\ UNCHANGED spServer
       ELSE sp' = [sp EXCEPT !.post = "running"] /\ spServer' = [spServer EXCEPT !.run = "page"]
    /\ UNCHANGED spPolls

(* The scheduler, or another page. *)
OtherRun ==
    /\ spServer.run = "none" /\ spServer.runs < SpRuns
    /\ spServer' = [spServer EXCEPT !.run = "other", !.runs = @ + 1]
    /\ UNCHANGED <<sp, spPolls>>

(* A run ends.  A POST that was lost on its way has nobody to answer. *)
RunEnds ==
    /\ spServer.run # "none"
    /\ spServer' = [spServer EXCEPT !.run = "none"]
    /\ sp' = IF sp.post = "running" THEN [sp EXCEPT !.post = "ok"] ELSE sp
    /\ UNCHANGED spPolls

ProgressServed(i) ==
    /\ spPolls[i].kind # "none" /\ spPolls[i].says = "asked"
    /\ spPolls' = [spPolls EXCEPT ![i].says = IF spServer.run = "none" THEN "idle" ELSE "running"]
    /\ UNCHANGED <<sp, spServer>>

-----------------------------------------------------------------------------
(* Timers and answers. *)

Tick ==
    /\ sp.timer # "off"
    /\ \E i \in DOMAIN spPolls : /\ spPolls[i] = NoPoll
                                 /\ spPolls' = [spPolls EXCEPT ![i].kind = sp.timer]
    /\ UNCHANGED <<sp, spServer>>

HideBar ==
    /\ sp.hides > 0 /\ sp' = [sp EXCEPT !.hides = @ - 1, !.bar = FALSE]
    /\ UNCHANGED <<spPolls, spServer>>

(* The page's first question: is a run under way?  Then it is followed, by  *)
(* a timer that takes the place of another one.                            *)
FirstAnswer(i) ==
    /\ spPolls[i].kind = "first" /\ spPolls[i].says # "asked"
    /\ IF spPolls[i].says = "running"
       THEN /\ sp' = [sp EXCEPT !.timer = "open", !.bar = TRUE, !.stale = @ \/ sp.timer = "busy"]
            /\ spPolls' = [j \in DOMAIN spPolls |->
                             IF j = i \/ spPolls[j] = NoPoll THEN NoPoll ELSE [spPolls[j] EXCEPT !.old = TRUE]]
       ELSE spPolls' = [spPolls EXCEPT ![i] = NoPoll] /\ UNCHANGED sp
    /\ UNCHANGED spServer

(* "idle" stops the timer, the newest one, and calls this poll's callback.  *)
(* stale remembers that a timer was stopped by a poll of an older one.      *)
PollAnswer(i) ==
    /\ spPolls[i].kind \in {"draw", "open", "busy"} /\ spPolls[i].says # "asked"
    /\ LET late == spPolls[i].old /\ sp.timer # "off" IN
       sp' = IF spPolls[i].says = "running" THEN sp
             ELSE OnFinished(StopPolling([sp EXCEPT !.stale = @ \/ late]), spPolls[i].kind)
    /\ spPolls' = [spPolls EXCEPT ![i] = NoPoll] /\ UNCHANGED spServer

PostOk ==
    /\ sp.post = "ok" /\ sp' = FinishBar(StopPolling([sp EXCEPT !.post = "none"]))
    /\ UNCHANGED <<spPolls, spServer>>

(* 409: the bar follows the other run. *)
PostBusy ==
    /\ sp.post = "busy" /\ StartPolling([sp EXCEPT !.post = "none", !.msg = TRUE], "busy")
    /\ UNCHANGED spServer

KeepsBar ==                     \* mutant of PostLost: the bar is left to its timer
    /\ sp.post # "none" /\ sp.clicks < SpClicks
    /\ sp' = StopPolling([sp EXCEPT !.post = "none", !.clicks = @ + 1])
    /\ UNCHANGED <<spPolls, spServer>>

(* No answer, whether or not the server has begun: a message, and no bar. *)
PostLost ==
    /\ sp.post # "none" /\ sp.clicks < SpClicks
    /\ sp' = [StopPolling(sp) EXCEPT !.post = "none", !.bar = FALSE, !.clicks = @ + 1]
    /\ UNCHANGED <<spPolls, spServer>>

(* A poll that fails changes nothing; the timer sends another one. *)
PollLost(i) ==
    /\ spPolls[i] # NoPoll /\ sp.clicks < SpClicks
    /\ spPolls' = [spPolls EXCEPT ![i] = NoPoll] /\ sp' = [sp EXCEPT !.clicks = @ + 1]
    /\ UNCHANGED spServer

-----------------------------------------------------------------------------
(* The page is opened, perhaps during a run. *)
SpInit ==
    /\ sp = [timer |-> "off", bar |-> FALSE, hides |-> 0, msg |-> FALSE, post |-> "none", clicks |-> 0, stale |-> FALSE]
    /\ spPolls = [i \in 1 .. SpPolls |-> IF i = 1 THEN [NoPoll EXCEPT !.kind = "first"] ELSE NoPoll]
    /\ spServer \in [run : {"none", "other"}, runs : {0}]

SpTimers == Tick \/ HideBar
SpAnswers == PostOk \/ PostBusy \/ \E i \in DOMAIN spPolls : FirstAnswer(i) \/ PollAnswer(i)
SpServes == PostArrives \/ RunEnds \/ OtherRun \/ \E i \in DOMAIN spPolls : ProgressServed(i)
SpTrouble == PostLost \/ \E i \in DOMAIN spPolls : PollLost(i)

SpNext == SyncAll \/ SpTimers \/ SpAnswers \/ SpServes \/ SpTrouble

(* Timers fire, a run ends, and what is asked is answered. *)
SpFairness ==
    /\ WF_spVars(Tick) /\ WF_spVars(HideBar) /\ WF_spVars(PostArrives) /\ WF_spVars(RunEnds)
    /\ WF_spVars(PostOk \/ PostBusy)
    /\ \A i \in 1 .. SpPolls : WF_spVars(ProgressServed(i)) /\ WF_spVars(FirstAnswer(i) \/ PollAnswer(i))

SpSpec == SpInit /\ [][SpNext]_spVars /\ SpFairness

-----------------------------------------------------------------------------
(* Properties. *)

(* The bar and "läuft bereits" go in the end, whoever's run was followed    *)
(* and whatever got lost - unless a poll of an older timer stopped the one  *)
(* that was following, or the first answer came after "läuft bereits".      *)
BarGoes == <>sp.stale \/ []<>(~sp.bar /\ ~sp.msg)
=============================================================================
