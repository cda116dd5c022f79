------------------------------ MODULE MCPages ------------------------------
(***************************************************************************)
(* The admin's pages and the two security logs.  They share no variable, so *)
(* what one of them does is independent of the others: instead of all their *)
(* interleavings TLC walks through one part at a time, "part", while the    *)
(* others stay as they are in one initial state.                           *)
(***************************************************************************)
EXTENDS Review, SyncPage, UploadPage, Home, CodeGuard, AccessLog

Kind == [f \in RvFiles |-> CASE f = "a" -> "pdf" [] f = "b" -> "image" [] OTHER -> "text"]
Links == {<<>>, <<"b", "a">>}
Viewing == [what : {"file"}, detail : {"view", "download"}]

VARIABLE part

pages == <<part, rvVars, spVars, upVars, hmVars, cgVars, alVars>>

Init ==
    /\ part \in {"review", "sync", "upload", "home", "guard", "log"}
    /\ RvInit /\ (part # "review" => rv.links = <<>>)
    /\ SpInit /\ (part # "sync" => spServer.run = "none")
    /\ UpInit /\ (part # "upload" => upStore[1].code = 0)
    /\ HmInit /\ CgInit /\ AlInit

InReview(A) == part = "review" /\ A /\ UNCHANGED <<part, spVars, upVars, hmVars, cgVars, alVars>>
InSync(A) == part = "sync" /\ A /\ UNCHANGED <<part, rvVars, upVars, hmVars, cgVars, alVars>>
InUpload(A) == part = "upload" /\ A /\ UNCHANGED <<part, rvVars, spVars, hmVars, cgVars, alVars>>
InHome(A) == part = "home" /\ A /\ UNCHANGED <<part, rvVars, spVars, upVars, cgVars, alVars>>
InGuard(A) == part = "guard" /\ A /\ UNCHANGED <<part, rvVars, spVars, upVars, hmVars, alVars>>
InLog(A) == part = "log" /\ A /\ UNCHANGED <<part, rvVars, spVars, upVars, hmVars, cgVars>>

Next == InReview(RvNext) \/ InSync(SpNext) \/ InUpload(UpNext) \/ InHome(HmNext) \/ InGuard(CgNext) \/ InLog(AlNext)

(* The fairness of SpSpec and of UpSpec, for the part that moves. *)
Fair ==
    /\ WF_pages(InSync(Tick)) /\ WF_pages(InSync(HideBar)) /\ WF_pages(InSync(PostArrives))
    /\ WF_pages(InSync(RunEnds)) /\ WF_pages(InSync(PostOk \/ PostBusy))
    /\ \A i \in 1 .. SpPolls : /\ WF_pages(InSync(ProgressServed(i)))
                               /\ WF_pages(InSync(FirstAnswer(i) \/ PollAnswer(i)))
    /\ WF_pages(InUpload(DashTick)) /\ WF_pages(InUpload(\E r \in upReqs : UpServe(r)))
    /\ WF_pages(InUpload(\E r \in upReqs : UpArrives(r)))

Spec == Init /\ [][Next]_pages /\ Fair

-----------------------------------------------------------------------------
(* Properties, besides those of the parts. *)

(* Every part's variables keep to their types, and the log to its length. *)
PagesTypeOK == RvTypeOK /\ SpTypeOK /\ UpTypeOK /\ HmTypeOK /\ CgTypeOK /\ AlTypeOK
=============================================================================
