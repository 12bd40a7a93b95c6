-------------------------------- MODULE MCWarm ------------------------------
(***************************************************************************)
(* Instances about the worker.  They start from a database that people     *)
(* have used: r1 waits for its review and r2 is approved.  The calls that  *)
(* brought it there are over, so that this is a state module System        *)
(* reaches, and the only calls still to come are those of "Fresh".         *)
(***************************************************************************)
EXTENDS Properties, TLC

Msg(op, id, role, key, payload) ==
    [op |-> op, actor |-> [id |-> id, role |-> role], key |-> key,
     payload |-> payload]

DraftM(target) == Msg("create", "ann", "employee", "", target)
SubmitM == Msg("submit", "ann", "employee", "k", "")
ApproveM == Msg("approved", "rob", "reviewer", "k", "")
ResultM(payload) == Msg("execution", "ada", "admin", "", payload)

CONSTANTS r1, r2, Fresh

Past == {"draft1", "submit1", "draft2", "submit2", "approve2"}
AllCalls == Past \cup Fresh

Draft(id, target) == DraftRow(id, DraftM(target).actor, target)
Waiting(id, target) == SubmittedRow(Draft(id, target), 0)
Approved(id, target) == ReviewedRow(Waiting(id, target), "approved", 0)

Done(m, row) == [pc |-> "done", msg |-> m, id |-> row.id, row |-> row,
                 result |-> "ok"]

Entry(row, call, m, action) ==
    [request |-> row.id, version |-> row.version, action |-> action,
     actor |-> m.actor, writer |-> call]

Assigned(row, call) == [Entry(row, call, SubmitM, "review_assigned")
                           EXCEPT !.actor = SystemActor]

PastAudit ==
    {Entry(Draft(r1, "vpn"), "draft1", DraftM("vpn"), "draft_created"),
     Entry(Draft(r2, "fail-box"), "draft2", DraftM("fail-box"), "draft_created"),
     Entry(Waiting(r1, "vpn"), "submit1", SubmitM, "submitted"),
     Entry(Waiting(r2, "fail-box"), "submit2", SubmitM, "submitted"),
     Assigned(Waiting(r1, "vpn"), "submit1"),
     Assigned(Waiting(r2, "fail-box"), "submit2"),
     Entry(Approved(r2, "fail-box"), "approve2", ApproveM, "approved")}

PastKeys ==
    {[scope |-> <<"submit", r1>>, key |-> "k", fingerprint |-> "ann"],
     [scope |-> <<"submit", r2>>, key |-> "k", fingerprint |-> "ann"],
     [scope |-> <<"approved", r2>>, key |-> "k", fingerprint |-> ""]}

PastCalls ==
    [c \in AllCalls |->
        CASE c = "draft1"   -> Done(DraftM("vpn"), Draft(r1, "vpn"))
          [] c = "draft2"   -> Done(DraftM("fail-box"), Draft(r2, "fail-box"))
          [] c = "submit1"  -> Done(SubmitM, Waiting(r1, "vpn"))
          [] c = "submit2"  -> Done(SubmitM, Waiting(r2, "fail-box"))
          [] c = "approve2" -> Done(ApproveM, Approved(r2, "fail-box"))
          [] OTHER          -> IdleCall]

UsedDatabase ==
    /\ requests = (r1 :> Waiting(r1, "vpn") @@ r2 :> Approved(r2, "fail-box"))
    /\ audit = PastAudit
    /\ reviews = {[request |-> r2, version |-> 3, decision |-> "approved",
                   actor_id |-> "rob", writer |-> "approve2"]}
    /\ idempotency = PastKeys
    /\ jobRuns = {}
    /\ calls = PastCalls
    /\ WorkerInit
    /\ faults = 0

WarmInit == UsedDatabase /\ now = 0

WarmSpec == WarmInit /\ [][Next]_vars

FairWarmSpec == WarmSpec /\ \A w \in Workers : WF_vars(WorkStep(w))

\* The same database before the approval of r2: both requests wait for their
\* review, were submitted at the same moment, and come due for a reminder at
\* the same moments.  Ann has sent her submission of r1 once more since.
CrowdedDatabase ==
    /\ requests = (r1 :> Waiting(r1, "vpn") @@ r2 :> Waiting(r2, "fail-box"))
    /\ audit = {e \in PastAudit : e.writer # "approve2"}
    /\ reviews = {}
    /\ idempotency = {rec \in PastKeys : rec.scope[1] = "submit"}
    /\ jobRuns = {}
    /\ calls = [c \in AllCalls |->
                  CASE c = "approve2" -> IdleCall
                    [] c \in Fresh    -> Done(SubmitM, Waiting(r1, "vpn"))
                    [] OTHER          -> PastCalls[c]]
    /\ WorkerInit
    /\ faults = 0

FairBusySpec ==
    /\ UsedDatabase \/ CrowdedDatabase
    /\ now = 1
    /\ [][Next]_vars
    /\ \A w \in Workers : WF_vars(WorkStep(w))

\* The messages of the past, and what may still come; once both requests are
\* submitted, approvals only.
PastTraffic == {DraftM("vpn"), DraftM("fail-box"), SubmitM}
ReviewTraffic == {ApproveM}
ApproveTraffic == PastTraffic \cup {ApproveM}
ReportTraffic == ApproveTraffic \cup {ResultM("failure"), ResultM("success")}

FreshSymmetry == Permutations(Fresh)
WorkerSymmetry == Permutations(Workers)

=============================================================================
