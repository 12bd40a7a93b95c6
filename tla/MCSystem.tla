------------------------------- MODULE MCSystem -----------------------------
(***************************************************************************)
(* Instances that start from an empty database: drafts, submissions and    *)
(* competing, repeated, malformed or unauthorised decisions of people, and *)
(* the life of one request under the worker.                               *)
(***************************************************************************)
EXTENDS Properties, TLC

Msg(op, id, role, key, payload) ==
    [op |-> op, actor |-> [id |-> id, role |-> role], key |-> key,
     payload |-> payload]

\* ann asks, rob is the default reviewer, ada an admin who may also ask.
DraftM == Msg("create", "ann", "employee", "", "vpn")
DraftOfAda == Msg("create", "ada", "admin", "", "vpn")
SubmitM == Msg("submit", "ann", "employee", "k", "")
SubmitAgain == Msg("submit", "ann", "employee", "k2", "")
SubmitByAda == Msg("submit", "ada", "admin", "k", "")
ApproveM == Msg("approved", "rob", "reviewer", "k", "")
ApproveOther == Msg("approved", "rob", "reviewer", "k", "fine")
ApproveByAda == Msg("approved", "ada", "admin", "k2", "")
RejectByAda == Msg("rejected", "ada", "admin", "k", "no")

\* Every message may be sent again; keys are shared, and reused with another
\* body or by another actor.
RaceTraffic == {DraftM, DraftOfAda, SubmitM, SubmitAgain, SubmitByAda,
                ApproveM, ApproveOther, ApproveByAda, RejectByAda}

\* Unauthorised and untimely decisions and results as well.
OddTraffic == RaceTraffic \cup {
    Msg("approved", "rob", "reviewer", "", ""),
    Msg("approved", "ann", "employee", "k", ""),
    Msg("execution", "ada", "admin", "", "success")}

\* One request that provisioning succeeds or fails for, and calls that are
\* refused whatever its state.
LifeTraffic == {
    DraftM, SubmitM, ApproveM,
    Msg("create", "ann", "employee", "", "fail-box"),
    Msg("create", "ann", "employee", "", ""),
    Msg("submit", "rob", "reviewer", "k", ""),
    Msg("submit", "ann", "employee", "", ""),
    Msg("execution", "ann", "employee", "", "success")}

\* A draft, its submission and an approval that is sent again.
RetryTraffic == {DraftM, SubmitM, ApproveM}

\* An approval whose key comes back with another comment.
ReuseTraffic == {DraftM, SubmitM, ApproveM, ApproveOther}

CallSymmetry == Permutations(Calls)

=============================================================================
