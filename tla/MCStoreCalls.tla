----------------------------- MODULE MCStoreCalls ---------------------------
(***************************************************************************)
(* The used database of module MCWarm, with its history.                   *)
(***************************************************************************)
EXTENDS MCWarm, StoreCalls

PastRows == {Draft(r1, "vpn"), Waiting(r1, "vpn"),
             Draft(r2, "fail-box"), Waiting(r2, "fail-box"), Approved(r2, "fail-box")}

PastWrites == {WriteEntry(r1, 1, "draft1"), WriteEntry(r1, 2, "submit1"),
               WriteEntry(r2, 1, "draft2"), WriteEntry(r2, 2, "submit2"),
               WriteEntry(r2, 3, "approve2")}

RecordedWarmSpec ==
    /\ WarmInit /\ seen = PastRows /\ writes = PastWrites
    /\ [][Next /\ Record]_<<vars, seen, writes>>

=============================================================================
