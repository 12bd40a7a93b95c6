--------------------------- MODULE MCMemoryStore ----------------------------
(***************************************************************************)
(* Two requests of two people, and time enough for a reminder and an       *)
(* approved execution to fall due at the same moment as another.           *)
(***************************************************************************)
EXTENDS MemoryStore, TLC

MCUsers == {"ann", "bob"}
MCTargets == {"vpn"}

\* The requests are interchangeable: no definition names one of them.
Requests == Permutations(Ids)

=============================================================================
