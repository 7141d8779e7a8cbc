-------------------------- MODULE MCSenderBlocking --------------------------
(* SenderBlocking for TLC: clients are interchangeable.                    *)
EXTENDS SenderBlocking

Symmetry == Permutations(Clients)
=============================================================================
