------------------------- MODULE MCSenderNonBlocking -------------------------
(* SenderNonBlocking for TLC: clients are interchangeable.                    *)
EXTENDS SenderNonBlocking

Symmetry == Permutations(Clients)
=============================================================================
