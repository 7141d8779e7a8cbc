------------------------------ MODULE MCCuckoo ------------------------------
(***************************************************************************)
(* The second cuckoo hash table for TLC.                                   *)
(***************************************************************************)
EXTENDS CuckooHashV2

GrowingSpec ==
  /\ CuckooInit /\ CvInit /\ ckRehash = TRUE
  /\ [][CvNext /\ UNCHANGED cuckooVars]_<<cuckooVars, cvVars>>

(* In a table of three rows the first two places of the fourth key are one *)
(* and the same, as the remainders of 0; in one of six rows the places of  *)
(* the others spread.                                                      *)
MCCkHashes == <<<<0, 1, 2>>, <<0, 2, 5>>, <<3, 1, 5>>, <<0, 0, 4>>, <<0, 4, 1>>>>
=============================================================================
