------------------------------ MODULE MCAdmission ------------------------------
(***************************************************************************)
(* Admission with a few devices and credentials for TLC.                   *)
(***************************************************************************)
EXTENDS Admission, TLC

Alike == Permutations(Devices) \cup Permutations(Moderators) \cup Permutations(Ids)
=============================================================================
