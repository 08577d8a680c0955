--------------------------- MODULE MCRunAdmission ---------------------------
(* RunAdmission for TLC: user threads are interchangeable. *)
EXTENDS RunAdmission, TLC

UserSymmetry == Permutations(Users)
=============================================================================
