------------------------------ MODULE MCEnrollment ------------------------------
(***************************************************************************)
(* Instances of CourseEnrollment for TLC.                                  *)
(***************************************************************************)
EXTENDS CourseEnrollment, TLC

CONSTANTS q1, q2

Requests == Permutations(Request)
==================================================================================
