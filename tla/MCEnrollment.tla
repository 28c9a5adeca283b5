---------------------------- MODULE MCEnrollment ----------------------------
(***************************************************************************)
(* Instances of Enrollment for TLC.                                        *)
(***************************************************************************)
EXTENDS Enrollment, TLC

\* Hosts and delete requests are interchangeable.
EnrollmentSymmetry == Permutations(Hosts) \cup Permutations(Deleters)
=============================================================================
