---------------------------- MODULE MCEnrollment ----------------------------
(* Instances of Enrollment for TLC.                                        *)
EXTENDS Enrollment, TLC

CONSTANTS t, a, b, s1, s2

\* The clients are alike, and so are the session ids.
Symmetry == Permutations({a, b}) \cup Permutations({s1, s2})

=============================================================================
