----------------------------- MODULE ProcessMC ------------------------------
(* The process kernel with two or three processes.  The interrupt handlers *)
(* poll one or two of them; the others are polled by threads only and are  *)
(* interchangeable.                                                        *)
EXTENDS Process, TLC

CONSTANTS p1, p2, p3

TwoProcs == {p1, p2}
ThreeProcs == {p1, p2, p3}
OneDriver == {p1}
TwoDrivers == {p1, p2}
Symmetry == Permutations({p2, p3})
=============================================================================
