---------------------------- MODULE MCEvidenceOps ----------------------------
(* Instances of EvidenceOps for TLC: a few processes on one bundle whose
   scenario failed once in one of a few ways.                              *)
EXTENDS EvidenceOps, TLC

CONSTANTS p1, p2, d1

MCDiagnostics == {d1}

TwoProcs == {p1, p2}

\* A FUTURE_FAIL with a fetch phase, and a BLOCKED whose fetch timed out.
MCRecorded == {Original("1", FALSE, d1, TRUE, TRUE),
               Original(None, TRUE, TimeoutHash, FALSE, TRUE)}

Failing == {Original("1", FALSE, d1, TRUE, TRUE)}

Symmetry == Permutations(TwoProcs)
=============================================================================
