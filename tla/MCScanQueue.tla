---------------------------- MODULE MCScanQueue ----------------------------
(* Instances of ScanQueue for TLC. *)
EXTENDS ScanQueue, TLC

CONSTANTS l1, l2, d1

OneJob  == {1}
TwoJobs == {1, 2}

NoWorkers    == {}
OneLoop      == {l1}
TwoLoops     == {l1, l2}
OneDrain     == {d1}

NoneStranded == {}
OneStranded  == {1}

Symmetric == Permutations(TwoLoops)
=============================================================================
