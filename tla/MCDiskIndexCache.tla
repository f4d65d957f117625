-------------------------- MODULE MCDiskIndexCache --------------------------
(***************************************************************************)
(* DiskIndexCache for TLC: two processes and two index blocks; the         *)
(* configurations give the temporary names, the clock and the faults.      *)
(***************************************************************************)
EXTENDS DiskIndexCache, TLC

CONSTANTS p1, p2, x1, x2

MCProcs == {p1, p2}
MCIndexIDs == {x1, x2}

AllCalls == Calls
RenameOnly == {"rename"}
NoCalls == {}

Symmetry == Permutations(MCProcs) \cup Permutations(MCIndexIDs)

=============================================================================
