----------------------------- MODULE MCPodManager -----------------------------
\* PodManager for TLC: the workers are interchangeable, which is sound for the
\* runs that check no liveness.
EXTENDS PodManager, TLC

WorkerSymmetry == Permutations(Workers)

=============================================================================
