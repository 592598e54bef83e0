------------------------- MODULE MCResourceController -------------------------
\* ResourceController for TLC: the pod keys are interchangeable, which is sound
\* for the run that checks no liveness.
EXTENDS ResourceController, TLC

KeySymmetry == Permutations(Keys)

=============================================================================
