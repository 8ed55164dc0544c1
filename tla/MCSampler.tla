------------------------------ MODULE MCSampler ------------------------------
EXTENDS Sampler, TLC

\* No action names an application.
AppSymmetry == Permutations(Apps)
=============================================================================
