------------------------------ MODULE MCMediaJobs ------------------------------
EXTENDS MediaJobs, TLC
CONSTANTS w1, w2
Alike == Permutations(Workers)
=============================================================================
