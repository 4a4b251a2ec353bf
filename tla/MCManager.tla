----------------------------- MODULE MCManager ------------------------------
EXTENDS Manager, TLC

\* The connections are interchangeable.
JoinerSymmetry == Permutations(Joiners)
=============================================================================
