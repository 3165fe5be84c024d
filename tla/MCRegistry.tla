----------------------------- MODULE MCRegistry -----------------------------
EXTENDS Registry, TLC

\* Two roots, the first of them listed again, as PATH repeats explicit roots.
TwoRoots == <<"a", "b", "a">>

\* Nothing tells two executables apart but what they print.
Symmetry == Permutations(File)

\* What the executables print and what is wanted take no part in discovery,
\* so the files change in one such world: two executables that print the same.
OneWorld == {<<[f \in File |-> [declares |-> 1, worth |-> 1]], Anything>>}
=============================================================================
