-------------------------- MODULE MCUpdateInstall --------------------------
\* Two processes of the program, three releases of which the second is bad.
EXTENDS UpdateInstall
CONSTANTS p1, p2, h1
MCProcs == {p1, p2}
MCHelpers == {h1}
MCBad == {2}
=============================================================================
