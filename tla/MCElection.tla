---------------------------- MODULE MCElection ----------------------------
\* Instances of Election for TLC.
EXTENDS Election

\* What comes after two elections have crossed is not explored.
Uncrossed == ~crossed
===========================================================================
