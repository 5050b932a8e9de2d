------------------------------ MODULE MCGateway ------------------------------
EXTENDS Gateway, TLC

\* Members and guilds differ in nothing but their name.
Symmetry == Permutations(Members) \cup Permutations(Guilds)
=============================================================================
