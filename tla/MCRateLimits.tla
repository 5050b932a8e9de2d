----------------------------- MODULE MCRateLimits -----------------------------
EXTENDS RateLimits, TLC

\* Commands are alike, and so are users and guilds.
Symmetry == Permutations(Commands) \cup Permutations(Users) \cup Permutations(Guilds)
=============================================================================
