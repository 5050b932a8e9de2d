------------------------------ MODULE MCSessions ------------------------------
EXTENDS Sessions, TLC

\* Clicks are alike, and so are users and menus of one kind.
Symmetry == Permutations(Clicks) \cup Permutations(Users)
               \cup Permutations(Loadouts) \cup Permutations(Histories)
=============================================================================
