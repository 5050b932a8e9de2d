------------------------------ MODULE MCCommands ------------------------------
EXTENDS Commands, TLC

\* Neither the tasks nor the users differ in anything but their name.
Symmetry == Permutations(Slots) \cup Permutations(Users)
=============================================================================
