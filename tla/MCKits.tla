-------------------------------- MODULE MCKits --------------------------------
EXTENDS Kits, TLC

Symmetry == Permutations(Attendees) \cup Permutations(HandoutIds) \cup Permutations(KitIds) \cup Permutations(Events) \cup Permutations(Staff)
=============================================================================
