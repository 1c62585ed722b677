--------------------------- MODULE MCAddressSpace ---------------------------
EXTENDS AddressSpace, TLC

Symmetry == Permutations(Cpus) \union Permutations(Spaces)
=============================================================================
