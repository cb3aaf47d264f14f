----------------------------- MODULE MCVoxelMap ------------------------------
EXTENDS VoxelMap, TLC

Renamings == Permutations(Roots) \cup Permutations(Octants) \cup Permutations(Cells)
==============================================================================
