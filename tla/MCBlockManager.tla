--------------------------- MODULE MCBlockManager ---------------------------
EXTENDS BlockManager, TLC

\* No definition tells one block from another.
BlockSymmetry == Permutations(Blocks)

=============================================================================
