------------------------- MODULE MCDownloadService -------------------------
EXTENDS DownloadService, TLC
Symmetry == Permutations(Tasks)
=============================================================================
