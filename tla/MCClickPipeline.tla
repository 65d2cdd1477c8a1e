--------------------------- MODULE MCClickPipeline ---------------------------
EXTENDS ClickPipeline, TLC

Symmetry == Permutations(Visitors) \cup Permutations(Codes)
=============================================================================
