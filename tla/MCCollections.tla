--------------------------- MODULE MCCollections ----------------------------
EXTENDS Collections

MCIndices == -5..3
MCCounts == -2..2
=============================================================================
