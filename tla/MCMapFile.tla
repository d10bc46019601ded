----------------------------- MODULE MCMapFile -----------------------------
EXTENDS MapFile

CONSTANTS k1, k2

MCKeys == {k1, k2}

=============================================================================
