--------------------------- MODULE MCHarnessHost ---------------------------
EXTENDS HarnessHost
CONSTANTS appdata, moved, own, p1, p2, fact
=============================================================================
