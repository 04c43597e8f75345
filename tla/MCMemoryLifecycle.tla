------------------------- MODULE MCMemoryLifecycle --------------------------
\* Small instances of MemoryLifecycle for TLC.
EXTENDS MemoryLifecycle, TLC

CONSTANTS w1, w2


=============================================================================
