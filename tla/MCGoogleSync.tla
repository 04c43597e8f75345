---------------------------- MODULE MCGoogleSync ----------------------------
\* Small instances of GoogleSync for TLC.
EXTENDS GoogleSync, TLC

CONSTANTS m1, m2, s1, s2

=============================================================================
