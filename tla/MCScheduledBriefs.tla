-------------------------- MODULE MCScheduledBriefs -------------------------
\* Small instances of ScheduledBriefs for TLC.
EXTENDS ScheduledBriefs, TLC

CONSTANTS s1, w1, w2

=============================================================================
