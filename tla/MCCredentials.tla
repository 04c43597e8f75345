---------------------------- MODULE MCCredentials ----------------------------
\* Small instances of Credentials for TLC.
EXTENDS Credentials, TLC

CONSTANTS t1, t2, h1, h2

=============================================================================
