------------------------ MODULE MCProposalExecution -------------------------
\* Small instances of ProposalExecution for TLC.
EXTENDS ProposalExecution, TLC

CONSTANTS p1, p2, google, demo

MCAccountIds == {google, demo}

\* A consent may grant the draft scope, or leave it out.
MCGrants == {{"gmail.compose"}, {}}
FullGrant == {{"gmail.compose"}}

\* p1: a Gmail draft from Google evidence.  p2: the same from demo evidence.
MCTypeOf == [p \in Proposals |-> "create_gmail_draft"]
MCEvidence == [p \in Proposals |-> IF p = p1 THEN {google} ELSE {demo}]
=============================================================================
