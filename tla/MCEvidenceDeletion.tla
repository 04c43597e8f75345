-------------------------- MODULE MCEvidenceDeletion --------------------------
\* Small instances of EvidenceDeletion for TLC.
EXTENDS EvidenceDeletion, TLC

CONSTANTS mail, event, request, conflict, draft, task

\* A mail of the Google account, an event of the demo calendar; a conflict
\* and a task stand on both kinds.
MCHomeOf == mail :> "google" @@ event :> "demo"
MCRefsOf == request :> {mail} @@ conflict :> {mail, event} @@ draft :> {mail} @@ task :> {mail, event}
MCPools == {{request}, {conflict}, {draft}, {task}}
=============================================================================
