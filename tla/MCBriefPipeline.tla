---------------------------- MODULE MCBriefPipeline --------------------------
\* Small instances of BriefPipeline for TLC.
EXTENDS BriefPipeline, TLC

Email == [kind |-> "email", folder |-> "inbox", bulk |-> FALSE, sender |-> "a", thread |-> Null,
          at |-> 0, cue |-> "none", promise |-> FALSE, due |-> Null, schedule |-> "none",
          starts |-> Null, title |-> "t"]
Event == [kind |-> "event", at |-> 0, ends |-> Null, all_day |-> FALSE, names_due |-> FALSE,
          attendees |-> 2, sender |-> "a", title |-> "t", proposed |-> FALSE, google |-> TRUE]

MCCatalog == <<
  [Email EXCEPT !.cue = "strong", !.due = 8],                                  \* 1
  [Email EXCEPT !.folder = "sent", !.thread = "x", !.promise = TRUE],          \* 2
  [Email EXCEPT !.thread = "x", !.at = 11],                                    \* 3 answers 2
  [Email EXCEPT !.bulk = TRUE, !.cue = "strong"],                              \* 4
  [Email EXCEPT !.schedule = "complete", !.starts = 14, !.due = 8],            \* 5
  [Event EXCEPT !.at = 14, !.ends = 15],                                       \* 6 what 5 asks for
  [Event EXCEPT !.at = 4, !.ends = 6, !.proposed = TRUE, !.google = FALSE],    \* 7
  [Event EXCEPT !.at = 5, !.ends = 7, !.attendees = Null],              \* 8 overlaps 7
  [Event EXCEPT !.at = 6, !.all_day = TRUE, !.names_due = TRUE],               \* 9
  [Email EXCEPT !.cue = "weak", !.due = 8, !.sender = "b"],                    \* 10
  [Email EXCEPT !.at = 12, !.due = 16]                                         \* 11
>>
MCPools == {{1, 2, 3}, {5, 6}, {7, 8}, {4, 10}, {9, 10}, {10, 11}}
MCClock == {0, 12}

Claim(type, refs, confidence, due) ==
  [type |-> type, refs |-> refs, repeats |-> {}, version |-> "llm-v1",
   confidence |-> confidence, urgency |-> 50, due |-> due]
\* A duplicate, one that cites its email twice, claims the rules do not make,
\* one on a bulk mail, one on two events.
MCClaims == {Claim("request", {10}, 100, Null),
             [Claim("request", {10}, 90, Null) EXCEPT !.repeats = {<<10, 2>>}],
             Claim("follow_up", {2}, 40, Null),
             Claim("request", {4}, 95, Null), Claim("meeting", {7, 8}, 70, Null)}
=============================================================================
