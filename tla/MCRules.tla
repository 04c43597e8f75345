------------------------------- MODULE MCRules ------------------------------
\* Small instances of Rules for TLC.
EXTENDS Rules, TLC

Phrases ==
  {[rule |-> k, n |-> 0] : k \in {"end_of_day", "end_of_week", "end_of_month", "tomorrow"}}
  \cup {[rule |-> "by_weekday", n |-> n] : n \in 0..6}
  \cup {[rule |-> "by_ordinal", n |-> n] : n \in {0, 1, 15, 28, 29, 30, 31, 45}}
\* One phrase, or two of different rules.
MCDueTexts == {{p} : p \in Phrases}
              \cup {{p, q} : p \in Phrases, q \in {[rule |-> "tomorrow", n |-> 0],
                                                  [rule |-> "by_weekday", n |-> 2]}}
MCRealDueTexts == {t \in MCDueTexts : \A p, q \in t : p.rule = q.rule => p = q}
\* The last days of months and all days of a week, over a leap February and
\* a turn of the year.
MCSentDays == {27, 28, 29, 30, 31, 58, 59, 118, 119, 120} \cup 363..366
              \cup 392..397 \cup 421..426 \cup 728..731

Clocks == [h : {0, 4, 9, 10, 12, 13}, m : {Null, 30, 75}, half : {Null, "am", "pm"}]
Stated == [quoted |-> FALSE, subject |-> TRUE, dates |-> {[day |-> 5, weekday |-> "none"]},
           range |-> Null, single |-> Null, duration |-> Null, people |-> 1, self |-> FALSE]
Minutes90 == [n |-> 90, unit |-> "minute"]
Hours2 == [n |-> 2, unit |-> "hour"]
At10 == [h |-> 10, m |-> 30, half |-> Null]
\* Requests that differ in their times, and requests that differ in the rest.
MCRequests ==
  {[Stated EXCEPT !.range = [s |-> s, e |-> e], !.single = at, !.duration = d] :
     s \in Clocks, e \in Clocks, at \in {Null, At10}, d \in {Null, Minutes90}}
  \cup {[Stated EXCEPT !.single = at, !.duration = d] : at \in Clocks, d \in {Null, Minutes90}}
  \cup {[Stated EXCEPT !.single = At10, !.duration = Hours2, !.quoted = q, !.subject = s,
                       !.dates = dates, !.people = n, !.self = self] :
          q \in BOOLEAN, s \in BOOLEAN, n \in {0, 1, 50, 51}, self \in BOOLEAN,
          dates \in {D \in SUBSET [day : {3, 5}, weekday : {"none", "right", "wrong"}] :
                       Cardinality(D) <= 2}}
MCReferences == {0, 1440 * 5 + 600}

\* The clocks change on day 10: forward and back by an hour at 01:00 UTC
\* (London), by half an hour (Lord Howe), and forward at the end of the day
\* before (Nuuk).
MCZones == {[at |-> 14460, before |-> 0, after |-> 60], [at |-> 14460, before |-> 60, after |-> 0],
            [at |-> 13890, before |-> 630, after |-> 660], [at |-> 13860, before |-> 660, after |-> 630],
            [at |-> 14460, before |-> -120, after |-> -60]}
MCBriefingTimes == {0, 59, 60, 61, 89, 90, 91, 119, 120, 121, 149, 150, 179, 180, 450, 1380, 1410, 1439}
MCTicks == {60 * h : h \in 220..265} \cup {14399, 14459, 14461}

\* Six calls, so that the delays reach their ceiling and the budget its end.
MCReads ==
  {[answers |-> a, jitters |-> [i \in 1..6 |-> j], after |-> after,
    limits |-> [Defaults EXCEPT !.attempts = n]] :
     a \in [1..6 -> {"ok", "transient", "client"}], j \in {50, 100, 150},
     after \in {0, 3000, 60000}, n \in {3, 6}}

Live == [approved |-> TRUE, fresh |-> TRUE, refreshable |-> TRUE, answers |-> <<200, 200, 200>>,
         error |-> "invalid_request"]
Tokens == {Live, [Live EXCEPT !.approved = FALSE]}
          \cup {[Live EXCEPT !.fresh = FALSE, !.refreshable = r, !.answers = <<a, b, 503>>, !.error = e] :
                  r \in BOOLEAN, a \in {200, 400, 503}, b \in {200, 401, NoAnswer},
                  e \in {"invalid_grant", "invalid_client", "invalid_request", "server_error"}}
\* The answer to the write, and whether it was applied.
Open == {NoAnswer, 408, 429, 500, 501, 502, 503, 504, 505}
Written == {[posted |-> 200, applied |-> TRUE]}
           \cup [posted : {400, 401, 403, 404, 409}, applied : {FALSE}]
           \cup [posted : Open, applied : BOOLEAN]
Reading == [1..2 -> {200, 404, 503, NoAnswer}]
\* Every token, every answer to the write, and every reading of every copy.
CallsWith(approvals, copies) ==
  {[token |-> tw[1], posted |-> tw[2].posted, applied |-> tw[2].applied, reads |-> <<200, 200>>,
    approved |-> a, stored |-> s] :
     tw \in ({Live} \X Written) \cup (Tokens \X {w \in Written : w.posted \in {200, 502}}),
     a \in approvals, s \in approvals \cap copies}
  \cup {[token |-> Live, posted |-> 200, applied |-> TRUE, reads |-> r, approved |-> a, stored |-> s] :
          r \in Reading, a \in approvals, s \in copies}

DraftOf(to, re, text, body, reply) ==
  [to |-> to, subject |-> [re |-> re, text |-> text], body |-> body, reply |-> reply]
MCDrafts ==
  CallsWith({DraftOf({"ann"}, re, "s", "b", reply) : re \in 0..2, reply \in BOOLEAN},
            {DraftOf(to, re, text, body, FALSE) :
               to \in {{"ann"}, {"ann", "bob"}, {}}, re \in 0..3, text \in {"s", "t"}, body \in {"b", "c"}})

Clock60 == [minute : {540, 600, 660}, offset : {0, 60, Absent}]
EventOf(title, s, e, attendees, organiser, cancelled) ==
  [title |-> title, start |-> s, end |-> e, attendees |-> attendees, organiser |-> organiser,
   cancelled |-> cancelled]
At600 == [minute |-> 600, offset |-> 60]
At660 == [minute |-> 660, offset |-> 60]
\* Copies that differ in their times, and copies that differ in the rest.
MCEvents ==
  CallsWith({EventOf("e", At600, At660, g, "owner", FALSE) : g \in {{"ann"}, {"ann", "owner"}}},
            {EventOf("e", s, e, {"ann"}, "owner", FALSE) : s \in Clock60, e \in Clock60}
            \cup {EventOf(title, At600, At660, g, o, x) :
                    title \in {"e", "f"}, g \in SUBSET {"ann", "eve", "owner"}, o \in {"owner", Absent},
                    x \in BOOLEAN})

\* The policies of three bursts and of the confirmations, and an override whose
\* burst takes longer to refill than a bucket is kept.
Overridden == Effective("demo_start", [demo_start |-> [capacity |-> 3, amount |-> 1, window |-> 60]])
MCPolicies == {Registry[code] : code \in {"demo_start", "brief_generate", "external_execution",
                                          "deletion_confirm_cancel", "account_deletion_confirm"}}
              \cup {Overridden}
\* Gaps at and about the refill of one token, of the window and of the expiry,
\* with an outage of Redis; for the override, two bursts.
MCArrivals(p) ==
  LET token == CeilDiv(p.window, p.amount)
      gaps == {0, token - 1, token, p.window, BucketTTL(p) - 1, BucketTTL(p)}
      outages == {<<>>, <<"answers", "late">>, <<"answers", "down", "down">>}
      sequences(n, G) == {[i \in 1..n |-> [gap |-> IF i = 1 THEN 0 ELSE g[i],
                                           redis |-> IF i \in DOMAIN o THEN o[i] ELSE "answers"]] :
                            g \in [2..n -> G], o \in outages}
  IN IF p = Overridden THEN sequences(6, {0, BucketTTL(p)}) ELSE sequences(5, gaps)
=============================================================================
