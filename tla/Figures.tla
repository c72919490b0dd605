------------------------------- MODULE Figures -------------------------------
(***************************************************************************)
(* The figures computed from the event trails and from an evaluation's     *)
(* cases, and the notes a turn recalls from its scratchpad.  Fractions are *)
(* pairs <<numerator, denominator>>; a day is a number.                    *)
(***************************************************************************)
EXTENDS Retrieval, FiniteSetsExt

-----------------------------------------------------------------------------
(* Reading analytics.  A reading event: type, from_page, to_page, day.     *)

InWindow(events, today, window) ==
  Filter(events, LAMBDA e : e.day >= today - (window - 1))

Gain(e) == e.to_page - e.from_page

Counted(events) ==
  {i \in DOMAIN events : /\ events[i].type = "position_advanced"
                         /\ events[i].from_page # Unset /\ events[i].to_page # Unset
                         /\ Gain(events[i]) > 0}

PagesByDay(events) ==
  [day \in {events[i].day : i \in Counted(events)} |->
     SumFunction([i \in {i \in Counted(events) : events[i].day = day} |-> Gain(events[i])])]

\* A gap does not end the run.
StreakStepThroughGaps(s, day) ==
  [last |-> day, run |-> s.run + 1, longest |-> s.run + 1]

\* s: the last active day, the run that ends on it and the longest so far.
StreakStep(s, day) ==
  LET run == IF day = s.last + 1 THEN s.run + 1 ELSE 1
  IN  [last |-> day, run |-> run,
       longest |-> IF run > s.longest THEN run ELSE s.longest]

\* One pass over the sorted days, and back from today.
Streaks(active, today) ==
  LET misses == {n \in 0 .. Cardinality(active) : today - n \notin active}
  IN  [longest |-> FoldLeft(StreakStep, [last |-> -1, run |-> 0, longest |-> 0],
                            Sorted(active, <)).longest,
       current |-> CHOOSE n \in misses : \A m \in misses : n <= m]

Analytics(events, today, window) ==
  LET pages == PagesByDay(InWindow(events, today, window))
  IN  [pages_over_time |-> pages,
       pages_read |-> SumFunction(pages),
       active_days |-> Cardinality(DOMAIN pages),
       streaks |-> Streaks(DOMAIN pages, today)]

-----------------------------------------------------------------------------
(* Usage.  A usage event: type, prompt, completion, tool, day.             *)

\* Nothing is recorded when a call reports no tokens.
RecordTokenUsage(events, prompt, completion, day) ==
  IF prompt = 0 /\ completion = 0 THEN events
  ELSE Append(events, [type |-> "token_usage", prompt |-> prompt,
                       completion |-> completion, tool |-> Unset, day |-> day])

RecordToolCall(events, tool, day) ==
  Append(events, [type |-> "tool_call", prompt |-> Unset, completion |-> Unset,
                  tool |-> tool, day |-> day])

Usage(events, today, window) ==
  LET recent == InWindow(events, today, window)
      Tokens == {i \in DOMAIN recent : recent[i].type = "token_usage"}
      Calls == {i \in DOMAIN recent : recent[i].type = "tool_call"}
      prompts == SumFunction([i \in Tokens |-> recent[i].prompt])
      completions == SumFunction([i \in Tokens |-> recent[i].completion])
      byTool == [t \in {recent[i].tool : i \in Calls} |->
                   Cardinality({i \in Calls : recent[i].tool = t})]
  IN  [prompt_tokens |-> prompts, completion_tokens |-> completions,
       total_tokens |-> prompts + completions,
       tool_calls |-> SumFunction(byTool), tool_calls_by_tool |-> byTool]

-----------------------------------------------------------------------------
(* An evaluation's summary: hit rates and judgments over its cases.        *)

\* A case: its retrieval's hit and its judgment (faithfulness), Unset if none.
SummarizeCases(cases) ==
  LET judged == {i \in DOMAIN cases : cases[i].judged # Unset}
  IN  [cases |-> Len(cases),
       hit_rate |-> IF cases = <<>> THEN <<0, 1>>
                    ELSE <<SumFunction([i \in DOMAIN cases |-> cases[i].hit]), Len(cases)>>,
       faithfulness |->
         IF judged = {} THEN <<0, 1>>
         ELSE <<SumFunction([i \in judged |-> cases[i].judged]), Cardinality(judged)>>]

-----------------------------------------------------------------------------
(* The scratchpad.  A note: kind and the words of its text.                *)

Plans(notes) == Filter(notes, LAMBDA n : n.kind = "plan")

RecallNotes(notes, query, limit) ==
  LET others == Filter(notes, LAMBDA n : n.kind # "plan")
      Shared(i) == Cardinality(query \cap others[i].words)
      best == Ranked(others, {i \in DOMAIN others : Shared(i) > 0},
                LAMBDA i, j : Shared(i) > Shared(j) \/ (Shared(i) = Shared(j) /\ i > j))
  IN  Plans(notes) \o First(best, limit)

-----------------------------------------------------------------------------
(* What the figures promise.                                               *)

\* The analytics count every forward page of the window once; the longest
\* streak is the longest stretch of active days, and the current one ends
\* today and is no longer (analytics_service.py:76-145).
AnalyticsAreSound(events, today, window, a) ==
  LET gained == {i \in DOMAIN events :
                   /\ events[i].type = "position_advanced"
                   /\ events[i].from_page # Unset
                   /\ events[i].to_page # Unset
                   /\ events[i].to_page > events[i].from_page
                   /\ today - events[i].day < window}
      active == {events[i].day : i \in gained}
      Stretch(first, n) == first .. first + n - 1 \subseteq active
  IN  /\ a.pages_read = SumFunction([i \in gained |-> events[i].to_page - events[i].from_page])
      /\ a.active_days = Cardinality(active)
      /\ active # {} => \E day \in active : Stretch(day, a.streaks.longest)
      /\ \A day \in active : ~Stretch(day, a.streaks.longest + 1)
      /\ a.streaks.current <= a.streaks.longest
      /\ Stretch(today - a.streaks.current + 1, a.streaks.current)
      /\ today - a.streaks.current \notin active

\* Every token and every call of the window is in the totals, each call under
\* its tool (usage_service.py:78-134).
UsageIsSound(events, today, window, u) ==
  LET recent == {i \in DOMAIN events : today - events[i].day < window}
      Spent(i) == IF events[i].type = "tool_call" THEN 0
                  ELSE events[i].prompt + events[i].completion
      calls == {i \in recent : events[i].type = "tool_call"}
  IN  /\ u.total_tokens = SumFunction([i \in recent |-> Spent(i)])
      /\ u.tool_calls = Cardinality(calls)
      /\ \A i \in calls : u.tool_calls_by_tool[events[i].tool]
                           = Cardinality({j \in calls : events[j].tool = events[i].tool})

\* The three scores of a retrieval agree on whether anything was found, and a
\* full recall within the first places leaves the reciprocal rank at one
\* (scorers/retrieval.py:11-43).
ScoresAgree(retrieved, expected) ==
  LET recall == Recall(retrieved, expected)
      mrr == MeanReciprocalRank(retrieved, expected)
  IN  /\ HitRate(retrieved, expected) = 0 <=> recall[1] = 0
      /\ HitRate(retrieved, expected) = 0 <=> mrr[1] = 0
      /\ recall[1] <= recall[2]
      /\ recall[1] + mrr[2] - 1 <= Len(retrieved) \/ recall[1] = 0

\* A recall holds every plan; of the other notes that share a word with the
\* query, the ones left out are no better and no newer than any that is in
\* (scratchpad_service.py:135-168).
RecallKeepsTheBest(notes, query, limit, found) ==
  LET plans == Plans(notes)
      rest == SubSeq(found, Len(plans) + 1, Len(found))
      Score(n) == Cardinality(query \cap n.words)
  IN  /\ SubSeq(found, 1, Len(plans)) = plans
      /\ Len(rest) <= limit
      /\ \A k \in DOMAIN rest : Score(rest[k]) > 0
      /\ \A i \in DOMAIN notes :
           notes[i].kind = "plan" \/ Score(notes[i]) = 0
             \/ notes[i] \in ToSet(rest)
             \/ /\ Len(rest) = limit
                /\ \A k \in DOMAIN rest : Score(rest[k]) >= Score(notes[i])
=============================================================================
