---------------------------- MODULE SettlementAge ----------------------------
(***************************************************************************)
(* The settlement-age monitor                                              *)
(* (apps/backend/src/services/settlement-age-monitor.ts): what it records  *)
(* of the stages of matches, its alerts for matches that wait too long in  *)
(* one, and those for completed matches that mostly did.                   *)
(***************************************************************************)
EXTENDS Integers, Sequences, FiniteSets, SequencesExt, Filters

CONSTANTS
  Matches,
  Threshold,        \* thresholdFor: a wait for each segment
  TrackLimits,      \* values of maxTracked
  MAX_CLOSED_IDS,
  CompletedWindow, MinSamples,
  None,
  LastTime          \* bound: last clock value

Segments == {"provider_wait", "submission_lag", "chain_delay", "total"}

\* validateConfig
AgeAssumption ==
  /\ IsFiniteSet(Matches)
  /\ CompletedWindow \in Nat /\ MinSamples \in 1 .. CompletedWindow
  /\ Threshold \in [Segments -> Nat]
  /\ TrackLimits \subseteq Nat \ {0} /\ MAX_CLOSED_IDS \in Nat \ {0}
  /\ LastTime \in Nat /\ None \notin Nat

VARIABLES
  ticks,        \* Date.now()
  maxTracked,
  open,         \* timelines, in the order of their first record
  closed,       \* ids of completed and abandoned matches, oldest first
  completed,    \* durations of the last completed matches, by segment
  activeAlerts, \* the alerts that are active: <<segment, kind>>
  life,         \* the match itself: its phase, and when it entered each
  forgotten     \* history: matches evicted from open or dropped from closed

monitor == <<open, closed, completed, forgotten>>
ageVars == <<ticks, maxTracked, monitor, activeAlerts, life>>

Phases == {"polling", "finished", "submitting", "settled"}

Init ==
  /\ ticks = 0
  /\ maxTracked \in TrackLimits
  /\ open = << >> /\ closed = << >>
  /\ completed = [s \in Segments |-> << >>]
  /\ activeAlerts = {}
  /\ life = [m \in Matches |-> [phase |-> "none", at |-> [p \in Phases |-> None]]]
  /\ forgotten = {}

Blank(m) == [match |-> m, activated |-> None, provider_result |-> None,
             submission_started |-> None]
Tracked(timelines, m) == \E i \in DOMAIN timelines : timelines[i].match = m
Timeline(m) == open[CHOOSE i \in DOMAIN open : open[i].match = m]

\* makeRoom: the oldest timelines go until there is room for one more.
MadeRoom(timelines) ==
  IF Len(timelines) < maxTracked THEN timelines
  ELSE SubSeq(timelines, Len(timelines) - maxTracked + 2, Len(timelines))

\* recordStage, for a stage that does not complete the match.
WithStage_Latest(timelines, m, stage, at) ==
  LET room == IF Tracked(timelines, m) THEN timelines
              ELSE Append(MadeRoom(timelines), Blank(m)) IN
    IF Contains(closed, m) THEN timelines
    ELSE [i \in DOMAIN room |->
            IF room[i].match = m THEN [room[i] EXCEPT ![stage] = at] ELSE room[i]]
WithStage(timelines, m, stage, at) ==
  LET room == IF Tracked(timelines, m) THEN timelines
              ELSE Append(MadeRoom(timelines), Blank(m)) IN
    IF Contains(closed, m) THEN timelines
    ELSE [i \in DOMAIN room |->
            IF room[i].match = m /\ room[i][stage] = None
            THEN [room[i] EXCEPT ![stage] = at] ELSE room[i]]

Evicted(before, after) == {m \in Matches : Tracked(before, m) /\ ~ Tracked(after, m)}
RecordStage(m, stage) ==
  /\ open' = WithStage(open, m, stage, ticks)
  /\ forgotten' = forgotten \cup Evicted(open, open')
  /\ UNCHANGED <<closed, completed>>

\* The end of complete and abandon: the timeline goes, and markClosed keeps the id until
\* MAX_CLOSED_IDS younger ones push it out.
Finish(m, room) ==
  LET ids == Append(closed, m) IN
    /\ open' = Filtered(room, {i \in DOMAIN room : room[i].match # m})
    /\ closed' = IF Len(ids) > MAX_CLOSED_IDS THEN Tail(ids) ELSE ids
    /\ forgotten' = forgotten \cup (Evicted(open, room) \ {m})
                              \cup (ToSet(ids) \ ToSet(closed'))

Since(t) ==
  IF t.activated # None THEN t.activated
  ELSE IF t.provider_result # None THEN t.provider_result
  ELSE t.submission_started
\* complete, for a timeline confirmed now: the durations it has both ends of.
Durations(t) ==
  LET span(from, to) == IF None \in {from, to} THEN << >> ELSE <<to - from>> IN
    [provider_wait |-> span(t.activated, t.provider_result),
     submission_lag |-> span(t.provider_result, t.submission_started),
     chain_delay |-> span(t.submission_started, ticks),
     total |-> span(Since(t), ticks)]
WithDurations(t) ==
  [s \in Segments |->
     LET buffer == completed[s] \o Durations(t)[s] IN
       IF Len(buffer) > CompletedWindow THEN Tail(buffer) ELSE buffer]

\* recordStage(chain_confirmed) makes room for a timeline it does not find.
RecordConfirmed(m) ==
  IF Contains(closed, m) THEN UNCHANGED monitor
  ELSE /\ Finish(m, IF Tracked(open, m) THEN open ELSE MadeRoom(open))
       /\ completed' = IF Tracked(open, m)
                       THEN WithDurations(Timeline(m)) ELSE completed

\* What the backend does with matches, and what it tells the monitor.
Enters(m, phase) ==
  life' = [life EXCEPT ![m].phase = phase,
             ![m].at = IF phase \in Phases /\ @[phase] = None
                       THEN [@ EXCEPT ![phase] = ticks] ELSE @]
Others == UNCHANGED <<ticks, maxTracked, activeAlerts>>

CreateJob(m) ==
  /\ life[m].phase = "none"
  /\ Enters(m, "polling")
  /\ UNCHANGED monitor /\ Others

ProviderResult(m) ==
  /\ life[m].phase = "polling"
  /\ Enters(m, "finished")
  /\ RecordStage(m, "provider_result") /\ Others

\* trackSubmission, before the handler: the first attempt, or one more, which
\* may come when another has settled the match already.
StartSubmission(m) ==
  /\ \/ life[m].phase = "finished" /\ Enters(m, "submitting")
     \/ life[m].phase \in {"submitting", "settled", "deadLettered"} /\ UNCHANGED life
  /\ RecordStage(m, "submission_started") /\ Others

\* trackSubmission after the handler, trackExistence.
Confirm(m) ==
  /\ life[m].phase \in {"submitting", "deadLettered", "settled"}
  /\ Enters(m, "settled")
  /\ RecordConfirmed(m) /\ Others

\* abandon: a match that timed out while polled, or went to the dead letters.
Abandon(m) ==
  /\ \/ life[m].phase = "polling" /\ Enters(m, "timedOut")
     \/ life[m].phase \in {"finished", "submitting"} /\ Enters(m, "deadLettered")
  /\ IF Tracked(open, m) THEN Finish(m, open) /\ UNCHANGED completed
     ELSE UNCHANGED monitor
  /\ Others

\* syncActivations over the jobs being polled, in the order of their creation.
Polled == {m \in Matches : life[m].phase = "polling"}
JobOrders ==
  {jobs \in [1 .. Cardinality(Polled) -> Polled] :
     \A i, j \in DOMAIN jobs :
       i < j => jobs[i] # jobs[j] /\ life[jobs[i]].at.polling <= life[jobs[j]].at.polling}
Synced(jobs) ==
  LET after[i \in 0 .. Len(jobs)] ==
        IF i = 0 THEN open
        ELSE WithStage(after[i - 1], jobs[i], "activated", life[jobs[i]].at.polling) IN
    after[Len(jobs)]

\* getSnapshot: since when a timeline waits in a segment, None if it does not.
WaitsSince(t, s) ==
  LET current == IF t.submission_started # None THEN "chain_delay"
                 ELSE IF t.provider_result # None THEN "submission_lag"
                 ELSE "provider_wait"
      entered == [provider_wait |-> t.activated, submission_lag |-> t.provider_result,
                  chain_delay |-> t.submission_started] IN
    IF s = "total" THEN Since(t) ELSE IF s = current THEN entered[s] ELSE None
TooLong(duration, s) == duration > Threshold[s]
Stuck(timelines) ==
  {s \in Segments : \E i \in DOMAIN timelines :
     LET since == WaitsSince(timelines[i], s) IN since # None /\ TooLong(ticks - since, s)}

\* Nearest rank, of a sequence that is not empty: the least of its values that p of a
\* hundred do not exceed.
percentile(values, p) ==
  LET atMost(v) == Cardinality({i \in DOMAIN values : values[i] <= v}) IN
    Min({v \in ToSet(values) : 100 * atMost(v) >= p * Len(values)})
Slow ==
  {s \in Segments : /\ Len(completed[s]) >= MinSamples
                    /\ TooLong(percentile(completed[s], 95), s)}

evaluate(timelines) ==
  activeAlerts' = (Stuck(timelines) \X {"stuck"}) \cup (Slow \X {"slow_p95"})

\* tick of the publisher: sync, then evaluate.
Publish ==
  /\ \E jobs \in JobOrders : open' = Synced(jobs)
  /\ evaluate(open')
  /\ forgotten' = forgotten \cup Evicted(open, open') \cup {m \in Polled : ~ Tracked(open', m)}
  /\ UNCHANGED <<ticks, maxTracked, closed, completed, life>>

Tick ==
  /\ ticks < LastTime
  /\ ticks' = ticks + 1
  /\ UNCHANGED <<maxTracked, monitor, activeAlerts, life>>

Next ==
  \/ Publish \/ Tick
  \/ \E m \in Matches :
       CreateJob(m) \/ ProviderResult(m) \/ StartSubmission(m) \/ Confirm(m) \/ Abandon(m)

Spec == Init /\ [][Next]_ageVars

-----------------------------------------------------------------------------
SegmentOf == [polling |-> "provider_wait", finished |-> "submission_lag",
              submitting |-> "chain_delay"]
Waits(m) == life[m].phase \in DOMAIN SegmentOf
WaitsTooLong(m, s) ==
  Waits(m) /\ \/ s = SegmentOf[life[m].phase] /\ TooLong(ticks - life[m].at[life[m].phase], s)
              \/ s = "total" /\ TooLong(ticks - life[m].at.polling, s)
Ends == [provider_wait |-> <<"polling", "finished">>, submission_lag |-> <<"finished", "submitting">>,
         chain_delay |-> <<"submitting", "settled">>, total |-> <<"polling", "settled">>]
WaitedTooLong(m, s) ==
  LET from == life[m].at[Ends[s][1]]
      to == life[m].at[Ends[s][2]] IN
    life[m].phase = "settled" /\ None \notin {from, to} /\ TooLong(to - from, s)

\* What the publisher reports is so.  The _stuck alert of a segment is raised
\* when a match the monitor has not forgotten waits too long in it, however
\* often its submission was retried ("retries never move it"), and only when
\* some match does, late news of settled ones notwithstanding.  For the total,
\* the monitor must have seen the match while it was polled.  And _slow_p95
\* is raised only when some match that settled did wait too long.
AlertsAreTrue ==
  [][Publish => \A s \in Segments :
       LET stuck == <<s, "stuck">> \in activeAlerts'
           slow == <<s, "slow_p95">> \in activeAlerts' IN
         /\ \A m \in Matches \ forgotten' :
              /\ WaitsTooLong(m, s)
              /\ s = "total" => \E i \in DOMAIN open : open[i].match = m /\ open[i].activated # None
              => stuck
         /\ stuck => \E m \in Matches : WaitsTooLong(m, s) \/ m \in forgotten'
         /\ slow => \E m \in Matches : WaitedTooLong(m, s) \/ m \in forgotten']_ageVars
=============================================================================
