---------------------------- MODULE ProbePolicy ----------------------------
(***************************************************************************)
(* VideoAdaptiveProbePolicy: which of the remote video streams a simulcast *)
(* session subscribes to.  Every index frame and every report of the       *)
(* statistics makes the policy decide again (wantsResubscribe() followed,  *)
(* when the set has changed, by chooseSubscriptions()); a decision fits    *)
(* the streams into a target rate derived from WebRTC's estimate, and now  *)
(* and then probes: it subscribes to one upgrade too many to find out      *)
(* whether the estimate grows with it.                                     *)
(*                                                                         *)
(* Rates are in kbps.  Time is counted in reports, of which the statistics *)
(* collector makes one a second; the code's durations are constants.       *)
(* Nobody but the tests calls updateCalculatedOptimalReceiveSet(), so      *)
(* optimalReceiveSet and subscribedReceiveSet are equal between decisions  *)
(* and one variable stands for both.                                       *)
(***************************************************************************)
EXTENDS Integers, FiniteSets
LOCAL INSTANCE SequencesExt
LOCAL INSTANCE FiniteSetsExt

CONSTANTS
  Streams,          \* stream ids
  Owner,            \* Owner[s]: the attendee, which is also the stream's group
  Content,          \* the attendees that are content shares
  MaxRate,          \* MaxRate[s]: maxBitrateKbps
  Averages,         \* the averages the server reports: a set of [Streams -> Nat]
  Reports,          \* the reports: a set of [est, used, nack, lost]
  DefaultRate,      \* DEFAULT_BANDWIDTH_KBPS
  Startup,          \* STARTUP_PERIOD_MS
  MinProbe,         \* MIN_TIME_BETWEEN_PROBE
  MaxHold,          \* MAX_HOLD_MS_BEFORE_PROBE
  MinSubscribe,     \* MIN_TIME_BETWEEN_SUBSCRIBE
  AfterProbe        \* the 800 ms a probe is left alone

Unlimited == 1000000        \* Number.MAX_VALUE
Never == -1                 \* a time stamp that is not set
Attendees == {Owner[s] : s \in Streams}
Quiet == [est |-> 0, used |-> 0, nack |-> 0, lost |-> 0]

ASSUME RatesAssumption ==
  /\ Streams \subseteq Nat /\ MaxRate \in [Streams -> Nat \ {0}]
  /\ Averages \subseteq [Streams -> Nat]
  /\ Content \subseteq Attendees
ASSUME TimesAssumption ==
  /\ Startup \in Nat /\ AfterProbe \in Nat \ {0}
  /\ AfterProbe <= MinSubscribe /\ MinSubscribe <= MinProbe /\ MinProbe <= MaxHold

VARIABLES
  index,          \* the index: avgBitrateKbps of every stream in it
  paused,         \* attendees whose tile the application has paused
  subscribed,     \* subscribedReceiveSet (and optimalReceiveSet)
  stats,          \* downlinkStats
  prevStats,      \* prevDownlinkStats: the loss, and while starting the estimate
  prevInfos,      \* prevRemoteInfos: whether defined, and maxBitrateKbps by stream
  probe,          \* rateProbeState ("not", "pending" or "probing") and its times
  startup,        \* startupPeriod
  firstEstimate,  \* reports since timeFirstEstimate
  usingPrev,      \* usingPrevTargetRate
  target,         \* prevTargetRateKbps
  hold,           \* timeBeforeAllowSubscribeMs
  lastSubscribe,  \* reports since timeLastSubscribe
  decision,       \* how the latest decision came about (history)
  gone,           \* streams that left the index while paused (history)
  calm            \* lossless reports since the last change of anything (history)

policy == <<subscribed, prevInfos, probe, startup, firstEstimate, usingPrev,
            target, hold, lastSubscribe, decision>>
vars == <<index, paused, stats, prevStats, gone, calm, policy>>

\* Enough reports for any hold to run out.
CalmEnough == 3 * MinSubscribe + 1

-----------------------------------------------------------------------------
(* The streams a decision chooses from.                                    *)

IsContent(s) == Owner[s] \in Content
PausedStreams(ix, p) == {s \in DOMAIN ix : Owner[s] \in p}

\* remoteInfos once the averages are filled in: a stream without a plausible
\* average is taken at its maximum, a thin content share at its average.
Normalised(s, avg) ==
  IF avg # 0 /\ avg <= MaxRate[s] THEN [id |-> s, max |-> MaxRate[s], avg |-> avg]
  ELSE IF IsContent(s) /\ MaxRate[s] < 100 THEN [id |-> s, max |-> avg, avg |-> avg]
  ELSE [id |-> s, max |-> MaxRate[s], avg |-> MaxRate[s]]

Ascending ==
  SetToSortSeq(Streams, LAMBDA a, b :
    MaxRate[a] < MaxRate[b] \/ (MaxRate[a] = MaxRate[b] /\ a < b))

\* handlePausedStreams() and the sort: the streams of unpaused attendees by
\* ascending maximum, then id.
RemoteInfos(ix, p) ==
  LET ids == DOMAIN ix \ PausedStreams(ix, p)
      order == SelectSeq(Ascending, LAMBDA s : s \in ids)
  IN  [i \in DOMAIN order |-> Normalised(order[i], ix[order[i]])]

\* mutant: the lengths are not compared.
SameChoices_NoLength(ix, p) ==
  LET ids == DOMAIN ix \ PausedStreams(ix, p)
  IN  /\ prevInfos.known
      /\ \A s \in ids : s \in DOMAIN prevInfos.max /\ prevInfos.max[s] = MaxRate[s]

\* availStreamsSameAsLast(): the same streams, and with the maxima that the
\* previous decision left in prevRemoteInfos.
SameChoices(ix, p) ==
  LET ids == DOMAIN ix \ PausedStreams(ix, p)
  IN  /\ prevInfos.known
      /\ DOMAIN prevInfos.max = ids
      /\ \A s \in ids : prevInfos.max[s] = MaxRate[s]

Members(seq) == {seq[i] : i \in DOMAIN seq}
Ids(infos) == {x.id : x \in Members(infos)}
TotalMax(infos) == FoldLeft(LAMBDA sum, x : sum + x.max, 0, infos)

MaximaOf(infos) ==
  [known |-> TRUE,
   max |-> [s \in Ids(infos) |-> (CHOOSE x \in Members(infos) : x.id = s).max]]

-----------------------------------------------------------------------------
(* determineTargetRate(): the estimate, except while the session starts,   *)
(* while there is no estimate, and when it falls although nothing is lost. *)

LowestRate(infos) ==
  LET rates == {x.avg : x \in Members(infos)} \ {0}
  IN  IF rates = {} THEN Unlimited ELSE Min(rates)

TargetRate(infos, now, before, first) ==
  LET est == now.est
      leaves == /\ startup /\ est # 0
                /\ \/ est > DefaultRate
                   \/ now.lost > 0
                   \/ first > Startup /\ est <= before.est
      starting == startup /\ ~leaves
      prev == IF leaves THEN est ELSE target
      plain == IF est # 0
               THEN IF starting THEN DefaultRate ELSE est
               ELSE IF first = Never THEN DefaultRate ELSE prev
      falls == \/ usingPrev /\ est < prev
               \/ est * 100 < prev * 80
               \/ est * 100 < now.used * 20
      keeps == ~starting /\ falls /\ now.nack = 0 /\ now.lost = 0
  IN  [rate |-> IF keeps THEN prev ELSE Max({LowestRate(infos), plain}),
       prev |-> prev, starting |-> starting, keeps |-> keeps]

-----------------------------------------------------------------------------
(* Fitting the streams into the target: content first, then the cheapest   *)
(* stream of every group, then upgrades within the groups chosen.  "delta" *)
(* is the price of the first step that did not fit, "up" the stream.       *)

NotFitting(c, price, x) ==
  IF c.delta = 0 THEN [c EXCEPT !.delta = price, !.up = x] ELSE c

ChooseContent(infos) ==
  LET content == SelectSeq(infos, LAMBDA x : IsContent(x.id))
  IN  [streams |-> content, delta |-> 0, up |-> [id |-> Never],
       total |-> FoldLeft(LAMBDA sum, x : sum + x.avg, 0, content)]

\* mutant: the total stays as it is.
OnePerGroup_NotCounted(c0, infos, rate) ==
  FoldLeft(LAMBDA c, x :
    IF x.avg = 0 \/ \E y \in Members(c.streams) : Owner[y.id] = Owner[x.id] THEN c
    ELSE IF c.total + x.avg <= rate THEN [c EXCEPT !.streams = Append(@, x)]
         ELSE NotFitting(c, x.avg, x),
    c0, infos)

OnePerGroup(c0, infos, rate) ==
  FoldLeft(LAMBDA c, x :
    IF x.avg = 0 \/ \E y \in Members(c.streams) : Owner[y.id] = Owner[x.id] THEN c
    ELSE IF c.total + x.avg <= rate
         THEN [c EXCEPT !.streams = Append(@, x), !.total = @ + x.avg]
         ELSE NotFitting(c, x.avg, x),
    c0, infos)

\* One pass of the loop over the chosen streams.  "was" is the stream the
\* pass found at the position: it is not replaced when the position is.
UpgradeAt(c0, pos, infos, rate) ==
  LET was == c0.streams[pos]
  IN  FoldLeft(LAMBDA c, x :
        IF Owner[x.id] # Owner[was.id] \/ x.avg <= was.avg THEN c
        ELSE IF c.total + (x.avg - was.avg) <= rate
             THEN [c EXCEPT !.streams[pos] = x, !.total = @ + (x.avg - was.avg)]
             ELSE NotFitting(c, x.avg - was.avg, x),
        c0, infos)

RECURSIVE Upgrades(_, _, _)
Upgrades(c, infos, rate) ==
  LET pass == FoldLeft(LAMBDA d, pos : UpgradeAt(d, pos, infos, rate), c,
                       [i \in DOMAIN c.streams |-> i])
  IN  IF pass.total = c.total THEN pass ELSE Upgrades(pass, infos, rate)

Fit(infos, rate) == Upgrades(OnePerGroup(ChooseContent(infos), infos, rate), infos, rate)

UpgradeToStream(streams, x) ==
  LET at == {i \in DOMAIN streams : Owner[streams[i].id] = Owner[x.id]}
  IN  IF at = {} THEN Append(streams, x) ELSE [streams EXCEPT ![Min(at)] = x]

-----------------------------------------------------------------------------
(* Probing.  A verdict says which set is used (the one just chosen, the    *)
(* present one, or the one from before the probe), the chosen streams with *)
(* the upgrade that may have been added, and the new probe state.          *)

\* preProbeReceiveSet is read during a probe only, so it is dropped with it.
NotProbing(pr) == [pr EXCEPT !.state = "not", !.pending = 0, !.before = {}]

Verdict(how, streams, pr, h) == [how |-> how, streams |-> streams, probe |-> pr, hold |-> h]

\* chosenStreamsSameAsLast(): nothing subscribed is given up.
SameAsLast(streams, pausedIds) == subscribed \ pausedIds \subseteq Ids(streams)

\* mutant: a probe that is not successful at once is given up.
HandleProbe_Impatient(c, pausedIds, rate, now, pr) ==
  IF now.lost > 0
  THEN Verdict("restored", c.streams, NotProbing(pr), 3 * MinSubscribe)
  ELSE Verdict("new", c.streams, [NotProbing(pr) EXCEPT !.hold = MinProbe], MinSubscribe)

HandleProbe(c, pausedIds, rate, now, pr) ==
  IF now.lost > 0
  THEN Verdict("restored", c.streams, NotProbing(pr), 3 * MinSubscribe)
  ELSE IF SameAsLast(c.streams, pausedIds) /\ rate > TotalMax(c.streams)
  THEN Verdict("new", c.streams, [NotProbing(pr) EXCEPT !.hold = MinProbe], MinSubscribe)
  ELSE Verdict("kept", c.streams, pr, MinSubscribe)

\* setProbeState(kProbePending) and setProbeState(kProbing).
ToPending(pr) ==
  IF pr.age > MinProbe THEN [pr EXCEPT !.state = "pending", !.pending = 0] ELSE pr

ToProbing(pr) ==
  [state |-> "probing", pending |-> 0, age |-> 0, before |-> subscribed,
   hold |-> Min({2 * pr.hold, MaxHold})]

\* maybeOverrideOrProbe().  The caller passes the target where the
\* declaration has the total and the total where it has the target.
MaybeOverrideOrProbe(c, pausedIds, chosenTotal, targetRate, prev, now, before, pr) ==
  LET same == SameAsLast(c.streams, pausedIds)
      diff == IF targetRate < prev THEN prev - targetRate ELSE targetRate - prev
      reuse == ~same /\ diff * 100 < targetRate * 15
      asIs == IF reuse THEN "kept" ELSE "new"
      upgraded == UpgradeToStream(c.streams, c.up)
  IN  CASE now.lost > before.lost -> Verdict(asIs, c.streams, NotProbing(pr), MinSubscribe)
        [] now.lost <= before.lost /\ (same \/ reuse) ->
             IF pr.state = "not" THEN Verdict(asIs, c.streams, ToPending(pr), MinSubscribe)
             ELSE IF pr.pending > pr.hold
             THEN Verdict("probe", upgraded, ToProbing(pr), AfterProbe)
             ELSE Verdict(asIs, c.streams, pr, MinSubscribe)
        [] OTHER ->
             IF targetRate * 115 > (chosenTotal + c.delta) * 100
             THEN Verdict("within", upgraded, NotProbing(pr), MinSubscribe)
             ELSE Verdict("new", c.streams, NotProbing(pr), MinSubscribe)

\* mutant: a probe goes on although everything fits.
Judge_ProbesOn(c, same, pausedIds, t, now, before, pr) ==
  IF t.starting \/ ~same \/ (c.delta = 0 /\ pr.state # "probing")
  THEN Verdict("new", c.streams, NotProbing(pr), MinSubscribe)
  ELSE IF pr.state = "probing" THEN HandleProbe(c, pausedIds, t.rate, now, pr)
  ELSE MaybeOverrideOrProbe(c, pausedIds, t.rate, c.total, t.prev, now, before, pr)

Judge(c, same, pausedIds, t, now, before, pr) ==
  IF t.starting \/ ~same \/ c.delta = 0
  THEN Verdict("new", c.streams, NotProbing(pr), MinSubscribe)
  ELSE IF pr.state = "probing" THEN HandleProbe(c, pausedIds, t.rate, now, pr)
  ELSE MaybeOverrideOrProbe(c, pausedIds, t.rate, c.total, t.prev, now, before, pr)

-----------------------------------------------------------------------------
(* A decision on the index "ix" and the reports "now" and "before".        *)

Older(n, cap) == IF n = Never THEN Never ELSE Min({n + 1, cap})
Aged(pr) == [pr EXCEPT !.age = Older(@, MinProbe + 1),
                       !.pending = IF pr.state = "pending" THEN Older(@, MaxHold + 1) ELSE 0]

\* chooseSubscriptions(), which the caller calls when wantsResubscribe() says
\* that the set has changed.
ChooseSubscriptions(set, since) ==
  /\ subscribed' = set
  /\ lastSubscribe' = IF set # subscribed THEN 0 ELSE since

DecideOnNothing(since, pr, first) ==
  /\ ChooseSubscriptions({}, since)
  /\ probe' = pr /\ firstEstimate' = first
  /\ decision' = "empty"
  /\ UNCHANGED <<prevInfos, startup, usingPrev, target, hold>>

TooSoon(since, same) == ~startup /\ same /\ since # Never /\ since < hold

Hold(since, pr, first) ==
  /\ lastSubscribe' = since /\ probe' = pr /\ firstEstimate' = first
  /\ decision' = "held"
  /\ UNCHANGED <<subscribed, prevInfos, startup, usingPrev, target, hold>>

\* (Each intermediate result is bound by a quantifier over its only value.)
DecideAnew(ix, now, before, since, pr, first) ==
  LET pausedIds == PausedStreams(ix, paused)
      same == SameChoices(ix, paused)
      began == IF now.est # 0 /\ first = Never THEN 0 ELSE first
  IN  \E infos \in {RemoteInfos(ix, paused)} :
      \E t \in {TargetRate(infos, now, before, began)} :
      \E c \in {Fit(infos, t.rate)} :
      \E v \in {Judge(c, same, pausedIds, t, now, before, pr)} :
        /\ prevInfos' = MaximaOf(infos)
        /\ startup' = t.starting
        /\ firstEstimate' = IF t.starting THEN began ELSE Startup + 1
        /\ usingPrev' = t.keeps
        /\ target' = t.rate
        /\ hold' = v.hold
        /\ probe' = v.probe
        /\ decision' = v.how
        /\ ChooseSubscriptions(
             CASE v.how = "kept" -> subscribed
               [] v.how = "restored" -> pr.before
               [] OTHER -> Ids(v.streams) \cup (subscribed \cap pausedIds),
             since)

Decide(ix, now, before, since, pr, first) ==
  IF DOMAIN ix = {} THEN DecideOnNothing(since, pr, first)
  ELSE IF TooSoon(since, SameChoices(ix, paused)) THEN Hold(since, pr, first)
  ELSE DecideAnew(ix, now, before, since, pr, first)

\* What the history remembers: the streams of the present and the pre-probe set
\* that have left the index, of those the last choice did not consider because their tile was paused.
RememberGone(ix) ==
  gone' = ((gone \cup (DOMAIN index \ DOMAIN prevInfos.max)) \ DOMAIN ix)
             \cap (subscribed' \cup probe'.before)

-----------------------------------------------------------------------------
(* What happens to the policy.                                             *)

\* An index frame: ReceiveVideoStreamIndexTask updates the index and asks the
\* policy to decide.
ReceiveIndex(attendees, avg) ==
  LET ix == [s \in {s \in Streams : Owner[s] \in attendees} |-> avg[s]]
  IN  /\ Decide(ix, stats, prevStats, lastSubscribe, probe, firstEstimate)
      /\ index' = ix
      /\ RememberGone(ix) /\ calm' = 0
      /\ UNCHANGED <<paused, stats, prevStats>>

\* A bitrates frame changes the averages; MonitorTask hands the index to the
\* policy, which does not decide before the next report.
ReceiveBitrates(avg) ==
  /\ index' = [s \in DOMAIN index |-> avg[s]]
  /\ decision' = "none" /\ calm' = 0
  /\ UNCHANGED <<paused, stats, prevStats, gone, subscribed, prevInfos, probe,
                 startup, firstEstimate, usingPrev, target, hold, lastSubscribe>>

\* The report of another second: updateMetrics(), which leaves the figures
\* alone while the index is empty, and a decision.
Report(r) ==
  LET now == IF DOMAIN index = {} THEN stats ELSE r
      before == IF DOMAIN index = {} THEN prevStats
                ELSE [est |-> IF startup THEN stats.est ELSE 0, lost |-> stats.lost]
  IN  /\ stats' = now /\ prevStats' = before
      /\ Decide(index, now, before, Older(lastSubscribe, 3 * MinSubscribe), Aged(probe),
                Older(firstEstimate, Startup + 1))
      /\ RememberGone(index)
      /\ calm' = IF r = stats /\ r.lost = 0 THEN Min({calm + 1, CalmEnough}) ELSE 0
      /\ UNCHANGED <<index, paused>>

\* The application pauses or unpauses the tile of an attendee it receives.
SetPaused(p) ==
  /\ paused' = p /\ decision' = "none" /\ calm' = 0
  /\ UNCHANGED <<index, stats, prevStats, gone, subscribed, prevInfos, probe, startup,
                 firstEstimate, usingPrev, target, hold, lastSubscribe>>

HasTile(a) == \E s \in subscribed \cap DOMAIN index : Owner[s] = a
Pause(a) == a \notin paused /\ HasTile(a) /\ SetPaused(paused \cup {a})
Unpause(a) == a \in paused /\ HasTile(a) /\ SetPaused(paused \ {a})
\* A tile nothing is received for is removed.
RemoveTile(a) == a \in paused /\ ~HasTile(a) /\ SetPaused(paused \ {a})

Init ==
  /\ index = <<>> /\ paused = {} /\ subscribed = {} /\ gone = {} /\ calm = 0
  /\ stats = Quiet /\ prevStats = [est |-> 0, lost |-> 0]
  /\ prevInfos = [known |-> FALSE, max |-> <<>>]
  /\ probe = [state |-> "not", pending |-> 0, hold |-> MinProbe, age |-> 0, before |-> {}]
  /\ startup = TRUE /\ firstEstimate = Never /\ usingPrev = FALSE
  /\ target = DefaultRate /\ hold = MinSubscribe /\ lastSubscribe = Never
  /\ decision = "none"

Next ==
  \/ \E as \in SUBSET Attendees, avg \in Averages : ReceiveIndex(as, avg)
  \/ \E avg \in Averages : ReceiveBitrates(avg)
  \/ \E r \in Reports : Report(r)
  \/ \E a \in Attendees : Pause(a) \/ Unpause(a) \/ RemoveTile(a)

Spec == Init /\ [][Next]_vars
-----------------------------------------------------------------------------
Received == subscribed \ PausedStreams(index, paused)
AverageOf(s) == Normalised(s, index[s]).avg
Cost(set) == MapThenSumSet(AverageOf, set)

\* Outside a probe, a newly chosen set costs no more than the target and the
\* 15 percent by which maybeOverrideOrProbe() may stretch it - unless content is
\* shared, which is subscribed to whatever it costs.  The greedy choice, the
\* bookkeeping of the next upgrade, upgradeToStream() and the order of the
\* arguments all have a part in it.
WithinTarget ==
  (decision \in {"new", "within"} /\ \A s \in Received : ~IsContent(s)) =>
    Cost(Received) * 100 <= target * 115

\* The policy never stays subscribed to a stream that has left the index, through
\* holding, keeping or restoring a set decided earlier (calculateOptimalReceiveSet()
\* compares only what it chooses from) - except to a stream that left while its
\* tile was paused, which no comparison sees.
KnownStreamsOnly == subscribed \subseteq DOMAIN index \cup gone

SteadyReport ==
  stats.lost = 0 /\ UNCHANGED <<index, paused, stats, prevStats>>

\* While the streams and the reports stay as they are and nothing is lost, the
\* subscription settles: holding, keeping, stretching, pending and probing never
\* chase each other round (chooseSubscriptions() restarts the session's update
\* every time the set changes).
Settles == <>[][SteadyReport]_vars => <>[][FALSE]_subscribed

BestAverage(a) == Max({AverageOf(s) : s \in {x \in DOMAIN index : Owner[x] = a}})
Watched == {Owner[s] : s \in DOMAIN index} \ paused

Ample ==
  /\ stats.used * 20 <= stats.est * 100
  /\ MapThenSumSet(BestAverage, Watched) <= stats.est

BestReceived ==
  \A a \in Watched : \E s \in subscribed \cap DOMAIN index :
    Owner[s] = a /\ AverageOf(s) = BestAverage(a)

\* A downlink that is wide enough for the best stream of everyone is used as soon
\* as the longest hold has run out, whatever happened before: no probe left
\* unfinished, no remembered rate and no start-up period keeps a lower stream.
AmpleBandwidthIsUsed == calm = CalmEnough /\ Ample => BestReceived

\* The comment in maybeOverrideOrProbe(): "If target rate is within the threshold of
\* doing an upgrade, then do it".  An upgrade made on that ground leaves the cost
\* within 15 percent of the target.
UpgradeOnlyWithinThreshold ==
  decision = "within" => Cost(Received) * 100 <= target * 115

=============================================================================
