-------------------------- MODULE ConnectionHealth --------------------------
(***************************************************************************)
(* How an audio-video session notices that its connection has gone bad:     *)
(* DefaultPingPong on the signaling connection, the monitor                 *)
(* SignalingAndMetricsConnectionMonitor that keeps the ConnectionHealthData, *)
(* and MonitorTask with its two health policies.                            *)
(*                                                                          *)
(* Observers are not called at once: AsyncScheduler puts each call behind   *)
(* the ones that wait already, in tasks.  Times are ages in ticks, up to the *)
(* age at which the code no longer looks at them.                           *)
(***************************************************************************)
EXTENDS Naturals, FiniteSets, SequencesExt

CONSTANTS MissedPongs,    \* missedPongsUpperThreshold
          NoPackets,      \* connectionUnhealthyThreshold
          DelayPoints,    \* maximumAudioDelayDataPoints
          Samples,        \* pastSamplesToConsider
          Wait,           \* connectionWaitTimeMs, in ticks
          CoolDown,       \* cooldownTimeMs, in ticks
          MaxWarnings,    \* maximumTimesToWarn
          MaxTasks,       \* bound: calls that wait
          MaxRestarts,    \* bound: restarts of the local audio in one session
          Silence         \* bound: pings without an answer that are told apart

ASSUME HealthBounds ==
  /\ {MissedPongs, NoPackets, Samples, MaxWarnings, MaxTasks} \subseteq Nat \ {0}
  /\ {DelayPoints, Wait, CoolDown, MaxRestarts} \subseteq Nat
  /\ Silence \in Nat /\ Silence > MissedPongs + MaxTasks

VARIABLES
  stage,      \* the session: down, connecting, up or reconnecting
  socket,     \* the signaling connection is open
  asked,      \* the reconnection that is due: see Requests
  restarts,   \* restarts of the local audio so far
  ping,       \* DefaultPingPong: its interval and the pongs unaccounted for
  data,       \* ConnectionHealthData
  startAge,   \* ticks since connectionStartTimestampMs
  seen,       \* hasSeenValidPacketMetricsBefore
  recon,      \* ReconnectionHealthPolicy
  warn,       \* UnusableAudioWarningConnectionHealthPolicy
  tasks,      \* the calls that wait, oldest first
  unanswered, \* history: pings sent since a pong was accepted
  told,       \* history: what the application heard last
  warnings    \* history: how often it heard that the connection is poor

monitored == <<ping, data, startAge, seen, recon, warn, tasks>>
history   == <<unanswered, told, warnings>>
vars == <<stage, socket, asked, restarts, monitored, history>>

\* No reconnection is due; the backoff timer runs, or has fired while the session
\* connects, and the request waits in the slot of the state machine; or the timer
\* was stopped and nothing has replaced the request.
Requests == {"no", "timer", "waits", "stopped"}

\* Calls of the ping-pong's observers, of connectionHealthDidChange, and of the
\* application's connectionDidBecomePoor (or ...DidSuggestStopVideo, when tiles
\* have streams) and connectionDidBecomeGood.
Notices == {"poor", "good"}
Calls   == {"miss", "pong", "health"} \cup Notices

\* Packets of a report: none, fewer than half of those expected, all of them.
PacketsExpected == 2
Packets == 0 .. PacketsExpected

NewData  == [missed |-> 0, quiet |-> 0, window |-> <<>>, slow |-> FALSE]
NewRecon == [health |-> 1, points |-> 0]
NewWarn  == [health |-> 1, count |-> 0, age |-> CoolDown]
NoPing   == [interval |-> FALSE, unaccounted |-> 0]

\* A call that waits is made long before the next report, ping or tick, which
\* are a second or more apart.
Waiting(calls) == \E i \in DOMAIN tasks : tasks[i] \in calls

UpTo(n, bound) == IF n < bound THEN n ELSE bound

Room == Len(tasks) < MaxTasks

-----------------------------------------------------------------------------
(* DefaultPingPong.                                                         *)

\* A ping when p pongs are unaccounted for reports the miss before it is sent.
Ping(p) ==
  /\ ping' = [interval |-> TRUE, unaccounted |-> 1]
  /\ tasks' = IF p > 0 THEN Append(tasks, "miss") ELSE tasks
  /\ unanswered' = UpTo(unanswered + 1, Silence)

\* The interval fires.
PingInterval ==
  /\ ping.interval /\ ~Waiting(Calls)
  /\ Ping(ping.unaccounted)
  /\ UNCHANGED <<stage, socket, asked, restarts, data, startAge, seen, recon, warn, told, warnings>>

\* The answer to the last ping arrives.  One that comes too late, after the next
\* ping, has another id than is expected and is ignored.
ReceivePong_StillUnaccounted ==   \* mutant: consecutivePongsUnaccountedFor is not reset
  /\ ping.interval /\ ping.unaccounted > 0 /\ Room
  /\ tasks' = Append(tasks, "pong") /\ unanswered' = 0
  /\ UNCHANGED <<stage, socket, asked, restarts, ping, data, startAge, seen, recon, warn, told, warnings>>
ReceivePong ==
  /\ ping.interval /\ ping.unaccounted > 0 /\ Room
  /\ ping' = [ping EXCEPT !.unaccounted = 0]
  /\ tasks' = Append(tasks, "pong") /\ unanswered' = 0
  /\ UNCHANGED <<stage, socket, asked, restarts, data, startAge, seen, recon, warn, told, warnings>>

\* WebSocketOpen, in a session that is connecting or reconnecting.
SocketOpens ==
  /\ stage \in {"connecting", "reconnecting"} /\ ~socket /\ Room
  /\ socket' = TRUE
  /\ Ping(ping.unaccounted)
  /\ UNCHANGED <<stage, asked, restarts, data, startAge, seen, recon, warn, told, warnings>>

\* WebSocketFailed, ...Error, ...Closing and ...Closed stop the pings.  Nothing
\* else looks at them: the session stays as it is.
SocketCloses ==
  /\ socket /\ socket' = FALSE
  /\ ping' = NoPing
  /\ UNCHANGED <<stage, asked, restarts, data, startAge, seen, recon, warn, tasks, history>>

-----------------------------------------------------------------------------
(* SignalingAndMetricsConnectionMonitor.                                    *)

\* A report of the statistics: p packets of audio, or none that are numbers; the
\* speaker is late or not.
MetricsDidReceive ==
  /\ stage # "down" /\ ~Waiting(Calls)
  /\ \E slow \in BOOLEAN :
       \/ /\ data' = [data EXCEPT !.slow = slow] /\ UNCHANGED <<seen, tasks>>
       \/ \E p \in Packets :
            /\ seen' = (seen \/ p > 0)
            /\ data' = [data EXCEPT
                 !.slow = slow,
                 !.window = SubSeq(<<p>> \o @, 1, UpTo(Len(@) + 1, Samples)),
                 !.quiet = IF p > 0 THEN 0 ELSE IF seen THEN UpTo(@ + 1, NoPackets) ELSE @]
            /\ tasks' = Append(tasks, "health")
  /\ UNCHANGED <<stage, socket, asked, restarts, ping, startAge, recon, warn, history>>

\* The local signal strength changes.
ReceiveSignalStrengthChange ==
  /\ stage # "down" /\ ~Waiting(Calls)
  /\ tasks' = Append(tasks, "health")
  /\ UNCHANGED <<stage, socket, asked, restarts, ping, data, startAge, seen, recon, warn, history>>

-----------------------------------------------------------------------------
(* The health policies and MonitorTask.                                     *)

Recent == startAge < Wait

\* ReconnectionHealthPolicy.health(): every evaluation counts a data point.
Points ==
  IF Recent THEN recon.points ELSE IF data.slow THEN recon.points + 1 ELSE 0
NeedsReconnect ==
  ~Recent /\ (data.quiet >= NoPackets \/ data.missed >= MissedPongs \/ Points > DelayPoints)

\* calculateFractionalLoss() is at least one half.
Received == FoldSeq(+, 0, data.window)
HighLoss ==
  Len(data.window) >= Samples /\ 2 * Received <= Samples * PacketsExpected

\* UnusableAudioWarningConnectionHealthPolicy.healthIfChanged().
Warn_OneMore ==   \* mutant: the limit is one warning too high
  IF warn.age < CoolDown THEN warn
  ELSE IF ~HighLoss THEN [warn EXCEPT !.health = 1]
  ELSE IF warn.health = 0 THEN warn
  ELSE [health |-> IF warn.count > MaxWarnings THEN 1 ELSE 0,
        count |-> UpTo(warn.count + 1, MaxWarnings + 1), age |-> 0]
Warn ==
  IF warn.age < CoolDown THEN warn
  ELSE IF ~HighLoss THEN [warn EXCEPT !.health = 1]
  ELSE IF warn.health = 0 THEN warn
  ELSE [health |-> IF warn.count + 1 > MaxWarnings THEN 1 ELSE 0,
        count |-> UpTo(warn.count + 1, MaxWarnings + 1), age |-> 0]

\* connectionHealthDidChange: what the application is told of the audio.
Notice_Always(w) ==   \* mutant: told at every evaluation, changed or not
  IF w.health = 0 THEN <<"poor">> ELSE <<"good">>
Notice(w) ==
  IF w.health = warn.health THEN <<>> ELSE IF w.health = 0 THEN <<"poor">> ELSE <<"good">>

\* A reconnection is asked for when the policy changes to 0, and not again while it
\* stays there.  The reconnect controller schedules it or gives up, and then the
\* session ends.
Asked(need) ==
  IF need /\ recon.health = 1 THEN IF asked = "waits" THEN asked ELSE "timer"
  ELSE IF ~need /\ asked = "stopped" THEN "no" ELSE asked
ConnectionHealthDidChange ==
  LET need == NeedsReconnect  w == Warn IN
  /\ recon' = [health |-> IF need THEN 0 ELSE 1,
               points |-> IF Points > DelayPoints THEN 0 ELSE Points]
  /\ asked' = Asked(need)
  /\ warn' = w
  /\ tasks' = Tail(tasks) \o Notice(w)
  /\ UNCHANGED <<data, told, warnings>>

\* didMissPongs and didReceivePong.
DidMissPongs ==
  /\ data' = [data EXCEPT !.missed = UpTo(@ + 1, MissedPongs)]
  /\ tasks' = Append(Tail(tasks), "health")
  /\ UNCHANGED <<asked, recon, warn, told, warnings>>

DidReceivePong ==
  /\ data' = [data EXCEPT !.missed = 0]
  /\ tasks' = Append(Tail(tasks), "health")
  /\ UNCHANGED <<asked, recon, warn, told, warnings>>

\* The application hears of the audio.
Tell ==
  /\ told' = Head(tasks)
  /\ warnings' = IF Head(tasks) = "poor" THEN UpTo(warnings + 1, MaxWarnings + 1) ELSE warnings
  /\ tasks' = Tail(tasks)
  /\ UNCHANGED <<asked, data, recon, warn>>

\* The monitor and the task of a session that has ended observe no more.
SkipRemoved ==
  /\ tasks' = Tail(tasks)
  /\ UNCHANGED <<asked, data, recon, warn, told, warnings>>

\* The next call that waits is made, unless its observer has been removed.
Deliver ==
  /\ tasks # <<>>
  /\ LET call == Head(tasks) IN
       \/ call \in Notices /\ Tell
       \/ call \notin Notices /\ stage = "down" /\ SkipRemoved
       \/ call = "miss"   /\ stage # "down" /\ DidMissPongs
       \/ call = "pong"   /\ stage # "down" /\ DidReceivePong
       \/ call = "health" /\ stage # "down" /\ ConnectionHealthDidChange
  /\ UNCHANGED <<stage, socket, restarts, ping, startAge, seen, unanswered>>

-----------------------------------------------------------------------------
(* The session.                                                             *)

\* actionConnect: new data, monitor, policies and ping-pong.
Connect ==
  /\ stage = "down" /\ tasks = <<>>
  /\ stage' = "connecting" /\ restarts' = 0
  /\ data' = NewData /\ startAge' = 0 /\ seen' = FALSE
  /\ recon' = NewRecon /\ warn' = NewWarn
  /\ unanswered' = 0 /\ told' = "good" /\ warnings' = 0
  /\ UNCHANGED <<socket, asked, ping, tasks>>

\* The backoff timer fires while the session connects: the request is deferred.
RetryWaits ==
  /\ stage \in {"connecting", "reconnecting"} /\ asked = "timer"
  /\ asked' = "waits"
  /\ UNCHANGED <<stage, socket, restarts, monitored, history>>

\* A request that waits is carried out in the turn in which the session has
\* connected, or has failed to reconnect, and otherwise the session is up.
Proceed ==
  /\ stage' = IF asked = "waits" THEN "reconnecting" ELSE "up"
  /\ data'  = IF asked = "waits" THEN NewData ELSE data

\* actionFinishConnecting: reset() of the reconnect controller stops the backoff
\* timer.  The policy that asked may be at 0 and then does not ask again, unless an
\* evaluation finds the connection good.
Reset == IF asked = "timer" /\ recon.health = 0 THEN "stopped" ELSE "no"

\* actionConnect and actionReconnect end with setConnectionStartTime.
FinishConnecting ==
  /\ stage \in {"connecting", "reconnecting"} /\ socket
  /\ Proceed /\ asked' = Reset /\ startAge' = 0
  /\ UNCHANGED <<socket, restarts, ping, seen, recon, warn, tasks, history>>

\* An attempt to reconnect that fails leaves the session connected and asks again.
ReconnectFails ==
  /\ stage = "reconnecting"
  /\ Proceed /\ asked' = "timer" /\ startAge' = 0
  /\ UNCHANGED <<socket, restarts, ping, seen, recon, warn, tasks, history>>

\* Something else than the health fails, and a reconnection is due.
OtherFailure ==
  /\ stage # "down" /\ asked \in {"no", "stopped"}
  /\ asked' = "timer"
  /\ UNCHANGED <<stage, socket, restarts, monitored, history>>

\* The backoff timer fires in a session that is up: actionReconnect.
Reconnect_KeepsData ==   \* mutant: connectionHealthData is not reset
  /\ stage = "up" /\ asked = "timer"
  /\ stage' = "reconnecting" /\ asked' = "no" /\ startAge' = 0
  /\ UNCHANGED <<socket, restarts, ping, data, seen, recon, warn, tasks, history>>
Reconnect ==
  /\ stage = "up" /\ asked = "timer"
  /\ stage' = "reconnecting" /\ asked' = "no"
  /\ data' = NewData /\ startAge' = 0
  /\ UNCHANGED <<socket, restarts, ping, seen, recon, warn, tasks, history>>

\* restartLocalAudio: whatever becomes of the track, the data are new, and the next
\* evaluation brings the policy back to 1.
RestartLocalAudio ==
  /\ stage # "down" /\ restarts < MaxRestarts
  /\ restarts' = restarts + 1
  /\ data' = NewData /\ startAge' = 0
  /\ asked' = IF asked = "stopped" THEN "no" ELSE asked
  /\ UNCHANGED <<stage, socket, ping, seen, recon, warn, tasks, history>>

\* The session ends, and the monitor and the task are removed as observers.
Clean ==
  /\ stage # "down" /\ stage' = "down"
  /\ socket' = FALSE /\ asked' = "no"
  /\ ping' = NoPing
  /\ UNCHANGED <<restarts, data, startAge, seen, recon, warn, tasks, history>>

Tick ==
  /\ startAge < Wait \/ warn.age < CoolDown
  /\ ~Waiting(Calls)
  /\ startAge' = UpTo(startAge + 1, Wait)
  /\ warn' = [warn EXCEPT !.age = UpTo(@ + 1, CoolDown)]
  /\ UNCHANGED <<stage, socket, asked, restarts, ping, data, seen, recon, tasks, history>>

-----------------------------------------------------------------------------
Init ==
  /\ stage = "down" /\ socket = FALSE /\ asked = "no" /\ restarts = 0
  /\ ping = NoPing
  /\ data = NewData /\ startAge = 0 /\ seen = FALSE
  /\ recon = NewRecon /\ warn = NewWarn /\ tasks = <<>>
  /\ unanswered = 0 /\ told = "good" /\ warnings = 0

Next ==
  \/ PingInterval \/ ReceivePong \/ SocketOpens \/ SocketCloses
  \/ MetricsDidReceive \/ ReceiveSignalStrengthChange \/ Deliver
  \/ Connect \/ FinishConnecting \/ ReconnectFails \/ OtherFailure
  \/ RetryWaits \/ Reconnect \/ RestartLocalAudio \/ Clean \/ Tick

\* Timers fire and time passes.  Nothing is assumed of the network, of the
\* statistics, or of the session.
Spec == Init /\ [][Next]_vars /\ WF_vars(Deliver) /\ SF_vars(PingInterval) /\ SF_vars(Tick)

-----------------------------------------------------------------------------
(* Properties.                                                              *)

\* The calls in tasks of which no pong wipes out the effect.
Outstanding(call) ==
  Cardinality({i \in DOMAIN tasks :
     tasks[i] = call /\ \A j \in i + 1 .. Len(tasks) : tasks[j] # "pong"})

\* The monitor never counts more missed pongs than pings went without an answer:
\* what is counted, and what is on its way to be counted, are pings that were
\* sent after the last pong that was accepted, but for the one still open.  The
\* count and the pings are two hops of asynchronous calls apart.
MissesAreSilence ==
  LET due == Outstanding("miss")
             + (IF \E i \in DOMAIN tasks : tasks[i] = "pong" THEN 0 ELSE data.missed)
  IN  stage # "down" => (due = 0 \/ due < unanswered \/ unanswered = Silence)

\* The last thing that the application hears of the audio is what the policy
\* says now, and it hears nothing twice in a row: an application that shows a
\* banner between the two calls is never left with the wrong one.
Heard == <<told>> \o tasks
NoticesAlternate ==
  /\ \A i, j \in DOMAIN Heard :
       i < j /\ Heard[i] = Heard[j] /\ Heard[i] \in Notices =>
         \E k \in i + 1 .. j - 1 : Heard[k] \in Notices
  /\ stage # "down" =>
       \E i \in DOMAIN Heard :
         /\ Heard[i] = (IF warn.health = 1 THEN "good" ELSE "poor")
         /\ \A k \in i + 1 .. Len(Heard) : Heard[k] \notin Notices

\* One session tells the application at most maximumTimesToWarn times that the
\* connection is poor, whatever cool-downs, recoveries and reconnections lie
\* between, and counting the calls that still wait.
WarnedSparingly ==
  warnings + Cardinality({i \in DOMAIN tasks : tasks[i] = "poor"}) <= MaxWarnings

\* A connected session whose signaling connection stays open and whose pings are
\* not answered asks for a reconnection, or ends, sooner or later, also after a
\* reconnection that failed and left the policy at its worst value, and after one
\* that was asked for while another was in progress.  The exception is a request
\* whose backoff timer reset() stopped: nothing replaces it until an evaluation has
\* found the connection good, or the local audio is restarted.
Unheard == stage = "up" /\ socket /\ asked = "no" /\ unanswered > 0
SilenceIsNoticed == []<>~Unheard

=============================================================================
