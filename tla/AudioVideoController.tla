------------------------ MODULE AudioVideoController ------------------------
(***************************************************************************)
(* DefaultAudioVideoController with the session state controller, the       *)
(* reconnect controller and the local video tile it drives.                 *)
(*                                                                          *)
(* JavaScript runs one turn at a time, so each action of this module is one *)
(* turn: a call from the application, a timer, an event of the session's    *)
(* monitor, or the completion of one of the asynchronous task groups (a     *)
(* "job").  Work that only assigns is an operator from the record s of the   *)
(* controller's fields to the record it leaves; what goes through perform() *)
(* is an operator from s to the set of the records it can leave, composed   *)
(* in the order of the code.                                                *)
(***************************************************************************)
EXTENDS SessionState, FiniteSets

CONSTANTS MaxLoad,       \* bound: no new request or event above this load
          MaxJobs,       \* bound: task groups at one time, never reached
          TracksActivity,\* bound: whether the deadline from the last activity counts
          UsesVideo      \* bound: whether the application starts its local video

ASSUME BoundsAssumption == MaxLoad \in Nat /\ MaxJobs \in Nat
                           /\ TracksActivity \in BOOLEAN /\ UsesVideo \in BOOLEAN

VARIABLES
  st,       \* sessionStateController.currentState
  slot,     \* its deferredAction and deferredWork
  job,      \* the task groups that are running, by job number
  rc,       \* reconnectController: shouldReconnect and its two deadlines
  timer,    \* reconnectController.backoffTimer is pending
  orphans,  \* pending backoff timers the controller no longer refers to
  tile,     \* the local video tile
  ssrc,     \* previousSdpOffer has a video send section with an SSRC
  heard     \* the last session notification queued for the observers

vars == <<st, slot, job, rc, timer, orphans, tile, ssrc, heard>>

-----------------------------------------------------------------------------
(* The data.                                                                *)

JobIds == 1 .. MaxJobs

\* MeetingSessionStatus, by what handleMeetingSessionStatus does with it.
\* "Retry": isFailure and not isTerminal; "Terminal": isTerminal;
\* "Incompatible": IncompatibleSDP; "ViewOnly": VideoCallSwitchToViewOnly.
Statuses == {"Retry", "Terminal", "Incompatible", "ViewOnly"}

\* What a deferred or performed action calls.  "stop" is actionDisconnect with
\* reconnecting = false; "failedRetry" and "failedTerminal" the catch of
\* actionConnect for a status of that kind.
Works == {"start", "retry", "reconnect", "update", "restart", "stop",
          "failedRetry", "failedTerminal"}

None  == [action |-> "none", work |-> "none"]
Slots == {None} \cup
         [action : {"Update"}, work : {"update", "restart"}] \cup
         [action : {"Reconnect"}, work : {"reconnect"}] \cup
         [action : {"Disconnect"}, work : {"stop"}]

\* A running task group.  lost: its peer connection or its socket is gone for
\* good, so it can only fail.  then: what a teardown does when it has ended.
Idle == [kind |-> "idle", lost |-> FALSE, then |-> "none"]
Kinds == {"idle", "opening", "joining", "reopening", "rejoining",
          "update", "restartStop", "restartStart", "leave"}
Jobs == [kind : Kinds \ {"leave"}, lost : BOOLEAN, then : {"none"}] \cup
        [kind : {"leave"}, lost : BOOLEAN, then : {"notify", "Retry", "Terminal"}]

Connects   == {"opening", "joining"}         \* AudioVideoStart
Reconnects == {"reopening", "rejoining"}     \* AudioVideoReconnect
Updates    == {"update", "restartStop", "restartStart"}

NewJob(kind) == [kind |-> kind, lost |-> FALSE, then |-> "none"]
Leave(then)  == [kind |-> "leave", lost |-> FALSE, then |-> then]

\* firstConnectionAttemptTimestampMs and lastActiveTimestampMs against
\* reconnectTimeoutMs: unset, within the deadline, past it.
Deadline == {"unset", "within", "past"}
FreshRC  == [should |-> TRUE, attempt |-> "unset", active |-> "unset"]

Now == [st |-> st, slot |-> slot, job |-> job, rc |-> rc, timer |-> timer,
        orphans |-> orphans, tile |-> tile, ssrc |-> ssrc, heard |-> heard]

Become(turn) == \E s \in turn :
  /\ st' = s.st /\ slot' = s.slot /\ job' = s.job /\ rc' = s.rc
  /\ timer' = s.timer /\ orphans' = s.orphans
  /\ tile' = s.tile /\ ssrc' = s.ssrc /\ heard' = s.heard

-----------------------------------------------------------------------------
(* Jobs.                                                                    *)

\* By its end a job has subscribed with an offer or not, and the offer was made
\* for the tile of an earlier moment: it sends video or not.
Subscribed(s) == {[s EXCEPT !.ssrc = sends] : sends \in {FALSE, UsesVideo}}

Spawn(s, j)  == [s EXCEPT !.job[CHOOSE i \in JobIds : s.job[i] = Idle] = j]
Retire(s, i) == [s EXCEPT !.job[i] = Idle]

\* What is under way or waiting: jobs, pending timers and the deferred action.
Load(s) == Cardinality({i \in JobIds : s.job[i] # Idle}) + s.orphans
           + (IF s.timer THEN 1 ELSE 0) + (IF s.slot = None THEN 0 ELSE 1)
Room(n) == Load(Now) + n <= MaxLoad

-----------------------------------------------------------------------------
(* DefaultReconnectController.                                              *)

\* reset(): cancel() stops the timer it still refers to, and only that one.
ResetReconnect(s) == [s EXCEPT !.timer = FALSE, !.rc = FreshRC]

StartedConnectionAttempt(s) ==
  [s EXCEPT !.rc.attempt = IF @ = "unset" THEN "within" ELSE @]

DisableReconnect(s) == [s EXCEPT !.rc.should = FALSE]

WillRetry_NoAttemptDeadline(s) ==   \* mutant: timeSpentReconnectingMs() is not looked at
  s.rc.should /\ s.rc.active # "past"
WillRetry_ThoughDisabled(s) ==      \* mutant: shouldReconnect is not looked at
  s.rc.attempt # "past" /\ s.rc.active # "past"
WillRetry(s) == s.rc.should /\ s.rc.attempt # "past" /\ s.rc.active # "past"

\* retryWithBackoff(): the new timer replaces the old one, which stays pending.
RetryWithBackoff(s) ==
  [s EXCEPT !.timer = TRUE, !.orphans = IF s.timer THEN @ + 1 ELSE @]

-----------------------------------------------------------------------------
(* The work functions of DefaultAudioVideoController that perform() calls.  *)

DeferAction(s, action, work) ==
  IF KeepsDeferred(s.slot.action, action) THEN s
  ELSE [s EXCEPT !.slot = [action |-> action, work |-> work]]

\* The shared WebSocketAdapter is destroyed by the constructor of the new
\* signaling client and the previous context was cleaned: older jobs are lost.
LoseAll(s) ==
  [s EXCEPT !.job = [i \in JobIds |-> IF s.job[i] = Idle THEN Idle
                                      ELSE [s.job[i] EXCEPT !.lost = TRUE]]]

ActionConnect(s, reconnecting) ==
  LET fresh == IF reconnecting THEN s
               ELSE [ResetReconnect(s) EXCEPT !.heard = "connecting"]
  IN  Spawn([LoseAll(StartedConnectionAttempt(fresh)) EXCEPT !.ssrc = FALSE],
            NewJob("opening"))

ActionReconnect(s) ==
  LET told == IF s.rc.attempt = "unset" THEN [s EXCEPT !.heard = "connecting"] ELSE s
  IN  Spawn([StartedConnectionAttempt(told) EXCEPT !.ssrc = FALSE], NewJob("reopening"))

ActionDisconnect(s, then) == Spawn(s, Leave(then))

\* restartVideo up to its first await.  It runs in Updating, where the
\* update() that stopLocalVideoTile() makes can only be deferred.
RestartVideo(s) ==
  IF s.tile = "started"
  THEN Spawn(DeferAction([s EXCEPT !.tile = "stopped"], "Update", "update"),
             NewJob("restartStop"))
  ELSE Spawn(s, NewJob("restartStart"))

Run(s, work) ==
  CASE work = "start"          -> ActionConnect(s, FALSE)
    [] work = "retry"          -> ActionConnect(s, TRUE)
    [] work = "reconnect"      -> ActionReconnect(s)
    [] work = "update"         -> Spawn(s, NewJob("update"))
    [] work = "restart"        -> RestartVideo(s)
    [] work = "stop"           -> ActionDisconnect(s, "notify")
    [] work = "failedRetry"    -> ActionDisconnect(s, "Retry")
    [] work = "failedTerminal" -> ActionDisconnect(s, "Terminal")
    [] OTHER                   -> s

-----------------------------------------------------------------------------
(* SessionStateController.perform().                                        *)

\* performDeferredAction(): the waiting action is taken out and performed.  The
\* work it runs defers nothing that could be performed in the state it enters,
\* so the nested performDeferredAction() changes nothing.
PerformDeferred_WorkForgotten(s) ==   \* mutant: deferredWork is cleared before it is read
  IF HasTransition(s.st, s.slot.action)
  THEN [s EXCEPT !.slot = None, !.st = Target(s.st, s.slot.action)]
  ELSE IF CanDefer(s.st, s.slot.action) THEN s ELSE [s EXCEPT !.slot = None]
PerformDeferred(s) ==
  LET d    == s.slot
      free == [s EXCEPT !.slot = None]
  IN  IF d = None THEN s
      ELSE IF HasTransition(s.st, d.action)
           THEN Run([free EXCEPT !.st = Target(s.st, d.action)], d.work)
      ELSE IF CanDefer(s.st, d.action)
           THEN DeferAction(free, d.action, d.work)
      ELSE free

Perform(s, action, work) ==
  IF HasTransition(s.st, action)
  THEN {PerformDeferred(r) : r \in {Run([s EXCEPT !.st = Target(s.st, action)], work)}}
  ELSE IF CanDefer(s.st, action) THEN {DeferAction(s, action, work)} ELSE {s}

-----------------------------------------------------------------------------
(* reconnect() and handleMeetingSessionStatus().                            *)

Reconnect(s) ==
  IF WillRetry(s) THEN {RetryWithBackoff(s)} ELSE Perform(s, "Fail", "stop")

HandleMeetingSessionStatus(s, status) ==
  CASE status = "Incompatible" -> Perform(s, "Update", "restart")
    [] status = "ViewOnly"     -> {[s EXCEPT !.tile = "none"]}
    [] status = "Terminal"     -> Reconnect(DisableReconnect(s))
    [] status = "Retry"        -> Reconnect(s)

-----------------------------------------------------------------------------
(* The ends of the task groups.                                             *)

FinishConnecting_AnyState(s) ==   \* mutant: the end of a connection is reported in any state
  {PerformDeferred(r) : r \in {ResetReconnect([s EXCEPT
     !.st = IF HasTransition(@, "FinishConnecting") THEN Target(@, "FinishConnecting") ELSE @,
     !.heard = "started"])}}
FinishConnecting(s) ==
  IF ~HasTransition(s.st, "FinishConnecting") THEN {s}
  ELSE {PerformDeferred(r) : r \in {ResetReconnect(
         [s EXCEPT !.st = Target(s.st, "FinishConnecting"), !.heard = "started"])}}

\* The catch of actionReconnect: the session is Connected again to be able to
\* perform Reconnect once more.
FinishConnectingFailed(s, status) ==
  IF ~HasTransition(s.st, "FinishConnecting") THEN {s}
  ELSE {PerformDeferred(r) : r \in HandleMeetingSessionStatus(
         [s EXCEPT !.st = Target(s.st, "FinishConnecting")], status)}

FinishUpdating(s) ==
  IF ~HasTransition(s.st, "FinishUpdating") THEN {s}
  ELSE {PerformDeferred([s EXCEPT !.st = Target(s.st, "FinishUpdating")])}

FinishUpdatingFailed(s, status) ==
  IF ~HasTransition(s.st, "FinishUpdating") THEN {s}
  ELSE {PerformDeferred(r) : r \in HandleMeetingSessionStatus(
         [s EXCEPT !.st = Target(s.st, "FinishUpdating")], status)}

\* restartVideo after its first actionUpdate: startLocalVideoTile(), whose
\* update() is performed or deferred, then the second actionUpdate, on the
\* context of that moment.
RestartContinues(s, i) ==
  {[r EXCEPT !.job[i] = [NewJob("restartStart") EXCEPT !.lost = s.st = "NotConnected"]] :
     r \in Perform([s EXCEPT !.tile = "started"], "Update", "update")}

\* CleanStoppedSessionTask: the peer connection and an open socket are closed; a
\* socket that is still opening is left alone.
Clean(s) ==
  [s EXCEPT !.tile = "none",
            !.job = [i \in JobIds |->
              IF s.job[i].kind \in {"joining", "rejoining"} \cup Updates
              THEN [s.job[i] EXCEPT !.lost = TRUE] ELSE s.job[i]]]

FinishDisconnecting(s, then) ==
  IF ~HasTransition(s.st, "FinishDisconnecting") THEN {s}
  ELSE {PerformDeferred(
         [s EXCEPT !.st = Target(s.st, "FinishDisconnecting"),
                   !.heard = IF then = "notify" THEN "stopped" ELSE @])}

\* The rest of the catch of actionConnect, after actionDisconnect(status, true).
AfterFailedConnect(s, status) ==
  {IF status = "Retry" /\ WillRetry(s) THEN r ELSE [r EXCEPT !.heard = "stopped"] :
     r \in HandleMeetingSessionStatus(s, status)}

-----------------------------------------------------------------------------
(* The application.                                                         *)

Start ==
  /\ Room(1)
  /\ Become(Perform(Now, "Connect", "start"))

Stop ==
  /\ Room(1)
  /\ Become(Perform(Now, "Disconnect", "stop"))

\* startLocalVideoTile() and stopLocalVideoTile() of the tile controller.
StartLocalVideo ==
  /\ UsesVideo
  /\ Room(1)
  /\ Become(Perform([Now EXCEPT !.tile = "started"], "Update", "update"))

StopLocalVideo ==
  /\ Room(1)
  /\ tile # "none"
  /\ Become(Perform([Now EXCEPT !.tile = "stopped"], "Update", "update"))

\* restartLocalVideo() as the device controller calls it, for a started tile.
RestartLocalVideo ==
  /\ Room(2)
  /\ tile = "started"
  /\ Become(Perform(Now, "Update", "restart"))

-----------------------------------------------------------------------------
(* The monitor of the session, registered from actionConnect to the clean.  *)

MonitorStatus(status) ==
  /\ st # "NotConnected"
  /\ Room(1)
  /\ Become(HandleMeetingSessionStatus(Now, status))

MonitorUpdate ==
  /\ st # "NotConnected"
  /\ Room(1)
  /\ Become(Perform(Now, "Update", "update"))

MonitorActive ==
  /\ TracksActivity
  /\ st # "NotConnected"
  /\ Become({[Now EXCEPT !.rc.active = "within"]})

-----------------------------------------------------------------------------
(* Timers and the passing of the reconnect deadline.                        *)

Retry(s) ==
  IF s.st = "NotConnected" THEN Perform(s, "Connect", "retry")
  ELSE Perform(s, "Reconnect", "reconnect")

TimerFires ==
  /\ timer
  /\ Become(Retry([Now EXCEPT !.timer = FALSE]))

OrphanFires ==
  /\ orphans > 0
  /\ Become(Retry([Now EXCEPT !.orphans = @ - 1]))

AttemptAges ==
  /\ rc.attempt = "within"
  /\ rc' = [rc EXCEPT !.attempt = "past"]
  /\ UNCHANGED <<st, slot, job, timer, orphans, tile, ssrc, heard>>

ActivityAges ==
  /\ rc.active = "within"
  /\ rc' = [rc EXCEPT !.active = "past"]
  /\ UNCHANGED <<st, slot, job, timer, orphans, tile, ssrc, heard>>

-----------------------------------------------------------------------------
(* The jobs.                                                                *)

\* The signaling socket opens.
SocketOpens(i) ==
  /\ job[i].kind \in {"opening", "reopening"} /\ ~job[i].lost
  /\ job' = [job EXCEPT ![i].kind = IF @ = "opening" THEN "joining" ELSE "rejoining"]
  /\ UNCHANGED <<st, slot, rc, timer, orphans, tile, ssrc, heard>>

ConnectSucceeds(i) ==
  /\ job[i].kind \in {"joining", "rejoining"} /\ ~job[i].lost
  /\ \E s \in Subscribed(Retire(Now, i)) : Become(FinishConnecting(s))

ConnectFails(i, status) ==
  /\ job[i].kind \in Connects
  /\ Become(Perform(Retire(Now, i), "Fail",
                    IF status = "Retry" THEN "failedRetry" ELSE "failedTerminal"))

ReconnectFails(i, status) ==
  /\ job[i].kind \in Reconnects
  /\ \E s \in Subscribed(Retire(Now, i)) : Become(FinishConnectingFailed(s, status))

UpdateSucceeds(i) ==
  /\ job[i].kind \in {"update", "restartStart"} /\ ~job[i].lost
  /\ \E s \in Subscribed(Retire(Now, i)) : Become(FinishUpdating(s))

UpdateFails(i) ==
  /\ job[i].kind \in {"update", "restartStart"}
  /\ \E s \in Subscribed(Retire(Now, i)) : Become(FinishUpdatingFailed(s, "Retry"))

\* CreateSDPTask: the new offer sends video with another SSRC than the previous.
UpdateIsIncompatible(i) ==
  /\ job[i].kind \in {"update", "restartStart"} /\ ~job[i].lost
  /\ ssrc
  /\ Room(1)
  /\ Become(FinishUpdatingFailed([Retire(Now, i) EXCEPT !.ssrc = FALSE], "Incompatible"))

\* actionUpdate(false) resolves whether its tasks succeeded or not.
RestartStopSucceeds(i) ==
  /\ job[i].kind = "restartStop" /\ ~job[i].lost
  /\ \E s \in Subscribed(Now) : Become(RestartContinues(s, i))

RestartStopFails(i) ==
  /\ job[i].kind = "restartStop"
  /\ \E s \in Subscribed(Now) :
       \E failed \in FinishUpdatingFailed(s, "Retry") : Become(RestartContinues(failed, i))

LeaveEnds(i) ==
  /\ job[i].kind = "leave"
  /\ LET then == job[i].then
         down == FinishDisconnecting(Clean(Retire(Now, i)), then)
     IN  Become(IF then = "notify" THEN down
                ELSE UNION {AfterFailedConnect(s, then) : s \in down})

-----------------------------------------------------------------------------
Init ==
  /\ st = "NotConnected" /\ slot = None
  /\ job = [i \in JobIds |-> Idle]
  /\ rc = FreshRC /\ timer = FALSE /\ orphans = 0
  /\ tile = "none" /\ ssrc = FALSE /\ heard = "nothing"

JobStep(i) ==
  \/ SocketOpens(i)
  \/ ConnectSucceeds(i)
  \/ \E status \in {"Retry", "Terminal"} : ConnectFails(i, status) \/ ReconnectFails(i, status)
  \/ UpdateSucceeds(i) \/ UpdateFails(i) \/ UpdateIsIncompatible(i)
  \/ RestartStopSucceeds(i) \/ RestartStopFails(i)
  \/ LeaveEnds(i)

Next ==
  \/ Start \/ Stop \/ StartLocalVideo \/ StopLocalVideo \/ RestartLocalVideo
  \/ \E status \in {"Retry", "Terminal", "ViewOnly"} : MonitorStatus(status)
  \/ MonitorUpdate \/ MonitorActive
  \/ TimerFires \/ OrphanFires \/ AttemptAges \/ ActivityAges
  \/ \E i \in JobIds : JobStep(i)

Spec == Init /\ [][Next]_vars

\* Every task group ends (its waits are under a TimeoutTask or are a device
\* prompt that is answered), timers fire and time passes.  Nothing is assumed of
\* the application or of the network.
Fairness ==
  /\ \A i \in JobIds : WF_vars(JobStep(i))
  /\ WF_vars(TimerFires) /\ WF_vars(OrphanFires) /\ WF_vars(AttemptAges)

FairSpec == Spec /\ Fairness

-----------------------------------------------------------------------------
(* What the core guarantees.                                                *)

TypeOK ==
  /\ st \in States /\ slot \in Slots
  /\ job \in [JobIds -> Jobs]
  /\ rc \in [should : BOOLEAN, attempt : Deadline, active : Deadline]
  /\ timer \in BOOLEAN /\ orphans \in Nat
  /\ tile \in {"none", "stopped", "started"} /\ ssrc \in BOOLEAN
  /\ heard \in {"nothing", "connecting", "started", "stopped"}

\* Work waits only while a transition is in progress: nothing is ever left
\* waiting in a state whose entry will not look at it (perform, deferAction).
DeferredOnlyWhileBusy == slot # None => st \in Busy

\* There is at most one teardown, and it runs in Disconnecting: its
\* FinishDisconnecting is never refused, and a context is never cleaned twice or
\* cleaned under a newer session (actionDisconnect).
OneTeardown ==
  \A i \in JobIds : job[i].kind = "leave" =>
    /\ st = "Disconnecting"
    /\ \A k \in JobIds : job[k].kind = "leave" => i = k

\* A transition in progress has a job that will end it: the session cannot be
\* left Connecting, Updating or Disconnecting for ever, with every other request
\* deferred or refused.
BusyHasDriver ==
  /\ st = "Connecting"    => \E i \in JobIds : job[i].kind \in Connects \cup Reconnects /\ ~job[i].lost
  /\ st = "Updating"      => \E i \in JobIds : job[i].kind \in Updates
  /\ st = "Disconnecting" => \E i \in JobIds : job[i].kind = "leave"

\* A stop() that waits is never displaced by another request: it leaves the
\* slot only when the transition it waits for has ended (deferAction).
StopOutranks ==
  [][slot.action = "Disconnect" /\ slot' # slot =>
       slot' = None /\ st' = "Disconnecting"]_vars

\* Once reconnecting is disabled, and unless a backoff timer is pending by then
\* (which nothing stops), the session stays down until start() resets the
\* controller: no failure, deferred action or stale task group schedules a retry
\* (disableReconnect, hasPastReconnectDeadline).
NoRetryOnceDisabled ==
  [][~rc'.should /\ ~timer /\ orphans = 0 =>
       /\ ~timer' /\ orphans' = 0
       /\ st' = "Connecting" => st = "Connecting"]_vars

\* A teardown under way, or a stop() that waits, brings the session down.
StopCompletes == (st = "Disconnecting" \/ slot.action = "Disconnect") ~> st = "NotConnected"

\* Retries do not go on for ever: a connection attempt that is past its
\* deadline succeeds, is given up, or is superseded by a new start().
PastDeadlineEnds == rc.attempt = "past" ~> rc.attempt # "past" \/ heard = "stopped"

\* The session as an application sees it.
Lifecycle == INSTANCE SessionLifecycle WITH
  phase <- CASE st = "NotConnected" -> "down" [] st = "Disconnecting" -> "closing"
             [] OTHER -> "up",
  told  <- heard

\* Every turn is a step the application can expect: one teardown between two
\* sessions, and no notification from a session that is going or gone.
LifecycleImplemented == Lifecycle!FairSpec

-----------------------------------------------------------------------------
(* What the documentation says of it, and the code does not do.             *)

\* SessionStateController.perform: a Stop in Connecting "will be deferred until
\* the Connected state is reached", so it is carried out, not dropped.
DeferredStopIsCarriedOut ==
  [][slot.action = "Disconnect" /\ slot' = None =>
       \E i \in JobIds : job'[i].kind = "leave" /\ job'[i].then = "notify"]_vars

=============================================================================
