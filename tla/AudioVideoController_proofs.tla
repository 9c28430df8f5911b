--------------------- MODULE AudioVideoController_proofs ---------------------
(***************************************************************************)
(* Proofs about AudioVideoController.  The work of a turn is a composition  *)
(* of operators on the record of the controller's fields, so there is one   *)
(* lemma per operator, stated of any record s of the type, and one step per *)
(* action that puts them together.                                          *)
(*                                                                          *)
(* The first half is about the type and the jobs of a turn.  The second is  *)
(* about what one turn does to retries, to the phase of the session that    *)
(* the application sees, and to transitions in progress: once reconnecting  *)
(* is disabled nothing schedules a retry, every turn is a step of           *)
(* SessionLifecycle, and a transition in progress has a job that ends it.   *)
(***************************************************************************)
EXTENDS AudioVideoController, TLAPS

ReconnectControllers == [should : BOOLEAN, attempt : Deadline, active : Deadline]
Notices == {"nothing", "connecting", "started", "stopped"}
Tiles   == {"none", "stopped", "started"}

\* The records of the controller's fields.
Controllers ==
  [st : States, slot : Slots, job : [JobIds -> Jobs], rc : ReconnectControllers,
   timer : BOOLEAN, orphans : Nat, tile : Tiles, ssrc : BOOLEAN, heard : Notices]

\* The type invariant speaks of that record.
LEMMA NowType == TypeOK <=> Now \in Controllers
BY DEF TypeOK, Now, Controllers, ReconnectControllers, Notices, Tiles

\* A turn that leaves one of a set of well typed records is well typed.
LEMMA BecomeType ==
  ASSUME NEW turn \in SUBSET Controllers, Become(turn)
  PROVE  TypeOK'
BY DEF Become, TypeOK, Controllers, ReconnectControllers, Notices, Tiles

-----------------------------------------------------------------------------
(* Jobs and the reconnect controller.                                       *)

LEMMA SpawnType ==
  ASSUME NEW s \in Controllers, NEW j \in Jobs
  PROVE  Spawn(s, j) \in Controllers
BY DEF Spawn, Controllers

LEMMA RetireType ==
  ASSUME NEW s \in Controllers, NEW i \in JobIds
  PROVE  Retire(s, i) \in Controllers
<1>1. Idle \in Jobs  BY DEF Idle, Jobs, Kinds
<1>2. QED  BY <1>1 DEF Retire, Controllers

LEMMA ReconnectControllerType ==
  ASSUME NEW s \in Controllers
  PROVE  /\ ResetReconnect(s) \in Controllers
         /\ StartedConnectionAttempt(s) \in Controllers
         /\ DisableReconnect(s) \in Controllers
         /\ RetryWithBackoff(s) \in Controllers
         /\ Subscribed(s) \in SUBSET Controllers
<1>1. ResetReconnect(s) \in Controllers
  BY DEF ResetReconnect, Controllers, ReconnectControllers, FreshRC, Deadline
<1>2. StartedConnectionAttempt(s) \in Controllers
  BY DEF StartedConnectionAttempt, Controllers, ReconnectControllers, Deadline
<1>3. DisableReconnect(s) \in Controllers
  BY DEF DisableReconnect, Controllers, ReconnectControllers
<1>4. RetryWithBackoff(s) \in Controllers
  <2> DEFINE left == IF s.timer THEN s.orphans + 1 ELSE s.orphans
  <2>1. left \in Nat  BY DEF Controllers
  <2> HIDE DEF left
  <2>2. [s EXCEPT !.timer = TRUE, !.orphans = left] \in Controllers
    BY <2>1 DEF Controllers
  <2> QED  BY <2>2 DEF RetryWithBackoff, left
<1>5. Subscribed(s) \in SUBSET Controllers
  <2>1. UsesVideo \in BOOLEAN  BY BoundsAssumption
  <2>2. ASSUME NEW sends \in BOOLEAN
        PROVE  [s EXCEPT !.ssrc = sends] \in Controllers
    BY DEF Controllers
  <2>3. QED  BY <2>1, <2>2 DEF Subscribed
<1> QED  BY <1>1, <1>2, <1>3, <1>4, <1>5

-----------------------------------------------------------------------------
(* The state table.                                                         *)

\* A transition leads to a state; only Connect, Disconnect, Fail and the ends
\* of a transition are accepted where the table says so.
LEMMA TargetType ==
  ASSUME NEW from \in States, NEW action, HasTransition(from, action)
  PROVE  /\ Target(from, action) \in States
         /\ Target(from, action) # from
BY DEF HasTransition, Target, Transition, States

\* What can be deferred and finds no transition is one of the three actions the
\* slot can hold: Fail is accepted in both of the busy states.
LEMMA DeferrableActions ==
  ASSUME NEW from, NEW action, ~HasTransition(from, action), CanDefer(from, action)
  PROVE  /\ action \in {"Update", "Reconnect", "Disconnect"}
         /\ from \in Busy
BY DEF HasTransition, Target, Transition, CanDefer, DeferPriority, Busy

-----------------------------------------------------------------------------
(* The type of what perform() leaves.                                       *)

LEMMA DeferType ==
  ASSUME NEW s \in Controllers, NEW action, NEW work,
         [action |-> action, work |-> work] \in Slots
  PROVE  DeferAction(s, action, work) \in Controllers
BY DEF DeferAction, Controllers

LEMMA NewJobTypes ==
  /\ \A kind \in Kinds \ {"leave"} : NewJob(kind) \in Jobs
  /\ \A then \in {"notify", "Retry", "Terminal"} : Leave(then) \in Jobs
BY DEF NewJob, Leave, Jobs, Kinds

LEMMA LoseAllType ==
  ASSUME NEW s \in Controllers
  PROVE  LoseAll(s) \in Controllers
<1>1. \A i \in JobIds : /\ s.job[i] \in Jobs
                        /\ [s.job[i] EXCEPT !.lost = TRUE] \in Jobs
  BY DEF Controllers, Jobs
<1>2. Idle \in Jobs  BY DEF Idle, Jobs, Kinds
<1>3. [i \in JobIds |-> IF s.job[i] = Idle THEN Idle
                        ELSE [s.job[i] EXCEPT !.lost = TRUE]] \in [JobIds -> Jobs]
  BY <1>1, <1>2
<1>4. QED  BY <1>3 DEF LoseAll, Controllers

LEMMA ConnectType ==
  ASSUME NEW s \in Controllers, NEW reconnecting \in BOOLEAN
  PROVE  ActionConnect(s, reconnecting) \in Controllers
<1> DEFINE fresh == IF reconnecting THEN s
                    ELSE [ResetReconnect(s) EXCEPT !.heard = "connecting"]
           lost  == LoseAll(StartedConnectionAttempt(fresh))
<1>1. fresh \in Controllers
  <2>1. ResetReconnect(s) \in Controllers  BY ReconnectControllerType
  <2>2. [ResetReconnect(s) EXCEPT !.heard = "connecting"] \in Controllers
    BY <2>1 DEF Controllers, Notices
  <2>3. QED  BY <2>2
<1>2. lost \in Controllers  BY <1>1, ReconnectControllerType, LoseAllType
<1>3. [lost EXCEPT !.ssrc = FALSE] \in Controllers
  <2> HIDE DEF lost
  <2> QED  BY <1>2 DEF Controllers
<1>4. NewJob("opening") \in Jobs  BY NewJobTypes DEF Kinds
<1>5. Spawn([lost EXCEPT !.ssrc = FALSE], NewJob("opening")) \in Controllers
  BY <1>3, <1>4, SpawnType
<1>6. QED  BY <1>5 DEF ActionConnect

LEMMA ReconnectType ==
  ASSUME NEW s \in Controllers
  PROVE  ActionReconnect(s) \in Controllers
<1> DEFINE told == IF s.rc.attempt = "unset" THEN [s EXCEPT !.heard = "connecting"] ELSE s
           went == StartedConnectionAttempt(told)
<1>1. told \in Controllers  BY DEF Controllers, Notices
<1>2. went \in Controllers  BY <1>1, ReconnectControllerType
<1>3. [went EXCEPT !.ssrc = FALSE] \in Controllers
  <2> HIDE DEF went
  <2> QED  BY <1>2 DEF Controllers
<1>4. NewJob("reopening") \in Jobs  BY NewJobTypes DEF Kinds
<1>5. Spawn([went EXCEPT !.ssrc = FALSE], NewJob("reopening")) \in Controllers
  BY <1>3, <1>4, SpawnType
<1>6. QED  BY <1>5 DEF ActionReconnect

LEMMA RestartType ==
  ASSUME NEW s \in Controllers
  PROVE  RestartVideo(s) \in Controllers
<1>1. NewJob("restartStop") \in Jobs /\ NewJob("restartStart") \in Jobs
  BY NewJobTypes DEF Kinds
<1>2. [s EXCEPT !.tile = "stopped"] \in Controllers  BY DEF Controllers, Tiles
<1>3. [action |-> "Update", work |-> "update"] \in Slots  BY DEF Slots
<1>4. DeferAction([s EXCEPT !.tile = "stopped"], "Update", "update") \in Controllers
  BY <1>2, <1>3, DeferType
<1>5. QED  BY <1>1, <1>4, SpawnType DEF RestartVideo

LEMMA RunType ==
  ASSUME NEW s \in Controllers, NEW work
  PROVE  Run(s, work) \in Controllers
<1>1. NewJob("update") \in Jobs /\ Leave("notify") \in Jobs
      /\ Leave("Retry") \in Jobs /\ Leave("Terminal") \in Jobs
  BY NewJobTypes DEF Kinds
<1>2. ActionDisconnect(s, "notify") \in Controllers
      /\ ActionDisconnect(s, "Retry") \in Controllers
      /\ ActionDisconnect(s, "Terminal") \in Controllers
  BY <1>1, SpawnType DEF ActionDisconnect
<1>3. Spawn(s, NewJob("update")) \in Controllers  BY <1>1, SpawnType
<1>4. QED  BY <1>2, <1>3, ConnectType, ReconnectType, RestartType DEF Run

LEMMA PerformDeferredType ==
  ASSUME NEW s \in Controllers
  PROVE  PerformDeferred(s) \in Controllers
<1> DEFINE free == [s EXCEPT !.slot = None]
<1>1. free \in Controllers  BY DEF Controllers, Slots
<1>2. ASSUME HasTransition(s.st, s.slot.action)
      PROVE  Run([free EXCEPT !.st = Target(s.st, s.slot.action)], s.slot.work) \in Controllers
  <2>1. Target(s.st, s.slot.action) \in States  BY <1>2, TargetType DEF Controllers
  <2>2. [free EXCEPT !.st = Target(s.st, s.slot.action)] \in Controllers
    BY <1>1, <2>1 DEF Controllers
  <2>3. QED  BY <2>2, RunType
<1>3. DeferAction(free, s.slot.action, s.slot.work) \in Controllers
  <2>1. [action |-> s.slot.action, work |-> s.slot.work] \in Slots
    BY DEF Controllers, Slots, None
  <2>2. QED  BY <1>1, <2>1, DeferType
<1>4. QED  BY <1>1, <1>2, <1>3 DEF PerformDeferred

\* perform() with an action and the work that belongs to it.
LEMMA PerformType ==
  ASSUME NEW s \in Controllers, NEW action, NEW work,
         action \in {"Update", "Reconnect", "Disconnect"}
           => [action |-> action, work |-> work] \in Slots
  PROVE  Perform(s, action, work) \in SUBSET Controllers
<1>1. CASE HasTransition(s.st, action)
  <2> DEFINE moved == [s EXCEPT !.st = Target(s.st, action)]
  <2>1. moved \in Controllers
    <3>1. Target(s.st, action) \in States  BY <1>1, TargetType DEF Controllers
    <3>2. QED  BY <3>1 DEF Controllers
  <2>2. Run(moved, work) \in Controllers  BY <2>1, RunType
  <2>3. PerformDeferred(Run(moved, work)) \in Controllers  BY <2>2, PerformDeferredType
  <2>4. Perform(s, action, work) = {PerformDeferred(r) : r \in {Run(moved, work)}}
    BY <1>1 DEF Perform
  <2> HIDE DEF moved
  <2>5. QED  BY <2>3, <2>4
<1>2. CASE ~HasTransition(s.st, action) /\ CanDefer(s.st, action)
  <2>1. [action |-> action, work |-> work] \in Slots  BY <1>2, DeferrableActions
  <2>2. QED  BY <1>2, <2>1, DeferType DEF Perform
<1>3. CASE ~HasTransition(s.st, action) /\ ~CanDefer(s.st, action)
  BY <1>3 DEF Perform
<1>4. QED  BY <1>1, <1>2, <1>3

-----------------------------------------------------------------------------
(* The type of what a turn leaves.                                          *)

LEMMA StatusType ==
  ASSUME NEW s \in Controllers, NEW status \in Statuses
  PROVE  HandleMeetingSessionStatus(s, status) \in SUBSET Controllers
<1>1. ASSUME NEW c \in Controllers
      PROVE  Reconnect(c) \in SUBSET Controllers
  <2>1. Perform(c, "Fail", "stop") \in SUBSET Controllers  BY PerformType
  <2>2. RetryWithBackoff(c) \in Controllers  BY ReconnectControllerType
  <2>3. QED  BY <2>1, <2>2 DEF Reconnect
<1>2. Perform(s, "Update", "restart") \in SUBSET Controllers
  <2>1. [action |-> "Update", work |-> "restart"] \in Slots  BY DEF Slots
  <2>2. QED  BY <2>1, PerformType
<1>3. [s EXCEPT !.tile = "none"] \in Controllers  BY DEF Controllers, Tiles
<1>4. Reconnect(s) \in SUBSET Controllers  BY <1>1
<1>5. Reconnect(DisableReconnect(s)) \in SUBSET Controllers
  BY <1>1, ReconnectControllerType
<1>6. QED  BY <1>2, <1>3, <1>4, <1>5 DEF HandleMeetingSessionStatus, Statuses

\* Entering a state of the table.
LEMMA MoveType ==
  ASSUME NEW s \in Controllers, NEW action, HasTransition(s.st, action)
  PROVE  [s EXCEPT !.st = Target(s.st, action)] \in Controllers
<1>1. Target(s.st, action) \in States  BY TargetType DEF Controllers
<1>2. QED  BY <1>1 DEF Controllers

LEMMA FinishConnectingType ==
  ASSUME NEW s \in Controllers
  PROVE  FinishConnecting(s) \in SUBSET Controllers
<1>1. CASE ~HasTransition(s.st, "FinishConnecting")
  BY <1>1 DEF FinishConnecting
<1>2. CASE HasTransition(s.st, "FinishConnecting")
  <2> DEFINE moved == [s EXCEPT !.st = Target(s.st, "FinishConnecting"), !.heard = "started"]
  <2>1. moved \in Controllers
    <3>1. [s EXCEPT !.st = Target(s.st, "FinishConnecting")] \in Controllers  BY <1>2, MoveType
    <3>2. QED  BY <3>1 DEF Controllers, Notices
  <2>2. PerformDeferred(ResetReconnect(moved)) \in Controllers
    BY <2>1, ReconnectControllerType, PerformDeferredType
  <2>3. FinishConnecting(s) = {PerformDeferred(r) : r \in {ResetReconnect(moved)}}
    BY <1>2 DEF FinishConnecting
  <2> HIDE DEF moved
  <2>4. QED  BY <2>2, <2>3
<1>3. QED  BY <1>1, <1>2

LEMMA FinishFailedType ==
  ASSUME NEW s \in Controllers, NEW status \in Statuses
  PROVE  /\ FinishConnectingFailed(s, status) \in SUBSET Controllers
         /\ FinishUpdatingFailed(s, status) \in SUBSET Controllers
<1>1. ASSUME NEW action, HasTransition(s.st, action)
      PROVE  {PerformDeferred(r) : r \in HandleMeetingSessionStatus(
               [s EXCEPT !.st = Target(s.st, action)], status)} \in SUBSET Controllers
  <2> DEFINE moved == [s EXCEPT !.st = Target(s.st, action)]
  <2>1. moved \in Controllers  BY <1>1, MoveType
  <2> HIDE DEF moved
  <2>2. HandleMeetingSessionStatus(moved, status) \in SUBSET Controllers
    BY <2>1, StatusType
  <2>3. {PerformDeferred(r) : r \in HandleMeetingSessionStatus(moved, status)}
          \in SUBSET Controllers
    BY <2>2, PerformDeferredType
  <2>4. QED  BY <2>3 DEF moved
<1>2. FinishConnectingFailed(s, status) \in SUBSET Controllers
  BY <1>1 DEF FinishConnectingFailed
<1>3. FinishUpdatingFailed(s, status) \in SUBSET Controllers
  BY <1>1 DEF FinishUpdatingFailed
<1>4. QED  BY <1>2, <1>3

LEMMA FinishUpdatingType ==
  ASSUME NEW s \in Controllers
  PROVE  FinishUpdating(s) \in SUBSET Controllers
BY MoveType, PerformDeferredType DEF FinishUpdating

LEMMA RestartContinuesType ==
  ASSUME NEW s \in Controllers, NEW i \in JobIds
  PROVE  RestartContinues(s, i) \in SUBSET Controllers
<1> DEFINE begun == [s EXCEPT !.tile = "started"]
           next  == [NewJob("restartStart") EXCEPT !.lost = s.st = "NotConnected"]
<1>1. begun \in Controllers  BY DEF Controllers, Tiles
<1>2. [action |-> "Update", work |-> "update"] \in Slots  BY DEF Slots
<1> HIDE DEF begun
<1>3. Perform(begun, "Update", "update") \in SUBSET Controllers
  BY <1>1, <1>2, PerformType
<1>4. next \in Jobs  BY DEF NewJob, Jobs, Kinds
<1> HIDE DEF next
<1>5. ASSUME NEW r \in Controllers
      PROVE  [r EXCEPT !.job[i] = next] \in Controllers
  BY <1>4 DEF Controllers
<1>6. {[r EXCEPT !.job[i] = next] : r \in Perform(begun, "Update", "update")}
        \in SUBSET Controllers
  BY <1>3, <1>5
<1>7. QED  BY <1>6 DEF RestartContinues, begun, next

LEMMA CleanType ==
  ASSUME NEW s \in Controllers
  PROVE  Clean(s) \in Controllers
<1> DEFINE jobs == [i \in JobIds |->
              IF s.job[i].kind \in {"joining", "rejoining"} \cup Updates
              THEN [s.job[i] EXCEPT !.lost = TRUE] ELSE s.job[i]]
<1>1. \A i \in JobIds : s.job[i] \in Jobs /\ [s.job[i] EXCEPT !.lost = TRUE] \in Jobs
  BY DEF Controllers, Jobs
<1>2. jobs \in [JobIds -> Jobs]  BY <1>1
<1> HIDE DEF jobs
<1>3. [s EXCEPT !.tile = "none", !.job = jobs] \in Controllers
  BY <1>2 DEF Controllers, Tiles
<1>4. QED  BY <1>3 DEF Clean, jobs

LEMMA FinishDisconnectingType ==
  ASSUME NEW s \in Controllers, NEW then
  PROVE  FinishDisconnecting(s, then) \in SUBSET Controllers
<1>1. CASE ~HasTransition(s.st, "FinishDisconnecting")
  BY <1>1 DEF FinishDisconnecting
<1>2. CASE HasTransition(s.st, "FinishDisconnecting")
  <2> DEFINE told  == IF then = "notify" THEN "stopped" ELSE s.heard
             moved == [s EXCEPT !.st = Target(s.st, "FinishDisconnecting"), !.heard = told]
  <2>1. moved \in Controllers
    <3>1. [s EXCEPT !.st = Target(s.st, "FinishDisconnecting")] \in Controllers
      BY <1>2, MoveType
    <3>2. told \in Notices  BY DEF Notices, Controllers
    <3> HIDE DEF told
    <3>3. QED  BY <3>1, <3>2 DEF Controllers
  <2>2. FinishDisconnecting(s, then) = {PerformDeferred(moved)}
    BY <1>2 DEF FinishDisconnecting
  <2> HIDE DEF moved
  <2>3. QED  BY <2>1, <2>2, PerformDeferredType
<1>3. QED  BY <1>1, <1>2

LEMMA AfterFailedConnectType ==
  ASSUME NEW s \in Controllers, NEW status \in Statuses
  PROVE  AfterFailedConnect(s, status) \in SUBSET Controllers
<1>1. HandleMeetingSessionStatus(s, status) \in SUBSET Controllers  BY StatusType
<1>2. \A r \in Controllers : [r EXCEPT !.heard = "stopped"] \in Controllers
  BY DEF Controllers, Notices
<1>3. QED  BY <1>1, <1>2 DEF AfterFailedConnect

-----------------------------------------------------------------------------
(* The type invariant.                                                      *)

LEMMA InitType == Init => TypeOK
<1> SUFFICES ASSUME Init PROVE TypeOK
  OBVIOUS
<1>1. st \in States  BY DEF Init, States
<1>2. slot \in Slots  BY DEF Init, Slots
<1>3. job \in [JobIds -> Jobs]
  <2>1. Idle \in Jobs  BY DEF Idle, Jobs, Kinds
  <2>2. QED  BY <2>1 DEF Init
<1>4. rc \in [should : BOOLEAN, attempt : Deadline, active : Deadline]
  BY DEF Init, FreshRC, Deadline
<1>5. timer \in BOOLEAN /\ ssrc \in BOOLEAN  BY Zenon DEF Init
<1>6. orphans \in Nat  BY DEF Init
<1>7. tile \in {"none", "stopped", "started"}
      /\ heard \in {"nothing", "connecting", "started", "stopped"}
  BY DEF Init
<1>8. QED  BY <1>1, <1>2, <1>3, <1>4, <1>5, <1>6, <1>7 DEF TypeOK

\* The requests of the application and the events of the monitor.
LEMMA RequestType ==
  ASSUME TypeOK,
         \/ Start \/ Stop \/ StartLocalVideo \/ StopLocalVideo \/ RestartLocalVideo
         \/ \E status \in Statuses : MonitorStatus(status)
         \/ MonitorUpdate \/ MonitorActive
  PROVE  TypeOK'
<1> DEFINE update == [action |-> "Update", work |-> "update"]
<1>a. Now \in Controllers  BY NowType
<1>b. update \in Slots  BY DEF Slots
<1>1. CASE Start
  <2>1. Perform(Now, "Connect", "start") \in SUBSET Controllers  BY <1>a, PerformType
  <2>2. QED  BY <1>1, <2>1, BecomeType DEF Start
<1>2. CASE Stop
  <2>1. [action |-> "Disconnect", work |-> "stop"] \in Slots  BY DEF Slots
  <2>2. Perform(Now, "Disconnect", "stop") \in SUBSET Controllers
    BY <1>a, <2>1, PerformType
  <2>3. QED  BY <1>2, <2>2, BecomeType DEF Stop
<1>3. CASE StartLocalVideo
  <2>1. [Now EXCEPT !.tile = "started"] \in Controllers  BY <1>a DEF Controllers, Tiles
  <2>2. Perform([Now EXCEPT !.tile = "started"], "Update", "update") \in SUBSET Controllers
    BY <1>b, <2>1, PerformType
  <2>3. QED  BY <1>3, <2>2, BecomeType DEF StartLocalVideo
<1>4. CASE StopLocalVideo
  <2>1. [Now EXCEPT !.tile = "stopped"] \in Controllers  BY <1>a DEF Controllers, Tiles
  <2>2. Perform([Now EXCEPT !.tile = "stopped"], "Update", "update") \in SUBSET Controllers
    BY <1>b, <2>1, PerformType
  <2>3. QED  BY <1>4, <2>2, BecomeType DEF StopLocalVideo
<1>5. CASE RestartLocalVideo
  <2>1. [action |-> "Update", work |-> "restart"] \in Slots  BY DEF Slots
  <2>2. Perform(Now, "Update", "restart") \in SUBSET Controllers
    BY <1>a, <2>1, PerformType
  <2>3. QED  BY <1>5, <2>2, BecomeType DEF RestartLocalVideo
<1>6. ASSUME NEW status \in Statuses, MonitorStatus(status)
      PROVE  TypeOK'
  <2>1. HandleMeetingSessionStatus(Now, status) \in SUBSET Controllers
    BY <1>a, StatusType
  <2>2. QED  BY <1>6, <2>1, BecomeType DEF MonitorStatus
<1>7. CASE MonitorUpdate
  <2>1. Perform(Now, "Update", "update") \in SUBSET Controllers
    BY <1>a, <1>b, PerformType
  <2>2. QED  BY <1>7, <2>1, BecomeType DEF MonitorUpdate
<1>8. CASE MonitorActive
  <2>1. [Now EXCEPT !.rc.active = "within"] \in Controllers
    BY <1>a DEF Controllers, ReconnectControllers, Deadline
  <2>2. QED  BY <1>8, <2>1, BecomeType DEF MonitorActive
<1>9. QED  BY <1>1, <1>2, <1>3, <1>4, <1>5, <1>6, <1>7, <1>8

\* The timers and the deadlines.
LEMMA TimeType ==
  ASSUME TypeOK, TimerFires \/ OrphanFires \/ AttemptAges \/ ActivityAges
  PROVE  TypeOK'
<1>a. Now \in Controllers  BY NowType
<1>b. ASSUME NEW s \in Controllers
      PROVE  Retry(s) \in SUBSET Controllers
  <2>1. [action |-> "Reconnect", work |-> "reconnect"] \in Slots  BY DEF Slots
  <2>2. Perform(s, "Reconnect", "reconnect") \in SUBSET Controllers  BY <2>1, PerformType
  <2>3. Perform(s, "Connect", "retry") \in SUBSET Controllers  BY PerformType
  <2>4. QED  BY <2>2, <2>3 DEF Retry
<1>1. CASE TimerFires
  <2>1. [Now EXCEPT !.timer = FALSE] \in Controllers  BY <1>a DEF Controllers
  <2>2. QED  BY <1>1, <1>b, <2>1, BecomeType DEF TimerFires
<1>2. CASE OrphanFires
  <2>1. [Now EXCEPT !.orphans = Now.orphans - 1] \in Controllers
    <3>1. Now.orphans - 1 \in Nat
      <4>1. orphans > 0  BY <1>2 DEF OrphanFires
      <4>2. orphans \in Nat /\ Now.orphans = orphans  BY DEF TypeOK, Now
      <4>3. QED  BY <4>1, <4>2
    <3>2. QED  BY <1>a, <3>1 DEF Controllers
  <2>2. QED  BY <1>2, <1>b, <2>1, BecomeType DEF OrphanFires
<1>3. CASE AttemptAges
  BY <1>3 DEF AttemptAges, TypeOK, Deadline
<1>4. CASE ActivityAges
  BY <1>4 DEF ActivityAges, TypeOK, Deadline
<1>5. QED  BY <1>1, <1>2, <1>3, <1>4

\* The ends of the jobs.
LEMMA JobType ==
  ASSUME TypeOK, NEW i \in JobIds, JobStep(i)
  PROVE  TypeOK'
<1>a. Now \in Controllers  BY NowType
<1>b. Retire(Now, i) \in Controllers  BY <1>a, RetireType
<1>c. {"Retry", "Terminal", "Incompatible"} \subseteq Statuses  BY DEF Statuses
<1>1. CASE SocketOpens(i)
  <2>1. job[i] \in Jobs  BY DEF TypeOK
  <2>2. [job[i] EXCEPT !.kind = IF job[i].kind = "opening" THEN "joining" ELSE "rejoining"]
          \in Jobs
    BY <1>1, <2>1 DEF SocketOpens, Jobs, Kinds
  <2>3. job' \in [JobIds -> Jobs]  BY <1>1, <2>2 DEF SocketOpens, TypeOK
  <2>4. QED  BY <1>1, <2>3 DEF SocketOpens, TypeOK
<1>2. CASE ConnectSucceeds(i)
  <2>1. \A s \in Subscribed(Retire(Now, i)) : FinishConnecting(s) \in SUBSET Controllers
    BY <1>b, ReconnectControllerType, FinishConnectingType
  <2>2. QED  BY <1>2, <2>1, BecomeType DEF ConnectSucceeds
<1>3. ASSUME NEW status, ConnectFails(i, status)
      PROVE  TypeOK'
  <2>1. \A work : Perform(Retire(Now, i), "Fail", work) \in SUBSET Controllers
    BY <1>b, PerformType
  <2>2. QED  BY <1>3, <2>1, BecomeType DEF ConnectFails
<1>4. ASSUME NEW status \in {"Retry", "Terminal"}, ReconnectFails(i, status)
      PROVE  TypeOK'
  <2>1. \A s \in Subscribed(Retire(Now, i)) :
          FinishConnectingFailed(s, status) \in SUBSET Controllers
    BY <1>b, <1>c, ReconnectControllerType, FinishFailedType
  <2>2. QED  BY <1>4, <2>1, BecomeType DEF ReconnectFails
<1>5. CASE UpdateSucceeds(i)
  <2>1. \A s \in Subscribed(Retire(Now, i)) : FinishUpdating(s) \in SUBSET Controllers
    BY <1>b, ReconnectControllerType, FinishUpdatingType
  <2>2. QED  BY <1>5, <2>1, BecomeType DEF UpdateSucceeds
<1>6. CASE UpdateFails(i)
  <2>1. \A s \in Subscribed(Retire(Now, i)) :
          FinishUpdatingFailed(s, "Retry") \in SUBSET Controllers
    BY <1>b, <1>c, ReconnectControllerType, FinishFailedType
  <2>2. QED  BY <1>6, <2>1, BecomeType DEF UpdateFails
<1>7. CASE UpdateIsIncompatible(i)
  <2>1. [Retire(Now, i) EXCEPT !.ssrc = FALSE] \in Controllers  BY <1>b DEF Controllers
  <2>2. FinishUpdatingFailed([Retire(Now, i) EXCEPT !.ssrc = FALSE], "Incompatible")
          \in SUBSET Controllers
    BY <2>1, <1>c, FinishFailedType
  <2>3. QED  BY <1>7, <2>2, BecomeType DEF UpdateIsIncompatible
<1>8. CASE RestartStopSucceeds(i)
  <2>1. \A s \in Subscribed(Now) : RestartContinues(s, i) \in SUBSET Controllers
    BY <1>a, ReconnectControllerType, RestartContinuesType
  <2>2. QED  BY <1>8, <2>1, BecomeType DEF RestartStopSucceeds
<1>9. CASE RestartStopFails(i)
  <2>1. PICK s \in Subscribed(Now) : \E failed \in FinishUpdatingFailed(s, "Retry") :
          Become(RestartContinues(failed, i))
    BY <1>9 DEF RestartStopFails
  <2>2. PICK failed \in FinishUpdatingFailed(s, "Retry") : Become(RestartContinues(failed, i))
    BY <2>1
  <2>3. failed \in Controllers
    BY <1>a, <1>c, <2>1, <2>2, ReconnectControllerType, FinishFailedType
  <2>4. RestartContinues(failed, i) \in SUBSET Controllers
    BY <2>3, RestartContinuesType
  <2>5. QED  BY <2>2, <2>4, BecomeType
<1>10. CASE LeaveEnds(i)
  <2> DEFINE then == job[i].then
             down == FinishDisconnecting(Clean(Retire(Now, i)), then)
  <2>1. down \in SUBSET Controllers
    BY <1>b, CleanType, FinishDisconnectingType
  <2>2. CASE then = "notify"
    BY <1>10, <2>1, <2>2, BecomeType DEF LeaveEnds
  <2>3. CASE then # "notify"
    <3>1. then \in {"Retry", "Terminal"}
      <4>1. job[i] \in Jobs  BY DEF TypeOK
      <4>2. job[i].kind = "leave"  BY <1>10 DEF LeaveEnds
      <4>3. QED  BY <4>1, <4>2, <2>3 DEF Jobs
    <3>2. \A s \in Controllers : AfterFailedConnect(s, then) \in SUBSET Controllers
      BY <3>1, <1>c, AfterFailedConnectType
    <3>3. QED  BY <1>10, <2>1, <2>3, <3>2, BecomeType DEF LeaveEnds
  <2>4. QED  BY <2>2, <2>3
<1>11. QED
  BY <1>1, <1>2, <1>3, <1>4, <1>5, <1>6, <1>7, <1>8, <1>9, <1>10 DEF JobStep

\* Every field keeps its type, whatever the number of jobs and the load:
\* in particular the slot only ever holds an action with the work that belongs
\* to it (perform, deferAction).
THEOREM TypeCorrect == Spec => []TypeOK
<1>1. TypeOK /\ [Next]_vars => TypeOK'
  <2> SUFFICES ASSUME TypeOK, [Next]_vars PROVE TypeOK'
    OBVIOUS
  <2>1. CASE UNCHANGED vars
    BY <2>1 DEF vars, TypeOK
  <2>2. CASE Next
    <3>1. {"Retry", "Terminal", "ViewOnly"} \subseteq Statuses  BY DEF Statuses
    <3>2. QED  BY <2>2, <3>1, RequestType, TimeType, JobType DEF Next
  <2>3. QED  BY <2>1, <2>2
<1>2. QED  BY InitType, <1>1, PTL DEF Spec

-----------------------------------------------------------------------------
(* Waiting work and teardowns.  OneTeardown and DeferredOnlyWhileBusy are   *)
(* proved together, as they speak of any record of the controller's fields: *)
(* inside a turn the slot may be occupied in Connected, for as long as the  *)
(* turn has not come to performDeferredAction().                            *)

NoTeardown(s)   == \A i \in JobIds : s.job[i].kind # "leave"
TornDownOnce(s) == \A i \in JobIds : s.job[i].kind = "leave" =>
                     /\ s.st = "Disconnecting"
                     /\ \A k \in JobIds : s.job[k].kind = "leave" => i = k
WaitsWell(s)    == s.slot # None => s.st \in Busy
Orderly(s)      == TornDownOnce(s) /\ WaitsWell(s)

\* The work that goes with an action, in every call of perform().
Matches(action, work) ==
  \/ action = "Connect"    /\ work \in {"start", "retry"}
  \/ action = "Update"     /\ work \in {"update", "restart"}
  \/ action = "Reconnect"  /\ work = "reconnect"
  \/ action = "Disconnect" /\ work = "stop"
  \/ action = "Fail"       /\ work \in {"stop", "failedRetry", "failedTerminal"}

Teardowns == {"stop", "failedRetry", "failedTerminal"}

\* Only an action that ends a session leads to Disconnecting, none starts
\* from there, and only an update leads to Updating.
LEMMA MatchedTransitions ==
  ASSUME NEW from, NEW action, NEW work, Matches(action, work), HasTransition(from, action)
  PROVE  /\ from \in {"NotConnected", "Connecting", "Connected", "Updating"}
         /\ work \in Teardowns <=> Target(from, action) = "Disconnecting"
         /\ work = "restart" => Target(from, action) = "Updating"
         /\ action # "Connect" => from # "NotConnected"
         /\ Target(from, action) # "NotConnected"
BY DEF Matches, HasTransition, Target, Transition, Teardowns

\* The action that waits goes with its work and is accepted in Connected only.
LEMMA WaitingTransitions ==
  ASSUME NEW s \in Controllers, s.slot # None
  PROVE  /\ Matches(s.slot.action, s.slot.work)
         /\ s.slot = [action |-> s.slot.action, work |-> s.slot.work]
         /\ HasTransition(s.st, s.slot.action) => s.st = "Connected"
         /\ ~HasTransition(s.st, s.slot.action) => s.st # "Connected"
         /\ CanDefer(s.st, s.slot.action) <=> s.st \in Busy
<1>1. s.slot \in Slots \ {None}  BY DEF Controllers
<1>2. /\ s.slot.action \in {"Update", "Reconnect", "Disconnect"}
      /\ Matches(s.slot.action, s.slot.work)
      /\ s.slot = [action |-> s.slot.action, work |-> s.slot.work]
  BY <1>1 DEF Slots, Matches
<1>3. s.st \in States  BY DEF Controllers
<1>4. HasTransition(s.st, s.slot.action) <=> s.st = "Connected"
  BY <1>2, <1>3 DEF HasTransition, Target, Transition, States
<1>5. CanDefer(s.st, s.slot.action) <=> s.st \in Busy
  BY <1>2 DEF CanDefer, DeferPriority
<1>6. QED  BY <1>2, <1>4, <1>5

LEMMA NoTeardownYet ==
  ASSUME NEW s, TornDownOnce(s), s.st # "Disconnecting"
  PROVE  NoTeardown(s)
BY DEF TornDownOnce, NoTeardown

LEMMA SpawnFields ==
  ASSUME NEW s \in Controllers, NEW j \in Jobs
  PROVE  /\ Spawn(s, j).st = s.st
         /\ Spawn(s, j).slot = s.slot
         /\ NoTeardown(s) /\ j.kind # "leave" => NoTeardown(Spawn(s, j))
         /\ NoTeardown(s) /\ s.st = "Disconnecting" => TornDownOnce(Spawn(s, j))
<1> DEFINE free == CHOOSE i \in JobIds : s.job[i] = Idle
           next == [s.job EXCEPT ![free] = j]
<1>1. Spawn(s, j) = [s EXCEPT !.job = next]  BY DEF Spawn
<1>2. \A i \in JobIds : next[i] = IF i = free THEN j ELSE s.job[i]  BY DEF Controllers
<1> HIDE DEF next, free
<1>3. Spawn(s, j).st = s.st /\ Spawn(s, j).slot = s.slot /\ Spawn(s, j).job = next
  BY <1>1 DEF Controllers
<1>4. QED  BY <1>2, <1>3 DEF NoTeardown, TornDownOnce

\* None of the work functions changes the state; only a teardown starts a leave;
\* only a restart can leave something waiting.
LEMMA ConnectFields ==
  ASSUME NEW s \in Controllers, NEW reconnecting \in BOOLEAN
  PROVE  LET r == ActionConnect(s, reconnecting)
         IN  r.st = s.st /\ r.slot = s.slot /\ (NoTeardown(s) => NoTeardown(r))
<1> DEFINE fresh == IF reconnecting THEN s
                    ELSE [ResetReconnect(s) EXCEPT !.heard = "connecting"]
           begun == StartedConnectionAttempt(fresh)
           lost  == [LoseAll(begun) EXCEPT !.ssrc = FALSE]
<1>1. fresh \in Controllers
      /\ fresh.st = s.st /\ fresh.slot = s.slot /\ fresh.job = s.job
  <2>1. ResetReconnect(s) \in Controllers  BY ReconnectControllerType
  <2>2. [ResetReconnect(s) EXCEPT !.heard = "connecting"] \in Controllers
    BY <2>1 DEF Controllers, Notices
  <2>3. QED  BY <2>2 DEF ResetReconnect, Controllers
<1> HIDE DEF fresh
<1>2. begun \in Controllers
      /\ begun.st = s.st /\ begun.slot = s.slot /\ begun.job = s.job
  BY <1>1, ReconnectControllerType DEF StartedConnectionAttempt, Controllers
<1> HIDE DEF begun
<1>3. LoseAll(begun) \in Controllers  BY <1>2, LoseAllType
<1>4. lost \in Controllers /\ lost.st = s.st /\ lost.slot = s.slot
      /\ \A i \in JobIds : lost.job[i].kind = s.job[i].kind
  <2>1. \A i \in JobIds : s.job[i] \in Jobs  BY DEF Controllers
  <2>2. \A i \in JobIds : LoseAll(begun).job[i].kind = s.job[i].kind
    BY <1>2, <2>1 DEF LoseAll, Controllers, Jobs
  <2>3. LoseAll(begun).st = s.st /\ LoseAll(begun).slot = s.slot
    BY <1>2 DEF LoseAll, Controllers
  <2>4. lost \in Controllers  BY <1>3 DEF Controllers
  <2>5. QED  BY <1>3, <2>2, <2>3, <2>4 DEF Controllers
<1> HIDE DEF lost
<1>5. NewJob("opening") \in Jobs /\ NewJob("opening").kind # "leave"
  BY DEF NewJob, Jobs, Kinds
<1>6. ActionConnect(s, reconnecting) = Spawn(lost, NewJob("opening"))
  BY DEF ActionConnect, lost, begun, fresh
<1>7. NoTeardown(s) => NoTeardown(lost)  BY <1>4 DEF NoTeardown
<1>8. QED  BY <1>4, <1>5, <1>6, <1>7, SpawnFields

LEMMA ReconnectFields ==
  ASSUME NEW s \in Controllers
  PROVE  LET r == ActionReconnect(s)
         IN  r.st = s.st /\ r.slot = s.slot /\ (NoTeardown(s) => NoTeardown(r))
<1> DEFINE told  == IF s.rc.attempt = "unset" THEN [s EXCEPT !.heard = "connecting"] ELSE s
           begun == [StartedConnectionAttempt(told) EXCEPT !.ssrc = FALSE]
<1>1. told \in Controllers
      /\ told.st = s.st /\ told.slot = s.slot /\ told.job = s.job
  BY DEF Controllers, Notices
<1> HIDE DEF told
<1>2. begun \in Controllers
      /\ begun.st = s.st /\ begun.slot = s.slot /\ begun.job = s.job
  <2>1. StartedConnectionAttempt(told) \in Controllers  BY <1>1, ReconnectControllerType
  <2>2. begun \in Controllers  BY <2>1 DEF Controllers
  <2>3. QED  BY <1>1, <2>1, <2>2 DEF StartedConnectionAttempt, Controllers
<1> HIDE DEF begun
<1>3. NewJob("reopening") \in Jobs /\ NewJob("reopening").kind # "leave"
  BY DEF NewJob, Jobs, Kinds
<1>4. ActionReconnect(s) = Spawn(begun, NewJob("reopening"))
  BY DEF ActionReconnect, begun, told
<1>5. NoTeardown(s) => NoTeardown(begun)  BY <1>2 DEF NoTeardown
<1>6. QED  BY <1>2, <1>3, <1>4, <1>5, SpawnFields

StopWaiting == [action |-> "Disconnect", work |-> "stop"]

\* A stop() waits, or what ended its wait is a teardown.
StopStands(s) ==
  \/ s.slot = StopWaiting /\ s.st \in {"Connecting", "Connected", "Updating"}
  \/ s.slot = None /\ s.st = "Disconnecting"

LEMMA DeferFields ==
  ASSUME NEW s \in Controllers, NEW action, NEW work, Matches(action, work)
  PROVE  LET r == DeferAction(s, action, work)
         IN  /\ r.st = s.st /\ r.job = s.job
             /\ s.slot = StopWaiting => r.slot = StopWaiting
             /\ r.slot \in {s.slot, [action |-> action, work |-> work]}
<1>1. ASSUME s.slot = StopWaiting, ~KeepsDeferred(s.slot.action, action)
      PROVE  [action |-> action, work |-> work] = StopWaiting
  BY <1>1 DEF KeepsDeferred, DeferPriority, StopWaiting, Matches
<1>2. QED  BY <1>1 DEF DeferAction, Controllers

LEMMA RestartFields ==
  ASSUME NEW s \in Controllers
  PROVE  LET r == RestartVideo(s)
         IN  /\ r.st = s.st
             /\ NoTeardown(s) => NoTeardown(r)
             /\ s.slot = StopWaiting => r.slot = StopWaiting
<1> DEFINE stopped == [s EXCEPT !.tile = "stopped"]
           waits   == DeferAction(stopped, "Update", "update")
<1>1. stopped \in Controllers
      /\ stopped.st = s.st /\ stopped.slot = s.slot /\ stopped.job = s.job
  BY DEF Controllers, Tiles
<1> HIDE DEF stopped
<1>2. waits \in Controllers
  <2>1. [action |-> "Update", work |-> "update"] \in Slots  BY DEF Slots
  <2>2. QED  BY <1>1, <2>1, DeferType
<1>3. /\ waits.st = s.st /\ waits.job = s.job
      /\ s.slot = StopWaiting => waits.slot = StopWaiting
  <2>1. Matches("Update", "update")  BY DEF Matches
  <2>2. QED  BY <1>1, <2>1, DeferFields
<1> HIDE DEF waits
<1>4. /\ NewJob("restartStop") \in Jobs /\ NewJob("restartStart") \in Jobs
      /\ NewJob("restartStop").kind # "leave" /\ NewJob("restartStart").kind # "leave"
  BY DEF NewJob, Jobs, Kinds
<1>5. RestartVideo(s) \in {Spawn(waits, NewJob("restartStop")), Spawn(s, NewJob("restartStart"))}
  BY DEF RestartVideo, waits, stopped
<1>6. NoTeardown(s) => NoTeardown(waits)  BY <1>3 DEF NoTeardown
<1>7. QED  BY <1>2, <1>3, <1>4, <1>5, <1>6, SpawnFields

LEMMA RunFields ==
  ASSUME NEW s \in Controllers, NEW work
  PROVE  LET r == Run(s, work)
         IN  /\ r.st = s.st
             /\ NoTeardown(s) /\ work \notin Teardowns => NoTeardown(r)
             /\ NoTeardown(s) /\ s.st = "Disconnecting" => TornDownOnce(r)
             /\ work # "restart" => r.slot = s.slot
             /\ s.slot = StopWaiting => r.slot = StopWaiting
<1>1. CASE work = "start" \/ work = "retry"
  <2>1. PICK reconnecting \in BOOLEAN : Run(s, work) = ActionConnect(s, reconnecting)
    BY <1>1 DEF Run
  <2>2. QED  BY <1>1, <2>1, ConnectFields DEF NoTeardown, TornDownOnce
<1>2. CASE work = "reconnect"
  <2>1. Run(s, work) = ActionReconnect(s)  BY <1>2 DEF Run
  <2>2. QED  BY <1>2, <2>1, ReconnectFields DEF NoTeardown, TornDownOnce
<1>3. CASE work = "update"
  <2>1. Run(s, work) = Spawn(s, NewJob("update"))  BY <1>3 DEF Run
  <2>2. NewJob("update") \in Jobs /\ NewJob("update").kind # "leave"
    BY DEF NewJob, Jobs, Kinds
  <2>3. QED  BY <1>3, <2>1, <2>2, SpawnFields
<1>4. CASE work = "restart"
  <2>1. Run(s, work) = RestartVideo(s)  BY <1>4 DEF Run
  <2>2. QED  BY <1>4, <2>1, RestartFields DEF NoTeardown, TornDownOnce
<1>5. CASE work \in Teardowns
  <2>1. PICK then \in {"notify", "Retry", "Terminal"} : Run(s, work) = Spawn(s, Leave(then))
    BY <1>5 DEF Run, ActionDisconnect, Teardowns
  <2>2. Leave(then) \in Jobs  BY NewJobTypes
  <2>3. QED  BY <1>5, <2>1, <2>2, SpawnFields DEF Teardowns
<1>6. CASE work \notin Teardowns \cup {"start", "retry", "reconnect", "update", "restart"}
  <2>1. Run(s, work) = s  BY <1>6 DEF Run, Teardowns
  <2>2. QED  BY <2>1 DEF NoTeardown, TornDownOnce
<1>7. QED  BY <1>1, <1>2, <1>3, <1>4, <1>5, <1>6

LEMMA PerformDeferredOrder ==
  ASSUME NEW s \in Controllers, TornDownOnce(s)
  PROVE  LET r == PerformDeferred(s)
         IN  /\ Orderly(r)
             /\ s.slot = None => r = s
             /\ s.slot = StopWaiting /\ s.st # "NotConnected" => StopStands(r)
<1> DEFINE free  == [s EXCEPT !.slot = None]
           moved == [free EXCEPT !.st = Target(s.st, s.slot.action)]
<1>1. CASE s.slot = None
  BY <1>1 DEF PerformDeferred, Orderly, WaitsWell, StopWaiting, None
<1>2. CASE s.slot # None /\ HasTransition(s.st, s.slot.action)
  <2>1. PerformDeferred(s) = Run(moved, s.slot.work)  BY <1>2 DEF PerformDeferred
  <2>2. s.st = "Connected" /\ Matches(s.slot.action, s.slot.work)
    BY <1>2, WaitingTransitions
  <2>3. moved \in Controllers /\ moved.slot = None /\ moved.job = s.job
        /\ moved.st = Target(s.st, s.slot.action)
    <3>1. Target(s.st, s.slot.action) \in States  BY <1>2, TargetType DEF Controllers
    <3>2. free \in Controllers  BY DEF Controllers, Slots
    <3>3. QED  BY <3>1, <3>2 DEF Controllers
  <2>4. NoTeardown(moved)  BY <2>2, <2>3, NoTeardownYet DEF NoTeardown
  <2> HIDE DEF moved
  <2>5. /\ s.slot.work \in Teardowns <=> moved.st = "Disconnecting"
        /\ s.slot.work = "restart" => moved.st = "Updating"
    BY <1>2, <2>2, <2>3, MatchedTransitions
  <2>6. s.slot = StopWaiting => moved.st = "Disconnecting" /\ s.slot.work # "restart"
    BY <2>5 DEF StopWaiting, Teardowns
  <2>7. TornDownOnce(Run(moved, s.slot.work))
    BY <2>3, <2>4, <2>5, RunFields DEF NoTeardown, TornDownOnce
  <2>8. WaitsWell(Run(moved, s.slot.work))
    BY <2>3, <2>5, RunFields DEF WaitsWell, Busy
  <2>9. s.slot = StopWaiting => StopStands(Run(moved, s.slot.work))
    BY <2>3, <2>6, RunFields DEF StopStands
  <2>10. QED  BY <1>2, <2>1, <2>7, <2>8, <2>9 DEF Orderly
<1>3. CASE s.slot # None /\ ~HasTransition(s.st, s.slot.action)
  <2>1. s.st # "Connected" /\ (CanDefer(s.st, s.slot.action) <=> s.st \in Busy)
        /\ s.slot = [action |-> s.slot.action, work |-> s.slot.work]
    BY <1>3, WaitingTransitions
  <2>2. free.slot = None /\ free.st = s.st /\ free.job = s.job  BY DEF Controllers
  <2>3. CASE s.st \in Busy
    <3>1. DeferAction(free, s.slot.action, s.slot.work) = s
      BY <2>1, <2>2 DEF DeferAction, KeepsDeferred, None, Controllers
    <3>2. PerformDeferred(s) = s  BY <1>3, <2>1, <2>3, <3>1 DEF PerformDeferred
    <3>3. QED  BY <1>3, <2>3, <3>2 DEF Orderly, WaitsWell, StopStands, Busy
  <2>4. CASE s.st \notin Busy
    <3>1. PerformDeferred(s) = free  BY <1>3, <2>1, <2>4 DEF PerformDeferred
    <3>2. s.st \in {"NotConnected", "Disconnecting"}
      BY <2>1, <2>4 DEF Controllers, States, Busy
    <3> HIDE DEF free
    <3>3. QED
      BY <1>3, <2>2, <3>1, <3>2 DEF Orderly, WaitsWell, TornDownOnce, StopStands
  <2>5. QED  BY <2>3, <2>4
<1>4. QED  BY <1>1, <1>2, <1>3

LEMMA PerformOrder ==
  ASSUME NEW s \in Controllers, TornDownOnce(s),
         NEW action, NEW work, Matches(action, work),
         WaitsWell(s) \/ HasTransition(s.st, action),
         NEW r \in Perform(s, action, work)
  PROVE  Orderly(r) /\ (StopStands(s) => StopStands(r))
<1>1. CASE HasTransition(s.st, action)
  <2> DEFINE moved == [s EXCEPT !.st = Target(s.st, action)]
             ran   == Run(moved, work)
  <2>1. r = PerformDeferred(ran)  BY <1>1 DEF Perform
  <2>2. moved \in Controllers /\ moved.slot = s.slot /\ moved.job = s.job
        /\ moved.st = Target(s.st, action)
    BY <1>1, MoveType DEF Controllers
  <2>3. /\ s.st # "Disconnecting" /\ moved.st # "NotConnected"
        /\ work \in Teardowns <=> moved.st = "Disconnecting"
    BY <1>1, <2>2, MatchedTransitions
  <2>4. NoTeardown(moved)  BY <2>2, <2>3, NoTeardownYet DEF NoTeardown
  <2> HIDE DEF moved
  <2>5. ran \in Controllers /\ ran.st = moved.st /\ TornDownOnce(ran)
        /\ (s.slot = StopWaiting => ran.slot = StopWaiting)
    BY <2>2, <2>3, <2>4, RunType, RunFields DEF NoTeardown, TornDownOnce
  <2> HIDE DEF ran
  <2>6. Orderly(r)  BY <2>1, <2>5, PerformDeferredOrder
  <2>7. StopStands(s) => StopStands(r)
    BY <2>1, <2>3, <2>5, PerformDeferredOrder DEF StopStands
  <2>8. QED  BY <2>6, <2>7
<1>2. CASE ~HasTransition(s.st, action) /\ CanDefer(s.st, action)
  <2>1. r = DeferAction(s, action, work)  BY <1>2 DEF Perform
  <2>2. s.st \in Busy  BY <1>2, DeferrableActions
  <2>3. /\ r.st = s.st /\ r.job = s.job
        /\ s.slot = StopWaiting => r.slot = StopWaiting
    BY <2>1, DeferFields
  <2>4. QED  BY <2>2, <2>3 DEF Orderly, WaitsWell, TornDownOnce, StopStands, Busy
<1>3. CASE ~HasTransition(s.st, action) /\ ~CanDefer(s.st, action)
  BY <1>3 DEF Perform, Orderly
<1>4. QED  BY <1>1, <1>2, <1>3

\* What an operator that leaves the state, the slot and the leaves alone keeps.
SameOrder(s, r) ==
  /\ r.st = s.st /\ r.slot = s.slot
  /\ \A i \in JobIds : r.job[i].kind = "leave" => s.job[i].kind = "leave"

LEMMA SameOrderKeeps ==
  ASSUME NEW s, NEW r, SameOrder(s, r)
  PROVE  /\ TornDownOnce(s) => TornDownOnce(r)
         /\ WaitsWell(s) => WaitsWell(r)
         /\ StopStands(s) => StopStands(r)
BY DEF SameOrder, TornDownOnce, WaitsWell, StopStands

LEMMA ReconnectControllerOrder ==
  ASSUME NEW s \in Controllers
  PROVE  /\ SameOrder(s, ResetReconnect(s))
         /\ SameOrder(s, DisableReconnect(s))
         /\ SameOrder(s, RetryWithBackoff(s))
         /\ \A q \in Subscribed(s) : SameOrder(s, q)
         /\ SameOrder(s, [s EXCEPT !.tile = "none"])
<1>1. SameOrder(s, ResetReconnect(s))  BY DEF SameOrder, ResetReconnect, Controllers
<1>2. SameOrder(s, DisableReconnect(s))  BY DEF SameOrder, DisableReconnect, Controllers
<1>3. SameOrder(s, RetryWithBackoff(s))
  <2> DEFINE left == IF s.timer THEN s.orphans + 1 ELSE s.orphans
  <2> HIDE DEF left
  <2>1. SameOrder(s, [s EXCEPT !.timer = TRUE, !.orphans = left])
    BY DEF SameOrder, Controllers
  <2>2. QED  BY <2>1 DEF RetryWithBackoff, left
<1>4. \A q \in Subscribed(s) : SameOrder(s, q)  BY DEF SameOrder, Subscribed, Controllers
<1>5. SameOrder(s, [s EXCEPT !.tile = "none"])  BY DEF SameOrder, Controllers
<1>6. QED  BY <1>1, <1>2, <1>3, <1>4, <1>5

LEMMA StatusOrder ==
  ASSUME NEW s \in Controllers, TornDownOnce(s), WaitsWell(s) \/ s.st = "Connected",
         NEW status \in Statuses, NEW r \in HandleMeetingSessionStatus(s, status)
  PROVE  /\ TornDownOnce(r)
         /\ WaitsWell(s) => WaitsWell(r)
         /\ StopStands(s) => StopStands(r)
<1>1. ASSUME NEW c \in Controllers, SameOrder(s, c), NEW q \in Reconnect(c)
      PROVE  /\ TornDownOnce(q)
             /\ WaitsWell(s) => WaitsWell(q)
             /\ StopStands(s) => StopStands(q)
  <2>1. TornDownOnce(c) /\ (WaitsWell(s) => WaitsWell(c)) /\ (StopStands(s) => StopStands(c))
    BY <1>1, SameOrderKeeps
  <2>2. CASE q = RetryWithBackoff(c)
    BY <2>1, <2>2, ReconnectControllerOrder, SameOrderKeeps
  <2>3. CASE q \in Perform(c, "Fail", "stop")
    <3>1. Matches("Fail", "stop")  BY DEF Matches
    <3>2. WaitsWell(c) \/ HasTransition(c.st, "Fail")
      BY <1>1, <2>1 DEF SameOrder, HasTransition, Target, Transition
    <3>3. QED  BY <2>1, <2>3, <3>1, <3>2, PerformOrder DEF Orderly
  <2>4. QED  BY <1>1, <2>2, <2>3 DEF Reconnect
<1>2. CASE status = "Incompatible"
  <2>1. r \in Perform(s, "Update", "restart")
    BY <1>2 DEF HandleMeetingSessionStatus
  <2>2. Matches("Update", "restart")  BY DEF Matches
  <2>3. WaitsWell(s) \/ HasTransition(s.st, "Update")
    BY DEF HasTransition, Target, Transition
  <2>4. QED  BY <2>1, <2>2, <2>3, PerformOrder DEF Orderly
<1>3. CASE status = "ViewOnly"
  <2>1. r = [s EXCEPT !.tile = "none"]  BY <1>3 DEF HandleMeetingSessionStatus
  <2>2. QED  BY <2>1, ReconnectControllerOrder, SameOrderKeeps
<1>4. CASE status = "Terminal"
  <2>1. r \in Reconnect(DisableReconnect(s))  BY <1>4 DEF HandleMeetingSessionStatus
  <2>2. QED  BY <1>1, <2>1, ReconnectControllerType, ReconnectControllerOrder
<1>5. CASE status = "Retry"
  <2>1. r \in Reconnect(s)  BY <1>5 DEF HandleMeetingSessionStatus
  <2>2. QED  BY <1>1, <2>1 DEF SameOrder
<1>6. QED  BY <1>2, <1>3, <1>4, <1>5 DEF Statuses

\* The ends of a connection or of an update: Connected, then what waits.
LEMMA FinishOrder ==
  ASSUME NEW s \in Controllers, Orderly(s),
         NEW r, \/ r \in FinishConnecting(s)
                \/ r \in FinishUpdating(s)
                \/ \E status \in Statuses : \/ r \in FinishConnectingFailed(s, status)
                                            \/ r \in FinishUpdatingFailed(s, status)
  PROVE  Orderly(r) /\ (StopStands(s) => StopStands(r))
<1> DEFINE Ends(action) == HasTransition(s.st, action) /\ action \in {"FinishConnecting", "FinishUpdating"}
           moved(action) == [s EXCEPT !.st = Target(s.st, action)]
<1>1. ASSUME NEW action, Ends(action)
      PROVE  /\ moved(action) \in Controllers
             /\ moved(action).st = "Connected"
             /\ TornDownOnce(moved(action))
             /\ StopStands(s) => StopStands(moved(action))
  <2>1. s.st \in Busy /\ Target(s.st, action) = "Connected"
    BY <1>1 DEF HasTransition, Target, Transition, Busy
  <2>2. moved(action) \in Controllers /\ moved(action).slot = s.slot
        /\ moved(action).job = s.job /\ moved(action).st = "Connected"
    BY <1>1, <2>1, MoveType DEF Controllers
  <2>3. NoTeardown(s)  BY <2>1, NoTeardownYet DEF Orderly, Busy
  <2> HIDE DEF moved
  <2>4. QED  BY <2>1, <2>2, <2>3 DEF NoTeardown, TornDownOnce, StopStands, Busy
<1>2. ASSUME NEW m \in Controllers, TornDownOnce(m), StopStands(s) => StopStands(m),
             r = PerformDeferred(m)
      PROVE  Orderly(r) /\ (StopStands(s) => StopStands(r))
  BY <1>2, PerformDeferredOrder DEF StopStands, StopWaiting, None
<1>3. CASE r \in FinishConnecting(s) /\ HasTransition(s.st, "FinishConnecting")
  <2> DEFINE told == [s EXCEPT !.st = Target(s.st, "FinishConnecting"), !.heard = "started"]
  <2>1. /\ moved("FinishConnecting") \in Controllers /\ TornDownOnce(moved("FinishConnecting"))
        /\ StopStands(s) => StopStands(moved("FinishConnecting"))
    BY <1>1, <1>3
  <2>2. told = [moved("FinishConnecting") EXCEPT !.heard = "started"]
    BY DEF Controllers
  <2>3. told \in Controllers /\ SameOrder(moved("FinishConnecting"), told)
    <3> HIDE DEF moved, told
    <3>1. QED  BY <2>1, <2>2 DEF Controllers, Notices, SameOrder
  <2>4. r = PerformDeferred(ResetReconnect(told))  BY <1>3 DEF FinishConnecting
  <2> HIDE DEF told, moved
  <2>5. ResetReconnect(told) \in Controllers /\ SameOrder(told, ResetReconnect(told))
    BY <2>3, ReconnectControllerType, ReconnectControllerOrder
  <2>6. TornDownOnce(ResetReconnect(told)) /\ (StopStands(s) => StopStands(ResetReconnect(told)))
    BY <2>1, <2>3, <2>5, SameOrderKeeps
  <2>7. QED  BY <1>2, <2>4, <2>5, <2>6
<1>4. CASE r \in FinishUpdating(s) /\ HasTransition(s.st, "FinishUpdating")
  <2>1. r = PerformDeferred(moved("FinishUpdating"))  BY <1>4 DEF FinishUpdating
  <2>2. Ends("FinishUpdating")  BY <1>4
  <2> HIDE DEF moved
  <2>3. QED  BY <1>1, <1>2, <2>1, <2>2
<1>5. ASSUME NEW status \in Statuses, NEW action, Ends(action),
             r \in {PerformDeferred(q) : q \in HandleMeetingSessionStatus(moved(action), status)}
      PROVE  Orderly(r) /\ (StopStands(s) => StopStands(r))
  <2> HIDE DEF moved
  <2>1. PICK q \in HandleMeetingSessionStatus(moved(action), status) : r = PerformDeferred(q)
    BY <1>5
  <2>2. q \in Controllers  BY <1>1, <1>5, StatusType
  <2>3. TornDownOnce(q) /\ (StopStands(s) => StopStands(q))
    BY <1>1, <1>5, StatusOrder
  <2>4. QED  BY <1>2, <2>1, <2>2, <2>3
<1>6. ASSUME NEW status \in Statuses,
             \/ r \in FinishConnectingFailed(s, status)
             \/ r \in FinishUpdatingFailed(s, status)
      PROVE  Orderly(r) /\ (StopStands(s) => StopStands(r))
  <2>1. CASE r = s
    BY <2>1
  <2>2. CASE r # s
    <3>1. PICK action : Ends(action) /\
             r \in {PerformDeferred(q) : q \in HandleMeetingSessionStatus(moved(action), status)}
      BY <1>6, <2>2 DEF FinishConnectingFailed, FinishUpdatingFailed
    <3>2. QED  BY <1>5, <3>1
  <2>3. QED  BY <2>1, <2>2
<1>7. CASE r = s
  BY <1>7
<1>8. QED  BY <1>3, <1>4, <1>6, <1>7 DEF FinishConnecting, FinishUpdating

LEMMA RestartContinuesOrder ==
  ASSUME NEW s \in Controllers, Orderly(s), NEW i \in JobIds,
         NEW r \in RestartContinues(s, i)
  PROVE  Orderly(r) /\ (StopStands(s) => StopStands(r))
<1> DEFINE begun == [s EXCEPT !.tile = "started"]
           next  == [NewJob("restartStart") EXCEPT !.lost = s.st = "NotConnected"]
<1>1. begun \in Controllers /\ SameOrder(s, begun)  BY DEF Controllers, Tiles, SameOrder
<1>2. [action |-> "Update", work |-> "update"] \in Slots /\ Matches("Update", "update")
  BY DEF Slots, Matches
<1>3. next.kind # "leave"  BY DEF NewJob
<1>4. PICK q \in Perform(begun, "Update", "update") : r = [q EXCEPT !.job[i] = next]
  BY DEF RestartContinues
<1> HIDE DEF begun, next
<1>5. q \in Controllers  BY <1>1, <1>2, <1>4, PerformType
<1>6. Orderly(q) /\ (StopStands(s) => StopStands(q))
  BY <1>1, <1>2, <1>4, SameOrderKeeps, PerformOrder DEF Orderly
<1>7. SameOrder(q, r)  BY <1>3, <1>4, <1>5 DEF SameOrder, Controllers
<1>8. QED  BY <1>6, <1>7, SameOrderKeeps DEF Orderly

-----------------------------------------------------------------------------
(* The turns.                                                               *)

OrderInv == TypeOK /\ OneTeardown /\ DeferredOnlyWhileBusy

LEMMA NowOrder ==
  ASSUME OrderInv
  PROVE  /\ Now \in Controllers
         /\ Orderly(Now)
         /\ Now.st = st /\ Now.slot = slot /\ Now.job = job
BY NowType DEF OrderInv, OneTeardown, DeferredOnlyWhileBusy, Orderly, TornDownOnce, WaitsWell, Now

\* What is to be kept by every turn.
Kept ==
  /\ OneTeardown'
  /\ DeferredOnlyWhileBusy'
  /\ slot.action = "Disconnect" /\ slot' # slot => slot' = None /\ st' = "Disconnecting"

LEMMA BecomeKept ==
  ASSUME OrderInv, NEW turn, Become(turn),
         \A r \in turn : Orderly(r) /\ (Now.slot = StopWaiting /\ StopStands(Now) => StopStands(r))
  PROVE  Kept
<1>1. PICK r \in turn : st' = r.st /\ slot' = r.slot /\ job' = r.job  BY DEF Become
<1>2. OneTeardown' /\ DeferredOnlyWhileBusy'
  BY <1>1 DEF OneTeardown, DeferredOnlyWhileBusy, Orderly, TornDownOnce, WaitsWell
<1>3. ASSUME slot.action = "Disconnect", slot' # slot
      PROVE  slot' = None /\ st' = "Disconnecting"
  <2>1. slot = StopWaiting  BY <1>3 DEF OrderInv, TypeOK, Slots, StopWaiting, None
  <2>2. st \in Busy
    BY <2>1 DEF OrderInv, DeferredOnlyWhileBusy, StopWaiting, None
  <2>3. Now.slot = StopWaiting /\ StopStands(Now)
    BY <2>1, <2>2, NowOrder DEF StopStands, Busy
  <2>4. StopStands(r)  BY <2>3
  <2>5. QED  BY <1>1, <1>3, <2>1, <2>4 DEF StopStands
<1>4. QED  BY <1>2, <1>3 DEF Kept

\* A turn that keeps the state, the slot and the leaves.
LEMMA SameKept ==
  ASSUME OrderInv, st' = st, slot' = slot,
         \A i \in JobIds : job'[i].kind = "leave" => job[i].kind = "leave"
  PROVE  Kept
BY DEF OrderInv, Kept, OneTeardown, DeferredOnlyWhileBusy

\* A turn that is one call of perform() on a record like the present one.
LEMMA PerformKept ==
  ASSUME OrderInv, NEW s \in Controllers, SameOrder(Now, s),
         NEW action, NEW work, Matches(action, work), Become(Perform(s, action, work))
  PROVE  Kept
<1>1. Orderly(s) /\ (StopStands(Now) => StopStands(s))
  BY NowOrder, SameOrderKeeps DEF Orderly
<1>2. \A r \in Perform(s, action, work) : Orderly(r) /\ (StopStands(s) => StopStands(r))
  BY <1>1, PerformOrder DEF Orderly
<1>3. QED  BY <1>1, <1>2, BecomeKept

LEMMA RequestKept ==
  ASSUME OrderInv,
         \/ Start \/ Stop \/ StartLocalVideo \/ StopLocalVideo \/ RestartLocalVideo
         \/ \E status \in Statuses : MonitorStatus(status)
         \/ MonitorUpdate \/ MonitorActive
  PROVE  Kept
<1>a. Now \in Controllers /\ Orderly(Now) /\ SameOrder(Now, Now)
  BY NowOrder DEF SameOrder
<1>b. /\ Matches("Connect", "start") /\ Matches("Disconnect", "stop")
      /\ Matches("Update", "update") /\ Matches("Update", "restart")
  BY DEF Matches
<1>c. \A t \in Tiles : [Now EXCEPT !.tile = t] \in Controllers
                       /\ SameOrder(Now, [Now EXCEPT !.tile = t])
  BY <1>a DEF Controllers, SameOrder
<1>1. CASE Start              BY <1>1, <1>a, <1>b, PerformKept DEF Start
<1>2. CASE Stop               BY <1>2, <1>a, <1>b, PerformKept DEF Stop
<1>3. CASE StartLocalVideo
  <2>1. "started" \in Tiles  BY DEF Tiles
  <2>2. QED  BY <1>3, <1>b, <1>c, <2>1, PerformKept DEF StartLocalVideo
<1>4. CASE StopLocalVideo
  <2>1. "stopped" \in Tiles  BY DEF Tiles
  <2>2. QED  BY <1>4, <1>b, <1>c, <2>1, PerformKept DEF StopLocalVideo
<1>5. CASE RestartLocalVideo  BY <1>5, <1>a, <1>b, PerformKept DEF RestartLocalVideo
<1>6. ASSUME NEW status \in Statuses, MonitorStatus(status)
      PROVE  Kept
  <2>1. \A r \in HandleMeetingSessionStatus(Now, status) :
          Orderly(r) /\ (StopStands(Now) => StopStands(r))
    BY <1>a, StatusOrder DEF Orderly
  <2>2. QED  BY <1>6, <2>1, BecomeKept DEF MonitorStatus
<1>7. CASE MonitorUpdate      BY <1>7, <1>a, <1>b, PerformKept DEF MonitorUpdate
<1>8. CASE MonitorActive
  <2>1. SameOrder(Now, [Now EXCEPT !.rc.active = "within"])
    BY <1>a DEF SameOrder, Controllers
  <2>2. \A r \in {[Now EXCEPT !.rc.active = "within"]} :
          Orderly(r) /\ (StopStands(Now) => StopStands(r))
    BY <1>a, <2>1, SameOrderKeeps DEF Orderly
  <2>3. QED  BY <1>8, <2>2, BecomeKept DEF MonitorActive
<1>9. QED  BY <1>1, <1>2, <1>3, <1>4, <1>5, <1>6, <1>7, <1>8

LEMMA TimeKept ==
  ASSUME OrderInv, TimerFires \/ OrphanFires \/ AttemptAges \/ ActivityAges
  PROVE  Kept
<1>a. Now \in Controllers  BY NowOrder
<1>b. ASSUME NEW s \in Controllers, SameOrder(Now, s), Become(Retry(s))
      PROVE  Kept
  <2>1. Matches("Connect", "retry") /\ Matches("Reconnect", "reconnect")  BY DEF Matches
  <2>2. QED  BY <1>b, <2>1, PerformKept DEF Retry
<1>1. CASE TimerFires
  <2>1. [Now EXCEPT !.timer = FALSE] \in Controllers
        /\ SameOrder(Now, [Now EXCEPT !.timer = FALSE])
    BY <1>a DEF Controllers, SameOrder
  <2>2. QED  BY <1>1, <1>b, <2>1 DEF TimerFires
<1>2. CASE OrphanFires
  <2>1. Now.orphans - 1 \in Nat
    <3>1. orphans > 0  BY <1>2 DEF OrphanFires
    <3>2. orphans \in Nat /\ Now.orphans = orphans  BY DEF OrderInv, TypeOK, Now
    <3>3. QED  BY <3>1, <3>2
  <2>2. [Now EXCEPT !.orphans = Now.orphans - 1] \in Controllers
        /\ SameOrder(Now, [Now EXCEPT !.orphans = Now.orphans - 1])
    BY <1>a, <2>1 DEF Controllers, SameOrder
  <2>3. QED  BY <1>2, <1>b, <2>2 DEF OrphanFires
<1>3. CASE AttemptAges   BY <1>3, SameKept DEF AttemptAges
<1>4. CASE ActivityAges  BY <1>4, SameKept DEF ActivityAges
<1>5. QED  BY <1>1, <1>2, <1>3, <1>4

\* The end of a teardown: the only leave is retired, nothing waits, and the
\* session is NotConnected before the failure is looked at.
LEMMA LeaveKept ==
  ASSUME OrderInv, NEW i \in JobIds, LeaveEnds(i)
  PROVE  Kept
<1> DEFINE then  == job[i].then
           clean == Clean(Retire(Now, i))
           down  == FinishDisconnecting(clean, then)
<1>1. /\ Now \in Controllers /\ Now.slot = None
      /\ st = "Disconnecting"
      /\ \A k \in JobIds : job[k].kind = "leave" => k = i
  BY NowOrder DEF LeaveEnds, OrderInv, OneTeardown, DeferredOnlyWhileBusy, Busy
<1>2. /\ Retire(Now, i) \in Controllers
      /\ Retire(Now, i).slot = None /\ Retire(Now, i).st = "Disconnecting"
      /\ NoTeardown(Retire(Now, i))
  <2>1. \A k \in JobIds : Retire(Now, i).job[k] = IF k = i THEN Idle ELSE job[k]
    BY <1>1, NowOrder DEF Retire, Controllers
  <2>2. QED
    BY <1>1, <2>1, RetireType, NowOrder DEF Retire, Controllers, NoTeardown, Idle
<1>3. /\ clean \in Controllers
      /\ clean.slot = None /\ clean.st = "Disconnecting" /\ NoTeardown(clean)
  <2>1. \A k \in JobIds : Retire(Now, i).job[k] \in Jobs  BY <1>2 DEF Controllers
  <2>2. \A k \in JobIds : clean.job[k].kind = Retire(Now, i).job[k].kind
    BY <1>2, <2>1 DEF Clean, Jobs
  <2>3. clean.slot = Retire(Now, i).slot /\ clean.st = Retire(Now, i).st
    BY <1>2 DEF Clean, Controllers
  <2>4. QED  BY <1>2, <2>2, <2>3, CleanType DEF NoTeardown
<1> HIDE DEF clean
<1>4. down \in SUBSET Controllers  BY <1>3, FinishDisconnectingType
<1>5. ASSUME NEW s \in down
      PROVE  Orderly(s)
  <2> DEFINE told  == IF then = "notify" THEN "stopped" ELSE clean.heard
             moved == [clean EXCEPT !.st = Target(clean.st, "FinishDisconnecting"), !.heard = told]
  <2>1. HasTransition(clean.st, "FinishDisconnecting")
        /\ Target(clean.st, "FinishDisconnecting") = "NotConnected"
    BY <1>3 DEF HasTransition, Target, Transition
  <2>2. s = PerformDeferred(moved)  BY <1>5, <2>1 DEF FinishDisconnecting
  <2>3. moved \in Controllers /\ moved.slot = None /\ NoTeardown(moved)
    <3>1. [clean EXCEPT !.st = Target(clean.st, "FinishDisconnecting")] \in Controllers
      BY <1>3, <2>1, MoveType
    <3>2. told \in Notices  BY <1>3 DEF Notices, Controllers
    <3> HIDE DEF told
    <3>3. moved \in Controllers  BY <3>1, <3>2 DEF Controllers
    <3>4. QED  BY <1>3, <3>3 DEF Controllers, NoTeardown
  <2> HIDE DEF moved
  <2>4. TornDownOnce(moved)  BY <2>3 DEF NoTeardown, TornDownOnce
  <2>5. QED  BY <2>2, <2>3, <2>4, PerformDeferredOrder
<1>6. Now.slot # StopWaiting  BY <1>1 DEF None, StopWaiting
<1>7. CASE then = "notify"
  <2>1. Become(down)  BY <1>7 DEF LeaveEnds, clean
  <2>2. QED  BY <1>5, <1>6, <2>1, BecomeKept
<1>8. CASE then # "notify"
  <2> DEFINE ended == UNION {AfterFailedConnect(s, then) : s \in down}
  <2>1. Become(ended)  BY <1>8 DEF LeaveEnds, clean
  <2>2. then \in {"Retry", "Terminal"}
    <3>1. job[i] \in Jobs  BY DEF OrderInv, TypeOK
    <3>2. job[i].kind = "leave"  BY DEF LeaveEnds
    <3>3. QED  BY <3>1, <3>2, <1>8 DEF Jobs
  <2>3. ASSUME NEW s \in down, NEW r \in AfterFailedConnect(s, then)
        PROVE  Orderly(r)
    <3>1. s \in Controllers /\ Orderly(s) /\ then \in Statuses
      BY <1>4, <1>5, <2>2 DEF Statuses
    <3>2. PICK q \in HandleMeetingSessionStatus(s, then) : r \in {q, [q EXCEPT !.heard = "stopped"]}
      BY DEF AfterFailedConnect
    <3>3. q \in Controllers  BY <3>1, StatusType
    <3>4. Orderly(q)  BY <3>1, StatusOrder DEF Orderly
    <3>5. SameOrder(q, r)  BY <3>2, <3>3 DEF SameOrder, Controllers
    <3>6. QED  BY <3>4, <3>5, SameOrderKeeps DEF Orderly
  <2>4. \A r \in ended : Orderly(r)  BY <2>3
  <2> HIDE DEF ended
  <2>5. QED  BY <1>6, <2>1, <2>4, BecomeKept
<1>9. QED  BY <1>7, <1>8

LEMMA JobKept ==
  ASSUME OrderInv, NEW i \in JobIds, JobStep(i)
  PROVE  Kept
<1> DEFINE retired == Retire(Now, i)
<1>a. Now \in Controllers /\ Orderly(Now)  BY NowOrder
<1>b. retired \in Controllers /\ SameOrder(Now, retired)
  <2>1. \A k \in JobIds : retired.job[k] = IF k = i THEN Idle ELSE Now.job[k]
    BY <1>a DEF Retire, Controllers
  <2>2. QED  BY <1>a, <2>1, RetireType DEF Retire, SameOrder, Controllers, Idle
<1>c. Orderly(retired) /\ (StopStands(Now) => StopStands(retired))
  BY <1>a, <1>b, SameOrderKeeps DEF Orderly
<1>d. \A s \in Subscribed(retired) :
        s \in Controllers /\ Orderly(s) /\ (StopStands(Now) => StopStands(s))
  BY <1>b, <1>c, ReconnectControllerType, ReconnectControllerOrder, SameOrderKeeps DEF Orderly
<1>e. {"Retry", "Terminal", "Incompatible"} \subseteq Statuses  BY DEF Statuses
<1>1. CASE SocketOpens(i)
  <2>1. \A k \in JobIds : job'[k].kind = "leave" => job[k].kind = "leave"
    BY <1>1 DEF SocketOpens, OrderInv, TypeOK
  <2>2. QED  BY <1>1, <2>1, SameKept DEF SocketOpens
<1>2. CASE ConnectSucceeds(i)
  <2>1. ASSUME NEW s \in Subscribed(retired), NEW r \in FinishConnecting(s)
        PROVE  Orderly(r) /\ (StopStands(Now) => StopStands(r))
    BY <1>d, FinishOrder
  <2>2. QED  BY <1>2, <2>1, BecomeKept DEF ConnectSucceeds
<1>3. ASSUME NEW status, ConnectFails(i, status)
      PROVE  Kept
  <2>1. Matches("Fail", "failedRetry") /\ Matches("Fail", "failedTerminal")  BY DEF Matches
  <2>2. QED  BY <1>3, <1>b, <2>1, PerformKept DEF ConnectFails
<1>4. ASSUME NEW status \in {"Retry", "Terminal"}, ReconnectFails(i, status)
      PROVE  Kept
  <2>1. ASSUME NEW s \in Subscribed(retired), NEW r \in FinishConnectingFailed(s, status)
        PROVE  Orderly(r) /\ (StopStands(Now) => StopStands(r))
    BY <1>d, <1>e, FinishOrder
  <2>2. QED  BY <1>4, <2>1, BecomeKept DEF ReconnectFails
<1>5. CASE UpdateSucceeds(i)
  <2>1. ASSUME NEW s \in Subscribed(retired), NEW r \in FinishUpdating(s)
        PROVE  Orderly(r) /\ (StopStands(Now) => StopStands(r))
    BY <1>d, FinishOrder
  <2>2. QED  BY <1>5, <2>1, BecomeKept DEF UpdateSucceeds
<1>6. CASE UpdateFails(i)
  <2>1. ASSUME NEW s \in Subscribed(retired), NEW r \in FinishUpdatingFailed(s, "Retry")
        PROVE  Orderly(r) /\ (StopStands(Now) => StopStands(r))
    BY <1>d, <1>e, FinishOrder
  <2>2. QED  BY <1>6, <2>1, BecomeKept DEF UpdateFails
<1>7. CASE UpdateIsIncompatible(i)
  <2> DEFINE other == [retired EXCEPT !.ssrc = FALSE]
  <2>1. other \in Controllers /\ SameOrder(retired, other)
    <3> HIDE DEF retired
    <3>1. QED  BY <1>b DEF Controllers, SameOrder
  <2>2. Become(FinishUpdatingFailed(other, "Incompatible"))
    BY <1>7 DEF UpdateIsIncompatible
  <2> HIDE DEF other, retired
  <2>3. \A r \in FinishUpdatingFailed(other, "Incompatible") :
          Orderly(r) /\ (StopStands(Now) => StopStands(r))
    BY <1>c, <1>e, <2>1, SameOrderKeeps, FinishOrder DEF Orderly
  <2>4. QED  BY <2>2, <2>3, BecomeKept
<1>8. CASE RestartStopSucceeds(i)
  <2>1. \A s \in Subscribed(Now) :
          s \in Controllers /\ Orderly(s) /\ (StopStands(Now) => StopStands(s))
    BY <1>a, ReconnectControllerType, ReconnectControllerOrder, SameOrderKeeps DEF Orderly
  <2>2. ASSUME NEW s \in Subscribed(Now), NEW r \in RestartContinues(s, i)
        PROVE  Orderly(r) /\ (StopStands(Now) => StopStands(r))
    BY <2>1, RestartContinuesOrder
  <2>3. QED  BY <1>8, <2>2, BecomeKept DEF RestartStopSucceeds
<1>9. CASE RestartStopFails(i)
  <2>1. PICK s \in Subscribed(Now) : \E failed \in FinishUpdatingFailed(s, "Retry") :
          Become(RestartContinues(failed, i))
    BY <1>9 DEF RestartStopFails
  <2>2. PICK failed \in FinishUpdatingFailed(s, "Retry") : Become(RestartContinues(failed, i))
    BY <2>1
  <2>3. s \in Controllers /\ Orderly(s) /\ (StopStands(Now) => StopStands(s))
    BY <1>a, <2>1, ReconnectControllerType, ReconnectControllerOrder, SameOrderKeeps DEF Orderly
  <2>4. failed \in Controllers /\ Orderly(failed) /\ (StopStands(Now) => StopStands(failed))
    BY <1>e, <2>2, <2>3, FinishFailedType, FinishOrder
  <2>5. ASSUME NEW r \in RestartContinues(failed, i)
        PROVE  Orderly(r) /\ (StopStands(Now) => StopStands(r))
    BY <2>4, RestartContinuesOrder
  <2>6. QED  BY <2>2, <2>5, BecomeKept
<1>10. CASE LeaveEnds(i)
  BY <1>10, LeaveKept
<1>11. QED
  BY <1>1, <1>2, <1>3, <1>4, <1>5, <1>6, <1>7, <1>8, <1>9, <1>10 DEF JobStep

-----------------------------------------------------------------------------
(* The theorems.                                                            *)

LEMMA StepKept == OrderInv /\ Next => Kept
<1>1. {"Retry", "Terminal", "ViewOnly"} \subseteq Statuses  BY DEF Statuses
<1>2. QED  BY <1>1, RequestKept, TimeKept, JobKept DEF Next

\* The inductive invariant.
LEMMA OrderInvariant == Spec => []OrderInv
<1>1. Init => OneTeardown /\ DeferredOnlyWhileBusy
  BY DEF Init, OneTeardown, DeferredOnlyWhileBusy, Idle
<1>2. OrderInv /\ TypeOK' /\ [Next]_vars => OrderInv'
  <2> SUFFICES ASSUME OrderInv, TypeOK', [Next]_vars PROVE OrderInv'
    OBVIOUS
  <2>1. CASE UNCHANGED vars
    BY <2>1, SameKept DEF vars, OrderInv, Kept
  <2>2. CASE Next
    BY <2>2, StepKept DEF OrderInv, Kept
  <2>3. QED  BY <2>1, <2>2
<1>3. TypeOK /\ OneTeardown /\ DeferredOnlyWhileBusy => OrderInv  BY DEF OrderInv
<1>4. Spec => []TypeOK  BY TypeCorrect
<1>5. QED  BY <1>1, <1>2, <1>3, <1>4, InitType, PTL DEF Spec

\* A session is torn down once: there are never two teardowns, and one runs in
\* Disconnecting only (actionDisconnect).
THEOREM TeardownIsUnique == Spec => []OneTeardown
<1>1. OrderInv => OneTeardown  BY DEF OrderInv
<1>2. QED  BY <1>1, OrderInvariant, PTL

\* Nothing is left waiting in a state whose entry does not look at it (perform).
THEOREM WaitingIsLookedAt == Spec => []DeferredOnlyWhileBusy
<1>1. OrderInv => DeferredOnlyWhileBusy  BY DEF OrderInv
<1>2. QED  BY <1>1, OrderInvariant, PTL

\* A stop() that waits is displaced by no other request (deferAction).
THEOREM StopIsNotDisplaced == Spec => StopOutranks
<1>1. OrderInv /\ [Next]_vars =>
        [slot.action = "Disconnect" /\ slot' # slot =>
           slot' = None /\ st' = "Disconnecting"]_vars
  BY StepKept DEF Kept
<1>2. QED  BY <1>1, OrderInvariant, PTL DEF Spec, StopOutranks

-----------------------------------------------------------------------------
(* Retries, phases and transitions in progress.                             *)

Up == {"Connecting", "Connected", "Updating"}

\* Reconnecting is never disabled in a session that is up and can begin anything.
Enabled(s) == s.rc.should \/ s.st \notin {"Connected", "Updating"}

\* No backoff timer is pending; and what a turn that found none leaves.
Still(s) == ~s.timer /\ s.orphans = 0
Silent(s, r) == r.rc.should \/ (Still(r) /\ (r.st = "Connecting" => s.st = "Connecting"))
SameRetry(s, r) == r.rc.should = s.rc.should /\ r.timer = s.timer /\ r.orphans = s.orphans

\* The session goes on, or is being torn down, and nobody is told.
GoesOn(s, r) ==
  /\ r.heard = s.heard
  /\ r.st = s.st \/ (s.st \in Up /\ r.st \in Up \cup {"Disconnecting"})

\* A step of SessionLifecycle, or a stutter.
Moves(s, r) ==
  \/ GoesOn(s, r)
  \/ s.st = "NotConnected" /\ r.st \in Up /\ r.heard \in {s.heard, "connecting"}
  \/ s.st \in Up /\ r.st \in Up /\ r.heard \in {"connecting", "started"}
  \/ s.st \in Up /\ r.st = "Disconnecting" /\ r.heard \in {s.heard, "started"}
  \/ s.st = "Disconnecting" /\ r.st = "NotConnected" /\ r.heard \in {s.heard, "stopped"}

\* There is a job number to use; BusyHasDriver of a record; and negotiations stay.
Free(s) == \E i \in JobIds : s.job[i] = Idle
Driven(s) ==
  /\ s.st = "Connecting"    => \E i \in JobIds : s.job[i].kind \in Connects \cup Reconnects /\ ~s.job[i].lost
  /\ s.st = "Updating"      => \E i \in JobIds : s.job[i].kind \in Updates
  /\ s.st = "Disconnecting" => \E i \in JobIds : s.job[i].kind = "leave"
SameUpdates(s, r) == \A i \in JobIds : s.job[i].kind \in Updates => r.job[i].kind \in Updates

-----------------------------------------------------------------------------
(* The work.                                                                *)

LEMMA SpawnFrame ==
  ASSUME NEW s \in Controllers, NEW j \in Jobs
  PROVE  LET r == Spawn(s, j)
         IN  /\ r \in Controllers /\ r.st = s.st /\ r.slot = s.slot /\ r.heard = s.heard /\ SameRetry(s, r)
             /\ Free(s) => /\ \E i \in JobIds : r.job[i] = j
                           /\ \A i \in JobIds : s.job[i] # Idle => r.job[i] = s.job[i]
<1> DEFINE free == CHOOSE i \in JobIds : s.job[i] = Idle
           jobs == [s.job EXCEPT ![free] = j]
<1>1. Spawn(s, j) = [s EXCEPT !.job = jobs]
  BY DEF Spawn, Controllers
<1>2. Free(s) => free \in JobIds /\ s.job[free] = Idle
  BY DEF Free
<1> HIDE DEF free
<1>3. Free(s) => /\ \E i \in JobIds : jobs[i] = j
                 /\ \A i \in JobIds : s.job[i] # Idle => jobs[i] = s.job[i]
  BY <1>2 DEF Controllers
<1> HIDE DEF jobs
<1> QED BY <1>1, <1>3, SpawnType DEF Controllers, SameRetry

LEMMA KindsApart ==
  /\ Idle.kind \notin Updates
  /\ NewJob("opening").kind \in Connects \cup Reconnects /\ ~NewJob("opening").lost
  /\ NewJob("reopening").kind \in Connects \cup Reconnects /\ ~NewJob("reopening").lost
  /\ \A kind \in Updates : NewJob(kind).kind \in Updates
  /\ \A then : Leave(then).kind = "leave"
BY DEF Idle, NewJob, Leave, Connects, Reconnects, Updates

\* actionConnect: a first start, and no retry, enables reconnecting again.
LEMMA ConnectDoes ==
  ASSUME NEW s \in Controllers, NEW reconnecting \in BOOLEAN
  PROVE  LET r == ActionConnect(s, reconnecting)
         IN  /\ reconnecting => SameRetry(s, r) /\ r.heard = s.heard
             /\ ~reconnecting => r.rc.should
             /\ r.heard \in {s.heard, "connecting"}
             /\ Free(s) => /\ \E i \in JobIds : r.job[i].kind \in Connects \cup Reconnects /\ ~r.job[i].lost
                           /\ SameUpdates(s, r)
<1> DEFINE fresh == IF reconnecting THEN s
                    ELSE [ResetReconnect(s) EXCEPT !.heard = "connecting"]
           begun == StartedConnectionAttempt(fresh)
           all   == LoseAll(begun)
           lost  == [all EXCEPT !.ssrc = FALSE]
<1>1. /\ fresh \in Controllers /\ fresh.job = s.job
      /\ reconnecting => fresh = s
      /\ ~reconnecting => fresh.rc.should /\ fresh.heard = "connecting"
  <2>1. ResetReconnect(s) \in Controllers  BY ReconnectControllerType
  <2>2. ResetReconnect(s).job = s.job /\ ResetReconnect(s).rc.should
    BY DEF ResetReconnect, Controllers, FreshRC
  <2>3. QED  BY <2>1, <2>2 DEF Controllers, Notices
<1> HIDE DEF fresh
<1>2. /\ begun \in Controllers /\ begun.job = s.job /\ begun.heard = fresh.heard
      /\ SameRetry(fresh, begun)
  BY <1>1, ReconnectControllerType
     DEF StartedConnectionAttempt, Controllers, SameRetry, ReconnectControllers
<1> HIDE DEF begun
<1>3. /\ all \in Controllers /\ all.heard = begun.heard /\ SameRetry(begun, all)
      /\ \A i \in JobIds : /\ s.job[i] = Idle => all.job[i] = Idle
                           /\ s.job[i] # Idle => all.job[i].kind = s.job[i].kind
  <2>1. all \in Controllers  BY <1>2, LoseAllType
  <2>2. \A i \in JobIds : s.job[i] \in Jobs  BY DEF Controllers
  <2>3. all.heard = begun.heard /\ SameRetry(begun, all)
    BY <1>2 DEF LoseAll, Controllers, SameRetry
  <2>4. QED  BY <1>2, <2>1, <2>2, <2>3 DEF LoseAll, Controllers, Jobs
<1> HIDE DEF all
<1>4. /\ lost \in Controllers /\ lost.heard = all.heard /\ SameRetry(all, lost)
      /\ lost.job = all.job
  BY <1>3 DEF Controllers, SameRetry
<1> HIDE DEF lost
<1>5. ActionConnect(s, reconnecting) = Spawn(lost, NewJob("opening"))
  BY DEF ActionConnect, lost, all, begun, fresh
<1>6. NewJob("opening") \in Jobs  BY NewJobTypes DEF Kinds
<1>7. Free(s) => Free(lost)  BY <1>3, <1>4 DEF Free
<1> DEFINE r == Spawn(lost, NewJob("opening"))
<1>8. /\ r.heard = lost.heard /\ SameRetry(lost, r)
      /\ Free(s) => /\ \E i \in JobIds : r.job[i] = NewJob("opening")
                    /\ \A i \in JobIds : lost.job[i] # Idle => r.job[i] = lost.job[i]
  BY <1>4, <1>6, <1>7, SpawnFrame
<1> HIDE DEF r
<1>9. Free(s) => SameUpdates(s, r)
  <2>1. \A i \in JobIds : s.job[i].kind \in Updates => s.job[i] # Idle  BY KindsApart
  <2>2. \A i \in JobIds : s.job[i].kind \in Updates => lost.job[i].kind \in Updates
    BY <1>3, <1>4, <2>1
  <2>3. \A i \in JobIds : lost.job[i].kind \in Updates => lost.job[i] # Idle  BY KindsApart
  <2>4. QED  BY <1>8, <2>2, <2>3 DEF SameUpdates
<1>10. ActionConnect(s, reconnecting) = r  BY <1>5 DEF r
<1>11. QED
  <2>1. SameRetry(fresh, r) /\ r.heard = fresh.heard
    BY <1>2, <1>3, <1>4, <1>8 DEF SameRetry
  <2>2. Free(s) => \E i \in JobIds : r.job[i].kind \in Connects \cup Reconnects /\ ~r.job[i].lost
    BY <1>8, KindsApart
  <2>3. QED  BY <1>1, <1>9, <1>10, <2>1, <2>2 DEF SameRetry

LEMMA ReconnectDoes ==
  ASSUME NEW s \in Controllers
  PROVE  LET r == ActionReconnect(s)
         IN  /\ SameRetry(s, r) /\ r.heard \in {s.heard, "connecting"}
             /\ Free(s) => /\ \E i \in JobIds : r.job[i].kind \in Connects \cup Reconnects /\ ~r.job[i].lost
                           /\ SameUpdates(s, r)
<1> DEFINE told  == IF s.rc.attempt = "unset" THEN [s EXCEPT !.heard = "connecting"] ELSE s
           went  == StartedConnectionAttempt(told)
           begun == [went EXCEPT !.ssrc = FALSE]
<1>1. told \in Controllers /\ told.job = s.job /\ SameRetry(s, told) /\ told.heard \in {s.heard, "connecting"}
  BY DEF Controllers, Notices, SameRetry
<1> HIDE DEF told
<1>2. went \in Controllers /\ went.job = s.job /\ SameRetry(told, went) /\ went.heard = told.heard
  BY <1>1, ReconnectControllerType
     DEF StartedConnectionAttempt, Controllers, SameRetry, ReconnectControllers
<1> HIDE DEF went
<1>3. begun \in Controllers /\ begun.job = s.job /\ SameRetry(went, begun) /\ begun.heard = went.heard
  BY <1>2 DEF Controllers, SameRetry
<1> HIDE DEF begun
<1>4. ActionReconnect(s) = Spawn(begun, NewJob("reopening"))
  BY DEF ActionReconnect, begun, went, told
<1>5. NewJob("reopening") \in Jobs  BY NewJobTypes DEF Kinds
<1> DEFINE r == Spawn(begun, NewJob("reopening"))
<1>6. /\ r.heard = begun.heard /\ SameRetry(begun, r)
      /\ Free(s) => /\ \E i \in JobIds : r.job[i] = NewJob("reopening")
                    /\ \A i \in JobIds : s.job[i] # Idle => r.job[i] = s.job[i]
  BY <1>3, <1>5, SpawnFrame DEF Free
<1> HIDE DEF r
<1>7. \A i \in JobIds : s.job[i].kind \in Updates => s.job[i] # Idle  BY KindsApart
<1>8. ActionReconnect(s) = r  BY <1>4 DEF r
<1>9. QED
  <2>1. SameRetry(s, r) /\ r.heard \in {s.heard, "connecting"}
    BY <1>1, <1>2, <1>3, <1>6 DEF SameRetry
  <2>2. Free(s) => SameUpdates(s, r)  BY <1>6, <1>7 DEF SameUpdates
  <2>3. Free(s) => \E i \in JobIds : r.job[i].kind \in Connects \cup Reconnects /\ ~r.job[i].lost
    BY <1>6, KindsApart
  <2>4. QED  BY <1>8, <2>1, <2>2, <2>3

\* Work that spawns one job of a kind and otherwise leaves retries and notices.
LEMMA SpawnDoes ==
  ASSUME NEW s \in Controllers, NEW j \in Jobs
  PROVE  LET r == Spawn(s, j)
         IN  /\ SameRetry(s, r) /\ r.heard = s.heard
             /\ Free(s) => /\ \E i \in JobIds : r.job[i].kind = j.kind
                           /\ SameUpdates(s, r)
<1>1. \A i \in JobIds : s.job[i].kind \in Updates => s.job[i] # Idle  BY KindsApart
<1> DEFINE r == Spawn(s, j)
<1>2. /\ SameRetry(s, r) /\ r.heard = s.heard
      /\ Free(s) => /\ \E i \in JobIds : r.job[i] = j
                    /\ \A i \in JobIds : s.job[i] # Idle => r.job[i] = s.job[i]
  BY SpawnFrame
<1> HIDE DEF r
<1>3. /\ SameRetry(s, r) /\ r.heard = s.heard
      /\ Free(s) => (\E i \in JobIds : r.job[i].kind = j.kind) /\ SameUpdates(s, r)
  BY <1>1, <1>2 DEF SameUpdates
<1> QED BY <1>3 DEF r

LEMMA RestartDoes ==
  ASSUME NEW s \in Controllers
  PROVE  LET r == RestartVideo(s)
         IN  /\ SameRetry(s, r) /\ r.heard = s.heard
             /\ Free(s) => (\E i \in JobIds : r.job[i].kind \in Updates) /\ SameUpdates(s, r)
<1> DEFINE stopped == [s EXCEPT !.tile = "stopped"]
           waits   == DeferAction(stopped, "Update", "update")
<1>1. stopped \in Controllers /\ stopped.job = s.job /\ SameRetry(s, stopped) /\ stopped.heard = s.heard
  BY DEF Controllers, Tiles, SameRetry
<1> HIDE DEF stopped
<1>2. waits \in Controllers /\ waits.job = s.job /\ SameRetry(s, waits) /\ waits.heard = s.heard
  <2>1. [action |-> "Update", work |-> "update"] \in Slots  BY DEF Slots
  <2>2. waits \in Controllers  BY <1>1, <2>1, DeferType
  <2>3. QED  BY <1>1, <2>2 DEF DeferAction, Controllers, SameRetry
<1>3. RestartVideo(s) \in {Spawn(waits, NewJob("restartStop")), Spawn(s, NewJob("restartStart"))}
  BY DEF RestartVideo, waits, stopped
<1> HIDE DEF waits
<1>4. /\ NewJob("restartStop") \in Jobs /\ NewJob("restartStart") \in Jobs
      /\ NewJob("restartStop").kind \in Updates /\ NewJob("restartStart").kind \in Updates
  BY DEF NewJob, Jobs, Kinds, Updates
<1> DEFINE r1 == Spawn(waits, NewJob("restartStop"))
           r2 == Spawn(s, NewJob("restartStart"))
<1>5. /\ SameRetry(waits, r1) /\ r1.heard = waits.heard
      /\ Free(waits) => (\E i \in JobIds : r1.job[i].kind \in Updates) /\ SameUpdates(waits, r1)
  BY <1>2, <1>4, SpawnDoes
<1>6. /\ SameRetry(s, r2) /\ r2.heard = s.heard
      /\ Free(s) => (\E i \in JobIds : r2.job[i].kind \in Updates) /\ SameUpdates(s, r2)
  BY <1>4, SpawnDoes
<1> HIDE DEF r1, r2
<1>7. /\ SameRetry(s, r1) /\ r1.heard = s.heard
      /\ Free(s) => (\E i \in JobIds : r1.job[i].kind \in Updates) /\ SameUpdates(s, r1)
  BY <1>2, <1>5 DEF SameRetry, SameUpdates, Free
<1> QED BY <1>3, <1>6, <1>7 DEF r1, r2

-----------------------------------------------------------------------------
(* What perform() does.                                                     *)

\* Nothing began: at most the slot is another.
SameButSlot(s, r) == SameRetry(s, r) /\ r.st = s.st /\ r.heard = s.heard /\ r.job = s.job

\* An action began: its work has run in the state that it leads to.
Began(s, action, work, r) ==
  /\ HasTransition(s.st, action) /\ r.st = Target(s.st, action)
  /\ work = "start" => r.rc.should
  /\ work # "start" => SameRetry(s, r)
  /\ r.heard \in {s.heard, "connecting"}
  /\ action \notin {"Connect", "Reconnect"} => r.heard = s.heard
  /\ Free(s) => Driven(r) /\ SameUpdates(s, r)

LEMMA BeganTable ==
  ASSUME NEW s, NEW action, NEW work, NEW r, Matches(action, work), Began(s, action, work, r)
  PROVE  /\ action = "Connect"    => s.st = "NotConnected" /\ r.st = "Connecting"
         /\ action = "Reconnect"  => s.st = "Connected" /\ r.st = "Connecting"
         /\ action = "Update"     => s.st = "Connected" /\ r.st = "Updating"
         /\ action = "Disconnect" => s.st = "Connected" /\ r.st = "Disconnecting"
         /\ action = "Fail"       => s.st \in Up /\ r.st = "Disconnecting"
BY DEF Began, Matches, HasTransition, Target, Transition, Up

LEMMA RunBegins ==
  ASSUME NEW from, NEW action, NEW work, Matches(action, work), HasTransition(from, action),
         NEW s \in Controllers, s.st = Target(from, action)
  PROVE  LET r == Run(s, work)
         IN  /\ work = "start" => r.rc.should
             /\ work # "start" => SameRetry(s, r)
             /\ r.heard \in {s.heard, "connecting"}
             /\ action \notin {"Connect", "Reconnect"} => r.heard = s.heard
             /\ Free(s) => Driven(r) /\ SameUpdates(s, r)
<1>1. Run(s, work).st = s.st  BY RunFields
<1>2. CASE action = "Connect"
  <2>1. s.st = "Connecting"  BY <1>2 DEF HasTransition, Target, Transition
  <2>2. PICK reconnecting \in BOOLEAN : /\ Run(s, work) = ActionConnect(s, reconnecting)
                                        /\ work # "start" <=> reconnecting
    BY <1>2 DEF Run, Matches
  <2>3. QED  BY <1>1, <1>2, <2>1, <2>2, ConnectDoes DEF Driven
<1>3. CASE action = "Reconnect"
  <2>1. s.st = "Connecting"  BY <1>3 DEF HasTransition, Target, Transition
  <2>2. Run(s, work) = ActionReconnect(s) /\ work # "start"  BY <1>3 DEF Run, Matches
  <2>3. QED  BY <1>1, <1>3, <2>1, <2>2, ReconnectDoes DEF Driven
<1>4. CASE action = "Update"
  <2>1. s.st = "Updating" /\ work # "start"
    BY <1>4 DEF HasTransition, Target, Transition, Matches
  <2>2. CASE work = "update"
    <3>1. Run(s, work) = Spawn(s, NewJob("update"))  BY <2>2 DEF Run
    <3>2. NewJob("update") \in Jobs /\ NewJob("update").kind \in Updates
      BY DEF NewJob, Jobs, Kinds, Updates
    <3>3. QED  BY <1>1, <1>4, <2>1, <3>1, <3>2, SpawnDoes DEF Driven
  <2>3. CASE work = "restart"
    <3>1. Run(s, work) = RestartVideo(s)  BY <2>3 DEF Run
    <3>2. QED  BY <1>1, <1>4, <2>1, <3>1, RestartDoes DEF Driven
  <2>4. QED  BY <1>4, <2>2, <2>3 DEF Matches
<1>5. CASE action \in {"Disconnect", "Fail"}
  <2>1. s.st = "Disconnecting" /\ work \in Teardowns /\ work # "start"
    BY <1>5 DEF HasTransition, Target, Transition, Matches, Teardowns
  <2>2. PICK then \in {"notify", "Retry", "Terminal"} : Run(s, work) = Spawn(s, Leave(then))
    BY <2>1 DEF Run, ActionDisconnect, Teardowns
  <2>3. Leave(then) \in Jobs  BY NewJobTypes
  <2>4. QED  BY <1>1, <1>5, <2>1, <2>2, <2>3, KindsApart, SpawnDoes DEF Driven
<1>6. QED  BY <1>2, <1>3, <1>4, <1>5 DEF Matches

\* What waits is performed in Connected; in any other state at most the slot changes.
LEMMA PerformDeferredBegins ==
  ASSUME NEW s \in Controllers
  PROVE  LET r == PerformDeferred(s)
         IN  \/ SameButSlot(s, r)
             \/ \E action \in {"Update", "Reconnect", "Disconnect"}, work \in Works :
                  Matches(action, work) /\ work # "start" /\ Began(s, action, work, r)
<1> DEFINE free  == [s EXCEPT !.slot = None]
           moved == [free EXCEPT !.st = Target(s.st, s.slot.action)]
<1>1. CASE s.slot = None
  BY <1>1 DEF PerformDeferred, SameButSlot, SameRetry
<1>2. CASE s.slot # None /\ HasTransition(s.st, s.slot.action)
  <2>1. PerformDeferred(s) = Run(moved, s.slot.work)  BY <1>2 DEF PerformDeferred
  <2>2. /\ Matches(s.slot.action, s.slot.work) /\ s.slot.work \in Works /\ s.slot.work # "start"
        /\ s.slot.action \in {"Update", "Reconnect", "Disconnect"}
    BY <1>2 DEF Controllers, Slots, Matches, Works
  <2>3. /\ moved \in Controllers /\ moved.job = s.job /\ SameRetry(s, moved)
        /\ moved.st = Target(s.st, s.slot.action) /\ moved.heard = s.heard
    <3>1. Target(s.st, s.slot.action) \in States  BY <1>2, TargetType DEF Controllers
    <3>2. free \in Controllers  BY DEF Controllers, Slots
    <3>3. QED  BY <3>1, <3>2 DEF Controllers, SameRetry
  <2> DEFINE r == Run(moved, s.slot.work)
  <2> HIDE DEF moved
  <2>4. /\ SameRetry(moved, r) /\ r.heard \in {moved.heard, "connecting"}
        /\ s.slot.action \notin {"Connect", "Reconnect"} => r.heard = moved.heard
        /\ Free(moved) => Driven(r) /\ SameUpdates(moved, r)
    BY <1>2, <2>2, <2>3, RunBegins
  <2>5. r.st = moved.st  BY <2>3, RunFields
  <2> HIDE DEF r
  <2>6. Began(s, s.slot.action, s.slot.work, r)
    BY <1>2, <2>2, <2>3, <2>4, <2>5 DEF Began, SameRetry, Free, SameUpdates
  <2>7. QED  BY <2>1, <2>2, <2>6 DEF r
<1>3. CASE s.slot # None /\ ~HasTransition(s.st, s.slot.action)
  <2>1. free \in Controllers /\ SameButSlot(s, free)
    BY DEF Controllers, Slots, SameButSlot, SameRetry
  <2> HIDE DEF free
  <2>2. SameButSlot(free, DeferAction(free, s.slot.action, s.slot.work))
    BY <2>1 DEF DeferAction, Controllers, SameButSlot, SameRetry
  <2>3. PerformDeferred(s) \in {free, DeferAction(free, s.slot.action, s.slot.work)}
    BY <1>3 DEF PerformDeferred, free
  <2>4. QED  BY <2>1, <2>2, <2>3 DEF SameButSlot, SameRetry
<1>4. QED  BY <1>1, <1>2, <1>3

LEMMA PerformBegins ==
  ASSUME NEW s \in Controllers, NEW action, NEW work, Matches(action, work),
         NEW r \in Perform(s, action, work)
  PROVE  \/ ~HasTransition(s.st, action) /\ SameButSlot(s, r)
         \/ Began(s, action, work, r)
<1>1. CASE HasTransition(s.st, action)
  <2> DEFINE moved == [s EXCEPT !.st = Target(s.st, action)]
             ran   == Run(moved, work)
  <2>1. r = PerformDeferred(ran)  BY <1>1 DEF Perform
  <2>2. /\ moved \in Controllers /\ moved.job = s.job /\ SameRetry(s, moved)
        /\ moved.st = Target(s.st, action) /\ moved.heard = s.heard
    BY <1>1, MoveType DEF Controllers, SameRetry
  <2> HIDE DEF moved
  <2>3. /\ work = "start" => ran.rc.should
        /\ work # "start" => SameRetry(moved, ran)
        /\ ran.heard \in {moved.heard, "connecting"}
        /\ action \notin {"Connect", "Reconnect"} => ran.heard = moved.heard
        /\ Free(moved) => Driven(ran) /\ SameUpdates(moved, ran)
    BY <1>1, <2>2, RunBegins
  <2>4. ran \in Controllers /\ ran.st = moved.st  BY <2>2, RunType, RunFields
  <2> HIDE DEF ran
  <2>5. ran.st # "Connected"
    BY <1>1, <2>2, <2>4 DEF Matches, HasTransition, Target, Transition
  <2>6. SameButSlot(ran, r)
    <3>1. ASSUME NEW act \in {"Update", "Reconnect", "Disconnect"}, NEW wk, Began(ran, act, wk, r)
          PROVE  FALSE
      BY <2>5, <3>1 DEF Began, HasTransition, Target, Transition
    <3>2. QED  BY <2>1, <2>4, <3>1, PerformDeferredBegins
  <2>7. Driven(ran) => Driven(r)  BY <2>6 DEF SameButSlot, Driven
  <2>8. QED
    BY <1>1, <2>2, <2>3, <2>4, <2>6, <2>7
       DEF Began, SameButSlot, SameRetry, Free, SameUpdates
<1>2. CASE ~HasTransition(s.st, action)
  <2>1. SameButSlot(s, DeferAction(s, action, work))
    BY DEF DeferAction, Controllers, SameButSlot, SameRetry
  <2>2. r \in {s, DeferAction(s, action, work)}  BY <1>2 DEF Perform
  <2>3. QED  BY <1>2, <2>1, <2>2 DEF SameButSlot, SameRetry
<1>3. QED  BY <1>1, <1>2

\* What waited is a reconnection only while reconnecting is enabled.
LEMMA PerformDeferredDoes ==
  ASSUME NEW s \in Controllers, Enabled(s)
  PROVE  LET r == PerformDeferred(s)
         IN  /\ SameRetry(s, r) /\ Enabled(r)
             /\ \/ r.st = s.st /\ r.heard = s.heard
                \/ /\ s.st = "Connected" /\ s.rc.should
                   /\ \/ r.st \in Up /\ r.heard \in {s.heard, "connecting"}
                      \/ r.st = "Disconnecting" /\ r.heard = s.heard
             /\ Free(s) /\ Driven(s) => Driven(r)
             /\ Free(s) => SameUpdates(s, r)
             /\ s.st # "Connected" \/ r.st = "Connected" => r.job = s.job
<1> DEFINE r == PerformDeferred(s)
<1>1. CASE SameButSlot(s, r)
  <2> HIDE DEF r
  <2>1. Driven(s) => Driven(r)  BY <1>1 DEF SameButSlot, Driven
  <2>2. SameRetry(s, r) /\ Enabled(r)  BY <1>1 DEF SameButSlot, SameRetry, Enabled
  <2>3. SameUpdates(s, r)  BY <1>1 DEF SameButSlot, SameUpdates
  <2>4. r.st = s.st /\ r.heard = s.heard /\ r.job = s.job  BY <1>1 DEF SameButSlot
  <2> QED  BY <2>1, <2>2, <2>3, <2>4 DEF r
<1>2. ASSUME NEW action \in {"Update", "Reconnect", "Disconnect"}, NEW work,
             Matches(action, work), work # "start", Began(s, action, work, r)
      PROVE  /\ SameRetry(s, r) /\ Enabled(r) /\ s.st = "Connected" /\ s.rc.should
             /\ \/ r.st \in Up /\ r.heard \in {s.heard, "connecting"}
                \/ r.st = "Disconnecting" /\ r.heard = s.heard
             /\ Free(s) => Driven(r) /\ SameUpdates(s, r)
             /\ r.st # "Connected"
  <2> HIDE DEF r
  <2>1. /\ action = "Reconnect"  => s.st = "Connected" /\ r.st = "Connecting"
        /\ action = "Update"     => s.st = "Connected" /\ r.st = "Updating"
        /\ action = "Disconnect" => s.st = "Connected" /\ r.st = "Disconnecting"
    BY <1>2, BeganTable
  <2>2. SameRetry(s, r) /\ r.heard \in {s.heard, "connecting"}
        /\ (action # "Reconnect" => r.heard = s.heard)
        /\ (Free(s) => Driven(r) /\ SameUpdates(s, r))
    BY <1>2 DEF Began
  <2>3. s.rc.should  BY <2>1 DEF Enabled
  <2>4. Enabled(r)  BY <2>2, <2>3 DEF Enabled, SameRetry
  <2>5. r.st \in Up \/ (r.st = "Disconnecting" /\ action = "Disconnect")  BY <2>1 DEF Up
  <2> QED  BY <2>1, <2>2, <2>3, <2>4, <2>5
<1>3. SameButSlot(s, r) \/ \E action \in {"Update", "Reconnect", "Disconnect"}, work \in Works :
                  Matches(action, work) /\ work # "start" /\ Began(s, action, work, r)
  BY PerformDeferredBegins
<1> HIDE DEF r
<1>4. CASE ~SameButSlot(s, r)
  <2>1. PICK action \in {"Update", "Reconnect", "Disconnect"}, work \in Works :
          Matches(action, work) /\ work # "start" /\ Began(s, action, work, r)
    BY <1>3, <1>4
  <2>2. QED  BY <1>2, <2>1 DEF r
<1>5. QED  BY <1>1, <1>4 DEF r

\* A failure or a change of the session's status: a retry is scheduled only when
\* reconnecting is enabled, and nobody is told anything in the same turn.
LEMMA StatusDoes ==
  ASSUME NEW s \in Controllers, NEW status \in Statuses,
         Enabled(s) \/ status \in {"Retry", "Terminal"},
         NEW r \in HandleMeetingSessionStatus(s, status)
  PROVE  /\ Enabled(r)
         /\ Still(s) => Silent(s, r)
         /\ GoesOn(s, r)
         /\ Free(s) /\ Driven(s) => Driven(r)
         /\ Free(s) => SameUpdates(s, r)
         /\ r.st = "Connected" => r.job = s.job
<1>1. ASSUME NEW c \in Controllers, c.st = s.st, c.heard = s.heard, c.job = s.job,
             Still(s) => Still(c), NEW q \in Reconnect(c)
      PROVE  /\ Enabled(q)
             /\ Still(s) => Silent(s, q)
             /\ GoesOn(s, q)
             /\ Free(s) /\ Driven(s) => Driven(q)
             /\ Free(s) => SameUpdates(s, q)
             /\ q.st = "Connected" => q.job = s.job
  <2>1. CASE WillRetry(c)
    <3>1. q = RetryWithBackoff(c) /\ c.rc.should  BY <1>1, <2>1 DEF Reconnect, WillRetry
    <3> DEFINE left == IF c.timer THEN c.orphans + 1 ELSE c.orphans
    <3>2. q = [c EXCEPT !.timer = TRUE, !.orphans = left]  BY <3>1 DEF RetryWithBackoff
    <3> HIDE DEF left
    <3>3. q.rc = c.rc /\ q.st = c.st /\ q.heard = c.heard /\ q.job = c.job
      BY <3>2 DEF Controllers
    <3>4. q.rc.should  BY <3>1, <3>3
    <3>5. Driven(s) => Driven(q)  BY <1>1, <3>3 DEF Driven
    <3>6. QED  BY <1>1, <3>3, <3>4, <3>5 DEF Enabled, Silent, GoesOn, SameUpdates
  <2>2. CASE ~WillRetry(c)
    <3>1. q \in Perform(c, "Fail", "stop") /\ Matches("Fail", "stop")
      BY <1>1, <2>2 DEF Reconnect, Matches
    <3>2. CASE ~HasTransition(c.st, "Fail") /\ SameButSlot(c, q)
      <4>1. c.st \in {"NotConnected", "Disconnecting"}
        <5>1. c.st \in States  BY DEF Controllers
        <5>2. QED  BY <3>2, <5>1 DEF HasTransition, Target, Transition, States
      <4>2. q.st = s.st /\ q.heard = s.heard /\ q.job = s.job /\ SameRetry(c, q)
        BY <1>1, <3>2 DEF SameButSlot
      <4>3. Driven(s) => Driven(q)  BY <4>2 DEF Driven
      <4>4. Enabled(q)  BY <1>1, <4>1, <4>2 DEF Enabled
      <4>5. Still(s) => Silent(s, q)  BY <1>1, <4>2 DEF Silent, SameRetry, Still
      <4>6. QED  BY <4>2, <4>3, <4>4, <4>5 DEF GoesOn, SameUpdates
    <3>3. CASE Began(c, "Fail", "stop", q)
      <4>1. c.st \in Up /\ q.st = "Disconnecting"  BY <3>1, <3>3, BeganTable
      <4>2. /\ SameRetry(c, q) /\ q.heard = c.heard
            /\ Free(c) => Driven(q) /\ SameUpdates(c, q)
        BY <3>3 DEF Began
      <4>3. Free(s) => Driven(q) /\ SameUpdates(s, q)
        BY <1>1, <4>2 DEF Free, SameUpdates
      <4>4. Still(s) => Silent(s, q)  BY <1>1, <4>1, <4>2 DEF Silent, SameRetry, Still
      <4>5. QED  BY <1>1, <4>1, <4>2, <4>3, <4>4 DEF Enabled, GoesOn
    <3>4. QED  BY <3>1, <3>2, <3>3, PerformBegins
  <2>3. QED  BY <2>1, <2>2
<1>2. CASE status = "Incompatible"
  <2>1. r \in Perform(s, "Update", "restart") /\ Matches("Update", "restart")
    BY <1>2 DEF HandleMeetingSessionStatus, Matches
  <2>2. CASE SameButSlot(s, r)
    <3>1. Driven(s) => Driven(r)  BY <2>2 DEF SameButSlot, Driven
    <3>2. QED  BY <1>2, <2>2, <3>1
            DEF SameButSlot, SameRetry, Enabled, Silent, Still, GoesOn, SameUpdates
  <2>3. CASE Began(s, "Update", "restart", r)
    <3>1. s.st = "Connected" /\ r.st = "Updating"  BY <2>1, <2>3, BeganTable
    <3>2. SameRetry(s, r) /\ r.heard = s.heard /\ (Free(s) => Driven(r) /\ SameUpdates(s, r))
      BY <2>3 DEF Began
    <3>3. QED  BY <1>2, <3>1, <3>2 DEF Enabled, Silent, Still, SameRetry, GoesOn, Up
  <2>4. QED  BY <2>1, <2>2, <2>3, PerformBegins
<1>3. CASE status = "ViewOnly"
  <2>1. r = [s EXCEPT !.tile = "none"]  BY <1>3 DEF HandleMeetingSessionStatus
  <2>2. SameButSlot(s, r)  BY <2>1 DEF Controllers, SameButSlot, SameRetry
  <2>3. Driven(s) => Driven(r)  BY <2>2 DEF SameButSlot, Driven
  <2>4. QED  BY <1>3, <2>2, <2>3
          DEF SameButSlot, SameRetry, Enabled, Silent, Still, GoesOn, SameUpdates
<1>4. CASE status = "Terminal"
  <2> DEFINE c == DisableReconnect(s)
  <2>1. r \in Reconnect(c)  BY <1>4 DEF HandleMeetingSessionStatus
  <2>2. c \in Controllers  BY ReconnectControllerType
  <2>3. c.st = s.st /\ c.heard = s.heard /\ c.job = s.job /\ c.timer = s.timer /\ c.orphans = s.orphans
    BY DEF DisableReconnect, Controllers
  <2> HIDE DEF c
  <2>4. QED  BY <1>1, <2>1, <2>2, <2>3 DEF Still
<1>5. CASE status = "Retry"
  <2>1. r \in Reconnect(s)  BY <1>5 DEF HandleMeetingSessionStatus
  <2>2. QED  BY <1>1, <2>1
<1>6. QED  BY <1>2, <1>3, <1>4, <1>5 DEF Statuses

-----------------------------------------------------------------------------
(* The ends of the task groups.                                             *)

\* What is claimed of every turn.
Turn(s, r) ==
  /\ Enabled(r)
  /\ Still(s) => Silent(s, r)
  /\ Moves(s, r)
  /\ Free(s) /\ Driven(s) => Driven(r)

LEMMA NothingBegan ==
  ASSUME NEW s, NEW r, Enabled(s), SameButSlot(s, r)
  PROVE  Turn(s, r)
<1>1. Driven(s) => Driven(r)  BY DEF SameButSlot, Driven
<1>2. QED  BY <1>1 DEF SameButSlot, SameRetry, Enabled, Silent, Still, Turn, Moves, GoesOn

\* perform() as the application, the monitor and a timer call it.
LEMMA PerformDoes ==
  ASSUME NEW s \in Controllers, Enabled(s), NEW action, NEW work, Matches(action, work),
         NEW r \in Perform(s, action, work)
  PROVE  /\ work # "retry" /\ work # "reconnect" => Turn(s, r)
         /\ Enabled(r) /\ Moves(s, r)
         /\ Free(s) /\ Driven(s) => Driven(r)
<1>1. CASE SameButSlot(s, r)
  BY <1>1, NothingBegan DEF Turn
<1>2. CASE Began(s, action, work, r)
  <2>1. /\ action = "Connect"    => s.st = "NotConnected" /\ r.st = "Connecting"
        /\ action = "Reconnect"  => s.st = "Connected" /\ r.st = "Connecting"
        /\ action = "Update"     => s.st = "Connected" /\ r.st = "Updating"
        /\ action = "Disconnect" => s.st = "Connected" /\ r.st = "Disconnecting"
        /\ action = "Fail"       => s.st \in Up /\ r.st = "Disconnecting"
        /\ action \in {"Connect", "Reconnect", "Update", "Disconnect", "Fail"}
        /\ action = "Connect" => work \in {"start", "retry"}
        /\ action = "Reconnect" => work = "reconnect"
    BY <1>2, BeganTable DEF Matches
  <2>2. /\ work = "start" => r.rc.should
        /\ work # "start" => SameRetry(s, r)
        /\ r.heard \in {s.heard, "connecting"}
        /\ action \notin {"Connect", "Reconnect"} => r.heard = s.heard
        /\ Free(s) => Driven(r)
    BY <1>2 DEF Began
  <2>3. Enabled(r)  BY <2>1, <2>2 DEF Enabled, SameRetry, Matches
  <2>4. Moves(s, r)  BY <2>1, <2>2 DEF Moves, GoesOn, Up
  <2>5. work # "retry" /\ work # "reconnect" /\ Still(s) => Silent(s, r)
    BY <2>1, <2>2 DEF Silent, Still, SameRetry
  <2>6. QED  BY <2>2, <2>3, <2>4, <2>5 DEF Turn
<1>3. QED  BY <1>1, <1>2, PerformBegins

LEMMA FinishConnectingDoes ==
  ASSUME NEW s \in Controllers, s.st = "Connecting", Free(s), NEW r \in FinishConnecting(s)
  PROVE  Enabled(r) /\ (Still(s) => Silent(s, r)) /\ Moves(s, r) /\ Driven(r)
<1> DEFINE told == [s EXCEPT !.st = "Connected", !.heard = "started"]
           m    == ResetReconnect(told)
<1>1. HasTransition(s.st, "FinishConnecting") /\ Target(s.st, "FinishConnecting") = "Connected"
  BY DEF HasTransition, Target, Transition
<1>2. r = PerformDeferred(m)  BY <1>1 DEF FinishConnecting
<1>3. told \in Controllers /\ told.st = "Connected" /\ told.heard = "started" /\ told.job = s.job
  BY DEF Controllers, States, Notices
<1> HIDE DEF told
<1>4. /\ m \in Controllers
      /\ m.st = "Connected" /\ m.heard = "started" /\ m.job = s.job /\ m.rc.should
  <2>1. m \in Controllers  BY <1>3, ReconnectControllerType
  <2>2. QED  BY <1>3, <2>1 DEF ResetReconnect, Controllers, FreshRC
<1> HIDE DEF m
<1>5. Enabled(m) /\ Free(m) /\ Driven(m)  BY <1>4 DEF Enabled, Free, Driven
<1>6. /\ SameRetry(m, r) /\ Enabled(r) /\ Driven(r)
      /\ \/ r.st = m.st /\ r.heard = m.heard
         \/ r.st \in Up /\ r.heard \in {m.heard, "connecting"}
         \/ r.st = "Disconnecting" /\ r.heard = m.heard
  BY <1>2, <1>4, <1>5, PerformDeferredDoes
<1>7. r.rc.should  BY <1>4, <1>6 DEF SameRetry
<1>8. s.st \in Up /\ m.st \in Up  BY <1>4 DEF Up
<1>9. Moves(s, r)  BY <1>4, <1>6, <1>8 DEF Moves
<1>10. QED  BY <1>6, <1>7, <1>9 DEF Silent

LEMMA FinishUpdatingDoes ==
  ASSUME NEW s \in Controllers, s.st = "Updating", Enabled(s), Free(s), NEW r \in FinishUpdating(s)
  PROVE  Enabled(r) /\ (Still(s) => Silent(s, r)) /\ Moves(s, r) /\ Driven(r)
<1> DEFINE m == [s EXCEPT !.st = "Connected"]
<1>1. HasTransition(s.st, "FinishUpdating") /\ Target(s.st, "FinishUpdating") = "Connected"
  BY DEF HasTransition, Target, Transition
<1>2. r = PerformDeferred(m)  BY <1>1 DEF FinishUpdating
<1>3. m \in Controllers /\ m.st = "Connected" /\ m.heard = s.heard /\ m.job = s.job /\ m.rc = s.rc
  BY DEF Controllers, States
<1> HIDE DEF m
<1>4. s.rc.should  BY DEF Enabled
<1>5. Enabled(m) /\ Free(m) /\ Driven(m)  BY <1>3, <1>4 DEF Enabled, Free, Driven
<1>6. /\ SameRetry(m, r) /\ Enabled(r) /\ Driven(r)
      /\ \/ r.st = m.st /\ r.heard = m.heard
         \/ r.st \in Up /\ r.heard \in {m.heard, "connecting"}
         \/ r.st = "Disconnecting" /\ r.heard = m.heard
  BY <1>2, <1>3, <1>5, PerformDeferredDoes
<1>7. r.rc.should  BY <1>3, <1>4, <1>6 DEF SameRetry
<1>8. s.st \in Up /\ m.st \in Up  BY <1>3 DEF Up
<1>9. Moves(s, r)  BY <1>3, <1>6, <1>8 DEF Moves, GoesOn
<1>10. QED  BY <1>6, <1>7, <1>9 DEF Silent

\* The session is Connected again, the failure is looked at, then what waited.
LEMMA FinishFailedDoes ==
  ASSUME NEW s \in Controllers, Enabled(s), NEW status \in Statuses,
         NEW r, \/ /\ s.st = "Connecting" /\ status \in {"Retry", "Terminal"}
                   /\ r \in FinishConnectingFailed(s, status)
                \/ s.st = "Updating" /\ r \in FinishUpdatingFailed(s, status)
  PROVE  /\ Enabled(r) /\ (Still(s) => Silent(s, r)) /\ Moves(s, r)
         /\ Free(s) => Driven(r) /\ SameUpdates(s, r)
         /\ r.st = "Connected" => r.job = s.job
<1> DEFINE m == [s EXCEPT !.st = "Connected"]
<1>1. PICK q \in HandleMeetingSessionStatus(m, status) : r = PerformDeferred(q)
  <2>1. CASE s.st = "Connecting" /\ r \in FinishConnectingFailed(s, status)
    <3>1. HasTransition(s.st, "FinishConnecting") /\ Target(s.st, "FinishConnecting") = "Connected"
      BY <2>1 DEF HasTransition, Target, Transition
    <3>2. QED  BY <2>1, <3>1 DEF FinishConnectingFailed
  <2>2. CASE s.st = "Updating" /\ r \in FinishUpdatingFailed(s, status)
    <3>1. HasTransition(s.st, "FinishUpdating") /\ Target(s.st, "FinishUpdating") = "Connected"
      BY <2>2 DEF HasTransition, Target, Transition
    <3>2. QED  BY <2>2, <3>1 DEF FinishUpdatingFailed
  <2>3. QED  BY <2>1, <2>2
<1>2. /\ m \in Controllers /\ m.st = "Connected" /\ m.heard = s.heard /\ m.job = s.job
      /\ m.rc = s.rc /\ m.timer = s.timer /\ m.orphans = s.orphans
  BY DEF Controllers, States
<1> HIDE DEF m
<1>3. Enabled(m) \/ status \in {"Retry", "Terminal"}  BY <1>2 DEF Enabled
<1>4. /\ Enabled(q) /\ (Still(m) => Silent(m, q)) /\ GoesOn(m, q)
      /\ Free(m) /\ Driven(m) => Driven(q)
      /\ Free(m) => SameUpdates(m, q)
      /\ q.st = "Connected" => q.job = m.job
  BY <1>1, <1>2, <1>3, StatusDoes
<1>5. q \in Controllers  BY <1>1, <1>2, StatusType
<1>6. /\ SameRetry(q, r) /\ Enabled(r)
      /\ \/ r.st = q.st /\ r.heard = q.heard
         \/ /\ q.st = "Connected" /\ q.rc.should
            /\ \/ r.st \in Up /\ r.heard \in {q.heard, "connecting"}
               \/ r.st = "Disconnecting" /\ r.heard = q.heard
      /\ Free(q) /\ Driven(q) => Driven(r)
      /\ Free(q) => SameUpdates(q, r)
      /\ q.st # "Connected" \/ r.st = "Connected" => r.job = q.job
  BY <1>1, <1>4, <1>5, PerformDeferredDoes
<1>7. Still(s) => Silent(s, r)
  BY <1>2, <1>4, <1>6 DEF Silent, Still, SameRetry
<1>8. s.st \in Up /\ m.st \in Up  BY <1>2 DEF Up
<1>9. Moves(s, r)  BY <1>2, <1>4, <1>6, <1>8 DEF Moves, GoesOn
<1>10. Free(s) => Driven(r) /\ SameUpdates(s, r)
  <2>1. Free(s) => Free(m) /\ Driven(m) /\ Driven(q) /\ SameUpdates(s, q)
    BY <1>2, <1>4 DEF Free, Driven, SameUpdates
  <2>2. CASE q.st = "Connected"
    <3>1. Free(s) => Free(q)  BY <1>2, <1>4, <2>2 DEF Free
    <3>2. QED  BY <1>6, <2>1, <3>1 DEF SameUpdates
  <2>3. CASE q.st # "Connected"
    <3>1. r.st = q.st /\ r.job = q.job  BY <1>6, <2>3
    <3>2. QED  BY <2>1, <3>1 DEF Driven, SameUpdates
  <2>4. QED  BY <2>2, <2>3
<1>11. r.st = "Connected" => r.job = s.job
  <2>1. r.st = "Connected" => q.st = "Connected" \/ r.st = q.st  BY <1>6
  <2>2. QED  BY <1>2, <1>4, <1>6, <2>1
<1>12. QED  BY <1>6, <1>7, <1>9, <1>10, <1>11

\* The second half of restartVideo: its own update begins, waits or is refused,
\* and the job goes on.
LEMMA RestartContinuesDoes ==
  ASSUME NEW s \in Controllers, Enabled(s), NEW i \in JobIds, NEW r \in RestartContinues(s, i)
  PROVE  /\ SameRetry(s, r) /\ Enabled(r)
         /\ r.heard = s.heard
         /\ r.st = s.st \/ (s.st = "Connected" /\ r.st = "Updating")
         /\ Driven(s) /\ s.job[i].kind \in Updates /\ (s.st = "Connected" => Free(s)) => Driven(r)
<1> DEFINE begun == [s EXCEPT !.tile = "started"]
           next  == [NewJob("restartStart") EXCEPT !.lost = s.st = "NotConnected"]
<1>1. begun \in Controllers /\ SameButSlot(s, begun)
  BY DEF Controllers, Tiles, SameButSlot, SameRetry
<1>2. next.kind = "restartStart"  BY DEF NewJob
<1>3. PICK q \in Perform(begun, "Update", "update") : r = [q EXCEPT !.job[i] = next]
  BY DEF RestartContinues
<1>4. Matches("Update", "update") /\ [action |-> "Update", work |-> "update"] \in Slots
  BY DEF Matches, Slots
<1> HIDE DEF begun, next
<1>5. q \in Controllers  BY <1>1, <1>3, <1>4, PerformType
<1>6. /\ r.st = q.st /\ r.heard = q.heard /\ SameRetry(q, r)
      /\ \A k \in JobIds : r.job[k] = IF k = i THEN next ELSE q.job[k]
  BY <1>3, <1>5 DEF Controllers, SameRetry
<1>7. /\ SameRetry(s, q) /\ q.heard = s.heard
      /\ q.st = s.st \/ (s.st = "Connected" /\ q.st = "Updating")
      /\ Driven(s) /\ s.job[i].kind \in Updates /\ (s.st = "Connected" => Free(s))
           => Driven(q) /\ q.job[i].kind \in Updates
  <2>1. CASE SameButSlot(begun, q)
    <3>1. Driven(s) => Driven(q)  BY <1>1, <2>1 DEF SameButSlot, Driven
    <3>2. QED  BY <1>1, <2>1, <3>1 DEF SameButSlot, SameRetry
  <2>2. CASE Began(begun, "Update", "update", q)
    <3>1. begun.st = "Connected" /\ q.st = "Updating"  BY <1>4, <2>2, BeganTable
    <3>2. /\ SameRetry(begun, q) /\ q.heard = begun.heard
          /\ Free(begun) => Driven(q) /\ SameUpdates(begun, q)
      BY <2>2 DEF Began
    <3>3. QED  BY <1>1, <3>1, <3>2 DEF SameButSlot, SameRetry, Free, SameUpdates
  <2>3. QED  BY <1>1, <1>3, <1>4, <2>1, <2>2, PerformBegins
<1>8. Enabled(r)  BY <1>6, <1>7 DEF Enabled, SameRetry
<1>9. ASSUME Driven(q), q.job[i].kind \in Updates
      PROVE  Driven(r)
  <2>1. r.st = "Connecting" => \E k \in JobIds : r.job[k].kind \in Connects \cup Reconnects /\ ~r.job[k].lost
    <3>1. \A k \in JobIds : q.job[k].kind \in Connects \cup Reconnects => k # i
      BY <1>9 DEF Connects, Reconnects, Updates
    <3>2. QED  BY <1>6, <1>9, <3>1 DEF Driven
  <2>2. r.st = "Updating" => \E k \in JobIds : r.job[k].kind \in Updates
    BY <1>2, <1>6 DEF Updates
  <2>3. r.st = "Disconnecting" => \E k \in JobIds : r.job[k].kind = "leave"
    <3>1. \A k \in JobIds : q.job[k].kind = "leave" => k # i  BY <1>9 DEF Updates
    <3>2. QED  BY <1>6, <1>9, <3>1 DEF Driven
  <2>4. QED  BY <2>1, <2>2, <2>3 DEF Driven
<1>10. QED  BY <1>6, <1>7, <1>8, <1>9 DEF SameRetry

\* A teardown that ends: NotConnected, and for a failed connection a retry or the
\* news that it has stopped.
LEMMA LeaveDoes ==
  ASSUME OrderInv, Enabled(Now), NEW i \in JobIds, LeaveEnds(i)
  PROVE  \E r : Become({r}) /\ Turn(Now, r)
<1> DEFINE then  == job[i].then
           gone  == Retire(Now, i)
           clean == Clean(gone)
           down  == FinishDisconnecting(clean, then)
<1>1. Now \in Controllers /\ Now.st = "Disconnecting"
  BY NowOrder DEF LeaveEnds, OrderInv, OneTeardown
<1>2. gone \in Controllers /\ SameRetry(Now, gone) /\ gone.st = Now.st /\ gone.heard = Now.heard
  BY <1>1, RetireType DEF Retire, Controllers, SameRetry
<1> HIDE DEF gone
<1>3. clean \in Controllers /\ SameRetry(gone, clean) /\ clean.st = gone.st /\ clean.heard = gone.heard
  BY <1>2, CleanType DEF Clean, Controllers, SameRetry
<1> HIDE DEF clean
<1>4. ASSUME NEW s \in down
      PROVE  /\ s \in Controllers /\ SameRetry(Now, s) /\ s.st = "NotConnected"
             /\ s.heard \in {Now.heard, "stopped"}
  <2> DEFINE told  == IF then = "notify" THEN "stopped" ELSE clean.heard
             moved == [clean EXCEPT !.st = "NotConnected", !.heard = told]
  <2>1. HasTransition(clean.st, "FinishDisconnecting")
        /\ Target(clean.st, "FinishDisconnecting") = "NotConnected"
    BY <1>1, <1>2, <1>3 DEF HasTransition, Target, Transition
  <2>2. s = PerformDeferred(moved)  BY <1>4, <2>1 DEF FinishDisconnecting
  <2>3. told \in Notices /\ told \in {clean.heard, "stopped"}  BY <1>3 DEF Notices, Controllers
  <2> HIDE DEF told
  <2>4. /\ moved \in Controllers /\ SameRetry(clean, moved)
        /\ moved.st = "NotConnected" /\ moved.heard = told
    BY <1>3, <2>3 DEF Controllers, States, SameRetry
  <2> HIDE DEF moved
  <2>5. Enabled(moved)  BY <2>4 DEF Enabled
  <2>6. s \in Controllers /\ SameRetry(moved, s) /\ s.st = moved.st /\ s.heard = moved.heard
    BY <2>2, <2>4, <2>5, PerformDeferredType, PerformDeferredDoes
  <2>7. QED  BY <1>2, <1>3, <2>3, <2>4, <2>6 DEF SameRetry
<1>5. ASSUME NEW r, r.st = "NotConnected", r.heard \in {Now.heard, "stopped"},
             Still(Now) => r.rc.should \/ Still(r)
      PROVE  Turn(Now, r)
  BY <1>1, <1>5 DEF Turn, Enabled, Silent, Moves, Driven
<1>6. CASE then = "notify"
  <2>1. Become(down)  BY <1>6 DEF LeaveEnds, clean, gone
  <2>2. PICK r \in down : Become({r})  BY <2>1 DEF Become
  <2>3. Turn(Now, r)  BY <1>4, <1>5, <2>2 DEF SameRetry, Still
  <2>4. QED  BY <2>2, <2>3
<1>7. CASE then # "notify"
  <2> DEFINE ended == UNION {AfterFailedConnect(s, then) : s \in down}
  <2>1. Become(ended)  BY <1>7 DEF LeaveEnds, clean, gone
  <2>2. PICK r \in ended : Become({r})
    <3> HIDE DEF ended
    <3>1. QED  BY <2>1 DEF Become
  <2>3. PICK s \in down : r \in AfterFailedConnect(s, then)  BY <2>2
  <2>4. then \in {"Retry", "Terminal"} /\ then \in Statuses
    <3>1. job[i] \in Jobs  BY DEF OrderInv, TypeOK
    <3>2. job[i].kind = "leave"  BY DEF LeaveEnds
    <3>3. QED  BY <3>1, <3>2, <1>7 DEF Jobs, Statuses
  <2> HIDE DEF ended, then, down
  <2>5. PICK q \in HandleMeetingSessionStatus(s, then) : r \in {q, [q EXCEPT !.heard = "stopped"]}
    BY <2>3 DEF AfterFailedConnect
  <2>6. s \in Controllers /\ s.st = "NotConnected" /\ Enabled(s)  BY <1>4, <2>3 DEF Enabled
  <2>7. (Still(s) => Silent(s, q)) /\ GoesOn(s, q)  BY <2>4, <2>5, <2>6, StatusDoes
  <2>8. q \in Controllers  BY <2>4, <2>5, <2>6, StatusType
  <2>9. r.st = q.st /\ SameRetry(q, r) /\ r.rc = q.rc /\ r.heard \in {q.heard, "stopped"}
    BY <2>5, <2>8 DEF Controllers, SameRetry
  <2>10. q.st = "NotConnected" /\ q.heard = s.heard  BY <2>6, <2>7 DEF GoesOn, Up
  <2>11. Turn(Now, r)
    <3>1. SameRetry(Now, s) /\ s.heard \in {Now.heard, "stopped"}  BY <1>4, <2>3
    <3>2. Still(Now) => r.rc.should \/ Still(r)
      BY <3>1, <2>7, <2>9 DEF SameRetry, Still, Silent
    <3>3. QED  BY <1>5, <2>9, <2>10, <3>1, <3>2
  <2>12. QED  BY <2>2, <2>11
<1>8. QED  BY <1>6, <1>7

-----------------------------------------------------------------------------
(* The turns.                                                               *)

TurnTaken == \E r : Become({r}) /\ Turn(Now, r)

LEMMA BecomeTaken ==
  ASSUME NEW turn, Become(turn), \A r \in turn : Turn(Now, r)
  PROVE  TurnTaken
<1>1. PICK r \in turn : Become({r})  BY DEF Become
<1>2. QED  BY <1>1 DEF TurnTaken

LEMMA PerformTaken ==
  ASSUME NEW s \in Controllers, Enabled(s), SameButSlot(Now, s),
         NEW action, NEW work, Matches(action, work), work # "retry", work # "reconnect",
         Become(Perform(s, action, work))
  PROVE  TurnTaken
<1>1. ASSUME NEW r \in Perform(s, action, work)
      PROVE  Turn(Now, r)
  <2>1. Turn(s, r)  BY PerformDoes
  <2>2. Driven(Now) => Driven(s)  BY DEF SameButSlot, Driven
  <2>3. QED
    BY <2>1, <2>2 DEF Turn, SameButSlot, SameRetry, Silent, Still, Moves, GoesOn, Free
<1>2. QED  BY <1>1, BecomeTaken

LEMMA RequestTaken ==
  ASSUME OrderInv, Enabled(Now),
         \/ Start \/ Stop \/ StartLocalVideo \/ StopLocalVideo \/ RestartLocalVideo
         \/ \E status \in Statuses : MonitorStatus(status)
         \/ MonitorUpdate \/ MonitorActive
  PROVE  TurnTaken
<1>a. Now \in Controllers /\ SameButSlot(Now, Now)
  BY NowOrder DEF SameButSlot, SameRetry
<1>b. /\ Matches("Connect", "start") /\ Matches("Disconnect", "stop")
      /\ Matches("Update", "update") /\ Matches("Update", "restart")
  BY DEF Matches
<1>c. \A t \in Tiles : LET s == [Now EXCEPT !.tile = t]
                       IN  s \in Controllers /\ SameButSlot(Now, s) /\ Enabled(s)
  BY <1>a DEF Controllers, SameButSlot, SameRetry, Enabled
<1>1. CASE Start              BY <1>1, <1>a, <1>b, PerformTaken DEF Start
<1>2. CASE Stop               BY <1>2, <1>a, <1>b, PerformTaken DEF Stop
<1>3. CASE StartLocalVideo
  <2>1. "started" \in Tiles  BY DEF Tiles
  <2>2. QED  BY <1>3, <1>b, <1>c, <2>1, PerformTaken DEF StartLocalVideo
<1>4. CASE StopLocalVideo
  <2>1. "stopped" \in Tiles  BY DEF Tiles
  <2>2. QED  BY <1>4, <1>b, <1>c, <2>1, PerformTaken DEF StopLocalVideo
<1>5. CASE RestartLocalVideo  BY <1>5, <1>a, <1>b, PerformTaken DEF RestartLocalVideo
<1>6. ASSUME NEW status \in Statuses, MonitorStatus(status)
      PROVE  TurnTaken
  <2>1. \A r \in HandleMeetingSessionStatus(Now, status) : Turn(Now, r)
    BY <1>a, StatusDoes DEF Turn, Moves
  <2>2. QED  BY <1>6, <2>1, BecomeTaken DEF MonitorStatus
<1>7. CASE MonitorUpdate      BY <1>7, <1>a, <1>b, PerformTaken DEF MonitorUpdate
<1>8. CASE MonitorActive
  <2> DEFINE s == [Now EXCEPT !.rc.active = "within"]
  <2>1. SameButSlot(Now, s)
    BY <1>a DEF SameButSlot, SameRetry, Controllers, ReconnectControllers
  <2>2. Become({s})  BY <1>8 DEF MonitorActive
  <2> HIDE DEF s
  <2>3. Turn(Now, s)  BY <2>1, NothingBegan
  <2>4. QED  BY <2>2, <2>3 DEF TurnTaken
<1>9. QED  BY <1>1, <1>2, <1>3, <1>4, <1>5, <1>6, <1>7, <1>8

LEMMA TimeTaken ==
  ASSUME OrderInv, Enabled(Now), TimerFires \/ OrphanFires \/ AttemptAges \/ ActivityAges
  PROVE  TurnTaken
<1>a. Now \in Controllers  BY NowOrder
\* A timer that fires was pending: there is nothing to show about silence.
<1>b. ASSUME NEW s \in Controllers, s.st = st, s.heard = heard, s.job = job, s.rc = rc,
             ~Still(Now), Become(Retry(s))
      PROVE  TurnTaken
  <2>1. Matches("Connect", "retry") /\ Matches("Reconnect", "reconnect")  BY DEF Matches
  <2>2. Enabled(s)  BY <1>b DEF Enabled, Now
  <2>3. ASSUME NEW r \in Retry(s)
        PROVE  Turn(Now, r)
    <3>1. Enabled(r) /\ Moves(s, r) /\ (Free(s) /\ Driven(s) => Driven(r))
      BY <2>1, <2>2, <2>3, PerformDoes DEF Retry
    <3>2. (Free(Now) => Free(s)) /\ (Driven(Now) => Driven(s))
      BY <1>b DEF Free, Driven, Now
    <3>3. Moves(Now, r)  BY <1>b, <3>1 DEF Moves, GoesOn, Now
    <3>4. QED  BY <1>b, <3>1, <3>2, <3>3 DEF Turn
  <2>4. QED  BY <1>b, <2>3, BecomeTaken
<1>1. CASE TimerFires
  <2> DEFINE s == [Now EXCEPT !.timer = FALSE]
  <2>1. /\ s \in Controllers
        /\ s.st = st /\ s.heard = heard /\ s.job = job /\ s.rc = rc
    BY <1>a DEF Controllers, Now
  <2>2. Become(Retry(s)) /\ ~Still(Now)  BY <1>1 DEF TimerFires, Still, Now
  <2> HIDE DEF s
  <2>3. QED  BY <1>b, <2>1, <2>2
<1>2. CASE OrphanFires
  <2> DEFINE s == [Now EXCEPT !.orphans = Now.orphans - 1]
  <2>1. orphans > 0 /\ orphans \in Nat /\ Now.orphans = orphans
    BY <1>2 DEF OrphanFires, OrderInv, TypeOK, Now
  <2>2. Now.orphans - 1 \in Nat /\ Now.orphans # 0  BY <2>1
  <2>3. /\ s \in Controllers
        /\ s.st = st /\ s.heard = heard /\ s.job = job /\ s.rc = rc
    BY <1>a, <2>2 DEF Controllers, Now
  <2>4. Become(Retry(s))  BY <1>2 DEF OrphanFires
  <2>5. ~Still(Now)  BY <2>2 DEF Still
  <2> HIDE DEF s
  <2>6. QED  BY <1>b, <2>3, <2>4, <2>5
<1>c. ASSUME rc'.should = rc.should, UNCHANGED <<st, slot, job, timer, orphans, tile, ssrc, heard>>
      PROVE  TurnTaken
  <2> DEFINE r == [Now EXCEPT !.rc = rc']
  <2>1. SameButSlot(Now, r)  BY <1>c DEF SameButSlot, SameRetry, Now
  <2>2. Become({r})  BY <1>c DEF Become, Now
  <2> HIDE DEF r
  <2>3. Turn(Now, r)  BY <2>1, NothingBegan
  <2>4. QED  BY <2>2, <2>3 DEF TurnTaken
<1>3. CASE AttemptAges
  <2>1. rc'.should = rc.should  BY <1>3 DEF AttemptAges, OrderInv, TypeOK
  <2>2. QED  BY <1>3, <1>c, <2>1 DEF AttemptAges
<1>4. CASE ActivityAges
  <2>1. rc'.should = rc.should  BY <1>4 DEF ActivityAges, OrderInv, TypeOK
  <2>2. QED  BY <1>4, <1>c, <2>1 DEF ActivityAges
<1>5. QED  BY <1>1, <1>2, <1>3, <1>4

\* The turn that ends a task group: if the group was the one that drives the
\* session, the turn ends the transition; if it was not, another one still does.
LEMMA JobTaken ==
  ASSUME OrderInv, Enabled(Now), NEW i \in JobIds, JobStep(i)
  PROVE  TurnTaken
<1> DEFINE retired == Retire(Now, i)
<1>a. Now \in Controllers /\ Now.st = st /\ Now.job = job /\ Now.heard = heard  BY NowOrder DEF Now
<1>b. /\ retired \in Controllers
      /\ SameRetry(Now, retired) /\ retired.st = st /\ retired.heard = heard
      /\ \A k \in JobIds : retired.job[k] = IF k = i THEN Idle ELSE job[k]
  BY <1>a, RetireType DEF Retire, Controllers, SameRetry
<1> HIDE DEF retired
\* A record that this turn looks at: the retired job is gone, little else differs.
<1> DEFINE Like(s) == /\ s \in Controllers /\ s.st = st /\ s.heard = heard
                      /\ SameRetry(Now, s) /\ s.job = retired.job
<1>c. ASSUME NEW s, Like(s)
      PROVE  /\ Enabled(s) /\ Free(s)
             /\ Still(Now) => Still(s)
             /\ \A r : Silent(s, r) <=> Silent(Now, r)
             /\ \A r : Moves(s, r) <=> Moves(Now, r)
             /\ Driven(Now) /\ (st = "Connecting" => job[i].kind \notin Connects \cup Reconnects)
                  /\ (st = "Updating" => job[i].kind \notin Updates) /\ job[i].kind # "leave"
                  => Driven(s)
  <2>1. Enabled(s)  BY <1>a, <1>c DEF SameRetry, Enabled
  <2>2. Free(s)  BY <1>b, <1>c DEF Free
  <2>3. Still(Now) => Still(s)  BY <1>c DEF SameRetry, Still
  <2>4. \A r : (Silent(s, r) <=> Silent(Now, r)) /\ (Moves(s, r) <=> Moves(Now, r))
    BY <1>a, <1>c DEF Silent, Moves, GoesOn
  <2>5. ASSUME Driven(Now), st = "Connecting" => job[i].kind \notin Connects \cup Reconnects,
               st = "Updating" => job[i].kind \notin Updates, job[i].kind # "leave"
        PROVE  Driven(s)
    <3>1. \A k \in JobIds : k # i => s.job[k] = Now.job[k]  BY <1>a, <1>b, <1>c
    <3>2. QED  BY <1>a, <1>c, <2>5, <3>1 DEF Driven
  <2>6. QED  BY <2>1, <2>2, <2>3, <2>4, <2>5
<1>d. Like(retired) /\ \A s \in Subscribed(retired) : Like(s)
  <2>1. Like(retired)  BY <1>b
  <2>2. ASSUME NEW s \in Subscribed(retired)
        PROVE  Like(s)
    <3>1. s \in Controllers  BY <1>b, ReconnectControllerType
    <3>2. s.st = retired.st /\ s.heard = retired.heard /\ SameRetry(retired, s) /\ s.job = retired.job
      BY <1>b DEF Subscribed, Controllers, SameRetry
    <3>3. QED  BY <1>b, <3>1, <3>2 DEF SameRetry
  <2>3. QED  BY <2>1, <2>2
<1> HIDE DEF Like
<1>e. ASSUME NEW s, Like(s), NEW r,
             Enabled(r) /\ (Still(s) => Silent(s, r)) /\ Moves(s, r) /\ Driven(r)
      PROVE  Turn(Now, r)
  BY <1>c, <1>e DEF Turn
\* The turn finds no transition to end.
<1>f. ASSUME NEW s, Like(s), st = "Connecting" => job[i].kind \notin Connects \cup Reconnects,
             st = "Updating" => job[i].kind \notin Updates, job[i].kind # "leave"
      PROVE  Turn(Now, s)
  <2>1. Turn(s, s)
    BY <1>c, <1>f, NothingBegan DEF SameButSlot, SameRetry
  <2>2. QED  BY <1>c, <1>f, <2>1 DEF Turn
<1>g. st \in States  BY DEF OrderInv, TypeOK
<1>h. {"Retry", "Terminal", "Incompatible"} \subseteq Statuses  BY DEF Statuses
<1>i. \A kind : /\ kind \in {"opening", "joining"} => kind \in Connects
                /\ kind \in {"reopening", "rejoining"} => kind \in Reconnects
                /\ kind \in Connects \cup Reconnects => kind \notin Updates /\ kind # "leave"
                /\ kind \in Updates => kind \notin Connects \cup Reconnects /\ kind # "leave"
  BY DEF Connects, Reconnects, Updates
<1>1. CASE SocketOpens(i)
  <2> DEFINE r == [Now EXCEPT !.job = job']
  <2>1. SameRetry(Now, r) /\ r.st = st /\ r.heard = heard /\ r.job = job'
    BY DEF SameRetry, Now
  <2>2. Become({r})  BY <1>1 DEF SocketOpens, Become, Now
  <2> HIDE DEF r
  <2>3. \A k \in JobIds : /\ k # i => job'[k] = job[k]
                          /\ job'[i].kind \in {"joining", "rejoining"} /\ ~job'[i].lost
                          /\ job[i].kind \in {"opening", "reopening"}
    <3>1. job[i] \in Jobs /\ job \in [JobIds -> Jobs]  BY DEF OrderInv, TypeOK
    <3>2. QED  BY <1>1, <3>1 DEF SocketOpens, Jobs
  <2>4. Driven(Now) => Driven(r)
    <3>1. Driven(Now) /\ st = "Connecting" =>
            \E k \in JobIds : job'[k].kind \in Connects \cup Reconnects /\ ~job'[k].lost
      BY <1>a, <1>i, <2>3 DEF Driven
    <3>2. Driven(Now) /\ st = "Updating" => \E k \in JobIds : job'[k].kind \in Updates
      BY <1>a, <1>i, <2>3 DEF Driven
    <3>3. Driven(Now) /\ st = "Disconnecting" => \E k \in JobIds : job'[k].kind = "leave"
      BY <1>a, <1>i, <2>3 DEF Driven
    <3>4. QED  BY <2>1, <3>1, <3>2, <3>3 DEF Driven
  <2>5. Turn(Now, r)
    BY <1>a, <2>1, <2>4 DEF Turn, Enabled, Silent, Still, SameRetry, Moves, GoesOn
  <2>6. QED  BY <2>2, <2>5 DEF TurnTaken
<1>2. CASE ConnectSucceeds(i)
  <2>1. job[i].kind \in Connects \cup Reconnects  BY <1>2, <1>i DEF ConnectSucceeds
  <2>2. ASSUME NEW s \in Subscribed(retired), NEW r \in FinishConnecting(s)
        PROVE  Turn(Now, r)
    <3>1. Like(s) /\ s \in Controllers /\ s.st = st  BY <1>d DEF Like
    <3>2. CASE st = "Connecting"  BY <1>c, <1>e, <2>2, <3>1, <3>2, FinishConnectingDoes
    <3>3. CASE st # "Connecting"
      <4>1. ~HasTransition(s.st, "FinishConnecting")
        BY <1>g, <3>1, <3>3 DEF HasTransition, Target, Transition, States
      <4>2. r = s  BY <2>2, <4>1 DEF FinishConnecting
      <4>3. QED  BY <1>f, <1>i, <2>1, <3>1, <3>3, <4>2
    <3>4. QED  BY <3>2, <3>3
  <2>3. QED  BY <1>2, <2>2, BecomeTaken DEF ConnectSucceeds, retired
<1>3. ASSUME NEW status, ConnectFails(i, status)
      PROVE  TurnTaken
  <2> DEFINE work == IF status = "Retry" THEN "failedRetry" ELSE "failedTerminal"
  <2>1. job[i].kind \in Connects \cup Reconnects  BY <1>3 DEF ConnectFails
  <2>2. Matches("Fail", work) /\ work \notin {"start", "retry", "reconnect"}  BY DEF Matches
  <2>3. Become(Perform(retired, "Fail", work))  BY <1>3 DEF ConnectFails, retired
  <2> HIDE DEF work
  <2>4. ASSUME NEW r \in Perform(retired, "Fail", work)
        PROVE  Turn(Now, r)
    <3>1. Like(retired) /\ retired \in Controllers /\ retired.st = st  BY <1>d DEF Like
    <3>2. CASE Began(retired, "Fail", work, r)
      <4>1. Turn(retired, r)  BY <1>c, <2>2, <3>1, PerformDoes
      <4>2. Driven(r)  BY <1>c, <3>1, <3>2 DEF Began
      <4>3. QED  BY <1>e, <3>1, <4>1, <4>2 DEF Turn
    <3>3. CASE ~HasTransition(retired.st, "Fail") /\ SameButSlot(retired, r)
      <4>1. st # "Connecting" /\ st # "Updating"
        BY <3>1, <3>3 DEF HasTransition, Target, Transition
      <4>2. Turn(Now, retired)  BY <1>f, <1>i, <2>1, <3>1, <4>1
      <4>3. Driven(retired) => Driven(r)  BY <3>3 DEF SameButSlot, Driven
      <4>4. QED
        BY <3>3, <4>2, <4>3
           DEF Turn, SameButSlot, SameRetry, Enabled, Silent, Still, Moves, GoesOn
    <3>4. QED  BY <2>2, <3>1, <3>2, <3>3, PerformBegins
  <2>5. QED  BY <2>3, <2>4, BecomeTaken
<1>4. ASSUME NEW status \in {"Retry", "Terminal"}, ReconnectFails(i, status)
      PROVE  TurnTaken
  <2>1. job[i].kind \in Connects \cup Reconnects  BY <1>4 DEF ReconnectFails
  <2>2. ASSUME NEW s \in Subscribed(retired), NEW r \in FinishConnectingFailed(s, status)
        PROVE  Turn(Now, r)
    <3>1. Like(s) /\ s \in Controllers /\ s.st = st  BY <1>d DEF Like
    <3>2. CASE st = "Connecting"  BY <1>c, <1>e, <1>h, <2>2, <3>1, <3>2, FinishFailedDoes
    <3>3. CASE st # "Connecting"
      <4>1. ~HasTransition(s.st, "FinishConnecting")
        BY <1>g, <3>1, <3>3 DEF HasTransition, Target, Transition, States
      <4>2. r = s  BY <2>2, <4>1 DEF FinishConnectingFailed
      <4>3. QED  BY <1>f, <1>i, <2>1, <3>1, <3>3, <4>2
    <3>4. QED  BY <3>2, <3>3
  <2>3. QED  BY <1>4, <2>2, BecomeTaken DEF ReconnectFails, retired
<1>5. ASSUME NEW s, Like(s), job[i].kind \in {"update", "restartStart"},
             NEW turn, Become(turn),
             \/ turn = FinishUpdating(s)
             \/ \E status \in Statuses : turn = FinishUpdatingFailed(s, status)
      PROVE  TurnTaken
  <2>1. job[i].kind \in Updates  BY <1>5 DEF Updates
  <2>2. s \in Controllers /\ s.st = st  BY <1>5 DEF Like
  <2>3. ASSUME NEW r \in turn
        PROVE  Turn(Now, r)
    <3>1. CASE st = "Updating"
      BY <1>c, <1>e, <1>5, <2>2, <2>3, <3>1, FinishUpdatingDoes, FinishFailedDoes
    <3>2. CASE st # "Updating"
      <4>1. ~HasTransition(s.st, "FinishUpdating")
        BY <1>g, <2>2, <3>2 DEF HasTransition, Target, Transition, States
      <4>2. r = s  BY <1>5, <2>3, <4>1 DEF FinishUpdating, FinishUpdatingFailed
      <4>3. QED  BY <1>f, <1>i, <1>5, <2>1, <3>2, <4>2
    <3>3. QED  BY <3>1, <3>2
  <2>4. QED  BY <1>5, <2>3, BecomeTaken
<1>6. CASE UpdateSucceeds(i)
  BY <1>5, <1>6, <1>d DEF UpdateSucceeds, retired
<1>7. CASE UpdateFails(i)
  BY <1>5, <1>7, <1>d, <1>h DEF UpdateFails, retired
<1>8. CASE UpdateIsIncompatible(i)
  <2> DEFINE other == [retired EXCEPT !.ssrc = FALSE]
  <2>1. Become(FinishUpdatingFailed(other, "Incompatible")) /\ job[i].kind \in {"update", "restartStart"}
    BY <1>8 DEF UpdateIsIncompatible, retired
  <2>2. Like(other)  BY <1>b DEF Like, Controllers, SameRetry
  <2> HIDE DEF other
  <2>3. QED  BY <1>5, <1>h, <2>1, <2>2
\* restartVideo's own update: the job stays, with what the turn has left of it.
<1>9. ASSUME NEW s \in Subscribed(Now)
      PROVE  /\ s \in Controllers /\ s.st = st /\ s.heard = heard /\ s.job = job
             /\ SameRetry(Now, s) /\ Enabled(s)
             /\ (Driven(s) <=> Driven(Now)) /\ (Free(s) <=> Free(Now))
             /\ \A r : (Silent(s, r) <=> Silent(Now, r)) /\ (Moves(s, r) <=> Moves(Now, r))
  <2>1. s \in Controllers  BY <1>a, ReconnectControllerType
  <2>2. s.st = st /\ s.heard = heard /\ s.job = job /\ SameRetry(Now, s)
    BY <1>a DEF Subscribed, Controllers, SameRetry
  <2>3. Enabled(s)  BY <1>a, <2>2 DEF SameRetry, Enabled
  <2>4. (Driven(s) <=> Driven(Now)) /\ (Free(s) <=> Free(Now))
    BY <1>a, <2>2 DEF Driven, Free
  <2>5. \A r : (Silent(s, r) <=> Silent(Now, r)) /\ (Moves(s, r) <=> Moves(Now, r))
    BY <1>a, <2>2 DEF Silent, Moves, GoesOn
  <2>6. QED  BY <2>1, <2>2, <2>3, <2>4, <2>5
<1>10. CASE RestartStopSucceeds(i)
  <2>1. job[i].kind \in Updates  BY <1>10 DEF RestartStopSucceeds, Updates
  <2>2. ASSUME NEW s \in Subscribed(Now), NEW r \in RestartContinues(s, i)
        PROVE  Turn(Now, r)
    <3>1. /\ SameRetry(s, r) /\ Enabled(r) /\ r.heard = s.heard
          /\ r.st = s.st \/ (s.st = "Connected" /\ r.st = "Updating")
          /\ Driven(s) /\ s.job[i].kind \in Updates /\ (s.st = "Connected" => Free(s)) => Driven(r)
      BY <1>9, <2>2, RestartContinuesDoes
    <3>2. Still(Now) => Silent(Now, r)
      BY <1>a, <1>9, <2>2, <3>1 DEF Silent, Still, SameRetry
    <3>3. Moves(Now, r)  BY <1>a, <1>9, <2>2, <3>1 DEF Moves, GoesOn, Up
    <3>4. QED  BY <1>9, <2>1, <2>2, <3>1, <3>2, <3>3 DEF Turn
  <2>3. QED  BY <1>10, <2>2, BecomeTaken DEF RestartStopSucceeds
<1>11. CASE RestartStopFails(i)
  <2>1. job[i].kind \in Updates  BY <1>11 DEF RestartStopFails, Updates
  <2>2. PICK s \in Subscribed(Now) : \E failed \in FinishUpdatingFailed(s, "Retry") :
          Become(RestartContinues(failed, i))
    BY <1>11 DEF RestartStopFails
  <2>3. PICK failed \in FinishUpdatingFailed(s, "Retry") : Become(RestartContinues(failed, i))
    BY <2>2
  <2>4. failed \in Controllers  BY <1>9, <1>h, <2>2, <2>3, FinishFailedType
  <2>5. /\ Enabled(failed) /\ (Still(Now) => Silent(Now, failed)) /\ Moves(Now, failed)
        /\ Free(Now) /\ Driven(Now) => Driven(failed)
        /\ Free(Now) => failed.job[i].kind \in Updates
        /\ failed.st = "Connected" => failed.job = job
        /\ failed = s \/ st = "Updating"
    <3>1. CASE st = "Updating"
      <4>1. /\ Enabled(failed) /\ (Still(s) => Silent(s, failed)) /\ Moves(s, failed)
            /\ Free(s) => Driven(failed) /\ SameUpdates(s, failed)
            /\ failed.st = "Connected" => failed.job = s.job
        BY <1>9, <1>h, <2>2, <2>3, <3>1, FinishFailedDoes
      <4>2. QED  BY <1>9, <2>1, <2>2, <3>1, <4>1 DEF SameUpdates, SameRetry, Still
    <3>2. CASE st # "Updating"
      <4>1. ~HasTransition(s.st, "FinishUpdating")
        BY <1>9, <1>g, <2>2, <3>2 DEF HasTransition, Target, Transition, States
      <4>2. failed = s  BY <2>3, <4>1 DEF FinishUpdatingFailed
      <4>3. Turn(s, s)  BY <1>9, <2>2, NothingBegan DEF SameButSlot, SameRetry
      <4>4. QED  BY <1>9, <2>1, <2>2, <4>2, <4>3 DEF Turn, SameRetry, Still
    <3>3. QED  BY <3>1, <3>2
  <2>6. ASSUME NEW r \in RestartContinues(failed, i)
        PROVE  Turn(Now, r)
    <3>1. /\ SameRetry(failed, r) /\ Enabled(r) /\ r.heard = failed.heard
          /\ r.st = failed.st \/ (failed.st = "Connected" /\ r.st = "Updating")
          /\ Driven(failed) /\ failed.job[i].kind \in Updates
               /\ (failed.st = "Connected" => Free(failed)) => Driven(r)
      BY <2>4, <2>5, <2>6, RestartContinuesDoes
    <3>2. Still(Now) => Silent(Now, r)
      BY <2>5, <3>1 DEF Silent, Still, SameRetry
    <3>3. Moves(Now, r)
      BY <1>a, <1>9, <2>2, <2>5, <3>1 DEF Moves, GoesOn, Up
    <3>4. Free(Now) /\ failed.st = "Connected" => Free(failed)
      BY <1>a, <2>5 DEF Free
    <3>5. QED  BY <2>5, <3>1, <3>2, <3>3, <3>4 DEF Turn
  <2>7. QED  BY <2>3, <2>6, BecomeTaken
<1>12. CASE LeaveEnds(i)
  BY <1>12, LeaveDoes DEF TurnTaken
<1>13. QED
  BY <1>1, <1>2, <1>3, <1>4, <1>6, <1>7, <1>8, <1>10, <1>11, <1>12 DEF JobStep

-----------------------------------------------------------------------------
(* The theorems.                                                            *)

LEMMA StepTaken == OrderInv /\ Enabled(Now) /\ Next => TurnTaken
<1>1. {"Retry", "Terminal", "ViewOnly"} \subseteq Statuses  BY DEF Statuses
<1>2. QED  BY <1>1, RequestTaken, TimeTaken, JobTaken DEF Next

\* What a turn means for the variables.
LEMMA TakenMeans ==
  ASSUME TurnTaken
  PROVE  /\ Enabled(Now)'
         /\ ~rc'.should /\ ~timer /\ orphans = 0 =>
              /\ ~timer' /\ orphans' = 0
              /\ st' = "Connecting" => st = "Connecting"
         /\ [Lifecycle!Next]_(Lifecycle!vars)
         /\ Free(Now) /\ BusyHasDriver => BusyHasDriver'
<1>1. PICK r : Become({r}) /\ Turn(Now, r)  BY DEF TurnTaken
<1>2. /\ st' = r.st /\ job' = r.job /\ rc' = r.rc
      /\ timer' = r.timer /\ orphans' = r.orphans /\ heard' = r.heard
  BY <1>1 DEF Become
<1>3. Enabled(Now)'  BY <1>1, <1>2 DEF Turn, Enabled, Now
<1>4. ~rc'.should /\ ~timer /\ orphans = 0 =>
        /\ ~timer' /\ orphans' = 0
        /\ st' = "Connecting" => st = "Connecting"
  BY <1>1, <1>2 DEF Turn, Silent, Still, Now
<1>5. [Lifecycle!Next]_(Lifecycle!vars)
  BY <1>1, <1>2
     DEF Turn, Moves, GoesOn, Up, Now, Lifecycle!Next, Lifecycle!vars,
         Lifecycle!Open, Lifecycle!Work, Lifecycle!Close, Lifecycle!Closed
<1>6. Free(Now) /\ BusyHasDriver => BusyHasDriver'
  <2>1. BusyHasDriver => Driven(Now)  BY DEF BusyHasDriver, Driven, Now
  <2>2. Driven(r) => BusyHasDriver'  BY <1>2 DEF BusyHasDriver, Driven
  <2>3. QED  BY <1>1, <2>1, <2>2 DEF Turn
<1>7. QED  BY <1>3, <1>4, <1>5, <1>6

\* The inductive invariant: reconnecting is enabled in every session that is up
\* and can begin anything.
LEMMA EnabledInvariant == Spec => []Enabled(Now)
<1>1. Init => Enabled(Now)  BY DEF Init, Enabled, Now, FreshRC
<1>2. OrderInv /\ Enabled(Now) /\ [Next]_vars => Enabled(Now)'
  <2> SUFFICES ASSUME OrderInv, Enabled(Now), [Next]_vars PROVE Enabled(Now)'
    OBVIOUS
  <2>1. CASE UNCHANGED vars  BY <2>1 DEF vars, Enabled, Now
  <2>2. CASE Next            BY <2>2, StepTaken, TakenMeans
  <2>3. QED  BY <2>1, <2>2
<1>3. QED  BY <1>1, <1>2, OrderInvariant, PTL DEF Spec

\* Once reconnecting is disabled, and no backoff timer is pending, no turn leaves
\* a timer behind or starts a connection, until start() enables it again:
\* disableReconnect() is looked at on every path to a retry.
THEOREM DisabledStaysSilent == Spec => NoRetryOnceDisabled
<1>1. OrderInv /\ Enabled(Now) /\ [Next]_vars =>
        [~rc'.should /\ ~timer /\ orphans = 0 =>
           /\ ~timer' /\ orphans' = 0
           /\ st' = "Connecting" => st = "Connecting"]_vars
  BY StepTaken, TakenMeans
<1>2. QED  BY <1>1, OrderInvariant, EnabledInvariant, PTL DEF Spec, NoRetryOnceDisabled

\* Every turn of the controller is a step of the session's life that an
\* application can expect, or none: one teardown between two sessions, and no
\* notification from a session that is going or gone.
THEOREM LifecycleIsImplemented == Spec => Lifecycle!Spec
<1>1. Init => Lifecycle!Init  BY DEF Init, Lifecycle!Init
<1>2. OrderInv /\ Enabled(Now) /\ [Next]_vars => [Lifecycle!Next]_(Lifecycle!vars)
  <2> SUFFICES ASSUME OrderInv, Enabled(Now), [Next]_vars
               PROVE  [Lifecycle!Next]_(Lifecycle!vars)
    OBVIOUS
  <2>1. CASE UNCHANGED vars  BY <2>1 DEF vars, Lifecycle!vars
  <2>2. CASE Next            BY <2>2, StepTaken, TakenMeans
  <2>3. QED  BY <2>1, <2>2
<1>3. QED  BY <1>1, <1>2, OrderInvariant, EnabledInvariant, PTL DEF Spec, Lifecycle!Spec

\* While the model has a number for a new task group (its bound MaxJobs is not
\* reached), a transition in progress has a group that will end it: the session
\* is not left Connecting, Updating or Disconnecting for ever.
THEOREM BusyIsDriven == Spec /\ [](\E i \in JobIds : job[i] = Idle) => []BusyHasDriver
<1>1. Init => BusyHasDriver  BY DEF Init, BusyHasDriver
<1>2. OrderInv /\ Enabled(Now) /\ (\E i \in JobIds : job[i] = Idle) /\ BusyHasDriver /\ [Next]_vars
        => BusyHasDriver'
  <2> SUFFICES ASSUME OrderInv, Enabled(Now), \E i \in JobIds : job[i] = Idle,
                      BusyHasDriver, [Next]_vars
               PROVE  BusyHasDriver'
    OBVIOUS
  <2>1. CASE UNCHANGED vars  BY <2>1 DEF vars, BusyHasDriver
  <2>2. CASE Next
    <3>1. Free(Now)  BY DEF Free, Now
    <3>2. QED  BY <2>2, <3>1, StepTaken, TakenMeans
  <2>3. QED  BY <2>1, <2>2
<1>3. QED  BY <1>1, <1>2, OrderInvariant, EnabledInvariant, PTL DEF Spec

=============================================================================
