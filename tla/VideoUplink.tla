---------------------------- MODULE VideoUplink -----------------------------
(* What the camera sends: the uplink policy (SimulcastUplinkPolicy with its   *)
(* SimulcastVideoStreamIndex and SimulcastTransceiverController, or           *)
(* NScaleVideoUplinkBandwidthPolicy), the tasks of an update that carry its    *)
(* decision to the sender and to the server, and the index frames, bitrate    *)
(* frames and metric reports that arrive between their turns.                 *)
(* A turn of the event loop is a composition of operators on a record of the  *)
(* variables. The session goes by the table of SessionState, from Connected.  *)
EXTENDS SessionState, FiniteSets

CONSTANTS
  Participants,  \* numbers of senders of video, this one included
  Uplinks,       \* values of the averaged uplink bandwidth, in kbps
  Ideals,        \* values for setIdealMaxBandwidthKbps
  Layers,        \* the simulcast layers whose sending is followed: 1 low, 2 mid, 3 hi
  MaxChanges     \* bound: what the application, the network and others change

ASSUME UplinkAssumption ==
  /\ Participants # {} /\ Uplinks # {} /\ 1400 \in Ideals
  /\ Participants \cup Uplinks \cup Ideals \subseteq Nat \ {0}
  /\ Layers \subseteq 1..3 /\ MaxChanges \in Nat

VARIABLES
  simulcast,  \* enableSimulcast
  session, deferred,   \* DefaultSessionStateController
  phase,      \* the task of the update or reconnection that runs
  retry,      \* a timer of the reconnect controller is set
  duplex,     \* videoDuplexMode
  camera,     \* hasStartedLocalVideoTile()
  input,      \* activeVideoInput is not null
  policy,     \* the uplink policy
  param,      \* context.videoCaptureAndEncodeParameter
  info,       \* the local stream descriptions of the index
  seen,       \* streamIdToBitrateKbpsMap of the streams of this attendee
  sender,     \* the camera's RTCRtpSender
  told,       \* the descriptions in the last subscription
  flowing,    \* the layers that the browser is able to send
  stale,      \* history: settings changed, and whether an index frame has come since
  changes     \* how much has changed, for MaxChanges

vars == <<simulcast, session, deferred, phase, retry, duplex, camera, input, policy,
          param, info, seen, sender, told, flowing, stale, changes>>

World == [session |-> session, deferred |-> deferred, phase |-> phase, retry |-> retry,
          duplex |-> duplex, camera |-> camera, input |-> input, policy |-> policy,
          param |-> param, info |-> info, seen |-> seen, sender |-> sender, told |-> told]

Become(next) ==
  \E w \in {next} :
    /\ session' = w.session /\ deferred' = w.deferred /\ phase' = w.phase
    /\ retry' = w.retry /\ duplex' = w.duplex /\ camera' = w.camera /\ input' = w.input
    /\ policy' = w.policy /\ param' = w.param /\ info' = w.info /\ seen' = w.seen
    /\ sender' = w.sender /\ told' = w.told /\ UNCHANGED simulcast

Keep == UNCHANGED <<flowing, stale, changes>>
Change == changes < MaxChanges /\ changes' = changes + 1

-----------------------------------------------------------------------------
(* The policies.                                                             *)

\* calculateEncodingParameters: the bitrates of low, mid and hi; 0 is inactive.
Encodings(n, kbps) ==
  IF n <= 2 /\ kbps >= 1600 THEN <<300, 0, 1200>>
  ELSE IF n <= 2 /\ kbps >= 1100 THEN <<200, 0, 900>>
  ELSE IF n <= 4 /\ kbps >= 600 THEN <<200, 0, 600>>
  ELSE <<200, 400, 0>>

\* fillMediaTrackConstraints: the width that is asked of the camera.
Width(n, kbps) ==
  IF n <= 2 /\ kbps >= 1100 THEN 1280 ELSE IF n <= 4 /\ kbps >= 600 THEN 960 ELSE 1280

\* maxBandwidthKbps of the n-scale policy, whose division is exact before it is
\* truncated.
MaxBandwidthKbps(p) ==
  IF p.priority \/ p.num <= 2 THEN p.ideal
  ELSE IF p.num <= 4 THEN (2 * p.ideal) \div 3
  ELSE ((544 * p.num + 14880) * p.ideal) \div (6600 * p.num)

Recalculate(p) ==
  [p EXCEPT !.wanted = Encodings(p.num, p.kbps), !.newWidth = Width(p.num, p.kbps)]

\* updateIndex
UpdateIndex(p, n) ==
  LET counted == [p EXCEPT !.num = n]
  IN  IF simulcast THEN Recalculate(counted)
      ELSE [counted EXCEPT !.optimal = [width |-> IF n > 4 THEN 320 ELSE 640,
                                        rate  |-> MaxBandwidthKbps(counted)]]

\* updateConnectionMetric: nothing is decided for a while after a resubscription.
UpdateConnectionMetric(p, kbps) ==
  LET measured == [p EXCEPT !.kbps = kbps]
  IN  IF ~simulcast THEN p ELSE IF p.held THEN measured ELSE Recalculate(measured)

\* chooseEncodingParameters, chooseMediaTrackConstraints, chooseCaptureAndEncodeParameters
ChooseEncodings(p) == IF simulcast THEN [p EXCEPT !.current = p.wanted] ELSE p
ChooseConstraints(p) == IF simulcast THEN [p EXCEPT !.width = p.newWidth] ELSE p
ChooseCapture_NotInEffect(p) == p   \* mutant: what is chosen is not taken down
ChooseCapture(p) == [p EXCEPT !.inEffect = p.optimal]

\* localStreamDescriptions, as the policy compares them: by stream id.
Descriptions(w) ==
  [l \in Layers |-> CASE ~w.info.allocated  -> "none"
                      [] w.info.allocated /\ l \in w.info.off -> "off"
                      [] OTHER -> "on"]

Wants(w) ==
  IF ~simulcast THEN w.policy.inEffect # w.policy.optimal
  ELSE \/ w.policy.width # w.policy.newWidth
       \/ w.policy.wanted # w.policy.current
       \/ \E l \in Layers : {w.policy.known[l], Descriptions(w)[l]} = {"on", "off"}

\* wantsResubscribe also remembers what it has compared, and when it said yes.
Asked(w) ==
  IF ~simulcast THEN w
  ELSE [w EXCEPT !.policy.held = @ \/ Wants(w), !.policy.known = Descriptions(w)]

-----------------------------------------------------------------------------
(* The session.                                                              *)

\* ReceiveVideoInputTask until it waits for the device.
ReceiveVideoInput(w) ==
  [w EXCEPT !.duplex = IF w.camera THEN "DUPLEX" ELSE "RX",
            !.policy = ChooseCapture(@), !.param = w.policy.optimal,
            !.input  = @ /\ w.camera,
            !.phase  = IF w.camera THEN "device" ELSE "attach"]

\* CleanRestartedSessionTask: the peer connection is closed, the transceivers go.
CleanRestartedSession(w) ==
  [w EXCEPT !.phase = "open", !.info.fresh = TRUE,
            !.sender = [on |-> FALSE, rates |-> <<200, 400, 1100>>, limit |-> 0]]

\* The work of an action that has found its transition.
Work(w, action) ==
  CASE action = "Update"    -> ReceiveVideoInput(w)
    [] action = "Reconnect" -> CleanRestartedSession(w)
    [] OTHER                -> w

Perform_Drops(w, action) ==   \* mutant: an update during another one is dropped
  IF HasTransition(w.session, action)
  THEN Work([w EXCEPT !.session = Target(w.session, action)], action)
  ELSE w
\* perform()
Perform(w, action) ==
  IF HasTransition(w.session, action)
  THEN Work([w EXCEPT !.session = Target(w.session, action)], action)
  ELSE IF CanDefer(w.session, action) /\ ~KeepsDeferred(w.deferred, action)
  THEN [w EXCEPT !.deferred = action]
  ELSE w

\* FinishUpdating or FinishConnecting, and then performDeferredAction().
Finish(w) ==
  LET done == Perform([w EXCEPT !.phase = "idle"],
                      IF w.session = "Updating" THEN "FinishUpdating" ELSE "FinishConnecting")
  IN  IF w.deferred = "none" THEN done
      ELSE Perform([done EXCEPT !.deferred = "none"], w.deferred)

\* setVideoSendingBitrateKbps: only for a transceiver that sends, and a bitrate.
Enforce(w, rate) ==
  IF ~simulcast /\ w.sender.on /\ rate > 0 THEN [w EXCEPT !.sender.limit = rate] ELSE w

-----------------------------------------------------------------------------
(* An update, and the last part of a reconnection.                           *)

\* integrateUplinkPolicyDecision: what WebRTC has disabled is forgotten.
Integrate(i, rates) == [i EXCEPT !.rates = rates, !.off = {}]

\* The device is there, or is not: the decision goes to the index, whose
\* descriptions the server will be told, and to the camera.
DeviceAnswers(granted) ==
  /\ phase = "device"
  /\ IF granted THEN Keep ELSE Change /\ UNCHANGED <<flowing, stale>>
  /\ LET chosen == ChooseEncodings(policy)
     IN  Become([World EXCEPT
           !.phase  = "attach", !.input = granted,
           !.policy = IF granted THEN ChooseConstraints(chosen) ELSE chosen,
           !.info   = IF simulcast THEN Integrate(@, chosen.current) ELSE @])

\* AttachMediaInputTask: the policy is asked again, for the sender.
AttachMediaInput ==
  /\ phase = "attach"
  /\ LET chosen == ChooseEncodings(policy)
     IN  Become(IF input
                THEN [World EXCEPT !.phase = "subscribe", !.policy = chosen, !.sender.on = TRUE,
                                   !.sender.rates = IF simulcast THEN chosen.current ELSE @]
                ELSE [World EXCEPT !.phase = "subscribe", !.sender.on = FALSE])
  /\ Keep

\* SubscribeAndReceiveSubscribeAckTask
Subscribe ==
  /\ phase = "subscribe"
  /\ LET described == IF simulcast THEN info ELSE [info EXCEPT !.rates = <<param.rate>>]
     IN  Become([World EXCEPT !.phase = "ack", !.info = described, !.told = described.rates])
  /\ Keep

\* integrateSubscribeAckFrame: the server allocates stream ids anew for a new
\* connection; the policy has not seen those.
SubscribeAck ==
  /\ phase = "ack"
  /\ LET new == ~info.allocated \/ info.fresh
     IN  Become([World EXCEPT
           !.phase = "finish", !.info.allocated = simulcast, !.info.fresh = FALSE,
           !.seen = [l \in Layers |-> IF new \/ seen[l] = "absent" THEN "unseen" ELSE seen[l]],
           !.policy.known = IF new THEN [l \in Layers |-> "none"] ELSE @])
  /\ Keep

FinishUpdate_NotEnforced ==   \* mutant: the bitrate is set when connecting only
  /\ phase = "finish"
  /\ Become(Finish(IF session = "Connecting" THEN Enforce([World EXCEPT !.duplex = "RX"], param.rate)
                   ELSE World))
  /\ stale' = IF stale = "indexed" THEN "no" ELSE stale
  /\ UNCHANGED <<flowing, changes>>
\* actionFinishUpdating, actionFinishConnecting
FinishUpdate ==
  /\ phase = "finish"
  /\ Become(Finish(Enforce(IF session = "Connecting" THEN [World EXCEPT !.duplex = "RX"] ELSE World,
                           param.rate)))
  /\ stale' = IF stale = "indexed" THEN "no" ELSE stale
  /\ UNCHANGED <<flowing, changes>>

\* A time-out, an error or a canceled task: a status that is retried.
UpdateFails ==
  /\ phase \in {"open", "peer", "subscribe", "ack", "finish"} /\ Change
  /\ Become(Finish([World EXCEPT !.retry = TRUE]))
  /\ UNCHANGED <<flowing, stale>>

\* CreatePeerConnectionTask has run, and ReceiveVideoInputTask starts.
PeerConnected ==
  /\ phase = "peer"
  /\ Become(ReceiveVideoInput(World))
  /\ Keep

RetryFires ==
  /\ retry
  /\ Become(Perform([World EXCEPT !.retry = FALSE], "Reconnect"))
  /\ Keep

ConnectionFails ==
  /\ ~retry /\ Change
  /\ Become([World EXCEPT !.retry = TRUE])
  /\ UNCHANGED <<flowing, stale>>

-----------------------------------------------------------------------------
(* What arrives meanwhile.                                                   *)

\* integrateIndexFrame: own streams that the frame lacks are forgotten.
IndexOwnStreams(s, own) ==
  [l \in Layers |-> CASE l \notin own -> "absent"
                      [] l \in own /\ s[l] = "absent" -> "unseen"
                      [] OTHER -> s[l]]

\* ReceiveVideoStreamIndexTask; the downlink policy may want to resubscribe too.
HandleIndexFrame(w, n, own, down) ==
  LET indexed == [w EXCEPT !.policy = UpdateIndex(@, n), !.seen = IndexOwnStreams(@, own)]
      up      == indexed.duplex = "DUPLEX" /\ Wants(indexed)
      asked   == IF indexed.duplex = "DUPLEX" THEN Asked(indexed) ELSE indexed
  IN  IF up \/ down
      THEN Perform([asked EXCEPT !.policy = ChooseCapture(@), !.param = asked.policy.optimal], "Update")
      ELSE asked

\* The first frame of a new connection, for which JoinAndReceiveIndexTask waits,
\* comes here as well.
IndexFrame(n, own, down) ==
  /\ own = {} \/ (info.allocated /\ ~info.fresh /\ own = Layers)
  /\ IF n # policy.num \/ down THEN Change ELSE UNCHANGED changes
  /\ Become(HandleIndexFrame(IF phase = "open" THEN [World EXCEPT !.phase = "peer"] ELSE World,
                             n, own, down))
  /\ stale' = IF stale = "yes" THEN "indexed" ELSE stale
  /\ UNCHANGED flowing

\* integrateBitratesFrame: a layer that was reported once is taken for disabled by
\* WebRTC as soon as a frame lacks it, a new one with the second frame.
BitrateFrame ==
  /\ simulcast /\ phase \notin {"open", "peer"} /\ info.allocated
  /\ LET reported == {l \in flowing : sender.on /\ sender.rates[l] > 0}
         after == [l \in Layers |-> CASE l \in reported -> "sending"
                                     [] l \notin reported /\ seen[l] = "absent" -> "absent"
                                     [] l \notin reported /\ seen[l] = "unseen" -> "inactive"
                                     [] OTHER -> "silent"]
         enabled == {l \in Layers : info.rates[l] > 0}
     IN  Become([World EXCEPT !.seen = after,
                   !.info.off = (@ \ enabled) \cup {l \in enabled : after[l] \in {"absent", "silent"}}])
  /\ Keep

\* MonitorTask.metricsDidReceive and checkResubscribe: the choice is made at once,
\* the update may have to wait.
MetricReport(kbps, down) ==
  /\ phase \notin {"open", "peer"}
  /\ IF (simulcast /\ kbps # policy.kbps) \/ down THEN Change ELSE UNCHANGED changes
  /\ LET measured == [World EXCEPT !.policy = UpdateConnectionMetric(@, kbps)]
         asked    == IF Wants(measured)
                     THEN [Asked(measured) EXCEPT !.policy = ChooseConstraints(ChooseEncodings(@))]
                     ELSE Asked(measured)
     IN  CASE camera -> Become(IF Wants(measured) \/ down THEN Perform(asked, "Update") ELSE asked)
           [] ~camera -> down /\ kbps = policy.kbps /\ Become(Perform(World, "Update"))
  /\ UNCHANGED <<flowing, stale>>

HoldEnds ==
  /\ policy.held
  /\ Become([World EXCEPT !.policy.held = FALSE])
  /\ Keep

\* startLocalVideoTile, stopLocalVideoTile
SwitchCamera ==
  /\ Change
  /\ Become(Perform([World EXCEPT !.camera = ~@], "Update"))
  /\ UNCHANGED <<flowing, stale>>

\* setVideoMaxBandwidthKbps
SetIdealMaxBandwidth(k) ==
  /\ ~simulcast /\ k # policy.ideal /\ Change
  /\ Become([World EXCEPT !.policy.ideal = k])
  /\ stale' = "yes" /\ UNCHANGED flowing

\* handleHasBandwidthPriority, from the active speaker detector
HandleHasBandwidthPriority ==
  /\ ~simulcast /\ Change
  /\ LET given == [World EXCEPT !.policy.priority = ~@]
         rate  == MaxBandwidthKbps(given.policy)
     IN  Become(IF rate # MaxBandwidthKbps(policy) THEN Enforce(given, rate) ELSE given)
  /\ stale' = "yes" /\ UNCHANGED flowing

\* The browser stops sending a layer, or sends it again.
BrowserAdapts(l) ==
  /\ simulcast /\ Change
  /\ flowing' = IF l \in flowing THEN flowing \ {l} ELSE flowing \cup {l}
  /\ Become(World) /\ UNCHANGED stale

-----------------------------------------------------------------------------
\* Connected, with the first index frame handled and the camera off.
Init ==
  /\ simulcast \in BOOLEAN
  /\ session = "Connected" /\ deferred = "none" /\ phase = "idle" /\ retry = FALSE
  /\ duplex = "RX" /\ camera = FALSE /\ input = FALSE
  /\ \E n \in Participants :
       policy = UpdateIndex(
         [num |-> 0, kbps |-> CHOOSE k \in Uplinks : \A j \in Uplinks : j <= k, held |-> FALSE,
          wanted |-> <<300, 500, 1100>>, current |-> <<300, 500, 1100>>,
          newWidth |-> 1280, width |-> 1280, known |-> [l \in Layers |-> "none"],
          ideal |-> 1400, priority |-> FALSE,
          optimal |-> [width |-> 0, rate |-> 0], inEffect |-> [width |-> 0, rate |-> 0]], n)
  /\ param = [width |-> 0, rate |-> 0]
  /\ info = [rates |-> <<0, 0, 0>>, off |-> {}, allocated |-> FALSE, fresh |-> TRUE]
  /\ seen = [l \in Layers |-> "absent"]
  /\ sender = [on |-> FALSE, rates |-> <<200, 400, 1100>>, limit |-> 0]
  /\ told = <<0, 0, 0>> /\ flowing = Layers /\ stale = "no" /\ changes = 0

Next ==
  \/ \E granted \in BOOLEAN : DeviceAnswers(granted)
  \/ AttachMediaInput \/ Subscribe \/ SubscribeAck \/ FinishUpdate \/ UpdateFails
  \/ PeerConnected \/ RetryFires \/ ConnectionFails
  \/ \E n \in Participants, own \in {{}, Layers}, down \in BOOLEAN : IndexFrame(n, own, down)
  \/ BitrateFrame \/ HoldEnds
  \/ \E kbps \in Uplinks, down \in BOOLEAN : MetricReport(kbps, down)
  \/ SwitchCamera \/ HandleHasBandwidthPriority
  \/ \E k \in Ideals : SetIdealMaxBandwidth(k)
  \/ \E l \in Layers : BrowserAdapts(l)

\* The browser and the server answer, timers fire, and the statistics come again
\* and again.
Proceeds ==
  \/ DeviceAnswers(TRUE) \/ AttachMediaInput \/ Subscribe \/ SubscribeAck \/ FinishUpdate
  \/ PeerConnected \/ (phase = "open" /\ IndexFrame(policy.num, {}, FALSE))

Fairness ==
  WF_vars(Proceeds) /\ WF_vars(RetryFires) /\ WF_vars(HoldEnds) /\ WF_vars(MetricReport(policy.kbps, FALSE))

Spec == Init /\ [][Next]_vars /\ Fairness

-----------------------------------------------------------------------------
Quiet == phase = "idle" /\ deferred = "none" /\ ~retry

\* With simulcast, whenever no update is under way, waits or will be made after a
\* failure, the camera is encoded as the server was told and as the policy
\* believes: the policy compares with its belief only, and would never correct
\* another state. The decision is read twice in an update, in
\* ReceiveVideoInputTask and in AttachMediaInputTask, and MonitorTask reads it
\* before the update.
EncodingsAgree ==
  (simulcast /\ Quiet /\ sender.on) => sender.rates = told /\ sender.rates = policy.current

\* Without simulcast, the sender's limit and the bitrate the server was told are
\* the bandwidth of the policy, when it has no newer parameters to put in effect.
\* Excepted are settings since which no index frame and no update have come:
\* setVideoMaxBandwidthKbps and the priority of an active speaker do not touch
\* the parameters, so that a later update takes the priority away again.
RateIsAgreed ==
  (/\ ~simulcast /\ Quiet /\ sender.on /\ stale = "no"
   /\ policy.inEffect = policy.optimal) =>
     sender.limit = MaxBandwidthKbps(policy) /\ told = <<MaxBandwidthKbps(policy)>>

\* When nothing changes any more, the resubscriptions end and the camera is sent
\* as the policy decides for the participants and the bandwidth there are. Not so
\* while the browser leaves out a layer: every frame of bitrates marks it, and
\* every update removes the mark.
Converges ==
  <>[](flowing = Layers =>
         /\ Quiet
         /\ camera /\ simulcast => policy.current = Encodings(policy.num, policy.kbps)
         /\ camera /\ ~simulcast => policy.inEffect = policy.optimal)
=============================================================================
