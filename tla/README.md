# Verification of the meeting session library

This directory is the TLA+ development kept beside the browser library in
`src/src` (the Chime SDK for JavaScript that the Symbl adapter demonstration is
built on). It models the parts of the library that keep state over time: the
life cycle of an audio-video session, its connection and its retries, the
devices, the health of the connection, the real-time state, what video is
received and sent, and screen sharing. Every definition is translated from the
TypeScript source; `PROJECT.json` maps each definition to its lines.

JavaScript runs one turn at a time, so an action of a model is one turn of the
event loop: a call from the application, a timer, an event, or the continuation
of an `await`. What is hard in this code is what happens *between* turns: every
`await` is a point where any other turn may run, and most of the state the
continuation uses was read before it.

## 1. Inventory

| part | state it keeps | operations | interacts with | what is hard |
|---|---|---|---|---|
| `sessionstatecontroller` | current state, one deferred action with its work | `perform` | called by the audio-video controller only | one slot for several waiting requests; requests deferred in a state whose entry never comes; nested `perform` inside work |
| `audiovideocontroller` | the meeting session context, the state of the tasks | `start`, `stop`, `update`, `restartLocalVideo`, `restartLocalAudio`, `reconnect`, `handleMeetingSessionStatus`, bandwidth setters, observers | task groups, monitor, reconnect controller, tile controller, device controller | stale task groups, overlapping negotiations, failures during teardown, retries |
| `reconnectcontroller` | `shouldReconnect`, first attempt and last activity times, backoff timer | `reset`, `retryWithBackoff`, `disableReconnect`, `setLastActiveTimestampMs`, `hasPastReconnectDeadline` | audio-video controller, monitor, `backoff` | a timer that was replaced, a status that arrives while a timer is pending |
| `signalingclient`, `websocketadapter` | request queue, `isClosing`, the shared socket, page unload handler | `openConnection`, `closeConnection`, `ready`, messages | tasks, monitor | late events of an old socket, a new client on the shared adapter |
| `task` | status of a task, its parent, running children | `run`, `cancel` | controller | time-outs that race with completion, cancellation of nested groups |
| `connectionmonitor`, `pingpong`, `connectionhealthpolicy` | ping timers, packet counts, health history | `didMissPongs`, `metricsDidReceive`, `healthIfChanged` | monitor task, reconnect controller | thresholds over windows, cool-downs |
| `realtimecontroller`, `volumeindicatoradapter`, `activespeakerdetector` | roster, stream to attendee map, mute state, callbacks | mute, presence and volume updates | signaling, application | bindings that arrive before or after presence, permission against mute |
| `videotilecontroller`, `videotile`, `videostreamindex` | tile map, local tile, index frames and subscriptions | add, remove, pause, bind tiles; integrate frames | downlink policy, transceivers | a subscribe frame for an older index frame |
| `videodownlinkbandwidthpolicy`, `videouplinkbandwidthpolicy` | probe state, timers, chosen streams | `wantsResubscribe`, `chooseSubscriptions`, `updateIndex` | monitor, tile controller | probes that time out, rates at a boundary |
| `devicecontroller`, `mediastreambroker` | active devices, caches, audio graph, mute callbacks | choose, acquire and release devices | controller | a device chosen twice during one prompt |
| `contentsharecontroller` | content session, attendee state, callbacks | start, stop, pause | a second audio-video session | two sessions whose ends must agree |
| `promisedwebsocket`, `backoff`, `screensharingsession`, `screensharestreaming`, `screenviewing` | socket, retry count, stream state | open, send, close, stream | screen socket service | retry against close |
| `transceivercontroller`, `sdp`, `statscollector`, `clientmetricreport`, `logger`, facades | text, counters, delegation | - | - | data, little control |

What makes them correct, in short: the session machine never strands or
duplicates a transition and never loses a `stop()`; a torn-down session stays
down; retries end; a socket belongs to the client that opened it; a task settles
once; a warning is given only after its history says so; a stream is bound to
the attendee the server says; every stream that was captured has somebody who
releases it. The hazards at their lines are in `PROJECT.json` under "hazards".

## 2. Plan

In order of importance; each part is a module, or a few that compose.

1. **Core.** `SessionState` (the transition table), `AudioVideoController`
   (controller, state controller, reconnect controller, local tile),
   `SessionLifecycle` (what the application is promised, implemented by
   `AudioVideoController`). *Modelled and checked; all safety properties
   proved.*
2. **Signaling connection.** `SignalingClient`. *Modelled and checked; all
   invariants proved.*
3. **Devices.** `DeviceController`: selections, prompts, previews and the
   release of streams, with the session as their user. *Modelled and checked;
   all invariants proved.*
4. **Connection health.** `ConnectionHealth`: pings, health data, both policies,
   and what the monitor does with them. *Modelled and checked; all invariants
   proved.*
5. **Real-time state.** `RealtimeController`: mute, permission, roster, and
   callbacks that call back. *Modelled and checked; all invariants proved.*
6. **Video.** `VideoReception` (index frame to tile), `ProbePolicy` (what a
   simulcast session subscribes to), `VideoUplink` (what the camera sends, on
   the table of `SessionState`). *Modelled and checked; all safety properties
   of `VideoReception` and both invariants of `VideoUplink` proved.*
7. **Screen sharing.** `ReconnectingSocket`, and `ScreenSharing` on top of it.
   *Modelled and checked; all invariants proved.*
8. **Left.** Content share as a second audio-video session; the queue that
   delivers notifications to the observers.

Every invariant and action property that a run checks is proved (section 5), but
for those of `ProbePolicy`, which rest on a recursive operator and on sums over
the streams of an index.

## 3. The modules

### The core

`SessionState.tla` is `DefaultSessionStateController`: the table of `perform()`,
the defer priorities, `canDefer()` and the rule of `deferAction()` (an equal
priority replaces, a lower one is dropped).

`AudioVideoController.tla` is the session. Its state and the code's:

| variable | code |
|---|---|
| `st`, `slot` | `currentState`, `deferredAction` with `deferredWork` |
| `job` | the asynchronous task groups that run: `AudioVideoStart` (opening, joining), `AudioVideoReconnect` (reopening, rejoining), `AudioVideoUpdate`, the two negotiations of `restartLocalVideo` (restartStop, restartStart), and the teardown of `actionDisconnect` (leave). `lost` says that the group's connection was taken away |
| `rc` | `DefaultReconnectController`: `shouldReconnect` and its deadlines as unset, within, past |
| `timer`, `orphans` | `backoffTimer` when it is pending; pending timers that `retryWithBackoff` has overwritten |
| `tile`, `ssrc` | the local tile; whether the previous offer sends video |
| `heard` | the last of audioVideoDidStartConnecting, DidStart, DidStop put in the observers' queue |

Actions: `Start`, `Stop`, `StartLocalVideo`, `StopLocalVideo`,
`RestartLocalVideo` (the application); `MonitorStatus`, `MonitorUpdate`,
`MonitorActive` (the monitor task); `TimerFires`, `OrphanFires`, `AttemptAges`,
`ActivityAges` (time); `SocketOpens`, `ConnectSucceeds`, ... , `LeaveEnds` (the
ends of task groups, which run the continuation of the `await` in
`actionConnect`, `actionReconnect`, `actionUpdate`, `restartLocalVideo` and
`actionDisconnect`). One turn may run several of the controller's functions
synchronously (a completion performs FinishConnecting, which performs the
deferred action, whose work starts a task group): the functions are operators on
the record of all fields, composed in the order of the code, and `Become` turns
the last record into the next state.

Abstractions. The roll-back of `perform()` for work that throws is left out: all
work functions are asynchronous or do not throw. The promises that separate the
end of `actionDisconnect` from the rest of the catch of `actionConnect` are one
turn. Whether a negotiation leaves a sending section in the previous offer
depends on the tile at an earlier moment, and is a free choice. A status is
represented by what `handleMeetingSessionStatus` does with it.

`SessionLifecycle.tla` is the abstract specification: a session is down, up or
closing; it closes before it opens again; starts and stops are reported in their
phases; a teardown ends.

### The signaling connection

`SignalingClient.tla` is the connection under the session: the adapter's one
`connection`, the sockets with the client whose listeners they carry, and the
fields of each client (`connectionRequestQueue` as its length, `isClosing`,
`wasOpened`, the unload handler). `current` is the client of the session's
context and `stage` what its tasks wait for. The operators have the names of the
methods (`OpenConnection`, `CloseConnection`, `ServiceQueue`, `ResetConnection`,
`OnClose`, `OnError`, `Ready`). Two facts of the platform matter. A failing
socket sends error and then close in one task, and the microtasks of the error
listener run between the two: `failing` is that gap, in which only the
continuation of a rejected task may act. A socket's listeners stay with it when
the adapter goes to another socket: a late close listener acts on whatever the
adapter refers to then. `disturbed` is a history variable: it becomes true when
a close listener takes away a connection that is not its own, or connects a
client whose session has been replaced. The invariants say that until then the
connection discipline holds, which makes these two events the only ways in which
it is lost. What the session does above the connection is reduced to when it
opens, reopens and tears down, with the guards that `AudioVideoController`
justifies.

### The devices

`DeviceController.tla` is the other side of the session: which stream is
selected for each kind of input, and who must release each stream that was
captured. A turn is again a composition of operators on the record of all
fields, named for the methods (`ReleaseMediaStream`, `Choose`, `Install`,
`RestartLocalVideo`, `ReceiveVideoInput`, `Clean`).

| variable | code |
|---|---|
| `active` | `activeDevices`: the stream of each kind and the device its constraints name |
| `call` | the calls of `chooseInputDevice` that wait for `getUserMedia` (prompt) or for `handleDeviceChange` (change); 0 is the one of `acquireInputStream`; `overruled` stands for `lastNoVideoInputDeviceCount > callCount` |
| `stream` | what became of each stream: live, dead, missed (ended before its listener was added), spilled |
| `preview`, `opening` | the preview element's `srcObject`; its `getUserMedia` calls under way |
| `web`, `source` | `useWebAudio`, the stream of `audioInputSourceNode` |
| `sess`, `job`, `slot`, `tile`, `using` | the session, its task group, its deferred action, the local tile, the context's `activeAudioInput` and `activeVideoInput` |
| `wanted` | history: the last camera request of the application |
| `refused` | history: the session has gone on without the selected microphone |

A stream is spilled when the last reference that would have released it goes
away while it is live. `Spill` stands at each place where the code lets go of a
reference, so `NothingLost` says that these are all the places at which a device
can stay on for ever; the stream itself is forgotten a turn later, so that lost
streams do not use up the bound. Whether a device id still belongs to the same
group (`hasSameGroupId`, from a cache that changes at any time) is the free
choice `same`. `handleDeviceChange()` returns at once or waits for
`enumerateDevices`, which may fail; which of the two depends on calls that are
not modelled and is free. Web Audio is switched on before the first device is
chosen, as its documentation asks. A session is started when the tasks of the
one before have ended; failed negotiations and reconnections are in
`AudioVideoController` and not here.

`SessionSendsSelection` compares the two sides when the session is at rest, and
does not ask whether a stream is live: a session that sends an ended microphone
beside a live selection violates it. `refused` names the two ways in which the
code gets there all the same. A session may be denied its microphone, and goes
on without. And a microphone may be chosen before the session has its peer
connection: `chooseInputDevice()` stops the stream the session has taken,
`restartLocalAudio()` throws, and the session comes up with an ended one. Each
lasts until another microphone is chosen.

### The health of the connection

`ConnectionHealth.tla` is how a session notices that its connection has gone
bad: `DefaultPingPong`, `SignalingAndMetricsConnectionMonitor` with the
`ConnectionHealthData` it keeps, and `MonitorTask` with the reconnection policy
and the unusable-audio warning. Observers are not called at once:
`AsyncScheduler` puts each call behind the ones that wait, and `tasks` is that
queue; `Deliver` makes the next call. A miss or a pong is therefore two hops
away from the reconnection it may cause, and reports and restarts come in
between. Times are ages in ticks up to the age at which the code no longer looks
at them; a tick, a ping and a report wait until the queue is empty (`Waiting`),
since calls that wait take milliseconds and these are a second or more apart.
The session is reduced to when it connects, reconnects, restarts its audio and
ends; the monitor and the task are then observers no longer, and a call to them
that still waits is skipped (`SkipRemoved`). `unanswered`, `told` and `warnings`
are histories. `asked` follows one request for a reconnection from the policy
that makes it to the backoff timer, the slot of the state machine or the
`reset()` that ends it (`Requests`). Three facts show in the model: a socket
that closes in the middle of a session stops the pings, and nothing else notices
(`SilenceIsNoticed` is about open sockets); a delay point counted before the
wait time of a reconnection still counts after it; and a request made while the
session connects or reconnects is lost when that succeeds, since `reset()` stops
its timer and the policy, still at its worst value, does not ask twice. Until an
evaluation is good or the local audio is restarted nothing replaces it
("stopped"), which `SilenceIsNoticed` excepts.

### Real-time state

`RealtimeController.tla` is `DefaultRealtimeController` with the tasks that hang
on it. Its callbacks run one after the other in the turn of the method, and may
call the controller again or leave the list being gone through: `stack` holds
one frame per list under way, `Call` makes the next call of the top frame, and
everything else happens when the stack is empty. `WaitForAttendeePresenceTask`
takes itself off the list in the middle of the loop (`Without` is `indexOf` and
`splice`: those behind move up), so that the callback behind it is skipped;
subscribers that came before the task are safe, and
`EarlySubscriberKnowsRoster` says so. A mute callback that mutes or unmutes
makes the callbacks behind it hear the two changes in the wrong order
(`disturbed`), the one that tells the server among them: `ServerKnowsMute`
excepts that and nothing else.

What the controller mutes (`input`) and what the session sends (`sent`) are two
references. `ReceiveAudioInputTask` and `CleanStoppedSessionTask` change both;
without Web Audio `restartLocalAudio()` replaces only the second, with tracks
that are enabled. `restarted` is that history, and `MutedIsMuted` excepts the
rest of such a session.

### Video

`VideoReception.tla` follows the video of the others from the index frame
through the highest-quality policy, the slots of `DefaultTransceiverController`,
the subscription and its answer, and the browser's track events to the tiles,
with pausing. A slot keeps its group; the streams that are left go to the free
slots in order, which is said by position: `Rank` counts the smaller members of
a set and `At` finds the member of a rank. The tracks of one answer are added in
the order of their slots, so that the first of an attendee gets its tile
(`AddTiles`). The media server and the browser's peer connection are external:
frames keep their order, and a slot that goes on receiving raises no event when
its stream becomes another one. Two histories name what follows from this:
`misnamed` (a slot went from one attendee to another in a single update, or the
attendee was missing from the index when the track came, and the tile keeps the
wrong name or none) and `switched` (the best quality of a group changed under a
tile, and pausing the tile names the old stream). The invariants hold on every
connection without them.

`ProbePolicy.tla` is `VideoAdaptiveProbePolicy`. Time is counted in reports, one
a second; durations are constants of which only the order matters. An index
frame and a report make one decision (`Decide`): the target rate, the greedy fit
into it, and what holding, stretching and probing make of it. `decision`, `gone`
and `calm` are histories: how the latest decision came about, the streams that
left while paused (which no comparison sees, the one exception of
`KnownStreamsOnly`), and how long nothing has changed. Three facts of the code
are in it as they are: the target is `Number.MAX_VALUE` when every tile is
paused and the estimate is given up; the price of a second upgrade in one pass
is counted from the stream that was there before the first; a probe has no time
limit.

`VideoUplink.tla` is what the camera sends: `SimulcastUplinkPolicy` or
`NScaleVideoUplinkBandwidthPolicy` (the constant of a behaviour `simulcast`,
chosen in `Init`), the index with the local stream descriptions, the sender, and
the tasks that carry the decision from one to the other. It uses the table of
`SessionState`, so that an update during another one waits or is dropped as in
the core. The weighted average over the measured bandwidths can be any of
`Uplinks`; the hold-down after a resubscription is a Boolean that ends at any
time; the awaits inside `AttachMediaInputTask` are one turn, since nothing
between them is read that another turn writes. `stale` is a history: settings
that no update has carried out yet. Facts that show in the model:
`setVideoMaxBandwidthKbps` and the priority of an active speaker act on the
sender and leave the policy's parameters alone, so that the next update takes
the priority away; after a reconnection the duplex mode is RX until the next
update; a layer that the browser leaves out is marked by every frame of bitrates
and unmarked by every update, so that updates go on for as long as it is left
out, while the server is told the layer is on. A comment speaks of three missing
reports before a layer counts as disabled; a layer that was reported once is
marked at the first.

### Screen sharing

`ReconnectingSocket.tla` is `ReconnectingPromisedWebSocket` over
`DefaultPromisedWebSocket`, as operators on a record. `ScreenSharing.tla` puts
the session, its stream and its recorder on it; `MediaRecorder`, media tracks
and the browser's `WebSocket` behave as their specifications say. The close
listener and the time-out of `open()` forget whichever socket is referred to
(`disturbed`), and a second closure replaces the timer of the first (`strays`).
As in `DeviceController`, a capture is `spilled` where the last reference that
would have released it goes away: a ping that fails after the capture, a
`start()` that another overtakes, a `stop()` that ends after such a `start()`,
key frames where the browser is not Chromium. `CaptureIsHeld` says there are no
others. A response to a heartbeat can come at any time and wakes every `start()`
that waits. With `timeoutMs` 0 a `start()` does not ping: its stream begins also
without a connection, unannounced, since the listener catches the `send()` that
throws (`at = "unheard"`, the exception of `ServiceFollows`).

## 4. Runs

| run | checks | distinct states |
|---|---|---|
| `avc_safety` | `TypeOK`, `DeferredOnlyWhileBusy`, `OneTeardown`, `BusyHasDriver`, `StopOutranks`, `NoRetryOnceDisabled` | 846,056 |
| `avc_liveness` | `StopCompletes`, `PastDeadlineEnds`, `LifecycleImplemented` (under `FairSpec`) | 17,587 |
| `avc_deferred_stop` | `DeferredStopIsCarriedOut` | violated |
| `signaling` | `AdapterFollowsSession`, `RequestsAreServed`, `ReadyIsExact` | 381,306 |
| `devices` | `NothingLost`, `NoDeviceUnlessOverrun`, `SelectionIsAlive`, `SessionSendsSelection` | 492,378 |
| `health` | `MissesAreSilence`, `NoticesAlternate`, `WarnedSparingly`, `SilenceIsNoticed` (fair) | 1,204,212 |
| `realtime` | `MutedIsMuted`, `ServerKnowsMute`, `IndicatorIsTold`, `EarlySubscriberKnowsRoster` | 2,933,228 |
| `video` | `OneTilePerAttendee`, `TileShowsItsAttendee`, `PauseReachesStream`, `SlotsAreExact`, `Settles` (fair) | 651,406 |
| `probe` | `WithinTarget`, `KnownStreamsOnly`, `AmpleBandwidthIsUsed`, `Settles` | 75,913 |
| `probe_threshold` | `UpgradeOnlyWithinThreshold` | violated |
| `uplink` | `EncodingsAgree`, `RateIsAgreed`, `Converges` (fair) | 45,674 |
| `sharing` | `CaptureIsHeld`, `OneConnection`, `ServiceFollows`, `RetryIsUnderWay` | 1,485,516 |

Every property of a passing run has a mutant in `PROJECT.json`: a plausible bug
in one mapped definition under which the run reports that property violated.

### Bounds

`AudioVideoController`. `MaxLoad = 3`: no new request or event when three jobs,
timers and deferred actions are under way or waiting; completions and timers are
never blocked and may go above it. Three is what the hard cases take: an old
connection attempt, a teardown and a pending retry; two lost timers and a job; a
negotiation, its overlapping restart and a deferred stop. `MaxJobs` is only the
number of job numbers: 7 and 4 are above the largest number of simultaneous jobs
of each run, so it never cuts a behaviour. `TracksActivity` and `UsesVideo`
switch off, in the liveness run, the deadline from the last activity and the
local video. `CHECK_DEADLOCK FALSE`: a session that is down or connected may
remain so when the application asks nothing more and no request fits the bound.

`SignalingClient`. Three sessions and five sockets: a late event of the first
session can meet the second and the third, and one session can open, reopen
twice and leave a request over. `MaxQueue = 2` is one more than the requests
that one slow close handshake can collect before the next attempt times out. A
run stops when sessions and sockets are used up, so deadlock is not checked.

`DeviceController`. One microphone and one camera, each of which may come to
name another device (`same`), and null; four streams: the selected one, the one
that replaces it, the preview, and the one the session still sends. `MaxLoad =
2` lets two calls, previews or a call and a task group overlap, which is what
each race takes; prompts that are answered, devices that are unplugged and
sessions that fail are not bounded by it. An action that captures waits for a
free stream, so deadlock is not checked. `MCDeviceController` makes streams and
calls symmetric: they are only compared, a free stream is like any other, and
the run checks invariants only.

`ConnectionHealth`. Three missed pongs and three empty reports stand for the
code's four and 25: three is the least at which a count that survives a
reconnection still falls short. Windows and waits are one tick, with one warning
and one restart: a second of each repeats the first. `MaxTasks = 2` calls wait
at most before a new event; `Silence = 6` pings without an answer are told
apart, above the three that must be noticed and the two that may wait. One
request for a reconnection is followed at a time; the timers that
`retryWithBackoff` overwrites are in `AudioVideoController`.

`RealtimeController`. Two microphones, the one the controller mutes and the one
that replaced it; a stream that is neither gives its name free, and since they
are only compared `MCRealtimeController` makes them symmetric. Two stream ids
(an attendee with a newer stream, or two attendees), and one nested call
(`MaxDepth = 2`): the shortest re-entrance that changes the order of calls.

`VideoReception`. Two others, one of them with two qualities, and one index
frame under way beside the answer to a subscription: a slot can be taken over, a
group can change its best stream, and an index can be newer than the answer.

`ProbePolicy`. A sender of two streams and one of one, so that an upgrade of one
group competes with a stream of the other; two sets of averages and three
reports (narrow, lossy, wide). The violation run has the second sender share
content and a bandwidth that collapses.

`VideoUplink`. Two numbers of participants, two bandwidths and two ideals on
either side of the steps of the policies; one simulcast layer is followed for
its sending state; `MaxChanges = 3` changes from outside, which is a change
during an update whose decision is taken from an earlier one, and a failure.

`ScreenSharing`. Two captures, of which one can overtake the other; two sockets,
the one forgotten and the one in use; two retries, so that a timer can be
replaced, and two stop events waited for at a time.

### Fairness

`AudioVideoController`: weak fairness of each job's steps: every wait of a task
group on the network is under a `TimeoutTask` and can be cancelled, and the
other waits are the browser's (a device prompt, a session description), assumed
answered, so that a group ends whatever the network does; it may fail or
succeed. Weak fairness of timers and of the passing of the deadline. Nothing is
assumed of the application, the monitor or the network.

`ConnectionHealth`: calls that wait are made, and the interval and the clock go
on: strong fairness of `PingInterval` and `Tick`, because both are blocked again
and again while calls wait, and a timer that comes due in that time fires
afterwards.

`VideoReception` and `VideoUplink`: the tasks of an update go on, frames that
were sent arrive, timers fire, statistics come again with the same figures. The
properties are about what happens when attendees, application and network have
come to rest: `Settles` has that as its premise, in `VideoUplink` `MaxChanges`
brings it about. `ProbePolicy!Settles` needs no fairness.

### What the violated runs say

* `avc_deferred_stop`: `stop()` while Connecting is deferred. If the attempt
  fails, `performDeferredAction()` finds the waiting Disconnect in
  Disconnecting, where it has no transition and cannot wait, and drops it; the
  catch of `actionConnect` then retries. The session the application stopped
  connects again.
* `probe_threshold`: `calculateOptimalReceiveSet()` passes target and total to
  `maybeOverrideOrProbe()` in the order opposite to its parameters. All are
  numbers. With a content share that alone exceeds a collapsed target, the
  "threshold" of the upgrade compares the total with the target plus the price
  of the upgrade, and the policy upgrades because it is over budget.

### Other departures the models show

They are exceptions in the properties, or traces anybody can ask for by
strengthening them:

* `disableReconnect()` leaves a pending backoff timer alone; it fires after the
  teardown and connects a session that was ended for good (the premise of
  `NoRetryOnceDisabled`).
* `retryWithBackoff()` overwrites the timer of an earlier failure, so `reset()`
  cannot stop it, and a connected session is reconnected (`orphans`).
* `restartLocalVideo()` that waits is replaced by a later `update()` (both are
  Update): its callback, which is also what releases the former camera, never
  runs.
* A failing socket rejects the open task before its close event; a deferred
  Reconnect opens the next socket in between, which the close listener then
  makes the adapter forget (`disturbed` in `SignalingClient`).
* A `chooseVideoInputDevice(null)` made while an earlier call waits for the list
  of devices comes too late for one check and too early for the other
  (`NoDeviceUnlessOverrun`).
* A deferred restart that begins after the session has taken the new camera
  stops that one.
* A microphone chosen between the acquisition of the former one and the peer
  connection leaves the session with an ended track (`refused` in
  `DeviceController`).
* `restartLocalAudio()` does not tell the real-time controller: a microphone
  chosen while muted is sent enabled, and a later mute disables the stream before
  it (`restarted` in `RealtimeController`). `DefaultRealtimeController.ts:20-22`
  says that a muted user is muted.
* `actionFinishConnecting()` calls `reset()` on the reconnect controller, which
  also stops the timer of a request that came while connecting; a connection that
  stays silent then asks for no other (`"stopped"` in `ConnectionHealth`).
* `start()` of a screen share with `timeoutMs` 0 and no open connection keeps a
  stream that no later connection announces (`"unheard"` in `ScreenSharing`).
* A data message that cannot be sent is reported as a fatal error and ends the
  session (`SendDataMessage`).
* Seen while reading, and in no model: `DefaultActiveSpeakerDetector` leaves its
  volume callbacks behind in `unsubscribe` and subscribes twice when an attendee
  comes back; the volume adapter keeps attendees that left during an outage
  until their stream is reported; `DefaultScreenViewingSession` forgets a newer
  socket on a late close event.

## 5. Proofs

| module | theorem | states |
|---|---|---|
| `AudioVideoController_proofs` | `TypeCorrect` | `Spec => []TypeOK` |
| | `TeardownIsUnique` | `Spec => []OneTeardown` |
| | `WaitingIsLookedAt` | `Spec => []DeferredOnlyWhileBusy` |
| | `StopIsNotDisplaced` | `Spec => StopOutranks` |
| | `DisabledStaysSilent` | `Spec => NoRetryOnceDisabled` |
| | `LifecycleIsImplemented` | `Spec => Lifecycle!Spec` |
| | `BusyIsDriven` | `Spec /\ [](a job number is free) => []BusyHasDriver` |
| `SignalingClient_proofs` | `AdapterIsFollowed` | `Spec => []AdapterFollowsSession` |
| | `WaitingIsServed` | `Spec => []RequestsAreServed` |
| | `ReadyIsRight` | `Spec => []ReadyIsExact` |
| `DeviceController_proofs` | `NothingIsLost` | `Spec => []NothingLost` |
| | `NoDeviceIsKept` | `Spec => []NoDeviceUnlessOverrun` |
| | `SelectionStaysAlive` | `Spec => []SelectionIsAlive` |
| | `SessionFollowsSelection` | `Spec => []SessionSendsSelection` |
| `ConnectionHealth_proofs` | `SilenceIsCounted` | `Spec => []MissesAreSilence` |
| | `NoticesTakeTurns` | `Spec => []NoticesAlternate` |
| | `WarningsAreFew` | `Spec => []WarnedSparingly` |
| `RealtimeController_proofs` | `MutedSendsNothing` | `Spec => []MutedIsMuted` |
| | `IndicatorIsExact` | `Spec => []IndicatorIsTold` |
| | `ServerKnows` | `Spec => []ServerKnowsMute` |
| | `EarlySubscriberIsUpToDate` | `Spec => []EarlySubscriberKnowsRoster` |
| `VideoReception_proofs` | `AttendeesHaveOneTile` | `Spec => []OneTilePerAttendee` |
| | `TilesShowTheirAttendee` | `Spec => []TileShowsItsAttendee` |
| | `PausingReachesStream` | `Spec => []PauseReachesStream` |
| | `SlotsAreGivenExactly` | `Spec => SlotsAreExact` |
| `VideoUplink_proofs` | `EncodingIsAgreed` | `Spec => []EncodingsAgree` |
| | `RateIsFollowed` | `Spec => []RateIsAgreed`, for ideals of at least 13 kbps |
| `ScreenSharing_proofs` | `ConnectionIsUnique` | `Spec => []OneConnection` |
| | `CapturesAreHeld` | `Spec => []CaptureIsHeld` |
| | `ServiceIsInStep` | `Spec => []ServiceFollows` |
| | `RetriesAreUnderWay` | `Spec => []RetryIsUnderWay` |

Each holds for every value of the constants that the module's assumption allows
(`BoundsAssumption`, `SignalingBounds`, `DevicesAssumption`, `HealthBounds`,
`RealtimeBounds`, `VideoBounds`, `UplinkAssumption`, `SocketAssumption` with
`SharingAssumption`): kinds and finiteness of the sets, no bound on their size.
Most have one shape. A turn is a composition of operators on the record of all
fields: a lemma for each operator says what it keeps or changes of a record, the
step for an action combines the lemmas of the operators it calls, and the
theorem follows from the steps. Where an action writes its variables at once,
the lemmas are about the lists and sets that it changes.

### The core

The inductive invariant is `OrderInv == TypeOK /\ OneTeardown /\
DeferredOnlyWhileBusy`. `TypeOK` alone is inductive because `Slots` pairs each
deferred action with the work it can carry. The other two need each other: a
waiting action may be performed on entering a state, and only because it waits
in a busy state is that state's entry one which starts at most one teardown.
For `StopOutranks` a closed set of records (`StopStands`) is kept through the
turn: the stop still waits, or it has been taken out for the teardown.

The second half adds one invariant, `Enabled(Now)`: reconnecting is
enabled in a session that is connected or updating. On it rest the three
results about a whole turn. A turn that begins with no timer and ends with
reconnecting disabled leaves no timer and starts no connection (`Silent`): every
path to a retry asks `shouldReconnect`, and a stale task group that fails late
has no other. Each operator moves the phase that the application sees by at most
one step of `SessionLifecycle` (`Moves`), and the composition of the operators
of a turn never makes two, which is the refinement without its fairness. Last,
whoever enters Connecting, Updating or Disconnecting begins the task group that
will leave it, and whoever ends that group leaves it (`Driven`). A task group is
begun in the model only if a job number is free; the premise of `BusyIsDriven`
says that the bound `MaxJobs`, which the code does not have, is not reached. The
runs choose it so that it is not.

### The signaling connection

`SignalingInv` says that until a close listener disturbs it: a used socket
belongs to a session that has begun (`Owned`); the adapter refers to the one
live socket of the current client (`Follows`); who waits has a socket whose
close event is to come, and for the current client it is the adapter's
(`Served`); and `isClosing` and `wasOpened` follow the state of that socket
(`Flagged`). None of the three properties is inductive
alone: the adapter is not left behind because the queue is served by the socket
that `isClosing` speaks of, and the other way round.

### The devices

The invariant is `DevicesInv`: the types; each live stream has a holder
(`Held`); free streams have none (`Taken`, `Fresh`), streams of calls belong to
one call (`Apart`); the task group, the stage of the session and the deferred
action fit together (`Control`); the selection is alive (`Alive`), a live
microphone that the session uses is selected (`Echo`), the selected one is used
unless refused (`Tuned`), the selected camera is sent or about to be (`Shown`);
and no camera once none is wanted (`Off`). In the middle of a turn a stream may
be without a holder, between the assignment that drops it and the
`releaseMediaStream` that stops it: `Good(w, X)` excuses the streams of X, and
an operator that releases is shown to pay back what was excused (`Repairs`). Two
facts came out of the attempt and are in `Control`: a session that is starting
restarts no video and holds no former camera, and a call waits in
`handleDeviceChange()` only with the stream that it has to install.

### What the camera sends

`UplinkInv` follows one decision from the policy to the sender and to the
server. Between `ReceiveVideoInputTask` and `AttachMediaInputTask` the decision
may become another one; the invariant is that whatever changes it while an
update runs also fills the deferred slot, so that nothing is quiet until a
further update has carried it out. `RateIsFollowed` has a hypothesis, and it is
about the code: `maxBandwidthKbps` truncates a fraction of the ideal, and for an
ideal of less than 13 kbps the result can be 0. `actionFinishUpdating` puts no
limit of 0 on the sender, which then keeps the limit before. From 13 kbps on
this happens for no number of participants; with 1 kbps TLC finds the
disagreement. The default is 1400 kbps; `setIdealMaxBandwidthKbps` checks
nothing.

### Screen sharing

`OneConnection` is inductive once the sockets have their types (`Orderly`);
between the error and the close event of a failing socket the weaker `OneBut`
holds, since a caller may have opened again. The other three rest on
`SharingInv`: who holds each live capture (`Session`); what the service has
heard on the connection in use, or that the stream is stopped by whichever
listener takes the connection away (`Airs`); and `Retrying`: after `reconnect`
was dispatched, the socket referred to has not opened yet. Operators of the
socket leave the session's half of the record alone (`SameSession`), and those
of the session leave the connection alone (`SameConnection`), so that each half
is gone through once. To reason about it, opening takes some free socket
(`Connect`), and an application opens only when there is one (`AppOpens`), as
every other opening does.

### The health of the connection

The invariant is `HealthInv`: the types and one conjunct for each of the three
properties. Each is about the calls that wait in the scheduler's queue together
with what has been counted already, so it is stated by position in the queue.
`Due(tasks, missed)` is what the monitor will have counted when the calls that
wait have been made: the misses that no pong stands behind, and the present
count if no pong waits at all. `SilenceInv` says that this is less than the
pings without an answer; a miss is announced when the next ping goes out, which
is what makes room for it. `WarnInv` bounds the warnings given and waiting by
`warn.count`, which the policy increases before it warns, and which nothing sets
back while the session lasts. `NoticeInv` looks at the last notice followed by
the queue: notices differ from their predecessors, and the last one is what the
policy says now. The calls are put at the end and taken from the front, and the
lemmas say what `Append` and `Tail` do to the positions; nothing needs induction
over the queue.

### Real-time state

`AudioInv` gives the two properties about mute and indicator: each turn is first
shown to be one of six ways of changing the audio state (`AudioStep`), so that
the callbacks, lists and streams drop out of the argument.

The other two are about the middle of a turn, and rest on `TurnInv`. No callback
is twice in a list, the early subscriber stands before the task that waits
(`ListInv`), and the stack holds calls of one list, of more than one depth only
after a callback has called back (`StackInv`). Then the server has the mute
state, or the task that will send it is still to be called in this turn
(`ServerInv`); and the early subscriber's roster is right, or its call is still
to come and will make it right (`RosterInv`). That the task leaves the list
moves up only what stands behind it, which the early subscriber does not: this
is the step in which the order of the list is needed.

### What is received

Slots are given out by position, so the first part of `VideoReception_proofs` is
about finite sets of numbers: `Rank` maps a set one to one onto the numbers
below its size (`RankOnto`, a pigeonhole argument), and `At` is its inverse.
From this follow that `AssignSlots` gives each wanted stream one slot, keeps the
slots of groups that go on, and never makes more slots than there are attendees
(`AssignSlotsExact`), and with it `SlotsAreGivenExactly`.

The invariant is `VideoInv`. Up to three subscriptions are about at a time: the
slots that an update has just assigned, the answer of the server that is on its
way or has arrived, and what the browser receives. `FollowInv` says that each of
them can follow what is received: no stream is twice in it or moves to another
slot, and a slot with a tile keeps its attendee, in every connection that is not
`misnamed`. On that rests `TileInv`: removed tracks come before new ones, the
first new track of an attendee without a tile gets one, and a tile has the
stream that it had at first unless the connection is `switched`. `PauseInv`
adds that the server has paused only what it serves, and only on account of a
tile, which is what keeps a pause from outliving the tile it was made for.

### Only model-checked

* What happens in the end, which is out of the prover's reach: `StopCompletes`,
  `PastDeadlineEnds`, the fair half of `LifecycleImplemented`,
  `SilenceIsNoticed`, `Converges`, and `Settles` of `VideoReception` and of
  `ProbePolicy`.
* `WithinTarget`, `KnownStreamsOnly` and `AmpleBandwidthIsUsed` of
  `ProbePolicy`: what a pass of upgrades arrives at is a recursive operator
  (`Upgrades`), and the rates it compares are sums; both can only be reasoned
  about by induction.

## 6. Not modelled

`PROJECT.json` lists each part with its reason.

* Data, text and generated code: the generated `SignalingProtocol.js`, SDP text
  (but for whether an offer sends video with another SSRC), statistics
  arithmetic, client metrics, JPEG decoding and the presentation layer.
* Delegation: the facade and the meeting session.
* The demos, the Symbl adapter demonstration among them, and the integration
  tests: example applications that use the library and vendored modules
  (`node-fetch`) of the serverless demo.
* Tasks: `BaseTask`, the groups and `TimeoutTask` appear as jobs and phases.
  Only a `TimeoutTask` cancels a group, a cancelled group starts no further
  task, and from outside it succeeds or fails once; every model lets every group
  fail at any step that can.
* Content share: a second audio-video session, whose life cycle is the one of
  `AudioVideoController`; that both sessions agree on who shares is not
  modelled.
* The POST logger: a buffer nothing else waits for.
* In the core: the queue that delivers notifications to observers.
* In `SignalingClient`: the frames, and the task groups of a torn-down session
  that are still running (they can send frames through their old client, which
  `ready()` lets pass when the adapter has an open socket again).
* In `DeviceController`: the list of devices and its observers, audio output,
  the analyser, mixing a second stream, video quality, synthesized cameras, and
  streams the application passes in as a device.
* In `ConnectionHealth`: the bandwidth observers, the signal bars and the uplink
  health log.
* In `RealtimeController`: volumes and signal strengths of others, received data
  messages, and the lists of callbacks that behave as the presence list does.
* In `VideoReception`: the local tile (it is in the core), video elements,
  streams paused at the source, tiles that the application removes, plan-b
  browsers.
* In `ScreenSharing`: the recorded data, the presenter's signaling, and the
  viewing side.
