-------------------------- MODULE DeviceController --------------------------
(***************************************************************************)
(* DefaultDeviceController: which stream is selected for each kind of input, *)
(* and who must release each stream that was captured.  Its user is the      *)
(* audio-video session, reduced to when it takes, restarts and releases its  *)
(* inputs; the tasks of the session are in AudioVideoController.             *)
(*                                                                         *)
(* An action is one turn of the event loop.  What a turn does is composed   *)
(* of operators on the record w of all fields, named for the methods.        *)
(***************************************************************************)
EXTENDS Integers, FiniteSets

CONSTANTS Microphones, Cameras,  \* device ids of each kind
          Streams,   \* bound: the streams at one time
          Mix,       \* the stream of audioInputDestinationNode
          Calls,     \* bound: calls of choose...InputDevice at one time
          MaxLoad    \* bound: no new request above this load

ASSUME DevicesAssumption == /\ "none" \notin Microphones \cup Cameras
                            /\ Mix # 0 /\ {0, Mix} \cap Streams = {} /\ 0 \notin Calls
                            /\ IsFiniteSet(Streams) /\ IsFiniteSet(Calls) /\ MaxLoad \in Nat

VARIABLES
  active,   \* activeDevices, by kind: the stream (0 for none) and its constraints
  stream,   \* the streams
  call,     \* the calls of chooseInputDevice that wait; 0 is the one of acquireInputStream
  preview,  \* srcObject of the preview element (0 for none)
  opening,  \* calls of getUserMedia by startVideoPreviewForVideoInput under way
  web,      \* useWebAudio, set before the first device is chosen
  source,   \* stream of audioInputSourceNode (0 for no node)
  sess,     \* state of the session
  job,      \* its running task group
  slot,     \* its deferred action
  tile,     \* localTileStarted
  using,    \* activeAudioInput and activeVideoInput of the session's context
  refused,  \* history: the session has gone on without the selected microphone
  wanted    \* history: the last video request of the application

vars == <<active, stream, call, preview, opening, web,
          source, sess, job, slot, tile, using, refused, wanted>>

-----------------------------------------------------------------------------
(* The data.                                                                *)

Kinds   == {"audio", "video"}
NoDevice == "none"
Devices(kind) == IF kind = "audio" THEN Microphones ELSE Cameras

\* A stream is "free", "live", "dead", "missed": ended before the listener for
\* that was added, or "spilled": live, and nothing left in the program releases it.
\* Wanted is a "camera", "nothing", or "overrun": nothing was wanted, and a call
\* made before has selected a camera.

None    == [stream |-> 0, device |-> NoDevice]
Idle    == [at |-> "idle", kind |-> "video", device |-> NoDevice, stream |-> 0,
            overruled |-> FALSE]
NoJob   == [kind |-> "none", receiving |-> FALSE, old |-> 0]
Nothing == [kind |-> "none", old |-> 0]

World == [active |-> active, stream |-> stream, call |-> call, preview |-> preview,
          source |-> source, sess |-> sess, job |-> job, slot |-> slot,
          tile |-> tile, using |-> using, refused |-> refused]

IsLive(w, s) == s \in Streams /\ w.stream[s] = "live"

\* Everything that will release the stream it refers to.
Holders(w) ==
  {w.active[k].stream : k \in Kinds} \cup {w.using[k] : k \in Kinds} \cup
  {w.call[c].stream : c \in DOMAIN w.call} \cup {w.preview, w.job.old, w.slot.old}

Free(w) == {s \in Streams : w.stream[s] = "free"}

\* A turn ends: a stream that nobody refers to is forgotten, a spilled one a turn
\* later.
Become(w) ==
  /\ active' = w.active /\ call' = w.call /\ preview' = w.preview
  /\ source' = w.source /\ sess' = w.sess /\ job' = w.job /\ slot' = w.slot
  /\ tile' = w.tile /\ using' = w.using /\ refused' = w.refused
  /\ stream' = [s \in Streams |->
                  IF /\ w.stream[s] \in {"dead", "missed"} \/ stream[s] = "spilled"
                     /\ s \notin Holders(w) \cup {w.source}
                  THEN "free" ELSE w.stream[s]]

\* A reference to s is gone: the device stays on if it was the last one.
Spill(w, s) ==
  IF IsLive(w, s) /\ s \notin Holders(w) THEN [w EXCEPT !.stream[s] = "spilled"] ELSE w

\* A new stream, of getUserMedia or synthesized.
Capture(w) == CHOOSE s \in Free(w) : TRUE

-----------------------------------------------------------------------------
(* Releasing streams, and the local tile.                                   *)

\* The tracks of s are stopped and its selection is dropped.
StopTracks_KeepsSelection(w, s) ==   \* mutant: the selection is not dropped
  IF s \notin Streams THEN w ELSE [w EXCEPT !.stream[s] = "dead"]
StopTracks(w, s) ==
  IF s \notin Streams THEN w
  ELSE [w EXCEPT !.stream[s] = "dead",
                 !.active = [k \in Kinds |-> IF @[k].stream = s THEN None ELSE @[k]]]

\* Connecting or Updating: the session defers an Update.
Busy(w) == w.sess = "start" \/ (w.sess = "up" /\ w.job # NoJob)

\* deferAction() and performDeferredAction(): one slot; what is replaced, or is
\* of lower priority than a waiting stop, never happens.
Defer(w, kind, old) ==
  IF w.slot.kind = "stop" THEN Spill(w, old)
  ELSE Spill([w EXCEPT !.slot = [kind |-> kind, old |-> old]], w.slot.old)

\* ReceiveVideoInputTask with the local tile stopped.
StopVideoInput(w) == [StopTracks(w, w.using.video) EXCEPT !.using.video = 0]

\* stopLocalVideoTile() and its update().
StopTile(w) ==
  LET v == [w EXCEPT !.tile = FALSE]
  IN  IF Busy(v) THEN Defer(v, "update", 0)
      ELSE IF v.sess = "up"
      THEN [StopVideoInput(v) EXCEPT !.job = [NoJob EXCEPT !.kind = "update"]]
      ELSE v

ReleaseMediaStream(w, s) ==
  LET v == IF s = Mix THEN (IF w.source = 0 THEN w ELSE [w EXCEPT !.stream[w.source] = "dead"])
           ELSE StopTracks(w, s)
  IN  IF s # 0 /\ w.active.video.stream = s /\ w.tile THEN StopTile(v) ELSE v

-----------------------------------------------------------------------------
(* The session takes a video input.                                         *)

\* The end of ReceiveVideoInputTask: what the session used is forgotten.
UseVideo(w, s) ==
  LET v == [w EXCEPT !.using.video = s, !.job.receiving = FALSE]
  IN  Spill(v, w.using.video)

\* same: the device id still stands for the same group of devices.
Reusable(w, kind, device, same) ==
  LET a == w.active[kind]
  IN  a.stream # 0 /\ a.device = device /\ IsLive(w, a.stream) /\ (same \/ device = NoDevice)

Prompt(w, c, kind, device) ==
  [w EXCEPT !.call[c] = [Idle EXCEPT !.at = "prompt", !.kind = kind, !.device = device]]

\* ReceiveVideoInputTask, up to its await of acquireVideoInputStream().
ReceiveVideoInput_KeepsInput(w, same) ==   \* mutant: an input that exists is kept
  LET a == w.active.video
  IN  IF ~w.tile THEN StopVideoInput(w)
      ELSE IF IsLive(w, w.using.video) THEN w
      ELSE IF a.stream = 0 THEN UseVideo(StopTile(w), 0)
      ELSE IF Reusable(w, "video", a.device, same) THEN UseVideo(w, a.stream)
      ELSE Prompt([w EXCEPT !.job.receiving = TRUE], 0, "video", a.device)
ReceiveVideoInput(w, same) ==
  LET a == w.active.video
  IN  IF ~w.tile THEN StopVideoInput(w)
      ELSE IF a.stream = 0 THEN UseVideo(StopTile(w), 0)
      ELSE IF Reusable(w, "video", a.device, same) THEN UseVideo(w, a.stream)
      ELSE Prompt([w EXCEPT !.job.receiving = TRUE], 0, "video", a.device)

BeginUpdate(w, same) ==
  ReceiveVideoInput([w EXCEPT !.job = [NoJob EXCEPT !.kind = "update"]], same)

\* The work of restartLocalVideo().
BeginRestart(w, old, same) ==
  LET begun(kind) == [w EXCEPT !.job = [NoJob EXCEPT !.kind = kind, !.old = old]]
  IN  IF w.tile THEN ReceiveVideoInput(StopTile(begun("restartStop")), same)
      ELSE ReceiveVideoInput(begun("restartStart"), same)

\* perform(Update) of restartLocalVideo(): its callback releases the old stream.
RestartLocalVideo(w, old, same) ==
  IF Busy(w) THEN Defer(w, "restart", old)
  ELSE IF w.sess = "up" THEN BeginRestart(w, old, same)
  ELSE Spill(w, old)

-----------------------------------------------------------------------------
(* chooseInputDevice.                                                       *)

\* The session's context has a peer connection.
HasPeer(w) == w.sess \in {"up", "closing"} \/ w.job.kind = "join"

\* attachAudioInputStreamToAudioContext().
Attach(w) == [w EXCEPT !.source = w.active.audio.stream]

\* The session sends the microphone s from now on.
UseAudio(w, s) ==
  Spill([w EXCEPT !.using.audio = s, !.refused = s = 0], w.using.audio)

\* restartLocalAudio() with a live selection, whose acquire reuses it.  Before
\* there is a peer connection it throws, also when the session has its microphone.
RestartLocalAudio(w) ==
  IF HasPeer(w) THEN UseAudio(w, w.active.audio.stream) ELSE [w EXCEPT !.refused = TRUE]

\* The device is selected and the former selection released, or left to the
\* callback of restartLocalVideo().  A microphone that has ended meanwhile is
\* asked for again by the acquire of restartLocalAudio().
Install_LeavesOld(w, c, kind, device, s, same) ==   \* mutant: the former stream is not released
  [w EXCEPT !.active[kind] = [stream |-> s, device |-> device]]
Install(w, c, kind, device, s, same) ==
  LET old == w.active[kind].stream
      v   == [w EXCEPT !.active[kind] = [stream |-> s, device |-> device]]
      u   == ReleaseMediaStream(v, old)
  IN  IF kind = "video"
      THEN IF c # 0 /\ v.tile THEN RestartLocalVideo(v, old, same) ELSE u
      ELSE IF web THEN Attach(u)
      ELSE IF IsLive(u, s) THEN RestartLocalAudio(u)
      ELSE Prompt(ReleaseMediaStream(u, s), c, kind, device)

\* chooseInputDevice(video, null): every call made before is overruled.
NoVideo_NotOverruled(w) ==   \* mutant: lastNoVideoInputDeviceCount is not set
  ReleaseMediaStream(w, w.active.video.stream)
NoVideo(w) ==
  LET v == [w EXCEPT !.call = [c \in DOMAIN w.call |->
              [w.call[c] EXCEPT !.overruled = @ \/ (w.call[c].kind = "video" /\
                                                    w.call[c].at # "idle")]]]
  IN  ReleaseMediaStream(v, v.active.video.stream)

\* chooseInputDevice(kind, device) up to its await.  A null microphone is a
\* synthesized silent stream, there at once.
Choose(w, c, kind, device, same) ==
  LET v == IF kind = "audio" THEN ReleaseMediaStream(w, w.active.audio.stream) ELSE w
      s == Capture(v)
  IN  IF kind = "video" /\ device = NoDevice THEN NoVideo(w)
      ELSE IF Reusable(w, kind, device, same) THEN w
      ELSE IF device = NoDevice
      THEN Install([v EXCEPT !.stream[s] = "live"], c, kind, device, s, same)
      ELSE Prompt(v, c, kind, device)

\* The await of chooseInputDevice is over.  For the call of acquireInputStream
\* the session takes what is selected now; without a selection, or after a
\* denial, it takes nothing.
Finish(w, c, granted) ==
  LET kind  == w.call[c].kind
      v     == [w EXCEPT !.call[c] = Idle]
      taken == IF granted THEN w.active[kind].stream ELSE 0
  IN  IF c # 0 THEN v
      ELSE IF kind = "video" THEN UseVideo(v, taken)
      ELSE UseAudio([v EXCEPT !.job.receiving = FALSE], taken)

\* The call goes on with its stream after handleDeviceChange().
Proceed(w, c, s, same) ==
  LET a == w.call[c]
      v == Install([w EXCEPT !.call[c] = Idle], c, a.kind, a.device, s, same)
  IN  IF v.call[c].at = "prompt" THEN v
      ELSE Finish([v EXCEPT !.call[c] = [a EXCEPT !.stream = 0]], c, TRUE)

-----------------------------------------------------------------------------
(* The application.                                                         *)

\* Bound: streams are left for what a turn captures.
Room == Free(World) # {}

\* Bound: what is under way.
Load == Cardinality({c \in DOMAIN call : call[c] # Idle}) + opening +
        (IF sess \in {"down", "up"} /\ job = NoJob THEN 0 ELSE 1)

ChooseInputDevice(kind) ==
  \E device \in Devices(kind) \cup {NoDevice}, same \in BOOLEAN :
    /\ Room /\ Load < MaxLoad
    /\ \E c \in Calls :
         /\ call[c] = Idle
         /\ Become(Choose(World, c, kind, device, same))
    /\ wanted' = IF kind = "audio" THEN wanted
                 ELSE IF device = NoDevice THEN "nothing" ELSE "camera"
    /\ UNCHANGED <<opening, web>>

\* startVideoPreviewForVideoInput: the camera is opened a second time.
StartPreview ==
  /\ active.video.stream # 0
  /\ Load < MaxLoad
  /\ Become([ReleaseMediaStream(World, preview) EXCEPT !.preview = 0])
  /\ opening' = opening + 1
  /\ UNCHANGED <<web, wanted>>

PreviewOpens ==
  /\ opening > 0 /\ opening' = opening - 1
  /\ \/ Become(World)
     \/ /\ Room
        /\ LET s == Capture(World)
           IN  Become(Spill([World EXCEPT !.stream[s] = "live", !.preview = s], preview))
  /\ UNCHANGED <<web, wanted>>

\* stopVideoPreviewForVideoInput: it releases the selected camera as well.
StopPreview ==
  /\ LET w == [ReleaseMediaStream(World, preview) EXCEPT !.preview = 0]
     IN  Become(ReleaseMediaStream(w, w.active.video.stream))
  /\ UNCHANGED <<opening, web, wanted>>

-----------------------------------------------------------------------------
(* The browser.                                                             *)

\* getUserMedia ends.  This is the only point at which an overruled call is
\* given up.  The handleDeviceChange() that follows returns at once, or waits
\* for the list of devices when it is the one that refreshes the cache.
PromptGranted(w, c, s) ==
  IF w.call[c].overruled THEN w
  ELSE [w EXCEPT !.stream[s] = "live", !.call[c].at = "change", !.call[c].stream = s]

PromptEnds(c) ==
  /\ call[c].at = "prompt"
  /\ \/ Become(Finish(World, c, FALSE))
     \/ /\ Room
        /\ LET s == Capture(World)
               w == PromptGranted(World, c, s)
           IN  IF w.call[c].at = "prompt" THEN Become(Finish(w, c, TRUE))
               ELSE \/ Become(w)
                    \/ \E same \in BOOLEAN : Become(Proceed(w, c, s, same))
  /\ UNCHANGED <<opening, web, wanted>>

\* handleDeviceChange() had to wait for enumerateDevices.  When that fails
\* nothing refers to the stream of the call.
ListArrives(c) ==
  /\ call[c].at = "change"
  /\ \/ \E same \in BOOLEAN :
          /\ Become(Proceed(World, c, call[c].stream, same))
          /\ wanted' = IF call[c].overruled /\ wanted = "nothing" THEN "overrun" ELSE wanted
     \/ Become(Spill(Finish(World, c, FALSE), call[c].stream)) /\ UNCHANGED wanted
  /\ UNCHANGED <<opening, web>>

\* The device of a stream is gone.  The listener is there once the call is over,
\* and chooses null if the stream is still selected.
StreamEnds(s) ==
  /\ stream[s] = "live" /\ Room
  /\ LET dead == [World EXCEPT !.stream[s] = "dead"]
     IN  IF \E c \in DOMAIN call : call[c].stream = s
         THEN Become([World EXCEPT !.stream[s] = "missed"])
         ELSE IF active.video.stream = s THEN Become(NoVideo(dead))
         ELSE IF active.audio.stream = s /\ active.audio.device # NoDevice
         THEN Become(Choose(dead, 0, "audio", NoDevice, FALSE))
         ELSE active.audio.stream # s /\ Become(dead)
  /\ UNCHANGED <<opening, web, wanted>>

-----------------------------------------------------------------------------
(* The session.                                                             *)

\* AudioVideoStart with a new context, and ReceiveAudioInputTask.  Bound: once
\* the tasks of the session before have ended.
Start ==
  /\ sess = "down" /\ job = NoJob /\ call[0] = Idle /\ Room /\ Load < MaxLoad
  /\ \E same \in BOOLEAN :
       LET v == Spill([World EXCEPT !.using = [k \in Kinds |-> 0], !.sess = "start",
                                    !.job = [NoJob EXCEPT !.kind = "start"]], using.video)
           w == Spill(v, using.audio)
           u == Choose(w, 0, "audio", active.audio.device, same)
       IN  Become(IF web THEN [w EXCEPT !.using.audio = Mix]
                  ELSE IF u.call[0].at = "prompt" THEN [u EXCEPT !.job.receiving = TRUE]
                  ELSE UseAudio(u, u.active.audio.stream))
  /\ UNCHANGED <<opening, web, wanted>>

\* The deferred action is performed on entering Connected.
PerformDeferred(w, same) ==
  LET v == [w EXCEPT !.slot = Nothing]
  IN  CASE w.slot.kind = "update"  -> BeginUpdate(v, same)
        [] w.slot.kind = "restart" -> BeginRestart(v, w.slot.old, same)
        [] w.slot.kind = "stop"    -> [v EXCEPT !.sess = "closing"]
        [] OTHER                   -> v

\* FinishConnecting or FinishUpdating, if the session is still there.
FinishJob(w, same) ==
  LET v == [w EXCEPT !.job = NoJob]
  IN  IF w.sess \in {"start", "up"} THEN PerformDeferred([v EXCEPT !.sess = "up"], same) ELSE v

JobEnds ==
  /\ job.kind # "none" /\ ~job.receiving
  /\ \E same \in BOOLEAN :
       LET again == [World EXCEPT !.tile = TRUE, !.job.kind = "restartStart"]
           next  == IF again.sess = "up" THEN Defer(again, "update", 0) ELSE again
       IN  Become(IF job.kind = "start" THEN [World EXCEPT !.job.kind = "join"]
                  ELSE IF job.kind = "restartStop" THEN ReceiveVideoInput(next, same)
                  ELSE LET w == FinishJob(World, same)
                       IN  IF IsLive(w, job.old) THEN ReleaseMediaStream(w, job.old) ELSE w)
  /\ UNCHANGED <<opening, web, wanted>>

\* startLocalVideoTile(), or an update that the monitor asks for.
RequestUpdate(w, same) ==
  IF Busy(w) THEN Defer(w, "update", 0)
  ELSE IF w.sess = "up" THEN BeginUpdate(w, same)
  ELSE w

StartLocalVideo ==
  /\ ~tile /\ Load < MaxLoad
  /\ \E same \in BOOLEAN : Become(RequestUpdate([World EXCEPT !.tile = TRUE], same))
  /\ UNCHANGED <<opening, web, wanted>>

StopLocalVideo ==
  /\ tile
  /\ Become(StopTile(World))
  /\ UNCHANGED <<opening, web, wanted>>

MonitorUpdate ==
  /\ sess \in {"start", "up"} /\ Load < MaxLoad
  /\ \E same \in BOOLEAN : Become(RequestUpdate(World, same))
  /\ UNCHANGED <<opening, web, wanted>>

Stop ==
  /\ sess \in {"start", "up"}
  /\ Become(IF ~Busy(World) THEN [World EXCEPT !.sess = "closing"]
            ELSE Defer(World, "stop", 0))
  /\ UNCHANGED <<opening, web, wanted>>

\* The connection fails, or ends, not while the start still waits for a
\* microphone.  What is deferred has no transition any more and is dropped.
Fail ==
  /\ sess = "up" \/ (sess = "start" /\ ~job.receiving)
  /\ LET w == [World EXCEPT !.slot = Nothing,
                 !.sess = IF HasPeer(World) THEN "closing" ELSE "aborting",
                 !.job = IF sess = "start" THEN NoJob ELSE job]
     IN  Become(Spill(w, slot.old))
  /\ UNCHANGED <<opening, web, wanted>>

\* CleanStoppedSessionTask.  Releasing the mix without a source node throws.
Clean(w) ==
  LET v == ReleaseMediaStream(w, w.using.audio)
      u == ReleaseMediaStream([v EXCEPT !.using.audio = 0], v.using.video)
  IN  IF w.using.audio = Mix /\ w.source = 0 THEN [w EXCEPT !.sess = "down"]
      ELSE [u EXCEPT !.using.video = 0, !.tile = FALSE, !.sess = "down"]

Disconnected ==
  /\ sess \in {"closing", "aborting"}
  /\ Become(Clean(World))
  /\ UNCHANGED <<opening, web, wanted>>

-----------------------------------------------------------------------------
Init ==
  /\ active = [k \in Kinds |-> None]
  /\ stream = [s \in Streams |-> "free"]
  /\ call = [c \in Calls \cup {0} |-> Idle]
  /\ preview = 0 /\ opening = 0
  /\ web \in BOOLEAN /\ source = 0
  /\ sess = "down" /\ job = NoJob /\ slot = Nothing /\ tile = FALSE
  /\ using = [k \in Kinds |-> 0] /\ refused = FALSE
  /\ wanted = "camera"

Next ==
  \/ \E k \in Kinds : ChooseInputDevice(k)
  \/ StartPreview \/ PreviewOpens \/ StopPreview
  \/ \E c \in Calls \cup {0} : PromptEnds(c) \/ ListArrives(c)
  \/ \E s \in Streams : StreamEnds(s)
  \/ Start \/ JobEnds \/ StartLocalVideo \/ StopLocalVideo \/ MonitorUpdate
  \/ Stop \/ Fail \/ Disconnected

Spec == Init /\ [][Next]_vars

-----------------------------------------------------------------------------
\* Every stream that is live has a holder that will release it, except those
\* spilled at the places that this module names.
NothingLost ==
  \A s \in Streams : IsLive(World, s) => s \in Holders(World)

\* When the last request of the application was for no camera, none is selected,
\* until a call that had passed its check before that request selects one.
NoDeviceUnlessOverrun == wanted = "nothing" => active.video.stream = 0

\* A selected stream that has ended has ended before its listener was added, or
\* is the source of the mix that a session has released.
SelectionIsAlive ==
  \A k \in Kinds : active[k].stream # 0 =>
    \/ stream[active[k].stream] \in {"live", "missed"}
    \/ web /\ active[k].stream = source

\* A session at rest sends what is selected: no other camera, and none while the
\* local tile is stopped; no other live microphone, and the selected one if there
\* is one, directly or, with Web Audio, as the source of the mix.  Excepted are a
\* session that was denied its microphone, and one for which a microphone was
\* chosen before its peer connection: chooseInputDevice() has stopped the stream
\* that the session has taken, and restartLocalAudio() throws.  Such a session
\* sends nothing, or a microphone that has ended, until another one is chosen.
SessionSendsSelection ==
  sess = "up" /\ job = NoJob =>
    /\ using.video \in {0, active.video.stream} /\ (~tile => using.video = 0)
    /\ IsLive(World, using.audio) => using.audio = active.audio.stream
    /\ IF web THEN active.audio.stream \in {0, source}
       ELSE refused \/ active.audio.stream \in {0, using.audio}
=============================================================================
