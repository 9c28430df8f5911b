--------------------------- MODULE ScreenSharing ----------------------------
(* DefaultScreenSharingSession with its ScreenShareStream and                 *)
(* WebMMediaRecording, on a ReconnectingSocket: calls of start() that wait    *)
(* for the capture and for a ping, stops that wait for the recorder, key      *)
(* frames, and a connection that fails, reconnects and closes meanwhile.      *)
(* A stream is a ScreenShareStream with the capture and the recorders it was  *)
(* made of. MediaRecorder, MediaStreamTrack and WebSocket behave as the W3C   *)
(* and WHATWG specifications say.                                             *)
EXTENDS ReconnectingSocket

CONSTANTS Streams,  \* bound: calls of start(), with their captures, at a time
          MaxStops  \* bound: stop events of one stream that are waited for

ASSUME SharingAssumption == 0 \notin Streams /\ MaxStops \in Nat \ {0}

VARIABLES
  ws, sock, timer, strays, attempts, told, disturbed,   \* ReconnectingSocket
  current,   \* this.stream, 0 when it is null
  air,       \* what the service has heard of a stream on the connection in use
  stream,    \* the captures: their recorder, their tracks, the stops that wait
  chromium,  \* hasChromiumWebRTC()
  spilled    \* history: captures that the last turn let go of while live

vars == <<ws, sock, timer, strays, attempts, told, disturbed,
          current, air, stream, chromium, spilled>>

\* at: where start() is, "unheard" once it has started a stream of which the
\* service did not hear; rec: state of the delegate; original, clone: whether the
\* tracks of the capture, and those of the clone the delegate records, are live;
\* due: stop events of recorders that a stop() waits for.
NoStream == [at |-> "none", rec |-> "none", original |-> FALSE, clone |-> "none", due |-> 0]

World == [ws |-> ws, sock |-> sock, timer |-> timer, strays |-> strays,
          attempts |-> attempts, told |-> told, disturbed |-> disturbed,
          current |-> current, air |-> air, stream |-> stream, spilled |-> spilled]

Live(r) == r.original \/ r.clone = "live"

\* A stream that is over makes room, and so does one that was let go of, a turn
\* later: what still comes from its tracks is like any other stop.
Become(s) ==
  /\ ws' = s.ws /\ sock' = s.sock /\ timer' = s.timer /\ strays' = s.strays
  /\ attempts' = s.attempts /\ told' = s.told /\ disturbed' = s.disturbed
  /\ air' = IF s.ws = ws THEN s.air ELSE "idle"
  /\ current' = s.current /\ spilled' = s.spilled \ spilled
  /\ stream' = [i \in Streams |->
       IF i \in spilled \/ (s.stream[i].at = "over" /\ ~Live(s.stream[i]))
       THEN NoStream ELSE s.stream[i]]
  /\ UNCHANGED chromium

\* The last reference that would have released a capture goes away.
Spill(s, lost) ==
  [s EXCEPT !.spilled = @ \cup {i \in lost : Live(s.stream[i]) /\ s.stream[i].due = 0}]

-----------------------------------------------------------------------------
(* WebMMediaRecording.                                                       *)

\* key(): a recorder for the capture, or for a clone of it when there is one
\* already; a clone of tracks that have ended has ended, and cannot be recorded.
\* Only Chromium has the tracks of the former recorder stopped.
Key(r) ==
  CASE r.rec = "paused" -> r
    [] r.rec = "none"   -> [r EXCEPT !.rec = IF r.original THEN "recording" ELSE "inactive"]
    [] OTHER -> [r EXCEPT !.rec      = IF r.original THEN "recording" ELSE "inactive",
                          !.clone    = IF r.original THEN "live" ELSE "dead",
                          !.original = r.original /\ ~chromium]

StopRecording_TracksStay(r) ==   \* mutant: the tracks of the delegate are not stopped
  [r EXCEPT !.due = IF r.rec = "inactive" THEN @ ELSE @ + 1, !.rec = "inactive"]
\* stop(): the tracks of the delegate stop at once, the promise waits for the
\* stop event of the recorder, which comes once.
StopRecording(r) ==
  [r EXCEPT !.due      = IF r.rec = "inactive" THEN @ ELSE @ + 1,
            !.rec      = "inactive",
            !.clone    = IF @ = "live" THEN "dead" ELSE @,
            !.original = @ /\ r.clone # "none"]

-----------------------------------------------------------------------------
(* DefaultScreenSharingSession.                                              *)

CanSend(s) == s.ws # 0 /\ s.sock[s.ws].state = "open"

\* StreamStart and StreamEnd as the service hears them; send() throws without a
\* socket, and the listener of the stream catches that.
Send(s, heard) == IF CanSend(s) THEN [s EXCEPT !.air = heard] ELSE s

\* stop(), which rejects when there is no stream.
SessionStop(s) ==
  IF s.current = 0 THEN s
  ELSE [s EXCEPT !.stream[s.current] = StopRecording(@)]

\* start() after its ping: ScreenShareStream.start sends StreamStart and then
\* starts the recorder, which throws when the capture has ended. A stream that is
\* there already is replaced.
Started(s, i) ==
  LET keyed == Key(s.stream[i])
      sent  == Send(s, IF keyed.rec = "recording" THEN "sharing" ELSE "misled")
  IN  IF keyed.rec # "recording"
      THEN [sent EXCEPT !.stream[i].at = "over"]
      ELSE Spill([sent EXCEPT !.stream[i] = [keyed EXCEPT !.at = "started"], !.current = i],
                 {s.current} \ {0})

\* The stop event: StreamEnd, then this.stream = null, whichever it is by then.
\* On other browsers than Chromium a key frame has left tracks of its own behind.
Stopped(s, i) ==
  LET ended == [Send(s, "idle") EXCEPT !.current = 0, !.stream[i].due = @ - 1,
                  !.stream[i].at = IF s.stream[i].due = 1 THEN "over" ELSE @]
  IN  Spill(ended, ({s.current} \ {0, i}) \cup
                   (IF s.stream[i].clone # "none" THEN {i} ELSE {}))

-----------------------------------------------------------------------------
(* The application.                                                          *)

\* Bound: an application opens while at most one socket is in use, retries are
\* not bounded.
AppOpens ==
  /\ ws = 0 /\ FreeSockets(World) # {} /\ Cardinality(FreeSockets(World)) >= MaxSockets - 1
  /\ Become(Open(World))

AppCloses == ws # 0 /\ Become(Close(World))

AppStarts(i) ==
  /\ current = 0 /\ stream[i] = NoStream
  /\ Become([World EXCEPT !.stream[i].at = "prompt"])

\* The capture is there, and the ping is sent. Without a socket send() throws,
\* start() rejects, and nothing releases the capture. With timeoutMs 0 there is no
\* ping: the stream starts at once, also when its StreamStart cannot be sent.
Captures(i) ==
  /\ stream[i].at = "prompt"
  /\ LET got == [World EXCEPT !.stream[i].original = TRUE]
     IN  \/ CanSend(World)  /\ Become([got EXCEPT !.stream[i].at = "ping"])
         \/ ~CanSend(World) /\ Become(Spill([got EXCEPT !.stream[i].at = "over"], {i}))
         \/ Become([Started(got, i) EXCEPT !.stream[i].at =
                       IF CanSend(World) THEN "started" ELSE "unheard"])

Denied(i) == stream[i].at = "prompt" /\ Become([World EXCEPT !.stream[i] = NoStream])

\* The ping times out: start() rejects, and nothing releases the capture.
PingExpires(i) ==
  /\ stream[i].at = "ping"
  /\ Become(Spill([World EXCEPT !.stream[i].at = "over"], {i}))

AppStops == current # 0 /\ Become(SessionStop(World))

Pause ==
  /\ current # 0 /\ stream[current].rec = "recording"
  /\ Become([World EXCEPT !.stream[current].rec = "paused"])

Unpause ==
  /\ current # 0 /\ stream[current].rec = "paused"
  /\ Become([World EXCEPT !.stream[current].rec = "recording"])

-----------------------------------------------------------------------------
(* The browser.                                                              *)

RecorderStops(i) ==
  /\ stream[i].due > 0
  /\ Become(Stopped(World, i))

\* The user ends the capture in the bar of the browser: its tracks end, and the
\* listeners of key() stop the session's stream, whichever that is. The recorder
\* may have stopped of itself before.
CaptureEnds(i, byItself) ==
  /\ Live(stream[i])
  /\ LET r == stream[i]
         heard == r.at # "ping" /\ r.rec # "none"
         ended == [World EXCEPT !.stream[i] =
                     [r EXCEPT !.original = FALSE, !.clone = IF @ = "live" THEN "dead" ELSE @,
                               !.rec = IF byItself /\ @ # "none" THEN "inactive" ELSE @]]
     IN  Become(IF heard THEN SessionStop(ended) ELSE ended)

SocketOpens(i) ==
  /\ sock[i].state = "connecting"
  /\ Become(HearOpen(World, i))

\* The session stops on 'close' and on 'reconnect' alike.
SocketFails(i, again) ==
  /\ sock[i].state = "connecting"
  /\ again => FreeSockets(World) # {}
  /\ Become(SessionStop(HearFailure(World, i, again)))

SocketCloses_StreamGoesOn(i, normal) ==   \* mutant: the listeners do not stop the stream
  /\ \/ sock[i].state = "open"
     \/ sock[i].state = "closing" /\ (normal => ~sock[i].opening)
  /\ Become(HearClose(World, i, normal))
SocketCloses(i, normal) ==
  /\ \/ sock[i].state = "open"
     \/ sock[i].state = "closing" /\ (normal => ~sock[i].opening)
  /\ Become(SessionStop(HearClose(World, i, normal)))

OpenTimesOut(i) ==
  /\ sock[i].opening
  /\ Become(OpenExpires(World, i))

TimerFires ==
  /\ timer = "set" /\ (ws = 0 => FreeSockets(World) # {})
  /\ Become(FireTimer(World))

StrayFires ==
  /\ strays > 0 /\ (ws = 0 => FreeSockets(World) # {})
  /\ Become(FireStray(World))

-----------------------------------------------------------------------------
(* The service.                                                              *)

\* One response, whichever ping it answers, wakes every start() that waits for one.
HeartbeatResponse(i) ==
  /\ sock[i].state \in {"open", "closing"}
  /\ \E pings \in {{k \in Streams : stream[k].at = "ping"}} :
       \E k \in pings :
         \/ pings = {k} /\ Become(Started(World, k))
         \/ \E l \in pings \ {k} : Become(Started(Started(World, k), l))

StreamStopMessage(i) ==
  /\ sock[i].state \in {"open", "closing"} /\ current # 0
  /\ Become(SessionStop(World))

KeyRequest(i) ==
  /\ sock[i].state \in {"open", "closing"} /\ current # 0
  /\ stream[current].due < MaxStops
  /\ Become([World EXCEPT !.stream[current] = Key(@)])

-----------------------------------------------------------------------------
Init ==
  /\ ws = 0 /\ sock = [i \in Sockets |-> Unused]
  /\ timer = "none" /\ strays = 0 /\ attempts = 0
  /\ told = "closed" /\ disturbed = FALSE
  /\ current = 0 /\ air = "idle" /\ stream = [i \in Streams |-> NoStream]
  /\ chromium \in BOOLEAN /\ spilled = {}

Next ==
  \/ AppOpens \/ AppCloses \/ AppStops \/ Pause \/ Unpause
  \/ \E i \in Streams : \/ AppStarts(i) \/ Captures(i) \/ Denied(i)
                        \/ PingExpires(i) \/ RecorderStops(i)
                        \/ \E b \in BOOLEAN : CaptureEnds(i, b)
  \/ TimerFires \/ StrayFires
  \/ \E i \in Sockets : \/ SocketOpens(i) \/ OpenTimesOut(i)
                        \/ \E b \in BOOLEAN : SocketFails(i, b) \/ SocketCloses(i, b)
                        \/ HeartbeatResponse(i) \/ StreamStopMessage(i) \/ KeyRequest(i)

Spec == Init /\ [][Next]_vars

-----------------------------------------------------------------------------
\* A display capture that is live belongs to a start() under way, to the stream
\* of the session or to a stop() that waits, except those let go of at the places
\* that this module names: a ping that fails, a start() that another one
\* overtakes, a stop() that ends after such a start(), key frames where the
\* browser is not Chromium.
CaptureIsHeld ==
  \A i \in Streams : Live(stream[i]) =>
    i \in spilled \/ stream[i].at = "ping" \/ current = i \/ stream[i].due > 0

\* Unless a close event or the time-out of open() has made the reconnecting
\* socket forget a live one, there is one connection, and it is the one in use.
OneConnection ==
  ~disturbed => \A i \in Sockets : sock[i].state \in {"connecting", "open"} => i = ws

\* The service and the session agree: on the connection in use a stream is on
\* the air only while the session has one, and the session's stream, unless it
\* is being stopped, was announced on that connection. Excepted are a socket
\* opened while the one before is still closing, a capture that ended during
\* the ping, whose StreamStart nothing takes back, and a stream that start()
\* began without a ping when no connection was open: its StreamStart is lost in a
\* send() that throws, and no later connection makes up for it.
ServiceFollows ==
  (/\ CanSend(World) /\ ~disturbed /\ air # "misled"
   /\ \A i \in Sockets : sock[i].state # "closing") =>
    /\ air = "sharing" => current # 0
    /\ (/\ current # 0 /\ stream[current].due = 0
        /\ stream[current].rec # "inactive" /\ stream[current].at # "unheard") =>
         air = "sharing"

\* When the application was last told that the connection is being retried,
\* something is under way that will tell it more: a timer of the backoff, or a
\* socket that opens, fails or closes.
RetryIsUnderWay ==
  told = "reconnecting" =>
    timer = "set" \/ \E i \in Sockets : sock[i].state \in {"connecting", "closing"}
=============================================================================
