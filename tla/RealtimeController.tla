------------------------- MODULE RealtimeController -------------------------
(***************************************************************************)
(* DefaultRealtimeController with the tasks of the session that hang on it: *)
(* who is present (DefaultVolumeIndicatorAdapter, WaitForAttendeePresence-  *)
(* Task), the mute state (ListenForVolumeIndicatorsTask), the microphone     *)
(* that the session sends (ReceiveAudioInputTask, restartLocalAudio), the    *)
(* indicator of the local attendee, data messages and fatal errors.         *)
(*                                                                          *)
(* The controller calls its callbacks one after the other in the turn of    *)
(* the method, and a callback may call the controller again, or leave the    *)
(* list that is being gone through.  A method pushes one frame per list that *)
(* it goes through on the stack; Call makes the next call of the top frame.  *)
(* Everything else happens between turns, when the stack is empty.          *)
(***************************************************************************)
EXTENDS Naturals, SequencesExt

CONSTANTS Inputs,     \* streams of a microphone; one that is gone gives its name free
          MaxStreams, \* bound: stream ids that the server gives out
          MaxDepth    \* bound: methods under way at the same time

ASSUME RealtimeBounds == MaxStreams \in Nat /\ MaxDepth \in Nat \ {0} /\ "none" \notin Inputs

Attendees == {"me", "other"}
Streams   == 1 .. MaxStreams

VARIABLES
  muted, canUnmute,
  input,      \* audioInput: the stream that the controller mutes and unmutes
  sent,       \* activeAudioInput: the stream whose tracks the session sends
  enabled,    \* the streams whose tracks are enabled
  indicator,  \* volumeIndicatorState of the local attendee
  told,       \* history: what the indicator's subscriber has been told
  presence,   \* attendeeIdChangesCallbacks
  mutes,      \* muteAndUnmuteLocalAudioCallbacks
  stack,      \* the lists that are being gone through
  session,    \* down, connecting, open, subscribed, up, reconnecting or reopened
  streams,    \* streamIdToAttendeeId of the adapter
  given,      \* the stream ids that the server has given out
  server,     \* what the server knows of the mute state
  roster,     \* history: who is present, as each subscriber was told
  restarted,  \* history: restartLocalAudio has replaced the tracks of this session
  disturbed   \* history: a callback has called the controller again

sending == <<sent, restarted>>
audio   == <<muted, canUnmute, input, enabled, indicator, told, sending>>
lists   == <<presence, mutes>>
remote  == <<streams, given>>
vars == <<audio, lists, stack, session, remote, server, roster, disturbed>>

\* early and late: callbacks of the application, subscribed before the session
\* was started or later; wait and task: the callbacks of the session's tasks.
Subscribers == {"early", "late"}

\* What a RealtimeVolumeIndicator can say: null, or the mute state and a volume.
Unknown == "null"
Said(m) == IF m THEN "muted" ELSE "unmuted"
NewIndicator == [muted |-> Unknown, volume |-> Unknown]
Ready == session \in {"open", "reopened", "subscribed", "up"}

\* indexOf and splice: the callback leaves the list, and those behind it move up.
IndexOf(list, c) ==
  CHOOSE i \in 1 .. Len(list) : list[i] = c /\ \A j \in 1 .. i - 1 : list[j] # c
Without(list, c) == IF Contains(list, c) THEN RemoveAt(list, IndexOf(list, c)) ELSE list

Quiet == stack = <<>>
Push(f) == <<f>> \o stack
Top == stack[1]
Pop == Tail(stack)

-----------------------------------------------------------------------------
(* Muting, and the indicator of the local attendee.                         *)

\* setAudioInputEnabled.
SetEnabled(i, e) == IF e THEN enabled \cup ({i} \cap Inputs) ELSE enabled \ {i}

\* realtimeUpdateVolumeIndicator of the local attendee with what the server, or
\* the controller itself, says of it: the local state comes before the remote
\* one while there is an input.  l and in: the local state by then.
UpdateVolumeIndicator_VolumeStays(l, in, m, v) ==   \* mutant: muting leaves the volume
  LET mute == IF in = "none" THEN m ELSE Said(l)
      s    == [indicator EXCEPT !.muted = IF mute = Unknown THEN @ ELSE mute]
      t    == IF s.muted # "muted" /\ v # Unknown THEN [muted |-> "unmuted", volume |-> v] ELSE s
  IN  /\ indicator' = t
      /\ told' = [f \in DOMAIN t |-> IF t[f] # indicator[f] THEN t[f] ELSE told[f]]
UpdateVolumeIndicator(l, in, m, v) ==
  LET mute == IF in = "none" THEN m ELSE Said(l)
      s    == IF mute \in {Unknown, indicator.muted} THEN indicator
              ELSE [muted |-> mute, volume |-> IF mute = "muted" THEN "zero" ELSE indicator.volume]
      t    == IF s.muted # "muted" /\ v # Unknown THEN [muted |-> "unmuted", volume |-> v] ELSE s
  IN  /\ indicator' = t
      /\ told' = [f \in DOMAIN t |-> IF t[f] # indicator[f] THEN t[f] ELSE told[f]]

\* realtimeMuteLocalAudio and realtimeUnmuteLocalAudio, when they do something.
Mute ==
  /\ ~muted /\ muted' = TRUE
  /\ enabled' = SetEnabled(input, FALSE)
  /\ UpdateVolumeIndicator(TRUE, input, Unknown, Unknown)
  /\ stack' = Push([on |-> "mutes", at |-> 1, value |-> TRUE])
Unmute ==
  /\ muted /\ canUnmute /\ muted' = FALSE
  /\ enabled' = SetEnabled(input, TRUE)
  /\ UpdateVolumeIndicator(FALSE, input, Unknown, Unknown)
  /\ stack' = Push([on |-> "mutes", at |-> 1, value |-> FALSE])

MuteOrUnmute ==
  /\ Quiet /\ (Mute \/ Unmute)
  /\ UNCHANGED <<canUnmute, input, sending, lists, session, remote, server, roster, disturbed>>

SetCanUnmute ==
  /\ Quiet /\ canUnmute' = ~canUnmute
  /\ UNCHANGED <<muted, input, enabled, indicator, told, sending, lists, stack, session, remote, server, roster, disturbed>>

\* realtimeSetLocalAudioInput, with a stream that the browser has opened with its
\* tracks enabled.
SetLocalAudioInput_AsItComes(i) ==   \* mutant: the mute state is not applied to the new input
  input' = i /\ enabled' = SetEnabled(input, FALSE) \cup {i}
SetLocalAudioInput(i) ==
  /\ input' = i
  /\ enabled' = IF muted THEN SetEnabled(input, FALSE) \ {i} ELSE SetEnabled(input, FALSE) \cup {i}

\* ReceiveAudioInputTask, when a microphone is available.  It does nothing when the
\* session has one, unless that one came while it waited for the device controller.
ReceiveAudioInput ==
  /\ Quiet /\ session = "connecting" /\ input = "none"
  /\ \E i \in Inputs : SetLocalAudioInput(i) /\ sent' = i
  /\ UNCHANGED <<muted, canUnmute, indicator, told, restarted, lists, stack, session, remote, server,
                 roster, disturbed>>

\* Without Web Audio a chosen microphone replaces the tracks that are sent, in a
\* session with a peer connection or, when the call was made in the session before,
\* in the one that has come since.  The controller does not hear of it: the new
\* tracks are enabled, and audioInput is what it was.
RestartLocalAudio ==
  /\ Quiet /\ session # "down"
  /\ \E i \in Inputs \ {input} :
       sent' = i /\ enabled' = (enabled \cap {input}) \cup {i}
  /\ restarted' = TRUE
  /\ UNCHANGED <<muted, canUnmute, input, indicator, told, lists, stack, session, remote, server,
                 roster, disturbed>>

\* The server's word on the local attendee's mute state or volume.
IndicatorFrame ==
  /\ Quiet /\ session \in {"subscribed", "up"}
  /\ \E m \in {"muted", "unmuted", Unknown}, v \in {"zero", "loud", Unknown} :
       UpdateVolumeIndicator(muted, input, m, v)
  /\ UNCHANGED <<muted, canUnmute, input, enabled, sending, lists, stack, session, remote, server,
                 roster, disturbed>>

-----------------------------------------------------------------------------
(* The calls of one turn.                                                   *)

\* DefaultVolumeIndicatorAdapter's entry of a stream that an attendee has got.
StreamJoins ==
  /\ Quiet /\ session \in {"subscribed", "up"}
  /\ given < MaxStreams /\ given' = given + 1
  /\ \E a \in Attendees :
       /\ streams' = [streams EXCEPT ![given + 1] = a]
       /\ stack' = Push([on |-> "presence", at |-> 1, who |-> a, value |-> TRUE])
  /\ UNCHANGED <<audio, lists, session, server, roster, disturbed>>

\* An entry of a stream that is gone: its attendee may have a newer one.  The
\* server, which is not in the repository, takes older streams away first.
NewerStream(s) == \E t \in Streams : t > s /\ streams[t] = streams[s]
StreamLeaves_Always ==   \* mutant: the newer stream is not looked for
  /\ Quiet /\ session \in {"subscribed", "up"}
  /\ \E s \in Streams :
       /\ streams[s] # "none" /\ \A t \in 1 .. s - 1 : streams[t] # streams[s]
       /\ streams' = [streams EXCEPT ![s] = "none"]
       /\ stack' = Push([on |-> "presence", at |-> 1, who |-> streams[s], value |-> FALSE])
  /\ UNCHANGED <<audio, lists, session, given, server, roster, disturbed>>
StreamLeaves ==
  /\ Quiet /\ session \in {"subscribed", "up"}
  /\ \E s \in Streams :
       /\ streams[s] # "none" /\ \A t \in 1 .. s - 1 : streams[t] # streams[s]
       /\ streams' = [streams EXCEPT ![s] = "none"]
       /\ stack' = IF NewerStream(s) THEN stack
                   ELSE Push([on |-> "presence", at |-> 1, who |-> streams[s], value |-> FALSE])
  /\ UNCHANGED <<audio, lists, session, given, server, roster, disturbed>>

Listeners == IF Top.on = "presence" THEN presence ELSE mutes
Next1 == <<[Top EXCEPT !.at = @ + 1]>> \o Pop   \* the loop after this call

\* The list has been gone through.
Return ==
  /\ ~Quiet /\ Top.at > Len(Listeners)
  /\ stack' = Pop
  /\ UNCHANGED <<audio, lists, session, remote, server, roster, disturbed>>

\* A callback of the application for the presence of an attendee.
Hear(who) ==
  /\ roster' = [roster EXCEPT ![who] = IF Top.value THEN @ \cup {Top.who} ELSE @ \ {Top.who}]
  /\ stack' = Next1
  /\ UNCHANGED <<audio, lists, session, server, disturbed>>

\* The handler of WaitForAttendeePresenceTask: it takes itself off the list that
\* is being gone through, so what follows it moves up by one place.
Wait ==
  /\ stack' = Next1
  /\ IF Top.who = "me" /\ Top.value
     THEN /\ presence' = Without(presence, "wait")
          /\ session' = "up"
     ELSE UNCHANGED <<presence, session>>
  /\ UNCHANGED <<audio, mutes, server, roster, disturbed>>

\* realtimeMuteAndUnmuteHandler of ListenForVolumeIndicatorsTask: a frame that
\* is sent while the connection is not ready is lost.
SendMute ==
  /\ server' = IF Ready THEN Top.value ELSE server
  /\ stack' = Next1
  /\ UNCHANGED <<audio, lists, session, roster, disturbed>>

\* A callback of the application for the mute state, which may change it again.
AppHearsMute ==
  /\ \/ /\ stack' = Next1 /\ UNCHANGED <<muted, enabled, indicator, told, disturbed>>
     \/ /\ Len(stack) < MaxDepth /\ disturbed' = TRUE
        /\ \/ ~muted /\ muted' = TRUE
           \/ muted /\ canUnmute /\ muted' = FALSE
        /\ enabled' = SetEnabled(input, muted)
        /\ UpdateVolumeIndicator(muted', input, Unknown, Unknown)
        /\ stack' = <<[on |-> "mutes", at |-> 1, value |-> muted']>> \o Next1
  /\ UNCHANGED <<canUnmute, input, sending, lists, session, server, roster>>

Call ==
  /\ ~Quiet /\ Top.at <= Len(Listeners)
  /\ LET c == Listeners[Top.at] IN
       IF Top.on = "presence" THEN IF c = "wait" THEN Wait ELSE Hear(c)
       ELSE IF c = "task" THEN SendMute ELSE AppHearsMute
  /\ UNCHANGED remote

-----------------------------------------------------------------------------
(* The application's subscriptions and the session.                         *)

Subscribe ==
  /\ Quiet
  /\ \/ /\ \E c \in Subscribers :
             /\ c = IF session = "down" THEN "early" ELSE "late"
             /\ ~Contains(presence, c)
             /\ presence' = Append(presence, c)
        /\ UNCHANGED mutes
     \/ /\ ~Contains(mutes, "app") /\ mutes' = Append(mutes, "app")
        /\ UNCHANGED presence
  /\ UNCHANGED <<audio, stack, session, remote, server, roster, disturbed>>

Unsubscribe ==
  /\ Quiet
  /\ \/ /\ \E c \in Subscribers :
             /\ Contains(presence, c)
             /\ presence' = Without(presence, c)
        /\ UNCHANGED mutes
     \/ /\ Contains(mutes, "app") /\ mutes' = Without(mutes, "app")
        /\ UNCHANGED presence
  /\ UNCHANGED <<audio, stack, session, remote, server, roster, disturbed>>

\* actionConnect: a new adapter.
Start ==
  /\ Quiet /\ session = "down" /\ session' = "connecting"
  /\ streams' = [s \in Streams |-> "none"] /\ given' = 0
  /\ disturbed' = FALSE
  /\ UNCHANGED <<audio, lists, stack, server, roster>>

\* OpenSignalingConnectionTask and ListenForVolumeIndicatorsTask.
Opened ==
  /\ Quiet
  /\ \/ session = "connecting" /\ session' = "open" /\ mutes' = Append(mutes, "task")
     \/ session = "reconnecting" /\ session' = "reopened" /\ UNCHANGED mutes
  /\ UNCHANGED <<audio, presence, stack, remote, server, roster, disturbed>>

\* SubscribeAndReceiveSubscribeAckTask tells the server the mute state; the first
\* connection then waits for the local attendee.
Subscribed_SaysNothing ==   \* mutant: the frame does not carry the mute state
  /\ Quiet
  /\ \/ session = "open" /\ session' = "subscribed" /\ presence' = Append(presence, "wait")
     \/ session = "reopened" /\ session' = "up" /\ UNCHANGED presence
  /\ UNCHANGED <<audio, mutes, stack, remote, server, roster, disturbed>>
Subscribed ==
  /\ Quiet
  /\ \/ session = "open" /\ session' = "subscribed" /\ presence' = Append(presence, "wait")
     \/ session = "reopened" /\ session' = "up" /\ UNCHANGED presence
  /\ server' = muted
  /\ UNCHANGED <<audio, mutes, stack, remote, roster, disturbed>>

\* The connection is lost, and actionReconnect keeps the tasks' callbacks.
Reconnect ==
  /\ Quiet /\ session = "up" /\ session' = "reconnecting"
  /\ UNCHANGED <<audio, lists, stack, remote, server, roster, disturbed>>

\* The session ends, also when the attendee does not appear in time: its
\* callbacks are removed, its stream is released and its input let go of.  The
\* application forgets its roster and takes back what it subscribed during the
\* session.
Ending ==
  /\ session' = "down"
  /\ presence' = Without(Without(presence, "wait"), "late")
  /\ mutes' = Without(mutes, "task")
  /\ input' = "none" /\ sent' = "none" /\ enabled' = {} /\ restarted' = FALSE
  /\ roster' = [c \in Subscribers |-> {}]

Stop ==
  /\ Quiet /\ session # "down" /\ Ending
  /\ UNCHANGED <<muted, canUnmute, indicator, told, stack, remote, server, disturbed>>

\* realtimeSendDataMessage: the handler of SendAndReceiveDataMessagesTask throws
\* when the connection is not ready or the message is not valid.  The error is
\* reported as a fatal one, and MonitorTask ends the session.
SendDataMessage ==
  /\ Quiet /\ session \notin {"down", "connecting"}
  /\ Ending
  /\ UNCHANGED <<muted, canUnmute, indicator, told, stack, remote, server, disturbed>>

-----------------------------------------------------------------------------
Init ==
  /\ muted = FALSE /\ canUnmute = TRUE /\ input = "none" /\ enabled = {}
  /\ sent = "none" /\ restarted = FALSE
  /\ indicator = NewIndicator /\ told = NewIndicator
  /\ presence = <<>> /\ mutes = <<>> /\ stack = <<>>
  /\ session = "down" /\ streams = [s \in Streams |-> "none"] /\ given = 0
  /\ server = FALSE /\ roster = [c \in Subscribers |-> {}]
  /\ disturbed = FALSE

Next ==
  \/ MuteOrUnmute \/ SetCanUnmute \/ ReceiveAudioInput \/ RestartLocalAudio \/ IndicatorFrame
  \/ StreamJoins \/ StreamLeaves \/ Return \/ Call
  \/ Subscribe \/ Unsubscribe
  \/ Start \/ Opened \/ Subscribed \/ Reconnect \/ Stop \/ SendDataMessage

Spec == Init /\ [][Next]_vars

-----------------------------------------------------------------------------
(* Properties.                                                              *)

\* "If realtimeIsLocalAudioMuted is true then the user is muted": the stream that
\* the session sends is the one that the controller mutes, and its tracks are
\* disabled exactly when the attendee is muted, whatever was muted before it was
\* acquired, and also in the middle of a turn.  The exception is a session whose
\* tracks restartLocalAudio has replaced: a microphone chosen while muted is sent
\* with its tracks enabled, and what is muted later is the stream before it.
MutedIsMuted ==
  ~restarted => sent = input /\ (sent # "none" => (muted <=> sent \notin enabled))

\* Once the session has subscribed, the server knows the mute state after every
\* turn, also what was changed while the connection was away and the frames were
\* lost.  A callback that mutes or unmutes in its turn is excepted: the ones
\* behind it in the list hear the two changes in the wrong order.
ServerKnowsMute ==
  Quiet /\ session \in {"subscribed", "up"} /\ ~disturbed => server = muted

\* The subscriber of the local attendee's indicator can put together the state
\* from what it was told, and a muted attendee is shown with no volume.
IndicatorIsTold ==
  /\ told = indicator
  /\ indicator.muted = "muted" => indicator.volume = "zero"

\* An application that subscribed before the session started knows after every
\* turn who is present: every attendee with a stream, through changes of streams
\* and while the task that waits for the local attendee leaves the list in the
\* middle of the loop.
EarlySubscriberKnowsRoster ==
  Quiet /\ session \in {"subscribed", "up"} /\ Contains(presence, "early") =>
    roster["early"] = {streams[s] : s \in Streams} \ {"none"}

=============================================================================
