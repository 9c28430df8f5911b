--------------------------- MODULE VideoReception ---------------------------
(***************************************************************************)
(* How the videos of the others reach their tiles: index frames, the        *)
(* AllHighestVideoBandwidthPolicy, the slots that DefaultTransceiver-        *)
(* Controller gives to streams, the subscription and its answer, the track   *)
(* events of the browser (unified plan), and the tiles of                    *)
(* DefaultVideoTileController with pausing.                                  *)
(*                                                                          *)
(* An attendee publishes its video at a low and perhaps at a high quality;   *)
(* both streams are in one group.  The media server and the peer connection  *)
(* of the browser are external: frames arrive in the order in which they     *)
(* were sent, and a slot that goes on receiving raises no event when its     *)
(* stream is another one, since its track and media stream are the same.     *)
(***************************************************************************)
EXTENDS Integers, Sequences, FiniteSets

CONSTANTS NumAttendees,  \* others in the meeting
          Simulcast,     \* the ones that may publish two streams
          MaxFrames      \* bound: frames under way to the client

ASSUME VideoBounds ==
  NumAttendees \in Nat \ {0} /\ Simulcast \subseteq 1 .. NumAttendees /\ MaxFrames \in Nat \ {0}

Attendees == 1 .. NumAttendees
\* Streams 2 * a - 1 and 2 * a are the low and the high quality of attendee a.
Slots     == 1 .. NumAttendees
None      == 0
NoTile    == [attendee |-> None, stream |-> None, paused |-> FALSE, told |-> FALSE]
NoTracks  == [n \in Slots |-> None]

VARIABLES
  sending,     \* what the server has: the published streams
  inbox,       \* frames from the server
  halted,      \* streams that the server has been asked to pause
  index,       \* currentIndex: its streams
  wanted,      \* videosToReceive, the subscribedReceiveSet of the policy
  ack,         \* trackToStreamMap of the last subscribe ack, by slot
  slots,       \* videoSubscriptions without the camera; recvonly where not None
  phase,       \* down, joining, idle, attach, subscribe, ack or remote
  again,       \* an update waits for the one under way
  flows,       \* the browser: the stream that each slot receives
  tiles,       \* the remote tile of each slot's track
  misnamed,    \* history: a slot has had a tile with another name or none
  switched     \* history: a stream has changed under its tile

client == <<index, wanted, ack, slots, phase, again>>
shown  == <<flows, tiles, misnamed, switched>>
vars == <<sending, inbox, halted, client, shown>>

-----------------------------------------------------------------------------
(* The video stream index.                                                  *)

\* A set of numbers in order: how many come before x, and the one at position k.
Rank(S, x) == Cardinality({y \in S : y < x})
At(S, k)   == IF \E x \in S : Rank(S, x) = k THEN CHOOSE x \in S : Rank(S, x) = k ELSE None

\* attendeeIdForStreamId, and the group of a stream in the index.
AttendeeOf(s) == (s + 1) \div 2
AttendeeForTrack_InOrder(n) ==   \* mutant: tracks are taken to come in the order of the streams
  LET s == At({ack[k] : k \in Slots} \ {None}, n - 1) IN IF s = None THEN None ELSE AttendeeOf(s)
AttendeeForTrack(n) == IF ack[n] \in index THEN AttendeeOf(ack[n]) ELSE None
SameGroup(s, t) == {s, t} \subseteq index /\ AttendeeOf(s) = AttendeeOf(t)

\* highestQualityStreamFromEachGroupExcludingSelf: higher ids, higher bitrates.
Highest(idx) == {s \in idx : ~\E t \in idx : AttendeeOf(t) = AttendeeOf(s) /\ t > s}

\* perform(Update): at once, or after what is under way.
Update ==
  IF phase = "idle" THEN phase' = "attach" /\ UNCHANGED again
  ELSE again' = TRUE /\ UNCHANGED phase

-----------------------------------------------------------------------------
(* The media server.                                                        *)

\* An attendee starts or stops its video, or the high quality.
ServerChanges ==
  /\ Len(inbox) < MaxFrames
  /\ \E a \in Attendees : \E p \in {{}, {2 * a - 1}, {2 * a - 1, 2 * a}} :
       sending' = {s \in sending : AttendeeOf(s) # a} \cup p
  /\ sending' # sending /\ \A a \in Attendees \ Simulcast : 2 * a \notin sending'
  /\ inbox' = IF phase = "down" THEN <<>> ELSE Append(inbox, [index |-> sending'])
  /\ UNCHANGED <<halted, client, shown>>

\* JoinAndReceiveIndexTask, of a first connection or of a reconnection.
Join ==
  /\ phase = "down" /\ phase' = "joining"
  /\ inbox' = <<[index |-> sending]>>
  /\ UNCHANGED <<sending, halted, index, wanted, ack, slots, again, shown>>

\* ReceiveVideoStreamIndexTask: an index frame, the policy and the resubscription.
\* The first frame also lets the task group that connects go on.
ReceiveIndex_DropsUpdate ==   \* mutant: an update under way is not followed by another
  /\ inbox # <<>> /\ "index" \in DOMAIN Head(inbox)
  /\ inbox' = Tail(inbox)
  /\ index' = Head(inbox).index /\ wanted' = Highest(index')
  /\ phase' = IF phase = "joining" \/ (phase = "idle" /\ wanted' # wanted) THEN "attach" ELSE phase
  /\ UNCHANGED <<sending, halted, ack, slots, again, shown>>
ReceiveIndex ==
  /\ inbox # <<>> /\ "index" \in DOMAIN Head(inbox)
  /\ inbox' = Tail(inbox)
  /\ index' = Head(inbox).index /\ wanted' = Highest(index')
  /\ IF phase = "joining" THEN phase' = "attach" /\ again' = (wanted' # wanted)
     ELSE IF wanted' # wanted THEN Update
     ELSE UNCHANGED <<phase, again>>
  /\ UNCHANGED <<sending, halted, ack, slots, shown>>

\* audioVideoController.update() of the application, for example with a local tile.
AppUpdates ==
  /\ phase \notin {"down", "joining"} /\ Update
  /\ UNCHANGED <<sending, inbox, halted, index, wanted, ack, slots, shown>>

-----------------------------------------------------------------------------
(* One update, or the last part of a connection.                            *)

\* unsubscribeTransceivers: a slot keeps its group, with the stream wanted now.
Kept(n) == {t \in wanted : SameGroup(ack[n], t)}

\* AttachMediaInputTask, updateVideoTransceivers: what is left goes to the
\* inactive slots in order, and then to new transceivers.
AssignSlots_SkipsOccupied(all) ==   \* mutant: n is counted only for inactive slots
  LET kept == {n \in all : Kept(n) # {}}
      rest == {t \in wanted : ~\E n \in kept : t \in Kept(n)}
      need == Cardinality(kept) + Cardinality(rest)
  IN  [n \in 1 .. IF need > Cardinality(all) THEN need ELSE Cardinality(all) |->
        IF At(rest, n - 1) # None THEN At(rest, n - 1)
        ELSE IF n \in kept THEN CHOOSE t \in Kept(n) : TRUE ELSE None]
AssignSlots(all) ==
  LET kept == {n \in all : Kept(n) # {}}
      rest == {t \in wanted : ~\E n \in kept : t \in Kept(n)}
      need == Cardinality(kept) + Cardinality(rest)
      size == IF need > Cardinality(all) THEN need ELSE Cardinality(all)
  IN  [n \in 1 .. size |->
        IF n \in kept THEN CHOOSE t \in Kept(n) : TRUE
        ELSE At(rest, Rank((1 .. size) \ kept, n))]

Attach ==
  /\ phase = "attach" /\ phase' = "subscribe"
  /\ slots' = AssignSlots(DOMAIN slots)
  /\ misnamed' = (misnamed \/ \E n \in DOMAIN slots :
                                /\ tiles[n] # NoTile /\ Kept(n) = {} /\ slots'[n] # None
                                /\ AttendeeOf(slots'[n]) # tiles[n].attendee)
  /\ UNCHANGED <<sending, inbox, halted, index, wanted, ack, again, flows, tiles, switched>>

\* SubscribeAndReceiveSubscribeAckTask: the server acknowledges the streams that
\* it still has; a stream that is not subscribed is no longer paused.
Subscribe ==
  /\ phase = "subscribe" /\ phase' = "ack"
  /\ LET tracks == [n \in Slots |-> IF n \in DOMAIN slots /\ slots[n] \in sending THEN slots[n] ELSE None]
     IN  /\ inbox' = Append(inbox, [tracks |-> tracks])
         /\ halted' = {s \in halted : \E n \in Slots : tracks[n] = s}
  /\ UNCHANGED <<sending, index, wanted, ack, slots, again, shown>>

ReceiveAck ==
  /\ inbox # <<>> /\ "tracks" \in DOMAIN Head(inbox)
  /\ inbox' = Tail(inbox) /\ ack' = Head(inbox).tracks
  /\ phase' = "remote"
  /\ UNCHANGED <<sending, halted, index, wanted, slots, again, shown>>

\* addRemoteVideoTrack for the new tracks in the order of their slots: no second
\* tile for an attendee (haveVideoTileForAttendeeId).
HasTile(ts, a) == \E n \in Slots : ts[n] # NoTile /\ ts[n].attendee = a
NewTile(n) == [attendee |-> AttendeeForTrack(n), stream |-> ack[n], paused |-> FALSE, told |-> FALSE]
AddTiles_Always(ts, new) ==   \* mutant: haveVideoTileForAttendeeId is not asked
  [n \in Slots |-> IF n \in new THEN NewTile(n) ELSE ts[n]]
AddTiles(ts, new) ==
  LET first(n) == ~\E m \in new : m < n /\ AttendeeForTrack(m) = AttendeeForTrack(n)
  IN  [n \in Slots |->
        IF n \in new /\ first(n) /\ ~HasTile(ts, AttendeeForTrack(n)) THEN NewTile(n) ELSE ts[n]]

\* removeRemoteVideoTrack for the tracks that have been removed.
RemoveTiles(gone) == [n \in Slots |-> IF n \in gone THEN NoTile ELSE tiles[n]]

\* SetRemoteDescriptionTask with the answer, which goes with the ack: the events
\* for removed tracks come first.  The session is connected again, and an update
\* that has waited begins.
SetRemote ==
  /\ phase = "remote"
  /\ flows' = ack
  /\ LET on(f) == {n \in Slots : f[n] # None}
         gone  == on(flows) \ on(ack)
         new   == on(ack) \ on(flows)
         same  == on(ack) \cap on(flows)
     IN  /\ tiles' = AddTiles(RemoveTiles(gone), new)
         /\ misnamed' = (misnamed \/ \E n \in new : AttendeeForTrack(n) = None)
         /\ switched' = (switched \/ \E n \in same : ack[n] # flows[n])
  /\ phase' = (IF again THEN "attach" ELSE "idle") /\ again' = FALSE
  /\ UNCHANGED <<sending, inbox, halted, index, wanted, ack, slots>>

\* The connection or an update fails, and the session reconnects with
\* CleanRestartedSessionTask: the peer connection is closed, and its tracks end.
\* The new one has no slots that the old ack could be asked for.
Fail ==
  /\ phase # "down" /\ phase' = "down" /\ again' = FALSE
  /\ inbox' = <<>> /\ halted' = {} /\ slots' = <<>>
  /\ flows' = NoTracks /\ ack' = NoTracks /\ tiles' = RemoveTiles(Slots)
  /\ misnamed' = FALSE /\ switched' = FALSE
  /\ UNCHANGED <<sending, index, wanted>>

-----------------------------------------------------------------------------
(* Pausing.                                                                 *)

\* The streams that the server sends, which are ahead of what the browser receives
\* while an answer is under way.  Others cannot be paused.
Served ==
  LET acks == {i \in DOMAIN inbox : "tracks" \in DOMAIN inbox[i]}
      last == IF acks # {} THEN inbox[CHOOSE i \in acks : TRUE].tracks
              ELSE IF phase = "remote" THEN ack ELSE flows
  IN  {last[n] : n \in Slots} \ {None}

\* pauseVideoTile and unpauseVideoTile: told is the tile's entry in
\* currentPausedTilesByIds.
Pause ==
  /\ \E n \in Slots :
       /\ tiles[n] # NoTile /\ ~tiles[n].paused
       /\ halted' = IF tiles[n].told THEN halted ELSE halted \cup ({tiles[n].stream} \cap Served)
       /\ tiles' = [tiles EXCEPT ![n].paused = TRUE, ![n].told = TRUE]
  /\ UNCHANGED <<sending, inbox, client, flows, misnamed, switched>>

Unpause_KeepsId ==   \* mutant: the tile stays in currentPausedTilesByIds
  /\ \E n \in Slots :
       /\ tiles[n].paused
       /\ halted' = IF tiles[n].told THEN halted \ {tiles[n].stream} ELSE halted
       /\ tiles' = [tiles EXCEPT ![n].paused = FALSE]
  /\ UNCHANGED <<sending, inbox, client, flows, misnamed, switched>>
Unpause ==
  /\ \E n \in Slots :
       /\ tiles[n].paused
       /\ halted' = IF tiles[n].told THEN halted \ {tiles[n].stream} ELSE halted
       /\ tiles' = [tiles EXCEPT ![n].paused = FALSE, ![n].told = FALSE]
  /\ UNCHANGED <<sending, inbox, client, flows, misnamed, switched>>

-----------------------------------------------------------------------------
Init ==
  /\ sending = {} /\ inbox = <<>> /\ halted = {}
  /\ index = {} /\ wanted = {} /\ ack = NoTracks /\ slots = <<>>
  /\ phase = "down" /\ again = FALSE
  /\ flows = NoTracks /\ tiles = [n \in Slots |-> NoTile] /\ misnamed = FALSE /\ switched = FALSE

Next ==
  \/ ServerChanges \/ Join \/ ReceiveIndex \/ AppUpdates
  \/ Attach \/ Subscribe \/ ReceiveAck \/ SetRemote
  \/ Fail \/ Pause \/ Unpause

\* The task group goes on, and frames that were sent arrive.
Fairness ==
  /\ WF_vars(Join) /\ WF_vars(ReceiveIndex) /\ WF_vars(Attach)
  /\ WF_vars(Subscribe) /\ WF_vars(ReceiveAck) /\ WF_vars(SetRemote)

Spec == Init /\ [][Next]_vars /\ Fairness

-----------------------------------------------------------------------------
(* Properties.                                                              *)

\* updateVideoTransceivers subscribes to every wanted stream in exactly one slot,
\* to nothing else, and lets a group that goes on keep its slot, whatever the
\* history of slots that were given up and taken again.
SlotsAreExact ==
  [][phase = "attach" /\ phase' = "subscribe" =>
       /\ \A s \in wanted : Cardinality({n \in DOMAIN slots' : slots'[n] = s}) = 1
       /\ \A n \in DOMAIN slots' : slots'[n] \in wanted \cup {None}
       /\ \A n \in DOMAIN slots, s \in wanted : SameGroup(flows[n], s) /\ ack = flows => slots'[n] = s]_vars

\* No attendee is shown in two tiles, also when a tile has outlived its
\* attendee's stream because another one has taken the slot.
OneTilePerAttendee ==
  \A m, n \in Slots : m # n /\ tiles[m] # NoTile /\ tiles[n] # NoTile =>
    tiles[m].attendee # tiles[n].attendee

\* A tile shows the video of the attendee that it names.  Excepted are
\* connections with a slot that has gone from one attendee to another in a single
\* update, since the browser raises no event for it and the tile keeps the name of
\* the first, or whose attendee was missing from the index when the track came.
TileShowsItsAttendee ==
  \A n \in Slots : ~misnamed /\ tiles[n] # NoTile => AttendeeOf(flows[n]) = tiles[n].attendee

\* The server pauses the stream of every paused tile and of no other, unless it
\* has just ended the stream.  Excepted are connections in which the stream of a
\* slot has changed under its tile: the tile goes on with the id of the old one,
\* which may meanwhile be the stream of another tile.
PauseReachesStream ==
  \A n \in Slots : ~switched /\ tiles[n] # NoTile /\ flows[n] \in Served => (tiles[n].paused <=> flows[n] \in halted)

\* When attendees and connection come to rest, the client does too: it wants
\* what is published at the best quality, receives exactly that, and every
\* attendee has a tile.  Excepted are connections with such slots.
Settled ==
  /\ phase = "idle" /\ index = sending /\ wanted = Highest(sending)
  /\ {flows[n] : n \in Slots} \ {None} = wanted
  /\ ~misnamed => {tiles[n].attendee : n \in Slots} \ {None} = {AttendeeOf(s) : s \in sending}
Settles == <>[][~(ServerChanges \/ Fail \/ AppUpdates)]_vars => <>[]Settled
=============================================================================
