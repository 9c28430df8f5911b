------------------------ MODULE ScreenSharing_proofs ------------------------
(***************************************************************************)
(* Theorems about ScreenSharing, for every number of sockets and retries,   *)
(* every set of streams and every number of stops.                          *)
(* A turn is a composition of operators on the record of all variables, so  *)
(* there is a lemma for each operator: first on the connection alone, then  *)
(* on what the session owns and on what the service has heard. The actions  *)
(* follow, one step for each.                                               *)
(***************************************************************************)
EXTENDS ScreenSharing, TLAPS

Fields == {"ws", "sock", "timer", "strays", "attempts", "told", "disturbed",
           "current", "air", "stream", "spilled"}
SocketRecords ==
  [state : {"unused", "connecting", "open", "closing", "closed"}, opening : BOOLEAN]
LiveStates == {"connecting", "open"}

\* The records of the variables; only the connection's types matter here.
Typed(s) ==
  /\ s = [f \in Fields |-> s[f]]
  /\ s.sock \in [Sockets -> SocketRecords]
  /\ s.disturbed \in BOOLEAN

\* OneConnection of a record, and the same but for socket i, which is about to
\* be forgotten.
One(s) ==
  ~s.disturbed => \A j \in Sockets : s.sock[j].state \in LiveStates => j = s.ws
OneBut(s, i) ==
  ~s.disturbed => \A j \in Sockets : s.sock[j].state \in LiveStates => j \in {s.ws, i}

Orderly(s) == Typed(s) /\ One(s)

\* The invariant.
ConnectionInv ==
  /\ sock \in [Sockets -> SocketRecords]
  /\ disturbed \in BOOLEAN
  /\ OneConnection

LEMMA WorldOrderly == ConnectionInv => Orderly(World)
BY DEF ConnectionInv, OneConnection, Orderly, Typed, One, LiveStates, World, Fields

LEMMA BecomeKeepsInv ==
  ASSUME NEW s, Orderly(s), Become(s)
  PROVE  ConnectionInv'
BY DEF Become, Orderly, Typed, One, LiveStates, ConnectionInv, OneConnection

-----------------------------------------------------------------------------
(* The reconnecting socket.                                                 *)

LEMMA SettleOrderly ==
  ASSUME NEW s, Orderly(s)
  PROVE  Orderly(Settle(s))
<1> DEFINE settled == [i \in Sockets |->
      IF s.sock[i].state = "closed" /\ ~s.sock[i].opening THEN Unused ELSE s.sock[i]]
<1>1. Settle(s) = [s EXCEPT !.sock = settled]
  BY DEF Settle
<1>2. settled \in [Sockets -> SocketRecords]
  BY DEF Orderly, Typed, SocketRecords, Unused
<1>3. \A j \in Sockets : settled[j].state \in LiveStates => s.sock[j].state \in LiveStates
  BY DEF Unused, LiveStates
<1> HIDE DEF settled
<1>4. Typed([s EXCEPT !.sock = settled])
  BY <1>2 DEF Orderly, Typed, Fields
<1>5. One([s EXCEPT !.sock = settled])
  BY <1>3 DEF Orderly, One, Typed, Fields
<1> QED BY <1>1, <1>4, <1>5 DEF Orderly

\* A new socket, whichever it is, when there was none.
LEMMA ConnectOrderly ==
  ASSUME NEW s, Orderly(s), s.ws = 0
  PROVE  Orderly(Connect(s))
<1>1. 0 \notin Sockets
  BY SocketAssumption DEF Sockets, SocketAssumption
<1> DEFINE new == CHOOSE i \in FreeSockets(s) : TRUE
           after == [s.sock EXCEPT ![new] = [state |-> "connecting", opening |-> TRUE]]
<1>2. Connect(s) = [s EXCEPT !.ws = new, !.sock = after]
  <2> HIDE DEF new
  <2>1. [s EXCEPT !.ws = new].sock = s.sock
    BY DEF Orderly, Typed, Fields
  <2> QED BY <2>1 DEF Connect, new
<1> HIDE DEF new
<1>3. /\ after \in [Sockets -> SocketRecords]
      /\ \A j \in Sockets \ {new} : after[j] = s.sock[j]
  BY DEF Orderly, Typed, SocketRecords
<1> HIDE DEF after
<1>4. Typed([s EXCEPT !.ws = new, !.sock = after])
  BY <1>3 DEF Orderly, Typed, Fields
<1>5. One([s EXCEPT !.ws = new, !.sock = after])
  BY <1>1, <1>3 DEF Orderly, One, Typed, Fields
<1> QED BY <1>2, <1>4, <1>5 DEF Orderly

LEMMA OpenOrderly ==
  ASSUME NEW s, Orderly(s)
  PROVE  Orderly(Open(s))
BY ConnectOrderly DEF Open

LEMMA CloseOrderly ==
  ASSUME NEW s, Orderly(s)
  PROVE  Orderly(Close(s))
<1> DEFINE after == [s.sock EXCEPT ![s.ws].state = "closing"]
<1>1. CASE s.ws # 0
  <2>1. Close(s) = [s EXCEPT !.timer = "none", !.ws = 0, !.sock = after]
    BY <1>1 DEF Close, DidOpenWebSocket, Orderly, Typed, Fields
  <2>2. /\ after \in [Sockets -> SocketRecords]
        /\ s.ws \in Sockets => after[s.ws].state = "closing"
        /\ \A j \in Sockets \ {s.ws} : after[j] = s.sock[j]
    BY DEF Orderly, Typed, SocketRecords
  <2> HIDE DEF after
  <2>3. Typed([s EXCEPT !.timer = "none", !.ws = 0, !.sock = after])
    BY <2>2 DEF Orderly, Typed, Fields
  <2>4. One([s EXCEPT !.timer = "none", !.ws = 0, !.sock = after])
    BY <2>2 DEF Orderly, One, Typed, Fields, LiveStates
  <2> QED BY <2>1, <2>3, <2>4 DEF Orderly
<1>2. CASE s.ws = 0
  BY <1>2 DEF Close
<1> QED BY <1>1, <1>2

LEMMA HearOpenOrderly ==
  ASSUME NEW s, Orderly(s), NEW i \in Sockets, s.sock[i].state = "connecting"
  PROVE  Orderly(HearOpen(s, i))
<1> DEFINE after == [s.sock EXCEPT ![i] = [state |-> "open", opening |-> FALSE]]
<1>1. HearOpen(s, i) = [s EXCEPT !.timer = "none", !.sock = after, !.told = "open"]
  BY DEF HearOpen, DidOpenWebSocket, Orderly, Typed, Fields
<1>2. after \in [Sockets -> SocketRecords]
  BY DEF Orderly, Typed, SocketRecords
<1>3. \A j \in Sockets : after[j].state \in LiveStates => s.sock[j].state \in LiveStates
  BY DEF Orderly, Typed, LiveStates
<1> HIDE DEF after
<1>4. Typed([s EXCEPT !.timer = "none", !.sock = after, !.told = "open"])
  BY <1>2 DEF Orderly, Typed, Fields
<1>5. One([s EXCEPT !.timer = "none", !.sock = after, !.told = "open"])
  BY <1>3 DEF Orderly, One, Typed, Fields
<1> QED BY <1>1, <1>4, <1>5 DEF Orderly

\* What a turn does that leaves the connection as it is.
SameConnection(s, t) ==
  t = [f \in Fields |-> t[f]] /\ t.ws = s.ws /\ t.sock = s.sock /\ t.disturbed = s.disturbed

LEMMA SameConnectionOrderly ==
  ASSUME NEW s, Orderly(s), NEW t, SameConnection(s, t)
  PROVE  Orderly(t)
BY DEF SameConnection, Orderly, Typed, One

LEMMA RetrySame ==
  ASSUME NEW s, Typed(s)
  PROVE  SameConnection(s, Retry(s))
BY DEF Retry, SameConnection, Typed, Fields

\* The close event of socket i, when no other one than i and the one referred
\* to can be live: it forgets the one referred to, and says so if that is another.
LEMMA HearCloseOrderly ==
  ASSUME NEW s, Typed(s), NEW i \in Sockets, OneBut(s, i), NEW normal
  PROVE  Orderly(HearClose(s, i, normal))
<1>0. 0 \notin Sockets
  BY SocketAssumption DEF Sockets, SocketAssumption
<1> DEFINE told1 == IF normal THEN [s EXCEPT !.told = "closed"] ELSE Retry(s)
           after == [s.sock EXCEPT ![i].state = "closed"]
           lost  == s.disturbed \/ s.ws \notin {0, i}
           closed == [told1 EXCEPT !.ws = 0, !.sock = after, !.disturbed = lost]
<1>1. SameConnection(s, told1)
  BY RetrySame DEF SameConnection, Typed, Fields
<1>2. HearClose(s, i, normal) = Settle(closed)
  <2> HIDE DEF told1
  <2>1. [told1 EXCEPT !.ws = 0, !.sock[i].state = "closed", !.disturbed = @ \/ s.ws \notin {0, i}]
        = closed
    BY <1>1 DEF SameConnection, Fields
  <2> QED BY <2>1 DEF HearClose, told1
<1>3. /\ after \in [Sockets -> SocketRecords]
      /\ after[i].state = "closed"
      /\ \A j \in Sockets \ {i} : after[j] = s.sock[j]
  BY DEF Typed, SocketRecords
<1>4. Typed(closed)
  <2> HIDE DEF told1, after, lost
  <2>1. lost \in BOOLEAN
    BY DEF lost, Typed
  <2> QED BY <1>1, <1>3, <2>1 DEF Typed, SameConnection, Fields
<1>5. One(closed)
  <2> HIDE DEF told1, after, lost
  <2>1. closed.ws = 0 /\ closed.sock = after /\ closed.disturbed = lost
    BY <1>1 DEF SameConnection, Fields
  <2> SUFFICES ASSUME ~lost, NEW j \in Sockets, after[j].state \in LiveStates PROVE FALSE
    BY <2>1 DEF One
  <2>2. j # i /\ s.sock[j].state \in LiveStates
    BY <1>3 DEF LiveStates
  <2>3. ~s.disturbed /\ s.ws \in {0, i}
    BY DEF lost
  <2> QED BY <1>0, <2>2, <2>3 DEF OneBut
<1> HIDE DEF closed
<1> QED BY <1>2, <1>4, <1>5, SettleOrderly DEF Orderly

LEMMA HearFailureOrderly ==
  ASSUME NEW s, Orderly(s), NEW i \in Sockets, s.sock[i].state = "connecting", NEW again \in BOOLEAN
  PROVE  Orderly(HearFailure(s, i, again))
<1>0. 0 \notin Sockets
  BY SocketAssumption DEF Sockets, SocketAssumption
<1> DEFINE after == [s.sock EXCEPT ![i].opening = FALSE]
           rejected == [s EXCEPT !.ws = 0, !.sock = after]
<1>1. HearFailure(s, i, again) = HearClose(IF again THEN Open(rejected) ELSE rejected, i, FALSE)
  BY DEF HearFailure, Orderly, Typed, Fields
<1>2. /\ after \in [Sockets -> SocketRecords]
      /\ \A j \in Sockets : after[j].state = s.sock[j].state
  BY DEF Orderly, Typed, SocketRecords
<1>3. /\ Typed(rejected) /\ rejected.ws = 0 /\ rejected.sock = after
      /\ rejected.disturbed = s.disturbed
  <2> HIDE DEF after
  <2> QED BY <1>2 DEF Orderly, Typed, Fields
<1> HIDE DEF rejected
<1>4. OneBut(rejected, i)
  BY <1>2, <1>3 DEF OneBut, Orderly, One, LiveStates
<1> DEFINE new == CHOOSE k \in FreeSockets(rejected) : TRUE
           opened == [after EXCEPT ![new] = [state |-> "connecting", opening |-> TRUE]]
           open == [rejected EXCEPT !.ws = new, !.sock = opened]
<1>5. Open(rejected) = open
  <2> HIDE DEF new
  <2>1. [rejected EXCEPT !.ws = new].sock = after
    BY <1>3 DEF Typed, Fields
  <2> QED BY <1>3, <2>1 DEF Open, Connect, new
<1>6. Typed(open) /\ OneBut(open, i)
  <2> HIDE DEF new
  <2>1. /\ opened \in [Sockets -> SocketRecords]
        /\ \A j \in Sockets \ {new} : opened[j] = after[j]
    BY <1>2 DEF SocketRecords
  <2> HIDE DEF opened
  <2>2. Typed(open) /\ open.ws = new /\ open.sock = opened /\ open.disturbed = s.disturbed
    BY <1>3, <2>1 DEF Typed, Fields
  <2> HIDE DEF open, after
  <2>3. ASSUME ~s.disturbed, NEW j \in Sockets, opened[j].state \in LiveStates
        PROVE  j \in {new, i}
    <3>1. CASE j # new
      <4>1. after[j].state \in LiveStates
        BY <2>1, <2>3, <3>1
      <4>2. j \in {0, i}
        BY <1>3, <1>4, <2>3, <4>1 DEF OneBut
      <4> QED BY <1>0, <4>2
    <3> QED BY <3>1
  <2>4. OneBut(open, i)
    BY <2>2, <2>3 DEF OneBut
  <2> QED BY <2>2, <2>4
<1> HIDE DEF open
<1>7. CASE again
  <2>1. HearFailure(s, i, again) = HearClose(open, i, FALSE)
    BY <1>1, <1>5, <1>7
  <2> QED BY <1>6, <2>1, HearCloseOrderly
<1>8. CASE ~again
  <2>1. HearFailure(s, i, again) = HearClose(rejected, i, FALSE)
    BY <1>1, <1>8
  <2>2. Typed(rejected) /\ OneBut(rejected, i)
    BY <1>3, <1>4
  <2> QED BY <2>1, <2>2, HearCloseOrderly
<1> QED BY <1>7, <1>8

\* The time-out of open(): what it forgets when a socket is referred to is said
\* to be disturbed, and otherwise there is no live one.
LEMMA OpenExpiresOrderly ==
  ASSUME NEW s, Orderly(s), NEW i \in Sockets
  PROVE  Orderly(OpenExpires(s, i))
<1> DEFINE after == [s.sock EXCEPT ![i].opening = FALSE]
           lost  == s.disturbed \/ s.ws # 0
           expired == [s EXCEPT !.ws = 0, !.sock = after, !.disturbed = lost]
<1>1. OpenExpires(s, i) = Settle(expired)
  BY DEF OpenExpires, Orderly, Typed, Fields
<1>2. /\ after \in [Sockets -> SocketRecords]
      /\ \A j \in Sockets : after[j].state = s.sock[j].state
  BY DEF Orderly, Typed, SocketRecords
<1>3. lost \in BOOLEAN
  BY DEF Orderly, Typed
<1>4. Typed(expired) /\ expired.ws = 0 /\ expired.sock = after /\ expired.disturbed = lost
  <2> HIDE DEF after, lost
  <2> QED BY <1>2, <1>3 DEF Orderly, Typed, Fields
<1> HIDE DEF expired
<1>5. One(expired)
  BY <1>2, <1>4 DEF Orderly, One, LiveStates
<1> QED BY <1>1, <1>4, <1>5, SettleOrderly DEF Orderly

LEMMA TimersOrderly ==
  ASSUME NEW s, Orderly(s)
  PROVE  Orderly(FireTimer(s)) /\ Orderly(FireStray(s))
<1> DEFINE spent == [s EXCEPT !.timer = "spent"]
           fired == [s EXCEPT !.strays = @ - 1]
           both  == [fired EXCEPT !.timer = "spent"]
<1>1. SameConnection(s, spent) /\ SameConnection(s, fired) /\ SameConnection(s, both)
  BY DEF SameConnection, Orderly, Typed, Fields
<1>2. Orderly(spent) /\ Orderly(fired) /\ Orderly(both)
  <2> HIDE DEF spent, fired, both
  <2> QED BY <1>1, SameConnectionOrderly
<1>3. FireTimer(s) = Open(spent)
  BY DEF FireTimer
<1>4. FireStray(s) = IF s.timer = "none" THEN fired ELSE Open(both)
  BY DEF FireStray
<1> HIDE DEF spent, fired, both
<1> QED BY <1>2, <1>3, <1>4, OpenOrderly

-----------------------------------------------------------------------------
(* The sharing session, which leaves the connection alone.                  *)

LEMMA SendSame ==
  ASSUME NEW s, Typed(s), NEW heard
  PROVE  SameConnection(s, Send(s, heard))
BY DEF Send, SameConnection, Typed, Fields

LEMMA SpillSame ==
  ASSUME NEW s, Typed(s), NEW lost
  PROVE  SameConnection(s, Spill(s, lost))
BY DEF Spill, SameConnection, Typed, Fields

\* Only the streams and the current one.
LEMMA StreamsSame ==
  ASSUME NEW s, Typed(s), NEW x, NEW c
  PROVE  /\ SameConnection(s, [s EXCEPT !.stream = x])
         /\ SameConnection(s, [s EXCEPT !.stream = x, !.current = c])
         /\ SameConnection(s, [s EXCEPT !.current = c, !.stream = x])
BY DEF SameConnection, Typed, Fields

LEMMA SessionStopOrderly ==
  ASSUME NEW s, Orderly(s)
  PROVE  Orderly(SessionStop(s))
<1> DEFINE x == [s.stream EXCEPT ![s.current] = StopRecording(@)]
<1>1. SessionStop(s) = IF s.current = 0 THEN s ELSE [s EXCEPT !.stream = x]
  BY DEF SessionStop, Orderly, Typed, Fields
<1> HIDE DEF x
<1> QED BY <1>1, StreamsSame, SameConnectionOrderly DEF Orderly

LEMMA StartedOrderly ==
  ASSUME NEW s, Orderly(s), NEW i
  PROVE  Orderly(Started(s, i))
<1> DEFINE keyed == Key(s.stream[i])
           sent  == Send(s, IF keyed.rec = "recording" THEN "sharing" ELSE "misled")
           over  == [sent.stream EXCEPT ![i].at = "over"]
           on    == [sent.stream EXCEPT ![i] = [keyed EXCEPT !.at = "started"]]
           begun == [sent EXCEPT !.stream = on, !.current = i]
           lost  == {s.current} \ {0}
<1>1. Orderly(sent)
  BY SendSame, SameConnectionOrderly DEF Orderly
<1>2. Started(s, i) = IF keyed.rec # "recording" THEN [sent EXCEPT !.stream = over]
                      ELSE Spill(begun, lost)
  BY <1>1 DEF Started, Orderly, Typed, Fields
<1> HIDE DEF keyed, sent, over, on, lost
<1>3. Orderly([sent EXCEPT !.stream = over]) /\ Orderly(begun)
  BY <1>1, StreamsSame, SameConnectionOrderly DEF Orderly
<1> HIDE DEF begun
<1>4. Orderly(Spill(begun, lost))
  BY <1>3, SpillSame, SameConnectionOrderly DEF Orderly
<1> QED BY <1>2, <1>3, <1>4

LEMMA StoppedOrderly ==
  ASSUME NEW s, Orderly(s), NEW i
  PROVE  Orderly(Stopped(s, i))
<1> DEFINE sent  == Send(s, "idle")
           idle  == [sent EXCEPT !.current = 0]
           fewer == [idle EXCEPT !.stream[i].due = @ - 1]
           ended == [fewer EXCEPT !.stream[i].at = IF s.stream[i].due = 1 THEN "over" ELSE @]
           lost  == ({s.current} \ {0, i}) \cup (IF s.stream[i].clone # "none" THEN {i} ELSE {})
<1>1. Orderly(sent)
  BY SendSame, SameConnectionOrderly DEF Orderly
<1>2. Stopped(s, i) = Spill(ended, lost)
  BY ZenonT(60) DEF Stopped
<1> HIDE DEF sent, lost
<1>3. SameConnection(sent, idle)
  BY <1>1 DEF Orderly, Typed, SameConnection, Fields
<1>4. Orderly(idle)
  BY <1>1, <1>3, SameConnectionOrderly
<1> HIDE DEF idle
<1>5. SameConnection(idle, fewer)
  BY <1>4 DEF Orderly, Typed, SameConnection, Fields
<1>6. Orderly(fewer)
  BY <1>4, <1>5, SameConnectionOrderly
<1> HIDE DEF fewer
<1>7. SameConnection(fewer, ended)
  BY <1>6 DEF Orderly, Typed, SameConnection, Fields
<1>8. Orderly(ended)
  BY <1>6, <1>7, SameConnectionOrderly
<1> HIDE DEF ended
<1> QED BY <1>2, <1>8, SpillSame, SameConnectionOrderly DEF Orderly

\* Turns of the application and of the browser that only change the streams.
LEMMA WorldStreams ==
  ASSUME ConnectionInv, NEW x
  PROVE  Orderly([World EXCEPT !.stream = x])
BY WorldOrderly, StreamsSame, SameConnectionOrderly DEF Orderly

-----------------------------------------------------------------------------
(* The actions.                                                             *)

LEMMA ApplicationKeepsInv ==
  ASSUME ConnectionInv, AppOpens \/ AppCloses \/ AppStops \/ Pause \/ Unpause
  PROVE  ConnectionInv'
<1>0. Orderly(World)
  BY WorldOrderly
<1>1. CASE AppOpens
  BY <1>0, <1>1, OpenOrderly, BecomeKeepsInv DEF AppOpens
<1>2. CASE AppCloses
  BY <1>0, <1>2, CloseOrderly, BecomeKeepsInv DEF AppCloses
<1>3. CASE AppStops
  BY <1>0, <1>3, SessionStopOrderly, BecomeKeepsInv DEF AppStops
<1>4. CASE Pause
  <2>1. Become([World EXCEPT !.stream = [stream EXCEPT ![current].rec = "paused"]])
    BY <1>4 DEF Pause, World
  <2> QED BY <2>1, WorldStreams, BecomeKeepsInv
<1>5. CASE Unpause
  <2>1. Become([World EXCEPT !.stream = [stream EXCEPT ![current].rec = "recording"]])
    BY <1>5 DEF Unpause, World
  <2> QED BY <2>1, WorldStreams, BecomeKeepsInv
<1> QED BY <1>1, <1>2, <1>3, <1>4, <1>5

LEMMA StartKeepsInv ==
  ASSUME ConnectionInv, NEW i \in Streams,
         AppStarts(i) \/ Captures(i) \/ Denied(i) \/ PingExpires(i) \/ RecorderStops(i)
  PROVE  ConnectionInv'
<1>0. Orderly(World)
  BY WorldOrderly
<1>1. CASE AppStarts(i)
  <2>1. Become([World EXCEPT !.stream = [stream EXCEPT ![i].at = "prompt"]])
    BY <1>1 DEF AppStarts, World
  <2> QED BY <2>1, WorldStreams, BecomeKeepsInv
<1>2. CASE Captures(i)
  <2> DEFINE got  == [World EXCEPT !.stream[i].original = TRUE]
             x    == [stream EXCEPT ![i].original = TRUE]
             ping == [got EXCEPT !.stream = [got.stream EXCEPT ![i].at = "ping"]]
             over == [got EXCEPT !.stream = [got.stream EXCEPT ![i].at = "over"]]
             on(v) == [Started(got, i) EXCEPT !.stream[i].at = v]
  <2>1. Become(ping) \/ Become(Spill(over, {i})) \/ \E v : Become(on(v))
    BY <1>2 DEF Captures
  <2>2. got = [World EXCEPT !.stream = x]
    BY DEF World
  <2>3. Orderly(got)
    <3> HIDE DEF got, x
    <3> QED BY <2>2, WorldStreams
  <2> HIDE DEF got
  <2>4. Orderly(ping) /\ Orderly(over)
    BY <2>3, StreamsSame, SameConnectionOrderly DEF Orderly
  <2>6. ASSUME NEW v PROVE Orderly(on(v))
    <3> DEFINE r == Started(got, i)
    <3>1. Orderly(r)
      BY <2>3, StartedOrderly
    <3> HIDE DEF r
    <3>2. Orderly([r EXCEPT !.stream = [r.stream EXCEPT ![i].at = v]])
      BY <3>1, StreamsSame, SameConnectionOrderly DEF Orderly
    <3> QED BY <3>2 DEF r
  <2> HIDE DEF ping, over, on
  <2>5. Orderly(Spill(over, {i}))
    BY <2>4, SpillSame, SameConnectionOrderly DEF Orderly
  <2> QED BY <2>1, <2>4, <2>5, <2>6, BecomeKeepsInv
<1>3. CASE Denied(i)
  <2>1. Become([World EXCEPT !.stream = [stream EXCEPT ![i] = NoStream]])
    BY <1>3 DEF Denied, World
  <2> QED BY <2>1, WorldStreams, BecomeKeepsInv
<1>4. CASE PingExpires(i)
  <2> DEFINE z == [stream EXCEPT ![i].at = "over"]
  <2>1. Become(Spill([World EXCEPT !.stream = z], {i}))
    BY <1>4 DEF PingExpires, World
  <2> HIDE DEF z
  <2>2. Orderly(Spill([World EXCEPT !.stream = z], {i}))
    BY WorldStreams, SpillSame, SameConnectionOrderly DEF Orderly
  <2> QED BY <2>1, <2>2, BecomeKeepsInv
<1>5. CASE RecorderStops(i)
  BY <1>0, <1>5, StoppedOrderly, BecomeKeepsInv DEF RecorderStops
<1> QED BY <1>1, <1>2, <1>3, <1>4, <1>5

LEMMA CaptureEndsKeepsInv ==
  ASSUME ConnectionInv, NEW i \in Streams, NEW b \in BOOLEAN, CaptureEnds(i, b)
  PROVE  ConnectionInv'
<1> DEFINE r == stream[i]
           x == [stream EXCEPT ![i] =
                  [r EXCEPT !.original = FALSE, !.clone = IF @ = "live" THEN "dead" ELSE @,
                            !.rec = IF b /\ @ # "none" THEN "inactive" ELSE @]]
           ended == [World EXCEPT !.stream = x]
<1>1. Become(SessionStop(ended)) \/ Become(ended)
  BY DEF CaptureEnds, World
<1> HIDE DEF x
<1>2. Orderly(ended)
  BY WorldStreams
<1> HIDE DEF ended
<1> QED BY <1>1, <1>2, SessionStopOrderly, BecomeKeepsInv

LEMMA SocketKeepsInv ==
  ASSUME ConnectionInv, NEW i \in Sockets, NEW b \in BOOLEAN,
         SocketOpens(i) \/ OpenTimesOut(i) \/ SocketFails(i, b) \/ SocketCloses(i, b)
  PROVE  ConnectionInv'
<1>0. Orderly(World) /\ World.sock = sock
  BY WorldOrderly DEF World
<1>1. CASE SocketOpens(i)
  BY <1>0, <1>1, HearOpenOrderly, BecomeKeepsInv DEF SocketOpens
<1>2. CASE OpenTimesOut(i)
  BY <1>0, <1>2, OpenExpiresOrderly, BecomeKeepsInv DEF OpenTimesOut
<1>3. CASE SocketFails(i, b)
  <2>1. Orderly(HearFailure(World, i, b))
    BY <1>0, <1>3, HearFailureOrderly DEF SocketFails
  <2> QED BY <1>3, <2>1, SessionStopOrderly, BecomeKeepsInv DEF SocketFails
<1>4. CASE SocketCloses(i, b)
  <2>1. OneBut(World, i)
    BY <1>0 DEF Orderly, One, OneBut
  <2>2. Orderly(HearClose(World, i, b))
    BY <1>0, <2>1, HearCloseOrderly DEF Orderly
  <2> QED BY <1>4, <2>2, SessionStopOrderly, BecomeKeepsInv DEF SocketCloses
<1> QED BY <1>1, <1>2, <1>3, <1>4

LEMMA ServiceKeepsInv ==
  ASSUME ConnectionInv, NEW i \in Sockets,
         HeartbeatResponse(i) \/ StreamStopMessage(i) \/ KeyRequest(i)
  PROVE  ConnectionInv'
<1>0. Orderly(World)
  BY WorldOrderly
<1>1. CASE HeartbeatResponse(i)
  <2>1. \E k, l : Become(Started(World, k)) \/ Become(Started(Started(World, k), l))
    BY <1>1 DEF HeartbeatResponse
  <2> QED BY <1>0, <2>1, StartedOrderly, BecomeKeepsInv
<1>2. CASE StreamStopMessage(i)
  BY <1>0, <1>2, SessionStopOrderly, BecomeKeepsInv DEF StreamStopMessage
<1>3. CASE KeyRequest(i)
  <2> DEFINE x == [stream EXCEPT ![current] = Key(@)]
  <2>1. Become([World EXCEPT !.stream = x])
    BY <1>3 DEF KeyRequest, World
  <2> HIDE DEF x
  <2> QED BY <2>1, WorldStreams, BecomeKeepsInv
<1> QED BY <1>1, <1>2, <1>3

-----------------------------------------------------------------------------
LEMMA ConnectionIsKept == Spec => []ConnectionInv
<1>1. ASSUME Init PROVE ConnectionInv
  <2>1. sock = [i \in Sockets |-> Unused] /\ disturbed = FALSE
    BY <1>1 DEF Init
  <2> QED BY <2>1 DEF ConnectionInv, OneConnection, SocketRecords, Unused
<1>2. ConnectionInv /\ [Next]_vars => ConnectionInv'
  <2> SUFFICES ASSUME ConnectionInv, [Next]_vars PROVE ConnectionInv'
    OBVIOUS
  <2>0. Orderly(World)
    BY WorldOrderly
  <2>1. CASE AppOpens \/ AppCloses \/ AppStops \/ Pause \/ Unpause
    BY <2>1, ApplicationKeepsInv
  <2>2. CASE TimerFires \/ StrayFires
    BY <2>0, <2>2, TimersOrderly, BecomeKeepsInv DEF TimerFires, StrayFires
  <2>3. ASSUME NEW i \in Streams,
               \/ AppStarts(i) \/ Captures(i) \/ Denied(i) \/ PingExpires(i) \/ RecorderStops(i)
               \/ \E b \in BOOLEAN : CaptureEnds(i, b)
        PROVE  ConnectionInv'
    BY <2>3, StartKeepsInv, CaptureEndsKeepsInv
  <2>4. ASSUME NEW i \in Sockets,
               \/ SocketOpens(i) \/ OpenTimesOut(i)
               \/ \E b \in BOOLEAN : SocketFails(i, b) \/ SocketCloses(i, b)
        PROVE  ConnectionInv'
    BY <2>4, SocketKeepsInv
  <2>5. ASSUME NEW i \in Sockets, HeartbeatResponse(i) \/ StreamStopMessage(i) \/ KeyRequest(i)
        PROVE  ConnectionInv'
    BY <2>5, ServiceKeepsInv
  <2>6. CASE UNCHANGED vars
    BY <2>6 DEF vars, ConnectionInv, OneConnection
  <2> QED BY <2>1, <2>2, <2>3, <2>4, <2>5, <2>6 DEF Next
<1> QED BY <1>1, <1>2, PTL DEF Spec

\* One connection: until a late close event or the time-out of open() makes the
\* reconnecting socket forget a live one, no other socket than the one it refers
\* to is connecting or open, whatever fails, is retried or is opened again
\* between the error and the close of a socket (ReconnectingPromisedWebSocket).
THEOREM ConnectionIsUnique == Spec => []OneConnection
<1>1. ConnectionInv => OneConnection
  BY DEF ConnectionInv
<1> QED BY <1>1, ConnectionIsKept, PTL

-----------------------------------------------------------------------------
(* What the operators of the reconnecting socket do to the retries, and to  *)
(* the states that say whether a socket is alive or on its way down.        *)

\* The part of a record that the sharing session owns, and the other part.
SameSession(s, r) ==
  r.current = s.current /\ r.stream = s.stream /\ r.spilled = s.spilled /\ r.air = s.air
SameSocket(s, r) == SameConnection(s, r) /\ r.told = s.told /\ r.timer = s.timer

Active(s)    == /\ s.current # 0 /\ s.stream[s.current].due = 0
                /\ s.stream[s.current].rec # "inactive" /\ s.stream[s.current].at # "unheard"
NoClosing(s) == \A j \in Sockets : s.sock[j].state # "closing"
BusyStates   == {"connecting", "open", "closing"}

\* RetryIsUnderWay of a record; and a socket that is referred to since the last
\* failure has not opened yet.
UnderWay(s) ==
  \/ s.timer = "set"
  \/ \E i \in Sockets : s.sock[i].state \in {"connecting", "closing"}
Retrying(s) ==
  /\ s.ws \in Sockets \cup {0}
  /\ s.told = "reconnecting" =>
       UnderWay(s) /\ (s.ws # 0 => s.sock[s.ws].state = "connecting")

\* Except for those in but, the sockets are in the same busy states.
SameBusy(s, r, but) ==
  \A j \in Sockets \ but : \A x \in BusyStates : r.sock[j].state = x <=> s.sock[j].state = x

LEMMA SettleDoes ==
  ASSUME NEW s, Typed(s)
  PROVE  LET r == Settle(s)
         IN  /\ r.ws = s.ws /\ r.told = s.told /\ r.timer = s.timer /\ r.disturbed = s.disturbed
             /\ SameSession(s, r) /\ SameBusy(s, r, {})
<1> DEFINE settled == [i \in Sockets |->
      IF s.sock[i].state = "closed" /\ ~s.sock[i].opening THEN Unused ELSE s.sock[i]]
<1>1. Settle(s) = [s EXCEPT !.sock = settled]
  BY DEF Settle
<1>2. \A j \in Sockets : \A x \in BusyStates : settled[j].state = x <=> s.sock[j].state = x
  BY DEF Unused, BusyStates
<1> HIDE DEF settled
<1> QED BY <1>1, <1>2 DEF Typed, Fields, SameSession, SameBusy

\* open() when there is no socket, and a socket of the browser can be had.
LEMMA OpenDoes ==
  ASSUME NEW s, Typed(s), s.ws = 0 => FreeSockets(s) # {}
  PROVE  LET r == Open(s)
         IN  /\ r.told = s.told /\ r.timer = s.timer /\ r.disturbed = s.disturbed
             /\ SameSession(s, r)
             /\ s.ws # 0 => r = s
             /\ s.ws = 0 => /\ r.ws \in Sockets /\ r.sock[r.ws].state = "connecting"
                            /\ s.sock[r.ws].state = "unused"
                            /\ \A j \in Sockets \ {r.ws} : r.sock[j] = s.sock[j]
<1> DEFINE new == CHOOSE i \in FreeSockets(s) : TRUE
           after == [s.sock EXCEPT ![new] = [state |-> "connecting", opening |-> TRUE]]
<1>1. CASE s.ws # 0
  BY <1>1 DEF Open, SameSession
<1>2. CASE s.ws = 0
  <2>1. new \in Sockets /\ s.sock[new].state = "unused"
    BY <1>2 DEF FreeSockets
  <2>2. Open(s) = [s EXCEPT !.ws = new, !.sock = after]
    <3> HIDE DEF new
    <3>1. [s EXCEPT !.ws = new].sock = s.sock
      BY DEF Typed, Fields
    <3> QED BY <1>2, <3>1 DEF Open, Connect, new
  <2> HIDE DEF new
  <2>3. after[new].state = "connecting" /\ \A j \in Sockets \ {new} : after[j] = s.sock[j]
    BY <2>1 DEF Typed
  <2> HIDE DEF after
  <2> QED BY <1>2, <2>1, <2>2, <2>3 DEF Typed, Fields, SameSession
<1> QED BY <1>1, <1>2

LEMMA OpenTyped ==
  ASSUME NEW s, Typed(s)
  PROVE  Typed(Open(s))
<1> DEFINE new == CHOOSE i \in FreeSockets(s) : TRUE
           after == [s.sock EXCEPT ![new] = [state |-> "connecting", opening |-> TRUE]]
<1>1. s.ws = 0 => Open(s) = [s EXCEPT !.ws = new, !.sock = after]
  <2> HIDE DEF new
  <2>1. [s EXCEPT !.ws = new].sock = s.sock
    BY DEF Typed, Fields
  <2> QED BY <2>1 DEF Open, Connect, new
<1> HIDE DEF new
<1>2. after \in [Sockets -> SocketRecords]
  BY DEF Typed, SocketRecords
<1> HIDE DEF after
<1>3. Typed([s EXCEPT !.ws = new, !.sock = after])
  BY <1>2 DEF Typed, Fields
<1> QED BY <1>1, <1>3 DEF Open

LEMMA OpenRetries ==
  ASSUME NEW s, Typed(s), s.ws = 0 => FreeSockets(s) # {}, s.ws \in Sockets \cup {0},
         s.told = "reconnecting" /\ s.ws # 0 => s.sock[s.ws].state = "connecting"
  PROVE  Retrying(Open(s))
<1>0. 0 \notin Sockets
  BY SocketAssumption DEF Sockets, SocketAssumption
<1> DEFINE r == Open(s)
<1>1. /\ r.told = s.told
      /\ s.ws # 0 => r = s
      /\ s.ws = 0 => r.ws \in Sockets /\ r.sock[r.ws].state = "connecting"
  BY OpenDoes
<1> HIDE DEF r
<1>2. Retrying(r)
  BY <1>0, <1>1 DEF Retrying, UnderWay
<1> QED BY <1>2 DEF r

LEMMA CloseDoes ==
  ASSUME NEW s, Typed(s), s.ws \in Sockets
  PROVE  LET r == Close(s)
         IN  /\ r.ws = 0 /\ r.told = s.told /\ r.disturbed = s.disturbed
             /\ SameSession(s, r)
             /\ r.sock[s.ws].state = "closing"
<1>0. 0 \notin Sockets
  BY SocketAssumption DEF Sockets, SocketAssumption
<1> DEFINE after == [s.sock EXCEPT ![s.ws].state = "closing"]
<1>1. Close(s) = [s EXCEPT !.timer = "none", !.ws = 0, !.sock = after]
  BY <1>0 DEF Close, DidOpenWebSocket, Typed, Fields
<1>2. after[s.ws].state = "closing"
  BY DEF Typed, SocketRecords
<1> HIDE DEF after
<1> QED BY <1>1, <1>2 DEF Typed, Fields, SameSession

LEMMA HearOpenDoes ==
  ASSUME NEW s, Typed(s), NEW i \in Sockets
  PROVE  LET r == HearOpen(s, i)
         IN  /\ r.ws = s.ws /\ r.told = "open" /\ r.disturbed = s.disturbed
             /\ SameSession(s, r)
             /\ r.sock[i].state = "open"
             /\ \A j \in Sockets \ {i} : r.sock[j] = s.sock[j]
<1> DEFINE after == [s.sock EXCEPT ![i] = [state |-> "open", opening |-> FALSE]]
<1>1. HearOpen(s, i) = [s EXCEPT !.timer = "none", !.sock = after, !.told = "open"]
  BY DEF HearOpen, DidOpenWebSocket, Typed, Fields
<1>2. after[i].state = "open" /\ \A j \in Sockets \ {i} : after[j] = s.sock[j]
  BY DEF Typed
<1> HIDE DEF after
<1> QED BY <1>1, <1>2 DEF Typed, Fields, SameSession

LEMMA RetryDoes ==
  ASSUME NEW s, Typed(s)
  PROVE  LET r == Retry(s)
         IN  /\ SameConnection(s, r) /\ SameSession(s, r)
             /\ r.told = "closed" \/ (r.told = "reconnecting" /\ r.timer = "set")
BY DEF Retry, SameConnection, SameSession, Typed, Fields

LEMMA HearCloseDoes ==
  ASSUME NEW s, Typed(s), NEW i \in Sockets, NEW normal
  PROVE  LET r == HearClose(s, i, normal)
         IN  /\ r.ws = 0 /\ r.disturbed = (s.disturbed \/ s.ws \notin {0, i})
             /\ r.told = "closed" \/ (r.told = "reconnecting" /\ r.timer = "set")
             /\ SameSession(s, r) /\ SameBusy(s, r, {i})
             /\ Retrying(r)
<1> DEFINE told1 == IF normal THEN [s EXCEPT !.told = "closed"] ELSE Retry(s)
           after == [s.sock EXCEPT ![i].state = "closed"]
           lost  == s.disturbed \/ s.ws \notin {0, i}
           closed == [told1 EXCEPT !.ws = 0, !.sock = after, !.disturbed = lost]
           r     == Settle(closed)
<1>1. /\ SameConnection(s, told1) /\ SameSession(s, told1)
      /\ told1.told = "closed" \/ (told1.told = "reconnecting" /\ told1.timer = "set")
  BY RetryDoes DEF SameConnection, SameSession, Typed, Fields
<1> HIDE DEF told1
<1>2. HearClose(s, i, normal) = r
  <2>1. [told1 EXCEPT !.ws = 0, !.sock[i].state = "closed", !.disturbed = @ \/ s.ws \notin {0, i}]
        = closed
    BY <1>1 DEF SameConnection, Fields
  <2> QED BY <2>1 DEF HearClose, told1
<1>3. after \in [Sockets -> SocketRecords] /\ \A j \in Sockets \ {i} : after[j] = s.sock[j]
  BY DEF Typed, SocketRecords
<1>4. lost \in BOOLEAN
  BY DEF Typed
<1> HIDE DEF after, lost
<1>5. /\ Typed(closed) /\ closed.ws = 0 /\ closed.sock = after /\ closed.disturbed = lost
      /\ closed.told = told1.told /\ closed.timer = told1.timer /\ SameSession(told1, closed)
  BY <1>1, <1>3, <1>4 DEF Typed, SameConnection, SameSession, Fields
<1> HIDE DEF closed
<1>6. /\ r.ws = closed.ws /\ r.told = closed.told /\ r.timer = closed.timer
      /\ r.disturbed = closed.disturbed /\ SameSession(closed, r) /\ SameBusy(closed, r, {})
  BY <1>5, SettleDoes
<1> HIDE DEF r
<1>7. /\ r.ws = 0 /\ r.disturbed = lost /\ SameSession(s, r)
      /\ r.told = "closed" \/ (r.told = "reconnecting" /\ r.timer = "set")
  BY <1>1, <1>5, <1>6 DEF SameSession
<1>8. SameBusy(s, r, {i})
  BY <1>3, <1>5, <1>6 DEF SameBusy
<1>9. Retrying(r)
  BY <1>7 DEF Retrying, UnderWay
<1> QED BY <1>2, <1>7, <1>8, <1>9 DEF lost

LEMMA HearFailureDoes ==
  ASSUME NEW s, Typed(s), NEW i \in Sockets, NEW again \in BOOLEAN, again => FreeSockets(s) # {}
  PROVE  LET r == HearFailure(s, i, again)
         IN  r.ws = 0 /\ SameSession(s, r) /\ Retrying(r)
<1> DEFINE after == [s.sock EXCEPT ![i].opening = FALSE]
           rejected == [s EXCEPT !.ws = 0, !.sock = after]
           opened == IF again THEN Open(rejected) ELSE rejected
<1>1. HearFailure(s, i, again) = HearClose(opened, i, FALSE)
  BY DEF HearFailure, Typed, Fields
<1>2. /\ after \in [Sockets -> SocketRecords]
      /\ \A j \in Sockets : after[j].state = s.sock[j].state
  BY DEF Typed, SocketRecords
<1> HIDE DEF after
<1>3. /\ Typed(rejected) /\ rejected.ws = 0 /\ rejected.sock = after /\ SameSession(s, rejected)
  BY <1>2 DEF Typed, Fields, SameSession
<1> HIDE DEF rejected
<1>4. FreeSockets(rejected) = FreeSockets(s)
  BY <1>2, <1>3 DEF FreeSockets
<1>5. Typed(opened) /\ SameSession(s, opened)
  <2>1. CASE again
    <3>1. SameSession(rejected, Open(rejected))
      BY <1>3, <1>4, <2>1, OpenDoes
    <3>2. Typed(Open(rejected))
      BY <1>3, OpenTyped
    <3> QED BY <1>3, <2>1, <3>1, <3>2 DEF SameSession
  <2>2. CASE ~again
    BY <1>3, <2>2
  <2> QED BY <2>1, <2>2
<1> HIDE DEF opened
<1>6. LET r == HearClose(opened, i, FALSE)
      IN  r.ws = 0 /\ SameSession(opened, r) /\ Retrying(r)
  BY <1>5, HearCloseDoes
<1> QED BY <1>1, <1>5, <1>6 DEF SameSession

LEMMA OpenExpiresDoes ==
  ASSUME NEW s, Typed(s), NEW i \in Sockets
  PROVE  LET r == OpenExpires(s, i)
         IN  /\ r.ws = 0 /\ r.disturbed = (s.disturbed \/ s.ws # 0)
             /\ r.told = s.told /\ r.timer = s.timer
             /\ SameSession(s, r) /\ SameBusy(s, r, {})
<1> DEFINE after == [s.sock EXCEPT ![i].opening = FALSE]
           lost  == s.disturbed \/ s.ws # 0
           expired == [s EXCEPT !.ws = 0, !.sock = after, !.disturbed = lost]
<1>1. OpenExpires(s, i) = Settle(expired)
  BY DEF OpenExpires, Typed, Fields
<1>2. /\ after \in [Sockets -> SocketRecords]
      /\ \A j \in Sockets : after[j].state = s.sock[j].state
  BY DEF Typed, SocketRecords
<1>3. lost \in BOOLEAN
  BY DEF Typed
<1> HIDE DEF after, lost
<1>4. /\ Typed(expired) /\ expired.ws = 0 /\ expired.sock = after /\ expired.disturbed = lost
      /\ expired.told = s.told /\ expired.timer = s.timer /\ SameSession(s, expired)
  BY <1>2, <1>3 DEF Typed, Fields, SameSession
<1> HIDE DEF expired
<1>5. LET r == Settle(expired)
      IN  /\ r.ws = expired.ws /\ r.told = expired.told /\ r.timer = expired.timer
          /\ r.disturbed = expired.disturbed
          /\ SameSession(expired, r) /\ SameBusy(expired, r, {})
  BY <1>4, SettleDoes
<1> QED BY <1>1, <1>2, <1>4, <1>5 DEF SameSession, SameBusy, lost

\* A timer that fires is spent, and what it was for is under way.
LEMMA TimersDo ==
  ASSUME NEW s, Typed(s), Retrying(s), s.ws = 0 => FreeSockets(s) # {},
         NEW r, r = FireTimer(s) \/ r = FireStray(s)
  PROVE  /\ Retrying(r) /\ r.disturbed = s.disturbed /\ SameSession(s, r)
         /\ \/ r.ws = s.ws /\ r.sock = s.sock
            \/ /\ s.ws = 0 /\ r.ws \in Sockets
               /\ r.sock[r.ws].state = "connecting" /\ s.sock[r.ws].state = "unused"
               /\ \A j \in Sockets \ {r.ws} : r.sock[j] = s.sock[j]
<1> DEFINE spent == [s EXCEPT !.timer = "spent"]
           fired == [s EXCEPT !.strays = @ - 1]
           both  == [fired EXCEPT !.timer = "spent"]
           Like(t) == Typed(t) /\ SameConnection(s, t) /\ SameSession(s, t) /\ t.told = s.told
<1>1. Like(spent) /\ Like(fired) /\ Like(both) /\ fired.timer = s.timer
  BY DEF SameConnection, SameSession, Typed, Fields
<1>2. r \in {fired, Open(spent), Open(both)}
  BY DEF FireTimer, FireStray
<1> HIDE DEF spent, fired, both
<1>3. ASSUME NEW t, Like(t)
      PROVE  LET o == Open(t)
             IN  /\ Retrying(o) /\ o.disturbed = s.disturbed /\ SameSession(s, o)
                 /\ \/ o.ws = s.ws /\ o.sock = s.sock
                    \/ /\ s.ws = 0 /\ o.ws \in Sockets
                       /\ o.sock[o.ws].state = "connecting" /\ s.sock[o.ws].state = "unused"
                       /\ \A j \in Sockets \ {o.ws} : o.sock[j] = s.sock[j]
  <2>1. /\ FreeSockets(t) = FreeSockets(s) /\ t.ws = s.ws /\ t.sock = s.sock
        /\ t.disturbed = s.disturbed /\ t.told = s.told /\ Typed(t)
    BY <1>3 DEF FreeSockets, SameConnection
  <2>2. Retrying(Open(t))
    BY <2>1, OpenRetries DEF Retrying
  <2>3. LET o == Open(t)
        IN  /\ o.disturbed = t.disturbed /\ SameSession(t, o)
            /\ t.ws # 0 => o = t
            /\ t.ws = 0 => /\ o.ws \in Sockets /\ o.sock[o.ws].state = "connecting"
                           /\ t.sock[o.ws].state = "unused"
                           /\ \A j \in Sockets \ {o.ws} : o.sock[j] = t.sock[j]
    BY <2>1, OpenDoes
  <2> QED BY <1>3, <2>1, <2>2, <2>3 DEF SameSession
<1>4. Retrying(fired) /\ fired.disturbed = s.disturbed /\ SameSession(s, fired)
      /\ fired.ws = s.ws /\ fired.sock = s.sock
  BY <1>1 DEF Retrying, UnderWay, SameConnection
<1> HIDE DEF Like
<1> QED BY <1>1, <1>2, <1>3, <1>4

-----------------------------------------------------------------------------
(* What the sharing session does to the captures.                           *)

Recordings ==
  [at : {"none", "prompt", "ping", "started", "unheard", "over"},
   rec : {"none", "recording", "paused", "inactive"},
   original : BOOLEAN, clone : {"none", "live", "dead"}, due : Nat]

\* Before the ping is answered there is no recorder, and before the capture is
\* there nothing is live.  A stop() that waits has stopped the capture, unless
\* only a clone of it is recorded; so has a recorder that is inactive of itself.
Well(r) ==
  /\ r.at \in {"none", "prompt"} => r = [NoStream EXCEPT !.at = r.at]
  /\ r.at = "ping" => r.rec = "none" /\ r.clone = "none" /\ r.due = 0
  /\ r.due > 0 /\ r.clone = "none" => ~r.original
  /\ r.at \in {"started", "unheard"} /\ r.rec = "inactive" /\ r.due = 0 => ~r.original

\* The captures of a record in a turn that began with those in old let go of.
\* Only the session's stream can be used again, and it is never one of them.
Session(s, old) ==
  /\ s.stream \in [Streams -> Recordings] /\ s.current \in Streams \cup {0}
  /\ old \subseteq s.spilled
  /\ \A i \in Streams : Well(s.stream[i])
  /\ s.current # 0 => /\ s.stream[s.current].at \in {"started", "unheard"}
                      /\ s.current \notin s.spilled
  /\ \A i \in Streams : i \in s.spilled =>
       s.stream[i].at \in {"started", "unheard", "over"} /\ (i \in old \/ Live(s.stream[i]))
  /\ \A i \in Streams : Live(s.stream[i]) =>
       i \in s.spilled \/ s.stream[i].at = "ping" \/ s.current = i \/ s.stream[i].due > 0

LEMMA SameSessionKeeps ==
  ASSUME NEW s, NEW old, Session(s, old), NEW r, SameSession(s, r)
  PROVE  Session(r, old) /\ (Active(r) <=> Active(s))
BY DEF Session, SameSession, Active

\* One stream changes, and the session's stream stays the one that it is.
LEMMA ChangeKeeps ==
  ASSUME NEW s, Typed(s), NEW old, Session(s, old), NEW i \in Streams,
         NEW r \in Recordings, Well(r),
         s.current = i => r.at \in {"started", "unheard"},
         i \in s.spilled => r.at \in {"started", "unheard", "over"} /\ (i \in old \/ Live(r)),
         Live(r) => i \in s.spilled \/ r.at = "ping" \/ s.current = i \/ r.due > 0
  PROVE  LET t == [s EXCEPT !.stream = [s.stream EXCEPT ![i] = r]]
         IN  /\ Typed(t) /\ SameSocket(s, t)
             /\ t.current = s.current /\ t.spilled = s.spilled /\ t.air = s.air
             /\ t.stream = [s.stream EXCEPT ![i] = r]
             /\ Session(t, old)
<1> DEFINE after == [s.stream EXCEPT ![i] = r]
           t == [s EXCEPT !.stream = after]
<1>1. /\ after \in [Streams -> Recordings] /\ after[i] = r
      /\ \A k \in Streams \ {i} : after[k] = s.stream[k]
  BY DEF Session
<1>2. after = [s.stream EXCEPT ![i] = r]
  OBVIOUS
<1> HIDE DEF after
<1>3. /\ Typed(t) /\ SameSocket(s, t)
      /\ t.current = s.current /\ t.spilled = s.spilled /\ t.air = s.air /\ t.stream = after
  BY DEF Typed, SameSocket, SameConnection, Fields
<1> HIDE DEF t
<1>4. /\ \A k \in Streams : Well(t.stream[k])
      /\ t.current # 0 => /\ t.stream[t.current].at \in {"started", "unheard"}
                          /\ t.current \notin t.spilled
  BY <1>1, <1>3 DEF Session
<1>5. \A k \in Streams : k \in t.spilled =>
        t.stream[k].at \in {"started", "unheard", "over"} /\ (k \in old \/ Live(t.stream[k]))
  BY <1>1, <1>3 DEF Session
<1>6. \A k \in Streams : Live(t.stream[k]) =>
        k \in t.spilled \/ t.stream[k].at = "ping" \/ t.current = k \/ t.stream[k].due > 0
  BY <1>1, <1>3 DEF Session
<1>7. Session(t, old)
  BY <1>1, <1>3, <1>4, <1>5, <1>6 DEF Session
<1> QED BY <1>2, <1>3, <1>7 DEF t

LEMMA KeyDoes ==
  ASSUME NEW r \in Recordings
  PROVE  LET k == Key(r)
         IN  /\ k \in Recordings /\ k.at = r.at /\ k.due = r.due
             /\ r.at \in {"started", "unheard"} /\ Well(r) => Well(k)
             /\ r.at \in {"started", "unheard"} /\ Well(r) /\ k.due = 0 /\ k.rec # "inactive" =>
                  r.rec # "inactive"
<1> DEFINE k == Key(r)
<1>1. k \in Recordings
  <2>1. (r.original /\ ~chromium) \in BOOLEAN
    BY DEF Recordings
  <2> QED BY <2>1 DEF Key, Recordings
<1>2. k.at = r.at /\ k.due = r.due
  BY DEF Key, Recordings
<1>3. ASSUME r.at \in {"started", "unheard"}, Well(r)
      PROVE  Well(k) /\ (k.due = 0 /\ k.rec # "inactive" => r.rec # "inactive")
  <2>1. CASE r.rec = "paused"
    BY <1>3, <2>1 DEF Key
  <2>2. CASE r.rec = "none"
    BY <1>3, <2>2 DEF Key, Well, Recordings
  <2>3. CASE r.rec \notin {"paused", "none"}
    <3>1. /\ k.rec = IF r.original THEN "recording" ELSE "inactive"
          /\ k.clone # "none" /\ (k.original => r.original)
          /\ k.at \in {"started", "unheard"} /\ k.due = r.due
      BY <1>3, <2>3 DEF Key, Recordings
    <3> HIDE DEF k
    <3> QED BY <1>3, <3>1 DEF Well
  <2> QED BY <2>1, <2>2, <2>3
<1> QED BY <1>1, <1>2, <1>3

LEMMA StopRecordingDoes ==
  ASSUME NEW r \in Recordings
  PROVE  LET k == StopRecording(r)
         IN  /\ k \in Recordings /\ k.at = r.at /\ k.rec = "inactive"
             /\ r.at \in {"started", "unheard"} /\ Well(r) => Well(k)
<1> DEFINE k   == StopRecording(r)
           due == IF r.rec = "inactive" THEN r.due ELSE r.due + 1
           gone == IF r.clone = "live" THEN "dead" ELSE r.clone
           left == r.original /\ r.clone # "none"
<1>1. due \in Nat /\ gone \in {"none", "dead"} /\ left \in BOOLEAN
  BY DEF Recordings
<1>2. k = [r EXCEPT !.due = due, !.rec = "inactive", !.clone = gone, !.original = left]
  BY DEF StopRecording
<1>3. (r.due > 0 => due > 0) /\ (gone = "none" <=> r.clone = "none")
      /\ (due = 0 => r.rec = "inactive" /\ r.due = 0)
  BY DEF Recordings
<1>4. left => r.original /\ gone # "none"
  BY DEF Recordings
<1> HIDE DEF due, gone, left
<1>5. k \in Recordings /\ k.at = r.at /\ k.rec = "inactive"
      /\ k.due = due /\ k.clone = gone /\ k.original = left
  BY <1>1, <1>2 DEF Recordings
<1> HIDE DEF k
<1>6. r.at \in {"started", "unheard"} /\ Well(r) => Well(k)
  BY <1>1, <1>3, <1>4, <1>5 DEF Well
<1> QED BY <1>5, <1>6 DEF k

\* stop() of the session's stream: it is on the air no longer than that.
LEMMA SessionStopDoes ==
  ASSUME NEW s, Typed(s), NEW old, Session(s, old)
  PROVE  LET r == SessionStop(s)
         IN  /\ Typed(r) /\ SameSocket(s, r) /\ Session(r, old)
             /\ r.current = s.current /\ r.air = s.air
             /\ ~Active(r)
<1>0. 0 \notin Streams
  BY SharingAssumption DEF SharingAssumption
<1>1. CASE s.current = 0
  BY <1>1 DEF SessionStop, SameSocket, SameConnection, Typed, Active
<1>2. CASE s.current # 0
  <2> DEFINE i == s.current
             k == StopRecording(s.stream[i])
             t == [s EXCEPT !.stream = [s.stream EXCEPT ![i] = k]]
  <2>1. i \in Streams /\ s.stream[i] \in Recordings /\ Well(s.stream[i])
        /\ s.stream[i].at \in {"started", "unheard"} /\ i \notin s.spilled
    BY <1>2 DEF Session
  <2>2. k \in Recordings /\ Well(k) /\ k.at \in {"started", "unheard"} /\ k.rec = "inactive"
    BY <2>1, StopRecordingDoes
  <2>3. SessionStop(s) = t
    BY <1>2 DEF SessionStop, Typed, Fields
  <2> HIDE DEF k
  <2>4. /\ Typed(t) /\ SameSocket(s, t) /\ Session(t, old)
        /\ t.current = s.current /\ t.air = s.air /\ t.stream = [s.stream EXCEPT ![i] = k]
    BY <2>1, <2>2, ChangeKeeps
  <2>5. t.stream[i] = k
    BY <2>1, <2>4 DEF Session
  <2> HIDE DEF t
  <2>6. ~Active(t)
    BY <2>2, <2>4, <2>5 DEF Active
  <2> QED BY <2>3, <2>4, <2>6
<1> QED BY <1>1, <1>2

LEMMA SendDoes ==
  ASSUME NEW s, Typed(s), NEW heard
  PROVE  LET r == Send(s, heard)
         IN  /\ Typed(r) /\ SameSocket(s, r)
             /\ r.current = s.current /\ r.stream = s.stream /\ r.spilled = s.spilled
             /\ r.air = IF CanSend(s) THEN heard ELSE s.air
BY DEF Send, Typed, Fields, SameSocket, SameConnection

\* What a turn lets go of: captures that nothing else refers to.
LEMMA SpillDoes ==
  ASSUME NEW s, Typed(s), NEW lost
  PROVE  LET r == Spill(s, lost)
         IN  /\ Typed(r) /\ SameSocket(s, r)
             /\ r.current = s.current /\ r.stream = s.stream /\ r.air = s.air
             /\ \A i : i \in r.spilled <=>
                  i \in s.spilled \/ (i \in lost /\ Live(s.stream[i]) /\ s.stream[i].due = 0)
BY DEF Spill, Typed, Fields, SameSocket, SameConnection

\* A record of which only one capture is not held yet is put right by letting go
\* of that one.
LEMMA SpillKeeps ==
  ASSUME NEW s, Typed(s), NEW old, NEW lost, lost \subseteq Streams,
         s.stream \in [Streams -> Recordings], s.current \in Streams \cup {0},
         old \subseteq s.spilled,
         \A i \in Streams : Well(s.stream[i]),
         s.current # 0 => /\ s.stream[s.current].at \in {"started", "unheard"}
                          /\ s.current \notin s.spilled \cup lost,
         \A i \in Streams : i \in s.spilled =>
           s.stream[i].at \in {"started", "unheard", "over"} /\ (i \in old \/ Live(s.stream[i])),
         \A i \in lost : s.stream[i].at \in {"started", "unheard", "over"},
         \A i \in Streams \ lost : Live(s.stream[i]) =>
           i \in s.spilled \/ s.stream[i].at = "ping" \/ s.current = i \/ s.stream[i].due > 0
  PROVE  Session(Spill(s, lost), old)
<1> DEFINE r == Spill(s, lost)
<1>1. /\ r.current = s.current /\ r.stream = s.stream
      /\ \A i : i \in r.spilled <=>
           i \in s.spilled \/ (i \in lost /\ Live(s.stream[i]) /\ s.stream[i].due = 0)
  BY SpillDoes
<1> HIDE DEF r
<1>2. \A i \in Streams : s.stream[i].due \in Nat
  BY DEF Recordings
<1>3. \A i \in Streams : Live(r.stream[i]) =>
        i \in r.spilled \/ r.stream[i].at = "ping" \/ r.current = i \/ r.stream[i].due > 0
  <2> SUFFICES ASSUME NEW i \in Streams, Live(s.stream[i]), i \notin r.spilled
               PROVE  s.stream[i].at = "ping" \/ s.current = i \/ s.stream[i].due > 0
    BY <1>1
  <2>1. CASE i \in lost
    <3>1. s.stream[i].due # 0
      BY <1>1, <2>1
    <3> QED BY <1>2, <3>1
  <2>2. CASE i \notin lost
    BY <1>1, <2>2
  <2> QED BY <2>1, <2>2
<1>4. old \subseteq r.spilled
  BY <1>1
<1>5. \A i \in Streams : i \in r.spilled =>
        r.stream[i].at \in {"started", "unheard", "over"} /\ (i \in old \/ Live(r.stream[i]))
  BY <1>1
<1>6. r.current # 0 => /\ r.stream[r.current].at \in {"started", "unheard"}
                       /\ r.current \notin r.spilled
  BY <1>1
<1>7. Session(r, old)
  BY <1>1, <1>3, <1>4, <1>5, <1>6 DEF Session
<1> QED BY <1>7 DEF r

\* start() after its ping: the stream is the session's, or the capture had ended
\* and the service is misled.
LEMMA StartedDoes ==
  ASSUME NEW s, Typed(s), NEW old, Session(s, old), NEW i \in Streams, s.stream[i].at = "ping"
  PROVE  LET r == Started(s, i)
         IN  /\ Typed(r) /\ SameSocket(s, r) /\ Session(r, old)
             /\ r.air = IF CanSend(s) THEN IF r.current = i THEN "sharing" ELSE "misled" ELSE s.air
             /\ r.current \in {i, s.current} /\ s.current # i
             /\ s.stream[i].original => r.current = i
             /\ \A k \in Streams \ {i} : r.stream[k] = s.stream[k]
<1>0. 0 \notin Streams
  BY SharingAssumption DEF SharingAssumption
<1> DEFINE keyed == Key(s.stream[i])
           sent  == Send(s, IF keyed.rec = "recording" THEN "sharing" ELSE "misled")
           gone  == [s.stream[i] EXCEPT !.at = "over"]
           over  == [sent EXCEPT !.stream = [sent.stream EXCEPT ![i] = gone]]
           new   == [keyed EXCEPT !.at = "started"]
           on    == [sent.stream EXCEPT ![i] = new]
           begun == [sent EXCEPT !.stream = on, !.current = i]
           lost  == {s.current} \ {0}
<1>1. /\ s.stream[i] \in Recordings /\ Well(s.stream[i]) /\ s.current # i /\ i \notin s.spilled
  <2> HIDE DEF keyed, sent, gone, over, new, on, begun, lost
  <2>1. s.stream[i] \in Recordings /\ Well(s.stream[i])
    BY DEF Session
  <2>2. s.current # i
    BY <1>0 DEF Session
  <2>3. i \notin s.spilled
    BY DEF Session
  <2> QED BY <2>1, <2>2, <2>3
<1>2. /\ Typed(sent) /\ SameSocket(s, sent)
      /\ sent.current = s.current /\ sent.stream = s.stream /\ sent.spilled = s.spilled
      /\ sent.air = IF CanSend(s) THEN IF keyed.rec = "recording" THEN "sharing" ELSE "misled"
                    ELSE s.air
  BY SendDoes
<1>3. keyed = [s.stream[i] EXCEPT !.rec = IF s.stream[i].original THEN "recording" ELSE "inactive"]
  BY <1>1 DEF Key, Well
<1>4. /\ keyed.rec = "recording" <=> s.stream[i].original
      /\ s.stream[i].rec = "none" /\ s.stream[i].clone = "none" /\ s.stream[i].due = 0
  BY <1>1, <1>3 DEF Well, Recordings
<1>5. Started(s, i) = IF keyed.rec # "recording" THEN over ELSE Spill(begun, lost)
  <2>1. sent.stream[i] = s.stream[i]
    BY <1>2
  <2> HIDE DEF keyed, sent
  <2>2. [sent EXCEPT !.stream[i].at = "over"] = over
    BY <1>2, <2>1 DEF Typed, Fields
  <2>3. [sent EXCEPT !.stream[i] = [keyed EXCEPT !.at = "started"], !.current = i] = begun
    BY <1>2 DEF Typed, Fields
  <2> QED BY <2>2, <2>3 DEF Started, keyed, sent
<1>6. Session(sent, old)
  BY <1>2 DEF Session
<1>7. CASE keyed.rec # "recording"
  <2>1. gone \in Recordings /\ ~Live(gone) /\ Well(gone)
    BY <1>1, <1>4, <1>7 DEF Recordings, Live, Well
  <2> HIDE DEF gone, keyed, sent
  <2>2. /\ Typed(over) /\ SameSocket(sent, over) /\ Session(over, old)
        /\ over.current = sent.current /\ over.air = sent.air
        /\ over.stream = [sent.stream EXCEPT ![i] = gone]
    BY <1>1, <1>2, <1>6, <2>1, ChangeKeeps
  <2> HIDE DEF over
  <2>3. \A k \in Streams \ {i} : over.stream[k] = s.stream[k]
    BY <1>2, <2>2 DEF Session
  <2>4. SameSocket(s, over)
    BY <1>2, <2>2 DEF SameSocket, SameConnection
  <2>5. ~s.stream[i].original
    BY <1>4, <1>7
  <2> QED BY <1>1, <1>2, <1>5, <1>7, <2>2, <2>3, <2>4, <2>5
<1>8. CASE keyed.rec = "recording"
  <2>1. new \in Recordings /\ new.at \in {"started", "unheard"} /\ Well(new) /\ new.due = 0
    BY <1>1, <1>3, <1>4, <1>8 DEF Recordings, Well
  <2> HIDE DEF new, keyed, sent
  <2>2. /\ on \in [Streams -> Recordings] /\ on[i] = new
        /\ \A k \in Streams \ {i} : on[k] = s.stream[k]
    BY <1>2, <2>1 DEF Session
  <2> HIDE DEF on
  <2>3. /\ Typed(begun) /\ SameSocket(sent, begun)
        /\ begun.current = i /\ begun.stream = on /\ begun.spilled = s.spilled
        /\ begun.air = sent.air
    BY <1>2 DEF Typed, Fields, SameSocket, SameConnection
  <2> HIDE DEF begun
  <2>4. Session(Spill(begun, lost), old)
    <3>1. lost \subseteq Streams /\ i \notin lost
      BY <1>1 DEF Session
    <3>2. \A k \in Streams : Well(begun.stream[k])
      BY <2>1, <2>2, <2>3 DEF Session
    <3>3. \A k \in Streams : k \in begun.spilled =>
            /\ begun.stream[k].at \in {"started", "unheard", "over"}
            /\ k \in old \/ Live(begun.stream[k])
      BY <1>1, <2>2, <2>3 DEF Session
    <3>4. \A k \in lost : begun.stream[k].at \in {"started", "unheard", "over"}
      BY <1>1, <2>2, <2>3 DEF Session
    <3>5. \A k \in Streams \ lost : Live(begun.stream[k]) =>
            \/ k \in begun.spilled \/ begun.stream[k].at = "ping"
            \/ begun.current = k \/ begun.stream[k].due > 0
      <4> SUFFICES ASSUME NEW k \in Streams \ lost, Live(begun.stream[k]), k # i
                   PROVE  \/ k \in begun.spilled \/ begun.stream[k].at = "ping"
                          \/ begun.stream[k].due > 0
        BY <2>3
      <4>1. k # s.current
        BY <1>0
      <4> QED BY <2>2, <2>3, <4>1 DEF Session
    <3>6. begun.current # 0 => /\ begun.stream[begun.current].at \in {"started", "unheard"}
                               /\ begun.current \notin begun.spilled \cup lost
      BY <1>1, <2>1, <2>2, <2>3, <3>1
    <3>7. old \subseteq begun.spilled /\ begun.current \in Streams \cup {0}
          /\ begun.stream \in [Streams -> Recordings]
      BY <2>2, <2>3 DEF Session
    <3> HIDE DEF lost
    <3> QED BY <2>3, <3>1, <3>2, <3>3, <3>4, <3>5, <3>6, <3>7, SpillKeeps
  <2> DEFINE r == Spill(begun, lost)
  <2>5. /\ Typed(r) /\ SameSocket(begun, r)
        /\ r.current = i /\ r.stream = on /\ r.air = sent.air
    BY <2>3, SpillDoes
  <2> HIDE DEF r
  <2>6. SameSocket(s, r)
    BY <1>2, <2>3, <2>5 DEF SameSocket, SameConnection
  <2>7. r = Started(s, i)
    BY <1>5, <1>8 DEF r
  <2>8. Session(r, old)
    BY <2>4 DEF r
  <2> QED BY <1>1, <1>2, <1>8, <2>2, <2>5, <2>6, <2>7, <2>8
<1> QED BY <1>7, <1>8

\* The stop event: there is no stream, and what the recorder or another start()
\* has left live is let go of.
LEMMA StoppedDoes ==
  ASSUME NEW s, Typed(s), NEW old, Session(s, old), NEW i \in Streams, s.stream[i].due > 0
  PROVE  LET r == Stopped(s, i)
         IN  /\ Typed(r) /\ SameSocket(s, r) /\ Session(r, old)
             /\ r.current = 0
             /\ r.air = IF CanSend(s) THEN "idle" ELSE s.air
<1>0. 0 \notin Streams
  BY SharingAssumption DEF SharingAssumption
<1> DEFINE less == s.stream[i].due - 1
           at1  == IF s.stream[i].due = 1 THEN "over" ELSE s.stream[i].at
           new  == [s.stream[i] EXCEPT !.due = less, !.at = at1]
           sent == Send(s, "idle")
           after == [s.stream EXCEPT ![i] = new]
           ended == [sent EXCEPT !.current = 0, !.stream = after]
           lost == ({s.current} \ {0, i}) \cup (IF s.stream[i].clone # "none" THEN {i} ELSE {})
<1>1. /\ s.stream[i] \in Recordings /\ Well(s.stream[i])
      /\ s.stream[i].at \in {"started", "unheard", "over"}
      /\ s.stream \in [Streams -> Recordings]
  <2>1. s.stream[i] \in Recordings /\ Well(s.stream[i]) /\ s.stream \in [Streams -> Recordings]
    BY DEF Session
  <2>2. s.stream[i].at \notin {"none", "prompt", "ping"}
    BY <2>1 DEF Well, NoStream
  <2> QED BY <2>1, <2>2 DEF Recordings
<1>2. less \in Nat
  <2>1. s.stream[i].due \in Nat
    BY <1>1 DEF Recordings
  <2> QED BY <2>1
<1>3. at1 \in {"started", "unheard", "over"} /\ (less = 0 => at1 = "over")
  <2>1. s.stream[i].due \in Nat
    BY <1>1 DEF Recordings
  <2>2. less = 0 => s.stream[i].due = 1
    BY <2>1
  <2> QED BY <1>1, <2>2
<1>4. /\ Typed(sent) /\ SameSocket(s, sent)
      /\ sent.current = s.current /\ sent.stream = s.stream /\ sent.spilled = s.spilled
      /\ sent.air = IF CanSend(s) THEN "idle" ELSE s.air
  BY SendDoes
<1>5. Stopped(s, i) = Spill(ended, lost)
  <2> HIDE DEF sent
  <2>1. [sent EXCEPT !.current = 0, !.stream[i].due = @ - 1,
                     !.stream[i].at = IF s.stream[i].due = 1 THEN "over" ELSE @] = ended
    BY ZenonT(60), <1>1, <1>4 DEF Typed, Fields, Recordings
  <2> QED BY <2>1 DEF Stopped, sent
<1> HIDE DEF sent, less, at1
<1>6. /\ new \in Recordings /\ new.due = less /\ new.at = at1
      /\ new.clone = s.stream[i].clone /\ new.original = s.stream[i].original
  BY <1>1, <1>2, <1>3 DEF Recordings
<1> HIDE DEF new
<1>7. /\ Well(new)
      /\ new.clone = "none" => ~Live(new)
      /\ Live(new) => Live(s.stream[i])
  <2>1. new.clone = "none" => ~new.original
    BY <1>1, <1>6 DEF Well
  <2>2. new.original \in BOOLEAN
    BY <1>6 DEF Recordings
  <2> QED BY <1>3, <1>6, <2>1, <2>2 DEF Well, Live
<1>8. /\ after \in [Streams -> Recordings] /\ after[i] = new
      /\ \A k \in Streams \ {i} : after[k] = s.stream[k]
  BY <1>1, <1>6
<1> HIDE DEF after
<1>9. /\ Typed(ended) /\ SameSocket(sent, ended)
      /\ ended.current = 0 /\ ended.stream = after /\ ended.spilled = s.spilled
      /\ ended.air = sent.air
  BY <1>4 DEF Typed, Fields, SameSocket, SameConnection
<1> HIDE DEF ended
<1>10. ASSUME i \notin s.spilled \/ i \in old \/ Live(new)
       PROVE  Session(Spill(ended, lost), old)
  <2>1. lost \subseteq Streams
    BY DEF Session
  <2>2. \A k \in Streams : Well(ended.stream[k])
    BY <1>7, <1>8, <1>9 DEF Session
  <2>3. \A k \in Streams : k \in ended.spilled =>
          /\ ended.stream[k].at \in {"started", "unheard", "over"}
          /\ k \in old \/ Live(ended.stream[k])
    BY <1>3, <1>6, <1>8, <1>9, <1>10 DEF Session
  <2>4. \A k \in lost : ended.stream[k].at \in {"started", "unheard", "over"}
    <3>1. \A k \in lost : k = i \/ s.stream[k].at \in {"started", "unheard"}
      BY DEF Session
    <3> QED BY <1>3, <1>6, <1>8, <1>9, <2>1, <3>1
  <2>5. \A k \in Streams \ lost : Live(ended.stream[k]) =>
          \/ k \in ended.spilled \/ ended.stream[k].at = "ping"
          \/ ended.current = k \/ ended.stream[k].due > 0
    <3> SUFFICES ASSUME NEW k \in Streams \ lost, Live(ended.stream[k])
                 PROVE  k \in s.spilled \/ ended.stream[k].at = "ping" \/ ended.stream[k].due > 0
      BY <1>9
    <3>1. k # i
      BY <1>6, <1>7, <1>8, <1>9
    <3>2. k # s.current
      BY <1>0, <3>1
    <3> QED BY <1>8, <1>9, <3>1, <3>2 DEF Session
  <2>6. old \subseteq ended.spilled /\ ended.current \in Streams \cup {0}
        /\ ended.stream \in [Streams -> Recordings]
    BY <1>8, <1>9 DEF Session
  <2> HIDE DEF lost
  <2> QED BY <1>9, <2>1, <2>2, <2>3, <2>4, <2>5, <2>6, SpillKeeps
<1>11. i \notin s.spilled \/ i \in old \/ Live(new)
  <2>1. ASSUME i \in s.spilled, i \notin old
        PROVE  Live(new)
    <3>1. Live(s.stream[i])
      BY <2>1 DEF Session
    <3> QED BY <1>6, <3>1 DEF Live
  <2> QED BY <2>1
<1> HIDE DEF lost
<1>12. LET r == Spill(ended, lost)
       IN  Typed(r) /\ SameSocket(ended, r) /\ r.current = 0 /\ r.air = sent.air
  BY <1>9, SpillDoes
<1> QED BY <1>4, <1>5, <1>9, <1>10, <1>11, <1>12 DEF SameSocket, SameConnection

-----------------------------------------------------------------------------
(* Turns of the sharing session and of its connection together.             *)

\* What the service has heard on the connection in use, in a turn that began
\* with socket w in use.
Heard(s, w) == IF s.ws = w THEN s.air ELSE "idle"

\* Only an open socket can have carried it, what is on the air is the session's,
\* and the session's stream, until it is stopped, is on the air or misled.
Airs(s, w) ==
  /\ Heard(s, w) \in {"idle", "sharing", "misled"}
  /\ Heard(s, w) # "idle" => CanSend(s)
  /\ Heard(s, w) = "sharing" => s.current # 0
  /\ ~s.disturbed /\ NoClosing(s) /\ Active(s) => CanSend(s) /\ Heard(s, w) # "idle"

\* What every prefix of a turn keeps, and the invariant.
Kept(s) == Typed(s) /\ Retrying(s) /\ Session(s, spilled) /\ Airs(s, ws)

SharingInv == Retrying(World) /\ Session(World, spilled) /\ Airs(World, ws)

LEMMA WorldKept == ConnectionInv /\ SharingInv => Kept(World)
BY WorldOrderly DEF Orderly, SharingInv, Kept

LEMMA BecomeKeeps ==
  ASSUME NEW s, Kept(s), Become(s)
  PROVE  SharingInv'
<1>0. /\ s.stream \in [Streams -> Recordings] /\ s.current \in Streams \cup {0}
      /\ spilled \subseteq s.spilled
      /\ \A i \in Streams : Well(s.stream[i])
      /\ s.current # 0 => s.current \in Streams /\ s.stream[s.current].at \in {"started", "unheard"}
                          /\ s.current \notin s.spilled
      /\ \A i \in Streams : i \in s.spilled =>
           s.stream[i].at \in {"started", "unheard", "over"} /\ (i \in spilled \/ Live(s.stream[i]))
      /\ \A i \in Streams : Live(s.stream[i]) =>
           i \in s.spilled \/ s.stream[i].at = "ping" \/ s.current = i \/ s.stream[i].due > 0
  BY DEF Kept, Session
<1>1. /\ current' = s.current /\ spilled' = s.spilled \ spilled
      /\ \A i \in Streams : \/ i \in spilled /\ stream'[i] = NoStream
                            \/ i \notin spilled /\ stream'[i] = s.stream[i]
                            \/ /\ i \notin spilled /\ stream'[i] = NoStream
                               /\ s.stream[i].at = "over" /\ ~Live(s.stream[i])
  BY DEF Become
<1>2. NoStream \in Recordings /\ Well(NoStream) /\ ~Live(NoStream)
  BY DEF NoStream, Recordings, Well, Live
<1>3. stream' \in [Streams -> Recordings]
  BY <1>0, <1>2 DEF Become
<1>4. \A i \in Streams : Well(stream'[i])
  BY <1>0, <1>1, <1>2
<1>5. current' # 0 => /\ current' \in Streams /\ stream'[current'] = s.stream[s.current]
                      /\ stream'[current'].at \in {"started", "unheard"} /\ current' \notin spilled'
  BY <1>0, <1>1
<1>6. \A i \in Streams : i \in spilled' => stream'[i].at \in {"started", "unheard", "over"}
  BY <1>0, <1>1
<1>7. \A i \in Streams : Live(stream'[i]) =>
        i \in spilled' \/ stream'[i].at = "ping" \/ current' = i \/ stream'[i].due > 0
  BY <1>0, <1>1, <1>2
<1>8. Session(World, spilled)'
  BY <1>0, <1>1, <1>3, <1>4, <1>5, <1>6, <1>7 DEF Session, World, Well, Live
<1>9. /\ ws' = s.ws /\ sock' = s.sock /\ timer' = s.timer /\ told' = s.told
      /\ disturbed' = s.disturbed /\ air' = Heard(s, ws)
  BY DEF Become, Heard
<1>10. Retrying(World)'
  BY <1>9 DEF Kept, Retrying, UnderWay, World
<1>11. Active(World)' <=> Active(s)
  BY <1>1, <1>5 DEF Active, World
<1>12. (CanSend(World)' <=> CanSend(s)) /\ (NoClosing(World)' <=> NoClosing(s))
  BY <1>9 DEF CanSend, NoClosing, World
<1>13. Airs(World, ws)'
  <2>1. Heard(World, ws)' = Heard(s, ws) /\ World.disturbed' = s.disturbed
        /\ World.current' = s.current
    BY <1>1, <1>9 DEF Heard, World
  <2>2. Airs(s, ws)
    BY DEF Kept
  <2> QED BY <1>11, <1>12, <2>1, <2>2 DEF Airs
<1> QED BY <1>8, <1>10, <1>13 DEF SharingInv

\* The session changes, the socket does not.
LEMMA SameSocketKept ==
  ASSUME NEW s, Kept(s), NEW t, Typed(t), SameSocket(s, t), Session(t, spilled),
         t.air = s.air, s.current # 0 => t.current # 0, Active(t) => Active(s)
  PROVE  Kept(t)
<1>1. t.ws = s.ws /\ t.sock = s.sock /\ t.told = s.told /\ t.timer = s.timer
      /\ t.disturbed = s.disturbed
  BY DEF SameSocket, SameConnection
<1>2. Retrying(t)
  BY <1>1 DEF Kept, Retrying, UnderWay
<1>3. Airs(t, ws)
  BY <1>1 DEF Kept, Airs, Heard, CanSend, NoClosing
<1> QED BY <1>2, <1>3 DEF Kept

LEMMA SessionStopKept ==
  ASSUME NEW s, Kept(s)
  PROVE  Kept(SessionStop(s))
<1> DEFINE r == SessionStop(s)
<1>1. /\ Typed(r) /\ SameSocket(s, r) /\ Session(r, spilled)
      /\ r.current = s.current /\ r.air = s.air /\ ~Active(r)
  BY SessionStopDoes DEF Kept
<1> HIDE DEF r
<1>2. Kept(r)
  BY <1>1, SameSocketKept
<1> QED BY <1>2 DEF r

\* One stream changes; if it is the session's, it does not come to life again.
LEMMA ChangeKept ==
  ASSUME NEW s, Kept(s), NEW i \in Streams, NEW r \in Recordings, Well(r),
         s.current = i => r.at \in {"started", "unheard"},
         s.current = i /\ r.due = 0 /\ r.rec # "inactive" /\ r.at # "unheard" => Active(s),
         i \in s.spilled => r.at \in {"started", "unheard", "over"} /\ (i \in spilled \/ Live(r)),
         Live(r) => i \in s.spilled \/ r.at = "ping" \/ s.current = i \/ r.due > 0
  PROVE  Kept([s EXCEPT !.stream = [s.stream EXCEPT ![i] = r]])
<1> DEFINE t == [s EXCEPT !.stream = [s.stream EXCEPT ![i] = r]]
<1>1. /\ Typed(t) /\ SameSocket(s, t) /\ Session(t, spilled)
      /\ t.current = s.current /\ t.air = s.air /\ t.stream = [s.stream EXCEPT ![i] = r]
  BY ChangeKeeps DEF Kept
<1> HIDE DEF t
<1>2. Active(t) => Active(s)
  <2>1. s.stream \in [Streams -> Recordings] /\ s.current \in Streams \cup {0}
    BY DEF Kept, Session
  <2> QED BY <1>1, <2>1 DEF Active
<1>3. Kept(t)
  BY <1>1, <1>2, SameSocketKept
<1> QED BY <1>3 DEF t

\* A start() fails, and lets go of its capture.
LEMMA OverKept ==
  ASSUME NEW s, Kept(s), NEW i \in Streams, s.stream[i].at \in {"prompt", "ping"},
         NEW r \in Recordings, Well(r), r.at = "over"
  PROVE  Kept(Spill([s EXCEPT !.stream = [s.stream EXCEPT ![i] = r]], {i}))
<1>0. 0 \notin Streams
  BY SharingAssumption DEF SharingAssumption
<1> DEFINE after == [s.stream EXCEPT ![i] = r]
           t == [s EXCEPT !.stream = after]
           o == Spill(t, {i})
<1>1. /\ s.stream \in [Streams -> Recordings] /\ s.current \in Streams \cup {0}
      /\ spilled \subseteq s.spilled /\ s.current # i /\ i \notin s.spilled
  BY <1>0 DEF Kept, Session
<1>2. /\ after \in [Streams -> Recordings] /\ after[i] = r
      /\ \A k \in Streams \ {i} : after[k] = s.stream[k]
  BY <1>1
<1> HIDE DEF after
<1>3. /\ Typed(t) /\ SameSocket(s, t)
      /\ t.current = s.current /\ t.spilled = s.spilled /\ t.air = s.air /\ t.stream = after
  BY DEF Kept, Typed, SameSocket, SameConnection, Fields
<1> HIDE DEF t
<1>4. \A k \in Streams : Well(t.stream[k])
  BY <1>2, <1>3 DEF Kept, Session
<1>5. t.current # 0 => /\ t.stream[t.current].at \in {"started", "unheard"}
                       /\ t.current \notin t.spilled \cup {i}
  BY <1>1, <1>2, <1>3 DEF Kept, Session
<1>6. \A k \in Streams : k \in t.spilled =>
        t.stream[k].at \in {"started", "unheard", "over"} /\ (k \in spilled \/ Live(t.stream[k]))
  BY <1>1, <1>2, <1>3 DEF Kept, Session
<1>7. \A k \in Streams \ {i} : Live(t.stream[k]) =>
        k \in t.spilled \/ t.stream[k].at = "ping" \/ t.current = k \/ t.stream[k].due > 0
  BY <1>1, <1>2, <1>3 DEF Kept, Session
<1>8. t.stream[i].at \in {"started", "unheard", "over"}
  BY <1>2, <1>3
<1>9. Session(o, spilled)
  BY <1>1, <1>2, <1>3, <1>4, <1>5, <1>6, <1>7, <1>8, SpillKeeps
<1>10. /\ Typed(o) /\ SameSocket(t, o)
       /\ o.current = t.current /\ o.stream = t.stream /\ o.air = t.air
  BY <1>3, SpillDoes
<1> HIDE DEF o
<1>11. SameSocket(s, o)
  BY <1>3, <1>10 DEF SameSocket, SameConnection
<1>12. Active(o) <=> Active(s)
  BY <1>1, <1>2, <1>3, <1>10 DEF Active
<1>13. Kept(o)
  BY <1>3, <1>9, <1>10, <1>11, <1>12, SameSocketKept
<1> QED BY <1>13 DEF o, t, after

\* A response of the service has come on the connection in use, unless one has
\* been disturbed or is closing.
LEMMA StartedKept ==
  ASSUME NEW s, Kept(s), s.ws = ws, NEW i \in Streams, s.stream[i].at = "ping",
         CanSend(s) \/ s.disturbed \/ ~NoClosing(s)
  PROVE  LET r == Started(s, i)
         IN  /\ Kept(r) /\ SameSocket(s, r)
             /\ \A k \in Streams \ {i} : r.stream[k] = s.stream[k]
<1>0. 0 \notin Streams
  BY SharingAssumption DEF SharingAssumption
<1> DEFINE r == Started(s, i)
<1>1. /\ Typed(r) /\ SameSocket(s, r) /\ Session(r, spilled)
      /\ r.air = IF CanSend(s) THEN IF r.current = i THEN "sharing" ELSE "misled" ELSE s.air
      /\ r.current \in {i, s.current} /\ s.current # i
      /\ \A k \in Streams \ {i} : r.stream[k] = s.stream[k]
  BY StartedDoes DEF Kept
<1> HIDE DEF r
<1>2. r.ws = s.ws /\ r.sock = s.sock /\ r.told = s.told /\ r.timer = s.timer
      /\ r.disturbed = s.disturbed
  BY <1>1 DEF SameSocket, SameConnection
<1>3. Retrying(r)
  BY <1>2 DEF Kept, Retrying, UnderWay
<1>4. (CanSend(r) <=> CanSend(s)) /\ (NoClosing(r) <=> NoClosing(s))
  BY <1>2 DEF CanSend, NoClosing
<1>5. Airs(s, ws)
  BY DEF Kept
<1>6. Airs(r, ws)
  <2>1. CASE CanSend(s)
    BY <1>0, <1>1, <1>2, <1>4, <1>5, <2>1 DEF Airs, Heard
  <2>2. CASE ~CanSend(s)
    BY <1>1, <1>2, <1>4, <1>5, <2>2 DEF Airs, Heard
  <2> QED BY <2>1, <2>2
<1> QED BY <1>1, <1>3, <1>6 DEF Kept, r

\* Without a ping start() goes the same way, from the prompt.
LEMMA StartedFromPrompt ==
  ASSUME NEW s, Typed(s), s.stream \in [Streams -> Recordings], NEW i \in Streams,
         s.stream[i].original, s.stream[i].rec = "none", NEW v
  PROVE  LET g == [s EXCEPT !.stream = [s.stream EXCEPT ![i] = [s.stream[i] EXCEPT !.at = v]]]
         IN  Started(g, i) = Started(s, i)
<1> DEFINE r == s.stream[i]
           q == [r EXCEPT !.at = v]
           after == [s.stream EXCEPT ![i] = q]
           g == [s EXCEPT !.stream = after]
           new == [r EXCEPT !.rec = "recording", !.at = "started"]
           on == [s.stream EXCEPT ![i] = new]
           air1 == IF CanSend(s) THEN "sharing" ELSE s.air
           begun == [s EXCEPT !.air = air1, !.stream = on, !.current = i]
           lost == {s.current} \ {0}
<1>1. r \in Recordings
  OBVIOUS
<1>2. /\ Key(r) = [r EXCEPT !.rec = "recording"] /\ Key(q) = [q EXCEPT !.rec = "recording"]
      /\ Key(r).rec = "recording" /\ Key(q).rec = "recording"
      /\ [Key(r) EXCEPT !.at = "started"] = new /\ [Key(q) EXCEPT !.at = "started"] = new
  <2>1. /\ q.rec = "none" /\ q.original
    BY <1>1 DEF Recordings
  <2>2. Key(r) = [r EXCEPT !.rec = "recording"] /\ Key(q) = [q EXCEPT !.rec = "recording"]
    BY <2>1 DEF Key
  <2> QED BY <1>1, <2>2 DEF Recordings
<1>3. after[i] = q /\ [after EXCEPT ![i] = new] = on
  OBVIOUS
<1> HIDE DEF r, q, new, on, after
<1>4. /\ g.stream = after /\ g.current = s.current /\ g.ws = s.ws /\ g.sock = s.sock
      /\ g.air = s.air /\ g = [f \in Fields |-> g[f]]
  BY DEF Typed, Fields
<1>5. CanSend(g) <=> CanSend(s)
  BY <1>4 DEF CanSend
<1>6. ASSUME NEW w, w \in {s, g}
      PROVE  [Send(w, "sharing") EXCEPT !.stream[i] = new, !.current = i] = begun
  <2> HIDE DEF air1
  <2>1. CASE CanSend(s)
    <3>1. Send(w, "sharing") = [w EXCEPT !.air = "sharing"] /\ air1 = "sharing"
      BY <1>5, <1>6, <2>1 DEF Send, air1
    <3> QED BY <1>3, <1>6, <3>1 DEF Typed, Fields, on
  <2>2. CASE ~CanSend(s)
    <3>1. Send(w, "sharing") = w /\ air1 = s.air
      BY <1>5, <1>6, <2>2 DEF Send, air1
    <3> QED BY <1>3, <1>6, <3>1 DEF Typed, Fields, on
  <2> QED BY <2>1, <2>2
<1> HIDE DEF begun
<1>7. Started(s, i) = Spill(begun, lost)
  BY <1>2, <1>6 DEF Started, r
<1>8. Started(g, i) = Spill(begun, lost)
  <2>1. g.stream[i] = q
    BY <1>3, <1>4
  <2> HIDE DEF g
  <2> QED BY <1>2, <1>4, <1>6, <2>1 DEF Started
<1> QED BY <1>7, <1>8 DEF g, after, q, r

\* A stream that starts without a ping, and is unheard when nothing is open.
LEMMA UnheardKept ==
  ASSUME NEW s, Kept(s), s.ws = ws, NEW i \in Streams, s.stream[i].at = "ping",
         s.stream[i].original
  PROVE  LET x == IF CanSend(s) THEN "started" ELSE "unheard"
         IN  Kept([Started(s, i) EXCEPT !.stream[i].at = x])
<1>0. 0 \notin Streams
  BY SharingAssumption DEF SharingAssumption
<1> DEFINE x == IF CanSend(s) THEN "started" ELSE "unheard"
           r == Started(s, i)
           k == [r.stream[i] EXCEPT !.at = x]
           t == [r EXCEPT !.stream = [r.stream EXCEPT ![i] = k]]
<1>1. /\ Typed(r) /\ SameSocket(s, r) /\ Session(r, spilled)
      /\ r.air = IF CanSend(s) THEN IF r.current = i THEN "sharing" ELSE "misled" ELSE s.air
      /\ r.current = i
  BY StartedDoes DEF Kept
<1>2. CanSend(s) => Kept(r)
  BY StartedKept
<1> HIDE DEF r
<1>3. [r EXCEPT !.stream[i].at = x] = t
  BY <1>1 DEF Typed, Fields
<1>4. /\ r.stream[i] \in Recordings /\ Well(r.stream[i]) /\ i \notin r.spilled
      /\ r.stream[i].at \in {"started", "unheard"} /\ r.stream \in [Streams -> Recordings]
  BY <1>0, <1>1 DEF Session
<1>5. x \in {"started", "unheard"} /\ (~CanSend(s) => x = "unheard")
  OBVIOUS
<1> HIDE DEF x
<1>6. /\ k \in Recordings /\ k.at = x /\ k.due = r.stream[i].due
      /\ k.rec = r.stream[i].rec /\ k.clone = r.stream[i].clone /\ k.original = r.stream[i].original
  BY <1>4, <1>5 DEF Recordings
<1> HIDE DEF k
<1>7. Well(k)
  BY <1>4, <1>5, <1>6 DEF Well
<1>8. /\ Typed(t) /\ SameSocket(r, t) /\ Session(t, spilled)
      /\ t.current = i /\ t.air = r.air /\ t.stream = [r.stream EXCEPT ![i] = k]
  BY <1>1, <1>4, <1>5, <1>6, <1>7, ChangeKeeps
<1> HIDE DEF t
<1>9. t.stream[i] = k
  BY <1>4, <1>8
<1>10. SameSocket(s, t)
  BY <1>1, <1>8 DEF SameSocket, SameConnection
<1>11. CASE CanSend(s)
  <2>1. Kept(r)
    BY <1>2, <1>11
  <2>2. Airs(r, ws) /\ Retrying(r)
    BY <2>1 DEF Kept
  <2>3. t.ws = r.ws /\ t.sock = r.sock /\ t.disturbed = r.disturbed /\ t.told = r.told
        /\ t.timer = r.timer
    BY <1>8 DEF SameSocket, SameConnection
  <2>4. CanSend(t) /\ t.air = "sharing" /\ t.ws = ws
    BY <1>1, <1>8, <1>11, <2>3 DEF CanSend, SameSocket, SameConnection
  <2>5. Airs(t, ws)
    BY <1>0, <1>8, <2>4 DEF Airs, Heard
  <2>6. Retrying(t)
    BY <2>2, <2>3 DEF Retrying, UnderWay
  <2> QED BY <1>3, <1>8, <2>5, <2>6 DEF Kept, x, r
<1>12. CASE ~CanSend(s)
  <2>1. t.ws = s.ws /\ t.sock = s.sock /\ t.told = s.told /\ t.timer = s.timer /\ t.air = s.air
    BY <1>1, <1>8, <1>10, <1>12 DEF SameSocket, SameConnection
  <2>2. ~Active(t)
    BY <1>5, <1>6, <1>8, <1>9, <1>12 DEF Active
  <2>3. Airs(s, ws)
    BY DEF Kept
  <2>4. Heard(t, ws) = "idle"
    BY <1>12, <2>1, <2>3 DEF Airs, Heard
  <2>5. Airs(t, ws)
    BY <2>2, <2>4 DEF Airs
  <2>6. Retrying(t)
    BY <2>1 DEF Kept, Retrying, UnderWay
  <2> QED BY <1>3, <1>8, <2>5, <2>6 DEF Kept, x, r
<1> QED BY <1>11, <1>12

LEMMA StoppedKept ==
  ASSUME NEW s, Kept(s), NEW i \in Streams, s.stream[i].due > 0
  PROVE  Kept(Stopped(s, i))
<1> DEFINE r == Stopped(s, i)
<1>1. /\ Typed(r) /\ SameSocket(s, r) /\ Session(r, spilled) /\ r.current = 0
      /\ r.air = IF CanSend(s) THEN "idle" ELSE s.air
  BY StoppedDoes DEF Kept
<1> HIDE DEF r
<1>2. r.ws = s.ws /\ r.sock = s.sock /\ r.told = s.told /\ r.timer = s.timer
  BY <1>1 DEF SameSocket, SameConnection
<1>3. Retrying(r)
  BY <1>2 DEF Kept, Retrying, UnderWay
<1>4. ~Active(r) /\ (CanSend(r) <=> CanSend(s)) /\ Airs(s, ws)
  BY <1>1, <1>2 DEF Kept, Active, CanSend
<1>5. Heard(r, ws) = "idle"
  <2>1. CASE CanSend(s)
    BY <1>1, <2>1 DEF Heard
  <2>2. CASE ~CanSend(s)
    <3>1. Heard(s, ws) = "idle"
      BY <1>4, <2>2 DEF Airs
    <3> QED BY <1>1, <1>2, <2>2, <3>1 DEF Heard
  <2> QED BY <2>1, <2>2
<1>6. Airs(r, ws)
  BY <1>4, <1>5 DEF Airs
<1>7. Kept(r)
  BY <1>1, <1>3, <1>6 DEF Kept
<1> QED BY <1>7 DEF r

\* Nothing has been heard on a connection that has just gone, or was not there.
LEMMA SilentWhenDown ==
  ASSUME Kept(World), NEW s, s.ws = 0, s.air = air
  PROVE  Heard(s, ws) = "idle"
<1>1. CASE ws = 0
  <2>1. ~CanSend(World) /\ Heard(World, ws) = air
    BY <1>1 DEF CanSend, World, Heard
  <2>2. air = "idle"
    BY <2>1 DEF Kept, Airs
  <2> QED BY <2>2 DEF Heard
<1>2. CASE ws # 0
  BY <1>2 DEF Heard
<1> QED BY <1>1, <1>2

\* The connection goes down, or was down: nothing is on the air, and nothing
\* has to be.
LEMMA DownKept ==
  ASSUME Kept(World), NEW s, Typed(s), Retrying(s), SameSession(World, s), s.ws = 0,
         s.disturbed \/ ~NoClosing(s) \/ ~Active(s)
  PROVE  Kept(s)
<1>1. Session(s, spilled)
  BY SameSessionKeeps DEF Kept
<1>2. Heard(s, ws) = "idle"
  BY SilentWhenDown DEF SameSession, World
<1>3. Airs(s, ws)
  BY <1>2 DEF Airs
<1> QED BY <1>1, <1>3 DEF Kept

\* The session stops its stream when the connection has gone.
LEMMA StopDown ==
  ASSUME Kept(World), NEW h, Typed(h), h.ws = 0, SameSession(World, h), Retrying(h)
  PROVE  Kept(SessionStop(h))
<1> DEFINE r == SessionStop(h)
<1>1. Session(h, spilled)
  BY SameSessionKeeps DEF Kept
<1>2. /\ Typed(r) /\ SameSocket(h, r) /\ Session(r, spilled)
      /\ r.current = h.current /\ r.air = h.air /\ ~Active(r)
  BY <1>1, SessionStopDoes
<1> HIDE DEF r
<1>3. r.ws = 0 /\ r.sock = h.sock /\ r.told = h.told /\ r.timer = h.timer
  BY <1>2 DEF SameSocket, SameConnection
<1>4. Retrying(r)
  BY <1>3 DEF Retrying, UnderWay
<1>5. Heard(r, ws) = "idle"
  BY <1>2, <1>3, SilentWhenDown DEF SameSession, World
<1>6. Airs(r, ws)
  BY <1>2, <1>5 DEF Airs
<1>7. Kept(r)
  BY <1>2, <1>4, <1>6 DEF Kept
<1> QED BY <1>7 DEF r

-----------------------------------------------------------------------------
(* The actions again.                                                       *)

\* The streams of the state, and what the invariant says of each.
LEMMA StreamsAre ==
  ASSUME Kept(World)
  PROVE  /\ stream \in [Streams -> Recordings] /\ current \in Streams \cup {0}
         /\ \A i \in Streams : stream[i] \in Recordings /\ Well(stream[i])
         /\ current # 0 => current \in Streams /\ stream[current].at \in {"started", "unheard"}
                           /\ current \notin spilled
         /\ \A i \in Streams : i \in spilled => stream[i].at \in {"started", "unheard", "over"}
         /\ \A i \in Streams : Live(stream[i]) =>
              i \in spilled \/ stream[i].at = "ping" \/ current = i \/ stream[i].due > 0
BY DEF Kept, Session, World

LEMMA ConnectionInUse ==
  ASSUME ConnectionInv, Kept(World)
  PROVE  /\ Typed(World) /\ World.ws = ws /\ World.sock = sock /\ World.disturbed = disturbed
         /\ World.stream = stream /\ World.current = current /\ World.spilled = spilled
         /\ World.told = told /\ Retrying(World) /\ Airs(World, ws)
         /\ sock \in [Sockets -> SocketRecords]
BY DEF Kept, World, ConnectionInv

\* open(), from the application or from a timer, finds a socket or has one.
LEMMA OpenedKept ==
  ASSUME ConnectionInv, Kept(World), NEW s, Typed(s), Retrying(s), SameSession(World, s),
         s.disturbed = disturbed,
         \/ s.ws = ws /\ s.sock = sock
         \/ /\ ws = 0 /\ s.ws \in Sockets
            /\ s.sock[s.ws].state = "connecting" /\ sock[s.ws].state = "unused"
            /\ \A j \in Sockets \ {s.ws} : s.sock[j] = sock[j]
  PROVE  Kept(s)
<1>0. 0 \notin Sockets
  BY SocketAssumption DEF Sockets, SocketAssumption
<1>1. Session(s, spilled) /\ (Active(s) <=> Active(World)) /\ s.air = air /\ s.current = current
  BY SameSessionKeeps DEF Kept, SameSession, World
<1>2. Airs(World, ws) /\ Heard(World, ws) = air
  BY DEF Kept, Heard, World
<1>3. CASE s.ws = ws /\ s.sock = sock
  <2>1. (CanSend(s) <=> CanSend(World)) /\ (NoClosing(s) <=> NoClosing(World)) /\ Heard(s, ws) = air
    BY <1>1, <1>3 DEF CanSend, NoClosing, Heard, World
  <2>2. World.disturbed = s.disturbed /\ World.current = s.current
    BY <1>1 DEF World
  <2>3. Airs(s, ws)
    BY <1>1, <1>2, <2>1, <2>2 DEF Airs
  <2> QED BY <1>1, <2>3 DEF Kept
<1>4. CASE /\ ws = 0 /\ s.ws \in Sockets
           /\ s.sock[s.ws].state = "connecting" /\ sock[s.ws].state = "unused"
           /\ \A j \in Sockets \ {s.ws} : s.sock[j] = sock[j]
  <2>1. Heard(s, ws) = "idle" /\ ~CanSend(World)
    BY <1>0, <1>4 DEF Heard, CanSend, World
  <2>2. NoClosing(s) => NoClosing(World)
    BY <1>4 DEF NoClosing, World
  <2>3. World.disturbed = s.disturbed
    BY DEF World
  <2>4. ~(~s.disturbed /\ NoClosing(s) /\ Active(s))
    BY <1>1, <1>2, <2>1, <2>2, <2>3 DEF Airs
  <2>5. Airs(s, ws)
    BY <2>1, <2>4 DEF Airs
  <2> QED BY <1>1, <2>5 DEF Kept
<1> QED BY <1>3, <1>4

LEMMA ApplicationKeeps ==
  ASSUME ConnectionInv, SharingInv,
         AppOpens \/ AppCloses \/ AppStops \/ Pause \/ Unpause
  PROVE  SharingInv'
<1>0. Kept(World)
  BY WorldKept
<1>1. CASE AppOpens
  <2> DEFINE r == Open(World)
  <2>1. ws = 0 /\ FreeSockets(World) # {} /\ Become(r)
    BY <1>1 DEF AppOpens
  <2>2. Typed(r)
    BY <1>0, OpenTyped, ConnectionInUse
  <2>3. Retrying(r)
    BY <1>0, <2>1, OpenRetries, ConnectionInUse DEF Retrying
  <2>4. /\ r.disturbed = World.disturbed /\ SameSession(World, r)
        /\ World.ws = 0 => /\ r.ws \in Sockets /\ r.sock[r.ws].state = "connecting"
                           /\ World.sock[r.ws].state = "unused"
                           /\ \A j \in Sockets \ {r.ws} : r.sock[j] = World.sock[j]
    BY <1>0, <2>1, OpenDoes, ConnectionInUse
  <2> HIDE DEF r
  <2>5. Kept(r)
    BY <1>0, <2>1, <2>2, <2>3, <2>4, OpenedKept, ConnectionInUse
  <2> QED BY <2>1, <2>5, BecomeKeeps
<1>2. CASE AppCloses
  <2> DEFINE r == Close(World)
  <2>1. ws \in Sockets /\ Become(r)
    BY <1>0, <1>2, ConnectionInUse DEF AppCloses, Retrying
  <2>2. Typed(r)
    BY CloseOrderly, WorldOrderly DEF Orderly
  <2>3. /\ r.ws = 0 /\ SameSession(World, r) /\ r.sock[ws].state = "closing"
    BY <1>0, <2>1, CloseDoes, ConnectionInUse
  <2> HIDE DEF r
  <2>4. Retrying(r) /\ ~NoClosing(r)
    BY <2>1, <2>3 DEF Retrying, UnderWay, NoClosing
  <2>5. Kept(r)
    BY <1>0, <2>2, <2>3, <2>4, DownKept
  <2> QED BY <2>1, <2>5, BecomeKeeps
<1>3. CASE AppStops
  BY <1>0, <1>3, SessionStopKept, BecomeKeeps DEF AppStops
<1>4. CASE Pause
  <2> DEFINE r == [stream[current] EXCEPT !.rec = "paused"]
             t == [World EXCEPT !.stream = [World.stream EXCEPT ![current] = r]]
  <2>1. current # 0 /\ stream[current].rec = "recording"
        /\ Become([World EXCEPT !.stream[current].rec = "paused"])
    BY <1>4 DEF Pause
  <2>2. current \in Streams /\ stream[current] \in Recordings /\ Well(stream[current])
        /\ stream[current].at \in {"started", "unheard"} /\ current \notin spilled
    BY <1>0, <2>1, StreamsAre
  <2>3. [World EXCEPT !.stream[current].rec = "paused"] = t
    BY <2>2 DEF World
  <2>4. /\ r \in Recordings /\ Well(r) /\ r.at \in {"started", "unheard"}
        /\ r.at = stream[current].at /\ r.due = stream[current].due
    BY <2>2 DEF Recordings, Well
  <2> HIDE DEF r
  <2>5. r.due = 0 /\ r.at # "unheard" => Active(World)
    BY <2>1, <2>4 DEF Active, World
  <2>6. Kept(t)
    BY <1>0, <2>2, <2>4, <2>5, ChangeKept, ConnectionInUse
  <2> HIDE DEF t
  <2> QED BY <2>1, <2>3, <2>6, BecomeKeeps
<1>5. CASE Unpause
  <2> DEFINE r == [stream[current] EXCEPT !.rec = "recording"]
             t == [World EXCEPT !.stream = [World.stream EXCEPT ![current] = r]]
  <2>1. current # 0 /\ stream[current].rec = "paused"
        /\ Become([World EXCEPT !.stream[current].rec = "recording"])
    BY <1>5 DEF Unpause
  <2>2. current \in Streams /\ stream[current] \in Recordings /\ Well(stream[current])
        /\ stream[current].at \in {"started", "unheard"} /\ current \notin spilled
    BY <1>0, <2>1, StreamsAre
  <2>3. [World EXCEPT !.stream[current].rec = "recording"] = t
    BY <2>2 DEF World
  <2>4. /\ r \in Recordings /\ Well(r) /\ r.at \in {"started", "unheard"}
        /\ r.at = stream[current].at /\ r.due = stream[current].due
    BY <2>2 DEF Recordings, Well
  <2> HIDE DEF r
  <2>5. r.due = 0 /\ r.at # "unheard" => Active(World)
    BY <2>1, <2>4 DEF Active, World
  <2>6. Kept(t)
    BY <1>0, <2>2, <2>4, <2>5, ChangeKept, ConnectionInUse
  <2> HIDE DEF t
  <2> QED BY <2>1, <2>3, <2>6, BecomeKeeps
<1> QED BY <1>1, <1>2, <1>3, <1>4, <1>5

LEMMA StartKeeps ==
  ASSUME ConnectionInv, SharingInv, NEW i \in Streams,
         AppStarts(i) \/ Captures(i) \/ Denied(i) \/ PingExpires(i) \/ RecorderStops(i)
  PROVE  SharingInv'
<1>0. Kept(World) /\ World.stream = stream /\ World.current = current /\ World.spilled = spilled
  BY WorldKept DEF World
<1>1. 0 \notin Streams
  BY SharingAssumption DEF SharingAssumption
<1>2. stream[i] \in Recordings /\ Well(stream[i])
  BY <1>0, StreamsAre
<1>3. stream[i].at \in {"none", "prompt", "ping"} => current # i /\ i \notin spilled
  BY <1>0, <1>1, StreamsAre
<1>4. CASE AppStarts(i)
  <2> DEFINE r == [stream[i] EXCEPT !.at = "prompt"]
             t == [World EXCEPT !.stream = [World.stream EXCEPT ![i] = r]]
  <2>1. stream[i] = NoStream /\ Become([World EXCEPT !.stream[i].at = "prompt"])
    BY <1>4 DEF AppStarts
  <2>2. [World EXCEPT !.stream[i].at = "prompt"] = t
    BY DEF World
  <2>3. r \in Recordings /\ Well(r) /\ ~Live(r)
    <3>1. r = [NoStream EXCEPT !.at = "prompt"]
      BY <2>1
    <3> HIDE DEF r
    <3>2. r = [at |-> "prompt", rec |-> "none", original |-> FALSE, clone |-> "none", due |-> 0]
      BY <3>1 DEF NoStream
    <3>3. r.at = "prompt" /\ r.due = 0 /\ ~Live(r) /\ r \in Recordings
      BY <3>2 DEF Live, Recordings
    <3> QED BY <3>1, <3>3 DEF Well
  <2>4. stream[i].at = "none"
    BY <2>1 DEF NoStream
  <2> HIDE DEF r
  <2>5. Kept(t)
    BY <1>0, <1>3, <2>3, <2>4, ChangeKept
  <2> HIDE DEF t
  <2> QED BY <2>1, <2>2, <2>5, BecomeKeeps
<1>5. CASE Captures(i)
  <2> DEFINE got  == [World EXCEPT !.stream[i].original = TRUE]
             r(x) == [stream[i] EXCEPT !.original = TRUE, !.at = x]
             t(x) == [World EXCEPT !.stream = [World.stream EXCEPT ![i] = r(x)]]
  <2>1. /\ stream[i].at = "prompt"
        /\ \/ Become([got EXCEPT !.stream[i].at = "ping"])
           \/ Become(Spill([got EXCEPT !.stream[i].at = "over"], {i}))
           \/ Become([Started(got, i) EXCEPT !.stream[i].at =
                         IF CanSend(World) THEN "started" ELSE "unheard"])
    BY <1>5 DEF Captures
  <2>2. ASSUME NEW x PROVE [got EXCEPT !.stream[i].at = x] = t(x)
    <3>1. stream \in [Streams -> Recordings]
      BY <1>0, StreamsAre
    <3> QED BY ZenonT(60), <1>2, <3>1 DEF World, Recordings
  <2>3. /\ stream[i].rec = "none" /\ stream[i].clone = "none" /\ stream[i].due = 0
    <3>1. stream[i] = [NoStream EXCEPT !.at = "prompt"]
      BY <1>2, <2>1 DEF Well
    <3> QED BY <3>1 DEF NoStream
  <2>4. ASSUME NEW x \in {"ping", "over"}
        PROVE  r(x) \in Recordings /\ Well(r(x)) /\ r(x).at = x
    <3>1. /\ r(x) \in Recordings /\ r(x).at = x
          /\ r(x).rec = "none" /\ r(x).clone = "none" /\ r(x).due = 0
      BY <1>2, <2>3 DEF Recordings
    <3> HIDE DEF r
    <3> QED BY <3>1 DEF Well
  <2>5. /\ r("ping") \in Recordings /\ Well(r("ping")) /\ r("ping").at = "ping"
        /\ r("over") \in Recordings /\ Well(r("over")) /\ r("over").at = "over"
    BY <2>4
  <2>6. Kept(t("ping"))
    <3> HIDE DEF r
    <3> QED BY <1>0, <1>3, <2>1, <2>5, ChangeKept
  <2>7. Kept(Spill(t("over"), {i}))
    <3> HIDE DEF r
    <3> QED BY <1>0, <2>1, <2>5, OverKept
  <2> DEFINE p == t("ping")
  <2>8. /\ p.stream[i] = r("ping") /\ p.ws = ws /\ p.stream \in [Streams -> Recordings]
        /\ CanSend(p) <=> CanSend(World)
    <3>1. stream \in [Streams -> Recordings]
      BY <1>0, StreamsAre
    <3>2. p.stream = [stream EXCEPT ![i] = r("ping")] /\ p.ws = ws /\ p.sock = sock
      BY DEF World
    <3> QED BY <2>5, <3>1, <3>2 DEF CanSend, World
  <2>9. r("ping").at = "ping" /\ r("ping").original /\ r("ping").rec = "none"
    BY <1>2, <2>3 DEF Recordings
  <2>10. got = [p EXCEPT !.stream = [p.stream EXCEPT ![i] = [p.stream[i] EXCEPT !.at = "prompt"]]]
    <3>1. [r("ping") EXCEPT !.at = "prompt"] = [stream[i] EXCEPT !.original = TRUE]
      BY <1>2, <2>1 DEF Recordings
    <3>2. got = [World EXCEPT !.stream =
                   [stream EXCEPT ![i] = [stream[i] EXCEPT !.original = TRUE]]]
      BY DEF World
    <3>3. /\ p = [World EXCEPT !.stream = [stream EXCEPT ![i] = r("ping")]]
          /\ p.stream = [stream EXCEPT ![i] = r("ping")]
      BY DEF World
    <3> HIDE DEF r, p, got
    <3> QED BY <2>8, <3>1, <3>2, <3>3 DEF World
  <2>11. Kept(p)
    BY <2>6
  <2> HIDE DEF r, got, p
  <2>12. Started(got, i) = Started(p, i)
    <3>1. p.stream[i].original /\ p.stream[i].rec = "none"
      BY <2>8, <2>9
    <3>2. Typed(p)
      BY <2>11 DEF Kept
    <3>3. LET g == [p EXCEPT !.stream =
                      [p.stream EXCEPT ![i] = [p.stream[i] EXCEPT !.at = "prompt"]]]
          IN  Started(g, i) = Started(p, i)
      BY <2>8, <3>1, <3>2, StartedFromPrompt
    <3> QED BY <2>10, <3>3
  <2>13. Kept([Started(p, i) EXCEPT !.stream[i].at = IF CanSend(p) THEN "started" ELSE "unheard"])
    BY <2>8, <2>9, <2>11, UnheardKept
  <2> HIDE DEF t
  <2> QED BY <2>1, <2>2, <2>6, <2>7, <2>8, <2>12, <2>13, BecomeKeeps
<1>6. CASE Denied(i)
  <2> DEFINE t == [World EXCEPT !.stream = [World.stream EXCEPT ![i] = NoStream]]
  <2>1. stream[i].at = "prompt" /\ Become([World EXCEPT !.stream[i] = NoStream])
    BY <1>6 DEF Denied
  <2>2. [World EXCEPT !.stream[i] = NoStream] = t
    BY DEF World
  <2>3. NoStream \in Recordings /\ Well(NoStream) /\ ~Live(NoStream)
    BY DEF Recordings, Well, NoStream, Live
  <2>4. Kept(t)
    BY <1>0, <1>3, <2>1, <2>3, ChangeKept
  <2> HIDE DEF t
  <2> QED BY <2>1, <2>2, <2>4, BecomeKeeps
<1>7. CASE PingExpires(i)
  <2> DEFINE r == [stream[i] EXCEPT !.at = "over"]
             t == [World EXCEPT !.stream = [World.stream EXCEPT ![i] = r]]
  <2>1. stream[i].at = "ping" /\ Become(Spill([World EXCEPT !.stream[i].at = "over"], {i}))
    BY <1>7 DEF PingExpires
  <2>2. [World EXCEPT !.stream[i].at = "over"] = t
    BY DEF World
  <2>3. r \in Recordings /\ Well(r) /\ r.at = "over"
    BY <1>2, <2>1 DEF Recordings, Well
  <2> HIDE DEF r
  <2>4. Kept(Spill(t, {i}))
    BY <1>0, <2>1, <2>3, OverKept
  <2> HIDE DEF t
  <2> QED BY <2>1, <2>2, <2>4, BecomeKeeps
<1>8. CASE RecorderStops(i)
  <2>1. Kept(Stopped(World, i)) /\ Become(Stopped(World, i))
    BY <1>0, <1>8, StoppedKept DEF RecorderStops
  <2> QED BY <2>1, BecomeKeeps
<1> QED BY <1>4, <1>5, <1>6, <1>7, <1>8

\* The end of a capture stops the session's stream unless nothing listens yet.
LEMMA CaptureEndsKeeps ==
  ASSUME ConnectionInv, SharingInv, NEW i \in Streams, NEW b \in BOOLEAN, CaptureEnds(i, b)
  PROVE  SharingInv'
<1>0. Kept(World) /\ World.stream = stream /\ World.current = current /\ World.spilled = spilled
  BY WorldKept DEF World
<1>1. 0 \notin Streams
  BY SharingAssumption DEF SharingAssumption
<1> DEFINE old == stream[i]
           gone == IF old.clone = "live" THEN "dead" ELSE old.clone
           rec1 == IF b /\ old.rec # "none" THEN "inactive" ELSE old.rec
           r == [old EXCEPT !.original = FALSE, !.clone = gone, !.rec = rec1]
           t == [World EXCEPT !.stream = [World.stream EXCEPT ![i] = r]]
<1>2. Live(old)
  BY DEF CaptureEnds
<1>3. Become(SessionStop(t)) \/ (Become(t) /\ (old.at = "ping" \/ old.rec = "none"))
  <2>1. [World EXCEPT !.stream[i] =
           [old EXCEPT !.original = FALSE, !.clone = IF @ = "live" THEN "dead" ELSE @,
                       !.rec = IF b /\ @ # "none" THEN "inactive" ELSE @]] = t
    BY DEF World
  <2> QED BY <2>1 DEF CaptureEnds
<1>4. old \in Recordings /\ Well(old) /\ (current = i => old.at \in {"started", "unheard"})
      /\ (i \in spilled => old.at \in {"started", "unheard", "over"})
  BY <1>0, <1>1, StreamsAre
<1>5. /\ r \in Recordings /\ ~Live(r) /\ r.at = old.at /\ r.due = old.due
      /\ r.rec = rec1 /\ r.clone = gone /\ ~r.original
  BY <1>4 DEF Recordings, Live
<1>6. old.at \notin {"none", "prompt"}
  BY <1>2, <1>4 DEF Well, NoStream, Live
<1>7. (gone = "none" <=> old.clone = "none") /\ (rec1 = "none" <=> old.rec = "none")
  OBVIOUS
<1> HIDE DEF r, gone, rec1
<1>8. Well(r)
  BY <1>4, <1>5, <1>6, <1>7 DEF Well
<1>9. r.rec # "inactive" => old.rec # "inactive"
  BY <1>5 DEF rec1
<1>10. Kept(t)
  <2>1. /\ current = i => r.at \in {"started", "unheard"}
        /\ current = i /\ r.due = 0 /\ r.rec # "inactive" /\ r.at # "unheard" => Active(World)
    BY <1>0, <1>1, <1>4, <1>5, <1>9 DEF Active
  <2> QED BY <1>0, <1>4, <1>5, <1>8, <2>1, ChangeKept
<1> HIDE DEF t
<1> QED BY <1>3, <1>10, SessionStopKept, BecomeKeeps

LEMMA SocketKeeps ==
  ASSUME ConnectionInv, SharingInv, NEW i \in Sockets, NEW b \in BOOLEAN,
         SocketOpens(i) \/ OpenTimesOut(i) \/ SocketFails(i, b) \/ SocketCloses(i, b)
  PROVE  SharingInv'
<1>0. Kept(World) /\ Orderly(World)
  BY WorldKept, WorldOrderly
<1>1. 0 \notin Sockets
  BY SocketAssumption DEF Sockets, SocketAssumption
<1>2. CASE SocketOpens(i)
  <2> DEFINE r == HearOpen(World, i)
  <2>1. sock[i].state = "connecting" /\ Become(r)
    BY <1>2 DEF SocketOpens
  <2>2. Typed(r)
    BY <1>0, <2>1, HearOpenOrderly, ConnectionInUse DEF Orderly
  <2>3. /\ r.ws = ws /\ r.told = "open" /\ r.disturbed = disturbed
        /\ SameSession(World, r) /\ r.sock[i].state = "open"
        /\ \A j \in Sockets \ {i} : r.sock[j] = sock[j]
    BY <1>0, HearOpenDoes, ConnectionInUse
  <2> HIDE DEF r
  <2>4. Session(r, spilled) /\ (Active(r) <=> Active(World))
    BY <1>0, <2>3, SameSessionKeeps DEF Kept
  <2>5. Retrying(r)
    BY <1>0, <2>3, ConnectionInUse DEF Retrying
  <2>6. Heard(r, ws) = Heard(World, ws) /\ r.current = World.current
    BY <2>3 DEF Heard, World, SameSession
  <2>7. (CanSend(World) => CanSend(r)) /\ (NoClosing(r) => NoClosing(World))
    <3>1. CanSend(World) => CanSend(r)
      BY <1>0, <2>1, <2>3, ConnectionInUse DEF CanSend, Retrying
    <3>2. NoClosing(r) => NoClosing(World)
      BY <2>1, <2>3 DEF NoClosing, World
    <3> QED BY <3>1, <3>2
  <2>8. Airs(r, ws)
    <3>1. Airs(World, ws) /\ World.disturbed = r.disturbed
      BY <1>0, <2>3, ConnectionInUse
    <3> QED BY <2>4, <2>6, <2>7, <3>1 DEF Airs
  <2>9. Kept(r)
    BY <2>2, <2>4, <2>5, <2>8 DEF Kept
  <2> QED BY <2>1, <2>9, BecomeKeeps
<1>3. CASE OpenTimesOut(i)
  <2> DEFINE r == OpenExpires(World, i)
  <2>1. Become(r)
    BY <1>3 DEF OpenTimesOut
  <2>2. Typed(r)
    BY <1>0, OpenExpiresOrderly DEF Orderly
  <2>3. /\ r.ws = 0 /\ r.disturbed = (disturbed \/ ws # 0)
        /\ r.told = World.told /\ r.timer = World.timer
        /\ SameSession(World, r) /\ SameBusy(World, r, {})
    BY <1>0, OpenExpiresDoes, ConnectionInUse
  <2> HIDE DEF r
  <2>4. /\ \A j \in Sockets : r.sock[j].state = "connecting" <=> World.sock[j].state = "connecting"
        /\ \A j \in Sockets : r.sock[j].state = "closing" <=> World.sock[j].state = "closing"
    BY <2>3 DEF SameBusy, BusyStates
  <2>5. Retrying(r)
    BY <1>0, <2>3, <2>4 DEF Kept, Retrying, UnderWay
  <2>6. r.disturbed \/ ~NoClosing(r) \/ ~Active(r)
    <3> SUFFICES ASSUME ~r.disturbed, NoClosing(r), Active(r) PROVE FALSE
      OBVIOUS
    <3>1. ~disturbed /\ ws = 0 /\ NoClosing(World)
      BY <2>3, <2>4 DEF NoClosing
    <3>2. Active(World)
      BY <2>3 DEF Active, SameSession
    <3>3. CanSend(World)
      BY <1>0, <3>1, <3>2, ConnectionInUse DEF Airs
    <3> QED BY <3>1, <3>3 DEF CanSend, World
  <2>7. Kept(r)
    BY <1>0, <2>2, <2>3, <2>5, <2>6, DownKept
  <2> QED BY <2>1, <2>7, BecomeKeeps
<1>4. CASE SocketFails(i, b)
  <2> DEFINE h == HearFailure(World, i, b)
             r == SessionStop(h)
  <2>1. sock[i].state = "connecting" /\ (b => FreeSockets(World) # {}) /\ Become(r)
    BY <1>4 DEF SocketFails
  <2>2. Typed(h)
    BY <1>0, <2>1, HearFailureOrderly, ConnectionInUse DEF Orderly
  <2>3. h.ws = 0 /\ SameSession(World, h) /\ Retrying(h)
    BY <1>0, <2>1, HearFailureDoes, ConnectionInUse
  <2> HIDE DEF h
  <2>4. Kept(r)
    BY <1>0, <2>2, <2>3, StopDown
  <2> QED BY <2>1, <2>4, BecomeKeeps DEF h
<1>5. CASE SocketCloses(i, b)
  <2> DEFINE h == HearClose(World, i, b)
             r == SessionStop(h)
  <2>1. Become(r)
    BY <1>5 DEF SocketCloses
  <2>2. OneBut(World, i)
    BY <1>0 DEF Orderly, One, OneBut
  <2>3. Typed(h)
    BY <1>0, <2>2, HearCloseOrderly DEF Orderly
  <2>4. h.ws = 0 /\ SameSession(World, h) /\ Retrying(h)
    BY <1>0, HearCloseDoes DEF Orderly
  <2> HIDE DEF h
  <2>5. Kept(r)
    BY <1>0, <2>3, <2>4, StopDown
  <2> QED BY <2>1, <2>5, BecomeKeeps DEF h
<1> QED BY <1>2, <1>3, <1>4, <1>5

LEMMA ServiceKeeps ==
  ASSUME ConnectionInv, SharingInv, NEW i \in Sockets,
         HeartbeatResponse(i) \/ StreamStopMessage(i) \/ KeyRequest(i)
  PROVE  SharingInv'
<1>0. Kept(World) /\ World.stream = stream /\ World.current = current /\ World.spilled = spilled
      /\ World.ws = ws
  BY WorldKept DEF World
<1>1. CASE HeartbeatResponse(i)
  <2>1. sock[i].state \in {"open", "closing"}
    BY <1>1 DEF HeartbeatResponse
  <2>2. CanSend(World) \/ World.disturbed \/ ~NoClosing(World)
    <3> SUFFICES ASSUME ~disturbed, \A j \in Sockets : sock[j].state # "closing"
                 PROVE  CanSend(World)
      BY DEF World, NoClosing
    <3>1. sock[i].state = "open"
      BY <2>1
    <3>2. i = ws
      BY <3>1 DEF ConnectionInv, OneConnection
    <3>3. 0 \notin Sockets
      BY SocketAssumption DEF Sockets, SocketAssumption
    <3> QED BY <3>1, <3>2, <3>3 DEF CanSend, World
  <2>3. PICK k \in Streams, l \in Streams :
          /\ stream[k].at = "ping" /\ stream[l].at = "ping"
          /\ \/ Become(Started(World, k))
             \/ l # k /\ Become(Started(Started(World, k), l))
    BY <1>1 DEF HeartbeatResponse
  <2> DEFINE r == Started(World, k)
  <2>4. /\ Kept(r) /\ SameSocket(World, r)
        /\ \A j \in Streams \ {k} : r.stream[j] = stream[j]
    BY <1>0, <2>2, <2>3, StartedKept
  <2>5. CASE Become(r)
    BY <2>4, <2>5, BecomeKeeps
  <2>6. CASE l # k /\ Become(Started(r, l))
    <3> HIDE DEF r
    <3>1. r.ws = World.ws /\ r.sock = World.sock /\ r.disturbed = World.disturbed
          /\ r.stream[l].at = "ping"
      BY <2>3, <2>4, <2>6 DEF SameSocket, SameConnection
    <3>2. CanSend(r) \/ r.disturbed \/ ~NoClosing(r)
      BY <2>2, <3>1 DEF CanSend, NoClosing
    <3>3. Kept(Started(r, l))
      BY <1>0, <2>4, <3>1, <3>2, StartedKept
    <3> QED BY <2>6, <3>3, BecomeKeeps
  <2> QED BY <2>3, <2>5, <2>6
<1>2. CASE StreamStopMessage(i)
  BY <1>0, <1>2, SessionStopKept, BecomeKeeps DEF StreamStopMessage
<1>3. CASE KeyRequest(i)
  <2> DEFINE r == Key(stream[current])
             t == [World EXCEPT !.stream = [World.stream EXCEPT ![current] = r]]
  <2>1. current # 0 /\ Become([World EXCEPT !.stream[current] = Key(@)])
    BY <1>3 DEF KeyRequest
  <2>2. current \in Streams /\ stream[current] \in Recordings /\ Well(stream[current])
        /\ stream[current].at \in {"started", "unheard"} /\ current \notin spilled
    BY <1>0, <2>1, StreamsAre
  <2>3. [World EXCEPT !.stream[current] = Key(@)] = t
    BY DEF World
  <2>4. /\ r \in Recordings /\ Well(r) /\ r.at \in {"started", "unheard"}
        /\ r.at = stream[current].at /\ r.due = stream[current].due
        /\ (r.due = 0 /\ r.rec # "inactive" => stream[current].rec # "inactive")
    BY <2>2, KeyDoes
  <2> HIDE DEF r
  <2>5. r.due = 0 /\ r.rec # "inactive" /\ r.at # "unheard" => Active(World)
    BY <1>0, <2>1, <2>4 DEF Active
  <2>6. Kept(t)
    BY <1>0, <2>2, <2>4, <2>5, ChangeKept
  <2> HIDE DEF t
  <2> QED BY <2>1, <2>3, <2>6, BecomeKeeps
<1> QED BY <1>1, <1>2, <1>3

-----------------------------------------------------------------------------
(* The invariant of the session and its connection, and what follows.        *)

LEMMA StepKeeps == ConnectionInv /\ SharingInv /\ [Next]_vars => SharingInv'
<1> SUFFICES ASSUME ConnectionInv, SharingInv, [Next]_vars PROVE SharingInv'
  OBVIOUS
<1>1. CASE AppOpens \/ AppCloses \/ AppStops \/ Pause \/ Unpause
  BY <1>1, ApplicationKeeps
<1>2. CASE TimerFires \/ StrayFires
  <2>0. Kept(World)
    BY WorldKept
  <2>1. PICK r \in {FireTimer(World), FireStray(World)} :
          Become(r) /\ (ws = 0 => FreeSockets(World) # {})
    BY <1>2 DEF TimerFires, StrayFires
  <2>2. Typed(r)
    BY <2>1, TimersOrderly, WorldOrderly DEF Orderly
  <2>3. /\ Retrying(r) /\ r.disturbed = World.disturbed /\ SameSession(World, r)
        /\ \/ r.ws = World.ws /\ r.sock = World.sock
           \/ /\ World.ws = 0 /\ r.ws \in Sockets
              /\ r.sock[r.ws].state = "connecting" /\ World.sock[r.ws].state = "unused"
              /\ \A j \in Sockets \ {r.ws} : r.sock[j] = World.sock[j]
    BY <2>0, <2>1, TimersDo, ConnectionInUse
  <2>4. Kept(r)
    BY <2>0, <2>2, <2>3, OpenedKept, ConnectionInUse
  <2> QED BY <2>1, <2>4, BecomeKeeps
<1>3. ASSUME NEW i \in Streams,
             \/ AppStarts(i) \/ Captures(i) \/ Denied(i) \/ PingExpires(i) \/ RecorderStops(i)
             \/ \E b \in BOOLEAN : CaptureEnds(i, b)
      PROVE  SharingInv'
  BY <1>3, StartKeeps, CaptureEndsKeeps
<1>4. ASSUME NEW i \in Sockets,
             \/ SocketOpens(i) \/ OpenTimesOut(i)
             \/ \E b \in BOOLEAN : SocketFails(i, b) \/ SocketCloses(i, b)
      PROVE  SharingInv'
  BY <1>4, SocketKeeps
<1>5. ASSUME NEW i \in Sockets, HeartbeatResponse(i) \/ StreamStopMessage(i) \/ KeyRequest(i)
      PROVE  SharingInv'
  BY <1>5, ServiceKeeps
<1>6. CASE UNCHANGED vars
  <2>1. World' = World /\ ws' = ws /\ spilled' = spilled
    BY <1>6 DEF vars, World
  <2> QED BY <2>1 DEF SharingInv, Retrying, UnderWay, Session, Airs, Heard, CanSend, NoClosing,
                      Active, Well, Live
<1> QED BY <1>1, <1>2, <1>3, <1>4, <1>5, <1>6 DEF Next

LEMMA InitShares == Init => SharingInv
<1> SUFFICES ASSUME Init PROVE SharingInv
  OBVIOUS
<1>1. ws = 0 /\ told = "closed" /\ current = 0 /\ air = "idle" /\ spilled = {}
      /\ stream = [i \in Streams |-> NoStream]
  BY DEF Init
<1>2. NoStream \in Recordings /\ Well(NoStream) /\ ~Live(NoStream)
  BY DEF NoStream, Recordings, Well, Live
<1>3. Retrying(World)
  BY <1>1 DEF Retrying, World
<1>4. Session(World, spilled)
  BY <1>1, <1>2 DEF Session, World
<1>5. Airs(World, ws)
  BY <1>1 DEF Airs, Heard, Active, World
<1> QED BY <1>3, <1>4, <1>5 DEF SharingInv

LEMMA SharingIsKept == Spec => [](ConnectionInv /\ SharingInv)
BY ConnectionIsKept, InitShares, StepKeeps, PTL DEF Spec

\* Captures are not lost: a live display capture belongs to a start() under way,
\* to the session's stream or to a stop() that waits, unless it was let go of at
\* one of the places that ScreenSharing names, however many calls of start() and
\* stop(), key frames, failures and answers to a ping overlap
\* (DefaultScreenSharingSession, WebMMediaRecording).
THEOREM CapturesAreHeld == Spec => []CaptureIsHeld
<1>1. SharingInv => CaptureIsHeld
  BY DEF SharingInv, Session, World, CaptureIsHeld
<1> QED BY <1>1, SharingIsKept, PTL

\* The service follows the session: on an undisturbed connection it hears of a
\* stream that the session has, and of the session's stream until it is stopped;
\* the listeners of the socket stop the stream before another connection could
\* carry it unannounced (DefaultScreenSharingSession, ScreenShareStream). The
\* exception is a stream that start() began without a ping (timeoutMs 0) while no
\* connection was open, which no later connection announces.
THEOREM ServiceIsInStep == Spec => []ServiceFollows
<1>1. SharingInv => ServiceFollows
  <2> SUFFICES ASSUME SharingInv, CanSend(World), ~disturbed, air # "misled",
                      \A i \in Sockets : sock[i].state # "closing"
               PROVE  /\ air = "sharing" => current # 0
                      /\ current # 0 /\ stream[current].due = 0
                           /\ stream[current].rec # "inactive" /\ stream[current].at # "unheard"
                           => air = "sharing"
    BY DEF ServiceFollows
  <2>1. /\ Airs(World, ws) /\ Heard(World, ws) = air /\ NoClosing(World)
        /\ World.disturbed = disturbed /\ World.current = current /\ World.stream = stream
    BY DEF SharingInv, Heard, NoClosing, World
  <2> QED BY <2>1 DEF Airs, Active
<1> QED BY <1>1, SharingIsKept, PTL

\* Retries are not forgotten: an application that was told that the connection
\* is being retried waits for a timer of the backoff or for a socket that opens,
\* fails or closes, also after close() and a time-out of open() have come in
\* between (ReconnectingPromisedWebSocket).
THEOREM RetriesAreUnderWay == Spec => []RetryIsUnderWay
<1>1. SharingInv => RetryIsUnderWay
  BY DEF SharingInv, Retrying, UnderWay, World, RetryIsUnderWay
<1> QED BY <1>1, SharingIsKept, PTL

=============================================================================
