----------------------- MODULE DeviceController_proofs -----------------------
(***************************************************************************)
(* Theorems about DeviceController, for every set of devices, of streams and *)
(* of calls and every load.                                                 *)
(* A turn is a composition of operators on the record w of all fields, so   *)
(* there is a lemma for each operator: what it keeps of the invariant, which *)
(* streams are excused from having a holder until the turn goes on, and what *)
(* it repairs after a stream has been dropped.  The actions follow, one      *)
(* lemma for each, and the theorems.                                        *)
(***************************************************************************)
EXTENDS DeviceController, TLAPS

Ids     == Streams \cup {0}
Numbers == Calls \cup {0}
Fields  == {"active", "stream", "call", "preview", "source", "sess", "job", "slot", "tile",
            "using", "refused"}

Typed(w) ==
  /\ w = [f \in Fields |-> w[f]]
  /\ w.active \in [Kinds -> [stream : Ids, device : Microphones \cup Cameras \cup {NoDevice}]]
  /\ w.stream \in [Streams -> {"free", "live", "dead", "missed", "spilled"}]
  /\ w.call \in [Numbers -> [at : {"idle", "prompt", "change"}, kind : Kinds,
                             device : Microphones \cup Cameras \cup {NoDevice},
                             stream : Ids, overruled : BOOLEAN]]
  /\ w.preview \in Ids /\ w.source \in Ids
  /\ w.job \in [kind : {"none", "start", "join", "update", "restartStop", "restartStart"},
                receiving : BOOLEAN, old : Ids]
  /\ w.slot \in [kind : {"none", "update", "restart", "stop"}, old : Ids]
  /\ w.tile \in BOOLEAN
  /\ w.using \in [Kinds -> Ids \cup {Mix}] /\ w.using.video # Mix
  /\ w.refused \in BOOLEAN

\* Holders, but for the calls.
Others(w) == {w.active.audio.stream, w.active.video.stream, w.using.audio, w.using.video,
              w.preview, w.job.old, w.slot.old}

\* A live stream has a holder, except those of X; what is free has none.  The
\* stream of a call is live, and its alone.
Held(w, X)  == \A s \in Streams \ X : w.stream[s] = "live" =>
                 s \in Others(w) \/ \E c \in Numbers : w.call[c].stream = s
Taken(w)    == \A s \in Streams : w.stream[s] = "free" =>
                 s \notin Others(w) \cup {w.source} /\ \A c \in Numbers : w.call[c].stream # s
Fresh(w) ==
  \A c \in Numbers : w.call[c].stream # 0 =>
    /\ w.call[c].at = "change" /\ w.stream[w.call[c].stream] \in {"live", "missed"}
    /\ w.call[c].stream \notin Others(w) \cup {w.source}
    /\ \A d \in Numbers \ {c} : w.call[d].stream # w.call[c].stream
\* A camera's stream is no microphone's.
Apart(w) ==
  w.active.video.stream # 0 => w.active.video.stream \notin {w.active.audio.stream, w.source}
\* The tasks of the session, its deferred action and the call that it waits for.
Control(w) ==
  /\ w.job.kind = "none" => w.job = NoJob
  /\ w.slot.old # 0 => w.slot.kind = "restart"
  /\ w.slot.kind # "none" => Busy(w)
  /\ w.call[0].at # "idle" => w.job.receiving
  /\ w.source # 0 => web
  /\ w.sess = "start" => w.job.kind \in {"start", "join"} /\ w.job.old = 0
  /\ \A c \in Numbers : w.call[c].at = "change" => w.call[c].stream # 0
Good(w, X) == Typed(w) /\ Held(w, X) /\ Taken(w) /\ Fresh(w) /\ Apart(w) /\ Control(w)

\* A selected stream is not known to have ended, except s.
Alive(w, s) ==
  /\ w.active.video.stream \in Streams \ {s} =>
       w.stream[w.active.video.stream] \in {"live", "missed"}
  /\ w.active.audio.stream \in Streams \ {s} =>
       \/ w.stream[w.active.audio.stream] \in {"live", "missed"}
       \/ web /\ w.active.audio.stream = w.source
\* A live microphone that the session uses is selected, unless it is s.
Echo(w, s) == IsLive(w, w.using.audio) => w.using.audio \in {s, w.active.audio.stream}
\* The session sends the selected microphone, if there is one.
Tuned(w) == IF web THEN w.active.audio.stream \in {0, w.source}
            ELSE w.refused \/ w.active.audio.stream \in {0, w.using.audio}
Heard(w, s) == Echo(w, s) /\ Tuned(w)
\* Unless an action is deferred, the local tile is started.
Lit(w) == w.sess \in {"start", "up"} /\ w.slot.kind = "none" => w.tile
\* Unless an action is deferred, the session waits for a camera, with the local
\* tile started, or sends the selected camera or none, and none without the tile.
Shown(w) ==
  w.sess \in {"start", "up"} /\ w.slot.kind = "none" =>
    IF w.call[0].at # "idle" /\ w.call[0].kind = "video" THEN w.tile
    ELSE /\ w.using.video \in {0, w.active.video.stream}
         /\ ~w.tile => w.using.video = 0
\* No camera is selected, and none will be that has not been asked for since.
Off(w) ==
  /\ w.active.video.stream = 0
  /\ \A c \in Numbers : w.call[c].at # "idle" /\ w.call[c].kind = "video" => w.call[c].overruled

\* From w to v.
Keeps(w, v) ==
  /\ (Alive(w, 0) => Alive(v, 0)) /\ (Off(w) => Off(v))
  /\ (Echo(w, 0) => Echo(v, 0)) /\ (Tuned(w) => Tuned(v))
Shows(w, v) == Shown(w) => Shown(v)
Repairs(w, v, s) == (Alive(w, s) => Alive(v, 0)) /\ (Echo(w, s) => Echo(v, 0))
\* No stream begins.
Fewer(w, v) == \A t \in Streams : v.stream[t] = "live" => w.stream[t] = "live"
\* s has been stopped, and is no longer selected.
Ended(w, v, s) ==
  /\ s \in Streams => v.stream[s] = "dead"
  /\ \A t \in Streams \ {s} : v.stream[t] = w.stream[t]
Deselected(w, v, s) ==
  \A k \in Kinds : /\ w.active[k].stream = s => v.active[k].stream = 0
                   /\ w.active[k].stream # s => v.active[k] = w.active[k]

\* The calls of the application go on.
CallsStay(w, v) == \A c \in Calls : v.call[c] = w.call[c]

\* The holders, named one by one.
LEMMA HoldersAre ==
  ASSUME NEW w, Typed(w)
  PROVE  \A s : s \in Holders(w) <=> s \in Others(w) \/ \E c \in Numbers : w.call[c].stream = s
<1>1. DOMAIN w.call = Numbers
  BY DEF Typed
<1>2. \A s : s \in {w.active[k].stream : k \in Kinds} <=>
             s \in {w.active.audio.stream, w.active.video.stream}
  BY DEF Kinds
<1>3. \A s : s \in {w.using[k] : k \in Kinds} <=> s \in {w.using.audio, w.using.video}
  BY DEF Kinds
<1> QED BY <1>1, <1>2, <1>3 DEF Holders, Others

\* v differs from w in the fields of F only.
Differ(w, v, F) == \A f \in Fields \ F : v[f] = w[f]

\* A stream that nobody is about to be given, or none.
Settled(w, s) ==
  s = 0 \/ (s \in Streams /\ w.stream[s] # "free" /\ \A c \in Numbers : w.call[c].stream # s)

\* What has a holder is not free, and no call's.
LEMMA OthersAreSettled ==
  ASSUME NEW w, NEW X, Good(w, X), NEW s \in Ids, s \in Others(w) \cup {w.source}
  PROVE  Settled(w, s)
BY DEF Good, Taken, Fresh, Settled, Ids

\* Whatever gives back a stream, or ends one that is settled, leaves what is fresh.
LEMMA FreshStays ==
  ASSUME NEW w, NEW v, NEW s, Typed(w), Fresh(w), v.call = w.call,
         \A c \in Numbers : w.call[c].stream # 0 => w.call[c].stream # s,
         \A t \in Streams : t # s => v.stream[t] = w.stream[t],
         \A t : t \in Others(v) \cup {v.source} => t = 0 \/ t \in Others(w) \cup {w.source}
  PROVE  Fresh(v)
<1>1. \A c \in Numbers : w.call[c].stream \in Ids
  BY DEF Typed
<1> SUFFICES ASSUME NEW c \in Numbers, w.call[c].stream # 0
             PROVE  /\ v.stream[w.call[c].stream] = w.stream[w.call[c].stream]
                    /\ w.call[c].stream \notin Others(v) \cup {v.source}
  BY DEF Fresh
<1> QED BY <1>1 DEF Fresh, Ids

\* The last reference to s is gone: nothing is lost but s, which is excused.
LEMMA SpillDoes ==
  ASSUME NEW w, NEW s, NEW X, Good(w, X)
  PROVE  LET v == Spill(w, s)
         IN  /\ Good(v, X \ {s}) /\ Differ(w, v, {"stream"})
             /\ \A t \in Streams : v.stream[t] = w.stream[t] \/ v.stream[t] = "spilled"
             /\ \A t \in Streams \cap Others(w) : v.stream[t] = w.stream[t]
             /\ Keeps(w, v) /\ Shows(w, v)
<1> DEFINE v == Spill(w, s)
           u == [w EXCEPT !.stream[s] = "spilled"]
<1>0. Typed(w)
  BY DEF Good
<1>1. CASE IsLive(w, s) /\ s \notin Holders(w)
  <2>1. v = u /\ s \in Streams
    BY <1>1 DEF Spill, IsLive
  <2>2. /\ Typed(u) /\ u.active = w.active /\ u.call = w.call /\ u.preview = w.preview
        /\ u.source = w.source /\ u.sess = w.sess /\ u.job = w.job /\ u.slot = w.slot
        /\ u.tile = w.tile /\ u.using = w.using /\ u.refused = w.refused
        /\ u.stream[s] = "spilled" /\ \A t \in Streams \ {s} : u.stream[t] = w.stream[t]
    BY <1>0, <2>1 DEF Typed, Fields
  <2>3. s \notin Others(w) /\ \A c \in Numbers : w.call[c].stream # s
    BY <1>0, <1>1, HoldersAre
  <2> HIDE DEF u, v
  <2>4. Others(u) = Others(w)
    BY <2>2 DEF Others
  <2>5. Held(u, X \ {s})
    BY <2>2, <2>4 DEF Good, Held
  <2>6. Taken(u)
    BY <2>2, <2>3, <2>4 DEF Good, Taken
  <2>7. Fresh(u)
    BY <1>0, <2>2, <2>3, <2>4, FreshStays DEF Good
  <2>8. Apart(u) /\ Control(u)
    BY <2>2 DEF Good, Apart, Control, Busy
  <2>9. \A t \in Streams : u.stream[t] = w.stream[t] \/ u.stream[t] = "spilled"
    BY <2>2
  <2>10. Keeps(w, u)
    BY <2>2, <2>3 DEF Keeps, Alive, Heard, Echo, Tuned, Off, Others, IsLive
  <2>11. Shows(w, u)
    BY <2>2 DEF Shows, Shown, IsLive
  <2>13. Differ(w, u, {"stream"})
    BY <2>2 DEF Differ, Fields
  <2>14. \A t \in Streams \cap Others(w) : u.stream[t] = w.stream[t]
    BY <2>2, <2>3
  <2> QED BY <2>1, <2>2, <2>5, <2>6, <2>7, <2>8, <2>9, <2>10, <2>11, <2>13, <2>14
          DEF Good, v
<1>2. CASE ~(IsLive(w, s) /\ s \notin Holders(w))
  <2>1. v = w
    BY <1>2 DEF Spill
  <2>2. Held(w, X \ {s})
    BY <1>0, <1>2, HoldersAre DEF Good, Held, IsLive
  <2> QED BY <2>1, <2>2 DEF Good, Differ, Keeps, Heard, Shows
<1> QED BY <1>1, <1>2

-----------------------------------------------------------------------------
(* Releasing streams, and the local tile.                                   *)

\* A stream is stopped, and its selection dropped.
LEMMA StopTracksDoes ==
  ASSUME NEW w, NEW s, NEW X, Good(w, X), Settled(w, s)
  PROVE  LET v == StopTracks(w, s)
         IN  /\ Good(v, X \ {s}) /\ Differ(w, v, {"stream", "active"})
             /\ Ended(w, v, s) /\ Deselected(w, v, s)
             /\ Keeps(w, v) /\ Repairs(w, v, s)
             /\ s = 0 \/ ~w.tile \/ w.active.video.stream # s => Shows(w, v)
<1> DEFINE act == [k \in Kinds |-> IF w.active[k].stream = s THEN None ELSE w.active[k]]
           v == StopTracks(w, s)
           u == [w EXCEPT !.stream[s] = "dead", !.active = act]
<1>0. Typed(w)
  BY DEF Good
<1>1. CASE s \in Streams
  <2>1. v = u /\ s # 0
    BY <1>1, DevicesAssumption DEF StopTracks, DevicesAssumption
  <2>2. act \in [Kinds -> [stream : Ids, device : Microphones \cup Cameras \cup {NoDevice}]]
    BY <1>0 DEF Typed, None, Ids
  <2>3. /\ \A k \in Kinds : act[k] = w.active[k] \/ act[k] = None
        /\ \A k \in Kinds : /\ w.active[k].stream = s => act[k].stream = 0
                            /\ w.active[k].stream # s => act[k] = w.active[k]
    BY DEF None
  <2> HIDE DEF act
  <2>4. /\ Typed(u) /\ u.active = act /\ u.call = w.call /\ u.preview = w.preview
        /\ u.source = w.source /\ u.sess = w.sess /\ u.job = w.job /\ u.slot = w.slot
        /\ u.tile = w.tile /\ u.using = w.using /\ u.refused = w.refused
        /\ u.stream[s] = "dead" /\ \A t \in Streams \ {s} : u.stream[t] = w.stream[t]
    BY <1>0, <1>1, <2>2 DEF Typed, Fields
  <2>5. \A c \in Numbers : w.call[c].stream # s
    BY <2>1 DEF Settled
  <2> HIDE DEF u, v
  <2>6. /\ u.active.audio.stream = IF w.active.audio.stream = s THEN 0 ELSE w.active.audio.stream
        /\ u.active.video.stream = IF w.active.video.stream = s THEN 0 ELSE w.active.video.stream
    BY <2>3, <2>4 DEF Kinds
  <2>7. \A t : t \in Others(u) => t = 0 \/ t \in Others(w)
    BY <2>4, <2>6 DEF Others
  <2>8. \A t : t # s /\ t \in Others(w) => t \in Others(u)
    BY <2>4, <2>6 DEF Others
  <2>9. Held(u, X \ {s})
    BY <2>4, <2>8 DEF Good, Held
  <2>10. Taken(u)
    BY <2>4, <2>7, DevicesAssumption DEF Good, Taken, DevicesAssumption
  <2>11. Fresh(u)
    BY <1>0, <2>4, <2>5, <2>7, FreshStays DEF Good
  <2>12. Apart(u) /\ Control(u)
    BY <2>4, <2>6 DEF Good, Apart, Control, Busy
  <2>13. Ended(w, u, s) /\ Deselected(w, u, s)
    BY <2>3, <2>4 DEF Ended, Deselected
  <2>14. Repairs(w, u, s)
    BY <2>4, <2>6 DEF Repairs, Alive, Heard, Echo, Tuned, Shown, IsLive
  <2>15. Keeps(w, u) /\ (~w.tile \/ w.active.video.stream # s => Shows(w, u))
    BY <2>4, <2>6 DEF Keeps, Shows, Alive, Heard, Echo, Tuned, Shown, Off, IsLive
  <2>16. Differ(w, u, {"stream", "active"})
    BY <2>4 DEF Differ, Fields
  <2> QED BY <2>1, <2>3, <2>4, <2>9, <2>10, <2>11, <2>12, <2>13, <2>14, <2>15, <2>16
          DEF Good, v
<1>2. CASE s = 0
  <2>1. v = w /\ s \notin Streams
    BY <1>2, DevicesAssumption DEF StopTracks, DevicesAssumption
  <2>2. Held(w, X \ {s})
    BY <2>1 DEF Good, Held
  <2> QED BY <1>2, <2>1, <2>2
          DEF Good, Differ, Ended, Deselected, Keeps, Heard, Shows, Repairs, Kinds
<1> QED BY <1>1, <1>2 DEF Settled

\* The session drops its video input.
LEMMA StopVideoInputDoes ==
  ASSUME NEW w, NEW X, Good(w, X), w.call[0].at = "idle"
  PROVE  LET v == StopVideoInput(w)
         IN  /\ Good(v, X) /\ Differ(w, v, {"stream", "active", "using"})
             /\ Keeps(w, v) /\ Shown(v) /\ Fewer(w, v)
<1> DEFINE s == w.using.video
           u == StopTracks(w, s)
           v == [u EXCEPT !.using.video = 0]
<1>0. Typed(w) /\ s \in Ids
  BY DEF Good, Typed, Kinds
<1>1. Settled(w, s)
  BY <1>0, OthersAreSettled DEF Others
<1>2. /\ Good(u, X \ {s}) /\ Differ(w, u, {"stream", "active"})
      /\ Ended(w, u, s) /\ Keeps(w, u)
  <2> HIDE DEF s
  <2> QED BY <1>1, StopTracksDoes
<1>3. u.using = w.using /\ u.refused = w.refused
  BY <1>2 DEF Differ, Fields
<1> HIDE DEF u
<1>4. /\ Typed(v) /\ v.active = u.active /\ v.call = u.call /\ v.preview = u.preview
      /\ v.source = u.source /\ v.sess = u.sess /\ v.job = u.job /\ v.slot = u.slot
      /\ v.tile = u.tile /\ v.stream = u.stream
      /\ v.using.video = 0 /\ v.using.audio = u.using.audio /\ v.refused = u.refused
  <2>1. Typed(u)
    BY <1>2 DEF Good
  <2>2. u = [f \in Fields |-> u[f]] /\ u.using = [k \in Kinds |-> u.using[k]]
    BY <2>1 DEF Typed
  <2>3. /\ v.active = u.active /\ v.call = u.call /\ v.preview = u.preview
        /\ v.source = u.source /\ v.sess = u.sess /\ v.job = u.job /\ v.slot = u.slot
        /\ v.tile = u.tile /\ v.stream = u.stream /\ v.refused = u.refused
        /\ v.using.video = 0 /\ v.using.audio = u.using.audio
    BY <2>2 DEF Fields, Kinds
  <2>4. v.using \in [Kinds -> Ids \cup {Mix}] /\ v.using.video # Mix
    BY <2>1, <2>2, DevicesAssumption DEF Typed, Kinds, Ids, Fields, DevicesAssumption
  <2>5. v = [f \in Fields |-> v[f]]
    BY <2>2
  <2> HIDE DEF v
  <2> QED BY <2>1, <2>3, <2>4, <2>5 DEF Typed
<1> HIDE DEF v
<1>5. \A t : t \in Others(v) => t = 0 \/ t \in Others(u)
  BY <1>4 DEF Others
<1>6. \A t : t # s /\ t \in Others(u) => t \in Others(v)
  BY <1>3, <1>4 DEF Others
<1>7. Held(v, X)
  BY <1>2, <1>4, <1>6 DEF Good, Held, Ended
<1>8. Taken(v)
  BY <1>2, <1>4, <1>5, DevicesAssumption DEF Good, Taken, DevicesAssumption
<1>9. Fresh(v)
  BY <1>2, <1>4, <1>5, FreshStays DEF Good
<1>10. Apart(v) /\ Control(v)
  BY <1>2, <1>4 DEF Good, Apart, Control, Busy
<1>11. Keeps(w, v)
  BY <1>2, <1>4 DEF Keeps, Alive, Heard, Echo, Tuned, Off, IsLive
<1>12. Shown(v)
  BY <1>2, <1>4 DEF Shown, Differ, Fields
<1>14. Differ(w, v, {"stream", "active", "using"})
  BY <1>2, <1>4 DEF Differ, Fields
<1>13. Fewer(w, v)
  BY <1>0, <1>2, <1>4 DEF Fewer, Ended, Ids
<1>15. v = StopVideoInput(w)
  BY DEF StopVideoInput, u, v
<1> QED BY <1>4, <1>7, <1>8, <1>9, <1>10, <1>11, <1>12, <1>13, <1>14, <1>15 DEF Good

\* A deferred action takes the place of another, whose stream is spilled.
LEMMA DeferDoes ==
  ASSUME NEW w, NEW kind \in {"update", "restart", "stop"}, NEW old \in Ids, NEW X,
         Good(w, X), Settled(w, old), Busy(w), old # 0 => kind = "restart"
  PROVE  LET v == Defer(w, kind, old)
         IN  /\ Good(v, X \ {old}) /\ Differ(w, v, {"stream", "slot"})
             /\ v.slot.kind # "none"
             /\ Keeps(w, v) /\ Shown(v) /\ Fewer(w, v)
<1> DEFINE new == [kind |-> kind, old |-> old]
           former == w.slot.old
           u == [w EXCEPT !.slot = new]
           v == Defer(w, kind, old)
<1>0. Typed(w)
  BY DEF Good
<1>1. CASE w.slot.kind = "stop"
  <2>1. v = Spill(w, old)
    BY <1>1 DEF Defer
  <2> HIDE DEF v
  <2>2. /\ Good(v, X \ {old}) /\ Differ(w, v, {"stream"})
        /\ Keeps(w, v)
        /\ \A t \in Streams : v.stream[t] = w.stream[t] \/ v.stream[t] = "spilled"
    BY <2>1, SpillDoes
  <2>3. Differ(w, v, {"stream", "slot"}) /\ v.slot = w.slot
    BY <2>2 DEF Differ, Fields
  <2>4. Shown(v)
    BY <1>1, <2>3 DEF Shown
  <2>5. Fewer(w, v)
    BY <2>2 DEF Fewer
  <2> QED BY <1>1, <2>2, <2>3, <2>4, <2>5 DEF v
<1>2. CASE w.slot.kind # "stop"
  <2>1. v = Spill(u, former)
    BY <1>2 DEF Defer
  <2>2. new \in [kind : {"none", "update", "restart", "stop"}, old : Ids]
        /\ new.kind = kind /\ new.old = old
    OBVIOUS
  <2> HIDE DEF v, new
  <2>3. /\ Typed(u) /\ u.active = w.active /\ u.call = w.call /\ u.preview = w.preview
        /\ u.source = w.source /\ u.sess = w.sess /\ u.job = w.job /\ u.slot = new
        /\ u.tile = w.tile /\ u.using = w.using /\ u.refused = w.refused /\ u.stream = w.stream
    BY <1>0, <2>2 DEF Typed, Fields
  <2> HIDE DEF u
  <2>4. \A t : t \in Others(u) => t = old \/ t \in Others(w)
    BY <2>2, <2>3 DEF Others
  <2>5. \A t : t \in Others(w) => t = former \/ t \in Others(u)
    BY <2>3 DEF Others
  <2>5a. old \in Others(u)
    BY <2>2, <2>3 DEF Others
  <2>6. Held(u, (X \ {old}) \cup {former})
    BY <2>3, <2>5, <2>5a DEF Good, Held
  <2>7. Taken(u)
    BY <2>3, <2>4, DevicesAssumption DEF Good, Taken, Settled, DevicesAssumption
  <2>8. Fresh(u)
    <3>1. \A c \in Numbers : w.call[c].stream # 0 => w.call[c].stream # old
      BY DEF Settled
    <3> QED BY <2>3, <2>4, <3>1 DEF Good, Fresh
  <2>9. Apart(u) /\ Control(u)
    BY <2>2, <2>3 DEF Good, Apart, Control, Busy
  <2>10. Good(u, (X \ {old}) \cup {former})
    BY <2>3, <2>6, <2>7, <2>8, <2>9 DEF Good
  <2>11. ((X \ {old}) \cup {former}) \ {former} \subseteq X \ {old}
    OBVIOUS
  <2>12. /\ Good(v, ((X \ {old}) \cup {former}) \ {former}) /\ Differ(u, v, {"stream"})
         /\ Keeps(u, v)
         /\ \A t \in Streams : v.stream[t] = u.stream[t] \/ v.stream[t] = "spilled"
    BY <2>1, <2>10, SpillDoes
  <2>13. Good(v, X \ {old})
    BY <2>11, <2>12 DEF Good, Held
  <2>14. Keeps(w, u)
    BY <2>3 DEF Keeps, Alive, Heard, Echo, Tuned, Off, IsLive
  <2>15. Keeps(w, v)
    BY <2>12, <2>14 DEF Keeps, Heard
  <2>16. Differ(w, v, {"stream", "slot"}) /\ v.slot.kind = kind
    BY <2>2, <2>3, <2>12 DEF Differ, Fields
  <2>17. Shown(v)
    BY <2>16 DEF Shown
  <2>18. Fewer(w, v)
    BY <2>3, <2>12 DEF Fewer
  <2> QED BY <2>12, <2>13, <2>14, <2>15, <2>16, <2>17, <2>18 DEF v
<1> QED BY <1>1, <1>2

Jobs == [kind : {"none", "start", "join", "update", "restartStop", "restartStart"},
         receiving : BOOLEAN, old : Ids]

\* A job begins or goes on; what it releases is kept for it.
LEMMA JobGiven ==
  ASSUME NEW w, NEW j \in Jobs, NEW X, Good(w, X), Settled(w, j.old), w.job.old \in {0, j.old},
         j.kind # "none", w.call[0].at # "idle" => j.receiving,
         w.sess = "start" => j.kind \in {"start", "join"} /\ j.old = 0
  PROVE  LET v == [w EXCEPT !.job = j]
         IN  /\ Good(v, X \ {j.old}) /\ Differ(w, v, {"job"}) /\ v.job = j
             /\ Keeps(w, v) /\ Shows(w, v)
<1> DEFINE v == [w EXCEPT !.job = j]
<1>1. Typed(w)
  BY DEF Good
<1>2. /\ Typed(v) /\ v.active = w.active /\ v.call = w.call /\ v.preview = w.preview
      /\ v.source = w.source /\ v.sess = w.sess /\ v.job = j /\ v.slot = w.slot
      /\ v.tile = w.tile /\ v.using = w.using /\ v.refused = w.refused /\ v.stream = w.stream
  BY <1>1 DEF Typed, Fields, Jobs
<1> HIDE DEF v
<1>3. \A t : t \in Others(v) => t = j.old \/ t \in Others(w)
  BY <1>2 DEF Others
<1>4. \A t : t \in Others(w) \cup {j.old} => t = 0 \/ t \in Others(v)
  BY <1>2 DEF Others
<1>5. Held(v, X \ {j.old})
  BY <1>2, <1>4, DevicesAssumption DEF Good, Held, DevicesAssumption
<1>6. Taken(v)
  BY <1>2, <1>3, DevicesAssumption DEF Good, Taken, Settled, DevicesAssumption
<1>7. Fresh(v)
  <2>1. \A c \in Numbers : w.call[c].stream # 0 => w.call[c].stream # j.old
    BY DEF Settled
  <2> QED BY <1>2, <1>3, <2>1 DEF Good, Fresh
<1>8. Apart(v)
  BY <1>2 DEF Good, Apart
<1>9. Control(v)
  BY <1>2 DEF Good, Control, Busy, NoJob
<1>10. Keeps(w, v) /\ Shows(w, v)
  BY <1>2 DEF Keeps, Shows, Alive, Heard, Echo, Tuned, Shown, Off, IsLive
<1>11. Differ(w, v, {"job"})
  BY <1>2 DEF Differ, Fields
<1> QED BY <1>2, <1>5, <1>6, <1>7, <1>8, <1>9, <1>10, <1>11 DEF Good, v

\* The local tile starts or stops.
LEMMA TileGiven ==
  ASSUME NEW w, NEW b \in BOOLEAN, NEW X, Good(w, X)
  PROVE  LET v == [w EXCEPT !.tile = b]
         IN  Good(v, X) /\ Differ(w, v, {"tile"}) /\ v.tile = b /\ Keeps(w, v) /\ (b => Shows(w, v))
<1> DEFINE v == [w EXCEPT !.tile = b]
<1>1. /\ Typed(v) /\ v.active = w.active /\ v.call = w.call /\ v.preview = w.preview
      /\ v.source = w.source /\ v.sess = w.sess /\ v.job = w.job /\ v.slot = w.slot
      /\ v.tile = b /\ v.using = w.using /\ v.refused = w.refused /\ v.stream = w.stream
  BY DEF Good, Typed, Fields
<1> HIDE DEF v
<1>2. Others(v) = Others(w)
  BY <1>1 DEF Others
<1>3. Held(v, X) /\ Taken(v) /\ Fresh(v)
  BY <1>1, <1>2 DEF Good, Held, Taken, Fresh
<1>4. Apart(v) /\ Control(v)
  BY <1>1 DEF Good, Apart, Control, Busy
<1>5. Keeps(w, v) /\ (b => Shows(w, v))
  BY <1>1 DEF Keeps, Shows, Alive, Heard, Echo, Tuned, Shown, Off, IsLive
<1>6. Differ(w, v, {"tile"})
  BY <1>1 DEF Differ, Fields
<1> QED BY <1>1, <1>3, <1>4, <1>5, <1>6 DEF Good, v

\* The local tile stops, and an update begins or is deferred.
LEMMA StopTileDoes ==
  ASSUME NEW w, NEW X, Good(w, X)
  PROVE  LET v == StopTile(w)
         IN  /\ Good(v, X) /\ Keeps(w, v) /\ Shown(v)
             /\ v.call = w.call /\ v.sess = w.sess /\ v.tile = FALSE
             /\ Busy(w) => v.job = w.job
             /\ w.job.kind # "none" => v.job.kind # "none"
             /\ Fewer(w, v)
             /\ Differ(w, v, {"tile", "slot", "job", "stream", "active", "using"})
<1> DEFINE u == [w EXCEPT !.tile = FALSE]
           v == StopTile(w)
           j == [NoJob EXCEPT !.kind = "update"]
           x == StopVideoInput(u)
           y == [x EXCEPT !.job = j]
<1>1. Good(u, X) /\ Differ(w, u, {"tile"}) /\ u.tile = FALSE /\ Keeps(w, u)
  <2>1. FALSE \in BOOLEAN
    OBVIOUS
  <2> QED BY <2>1, TileGiven
<1>2. u.call = w.call /\ u.sess = w.sess /\ u.job = w.job /\ u.stream = w.stream
  BY <1>1 DEF Differ, Fields
<1>3. v = IF Busy(u) THEN Defer(u, "update", 0)
          ELSE IF u.sess = "up" THEN y ELSE u
  BY DEF StopTile
<1> HIDE DEF u, v
<1>4. CASE Busy(u)
  <2>1. v = Defer(u, "update", 0)
    BY <1>3, <1>4
  <2>2. Settled(u, 0) /\ 0 \in Ids
    BY DEF Settled, Ids
  <2>3. /\ Good(v, X \ {0}) /\ Differ(u, v, {"stream", "slot"}) /\ Keeps(u, v) /\ Shown(v)
        /\ Fewer(u, v)
    BY <1>1, <1>4, <2>1, <2>2, DeferDoes
  <2>4. Good(v, X)
    BY <2>3 DEF Good, Held
  <2>5. v.call = u.call /\ v.sess = u.sess /\ v.job = u.job /\ v.tile = u.tile
    BY <2>3 DEF Differ, Fields
  <2>6. Fewer(w, v)
    BY <1>2, <2>3 DEF Fewer
  <2>7. Differ(w, v, {"tile", "slot", "job", "stream", "active", "using"})
    BY <1>1, <2>3 DEF Differ
  <2> QED BY <1>1, <1>2, <2>3, <2>4, <2>5, <2>6, <2>7 DEF Keeps, Heard, Shows, v
<1>5. CASE ~Busy(u) /\ u.sess = "up"
  <2>1. v = y
    BY <1>3, <1>5
  <2>2. u.job = NoJob
    BY <1>5 DEF Busy
  <2>2a. u.call[0].at = "idle"
    BY <1>1, <2>2 DEF Good, Control, NoJob
  <2>3. /\ Good(x, X) /\ Differ(u, x, {"stream", "active", "using"}) /\ Keeps(u, x)
        /\ Shown(x) /\ Fewer(u, x)
    BY <1>1, <2>2a, StopVideoInputDoes
  <2>4. x.call = u.call /\ x.sess = u.sess /\ x.job = u.job /\ x.tile = u.tile
    BY <2>3 DEF Differ, Fields
  <2> HIDE DEF x
  <2>5. /\ j \in Jobs /\ j.old = 0 /\ j.kind = "update" /\ NoJob.old = 0 /\ ~NoJob.receiving
        /\ NoJob.kind = "none"
    BY DEF Jobs, NoJob, Ids
  <2>6. x.call[0].at = "idle"
    BY <1>1, <2>2, <2>4, <2>5 DEF Good, Control
  <2>7. Settled(x, j.old)
    BY <2>5 DEF Settled
  <2> HIDE DEF j
  <2>8. Good(y, X \ {j.old}) /\ Differ(x, y, {"job"}) /\ y.job = j /\ Keeps(x, y) /\ Shows(x, y)
    BY <1>5, <2>2, <2>3, <2>4, <2>5, <2>6, <2>7, JobGiven
  <2>9. y.call = x.call /\ y.sess = x.sess /\ y.tile = x.tile /\ y.stream = x.stream
    BY <2>8 DEF Differ, Fields
  <2>10. Good(y, X)
    BY <2>5, <2>8 DEF Good, Held
  <2> HIDE DEF y
  <2>11. Keeps(w, y) /\ Shown(y)
    BY <1>1, <2>3, <2>8 DEF Keeps, Heard, Shows
  <2>12. ~Busy(w)
    BY <1>2, <1>5 DEF Busy
  <2>13. Fewer(w, y)
    BY <1>2, <2>3, <2>9 DEF Fewer
  <2>14. Differ(w, y, {"tile", "slot", "job", "stream", "active", "using"})
    BY <1>1, <2>3, <2>8 DEF Differ
  <2> QED BY <1>1, <1>2, <2>1, <2>4, <2>5, <2>8, <2>9, <2>10, <2>11, <2>12, <2>13, <2>14 DEF v
<1>6. CASE ~Busy(u) /\ u.sess # "up"
  <2>1. Fewer(w, u)
    BY <1>2 DEF Fewer
  <2>2. Differ(w, u, {"tile", "slot", "job", "stream", "active", "using"})
    BY <1>1 DEF Differ
  <2>3. Shown(u)
    BY <1>6 DEF Shown, Busy
  <2> QED BY <1>1, <1>2, <1>3, <1>6, <2>1, <2>2, <2>3 DEF v
<1> QED BY <1>4, <1>5, <1>6

\* A stream is released: it is no longer live, and whatever depended on its being
\* excused holds without that.
LEMMA ReleaseDoes ==
  ASSUME NEW w, NEW s, NEW X, Good(w, X), Settled(w, s)
  PROVE  LET v == ReleaseMediaStream(w, s)
         IN  /\ Good(v, X \ {s}) /\ Keeps(w, v) /\ Shows(w, v) /\ Repairs(w, v, s)
             /\ v.call = w.call /\ v.sess = w.sess
             /\ w.active.video.stream # s \/ s = 0 => v = StopTracks(w, s)
             /\ v = StopTracks(w, s) \/ v = StopTile(StopTracks(w, s))
             /\ ~IsLive(v, s) /\ v.preview = w.preview /\ v.source = w.source
<1> DEFINE u == StopTracks(w, s)
           v == ReleaseMediaStream(w, s)
<1>1. s # Mix
  BY DevicesAssumption DEF Settled, DevicesAssumption
<1>2. v = IF s # 0 /\ w.active.video.stream = s /\ w.tile THEN StopTile(u) ELSE u
  BY <1>1 DEF ReleaseMediaStream
<1>3. /\ Good(u, X \ {s}) /\ Differ(w, u, {"stream", "active"})
      /\ Keeps(w, u) /\ Repairs(w, u, s) /\ Ended(w, u, s)
      /\ s = 0 \/ ~w.tile \/ w.active.video.stream # s => Shows(w, u)
  BY StopTracksDoes
<1>4. /\ u.call = w.call /\ u.sess = w.sess /\ u.preview = w.preview
      /\ u.source = w.source
  BY <1>3 DEF Differ, Fields
<1>4a. ~IsLive(u, s)
  BY <1>3 DEF Ended, IsLive
<1> HIDE DEF v, u
<1>5. CASE v = u /\ (s = 0 \/ ~w.tile \/ w.active.video.stream # s)
  BY <1>3, <1>4, <1>4a, <1>5 DEF v, u
<1>6. CASE v = StopTile(u) /\ s # 0 /\ w.active.video.stream = s
  <2>1. /\ Good(v, X \ {s}) /\ Keeps(u, v) /\ Shown(v) /\ v.call = u.call
        /\ v.sess = u.sess /\ Fewer(u, v)
        /\ Differ(u, v, {"tile", "slot", "job", "stream", "active", "using"})
    BY <1>3, <1>6, StopTileDoes
  <2>2. Keeps(w, v) /\ Shows(w, v) /\ Repairs(w, v, s)
    BY <1>3, <2>1 DEF Keeps, Heard, Shows, Repairs
  <2>3. ~IsLive(v, s)
    BY <1>4a, <2>1 DEF Fewer, IsLive
  <2>4. v.preview = u.preview /\ v.source = u.source
    BY <2>1 DEF Differ, Fields
  <2> QED BY <1>4, <1>6, <2>1, <2>2, <2>3, <2>4 DEF v, u
<1> QED BY <1>2, <1>5, <1>6

-----------------------------------------------------------------------------
(* The session takes a video input.                                         *)

\* The session takes the selected camera, or none.
LEMMA UseVideoDoes ==
  ASSUME NEW w, NEW s, NEW X, Good(w, X), s \in {0, w.active.video.stream},
         w.call[0].at = "idle"
  PROVE  LET v == UseVideo(w, s)
         IN  /\ Good(v, X) /\ Keeps(w, v) /\ (s = 0 \/ Lit(w) => Shown(v))
             /\ v.call = w.call /\ v.sess = w.sess /\ v.job.kind = w.job.kind
<1> DEFINE u == [w EXCEPT !.using.video = s, !.job.receiving = FALSE]
           former == w.using.video
           v == UseVideo(w, s)
<1>1. Typed(w) /\ s \in Ids /\ s # Mix
  BY DevicesAssumption DEF Good, Typed, Ids, Kinds, DevicesAssumption
<1>2. /\ Typed(u) /\ u.active = w.active /\ u.call = w.call /\ u.preview = w.preview
      /\ u.source = w.source /\ u.sess = w.sess /\ u.slot = w.slot
      /\ u.tile = w.tile /\ u.stream = w.stream
      /\ u.using.video = s /\ u.using.audio = w.using.audio /\ u.refused = w.refused
      /\ u.job.kind = w.job.kind /\ u.job.old = w.job.old /\ u.job.receiving = FALSE
  BY <1>1 DEF Typed, Fields, Kinds
<1>3. v = Spill(u, former)
  BY DEF UseVideo
<1> HIDE DEF u, v
<1>4. \A t : t \in Others(u) => t = 0 \/ t \in Others(w)
  BY <1>2 DEF Others
<1>5. \A t : t \in Others(w) => t = former \/ t \in Others(u)
  BY <1>2 DEF Others
<1>6. Held(u, X \cup {former})
  BY <1>2, <1>5 DEF Good, Held
<1>7. Taken(u)
  BY <1>2, <1>4, DevicesAssumption DEF Good, Taken, DevicesAssumption
<1>8. Fresh(u)
  BY <1>2, <1>4, FreshStays DEF Good
<1>9. Apart(u)
  BY <1>2 DEF Good, Apart
<1>10. u.job.kind = "none" => u.job = NoJob
  <2>1. w.job.kind = "none" => w.job = NoJob
    BY DEF Good, Control
  <2>2. u.job \in Jobs /\ NoJob \in Jobs
    BY <1>2 DEF Typed, Jobs, NoJob, Ids
  <2>3. u.job.kind = "none" => u.job.old = NoJob.old /\ u.job.receiving = NoJob.receiving
                               /\ u.job.kind = NoJob.kind
    BY <1>2, <2>1 DEF NoJob
  <2> QED BY <2>2, <2>3 DEF Jobs
<1>11. Busy(w) => Busy(u)
  BY <1>2, <1>10 DEF Busy, Good, Control, NoJob
<1>12. Control(u)
  BY <1>2, <1>10, <1>11 DEF Good, Control
<1>13. Good(u, X \cup {former})
  BY <1>2, <1>6, <1>7, <1>8, <1>9, <1>12 DEF Good
<1>14. /\ Good(v, (X \cup {former}) \ {former}) /\ Differ(u, v, {"stream"})
       /\ Keeps(u, v) /\ Shows(u, v)
  BY <1>3, <1>13, SpillDoes
<1>15. Good(v, X)
  BY <1>14 DEF Good, Held
<1>16. Keeps(w, u)
  BY <1>2 DEF Keeps, Alive, Heard, Echo, Tuned, Off, IsLive
<1>17. s = 0 \/ Lit(w) => Shown(u)
  BY <1>2 DEF Shown, Lit
<1>18. v.call = u.call /\ v.sess = u.sess /\ v.job = u.job
  BY <1>14 DEF Differ, Fields
<1> QED BY <1>2, <1>14, <1>15, <1>16, <1>17, <1>18 DEF Keeps, Heard, Shows, v

\* A call begins, goes on without a stream or is over.
LEMMA CallGiven ==
  ASSUME NEW w, NEW c \in Numbers, NEW X, Good(w, X),
         NEW a \in [at : {"idle", "prompt", "change"}, kind : Kinds,
                    device : Microphones \cup Cameras \cup {NoDevice},
                    stream : Ids, overruled : BOOLEAN],
         a.stream = 0, a.at # "change", c = 0 /\ a.at # "idle" => w.job.receiving
  PROVE  LET v == [w EXCEPT !.call[c] = a]
         IN  /\ Good(v, X \cup {w.call[c].stream}) /\ Differ(w, v, {"call"})
             /\ v.call[c] = a /\ \A d \in Numbers \ {c} : v.call[d] = w.call[d]
             /\ Alive(w, 0) => Alive(v, 0)
             /\ (Echo(w, 0) => Echo(v, 0)) /\ (Tuned(w) => Tuned(v))
             /\ Off(w) /\ (a.at # "idle" /\ a.kind = "video" => a.overruled) => Off(v)
             /\ \/ c # 0
                \/ /\ w.call[0].at = "idle" \/ w.call[0].kind = "audio"
                   /\ a.at = "idle" \/ a.kind = "audio"
                => Shows(w, v)
<1> DEFINE v == [w EXCEPT !.call[c] = a]
<1>1. /\ Typed(v) /\ v.active = w.active /\ v.preview = w.preview
      /\ v.source = w.source /\ v.sess = w.sess /\ v.job = w.job /\ v.slot = w.slot
      /\ v.tile = w.tile /\ v.using = w.using /\ v.refused = w.refused /\ v.stream = w.stream
      /\ v.call[c] = a /\ \A d \in Numbers \ {c} : v.call[d] = w.call[d]
  BY DEF Good, Typed, Fields
<1> HIDE DEF v
<1>2. Others(v) = Others(w)
  BY <1>1 DEF Others
<1>3. Held(v, X \cup {w.call[c].stream})
  BY <1>1, <1>2 DEF Good, Held
<1>4. Taken(v)
  BY <1>1, <1>2, DevicesAssumption DEF Good, Taken, DevicesAssumption
<1>5. Fresh(v)
  BY <1>1, <1>2 DEF Good, Fresh
<1>6. Apart(v) /\ Control(v)
  BY <1>1 DEF Good, Apart, Control, Busy, Numbers
<1>7. (Alive(w, 0) => Alive(v, 0)) /\ (Echo(w, 0) => Echo(v, 0)) /\ (Tuned(w) => Tuned(v))
  BY <1>1 DEF Alive, Heard, Echo, Tuned, IsLive
<1>8. Off(w) /\ (a.at # "idle" /\ a.kind = "video" => a.overruled) => Off(v)
  BY <1>1 DEF Off
<1>9. \/ c # 0
      \/ /\ w.call[0].at = "idle" \/ w.call[0].kind = "audio"
         /\ a.at = "idle" \/ a.kind = "audio"
      => Shows(w, v)
  BY <1>1 DEF Shows, Shown, IsLive, Numbers
<1>10. Differ(w, v, {"call"})
  BY <1>1 DEF Differ, Fields
<1> QED BY <1>1, <1>3, <1>4, <1>5, <1>6, <1>7, <1>8, <1>9, <1>10 DEF Good, v

\* A call waits for getUserMedia.
LEMMA PromptDoes ==
  ASSUME NEW w, NEW c \in Numbers, NEW kind \in Kinds,
         NEW device \in Microphones \cup Cameras \cup {NoDevice}, NEW X,
         Good(w, X), w.call[c].at = "idle", c = 0 => w.job.receiving
  PROVE  LET v == Prompt(w, c, kind, device)
         IN  /\ Good(v, X) /\ Differ(w, v, {"call"}) /\ v.call[c].at = "prompt"
             /\ \A d \in Numbers \ {c} : v.call[d] = w.call[d]
             /\ Alive(w, 0) => Alive(v, 0)
             /\ (Echo(w, 0) => Echo(v, 0)) /\ (Tuned(w) => Tuned(v))
             /\ kind = "audio" /\ Off(w) => Off(v)
             /\ IF c = 0 /\ kind = "video" THEN Lit(w) => Shown(v) ELSE Shows(w, v)
<1> DEFINE a == [Idle EXCEPT !.at = "prompt", !.kind = kind, !.device = device]
           v == [w EXCEPT !.call[c] = a]
<1>1. /\ a \in [at : {"idle", "prompt", "change"}, kind : Kinds,
                device : Microphones \cup Cameras \cup {NoDevice},
                stream : Ids, overruled : BOOLEAN]
      /\ a.stream = 0 /\ a.at = "prompt" /\ a.kind = kind
  BY DEF Idle, Ids
<1>2. v = Prompt(w, c, kind, device)
  BY DEF Prompt
<1> HIDE DEF a
<1>3. /\ Good(v, X \cup {w.call[c].stream}) /\ Differ(w, v, {"call"})
      /\ v.call[c] = a /\ \A d \in Numbers \ {c} : v.call[d] = w.call[d]
      /\ Alive(w, 0) => Alive(v, 0)
      /\ (Echo(w, 0) => Echo(v, 0)) /\ (Tuned(w) => Tuned(v))
      /\ Off(w) /\ (a.at # "idle" /\ a.kind = "video" => a.overruled) => Off(v)
      /\ \/ c # 0
         \/ /\ w.call[0].at = "idle" \/ w.call[0].kind = "audio"
            /\ a.at = "idle" \/ a.kind = "audio"
         => Shows(w, v)
  BY <1>1, CallGiven
<1> HIDE DEF v
<1>4. w.call[c].stream = 0
  BY DEF Good, Fresh
<1>5. Good(v, X)
  BY <1>3, <1>4, DevicesAssumption DEF Good, Held, DevicesAssumption
<1>6. c = 0 /\ kind = "video" => (Lit(w) => Shown(v))
  BY <1>1, <1>3 DEF Shown, Lit, Differ, Fields
<1>7. c # 0 \/ kind = "audio" => Shows(w, v)
  BY <1>1, <1>3
<1> QED BY <1>1, <1>2, <1>3, <1>5, <1>6, <1>7 DEF Kinds

\* The session waits for its call.
LEMMA ReceivingIs ==
  ASSUME NEW w, NEW X, Good(w, X), w.job.kind # "none"
  PROVE  LET v == [w EXCEPT !.job.receiving = TRUE]
         IN  /\ Good(v, X) /\ Differ(w, v, {"job"}) /\ v.job.receiving
             /\ v.job.kind = w.job.kind /\ Keeps(w, v) /\ Shows(w, v)
<1> DEFINE j == [w.job EXCEPT !.receiving = TRUE]
           v == [w EXCEPT !.job = j]
<1>1. j \in Jobs /\ j.kind = w.job.kind /\ j.old = w.job.old /\ j.receiving
  BY DEF Good, Typed, Jobs
<1>2. v = [w EXCEPT !.job.receiving = TRUE]
  OBVIOUS
<1> HIDE DEF j
<1>3. Settled(w, j.old)
  <2>1. w.job.old \in Ids /\ w.job.old \in Others(w)
    BY DEF Good, Typed, Others
  <2> QED BY <1>1, <2>1, OthersAreSettled
<1>4. Good(v, X \ {j.old}) /\ Differ(w, v, {"job"}) /\ v.job = j /\ Keeps(w, v) /\ Shows(w, v)
  <2>1. w.sess = "start" => j.kind \in {"start", "join"} /\ j.old = 0
    BY <1>1 DEF Good, Control
  <2> QED BY <1>1, <1>3, <2>1, JobGiven
<1> HIDE DEF v
<1>5. Good(v, X)
  BY <1>4 DEF Good, Held
<1> QED BY <1>1, <1>2, <1>4, <1>5

\* Whichever way ReceiveVideoInputTask goes, the session shows what is selected or
\* waits for it.
LEMMA ReceiveDoes ==
  ASSUME NEW w, NEW same, NEW X, Good(w, X), w.call[0].at = "idle", w.job.kind # "none"
  PROVE  LET v == ReceiveVideoInput(w, same)
         IN  /\ Good(v, X) /\ Keeps(w, v) /\ Shown(v)
             /\ CallsStay(w, v) /\ v.call[0].at # "change"
             /\ v.sess = w.sess
<1> DEFINE a == w.active.video
           u == [w EXCEPT !.job.receiving = TRUE]
           v == ReceiveVideoInput(w, same)
<1>1. \/ v = StopVideoInput(w)
      \/ v = UseVideo(StopTile(w), 0)
      \/ w.tile /\ v = UseVideo(w, a.stream)
      \/ w.tile /\ a.stream # 0 /\ v = Prompt(u, 0, "video", a.device)
  BY DEF ReceiveVideoInput
<1>2. Typed(w) /\ a.device \in Microphones \cup Cameras \cup {NoDevice}
  BY DEF Good, Typed, Kinds
<1> HIDE DEF v
<1>3. CASE v = StopVideoInput(w)
  <2>1. /\ Good(v, X) /\ Differ(w, v, {"stream", "active", "using"})
        /\ Keeps(w, v) /\ Shown(v)
    BY <1>3, StopVideoInputDoes
  <2>2. v.call = w.call /\ v.sess = w.sess
    BY <2>1 DEF Differ, Fields
  <2> QED BY <2>1, <2>2 DEF CallsStay, v
<1>4. CASE v = UseVideo(StopTile(w), 0)
  <2> DEFINE x == StopTile(w)
  <2>1. Good(x, X) /\ Keeps(w, x) /\ x.call = w.call /\ x.sess = w.sess
    BY StopTileDoes
  <2>2. v = UseVideo(x, 0)
    BY <1>4
  <2> HIDE DEF x
  <2>3. Good(v, X) /\ Keeps(x, v) /\ Shown(v) /\ v.call = x.call /\ v.sess = x.sess
    BY <2>1, <2>2, UseVideoDoes
  <2> QED BY <2>1, <2>3 DEF Keeps, Heard, CallsStay, v
<1>5. CASE w.tile /\ v = UseVideo(w, a.stream)
  <2>1. Good(v, X) /\ Keeps(w, v) /\ Shown(v) /\ v.call = w.call /\ v.sess = w.sess
    BY <1>5, UseVideoDoes DEF Lit
  <2> QED BY <2>1 DEF CallsStay, v
<1>6. CASE w.tile /\ a.stream # 0 /\ v = Prompt(u, 0, "video", a.device)
  <2>1. /\ Good(u, X) /\ Differ(w, u, {"job"}) /\ u.job.receiving /\ Keeps(w, u)
    BY ReceivingIs
  <2>2. u.call = w.call /\ u.sess = w.sess /\ Lit(u)
    BY <1>6, <2>1 DEF Differ, Fields, Lit
  <2> HIDE DEF u
  <2>3. 0 \in Numbers /\ "video" \in Kinds
    BY DEF Numbers, Kinds
  <2>4. /\ Good(v, X) /\ Differ(u, v, {"call"}) /\ v.call[0].at = "prompt"
        /\ \A d \in Numbers \ {0} : v.call[d] = u.call[d]
        /\ Alive(u, 0) => Alive(v, 0)
        /\ (Echo(u, 0) => Echo(v, 0)) /\ (Tuned(u) => Tuned(v))
        /\ Shown(v)
    BY <1>2, <1>6, <2>1, <2>2, <2>3, PromptDoes
  <2>5. v.sess = u.sess
    BY <2>4 DEF Differ, Fields
  <2>6. CallsStay(w, v)
    BY <2>2, <2>4, DevicesAssumption DEF CallsStay, Numbers, DevicesAssumption
  <2>7. Keeps(w, v)
    BY <1>6, <2>1, <2>4 DEF Keeps, Heard, Off
  <2> QED BY <2>2, <2>4, <2>5, <2>6, <2>7 DEF v
<1> QED BY <1>1, <1>3, <1>4, <1>5, <1>6

\* A job is given to a session that has none.
LEMMA BeginDoes ==
  ASSUME NEW w, NEW j \in Jobs, NEW X, Good(w, X), w.job = NoJob, Settled(w, j.old),
         j.kind # "none"
  PROVE  LET v == [w EXCEPT !.job = j]
         IN  /\ Good(v, X \ {j.old}) /\ Keeps(w, v) /\ v.job.kind = j.kind /\ v.call = w.call
             /\ v.sess = w.sess /\ v.call[0].at = "idle"
<1> DEFINE v == [w EXCEPT !.job = j]
<1>1. NoJob.kind = "none" /\ NoJob.old = 0 /\ ~NoJob.receiving
  BY DEF NoJob
<1>2. w.call[0].at = "idle" /\ w.sess # "start"
  BY <1>1 DEF Good, Control
<1>3. Good(v, X \ {j.old}) /\ Differ(w, v, {"job"}) /\ v.job = j /\ Keeps(w, v)
  BY <1>1, <1>2, JobGiven
<1>4. v.call = w.call /\ v.sess = w.sess
  BY <1>3 DEF Differ, Fields
<1> QED BY <1>2, <1>3, <1>4

\* An update begins.
LEMMA BeginUpdateDoes ==
  ASSUME NEW w, NEW same, NEW X, Good(w, X), w.job = NoJob
  PROVE  LET v == BeginUpdate(w, same)
         IN  /\ Good(v, X) /\ Keeps(w, v) /\ Shown(v) /\ v.sess = w.sess
             /\ CallsStay(w, v) /\ v.call[0].at # "change"
<1> DEFINE j == [NoJob EXCEPT !.kind = "update"]
           u == [w EXCEPT !.job = j]
           v == BeginUpdate(w, same)
<1>1. v = ReceiveVideoInput(u, same)
  BY DEF BeginUpdate
<1>2. j \in Jobs /\ j.kind = "update" /\ j.old = 0
  BY DEF NoJob, Jobs, Ids
<1> HIDE DEF j
<1>3. /\ Good(u, X \ {j.old}) /\ Keeps(w, u) /\ u.job.kind = j.kind /\ u.call = w.call
      /\ u.sess = w.sess /\ u.call[0].at = "idle"
  <2>1. Settled(w, j.old)
    BY <1>2 DEF Settled
  <2> QED BY <1>2, <2>1, BeginDoes
<1> HIDE DEF u, v
<1>4. /\ Good(v, X \ {j.old}) /\ Keeps(u, v) /\ Shown(v)
      /\ CallsStay(u, v) /\ v.call[0].at # "change"
      /\ v.sess = u.sess
  BY <1>1, <1>2, <1>3, ReceiveDoes
<1>5. Good(v, X)
  BY <1>2, <1>4, DevicesAssumption DEF Good, Held, DevicesAssumption
<1> QED BY <1>3, <1>4, <1>5 DEF Keeps, Heard, CallsStay, v

\* restartLocalVideo() begins; the former stream is kept for its callback.
LEMMA BeginRestartDoes ==
  ASSUME NEW w, NEW old, NEW same, NEW X, Good(w, X), w.job = NoJob, Settled(w, old)
  PROVE  LET v == BeginRestart(w, old, same)
         IN  /\ Good(v, X \ {old}) /\ Keeps(w, v) /\ Shown(v) /\ v.sess = w.sess
             /\ CallsStay(w, v) /\ v.call[0].at # "change"
<1> DEFINE stop  == [NoJob EXCEPT !.kind = "restartStop", !.old = old]
           start == [NoJob EXCEPT !.kind = "restartStart", !.old = old]
           stopping == [w EXCEPT !.job = stop]
           starting == [w EXCEPT !.job = start]
           off == StopTile(stopping)
           v == BeginRestart(w, old, same)
<1>1. v = ReceiveVideoInput(off, same) \/ v = ReceiveVideoInput(starting, same)
  BY DEF BeginRestart
<1>2. /\ stop \in Jobs /\ stop.kind = "restartStop" /\ stop.old = old
      /\ start \in Jobs /\ start.kind = "restartStart" /\ start.old = old
  BY DEF NoJob, Jobs, Ids, Settled
<1> HIDE DEF stop, start
<1>3. /\ Good(stopping, X \ {stop.old}) /\ Keeps(w, stopping) /\ stopping.job.kind = stop.kind
      /\ stopping.call = w.call /\ stopping.sess = w.sess /\ stopping.call[0].at = "idle"
  BY <1>2, BeginDoes
<1>4. /\ Good(starting, X \ {start.old}) /\ Keeps(w, starting) /\ starting.job.kind = start.kind
      /\ starting.call = w.call /\ starting.sess = w.sess /\ starting.call[0].at = "idle"
  BY <1>2, BeginDoes
<1> HIDE DEF stopping, starting, v
<1>5. /\ Good(off, X \ {old}) /\ Keeps(stopping, off)
      /\ off.call = stopping.call /\ off.sess = stopping.sess /\ off.tile = FALSE
      /\ off.job.kind # "none"
  BY <1>2, <1>3, StopTileDoes
<1> HIDE DEF off
<1>6. CASE v = ReceiveVideoInput(off, same)
  <2>1. off.call[0].at = "idle" /\ off.job.kind # "none"
    BY <1>3, <1>5
  <2>2. /\ Good(v, X \ {old}) /\ Keeps(off, v) /\ Shown(v)
        /\ CallsStay(off, v) /\ v.call[0].at # "change"
        /\ v.sess = off.sess
    BY <1>5, <1>6, <2>1, ReceiveDoes
  <2> QED BY <1>3, <1>5, <2>2 DEF Keeps, Heard, CallsStay, v
<1>7. CASE v = ReceiveVideoInput(starting, same)
  <2>1. starting.call[0].at = "idle" /\ starting.job.kind # "none" /\ Good(starting, X \ {old})
    BY <1>2, <1>4
  <2>2. /\ Good(v, X \ {old}) /\ Keeps(starting, v) /\ Shown(v)
        /\ CallsStay(starting, v) /\ v.call[0].at # "change"
        /\ v.sess = starting.sess
    BY <1>7, <2>1, ReceiveDoes
  <2> QED BY <1>4, <2>2 DEF Keeps, Heard, CallsStay, v
<1> QED BY <1>1, <1>6, <1>7

\* restartLocalVideo(): at once, deferred, or not at all.
LEMMA RestartLocalVideoDoes ==
  ASSUME NEW w, NEW old, NEW same, NEW X, Good(w, X), Settled(w, old)
  PROVE  LET v == RestartLocalVideo(w, old, same)
         IN  /\ Good(v, X \ {old}) /\ Keeps(w, v) /\ Shown(v)
             /\ CallsStay(w, v)
<1> DEFINE v == RestartLocalVideo(w, old, same)
<1>1. old \in Ids
  BY DEF Settled, Ids
<1>2. CASE Busy(w)
  <2>1. v = Defer(w, "restart", old)
    BY <1>2 DEF RestartLocalVideo
  <2> HIDE DEF v
  <2>2. /\ Good(v, X \ {old}) /\ Differ(w, v, {"stream", "slot"}) /\ Keeps(w, v) /\ Shown(v)
    BY <1>1, <1>2, <2>1, DeferDoes
  <2>3. v.call = w.call
    BY <2>2 DEF Differ, Fields
  <2> QED BY <2>2, <2>3 DEF CallsStay, v
<1>3. CASE ~Busy(w) /\ w.sess = "up"
  <2>1. v = BeginRestart(w, old, same)
    BY <1>3 DEF RestartLocalVideo
  <2>2. w.job = NoJob
    BY <1>3 DEF Busy
  <2> HIDE DEF v
  <2>3. /\ Good(v, X \ {old}) /\ Keeps(w, v) /\ Shown(v) /\ v.sess = w.sess
        /\ CallsStay(w, v)
    BY <2>1, <2>2, BeginRestartDoes
  <2> QED BY <2>3 DEF v
<1>4. CASE ~Busy(w) /\ w.sess # "up"
  <2>1. v = Spill(w, old) /\ w.sess # "start"
    BY <1>4 DEF RestartLocalVideo, Busy
  <2> HIDE DEF v
  <2>2. Good(v, X \ {old}) /\ Differ(w, v, {"stream"}) /\ Keeps(w, v)
    BY <2>1, SpillDoes
  <2>3. v.call = w.call /\ v.sess = w.sess
    BY <2>2 DEF Differ, Fields
  <2>4. Shown(v)
    BY <1>4, <2>1, <2>3 DEF Shown
  <2> QED BY <2>2, <2>3, <2>4 DEF CallsStay, v
<1> QED BY <1>2, <1>3, <1>4

\* startLocalVideoTile(), or the monitor.
LEMMA RequestUpdateDoes ==
  ASSUME NEW w, NEW same, NEW X, Good(w, X)
  PROVE  LET v == RequestUpdate(w, same)
         IN  Good(v, X) /\ Keeps(w, v) /\ Shows(w, v)
<1> DEFINE v == RequestUpdate(w, same)
<1>1. CASE Busy(w)
  <2>1. v = Defer(w, "update", 0)
    BY <1>1 DEF RequestUpdate
  <2> HIDE DEF v
  <2>2. Settled(w, 0) /\ 0 \in Ids
    BY DEF Settled, Ids
  <2>3. Good(v, X \ {0}) /\ Keeps(w, v) /\ Shown(v)
    BY <1>1, <2>1, <2>2, DeferDoes
  <2>4. Good(v, X)
    BY <2>3 DEF Good, Held
  <2> QED BY <2>3, <2>4 DEF Shows, v
<1>2. CASE ~Busy(w) /\ w.sess = "up"
  <2>1. v = BeginUpdate(w, same)
    BY <1>2 DEF RequestUpdate
  <2>2. w.job = NoJob
    BY <1>2 DEF Busy
  <2> HIDE DEF v
  <2>3. Good(v, X) /\ Keeps(w, v) /\ Shown(v)
    BY <2>1, <2>2, BeginUpdateDoes
  <2> QED BY <2>3 DEF Shows, v
<1>3. CASE ~Busy(w) /\ w.sess # "up"
  BY <1>3 DEF RequestUpdate, Keeps, Heard, Shows
<1> QED BY <1>1, <1>2, <1>3

-----------------------------------------------------------------------------
(* chooseInputDevice.                                                       *)

\* A stream that is there and that nothing refers to yet.
Ready(w, s) ==
  /\ s \in Streams /\ w.stream[s] \in {"live", "missed"}
  /\ s \notin Others(w) \cup {w.source}
  /\ \A c \in Numbers : w.call[c].stream # s

\* The device is selected, and its former stream not yet released.
Select(w, kind, s, device) == [w EXCEPT !.active[kind] = [stream |-> s, device |-> device]]

\* A stream is selected: the former selection is excused.
LEMMA SelectionIs ==
  ASSUME NEW w, NEW kind \in Kinds, NEW s,
         NEW device \in Microphones \cup Cameras \cup {NoDevice}, NEW X,
         Good(w, X), Ready(w, s)
  PROVE  LET v   == Select(w, kind, s, device)
             old == w.active[kind].stream
         IN  /\ Good(v, (X \ {s}) \cup {old}) /\ Differ(w, v, {"active"})
             /\ v.active[kind].stream = s
             /\ \A k \in Kinds \ {kind} : v.active[k] = w.active[k]
             /\ Settled(v, old) /\ s # old
             /\ v.active.video.stream # old \/ old = 0
             /\ Alive(w, 0) => Alive(v, 0)
             /\ Echo(w, 0) => Echo(v, old)
             /\ kind = "audio" \/ ~w.tile => Shows(w, v)
             /\ kind = "audio" /\ Off(w) => Off(v)
             /\ kind = "video" /\ Heard(w, 0) => Heard(v, 0)
<1> DEFINE new == [stream |-> s, device |-> device]
           v   == [w EXCEPT !.active[kind] = new]
           old == w.active[kind].stream
<1>0. Typed(w) /\ old \in Ids /\ old \in Others(w) /\ s \in Streams /\ s # 0 /\ s # Mix
  BY DevicesAssumption DEF Good, Typed, Others, Kinds, Ready, DevicesAssumption
<1>1. new \in [stream : Ids, device : Microphones \cup Cameras \cup {NoDevice}] /\ new.stream = s
  BY <1>0 DEF Ids
<1> HIDE DEF new
<1>2. /\ Typed(v) /\ v.stream = w.stream /\ v.call = w.call /\ v.preview = w.preview
      /\ v.source = w.source /\ v.sess = w.sess /\ v.job = w.job /\ v.slot = w.slot
      /\ v.tile = w.tile /\ v.using = w.using /\ v.refused = w.refused
      /\ v.active[kind] = new /\ \A k \in Kinds \ {kind} : v.active[k] = w.active[k]
  BY <1>0, <1>1 DEF Typed, Fields, Kinds
<1> HIDE DEF v
<1>3. Settled(w, old) /\ s # old
  BY <1>0, OthersAreSettled DEF Ready
<1>4. Settled(v, old)
  BY <1>2, <1>3 DEF Settled
<1>5. \A t : t \in Others(v) => t = s \/ t \in Others(w)
  BY <1>1, <1>2 DEF Others, Kinds
<1>6. \A t : t \in Others(w) \cup {s} => t = old \/ t \in Others(v)
  BY <1>1, <1>2 DEF Others, Kinds
<1>7. Held(v, (X \ {s}) \cup {old})
  BY <1>2, <1>6 DEF Good, Held
<1>8. Taken(v)
  BY <1>0, <1>2, <1>5 DEF Good, Taken, Ready
<1>9. Fresh(v)
  BY <1>2, <1>5 DEF Good, Fresh, Ready
<1>10. /\ kind = "video" => v.active.video.stream = s /\ v.active.audio = w.active.audio
       /\ kind = "audio" => v.active.audio.stream = s /\ v.active.video = w.active.video
       /\ kind \in {"audio", "video"}
  BY <1>1, <1>2 DEF Kinds
<1>11. Apart(v)
  BY <1>0, <1>2, <1>10 DEF Good, Apart, Ready, Others
<1>12. Control(v)
  BY <1>2 DEF Good, Control, Busy
<1>13. v.active.video.stream # old \/ old = 0
  BY <1>3, <1>10 DEF Good, Apart
<1>14. Alive(w, 0) => Alive(v, 0)
  BY <1>2, <1>10 DEF Alive, Ready
<1>15. (Echo(w, 0) => Echo(v, old)) /\ (kind = "audio" \/ ~w.tile => Shows(w, v))
  BY <1>2, <1>10, DevicesAssumption DEF Echo, Shows, Shown, IsLive, DevicesAssumption
<1>16. kind = "audio" /\ Off(w) => Off(v)
  BY <1>2, <1>10 DEF Off
<1>17. kind = "video" /\ Heard(w, 0) => Heard(v, 0)
  BY <1>2, <1>10 DEF Heard, Echo, Tuned, IsLive
<1>18. Differ(w, v, {"active"})
  BY <1>2 DEF Differ, Fields
<1> QED BY <1>1, <1>2, <1>3, <1>4, <1>7, <1>8, <1>9, <1>11, <1>12, <1>13, <1>14, <1>15, <1>16,
           <1>17, <1>18 DEF Good, v, new, Select

\* The source node of the mix takes the selected microphone.
LEMMA AttachDoes ==
  ASSUME NEW w, NEW X, Good(w, X), web
  PROVE  LET v == Attach(w)
         IN  Good(v, X) /\ Differ(w, v, {"source"}) /\ Keeps(w, v) /\ Shows(w, v) /\ Tuned(v)
<1> DEFINE v == Attach(w)
<1>1. /\ Typed(v) /\ v.active = w.active /\ v.call = w.call /\ v.preview = w.preview
      /\ v.source = w.active.audio.stream /\ v.sess = w.sess /\ v.job = w.job
      /\ v.slot = w.slot /\ v.tile = w.tile
      /\ v.using = w.using /\ v.refused = w.refused /\ v.stream = w.stream
  BY DEF Good, Typed, Fields, Attach, Kinds
<1> HIDE DEF v
<1>2. Others(v) = Others(w) /\ v.source \in Others(w)
  BY <1>1 DEF Others
<1>3. Held(v, X) /\ Taken(v) /\ Fresh(v)
  BY <1>1, <1>2 DEF Good, Held, Taken, Fresh
<1>4. Apart(v) /\ Control(v)
  BY <1>1 DEF Good, Apart, Control, Busy
<1>5. Keeps(w, v) /\ Shows(w, v) /\ Tuned(v)
  BY <1>1 DEF Keeps, Shows, Alive, Heard, Echo, Tuned, Shown, Off, IsLive
<1>6. Differ(w, v, {"source"})
  BY <1>1 DEF Differ, Fields
<1> QED BY <1>1, <1>3, <1>4, <1>5, <1>6 DEF Good, v

\* The session uses a microphone, or none.
LEMMA UseAudioDoes ==
  ASSUME NEW w, NEW s \in {0, w.active.audio.stream}, NEW X, Good(w, X)
  PROVE  LET v == UseAudio(w, s)
         IN  /\ Good(v, X) /\ Keeps(w, v) /\ Shows(w, v) /\ Echo(v, 0) /\ (~web => Tuned(v))
             /\ Differ(w, v, {"stream", "using", "refused"})
<1> DEFINE none == s = 0
           u == [w EXCEPT !.using.audio = s, !.refused = none]
           former == w.using.audio
           v == Spill(u, former)
<1>1. s \in Ids \cup {Mix} /\ none \in BOOLEAN /\ (none <=> s = 0)
  BY DEF Good, Typed, Kinds, Ids
<1> HIDE DEF none
<1>2. /\ Typed(u) /\ u.active = w.active /\ u.call = w.call /\ u.preview = w.preview
      /\ u.source = w.source /\ u.sess = w.sess /\ u.job = w.job /\ u.slot = w.slot
      /\ u.tile = w.tile /\ u.using.audio = s /\ u.using.video = w.using.video
      /\ u.stream = w.stream /\ u.refused = none
  BY <1>1 DEF Good, Typed, Fields, Kinds
<1> HIDE DEF u
<1>3. \A t : t \in Others(u) => t = 0 \/ t \in Others(w)
  BY <1>2 DEF Others
<1>4. \A t : t \in Others(w) => t = former \/ t \in Others(u)
  BY <1>2 DEF Others
<1>5. Held(u, X \cup {former})
  BY <1>2, <1>4 DEF Good, Held
<1>6. Taken(u)
  BY <1>2, <1>3, DevicesAssumption DEF Good, Taken, DevicesAssumption
<1>7. Fresh(u)
  BY <1>2, <1>3, FreshStays DEF Good
<1>8. Apart(u) /\ Control(u)
  BY <1>2 DEF Good, Apart, Control, Busy
<1>9. Good(u, X \cup {former})
  BY <1>2, <1>5, <1>6, <1>7, <1>8 DEF Good
<1>10. Keeps(w, u) /\ Shows(w, u) /\ Echo(u, 0) /\ (~web => Tuned(u))
  BY <1>1, <1>2, DevicesAssumption
     DEF Keeps, Shows, Alive, Heard, Echo, Tuned, Shown, Off, IsLive, DevicesAssumption
<1> HIDE DEF v
<1>11. /\ Good(v, (X \cup {former}) \ {former}) /\ Differ(u, v, {"stream"})
       /\ Keeps(u, v) /\ Shows(u, v)
  <2> HIDE DEF former
  <2>1. v = Spill(u, former)
    BY DEF v
  <2> QED BY <1>9, <2>1, SpillDoes
<1>12. Good(v, X)
  BY <1>11 DEF Good, Held
<1>13. Differ(w, v, {"stream", "using", "refused"})
  BY <1>2, <1>11 DEF Differ, Fields
<1>14. Keeps(w, v) /\ Shows(w, v) /\ Echo(v, 0) /\ (~web => Tuned(v))
  BY <1>10, <1>11 DEF Keeps, Heard, Shows
<1>15. v = UseAudio(w, s)
  BY DEF u, v, none, UseAudio
<1> QED BY <1>12, <1>13, <1>14, <1>15

\* The session takes the selected microphone.
LEMMA RestartLocalAudioDoes ==
  ASSUME NEW w, NEW X, Good(w, X), Echo(w, 0), ~web
  PROVE  LET v == RestartLocalAudio(w)
         IN  /\ Good(v, X) /\ Keeps(w, v) /\ Shows(w, v) /\ Heard(v, 0)
             /\ Differ(w, v, {"stream", "using", "refused"})
<1> DEFINE s == w.active.audio.stream
           b == TRUE
           u == [w EXCEPT !.refused = b]
           v == RestartLocalAudio(w)
<1>1. CASE HasPeer(w)
  <2>1. v = UseAudio(w, s)
    BY <1>1 DEF RestartLocalAudio
  <2> HIDE DEF v
  <2>2. /\ Good(v, X) /\ Keeps(w, v) /\ Shows(w, v) /\ Echo(v, 0) /\ Tuned(v)
        /\ Differ(w, v, {"stream", "using", "refused"})
    BY <2>1, UseAudioDoes
  <2> QED BY <2>2 DEF Heard, v
<1>2. CASE ~HasPeer(w)
  <2>1. v = u
    BY <1>2 DEF RestartLocalAudio
  <2>2. b \in BOOLEAN /\ b
    OBVIOUS
  <2> HIDE DEF v, b
  <2>3. /\ Typed(u) /\ u.active = w.active /\ u.call = w.call /\ u.preview = w.preview
        /\ u.source = w.source /\ u.sess = w.sess /\ u.job = w.job /\ u.slot = w.slot
        /\ u.tile = w.tile /\ u.using = w.using /\ u.stream = w.stream /\ u.refused
    BY <2>2 DEF Good, Typed, Fields
  <2> HIDE DEF u
  <2>4. Others(u) = Others(w)
    BY <2>3 DEF Others
  <2>5. Held(u, X) /\ Taken(u) /\ Fresh(u)
    BY <2>3, <2>4 DEF Good, Held, Taken, Fresh
  <2>6. Apart(u) /\ Control(u)
    BY <2>3 DEF Good, Apart, Control, Busy
  <2>7. Keeps(w, u) /\ Shows(w, u) /\ Heard(u, 0)
    BY <2>3 DEF Keeps, Shows, Alive, Heard, Echo, Tuned, Shown, Off, IsLive
  <2>8. Differ(w, u, {"stream", "using", "refused"})
    BY <2>3 DEF Differ, Fields
  <2> QED BY <2>1, <2>3, <2>5, <2>6, <2>7, <2>8 DEF Good, v
<1> QED BY <1>1, <1>2

\* An installed stream is selected and the former selection released; a call that
\* has to ask again prompts, and any other is as it was.
LEMMA InstallDoes ==
  ASSUME NEW w, NEW c \in Numbers, NEW kind \in Kinds, NEW s, NEW same,
         NEW device \in Microphones \cup Cameras \cup {NoDevice}, NEW X,
         Good(w, X), Ready(w, s), Alive(w, 0), Heard(w, 0),
         w.stream[s] = "live" \/ (w.call[c].at = "idle" /\ (c = 0 => w.job.receiving))
  PROVE  LET v == Install(w, c, kind, device, s, same)
         IN  /\ Good(v, X \ {s}) /\ Alive(v, 0) /\ Heard(v, 0)
             /\ IF c = 0 /\ kind = "video" THEN Lit(w) => Lit(v) ELSE Shows(w, v)
             /\ kind = "audio" /\ Off(w) => Off(v)
             /\ v.call[c] = w.call[c] \/ v.call[c].at = "prompt"
             /\ w.stream[s] = "live" \/ kind = "video" => v.call[c] = w.call[c]
<1> DEFINE old == w.active[kind].stream
           x == Select(w, kind, s, device)
           u == ReleaseMediaStream(x, old)
           v == Install(w, c, kind, device, s, same)
<1>1. v = IF kind = "video"
          THEN IF c # 0 /\ x.tile THEN RestartLocalVideo(x, old, same) ELSE u
          ELSE IF web THEN Attach(u)
          ELSE IF IsLive(u, s) THEN RestartLocalAudio(u)
          ELSE Prompt(ReleaseMediaStream(u, s), c, kind, device)
  BY DEF Install, Select
<1>2. /\ Good(x, (X \ {s}) \cup {old}) /\ Differ(w, x, {"active"}) /\ x.active[kind].stream = s
      /\ Settled(x, old) /\ s # old
      /\ x.active.video.stream # old \/ old = 0
      /\ Alive(x, 0) /\ Echo(x, old) /\ (kind = "audio" \/ ~w.tile => Shows(w, x))
      /\ kind = "audio" /\ Off(w) => Off(x)
      /\ kind = "video" => Heard(x, 0)
  <2>1. s # old
    BY DEF Ready, Others, Kinds
  <2>2. x.active[kind].stream = s
    BY DEF Good, Typed, Select, Fields, Kinds
  <2>3. /\ Good(x, (X \ {s}) \cup {old}) /\ Differ(w, x, {"active"}) /\ Settled(x, old)
        /\ Alive(x, 0) /\ Echo(x, old) /\ (kind = "audio" \/ ~w.tile => Shows(w, x))
    BY SelectionIs DEF Heard
  <2>4. /\ x.active.video.stream # old \/ old = 0
        /\ kind = "audio" /\ Off(w) => Off(x)
        /\ kind = "video" => Heard(x, 0)
    BY SelectionIs
  <2> QED BY <2>1, <2>2, <2>3, <2>4
<1>3. /\ x.stream = w.stream /\ x.call = w.call /\ x.job = w.job
      /\ x.using = w.using /\ x.refused = w.refused
      /\ x.source = w.source /\ x.tile = w.tile /\ x.sess = w.sess /\ x.slot = w.slot
  BY <1>2 DEF Differ, Fields
<1> HIDE DEF old, x, v
<1>4. /\ Good(u, ((X \ {s}) \cup {old}) \ {old}) /\ Keeps(x, u) /\ Repairs(x, u, old)
      /\ Shows(x, u)
      /\ u.call = x.call /\ u.sess = x.sess
      /\ x.active.video.stream # old \/ old = 0 => u = StopTracks(x, old)
  BY <1>2, ReleaseDoes
<1>5. Ended(x, u, old) /\ Deselected(x, u, old) /\ Differ(x, u, {"stream", "active"})
  <2>1. u = StopTracks(x, old)
    BY <1>2, <1>4
  <2> HIDE DEF u
  <2> QED BY <1>2, <2>1, StopTracksDoes
<1> HIDE DEF u
<1>6. Good(u, X \ {s})
  BY <1>4 DEF Good, Held
<1>7. /\ Alive(u, 0) /\ Echo(u, 0) /\ (kind = "audio" /\ Off(w) => Off(u))
      /\ kind = "video" => Heard(u, 0)
      /\ kind = "audio" \/ ~w.tile => Shows(w, u)
  BY <1>2, <1>4 DEF Keeps, Heard, Repairs, Shows
<1>8. /\ u.stream[s] = w.stream[s] /\ u.active[kind].stream = s /\ u.call = w.call
      /\ u.job = w.job /\ u.using = w.using /\ u.refused = w.refused /\ u.source = w.source
      /\ u.tile = w.tile /\ u.sess = w.sess /\ u.slot = w.slot
  BY <1>2, <1>3, <1>4, <1>5 DEF Ended, Deselected, Differ, Fields, Ready
<1>9. CASE kind = "video" /\ c # 0 /\ v = RestartLocalVideo(x, old, same)
  <2>1. /\ Good(v, ((X \ {s}) \cup {old}) \ {old}) /\ Keeps(x, v) /\ Shown(v)
        /\ CallsStay(x, v)
    BY <1>2, <1>9, RestartLocalVideoDoes
  <2>2. Good(v, X \ {s})
    BY <2>1 DEF Good, Held
  <2>3. Alive(v, 0) /\ Heard(v, 0)
    BY <1>2, <1>9, <2>1 DEF Keeps, Heard
  <2>4. v.call[c] = w.call[c]
    BY <1>3, <1>9, <2>1 DEF CallsStay, Numbers
  <2> QED BY <1>9, <2>1, <2>2, <2>3, <2>4 DEF Shows, v
<1>10. CASE kind = "video" /\ v = u /\ (c = 0 \/ ~w.tile)
  <2>1. Lit(w) => Lit(v)
    BY <1>8, <1>10 DEF Lit
  <2> QED BY <1>6, <1>7, <1>8, <1>10, <2>1 DEF v
<1>11. CASE kind = "audio" /\ web /\ v = Attach(u)
  <2>1. /\ Good(v, X \ {s}) /\ Differ(u, v, {"source"}) /\ Keeps(u, v) /\ Shows(u, v)
        /\ Tuned(v)
    BY <1>6, <1>11, AttachDoes
  <2>2. v.call = u.call
    BY <2>1 DEF Differ, Fields
  <2>3. Shows(w, v)
    BY <1>7, <1>11, <2>1 DEF Shows
  <2> QED BY <1>7, <1>8, <1>11, <2>1, <2>2, <2>3 DEF Keeps, Heard, v
<1>12. CASE kind = "audio" /\ ~web /\ v = RestartLocalAudio(u)
  <2>1. /\ Good(v, X \ {s}) /\ Keeps(u, v) /\ Shows(u, v)
        /\ Heard(v, 0) /\ Differ(u, v, {"stream", "using", "refused"})
    BY <1>6, <1>7, <1>12, RestartLocalAudioDoes
  <2>2. v.call = u.call
    BY <2>1 DEF Differ, Fields
  <2>3. Shows(w, v)
    BY <1>7, <1>12, <2>1 DEF Shows
  <2> QED BY <1>7, <1>8, <1>12, <2>1, <2>2, <2>3 DEF Keeps, v
<1>13. CASE /\ kind = "audio" /\ ~IsLive(u, s)
            /\ v = Prompt(ReleaseMediaStream(u, s), c, kind, device)
  <2> DEFINE y == ReleaseMediaStream(u, s)
  <2>1. w.stream[s] # "live" /\ s \in Streams
    BY <1>8, <1>13 DEF IsLive, Ready
  <2>2. Settled(u, s)
    BY <1>8, <2>1 DEF Settled, Ready
  <2>3. u.active.video.stream # s
    BY <1>2, <1>5, <1>6, <1>8, <1>13, <2>1, DevicesAssumption
       DEF Good, Apart, Kinds, DevicesAssumption
  <2>4. /\ Good(y, (X \ {s}) \ {s}) /\ Keeps(u, y) /\ Shows(u, y) /\ y.call = u.call
        /\ u.active.video.stream # s \/ s = 0 => y = StopTracks(u, s)
    BY <1>6, <2>2, ReleaseDoes
  <2>5. y.job = u.job
    <3>1. y = StopTracks(u, s)
      BY <2>3, <2>4
    <3> HIDE DEF y
    <3>2. Differ(u, y, {"stream", "active"})
      BY <1>6, <2>2, <3>1, StopTracksDoes
    <3> QED BY <3>2 DEF Differ, Fields
  <2>5a. Tuned(y)
    <3>1. y = StopTracks(u, s)
      BY <2>3, <2>4
    <3> HIDE DEF y
    <3>2. Deselected(u, y, s)
      BY <1>6, <2>2, <3>1, StopTracksDoes
    <3> QED BY <1>8, <1>13, <3>2 DEF Deselected, Tuned, Kinds
  <2>6. v = Prompt(y, c, kind, device)
    BY <1>13
  <2> HIDE DEF y
  <2>7. y.call[c].at = "idle" /\ (c = 0 => y.job.receiving)
    BY <1>8, <2>1, <2>4, <2>5
  <2>7a. kind = "audio"
    BY <1>13
  <2>8. /\ Good(v, (X \ {s}) \ {s}) /\ v.call[c].at = "prompt"
        /\ Alive(y, 0) => Alive(v, 0)
        /\ (Echo(y, 0) => Echo(v, 0)) /\ (Tuned(y) => Tuned(v))
        /\ kind = "audio" /\ Off(y) => Off(v)
        /\ Shows(y, v)
    BY <2>4, <2>6, <2>7, <2>7a, PromptDoes
  <2>9. Good(v, X \ {s})
    BY <2>8 DEF Good, Held
  <2>10. Shows(w, v)
    BY <1>7, <1>13, <2>4, <2>8 DEF Shows
  <2> QED BY <1>7, <1>13, <2>1, <2>4, <2>5a, <2>8, <2>9, <2>10 DEF Keeps, Heard, v
<1>14. kind \in {"audio", "video"}
  BY DEF Kinds
<1> QED BY <1>1, <1>3, <1>9, <1>10, <1>11, <1>12, <1>13, <1>14

\* A new stream is live before anything refers to it.
LEMMA CaptureDoes ==
  ASSUME NEW w, NEW X, Good(w, X), Free(w) # {}
  PROVE  LET s == Capture(w)
             v == [w EXCEPT !.stream[s] = "live"]
         IN  /\ s \in Streams /\ Good(v, X \cup {s}) /\ Ready(v, s) /\ v.stream[s] = "live"
             /\ Differ(w, v, {"stream"}) /\ Keeps(w, v) /\ Shows(w, v)
<1> DEFINE s == Capture(w)
           v == [w EXCEPT !.stream[s] = "live"]
<1>1. s \in Streams /\ w.stream[s] = "free"
  BY DEF Capture, Free
<1> HIDE DEF s
<1>2. /\ Typed(v) /\ v.active = w.active /\ v.call = w.call /\ v.preview = w.preview
      /\ v.source = w.source /\ v.sess = w.sess /\ v.job = w.job /\ v.slot = w.slot
      /\ v.tile = w.tile /\ v.using = w.using /\ v.refused = w.refused
      /\ v.stream[s] = "live" /\ \A t \in Streams \ {s} : v.stream[t] = w.stream[t]
  BY <1>1 DEF Good, Typed, Fields
<1>3. s \notin Others(w) \cup {w.source} /\ \A c \in Numbers : w.call[c].stream # s
  BY <1>1 DEF Good, Taken
<1> HIDE DEF v
<1>4. Others(v) = Others(w)
  BY <1>2 DEF Others
<1>5. Held(v, X \cup {s}) /\ Taken(v)
  BY <1>2, <1>4 DEF Good, Held, Taken
<1>6. Fresh(v)
  BY <1>2, <1>3, <1>4, FreshStays DEF Good
<1>7. Apart(v) /\ Control(v)
  BY <1>2 DEF Good, Apart, Control, Busy
<1>8. Keeps(w, v) /\ Shows(w, v)
  BY <1>2, <1>3 DEF Keeps, Shows, Alive, Heard, Echo, Tuned, Shown, Off, IsLive, Others
<1>9. Differ(w, v, {"stream"})
  BY <1>2 DEF Differ, Fields
<1>10. Ready(v, s)
  BY <1>1, <1>2, <1>3, <1>4 DEF Ready
<1> QED BY <1>1, <1>2, <1>5, <1>6, <1>7, <1>8, <1>9, <1>10 DEF Good, v, s

\* A stream that has just ended is released as any other.
LEMMA NoVideoDoes ==
  ASSUME NEW w, NEW s, Good(w, {}), s = w.active.video.stream,
         Alive(w, s), Heard(w, s), Shown(w)
  PROVE  LET v == NoVideo(w)
         IN  Good(v, {}) /\ Alive(v, 0) /\ Heard(v, 0) /\ Shown(v) /\ Off(v)
<1> DEFINE calls == [c \in DOMAIN w.call |->
              [w.call[c] EXCEPT !.overruled = @ \/ (w.call[c].kind = "video" /\
                                                    w.call[c].at # "idle")]]
           u == [w EXCEPT !.call = calls]
           x == StopTracks(u, s)
           v == NoVideo(w)
<1>1. /\ calls \in [Numbers -> [at : {"idle", "prompt", "change"}, kind : Kinds,
                                device : Microphones \cup Cameras \cup {NoDevice},
                                stream : Ids, overruled : BOOLEAN]]
      /\ \A c \in Numbers :
           /\ calls[c].at = w.call[c].at /\ calls[c].kind = w.call[c].kind
           /\ calls[c].stream = w.call[c].stream
           /\ calls[c].at # "idle" /\ calls[c].kind = "video" => calls[c].overruled
  <2> DEFINE Call == [at : {"idle", "prompt", "change"}, kind : Kinds,
                      device : Microphones \cup Cameras \cup {NoDevice},
                      stream : Ids, overruled : BOOLEAN]
             hit(c)  == w.call[c].overruled \/ (w.call[c].kind = "video" /\
                                                w.call[c].at # "idle")
             next(c) == [w.call[c] EXCEPT !.overruled = hit(c)]
  <2>1. w.call \in [Numbers -> Call]
    BY DEF Good, Typed
  <2>2. calls = [c \in Numbers |-> next(c)]
    BY <2>1
  <2>3. ASSUME NEW c \in Numbers
        PROVE  /\ next(c) \in Call
               /\ next(c).at = w.call[c].at /\ next(c).kind = w.call[c].kind
               /\ next(c).stream = w.call[c].stream
               /\ next(c).at # "idle" /\ next(c).kind = "video" => next(c).overruled
    <3> DEFINE a == w.call[c]
               b == hit(c)
               n == [a EXCEPT !.overruled = b]
    <3>1. a \in Call /\ b \in BOOLEAN
      BY <2>1
    <3>2. a.kind = "video" /\ a.at # "idle" => b
      OBVIOUS
    <3> HIDE DEF a, b
    <3>3. /\ n \in Call
          /\ n.at = a.at /\ n.kind = a.kind /\ n.stream = a.stream /\ n.overruled = b
      BY <3>1
    <3> QED BY <3>2, <3>3 DEF a, b
  <2> HIDE DEF next, Call
  <2> QED BY ZenonT(60), <2>2, <2>3 DEF Call
<1> HIDE DEF calls
<1>2. /\ Typed(u) /\ u.active = w.active /\ u.call = calls /\ u.preview = w.preview
      /\ u.source = w.source /\ u.sess = w.sess /\ u.job = w.job /\ u.slot = w.slot
      /\ u.tile = w.tile /\ u.using = w.using /\ u.refused = w.refused /\ u.stream = w.stream
  BY <1>1 DEF Good, Typed, Fields
<1>3. v = ReleaseMediaStream(u, s)
  BY <1>2 DEF NoVideo, calls
<1> HIDE DEF u, v
<1>4. Others(u) = Others(w)
  BY <1>2 DEF Others
<1>5. Held(u, {}) /\ Taken(u) /\ Fresh(u)
  BY <1>1, <1>2, <1>4 DEF Good, Held, Taken, Fresh
<1>6. Apart(u) /\ Control(u)
  BY <1>1, <1>2 DEF Good, Apart, Control, Busy, Numbers
<1>7. Good(u, {})
  BY <1>2, <1>5, <1>6 DEF Good
<1>8. Alive(u, s) /\ Heard(u, s) /\ Shown(u)
  BY <1>1, <1>2 DEF Alive, Heard, Echo, Tuned, Shown, IsLive, Numbers
<1>9. Settled(u, s)
  <2>1. s \in Ids /\ s \in Others(u)
    BY <1>2 DEF Good, Typed, Others, Kinds
  <2> QED BY <1>7, <2>1, OthersAreSettled
<1>10. /\ Good(v, {} \ {s}) /\ Repairs(u, v, s)
       /\ v = StopTracks(u, s) \/ v = StopTile(StopTracks(u, s))
  BY <1>3, <1>7, <1>9, ReleaseDoes
<1>11. /\ Good(x, {} \ {s}) /\ Differ(u, x, {"stream", "active"}) /\ Deselected(u, x, s)
  BY <1>7, <1>9, StopTracksDoes
<1>12. Off(x)
  <2>1. x.call = calls
    BY <1>2, <1>11 DEF Differ, Fields
  <2>2. x.active.video.stream = 0
    BY <1>2, <1>11 DEF Deselected, Kinds
  <2> HIDE DEF x
  <2> QED BY <1>1, <2>1, <2>2 DEF Off
<1>13. Off(v)
  <2>1. CASE v = x
    BY <1>12, <2>1
  <2>2. CASE v = StopTile(x)
    <3> HIDE DEF x
    <3>1. Keeps(x, v)
      BY <1>11, <2>2, StopTileDoes
    <3> QED BY <1>12, <3>1 DEF Keeps, Heard
  <2> QED BY <1>10, <2>1, <2>2
<1>14. Good(v, {})
  BY <1>10 DEF Good, Held
<1>15. Heard(v, 0) /\ Shown(v)
  <2>1. Keeps(u, v) /\ Shows(u, v)
    BY <1>3, <1>7, <1>9, ReleaseDoes
  <2> QED BY <1>8, <1>10, <2>1 DEF Repairs, Keeps, Heard, Shows
<1> QED BY <1>8, <1>10, <1>13, <1>14, <1>15 DEF Repairs, v

\* What a device is chosen for is selected at once, or asked for by a call.
LEMMA ChooseDoes ==
  ASSUME NEW w, NEW c \in Numbers, NEW kind \in Kinds, NEW same,
         NEW device \in Microphones \cup Cameras \cup {NoDevice}, NEW x,
         Good(w, {}), Alive(w, x), Echo(w, 0), Free(w) # {},
         x = 0 \/ (kind = "audio" /\ x = w.active.audio.stream /\ ~IsLive(w, x)),
         kind = "audio" \/ device # NoDevice
  PROVE  \E u : /\ Good(u, {}) /\ Alive(u, 0) /\ Echo(u, 0) /\ Shows(w, u)
                /\ Tuned(w) => Tuned(u)
                /\ kind = "audio" /\ Off(w) => Off(u)
                /\ \/ /\ Choose(w, c, kind, device, same) = u
                      /\ u.call[c] = w.call[c]
                   \/ /\ Choose(w, c, kind, device, same) = Prompt(u, c, kind, device)
                      /\ device # NoDevice /\ (kind = "audio" => Tuned(u))
                      /\ u.call = w.call /\ u.job = w.job /\ u.sess = w.sess
<1> DEFINE a == w.active.audio.stream
           v == IF kind = "audio" THEN ReleaseMediaStream(w, a) ELSE w
           s == Capture(v)
           y == [v EXCEPT !.stream[s] = "live"]
           z == Install(y, c, kind, device, s, same)
<1>1. Choose(w, c, kind, device, same) =
        IF Reusable(w, kind, device, same) THEN w
        ELSE IF device = NoDevice THEN z ELSE Prompt(v, c, kind, device)
  BY DEF Choose, Kinds
<1>2. CASE Reusable(w, kind, device, same)
  <2>1. Alive(w, 0)
    BY <1>2 DEF Reusable
  <2> QED BY <1>1, <1>2, <2>1 DEF Shows
<1>3. /\ Good(v, {}) /\ Alive(v, 0) /\ Echo(v, 0) /\ Shows(w, v) /\ (Off(w) => Off(v))
      /\ (Tuned(w) => Tuned(v)) /\ (kind = "audio" => Tuned(v))
      /\ v.call = w.call /\ v.job = w.job /\ v.sess = w.sess
      /\ \A t \in Streams : w.stream[t] = "free" => v.stream[t] = "free"
  <2>1. CASE kind # "audio"
    BY <2>1 DEF Shows
  <2>2. CASE kind = "audio"
    <3>1. a \in Ids /\ a \in Others(w)
      BY DEF Good, Typed, Others, Kinds
    <3>2. Settled(w, a)
      BY <3>1, OthersAreSettled
    <3>3. w.active.video.stream # a \/ a = 0
      BY DEF Good, Apart
    <3> DEFINE r == ReleaseMediaStream(w, a)
    <3> HIDE DEF a
    <3>4. /\ Good(r, {} \ {a}) /\ Keeps(w, r) /\ Shows(w, r) /\ Repairs(w, r, a)
          /\ r = StopTracks(w, a)
      BY <3>2, <3>3, ReleaseDoes
    <3> HIDE DEF r
    <3>5. Ended(w, r, a) /\ Differ(w, r, {"stream", "active"}) /\ Deselected(w, r, a)
      BY <3>2, <3>4, StopTracksDoes
    <3>6. r.call = w.call /\ r.job = w.job /\ r.sess = w.sess
      BY <3>5 DEF Differ, Fields
    <3>7. \A t \in Streams : w.stream[t] = "free" => r.stream[t] = "free"
      BY <3>2, <3>5, DevicesAssumption DEF Ended, Settled, DevicesAssumption
    <3>8. Good(r, {})
      BY <3>4 DEF Good, Held
    <3>9. Alive(r, 0) /\ Echo(r, 0) /\ (Off(w) => Off(r))
      BY <3>4, <2>2 DEF Keeps, Heard, Repairs, a
    <3>9a. Tuned(r)
      BY <3>5 DEF Deselected, Tuned, Kinds, a
    <3>10. v = r
      BY <2>2 DEF r
    <3> QED BY <3>9a, <3>4, <3>6, <3>7, <3>8, <3>9, <3>10
  <2> QED BY <2>1, <2>2
<1> HIDE DEF v
<1>4. CASE ~Reusable(w, kind, device, same) /\ device = NoDevice
  <2>1. kind = "audio"
    BY <1>4
  <2>2. Free(v) # {}
    BY <1>3 DEF Free
  <2>3. /\ s \in Streams /\ Good(y, {} \cup {s}) /\ Ready(y, s) /\ y.stream[s] = "live"
        /\ Differ(v, y, {"stream"}) /\ Keeps(v, y) /\ Shows(v, y)
    BY <1>3, <2>2, CaptureDoes
  <2> HIDE DEF s, y
  <2>4. Alive(y, 0) /\ Heard(y, 0) /\ (Off(v) => Off(y)) /\ y.call = v.call
    BY <1>3, <2>1, <2>3 DEF Keeps, Heard, Differ, Fields
  <2>5. /\ Good(z, ({} \cup {s}) \ {s}) /\ Alive(z, 0) /\ Heard(z, 0) /\ Shows(y, z)
        /\ kind = "audio" /\ Off(y) => Off(z)
        /\ z.call[c] = y.call[c]
    <3>1. Good(y, {s}) /\ y.stream[s] = "live"
      BY <2>3
    <3>2. /\ Good(z, {s} \ {s}) /\ Alive(z, 0) /\ Heard(z, 0)
          /\ IF c = 0 /\ kind = "video" THEN Lit(y) => Lit(z) ELSE Shows(y, z)
          /\ kind = "audio" /\ Off(y) => Off(z)
          /\ y.stream[s] = "live" \/ kind = "video" => z.call[c] = y.call[c]
      BY <2>3, <2>4, <3>1, InstallDoes
    <3> HIDE DEF z
    <3> QED BY <2>1, <3>1, <3>2
  <2> HIDE DEF z
  <2>6. Good(z, {})
    BY <2>5 DEF Good, Held
  <2>7. Shows(w, z) /\ (Off(w) => Off(z)) /\ z.call[c] = w.call[c]
    BY <1>3, <2>1, <2>3, <2>4, <2>5 DEF Shows
  <2>8. Choose(w, c, kind, device, same) = z
    BY <1>1, <1>4
  <2> QED BY <2>5, <2>6, <2>7, <2>8 DEF Heard
<1>5. CASE ~Reusable(w, kind, device, same) /\ device # NoDevice
  BY <1>1, <1>3, <1>5
<1> QED BY <1>2, <1>4, <1>5

-----------------------------------------------------------------------------
(* The await of a call is over.                                             *)

\* The session no longer waits for its call.
LEMMA ReceivedIs ==
  ASSUME NEW w, NEW X, Good(w, X), w.call[0].at = "idle"
  PROVE  LET v == [w EXCEPT !.job.receiving = FALSE]
         IN  Good(v, X) /\ Differ(w, v, {"job"}) /\ Keeps(w, v) /\ Shows(w, v)
<1> DEFINE no == FALSE
           j == [w.job EXCEPT !.receiving = no]
           v == [w EXCEPT !.job = j]
<1>1. no \in BOOLEAN
  OBVIOUS
<1>2. v = [w EXCEPT !.job.receiving = FALSE]
  OBVIOUS
<1> HIDE DEF no
<1>3. /\ j \in Jobs /\ j.kind = w.job.kind /\ j.old = w.job.old /\ j.receiving = no
      /\ w.job \in Jobs
  BY <1>1 DEF Good, Typed, Jobs
<1>4. CASE w.job.kind = "none"
  <2>1. w.job = NoJob /\ NoJob \in Jobs /\ NoJob.receiving = no
    BY <1>4 DEF Good, Control, NoJob, no, Jobs, Ids
  <2>2. j = w.job
    BY <1>3, <2>1 DEF Jobs
  <2> HIDE DEF j
  <2>3. v = w
    BY <2>2 DEF Good, Typed
  <2> QED BY <1>2, <2>3 DEF Keeps, Heard, Shows, Differ
<1>5. CASE w.job.kind # "none"
  <2> HIDE DEF j
  <2>1. Settled(w, j.old)
    <3>1. w.job.old \in Ids /\ w.job.old \in Others(w)
      BY DEF Good, Typed, Others
    <3> QED BY <1>3, <3>1, OthersAreSettled
  <2>2. w.sess = "start" => j.kind \in {"start", "join"} /\ j.old = 0
    BY <1>3 DEF Good, Control
  <2>3. Good(v, X \ {j.old}) /\ Differ(w, v, {"job"}) /\ Keeps(w, v) /\ Shows(w, v)
    BY <1>3, <1>5, <2>1, <2>2, JobGiven
  <2> HIDE DEF v
  <2>4. Good(v, X)
    BY <2>3 DEF Good, Held
  <2> QED BY <1>2, <2>3, <2>4
<1> QED BY <1>4, <1>5

\* What follows a call of this kind, once it is over.
Served(w, c, kind, granted) ==
  LET taken == IF granted THEN w.active[kind].stream ELSE 0
      v     == [w EXCEPT !.job.receiving = FALSE]
  IN  IF c # 0 THEN w
      ELSE IF kind = "video" THEN UseVideo(w, taken)
      ELSE UseAudio(v, taken)

\* The session takes what its call was made for.
LEMMA ServedDoes ==
  ASSUME NEW w, NEW c \in Numbers, NEW kind \in Kinds, NEW granted, NEW X, Good(w, X),
         w.call[c].at = "idle"
  PROVE  LET v == Served(w, c, kind, granted)
         IN  /\ Good(v, X) /\ Keeps(w, v)
             /\ IF c = 0 /\ kind = "video" THEN Lit(w) => Shown(v) ELSE Shows(w, v)
<1> DEFINE taken == IF granted THEN w.active[kind].stream ELSE 0
           u == [w EXCEPT !.job.receiving = FALSE]
           x == UseAudio(u, taken)
           v == Served(w, c, kind, granted)
<1>1. v = IF c # 0 THEN w ELSE IF kind = "video" THEN UseVideo(w, taken) ELSE x
  BY DEF Served
<1>2. taken \in {0, w.active[kind].stream} /\ kind \in {"audio", "video"}
  BY DEF Kinds
<1> HIDE DEF taken, v
<1>3. CASE c # 0
  BY <1>1, <1>3 DEF Keeps, Heard, Shows, v
<1>4. CASE c = 0 /\ kind = "video"
  <2>1. Good(v, X) /\ Keeps(w, v) /\ (Lit(w) => Shown(v))
    BY <1>1, <1>2, <1>4, UseVideoDoes
  <2> QED BY <1>4, <2>1 DEF v
<1>5. CASE c = 0 /\ kind = "audio"
  <2>1. Good(u, X) /\ Differ(w, u, {"job"}) /\ Keeps(w, u) /\ Shows(w, u)
    BY <1>5, ReceivedIs
  <2>2. u.active = w.active
    BY <2>1 DEF Differ, Fields
  <2> HIDE DEF u
  <2>3. taken \in {0, u.active.audio.stream}
    BY <1>2, <1>5, <2>2
  <2>4. Good(x, X) /\ Keeps(u, x) /\ Shows(u, x)
    BY <2>1, <2>3, UseAudioDoes
  <2>5. v = x
    BY <1>1, <1>5
  <2> QED BY <1>5, <2>1, <2>4, <2>5 DEF Keeps, Heard, Shows, v
<1> QED BY <1>2, <1>3, <1>4, <1>5

\* The call of acquireInputStream is over: the session takes what is selected.
LEMMA FinishIs ==
  ASSUME NEW w, NEW c \in Numbers, NEW granted, Typed(w)
  PROVE  Finish(w, c, granted) =
           Served([w EXCEPT !.call[c] = Idle], c, w.call[c].kind, granted)
<1> DEFINE v == [w EXCEPT !.call[c] = Idle]
<1>1. v.active = w.active
  BY DEF Typed, Fields
<1> HIDE DEF v
<1> QED BY <1>1 DEF Finish, Served, v

\* A call that is not overruled gets the new stream, and waits for the devices.
LEMMA GrantDoes ==
  ASSUME NEW w, NEW c \in Numbers, Good(w, {}), Free(w) # {}, w.call[c].at = "prompt",
         ~w.call[c].overruled
  PROVE  LET s == Capture(w)
             v == PromptGranted(w, c, s)
         IN  /\ Good(v, {}) /\ Keeps(w, v) /\ Shows(w, v)
             /\ v.call[c].at = "change" /\ v.call[c].stream = s
             /\ v.call[c].kind = w.call[c].kind
<1> DEFINE s == Capture(w)
           y == [w EXCEPT !.stream[s] = "live"]
           b == [w.call[c] EXCEPT !.at = "change", !.stream = s]
           z == [y EXCEPT !.call[c] = b]
           v == PromptGranted(w, c, s)
<1>1. /\ s \in Streams /\ Good(y, {} \cup {s}) /\ Ready(y, s) /\ y.stream[s] = "live"
      /\ Differ(w, y, {"stream"}) /\ Keeps(w, y) /\ Shows(w, y)
  BY CaptureDoes
<1>2. v = [w EXCEPT !.stream[s] = "live", !.call[c].at = "change", !.call[c].stream = s]
  BY DEF PromptGranted
<1> HIDE DEF s, v
<1>3. v = z
  <2> DEFINE str == [w.stream EXCEPT ![s] = "live"]
             a == w.call[c]
             a1 == [a EXCEPT !.at = "change"]
             a2 == [a1 EXCEPT !.stream = s]
             k1 == [w.call EXCEPT ![c] = a1]
             k2 == [k1 EXCEPT ![c] = a2]
             k3 == [w.call EXCEPT ![c] = b]
  <2>1. DOMAIN w = Fields /\ DOMAIN w.call = Numbers /\ DOMAIN y = Fields
    BY DEF Good, Typed
  <2>2. y = [w EXCEPT !.stream = str] /\ y.call = w.call
    BY <2>1 DEF Fields
  <2>3. k1[c] = a1
    BY <2>1
  <2>4. v = [w EXCEPT !.stream = str, !.call = k2]
    BY <1>2, <2>1, <2>3 DEF Fields
  <2>5. a2 = b
    OBVIOUS
  <2> HIDE DEF a2, b, a1, str
  <2>6. k2 = k3
    BY <2>5
  <2>7. z = [y EXCEPT !.call = k3]
    BY <2>2
  <2> HIDE DEF k2, k3
  <2> QED BY <2>2, <2>4, <2>6, <2>7
<1>4. Typed(w) /\ y.call = w.call
  BY <1>1 DEF Good, Differ, Fields
<1>5. /\ b \in [at : {"idle", "prompt", "change"}, kind : Kinds,
                device : Microphones \cup Cameras \cup {NoDevice},
                stream : Ids, overruled : BOOLEAN]
      /\ b.at = "change" /\ b.stream = s /\ b.kind = w.call[c].kind
      /\ b.overruled = w.call[c].overruled
  BY ZenonT(60), <1>1, <1>4 DEF Typed, Ids
<1> HIDE DEF b, y
<1>6. /\ Typed(z) /\ z.active = y.active /\ z.preview = y.preview
      /\ z.source = y.source /\ z.sess = y.sess /\ z.job = y.job /\ z.slot = y.slot
      /\ z.tile = y.tile /\ z.using = y.using /\ z.refused = y.refused /\ z.stream = y.stream
      /\ z.call[c] = b /\ \A d \in Numbers \ {c} : z.call[d] = y.call[d]
  BY ZenonT(60), <1>1, <1>5 DEF Good, Typed, Fields
<1> HIDE DEF z
<1>7. Others(z) = Others(y)
  BY <1>6 DEF Others
<1>8. s # 0
  BY <1>1, DevicesAssumption DEF DevicesAssumption
<1>9. y.call[c].stream = 0
  BY <1>4 DEF Good, Fresh
<1>10. Held(z, {})
  <2>1. \A d \in Numbers : y.call[d].stream \in Ids
    BY <1>1 DEF Good, Typed
  <2> SUFFICES ASSUME NEW t \in Streams, z.stream[t] = "live", t \notin Others(z)
               PROVE  \E d \in Numbers : z.call[d].stream = t
    BY DEF Held
  <2>2. CASE t = s
    BY <1>5, <1>6, <2>2
  <2>3. CASE t # s
    <3>1. PICK d \in Numbers : y.call[d].stream = t
      BY <1>1, <1>6, <1>7, <2>3 DEF Good, Held
    <3>2. t # 0
      BY DevicesAssumption DEF DevicesAssumption
    <3> QED BY <1>6, <1>9, <3>1, <3>2
  <2> QED BY <2>2, <2>3
<1>11. Taken(z)
  BY <1>1, <1>5, <1>6, <1>7 DEF Good, Taken
<1>12. Fresh(z)
  BY <1>1, <1>5, <1>6, <1>7, <1>8 DEF Good, Fresh, Ready
<1>13. Apart(z)
  BY <1>1, <1>6 DEF Good, Apart
<1>14. Control(z)
  <2>1. c = 0 => y.job.receiving
    BY <1>1, <1>4 DEF Good, Control
  <2> QED BY <1>1, <1>5, <1>6, <1>8, <2>1 DEF Good, Control, Busy, Numbers
<1>15. Good(z, {})
  BY <1>6, <1>10, <1>11, <1>12, <1>13, <1>14 DEF Good
<1>16. (Alive(y, 0) => Alive(z, 0)) /\ (Echo(y, 0) => Echo(z, 0)) /\ (Tuned(y) => Tuned(z))
  BY <1>6 DEF Alive, Heard, Echo, Tuned, IsLive
<1>17. Off(y) => Off(z)
  BY <1>4, <1>5, <1>6 DEF Off
<1>18. Shown(y) => Shown(z)
  BY <1>4, <1>5, <1>6 DEF Shown, IsLive, Numbers
<1> QED BY <1>1, <1>3, <1>5, <1>6, <1>15, <1>16, <1>17, <1>18 DEF Keeps, Heard, Shows, v, s

\* The call goes on with its stream.
LEMMA ProceedDoes ==
  ASSUME NEW w, NEW c \in Numbers, NEW same, Good(w, {}), Alive(w, 0), Heard(w, 0),
         Shown(w), w.call[c].at = "change"
  PROVE  LET v == Proceed(w, c, w.call[c].stream, same)
         IN  /\ Good(v, {}) /\ Alive(v, 0) /\ Heard(v, 0) /\ Shown(v)
             /\ w.call[c].kind = "audio" /\ Off(w) => Off(v)
<1> DEFINE s == w.call[c].stream
           kind == w.call[c].kind
           device == w.call[c].device
           u == [w EXCEPT !.call[c] = Idle]
           x == Install(u, c, kind, device, s, same)
           B == [w.call[c] EXCEPT !.stream = 0]
           v == Proceed(w, c, s, same)
<1>1. v = IF x.call[c].at = "prompt" THEN x ELSE Finish([x EXCEPT !.call[c] = B], c, TRUE)
  BY DEF Proceed
<1>2. /\ s \in Ids /\ kind \in Kinds /\ kind \in {"audio", "video"}
      /\ device \in Microphones \cup Cameras \cup {NoDevice}
      /\ B.kind = kind
  BY DEF Good, Typed, Kinds
<1>3. /\ Idle \in [at : {"idle", "prompt", "change"}, kind : Kinds,
                   device : Microphones \cup Cameras \cup {NoDevice},
                   stream : Ids, overruled : BOOLEAN]
      /\ Idle.at = "idle" /\ Idle.stream = 0
  <2> DEFINE no == FALSE
  <2>1. no \in BOOLEAN
    OBVIOUS
  <2>2. Idle = [at |-> "idle", kind |-> "video", device |-> NoDevice, stream |-> 0,
                overruled |-> no]
    BY DEF Idle
  <2> HIDE DEF no
  <2> QED BY <2>1, <2>2 DEF Kinds, Ids
<1>4. /\ Good(u, {} \cup {s}) /\ Differ(w, u, {"call"}) /\ u.call[c] = Idle
      /\ \A d \in Numbers \ {c} : u.call[d] = w.call[d]
      /\ Alive(u, 0) /\ Heard(u, 0) /\ (Off(w) => Off(u))
      /\ IF c = 0 /\ kind = "video" THEN Lit(u) ELSE Shown(u)
  <2> HIDE DEF s
  <2> DEFINE a == Idle
  <2>1. /\ a \in [at : {"idle", "prompt", "change"}, kind : Kinds,
                  device : Microphones \cup Cameras \cup {NoDevice},
                  stream : Ids, overruled : BOOLEAN]
        /\ a.stream = 0 /\ a.at = "idle" /\ a = Idle
    BY <1>3
  <2> HIDE DEF a
  <2>2. LET n == [w EXCEPT !.call[c] = a]
        IN  /\ Good(n, {} \cup {w.call[c].stream}) /\ Differ(w, n, {"call"})
            /\ n.call[c] = a /\ \A d \in Numbers \ {c} : n.call[d] = w.call[d]
            /\ Alive(w, 0) => Alive(n, 0)
            /\ (Echo(w, 0) => Echo(n, 0)) /\ (Tuned(w) => Tuned(n))
            /\ Off(w) /\ (a.at # "idle" /\ a.kind = "video" => a.overruled) => Off(n)
            /\ \/ c # 0
               \/ /\ w.call[0].at = "idle" \/ w.call[0].kind = "audio"
                  /\ a.at = "idle" \/ a.kind = "audio"
               => Shows(w, n)
    BY SMTT(60), <2>1, CallGiven
  <2>3. c = 0 /\ kind = "video" => Lit(u)
    <3>1. u.tile = w.tile /\ u.sess = w.sess /\ u.slot = w.slot
      BY <2>1, <2>2 DEF Differ, Fields
    <3> QED BY <3>1 DEF Shown, Lit
  <2>4. c # 0 \/ kind = "audio" => Shown(u)
    BY <2>1, <2>2 DEF Shows
  <2> QED BY <1>2, <2>1, <2>2, <2>3, <2>4 DEF Heard, s
<1> HIDE DEF v
<1>5. Ready(u, s)
  <2>1. s # 0
    BY DEF Good, Control
  <2>2. Others(u) = Others(w) /\ u.source = w.source /\ u.stream = w.stream
    BY <1>4 DEF Differ, Fields, Others
  <2> QED BY SMTT(60), <1>2, <1>3, <1>4, <2>1, <2>2 DEF Good, Fresh, Ready, Ids
<1>6. c = 0 => u.job.receiving
  <2>1. u.job = w.job
    BY <1>4 DEF Differ, Fields
  <2> QED BY <2>1 DEF Good, Control
<1> HIDE DEF s, u, kind, device
<1>6a. u.stream[s] = "live" \/ (u.call[c].at = "idle" /\ (c = 0 => u.job.receiving))
  BY <1>3, <1>4, <1>6
<1>7. /\ Good(x, ({} \cup {s}) \ {s}) /\ Alive(x, 0) /\ Heard(x, 0)
      /\ IF c = 0 /\ kind = "video" THEN Lit(u) => Lit(x) ELSE Shows(u, x)
      /\ kind = "audio" /\ Off(u) => Off(x)
      /\ x.call[c] = u.call[c] \/ x.call[c].at = "prompt"
      /\ kind = "video" => x.call[c] = u.call[c]
  BY SMTT(60), <1>2, <1>4, <1>5, <1>6a, InstallDoes
<1>8. Good(x, {})
  BY <1>7 DEF Good, Held
<1> HIDE DEF x
<1>9. CASE x.call[c].at = "prompt"
  <2>1. kind = "audio"
    BY <1>2, <1>3, <1>4, <1>7, <1>9
  <2>2. v = x
    BY <1>1, <1>9
  <2> QED BY <1>4, <1>7, <1>8, <2>1, <2>2 DEF Shows, v, s, kind
<1>10. CASE x.call[c].at # "prompt"
  <2> DEFINE y == [x EXCEPT !.call[c] = B]
             r == Served(x, c, kind, TRUE)
  <2>1. x.call[c] = Idle
    BY <1>4, <1>7, <1>10
  <2>2. x = [f \in Fields |-> x[f]] /\ x.call = [d \in Numbers |-> x.call[d]]
    BY <1>8 DEF Good, Typed
  <2>3. v = Finish(y, c, TRUE)
    BY <1>1, <1>10
  <2>4. Typed(y)
    <3>1. B \in [at : {"idle", "prompt", "change"}, kind : Kinds,
                 device : Microphones \cup Cameras \cup {NoDevice},
                 stream : Ids, overruled : BOOLEAN]
      <4> DEFINE Call == [at : {"idle", "prompt", "change"}, kind : Kinds,
                          device : Microphones \cup Cameras \cup {NoDevice},
                          stream : Ids, overruled : BOOLEAN]
                 a == w.call[c]
      <4>1. a \in Call /\ 0 \in Ids
        BY DEF Good, Typed, Ids
      <4> HIDE DEF a
      <4>2. [a EXCEPT !.stream = 0] \in Call
        BY <4>1
      <4> QED BY <4>2 DEF a
    <3> HIDE DEF B
    <3> QED BY <1>8, <3>1 DEF Good, Typed, Fields
  <2>5. y.call[c] = B
    BY <2>2 DEF Fields
  <2>6. [y EXCEPT !.call[c] = Idle] = x
    <3> DEFINE k1 == [x.call EXCEPT ![c] = B]
               k2 == [k1 EXCEPT ![c] = Idle]
    <3> HIDE DEF B
    <3>1. y = [x EXCEPT !.call = k1] /\ y.call = k1
      BY <2>2 DEF Fields
    <3>2. k2 = x.call
      BY <2>1, <2>2
    <3>3. [y EXCEPT !.call[c] = Idle] = [y EXCEPT !.call = k2]
      BY <3>1
    <3> HIDE DEF k1, k2
    <3>4. [y EXCEPT !.call = x.call] = x
      BY <3>1, <2>2
    <3> QED BY <3>2, <3>3, <3>4
  <2> HIDE DEF y
  <2>7. v = r
    <3>1. Finish(y, c, TRUE) = Served([y EXCEPT !.call[c] = Idle], c, y.call[c].kind, TRUE)
      BY <2>4, FinishIs
    <3> QED BY <1>2, <2>3, <2>5, <2>6, <3>1
  <2> HIDE DEF r
  <2>8. /\ Good(r, {}) /\ Keeps(x, r)
        /\ IF c = 0 /\ kind = "video" THEN Lit(x) => Shown(r) ELSE Shows(x, r)
    <3>1. x.call[c].at = "idle"
      BY <1>3, <2>1
    <3> DEFINE yes == TRUE
    <3> HIDE DEF yes
    <3>2. LET n == Served(x, c, kind, yes)
          IN  /\ Good(n, {}) /\ Keeps(x, n)
              /\ IF c = 0 /\ kind = "video" THEN Lit(x) => Shown(n) ELSE Shows(x, n)
      BY <1>2, <1>8, <3>1, ServedDoes
    <3> QED BY <3>2 DEF yes, r
  <2>9. Shown(r)
    BY <1>2, <1>4, <1>7, <2>8 DEF Shows
  <2> QED BY <1>4, <1>7, <2>7, <2>8, <2>9 DEF Keeps, Heard, v, s, kind
<1> QED BY <1>9, <1>10

-----------------------------------------------------------------------------
(* A turn ends.                                                             *)

Sound(w) == Good(w, {}) /\ Alive(w, 0) /\ Heard(w, 0) /\ Shown(w)

\* The streams that nothing refers to are forgotten.
LEMMA BecomeDoes ==
  ASSUME NEW w, Become(w), Sound(w), web' = web
  PROVE  Sound(World)' /\ (Off(w) => Off(World)')
<1> DEFINE rest == [s \in Streams |->
                      IF /\ w.stream[s] \in {"dead", "missed"} \/ stream[s] = "spilled"
                         /\ s \notin Holders(w) \cup {w.source}
                      THEN "free" ELSE w.stream[s]]
           v == World'
<1>1. Typed(w)
  BY DEF Sound, Good
<1>2. /\ v.active = w.active /\ v.call = w.call /\ v.preview = w.preview
      /\ v.source = w.source /\ v.sess = w.sess /\ v.job = w.job /\ v.slot = w.slot
      /\ v.tile = w.tile /\ v.using = w.using /\ v.refused = w.refused /\ v.stream = rest
  BY DEF Become, World
<1>3. v = [f \in Fields |-> v[f]]
  BY DEF World, Fields
<1>4. /\ \A s \in Streams : rest[s] = w.stream[s] \/
                           (rest[s] = "free" /\ s \notin Holders(w) \cup {w.source})
      /\ rest \in [Streams -> {"free", "live", "dead", "missed", "spilled"}]
  BY <1>1 DEF Typed
<1> HIDE DEF rest, v
<1>5. Typed(v)
  BY <1>1, <1>2, <1>3, <1>4 DEF Typed
<1>6. \A s \in Streams :
        \/ v.stream[s] = w.stream[s]
        \/ /\ v.stream[s] = "free"
           /\ s \notin Others(w) \cup {w.source} /\ \A c \in Numbers : w.call[c].stream # s
  BY <1>1, <1>2, <1>4, HoldersAre
<1>7. Others(v) = Others(w)
  BY <1>2 DEF Others
<1>8. Held(v, {})
  BY <1>2, <1>6, <1>7 DEF Sound, Good, Held
<1>9. Taken(v)
  BY <1>2, <1>6, <1>7 DEF Sound, Good, Taken
<1>10. Fresh(v)
  <2>1. \A c \in Numbers : w.call[c].stream # 0 =>
          /\ w.call[c].stream \in Streams
          /\ v.stream[w.call[c].stream] = w.stream[w.call[c].stream]
    BY <1>1, <1>6 DEF Typed, Ids
  <2> QED BY <1>2, <1>7, <2>1 DEF Sound, Good, Fresh
<1>11. Apart(v) /\ Control(v)
  BY <1>2 DEF Sound, Good, Apart, Control, Busy
<1>12. Good(v, {})
  BY <1>5, <1>8, <1>9, <1>10, <1>11 DEF Good
<1>13. Alive(v, 0)
  BY <1>2, <1>6 DEF Sound, Alive, Others
<1>14. Heard(v, 0) /\ Shown(v)
  BY <1>2, <1>6 DEF Sound, Heard, Echo, Tuned, Shown, IsLive
<1>15. Off(w) => Off(v)
  BY <1>2 DEF Off
<1>16. Sound(v) => Sound(World)'
  BY DEF v, Sound, Good, Typed, Held, Taken, Fresh, Apart, Control, Alive, Heard,
         Echo, Tuned, Shown, Others,
         Busy, IsLive
<1>17. Off(v) => Off(World)'
  BY DEF v, Off
<1> QED BY <1>12, <1>13, <1>14, <1>15, <1>16, <1>17 DEF Sound

\* What keeps each part keeps the whole.
LEMMA SoundStays ==
  ASSUME NEW w, NEW v, Sound(w), Good(v, {}), Keeps(w, v), Shows(w, v)
  PROVE  Sound(v) /\ (Off(w) => Off(v))
BY DEF Sound, Keeps, Heard, Shows

\* The inductive invariant.
DevicesInv == Sound(World) /\ (wanted = "nothing" => Off(World))

\* A turn that asks for nothing of the application's keeps the invariant.
LEMMA TurnEnds ==
  ASSUME DevicesInv, NEW v, Become(v), Good(v, {}), Keeps(World, v), Shows(World, v),
         web' = web, wanted' = wanted
  PROVE  DevicesInv'
<1>1. Sound(v) /\ (Off(World) => Off(v))
  BY SoundStays DEF DevicesInv
<1>2. Sound(World)' /\ (Off(v) => Off(World)')
  BY <1>1, BecomeDoes
<1> QED BY <1>1, <1>2 DEF DevicesInv

LEMMA ChooseInputDeviceAgrees ==
  ASSUME DevicesInv, NEW kind \in Kinds, ChooseInputDevice(kind)
  PROVE  DevicesInv'
<1> DEFINE w == World
<1>1. PICK device \in Devices(kind) \cup {NoDevice}, same \in BOOLEAN, c \in Calls :
        /\ Room /\ call[c] = Idle
        /\ Become(Choose(w, c, kind, device, same))
        /\ wanted' = IF kind = "audio" THEN wanted
                     ELSE IF device = NoDevice THEN "nothing" ELSE "camera"
        /\ web' = web
  BY DEF ChooseInputDevice
<1>2. /\ Sound(w) /\ Free(w) # {} /\ w.call[c].at = "idle"
      /\ c \in Numbers /\ c # 0 /\ kind \in {"audio", "video"}
      /\ device \in Microphones \cup Cameras \cup {NoDevice}
  BY <1>1, DevicesAssumption
     DEF DevicesInv, Room, World, Idle, Numbers, Kinds, Devices, DevicesAssumption
<1> DEFINE v == Choose(w, c, kind, device, same)
<1>3. Become(v)
  BY <1>1
<1>4. (wanted = "nothing" => Off(w))
  BY DEF DevicesInv
<1> HIDE DEF w, v
<1>5. Sound(v) /\ (wanted' = "nothing" => Off(v))
  <2>1. CASE kind = "video" /\ device = NoDevice
    <3> DEFINE s == w.active.video.stream
    <3>1. v = NoVideo(w)
      BY <2>1 DEF Choose, v
    <3>2. Alive(w, s) /\ Heard(w, s) /\ Shown(w)
      BY <1>2, DevicesAssumption
         DEF Sound, Alive, Heard, Echo, Tuned, Shown, IsLive, DevicesAssumption
    <3> HIDE DEF s
    <3>3. s = w.active.video.stream
      BY DEF s
    <3>4. Good(v, {}) /\ Alive(v, 0) /\ Heard(v, 0) /\ Shown(v) /\ Off(v)
      BY <1>2, <3>1, <3>2, <3>3, NoVideoDoes DEF Sound
    <3> QED BY <3>4 DEF Sound
  <2>2. CASE kind = "audio" \/ device # NoDevice
    <3>1. PICK u : /\ Good(u, {}) /\ Alive(u, 0) /\ Heard(u, 0) /\ Shows(w, u)
                   /\ kind = "audio" /\ Off(w) => Off(u)
                   /\ \/ v = u /\ u.call[c] = w.call[c]
                      \/ /\ v = Prompt(u, c, kind, device)
                         /\ device # NoDevice
                         /\ u.call = w.call /\ u.job = w.job /\ u.sess = w.sess
      <4> DEFINE x == 0
      <4>1. x = 0 /\ Alive(w, x)
        BY <1>2 DEF Sound
      <4> HIDE DEF x
      <4> QED BY <1>2, <2>2, <4>1, ChooseDoes DEF Sound, Heard, v
    <3>2. Sound(u)
      BY <1>2, <3>1 DEF Sound, Shows
    <3>3. kind = "video" => wanted' # "nothing"
      BY <1>1, <2>2
    <3>4. kind = "audio" => wanted' = wanted
      BY <1>1
    <3>5. CASE v = u
      BY <1>2, <1>4, <3>1, <3>2, <3>3, <3>4, <3>5
    <3>6. CASE v = Prompt(u, c, kind, device) /\ u.call = w.call
      <4>1. /\ Good(v, {})
            /\ Alive(u, 0) => Alive(v, 0)
            /\ (Echo(u, 0) => Echo(v, 0)) /\ (Tuned(u) => Tuned(v))
            /\ kind = "audio" /\ Off(u) => Off(v)
            /\ Shows(u, v)
        <5>1. u.call[c].at = "idle"
          BY <1>2, <3>6
        <5> QED BY <1>2, <3>1, <3>6, <5>1, PromptDoes
      <4> QED BY <1>2, <1>4, <3>1, <3>2, <3>3, <3>4, <4>1 DEF Sound, Heard, Shows
    <3> QED BY <3>1, <3>5, <3>6
  <2> QED BY <1>2, <2>1, <2>2
<1>6. Sound(World)' /\ (Off(v) => Off(World)')
  BY <1>1, <1>3, <1>5, BecomeDoes
<1> QED BY <1>5, <1>6 DEF DevicesInv

-----------------------------------------------------------------------------
(* The preview.                                                             *)

\* The preview element shows another stream, or none.
LEMMA PreviewGiven ==
  ASSUME NEW w, NEW p, NEW X, Good(w, X), p = 0 \/ Ready(w, p)
  PROVE  LET v == [w EXCEPT !.preview = p]
         IN  Good(v, (X \ {p}) \cup {w.preview}) /\ Keeps(w, v) /\ Shows(w, v)
<1> DEFINE v == [w EXCEPT !.preview = p]
<1>1. /\ Typed(v) /\ v.active = w.active /\ v.call = w.call /\ v.preview = p
      /\ v.source = w.source /\ v.sess = w.sess /\ v.job = w.job /\ v.slot = w.slot
      /\ v.tile = w.tile /\ v.using = w.using /\ v.refused = w.refused /\ v.stream = w.stream
  BY DEF Good, Typed, Fields, Ids, Ready
<1> HIDE DEF v
<1>2. \A t : t \in Others(v) => t = p \/ t \in Others(w)
  BY <1>1 DEF Others
<1>3. \A t : t \in Others(w) \cup {p} => t = w.preview \/ t \in Others(v)
  BY <1>1 DEF Others
<1>4. Held(v, (X \ {p}) \cup {w.preview})
  BY <1>1, <1>3 DEF Good, Held
<1>5. Taken(v)
  BY <1>1, <1>2, DevicesAssumption DEF Good, Taken, Ready, DevicesAssumption
<1>6. Fresh(v)
  BY <1>1, <1>2 DEF Good, Fresh, Ready
<1>7. Apart(v) /\ Control(v)
  BY <1>1 DEF Good, Apart, Control, Busy
<1>8. Keeps(w, v) /\ Shows(w, v)
  BY <1>1 DEF Keeps, Shows, Alive, Heard, Echo, Tuned, Shown, Off, IsLive
<1> QED BY <1>1, <1>4, <1>5, <1>6, <1>7, <1>8 DEF Good, v

\* The stream of the preview is released.
LEMMA PreviewCleared ==
  ASSUME NEW w, Good(w, {})
  PROVE  LET v == [ReleaseMediaStream(w, w.preview) EXCEPT !.preview = 0]
         IN  Good(v, {}) /\ Keeps(w, v) /\ Shows(w, v)
<1> DEFINE p == w.preview
           u == ReleaseMediaStream(w, p)
           none == 0
           v == [u EXCEPT !.preview = none]
<1>1. Settled(w, p)
  <2>1. p \in Ids /\ p \in Others(w)
    BY DEF Good, Typed, Others
  <2> QED BY <2>1, OthersAreSettled
<1> HIDE DEF p
<1>2. /\ Good(u, {} \ {p}) /\ Keeps(w, u) /\ Shows(w, u)
      /\ ~IsLive(u, p) /\ u.preview = w.preview
  BY <1>1, ReleaseDoes
<1> HIDE DEF u, none
<1>3. Good(v, (({} \ {p}) \ {none}) \cup {u.preview}) /\ Keeps(u, v) /\ Shows(u, v)
  BY <1>2, PreviewGiven DEF none
<1>4. v.stream = u.stream
  BY <1>2 DEF Good, Typed, Fields, v
<1>5. Good(v, {})
  BY <1>2, <1>3, <1>4 DEF Good, Held, IsLive, p
<1> QED BY <1>2, <1>3, <1>5 DEF Keeps, Heard, Shows, v, u, p, none

LEMMA StartPreviewAgrees ==
  ASSUME DevicesInv, StartPreview
  PROVE  DevicesInv'
<1> DEFINE v == [ReleaseMediaStream(World, World.preview) EXCEPT !.preview = 0]
<1>1. Become(v) /\ web' = web /\ wanted' = wanted
  BY DEF StartPreview, World
<1>2. Good(World, {})
  BY DEF DevicesInv, Sound
<1>3. Good(v, {}) /\ Keeps(World, v) /\ Shows(World, v)
  <2> DEFINE w == World
  <2>1. Good(w, {})
    BY <1>2
  <2> HIDE DEF w
  <2>2. LET u == [ReleaseMediaStream(w, w.preview) EXCEPT !.preview = 0]
        IN  Good(u, {}) /\ Keeps(w, u) /\ Shows(w, u)
    BY <2>1, PreviewCleared
  <2> QED BY <2>2 DEF w
<1> HIDE DEF v
<1> QED BY <1>1, <1>3, TurnEnds

LEMMA StopPreviewAgrees ==
  ASSUME DevicesInv, StopPreview
  PROVE  DevicesInv'
<1> DEFINE w == World
           u == [ReleaseMediaStream(w, w.preview) EXCEPT !.preview = 0]
           s == u.active.video.stream
           v == ReleaseMediaStream(u, s)
<1>1. Become(v) /\ web' = web /\ wanted' = wanted
  BY DEF StopPreview, World
<1>2. Good(w, {})
  BY DEF DevicesInv, Sound
<1>2a. w = World
  OBVIOUS
<1> HIDE DEF w
<1>3. Good(u, {}) /\ Keeps(w, u) /\ Shows(w, u)
  BY <1>2, PreviewCleared
<1> HIDE DEF u
<1>4. Settled(u, s)
  <2>1. s \in Ids /\ s \in Others(u)
    BY <1>3 DEF Good, Typed, Others, Kinds
  <2> QED BY <1>3, <2>1, OthersAreSettled
<1> HIDE DEF s
<1>5. Good(v, {} \ {s}) /\ Keeps(u, v) /\ Shows(u, v)
  BY <1>3, <1>4, ReleaseDoes
<1> HIDE DEF v
<1>6. Good(v, {}) /\ Keeps(w, v) /\ Shows(w, v)
  BY <1>3, <1>5 DEF Good, Held, Keeps, Heard, Shows
<1> QED BY <1>1, <1>2a, <1>6, TurnEnds

LEMMA PreviewOpensAgrees ==
  ASSUME DevicesInv, PreviewOpens
  PROVE  DevicesInv'
<1> DEFINE w == World
           s == Capture(w)
           y == [w EXCEPT !.stream[s] = "live"]
           z == [y EXCEPT !.preview = s]
           v == Spill(z, y.preview)
<1>1. web' = web /\ wanted' = wanted
  BY DEF PreviewOpens
<1>2. Good(w, {})
  BY DEF DevicesInv, Sound
<1>3. CASE Become(World)
  <2>1. Keeps(World, World) /\ Shows(World, World)
    BY DEF Keeps, Heard, Shows
  <2> QED BY <1>1, <1>2, <1>3, <2>1, TurnEnds
<1>4. CASE Room /\ Become(v)
  <2>1. Free(w) # {} /\ w = World
    BY <1>4 DEF Room
  <2> HIDE DEF w
  <2>2. /\ s \in Streams /\ Good(y, {} \cup {s}) /\ Ready(y, s)
        /\ Keeps(w, y) /\ Shows(w, y)
    BY <1>2, <2>1, CaptureDoes
  <2> HIDE DEF s, y
  <2>3. Good(z, (({} \cup {s}) \ {s}) \cup {y.preview}) /\ Keeps(y, z) /\ Shows(y, z)
    BY <2>2, PreviewGiven
  <2> HIDE DEF z
  <2>4. /\ Good(v, ((({} \cup {s}) \ {s}) \cup {y.preview}) \ {y.preview})
        /\ Keeps(z, v) /\ Shows(z, v)
    <3> DEFINE p == y.preview
    <3>1. v = Spill(z, p) /\ p = y.preview
      OBVIOUS
    <3> HIDE DEF p, v
    <3> QED BY <2>3, <3>1, SpillDoes
  <2> HIDE DEF v
  <2>5. Good(v, {}) /\ Keeps(w, v) /\ Shows(w, v)
    BY <2>2, <2>3, <2>4 DEF Good, Held, Keeps, Heard, Shows
  <2> QED BY <1>1, <1>4, <2>1, <2>5, TurnEnds
<1>5. Become(World) \/ (Room /\ Become(v))
  <2>1. w.stream = stream /\ w.preview = preview /\ DOMAIN w = Fields
    BY DEF World, Fields
  <2>2. y.preview = preview
    BY <2>1 DEF Fields
  <2>3. z = [w EXCEPT !.stream[s] = "live", !.preview = s]
    OBVIOUS
  <2> QED BY <2>2, <2>3 DEF PreviewOpens
<1> QED BY <1>3, <1>4, <1>5

-----------------------------------------------------------------------------
(* The browser.                                                             *)

\* A call is over; the stream that it had is excused.
LEMMA FinishDoes ==
  ASSUME NEW w, NEW c \in Numbers, NEW granted, Good(w, {}),
         w.call[c].at # "idle"
  PROVE  LET v == Finish(w, c, granted)
         IN  Good(v, {w.call[c].stream}) /\ Keeps(w, v) /\ Shows(w, v)
<1> DEFINE s == w.call[c].stream
           kind == w.call[c].kind
           a == Idle
           u == [w EXCEPT !.call[c] = a]
           v == Served(u, c, kind, granted)
<1>1. Finish(w, c, granted) = v
  BY FinishIs DEF Good
<1>2. kind \in Kinds /\ kind \in {"audio", "video"}
  BY DEF Good, Typed, Kinds
<1>3. /\ a \in [at : {"idle", "prompt", "change"}, kind : Kinds,
                device : Microphones \cup Cameras \cup {NoDevice},
                stream : Ids, overruled : BOOLEAN]
      /\ a.at = "idle" /\ a.stream = 0
  <2> DEFINE no == FALSE
  <2>1. no \in BOOLEAN
    OBVIOUS
  <2>2. a = [at |-> "idle", kind |-> "video", device |-> NoDevice, stream |-> 0,
             overruled |-> no]
    BY DEF Idle
  <2> HIDE DEF no, a
  <2> QED BY <2>1, <2>2 DEF Kinds, Ids
<1> HIDE DEF a
<1>4. /\ Good(u, {} \cup {w.call[c].stream}) /\ Differ(w, u, {"call"}) /\ u.call[c] = a
      /\ Alive(w, 0) => Alive(u, 0)
      /\ (Echo(w, 0) => Echo(u, 0)) /\ (Tuned(w) => Tuned(u))
      /\ Off(w) /\ (a.at # "idle" /\ a.kind = "video" => a.overruled) => Off(u)
      /\ \/ c # 0
         \/ /\ w.call[0].at = "idle" \/ w.call[0].kind = "audio"
            /\ a.at = "idle" \/ a.kind = "audio"
         => Shows(w, u)
  BY SMTT(60), <1>3, CallGiven
<1>5. /\ Keeps(w, u) /\ (c # 0 \/ kind = "audio" => Shows(w, u))
      /\ c = 0 /\ kind = "video" => (Shown(w) => Lit(u))
  <2>1. u.tile = w.tile /\ u.sess = w.sess /\ u.slot = w.slot
    BY <1>4 DEF Differ, Fields
  <2>2. c = 0 /\ kind = "video" => (Shown(w) => Lit(u))
    BY <2>1 DEF Shown, Lit
  <2> QED BY <1>3, <1>4, <2>2 DEF Keeps, Heard
<1>6. Good(u, {s}) /\ u.call[c].at = "idle"
  BY <1>3, <1>4 DEF Good, Held
<1> HIDE DEF s, kind, u
<1>7. /\ Good(v, {s}) /\ Keeps(u, v)
      /\ IF c = 0 /\ kind = "video" THEN Lit(u) => Shown(v) ELSE Shows(u, v)
  BY <1>2, <1>6, ServedDoes
<1> HIDE DEF v
<1>8. Keeps(w, v) /\ Shows(w, v)
  BY <1>2, <1>5, <1>7 DEF Keeps, Heard, Shows
<1> QED BY <1>1, <1>7, <1>8 DEF s

LEMMA PromptEndsAgrees ==
  ASSUME DevicesInv, NEW c \in Calls \cup {0}, PromptEnds(c)
  PROVE  DevicesInv'
<1> DEFINE w == World
           s == Capture(w)
           u == PromptGranted(w, c, s)
<1>1. web' = web /\ wanted' = wanted
  BY DEF PromptEnds
<1>2. Sound(w) /\ Good(w, {}) /\ w = World /\ c \in Numbers /\ w.call = call
      /\ (wanted = "nothing" => Off(w))
  BY DEF DevicesInv, Sound, Numbers, World
<1>3. w.call[c].at = "prompt"
  BY <1>2 DEF PromptEnds
<1>4. \/ Become(Finish(w, c, FALSE))
      \/ /\ Room
         /\ IF u.call[c].at = "prompt" THEN Become(Finish(u, c, TRUE))
            ELSE Become(u) \/ \E same \in BOOLEAN : Become(Proceed(u, c, s, same))
  BY DEF PromptEnds
<1>5. Room => Free(w) # {}
  BY DEF Room
<1>6. w.call[c].stream = 0
  BY <1>2, <1>3 DEF Good, Fresh
<1> HIDE DEF w, u, s
<1>7. ASSUME NEW b, Become(Finish(w, c, b))
      PROVE  DevicesInv'
  <2> DEFINE v == Finish(w, c, b)
  <2>1. Good(v, {w.call[c].stream}) /\ Keeps(w, v) /\ Shows(w, v)
    BY <1>2, <1>3, FinishDoes
  <2>2. Good(v, {})
    BY <1>6, <2>1, DevicesAssumption DEF Good, Held, DevicesAssumption
  <2>3. Become(v)
    BY <1>7
  <2> HIDE DEF v
  <2> QED BY <1>1, <1>2, <2>1, <2>2, <2>3, TurnEnds
<1>8. CASE w.call[c].overruled /\ u.call[c].at = "prompt"
  <2>1. u = w
    BY <1>8 DEF PromptGranted, u
  <2> DEFINE yes == TRUE
             no == FALSE
  <2>2. Become(Finish(w, c, no)) \/ Become(Finish(w, c, yes))
    BY <1>4, <1>8, <2>1
  <2> HIDE DEF yes, no
  <2> QED BY <1>7, <2>2
<1>9. CASE ~w.call[c].overruled /\ Room
  <2>1. /\ Good(u, {}) /\ Keeps(w, u) /\ Shows(w, u)
        /\ u.call[c].at = "change" /\ u.call[c].stream = s
        /\ u.call[c].kind = w.call[c].kind
    BY <1>2, <1>3, <1>5, <1>9, GrantDoes DEF u, s
  <2>2. CASE Become(u)
    BY <1>1, <1>2, <2>1, <2>2, TurnEnds
  <2>3. ASSUME NEW same \in BOOLEAN, Become(Proceed(u, c, s, same))
        PROVE  DevicesInv'
    <3> DEFINE v == Proceed(u, c, u.call[c].stream, same)
    <3>1. Sound(u) /\ (Off(w) => Off(u))
      BY <1>2, <2>1, SoundStays
    <3>2. /\ Good(v, {}) /\ Alive(v, 0) /\ Heard(v, 0) /\ Shown(v)
          /\ u.call[c].kind = "audio" /\ Off(u) => Off(v)
      BY <1>2, <2>1, <3>1, ProceedDoes DEF Sound
    <3>3. Become(v)
      BY <2>1, <2>3
    <3> HIDE DEF v
    <3>4. Sound(v)
      BY <3>2 DEF Sound
    <3>5. Off(w) => w.call[c].kind # "video"
      BY <1>2, <1>3, <1>9 DEF Off
    <3>6. w.call[c].kind \in {"audio", "video"}
      BY <1>2 DEF Good, Typed, Kinds
    <3>7. Off(w) => Off(v)
      BY <2>1, <3>1, <3>2, <3>5, <3>6
    <3>8. Sound(World)' /\ (Off(v) => Off(World)')
      BY <1>1, <3>3, <3>4, BecomeDoes
    <3> QED BY <1>1, <1>2, <3>7, <3>8 DEF DevicesInv
  <2> DEFINE no == FALSE
  <2>4. Become(u) \/ (\E same \in BOOLEAN : Become(Proceed(u, c, s, same)))
        \/ Become(Finish(w, c, no))
    BY <1>4, <2>1
  <2> HIDE DEF no
  <2> QED BY <1>7, <2>2, <2>3, <2>4
<1>10. CASE ~Room
  <2> DEFINE no == FALSE
  <2>1. Become(Finish(w, c, no))
    BY <1>4, <1>10
  <2> HIDE DEF no
  <2> QED BY <1>7, <2>1
<1>11. w.call[c].overruled => u.call[c].at = "prompt"
  BY <1>3 DEF PromptGranted, u
<1> QED BY <1>8, <1>9, <1>10, <1>11

LEMMA ListArrivesAgrees ==
  ASSUME DevicesInv, NEW c \in Calls \cup {0}, ListArrives(c)
  PROVE  DevicesInv'
<1> DEFINE w == World
           s == w.call[c].stream
<1>1. Sound(w) /\ Good(w, {}) /\ w = World /\ c \in Numbers /\ w.call = call
      /\ (wanted = "nothing" => Off(w))
  BY DEF DevicesInv, Sound, Numbers, World
<1>2. w.call[c].at = "change" /\ web' = web
  BY <1>1 DEF ListArrives
<1>3. \/ \E same \in BOOLEAN :
           /\ Become(Proceed(w, c, s, same))
           /\ wanted' = IF w.call[c].overruled /\ wanted = "nothing" THEN "overrun" ELSE wanted
      \/ Become(Spill(Finish(w, c, FALSE), s)) /\ wanted' = wanted
  BY <1>1 DEF ListArrives
<1> HIDE DEF w
<1>4. ASSUME NEW same \in BOOLEAN, Become(Proceed(w, c, s, same)),
             wanted' = IF w.call[c].overruled /\ wanted = "nothing" THEN "overrun" ELSE wanted
      PROVE  DevicesInv'
  <2> DEFINE v == Proceed(w, c, w.call[c].stream, same)
  <2>1. /\ Good(v, {}) /\ Alive(v, 0) /\ Heard(v, 0) /\ Shown(v)
        /\ w.call[c].kind = "audio" /\ Off(w) => Off(v)
    BY <1>1, <1>2, ProceedDoes DEF Sound
  <2>2. Become(v)
    BY <1>4
  <2> HIDE DEF v
  <2>3. Sound(v)
    BY <2>1 DEF Sound
  <2>4. w.call[c].kind \in {"audio", "video"}
    BY <1>1 DEF Good, Typed, Kinds
  <2>5. Off(w) /\ w.call[c].kind = "video" => w.call[c].overruled
    BY <1>1, <1>2 DEF Off
  <2>6. wanted' = "nothing" => Off(v)
    BY <1>1, <1>4, <2>1, <2>4, <2>5
  <2>7. Sound(World)' /\ (Off(v) => Off(World)')
    BY <1>2, <2>2, <2>3, BecomeDoes
  <2> QED BY <2>6, <2>7 DEF DevicesInv
<1>5. CASE Become(Spill(Finish(w, c, FALSE), s)) /\ wanted' = wanted
  <2> DEFINE no == FALSE
             u == Finish(w, c, no)
             v == Spill(u, s)
  <2>1. Become(v)
    BY <1>5
  <2> HIDE DEF no
  <2>2. Good(u, {s}) /\ Keeps(w, u) /\ Shows(w, u)
    BY <1>1, <1>2, FinishDoes
  <2> HIDE DEF u, s
  <2>3. Good(v, {s} \ {s}) /\ Keeps(u, v) /\ Shows(u, v)
    BY <2>2, SpillDoes
  <2> HIDE DEF v
  <2>4. Good(v, {}) /\ Keeps(w, v) /\ Shows(w, v)
    BY <2>2, <2>3 DEF Good, Held, Keeps, Heard, Shows
  <2> QED BY <1>1, <1>2, <1>5, <2>1, <2>4, TurnEnds
<1> QED BY <1>3, <1>4, <1>5

\* No call has the stream.
Unclaimed(w, s) == \A c \in Numbers : w.call[c].stream # s

\* The device of a live stream is gone.
LEMMA GoneDoes ==
  ASSUME NEW w, NEW s \in Streams, NEW m \in {"dead", "missed"}, NEW X, Good(w, X),
         w.stream[s] # "free",
         m = "missed" => w.stream[s] = "live",
         m = "dead" => Unclaimed(w, s)
  PROVE  LET v == [w EXCEPT !.stream[s] = m]
         IN  /\ Good(v, X) /\ Differ(w, v, {"stream"})
             /\ v.stream[s] = m /\ \A t \in Streams \ {s} : v.stream[t] = w.stream[t]
             /\ (Echo(w, 0) => Echo(v, 0)) /\ (Tuned(w) => Tuned(v))
             /\ (Off(w) => Off(v)) /\ Shows(w, v)
             /\ Alive(w, 0) => Alive(v, s)
             /\ m = "missed" /\ Alive(w, 0) => Alive(v, 0)
<1> DEFINE v == [w EXCEPT !.stream[s] = m]
<1>1. /\ Typed(v) /\ v.active = w.active /\ v.call = w.call /\ v.preview = w.preview
      /\ v.source = w.source /\ v.sess = w.sess /\ v.job = w.job /\ v.slot = w.slot
      /\ v.tile = w.tile /\ v.using = w.using /\ v.refused = w.refused
      /\ v.stream[s] = m /\ \A t \in Streams \ {s} : v.stream[t] = w.stream[t]
  BY DEF Good, Typed, Fields
<1> HIDE DEF v
<1>2. Others(v) = Others(w)
  BY <1>1 DEF Others
<1>3. Held(v, X) /\ Taken(v)
  BY <1>1, <1>2 DEF Good, Held, Taken
<1>4. Fresh(v)
  <2>1. \A c \in Numbers : w.call[c].stream # 0 => w.call[c].stream \in Streams
    BY DEF Good, Typed, Ids
  <2> QED BY <1>1, <1>2, <2>1 DEF Good, Fresh, Unclaimed
<1>5. Apart(v) /\ Control(v)
  BY <1>1 DEF Good, Apart, Control, Busy
<1>6. (Echo(w, 0) => Echo(v, 0)) /\ (Tuned(w) => Tuned(v)) /\ (Off(w) => Off(v)) /\ Shows(w, v)
  BY <1>1 DEF Heard, Echo, Tuned, Off, Shows, Shown, IsLive
<1>7. /\ Alive(w, 0) => Alive(v, s)
      /\ m = "missed" /\ Alive(w, 0) => Alive(v, 0)
  BY <1>1, DevicesAssumption DEF Alive, DevicesAssumption
<1>8. Differ(w, v, {"stream"})
  BY <1>1 DEF Differ, Fields
<1> QED BY <1>1, <1>3, <1>4, <1>5, <1>6, <1>7, <1>8 DEF Good, v

LEMMA StreamEndsAgrees ==
  ASSUME DevicesInv, NEW s \in Streams, StreamEnds(s)
  PROVE  DevicesInv'
<1> DEFINE w == World
           dead == [w EXCEPT !.stream[s] = "dead"]
           missed == [w EXCEPT !.stream[s] = "missed"]
<1>1. Sound(w) /\ Good(w, {}) /\ w = World /\ w.call = call /\ w.active = active
      /\ w.stream = stream /\ (wanted = "nothing" => Off(w)) /\ DOMAIN call = Numbers
  BY DEF DevicesInv, Sound, World, Good, Typed
<1>2. web' = web /\ wanted' = wanted /\ w.stream[s] = "live" /\ Free(w) # {}
  BY <1>1 DEF StreamEnds, Room
<1>3. IF \E c \in Numbers : w.call[c].stream = s THEN Become(missed)
      ELSE IF w.active.video.stream = s THEN Become(NoVideo(dead))
      ELSE IF w.active.audio.stream = s /\ w.active.audio.device # NoDevice
      THEN Become(Choose(dead, 0, "audio", NoDevice, FALSE))
      ELSE w.active.audio.stream # s /\ Become(dead)
  BY <1>1 DEF StreamEnds
<1> HIDE DEF w
<1>4. CASE \E c \in Numbers : w.call[c].stream = s
  <2> DEFINE m == "missed"
             v == [w EXCEPT !.stream[s] = m]
  <2>1. Become(v)
    BY <1>3, <1>4
  <2>2. m \in {"dead", "missed"} /\ m = "missed" /\ m # "dead"
    OBVIOUS
  <2> HIDE DEF m
  <2>3. /\ Good(v, {}) /\ (Echo(w, 0) => Echo(v, 0)) /\ (Tuned(w) => Tuned(v))
        /\ (Off(w) => Off(v)) /\ Shows(w, v)
        /\ m = "missed" /\ Alive(w, 0) => Alive(v, 0)
    BY <1>1, <1>2, <2>2, GoneDoes
  <2> HIDE DEF v
  <2>4. Keeps(w, v)
    BY <2>2, <2>3 DEF Keeps, Heard
  <2> QED BY <1>1, <1>2, <2>1, <2>3, <2>4, TurnEnds
<1>5. CASE ~\E c \in Numbers : w.call[c].stream = s
  <2> DEFINE m == "dead"
             v == [w EXCEPT !.stream[s] = m]
  <2>1. v = dead
    OBVIOUS
  <2>2. m \in {"dead", "missed"} /\ m # "missed" /\ m = "dead"
    OBVIOUS
  <2> HIDE DEF m
  <2>3. /\ Good(v, {}) /\ Differ(w, v, {"stream"})
        /\ v.stream[s] = m /\ \A t \in Streams \ {s} : v.stream[t] = w.stream[t]
        /\ (Echo(w, 0) => Echo(v, 0)) /\ (Tuned(w) => Tuned(v)) /\ (Off(w) => Off(v)) /\ Shows(w, v)
        /\ Alive(w, 0) => Alive(v, s)
    <3>1. /\ w.stream[s] # "free" /\ (m = "missed" => w.stream[s] = "live")
          /\ m = "dead" => Unclaimed(w, s)
      BY <1>2, <1>5, <2>2 DEF Unclaimed
    <3>2. /\ Good(v, {}) /\ Differ(w, v, {"stream"})
          /\ (Echo(w, 0) => Echo(v, 0)) /\ (Tuned(w) => Tuned(v))
          /\ (Off(w) => Off(v)) /\ Shows(w, v)
          /\ Alive(w, 0) => Alive(v, s)
      BY <1>1, <2>2, <3>1, GoneDoes
    <3>3. v.stream[s] = m /\ \A t \in Streams \ {s} : v.stream[t] = w.stream[t]
      BY <1>1 DEF Good, Typed, Fields
    <3> QED BY <3>2, <3>3
  <2>4. v.active = w.active
    BY <2>3 DEF Differ, Fields
  <2> HIDE DEF v, dead
  <2>5. Alive(v, s) /\ Heard(v, 0) /\ Shown(v) /\ ~IsLive(v, s)
    BY <1>1, <2>2, <2>3 DEF Sound, Heard, Shows, IsLive
  <2>6. s # 0 /\ Free(v) # {}
    BY <1>2, <2>2, <2>3, DevicesAssumption DEF Free, DevicesAssumption
  <2>7. ASSUME NEW u, Sound(u), Off(w) => Off(u), Become(u)
        PROVE  DevicesInv'
    <3>1. Sound(World)' /\ (Off(u) => Off(World)')
      BY <1>2, <2>7, BecomeDoes
    <3> QED BY <1>1, <1>2, <2>7, <3>1 DEF DevicesInv
  <2>8. CASE w.active.video.stream = s
    <3> DEFINE u == NoVideo(v)
    <3>1. Become(u)
      BY <1>3, <1>5, <2>1, <2>8
    <3>2. Heard(v, s) /\ Shown(v)
      BY <2>5, DevicesAssumption DEF Heard, Echo, Tuned, Shown, IsLive, DevicesAssumption
    <3>3. Good(u, {}) /\ Alive(u, 0) /\ Heard(u, 0) /\ Shown(u) /\ Off(u)
      BY <2>3, <2>4, <2>5, <2>8, <3>2, NoVideoDoes
    <3> HIDE DEF u
    <3> QED BY <2>7, <3>1, <3>3 DEF Sound
  <2>9. CASE /\ w.active.video.stream # s /\ w.active.audio.stream = s
             /\ w.active.audio.device # NoDevice
    <3> DEFINE kind == "audio"
               no == FALSE
               u == Choose(v, 0, kind, NoDevice, no)
    <3>1. Become(u)
      BY <1>3, <1>5, <2>1, <2>9
    <3>2. kind \in Kinds /\ kind = "audio" /\ 0 \in Numbers
          /\ NoDevice \in Microphones \cup Cameras \cup {NoDevice}
      BY DEF Kinds, Numbers
    <3> HIDE DEF kind, no
    <3>3. PICK x : /\ Good(x, {}) /\ Alive(x, 0) /\ Heard(x, 0) /\ Shows(v, x)
                   /\ kind = "audio" /\ Off(v) => Off(x)
                   /\ \/ u = x
                      \/ NoDevice # NoDevice
      BY <2>3, <2>4, <2>5, <2>6, <2>9, <3>2, ChooseDoes DEF Heard
    <3> HIDE DEF u
    <3>4. u = x
      BY <3>3
    <3>5. Sound(u) /\ (Off(w) => Off(u))
      BY <2>3, <2>5, <3>2, <3>3, <3>4 DEF Sound, Shows
    <3> QED BY <2>7, <3>1, <3>5
  <2>10. CASE w.active.video.stream # s /\ w.active.audio.stream # s
    <3>1. Become(v)
      BY <1>3, <1>5, <2>1, <2>10
    <3>2. Alive(v, 0)
      BY <2>4, <2>5, <2>10 DEF Alive
    <3> QED BY <2>3, <2>5, <2>7, <3>1, <3>2 DEF Sound
  <2>11. CASE /\ w.active.video.stream # s /\ w.active.audio.stream = s
              /\ w.active.audio.device = NoDevice
    BY <1>3, <1>5, <2>11
  <2> QED BY <2>8, <2>9, <2>10, <2>11
<1> QED BY <1>4, <1>5

-----------------------------------------------------------------------------
(* The session.                                                             *)

LEMMA StartLocalVideoAgrees ==
  ASSUME DevicesInv, StartLocalVideo
  PROVE  DevicesInv'
<1> DEFINE w == World
           yes == TRUE
           u == [w EXCEPT !.tile = yes]
<1>1. PICK same \in BOOLEAN : Become(RequestUpdate(u, same))
  BY DEF StartLocalVideo
<1>2. web' = web /\ wanted' = wanted
  BY DEF StartLocalVideo
<1>3. Good(w, {}) /\ w = World /\ yes \in BOOLEAN /\ yes
  BY DEF DevicesInv, Sound
<1> HIDE DEF w, yes
<1>4. Good(u, {}) /\ Keeps(w, u) /\ Shows(w, u)
  BY <1>3, TileGiven
<1> DEFINE v == RequestUpdate(u, same)
<1> HIDE DEF u
<1>5. Good(v, {}) /\ Keeps(u, v) /\ Shows(u, v)
  BY <1>4, RequestUpdateDoes
<1>6. Become(v)
  BY <1>1
<1> HIDE DEF v
<1>7. Keeps(w, v) /\ Shows(w, v)
  BY <1>4, <1>5 DEF Keeps, Heard, Shows
<1> QED BY <1>2, <1>3, <1>5, <1>6, <1>7, TurnEnds

LEMMA StopLocalVideoAgrees ==
  ASSUME DevicesInv, StopLocalVideo
  PROVE  DevicesInv'
<1> DEFINE w == World
           v == StopTile(w)
<1>1. Become(v) /\ web' = web /\ wanted' = wanted
  BY DEF StopLocalVideo
<1>2. Good(w, {}) /\ w = World
  BY DEF DevicesInv, Sound
<1> HIDE DEF w
<1>3. Good(v, {}) /\ Keeps(w, v) /\ Shows(w, v)
  BY <1>2, StopTileDoes DEF Shows
<1> HIDE DEF v
<1> QED BY <1>1, <1>2, <1>3, TurnEnds

LEMMA MonitorUpdateAgrees ==
  ASSUME DevicesInv, MonitorUpdate
  PROVE  DevicesInv'
<1> DEFINE w == World
<1>1. PICK same \in BOOLEAN : Become(RequestUpdate(w, same))
  BY DEF MonitorUpdate
<1> DEFINE v == RequestUpdate(w, same)
<1>2. web' = web /\ wanted' = wanted
  BY DEF MonitorUpdate
<1>3. Good(w, {}) /\ w = World
  BY DEF DevicesInv, Sound
<1> HIDE DEF w
<1>4. Good(v, {}) /\ Keeps(w, v) /\ Shows(w, v)
  BY <1>3, RequestUpdateDoes
<1>5. Become(v)
  BY <1>1
<1> HIDE DEF v
<1> QED BY <1>2, <1>3, <1>4, <1>5, TurnEnds

\* The session uses the mix, or nothing, in place of an input that is gone.
LEMMA NoStreamIs ==
  ASSUME NEW w, NEW m \in {0, Mix}, NEW X, Good(w, X), ~IsLive(w, w.using.audio),
         web \/ w.refused \/ w.active.audio.stream = 0
  PROVE  LET v == [w EXCEPT !.using.audio = m]
         IN  Good(v, X) /\ Keeps(w, v) /\ Shows(w, v)
<1> DEFINE v == [w EXCEPT !.using.audio = m]
<1>0. m \in Ids \cup {Mix}
  BY DEF Ids
<1>1. /\ Typed(v) /\ v.active = w.active /\ v.call = w.call /\ v.preview = w.preview
      /\ v.source = w.source /\ v.sess = w.sess /\ v.job = w.job /\ v.slot = w.slot
      /\ v.tile = w.tile /\ v.using.audio = m /\ v.using.video = w.using.video
      /\ v.stream = w.stream /\ v.refused = w.refused
  BY <1>0 DEF Good, Typed, Fields, Kinds
<1> HIDE DEF v
<1>2. \A t : t \in Others(v) => t \in {0, Mix} \/ t \in Others(w)
  BY <1>1 DEF Others
<1>3. \A t : t \in Others(w) => t = w.using.audio \/ t \in Others(v)
  BY <1>1 DEF Others
<1>4. Held(v, X)
  BY <1>1, <1>3 DEF Good, Held, IsLive
<1>5. Taken(v)
  BY <1>1, <1>2, DevicesAssumption DEF Good, Taken, DevicesAssumption
<1>6. Fresh(v)
  <2>1. \A c \in Numbers : w.call[c].stream # Mix
    BY DevicesAssumption DEF Good, Typed, Ids, DevicesAssumption
  <2> QED BY <1>1, <1>2, <2>1 DEF Good, Fresh
<1>7. Apart(v) /\ Control(v)
  BY <1>1 DEF Good, Apart, Control, Busy
<1>8. Keeps(w, v) /\ Shows(w, v)
  BY <1>1, DevicesAssumption
     DEF Keeps, Shows, Alive, Echo, Tuned, Shown, Off, IsLive, DevicesAssumption
<1> QED BY <1>1, <1>4, <1>5, <1>6, <1>7, <1>8 DEF Good, v

\* A session starts with a new context.
NoInput  == [k \in Kinds |-> 0]
Starting == [NoJob EXCEPT !.kind = "start"]

\* Start replaces the inputs of the context before.
LEMMA OpenDoes ==
  ASSUME NEW w, Sound(w), w.job = NoJob
  PROVE  LET v == [w EXCEPT !.using = NoInput, !.sess = "start", !.job = Starting]
         IN  /\ Good(v, {w.using.video, w.using.audio}) /\ Sound(w)
             /\ Alive(v, 0) /\ Echo(v, 0) /\ Shown(v) /\ (Off(w) => Off(v))
             /\ web => Tuned(v)
             /\ v.call = w.call /\ v.stream = w.stream /\ v.using = NoInput /\ v.job = Starting
             /\ v.active = w.active
<1> DEFINE v == [w EXCEPT !.using = NoInput, !.sess = "start", !.job = Starting]
<1>1. NoInput \in [Kinds -> Ids \cup {Mix}] /\ NoInput.audio = 0 /\ NoInput.video = 0 /\ 0 # Mix
  BY DevicesAssumption DEF NoInput, Kinds, Ids, DevicesAssumption
<1>2. /\ Starting \in Jobs /\ Starting.kind = "start" /\ Starting.old = 0 /\ ~Starting.receiving
      /\ ~NoJob.receiving /\ NoJob.old = 0
  BY DEF Jobs, NoJob, Ids, Starting
<1>3. /\ Typed(v) /\ v.active = w.active /\ v.call = w.call /\ v.preview = w.preview
      /\ v.source = w.source /\ v.sess = "start" /\ v.job = Starting /\ v.slot = w.slot
      /\ v.tile = w.tile /\ v.using = NoInput /\ v.stream = w.stream
  BY <1>1, <1>2 DEF Sound, Good, Typed, Fields, Jobs
<1> HIDE DEF v
<1>4. \A t : t \in Others(v) => t = 0 \/ t \in Others(w)
  BY <1>1, <1>2, <1>3 DEF Others
<1>5. \A t : t \in Others(w) => t \in {0, w.using.video, w.using.audio} \/ t \in Others(v)
  BY <1>2, <1>3 DEF Others
<1>6. Held(v, {w.using.video, w.using.audio})
  BY <1>3, <1>5, DevicesAssumption DEF Sound, Good, Held, DevicesAssumption
<1>7. Taken(v)
  BY <1>3, <1>4, DevicesAssumption DEF Sound, Good, Taken, DevicesAssumption
<1>8. Fresh(v)
  BY <1>3, <1>4, FreshStays DEF Sound, Good
<1>9. Apart(v)
  BY <1>3 DEF Sound, Good, Apart
<1>10. Control(v)
  BY <1>2, <1>3 DEF Sound, Good, Control, Busy
<1>11. Alive(v, 0) /\ (Off(w) => Off(v))
  BY <1>3 DEF Sound, Alive, Off
<1>12. Echo(v, 0) /\ (web => Tuned(v))
  BY <1>1, <1>3, DevicesAssumption DEF Sound, Heard, Echo, Tuned, IsLive, DevicesAssumption
<1>13. Shown(v)
  <2>1. w.call[0].at = "idle"
    BY <1>2 DEF Sound, Good, Control
  <2> QED BY <1>1, <1>3, <2>1 DEF Shown
<1> QED BY <1>3, <1>6, <1>7, <1>8, <1>9, <1>10, <1>11, <1>12, <1>13 DEF Good, v

\* Spilling takes no room.
LEMMA SpillLeavesFree ==
  ASSUME NEW w, NEW s, Typed(w)
  PROVE  Free(Spill(w, s)) = Free(w)
<1> DEFINE u == [w EXCEPT !.stream[s] = "spilled"]
<1>1. CASE IsLive(w, s) /\ s \notin Holders(w)
  <2>1. Spill(w, s) = u /\ s \in Streams /\ w.stream[s] = "live"
    BY <1>1 DEF Spill, IsLive
  <2>2. u.stream[s] = "spilled" /\ \A t \in Streams \ {s} : u.stream[t] = w.stream[t]
    BY <2>1 DEF Typed, Fields
  <2> HIDE DEF u
  <2>3. Free(u) = Free(w)
    BY <2>1, <2>2 DEF Free
  <2> QED BY <2>1, <2>3
<1>2. CASE ~(IsLive(w, s) /\ s \notin Holders(w))
  BY <1>2 DEF Spill
<1> QED BY <1>1, <1>2

LEMMA StartAgrees ==
  ASSUME DevicesInv, Start
  PROVE  DevicesInv'
<1> DEFINE W == World
           o == [W EXCEPT !.using = NoInput, !.sess = "start", !.job = Starting]
           v == Spill(o, W.using.video)
           w == Spill(v, W.using.audio)
           kind == "audio"
           device == W.active.audio.device
           u(same) == Choose(w, 0, kind, device, same)
           mixed == [w EXCEPT !.using.audio = Mix]
           asked(same) == [u(same) EXCEPT !.job.receiving = TRUE]
           had(same) == UseAudio(u(same), u(same).active.audio.stream)
<1>1. /\ Sound(W) /\ W = World /\ W.job = job /\ W.call = call /\ W.using = using
      /\ W.active = active /\ (wanted = "nothing" => Off(W))
  BY DEF DevicesInv, World
<1>2. W.job = NoJob /\ W.call[0].at = "idle" /\ Free(W) # {} /\ web' = web /\ wanted' = wanted
  BY SMTT(60), <1>1 DEF Start, Room, Idle
<1>3. PICK same \in BOOLEAN :
        Become(IF web THEN mixed
               ELSE IF u(same).call[0].at = "prompt" THEN asked(same) ELSE had(same))
  BY <1>1 DEF Start, NoInput, Starting
<1>4. device \in Microphones \cup Cameras \cup {NoDevice}
  BY <1>1 DEF Sound, Good, Typed, Kinds
<1>5. kind \in Kinds /\ kind = "audio" /\ 0 \in Numbers
  BY DEF Kinds, Numbers
<1>6. NoInput.audio = 0 /\ Starting.kind = "start"
  BY DEF NoInput, Starting, NoJob, Kinds
<1> HIDE DEF W, kind, device
<1>7. /\ Good(o, {W.using.video, W.using.audio})
      /\ Alive(o, 0) /\ Echo(o, 0) /\ Shown(o) /\ (Off(W) => Off(o)) /\ (web => Tuned(o))
      /\ o.call = W.call /\ o.stream = W.stream /\ o.using = NoInput /\ o.job = Starting
      /\ o.active = W.active
  BY <1>1, <1>2, OpenDoes
<1> HIDE DEF o
<1>8. /\ Good(v, {W.using.video, W.using.audio} \ {W.using.video}) /\ Differ(o, v, {"stream"})
      /\ Keeps(o, v) /\ Shows(o, v) /\ Free(v) = Free(o)
  <2> DEFINE s == W.using.video
             n == Spill(o, s)
  <2> HIDE DEF s
  <2>1. Good(n, {W.using.video, W.using.audio} \ {s}) /\ Differ(o, n, {"stream"})
        /\ Keeps(o, n) /\ Shows(o, n)
    BY <1>7, SpillDoes
  <2>2. Free(n) = Free(o)
    BY <1>7, SpillLeavesFree DEF Good
  <2> QED BY <2>1, <2>2 DEF s
<1> HIDE DEF v
<1>9. /\ Good(w, ({W.using.video, W.using.audio} \ {W.using.video}) \ {W.using.audio})
      /\ Differ(v, w, {"stream"}) /\ Keeps(v, w) /\ Shows(v, w) /\ Free(w) = Free(v)
  <2> DEFINE s == W.using.audio
             n == Spill(v, s)
  <2> HIDE DEF s
  <2>1. Good(n, ({W.using.video, W.using.audio} \ {W.using.video}) \ {s})
        /\ Differ(v, n, {"stream"}) /\ Keeps(v, n) /\ Shows(v, n)
    BY <1>8, SpillDoes
  <2>2. Free(n) = Free(v)
    BY <1>8, SpillLeavesFree DEF Good
  <2> QED BY <2>1, <2>2 DEF s
<1> HIDE DEF w
<1>10. Good(w, {})
  BY <1>9 DEF Good, Held
<1>11. /\ Alive(w, 0) /\ Echo(w, 0) /\ Shown(w) /\ (Off(W) => Off(w)) /\ Free(w) # {}
       /\ web => Tuned(w)
  BY <1>2, <1>7, <1>8, <1>9 DEF Keeps, Heard, Shows, Free
<1>12. w.call = W.call /\ w.using.audio = 0 /\ w.job.kind = "start"
  BY <1>6, <1>7, <1>8, <1>9 DEF Differ, Fields
<1>13. ASSUME NEW r, Become(r), Sound(r), Off(W) => Off(r)
       PROVE  DevicesInv'
  <2>1. Sound(World)' /\ (Off(r) => Off(World)')
    BY <1>2, <1>13, BecomeDoes
  <2> QED BY <1>1, <1>2, <1>13, <2>1 DEF DevicesInv
<1>14. CASE web
  <2> DEFINE m == Mix
             r == [w EXCEPT !.using.audio = m]
  <2>1. Become(r) /\ m \in {0, Mix}
    BY <1>3, <1>14
  <2> HIDE DEF m
  <2>2. ~IsLive(w, w.using.audio)
    BY <1>12, DevicesAssumption DEF IsLive, DevicesAssumption
  <2>3. Good(r, {}) /\ Keeps(w, r) /\ Shows(w, r)
    BY <1>10, <1>14, <2>1, <2>2, NoStreamIs
  <2> HIDE DEF r
  <2>4. Sound(r) /\ (Off(W) => Off(r))
    BY <1>11, <1>14, <2>3 DEF Sound, Keeps, Heard, Shows
  <2> QED BY <1>13, <2>1, <2>4
<1>15. CASE ~web
  <2> DEFINE c == u(same)
  <2>1. PICK x : /\ Good(x, {}) /\ Alive(x, 0) /\ Echo(x, 0) /\ Shows(w, x)
                 /\ kind = "audio" /\ Off(w) => Off(x)
                 /\ \/ /\ c = x
                       /\ x.call[0] = w.call[0]
                    \/ /\ c = Prompt(x, 0, kind, device)
                       /\ device # NoDevice /\ (kind = "audio" => Tuned(x))
                       /\ x.call = w.call /\ x.job = w.job /\ x.sess = w.sess
    <3> DEFINE n == 0
    <3>1. n = 0 /\ Alive(w, n)
      BY <1>11
    <3> HIDE DEF n
    <3> QED BY <1>4, <1>5, <1>10, <1>11, <3>1, ChooseDoes
  <2>2. Become(IF c.call[0].at = "prompt" THEN asked(same) ELSE had(same))
    BY <1>3, <1>15
  <2> HIDE DEF u
  <2>3. CASE c = x /\ x.call[0] = w.call[0]
    <3> DEFINE a == x.active.audio.stream
               r == UseAudio(x, a)
    <3>1. c.call[0].at # "prompt"
      BY <1>2, <1>12, <2>3
    <3>2. Become(r)
      BY <2>2, <2>3, <3>1
    <3>3. a \in {0, x.active.audio.stream}
      OBVIOUS
    <3> HIDE DEF a
    <3>4. Good(r, {}) /\ Keeps(x, r) /\ Shows(x, r) /\ Echo(r, 0) /\ Tuned(r)
      BY <1>15, <2>1, <3>3, UseAudioDoes
    <3> HIDE DEF r
    <3>5. Sound(r) /\ (Off(W) => Off(r))
      BY <1>5, <1>11, <2>1, <3>4 DEF Sound, Keeps, Heard, Shows
    <3> QED BY <1>13, <3>2, <3>5
  <2>4. CASE /\ c = Prompt(x, 0, kind, device) /\ x.call = w.call /\ x.job = w.job
             /\ kind = "audio" => Tuned(x)
    <3> DEFINE A == [Idle EXCEPT !.at = "prompt", !.kind = kind, !.device = device]
               k1 == [x.call EXCEPT ![0] = A]
               j1 == [x.job EXCEPT !.receiving = TRUE]
               y == [x EXCEPT !.job.receiving = TRUE]
               r == Prompt(y, 0, kind, device)
    <3>1. x = [f \in Fields |-> x[f]] /\ x.call = [d \in Numbers |-> x.call[d]]
      BY <2>1 DEF Good, Typed
    <3>2. c = [x EXCEPT !.call = k1] /\ c.call = k1 /\ c.job = x.job
      BY <2>4, <3>1 DEF Prompt, Fields
    <3>3. A.at = "prompt"
      BY DEF Idle
    <3>4. c.call[0].at = "prompt"
      BY <1>5, <3>1, <3>2, <3>3
    <3>5. asked(same) = [c EXCEPT !.job = j1]
      BY <3>2
    <3>6. y = [x EXCEPT !.job = j1] /\ y.call = x.call
      BY <3>1 DEF Fields
    <3>7. r = [y EXCEPT !.call = k1]
      BY <3>6 DEF Prompt
    <3> HIDE DEF A, k1, j1
    <3>8. asked(same) = r
      <4>1. [[x EXCEPT !.call = k1] EXCEPT !.job = j1] = [[x EXCEPT !.job = j1] EXCEPT !.call = k1]
        BY <3>1
      <4> HIDE DEF c, r, y, asked
      <4> QED BY <3>2, <3>5, <3>6, <3>7, <4>1
    <3>9. Become(r)
      <4> HIDE DEF asked, r
      <4> QED BY <2>2, <3>4, <3>8
    <3>10. /\ Good(y, {}) /\ Differ(x, y, {"job"}) /\ y.job.receiving
           /\ Keeps(x, y) /\ Shows(x, y)
      BY <1>12, <2>1, <2>4, ReceivingIs
    <3>11. y.call[0].at = "idle"
      BY <1>2, <1>12, <2>4, <3>6
    <3> HIDE DEF y
    <3>12. /\ Good(r, {})
           /\ Alive(y, 0) => Alive(r, 0)
           /\ (Echo(y, 0) => Echo(r, 0)) /\ (Tuned(y) => Tuned(r))
           /\ kind = "audio" /\ Off(y) => Off(r)
           /\ Shows(y, r)
      BY <1>4, <1>5, <3>10, <3>11, PromptDoes
    <3> HIDE DEF r
    <3>13. Sound(r) /\ (Off(W) => Off(r))
      BY <1>5, <1>11, <2>1, <2>4, <3>10, <3>12 DEF Sound, Keeps, Heard, Shows
    <3> QED BY <1>13, <3>9, <3>13
  <2> QED BY <2>1, <2>3, <2>4
<1> QED BY <1>14, <1>15

\* The session closes, or is down, with nothing deferred.
LEMMA SessionIsOver ==
  ASSUME NEW w, NEW m \in {"closing", "down"}, NEW X, Good(w, X), w.slot.kind = "none"
  PROVE  LET v == [w EXCEPT !.sess = m]
         IN  Good(v, X) /\ Keeps(w, v) /\ Shown(v)
<1> DEFINE v == [w EXCEPT !.sess = m]
<1>1. /\ Typed(v) /\ v.active = w.active /\ v.call = w.call /\ v.preview = w.preview
      /\ v.source = w.source /\ v.sess = m /\ v.job = w.job /\ v.slot = w.slot
      /\ v.tile = w.tile /\ v.using = w.using /\ v.refused = w.refused /\ v.stream = w.stream
  BY DEF Good, Typed, Fields
<1> HIDE DEF v
<1>2. Others(v) = Others(w)
  BY <1>1 DEF Others
<1>3. Held(v, X) /\ Taken(v) /\ Fresh(v)
  BY <1>1, <1>2 DEF Good, Held, Taken, Fresh
<1>4. Apart(v) /\ Control(v)
  BY <1>1 DEF Good, Apart, Control
<1>5. Keeps(w, v) /\ Shown(v)
  BY <1>1 DEF Keeps, Alive, Heard, Echo, Tuned, Shown, Off, IsLive
<1> QED BY <1>1, <1>3, <1>4, <1>5 DEF Good, v

LEMMA StopAgrees ==
  ASSUME DevicesInv, Stop
  PROVE  DevicesInv'
<1> DEFINE w == World
<1>1. /\ Good(w, {}) /\ w = World /\ web' = web /\ wanted' = wanted
      /\ w.sess \in {"start", "up"}
  BY DEF DevicesInv, Sound, Stop, World
<1>2. Become(IF ~Busy(w) THEN [w EXCEPT !.sess = "closing"] ELSE Defer(w, "stop", 0))
  BY DEF Stop
<1> HIDE DEF w
<1>3. CASE ~Busy(w)
  <2> DEFINE m == "closing"
             v == [w EXCEPT !.sess = m]
  <2>1. Become(v)
    BY <1>2, <1>3
  <2>2. m \in {"closing", "down"}
    OBVIOUS
  <2> HIDE DEF m
  <2>3. w.slot.kind = "none"
    BY <1>1, <1>3 DEF Good, Control
  <2>4. Good(v, {}) /\ Keeps(w, v) /\ Shown(v)
    BY <1>1, <2>2, <2>3, SessionIsOver
  <2> HIDE DEF v
  <2>5. Shows(w, v)
    BY <2>4 DEF Shows
  <2> QED BY <1>1, <2>1, <2>4, <2>5, TurnEnds
<1>4. CASE Busy(w)
  <2> DEFINE kind == "stop"
             none == 0
             v == Defer(w, kind, none)
  <2>1. Become(v)
    BY <1>2, <1>4
  <2>2. kind \in {"update", "restart", "stop"} /\ none = 0 /\ none \in Ids /\ Settled(w, none)
    BY DEF Ids, Settled
  <2> HIDE DEF kind, none
  <2>3. Good(v, {} \ {none}) /\ Keeps(w, v) /\ Shown(v)
    BY <1>1, <1>4, <2>2, DeferDoes
  <2> HIDE DEF v
  <2>4. Good(v, {}) /\ Shows(w, v)
    BY <2>3 DEF Good, Held, Shows
  <2> QED BY <1>1, <2>1, <2>3, <2>4, TurnEnds
<1> QED BY <1>3, <1>4

LEMMA FailAgrees ==
  ASSUME DevicesInv, Fail
  PROVE  DevicesInv'
<1> DEFINE w == World
           next == IF HasPeer(w) THEN "closing" ELSE "aborting"
           j == IF w.sess = "start" THEN NoJob ELSE w.job
           s == w.slot.old
           u == [w EXCEPT !.slot = Nothing, !.sess = next, !.job = j]
           v == Spill(u, s)
<1>1. Become(v) /\ web' = web /\ wanted' = wanted
  BY DEF Fail, World
<1>2. w.sess = "up" \/ (w.sess = "start" /\ ~w.job.receiving)
  BY DEF Fail, World
<1>3. Good(w, {}) /\ w = World
  BY DEF DevicesInv, Sound
<1> HIDE DEF w
<1>4. /\ NoJob \in Jobs /\ NoJob.old = 0 /\ ~NoJob.receiving
      /\ Nothing \in [kind : {"none", "update", "restart", "stop"}, old : Ids]
      /\ Nothing.kind = "none" /\ Nothing.old = 0
  BY DEF NoJob, Jobs, Ids, Nothing
<1>5. /\ j \in Jobs /\ (w.sess = "start" => j = NoJob) /\ (w.sess # "start" => j = w.job)
      /\ next \in {"closing", "aborting"}
  BY <1>3, <1>4 DEF Good, Typed, Jobs
<1> HIDE DEF next, j
<1>6. /\ Typed(u) /\ u.active = w.active /\ u.call = w.call /\ u.preview = w.preview
      /\ u.source = w.source /\ u.sess = next /\ u.job = j /\ u.slot = Nothing
      /\ u.tile = w.tile /\ u.using = w.using /\ u.refused = w.refused /\ u.stream = w.stream
  BY <1>3, <1>4, <1>5 DEF Good, Typed, Fields, Jobs
<1> HIDE DEF u, v
<1>7. j.old = w.job.old
  BY <1>3, <1>4, <1>5 DEF Good, Control
<1>8. \A t : t \in Others(u) => t = 0 \/ t \in Others(w)
  BY <1>4, <1>6, <1>7 DEF Others
<1>9. \A t : t \in Others(w) => t = s \/ t \in Others(u)
  BY <1>6, <1>7 DEF Others
<1>10. Held(u, {s})
  BY <1>3, <1>6, <1>9 DEF Good, Held
<1>11. Taken(u)
  BY <1>3, <1>6, <1>8, DevicesAssumption DEF Good, Taken, DevicesAssumption
<1>12. Fresh(u)
  BY <1>3, <1>6, <1>8, FreshStays DEF Good
<1>13. Apart(u)
  BY <1>3, <1>6 DEF Good, Apart
<1>14. Control(u)
  BY <1>2, <1>3, <1>4, <1>5, <1>6 DEF Good, Control
<1>15. Good(u, {s})
  BY <1>6, <1>10, <1>11, <1>12, <1>13, <1>14 DEF Good
<1>16. Keeps(w, u) /\ Shown(u)
  BY <1>5, <1>6 DEF Keeps, Alive, Heard, Echo, Tuned, Off, Shown, IsLive
<1> HIDE DEF s
<1>17. Good(v, {s} \ {s}) /\ Keeps(u, v) /\ Shows(u, v)
  BY <1>15, SpillDoes DEF v
<1>18. Good(v, {}) /\ Keeps(w, v) /\ Shows(w, v)
  BY <1>16, <1>17 DEF Good, Held, Keeps, Heard, Shows
<1> QED BY <1>1, <1>3, <1>18, TurnEnds

-----------------------------------------------------------------------------
(* A job of the session ends.                                               *)

\* A task group ends after its session.
LEMMA JobTaken ==
  ASSUME NEW w, NEW X, Good(w, X), ~w.job.receiving, w.sess \notin {"start", "up"}
  PROVE  LET v == [w EXCEPT !.job = NoJob]
         IN  Good(v, X \cup {w.job.old}) /\ Keeps(w, v) /\ Shown(v) /\ v.call = w.call
<1> DEFINE v == [w EXCEPT !.job = NoJob]
<1>1. NoJob \in Jobs /\ NoJob.old = 0 /\ ~NoJob.receiving
  BY DEF NoJob, Jobs, Ids
<1>2. /\ Typed(v) /\ v.active = w.active /\ v.call = w.call /\ v.preview = w.preview
      /\ v.source = w.source /\ v.sess = w.sess /\ v.job = NoJob /\ v.slot = w.slot
      /\ v.tile = w.tile /\ v.using = w.using /\ v.refused = w.refused /\ v.stream = w.stream
  BY <1>1 DEF Good, Typed, Fields, Jobs
<1> HIDE DEF v
<1>3. \A t : t \in Others(v) => t = 0 \/ t \in Others(w)
  BY <1>1, <1>2 DEF Others
<1>4. \A t : t \in Others(w) => t = w.job.old \/ t \in Others(v)
  BY <1>2 DEF Others
<1>5. Held(v, X \cup {w.job.old})
  BY <1>2, <1>4 DEF Good, Held
<1>6. Taken(v)
  BY <1>2, <1>3, DevicesAssumption DEF Good, Taken, DevicesAssumption
<1>7. Fresh(v)
  BY <1>2, <1>3, FreshStays DEF Good
<1>8. Apart(v) /\ Control(v)
  BY <1>1, <1>2 DEF Good, Apart, Control, Busy
<1>9. Keeps(w, v) /\ Shown(v)
  BY <1>2 DEF Keeps, Alive, Heard, Echo, Tuned, Shown, Off, IsLive
<1> QED BY <1>2, <1>5, <1>6, <1>7, <1>8, <1>9 DEF Good, v

\* A session is at rest, and what was deferred is about to be performed.
LEMMA RestIs ==
  ASSUME NEW w, NEW X, Good(w, X), ~w.job.receiving, w.sess \in {"start", "up"}
  PROVE  LET v == [[[w EXCEPT !.job = NoJob] EXCEPT !.sess = "up"] EXCEPT !.slot = Nothing]
         IN  /\ Good(v, X \cup {w.job.old, w.slot.old}) /\ Keeps(w, v)
             /\ w.slot.kind = "none" => Shows(w, v)
             /\ v.call = w.call /\ v.job = NoJob /\ v.sess = "up" /\ v.stream = w.stream
             /\ v.slot.kind = "none"
<1> DEFINE v == [[[w EXCEPT !.job = NoJob] EXCEPT !.sess = "up"] EXCEPT !.slot = Nothing]
<1>1. /\ NoJob \in Jobs /\ NoJob.old = 0 /\ ~NoJob.receiving
      /\ Nothing \in [kind : {"none", "update", "restart", "stop"}, old : Ids]
      /\ Nothing.kind = "none" /\ Nothing.old = 0
  BY DEF NoJob, Jobs, Ids, Nothing
<1>2. /\ Typed(v) /\ v.active = w.active /\ v.call = w.call /\ v.preview = w.preview
      /\ v.source = w.source /\ v.sess = "up" /\ v.job = NoJob /\ v.slot = Nothing
      /\ v.tile = w.tile /\ v.using = w.using /\ v.refused = w.refused /\ v.stream = w.stream
  BY <1>1 DEF Good, Typed, Fields, Jobs
<1> HIDE DEF v
<1>3. \A t : t \in Others(v) => t = 0 \/ t \in Others(w)
  BY <1>1, <1>2 DEF Others
<1>4. \A t : t \in Others(w) => t \in {w.job.old, w.slot.old} \/ t \in Others(v)
  BY <1>2 DEF Others
<1>5. Held(v, X \cup {w.job.old, w.slot.old})
  BY <1>2, <1>4 DEF Good, Held
<1>6. Taken(v)
  BY <1>2, <1>3, DevicesAssumption DEF Good, Taken, DevicesAssumption
<1>7. Fresh(v)
  BY <1>2, <1>3, FreshStays DEF Good
<1>8. Apart(v) /\ Control(v)
  BY <1>1, <1>2 DEF Good, Apart, Control, Busy
<1>9. Keeps(w, v)
  BY <1>2 DEF Keeps, Alive, Heard, Echo, Tuned, Off, IsLive
<1>10. w.slot.kind = "none" => Shows(w, v)
  BY <1>2 DEF Shows, Shown, IsLive
<1> QED BY <1>1, <1>2, <1>5, <1>6, <1>7, <1>8, <1>9, <1>10 DEF Good, v

\* A task group ends and the deferred action, if any, is performed; the stream left
\* to the callback of restartLocalVideo() is excused.
LEMMA FinishJobDoes ==
  ASSUME NEW w, NEW same, Good(w, {}), ~w.job.receiving
  PROVE  LET v == FinishJob(w, same)
         IN  /\ Good(v, {w.job.old}) /\ Keeps(w, v) /\ Shows(w, v)
             /\ CallsStay(w, v) /\ v.call[0].stream = 0
<1> DEFINE old == w.job.old
           s == w.slot.old
           y == [w EXCEPT !.job = NoJob]
           x == [y EXCEPT !.sess = "up"]
           z == [x EXCEPT !.slot = Nothing]
           v == FinishJob(w, same)
<1>1. w.call[0].at = "idle" /\ w.call[0].stream = 0
  BY DEF Good, Control, Fresh, Numbers
<1>2. CASE w.sess \notin {"start", "up"}
  <2>1. v = y
    BY <1>2 DEF FinishJob
  <2>2. Good(y, {} \cup {old}) /\ Keeps(w, y) /\ Shown(y) /\ y.call = w.call
    BY <1>2, JobTaken
  <2> HIDE DEF y, v
  <2>3. Good(v, {old})
    BY <2>1, <2>2 DEF Good, Held
  <2> QED BY <1>1, <2>1, <2>2, <2>3 DEF Shows, CallsStay, v
<1>3. CASE w.sess \in {"start", "up"}
  <2>1. /\ Good(z, {} \cup {old, s}) /\ Keeps(w, z)
        /\ w.slot.kind = "none" => Shows(w, z)
        /\ z.call = w.call /\ z.job = NoJob /\ z.sess = "up"
        /\ z.slot.kind = "none"
    BY <1>3, RestIs
  <2>2. x.slot = w.slot
    BY DEF Good, Typed, Fields
  <2>3. v = PerformDeferred(x, same)
    BY <1>3 DEF FinishJob
  <2>4. w.slot.kind \in {"none", "update", "restart", "stop"}
    BY DEF Good, Typed
  <2>5. v = CASE w.slot.kind = "update"  -> BeginUpdate(z, same)
              [] w.slot.kind = "restart" -> BeginRestart(z, s, same)
              [] w.slot.kind = "stop"    -> [z EXCEPT !.sess = "closing"]
              [] OTHER                   -> z
    BY <2>2, <2>3 DEF PerformDeferred
  <2>6. /\ s \in Ids /\ s \in Others(w) /\ Settled(w, s)
        /\ s # 0 => w.slot.kind = "restart"
    <3>1. s \in Ids /\ s \in Others(w)
      BY DEF Good, Typed, Others
    <3>2. Settled(w, s)
      BY <3>1, OthersAreSettled
    <3> QED BY <3>1, <3>2 DEF Good, Control
  <2>7. Settled(z, s)
    <3>1. z.stream = w.stream /\ z.call = w.call
      BY DEF Good, Typed, Fields
    <3> QED BY <2>6, <3>1 DEF Settled
  <2>8. w.slot.kind # "restart" => Good(z, {old})
    BY <2>1, <2>6, DevicesAssumption DEF Good, Held, DevicesAssumption
  <2> HIDE DEF z, v, s, old
  <2>9. CASE w.slot.kind = "update"
    <3>1. v = BeginUpdate(z, same)
      BY <2>5, <2>9
    <3>2. /\ Good(v, {old}) /\ Keeps(z, v) /\ Shown(v)
          /\ CallsStay(z, v) /\ v.call[0].at # "change"
      BY <2>1, <2>8, <2>9, <3>1, BeginUpdateDoes
    <3>3. v.call[0].stream = 0
      BY <3>2 DEF Good, Fresh, Numbers
    <3> QED BY <2>1, <3>2, <3>3 DEF Keeps, Heard, Shows, CallsStay, v, old
  <2>10. CASE w.slot.kind = "restart"
    <3>1. v = BeginRestart(z, s, same)
      BY <2>5, <2>10
    <3>2. /\ Good(v, ({} \cup {old, s}) \ {s}) /\ Keeps(z, v) /\ Shown(v)
          /\ CallsStay(z, v) /\ v.call[0].at # "change"
      BY <2>1, <2>7, <3>1, BeginRestartDoes
    <3>3. v.call[0].stream = 0
      BY <3>2 DEF Good, Fresh, Numbers
    <3>4. Good(v, {old})
      BY <3>2 DEF Good, Held
    <3> QED BY <2>1, <3>2, <3>3, <3>4 DEF Keeps, Heard, Shows, CallsStay, v, old
  <2>11. CASE w.slot.kind = "stop"
    <3> DEFINE m == "closing"
               n == [z EXCEPT !.sess = m]
    <3>1. v = n /\ m \in {"closing", "down"}
      BY <2>5, <2>11
    <3> HIDE DEF m
    <3>2. Good(n, {old}) /\ Keeps(z, n) /\ Shown(n)
      BY <2>1, <2>8, <2>11, <3>1, SessionIsOver
    <3>3. n.call = z.call
      BY <2>1 DEF Good, Typed, Fields
    <3> HIDE DEF n
    <3> QED BY <1>1, <2>1, <3>1, <3>2, <3>3 DEF Keeps, Heard, Shows, CallsStay, v, old
  <2>12. CASE w.slot.kind = "none"
    <3>1. v = z
      BY <2>5, <2>12
    <3> QED BY <1>1, <2>1, <2>8, <2>12, <3>1 DEF Keeps, Heard, Shows, CallsStay, v, old
  <2> QED BY <2>4, <2>9, <2>10, <2>11, <2>12
<1> QED BY <1>2, <1>3

LEMMA JobEndsAgrees ==
  ASSUME DevicesInv, JobEnds
  PROVE  DevicesInv'
<1> DEFINE w == World
           old == w.job.old
           joined == [w EXCEPT !.job.kind = "join"]
           again == [w EXCEPT !.tile = TRUE, !.job.kind = "restartStart"]
           next == IF again.sess = "up" THEN Defer(again, "update", 0) ELSE again
           done(same) == FinishJob(w, same)
<1>1. /\ Sound(w) /\ Good(w, {}) /\ w = World /\ web' = web /\ wanted' = wanted
      /\ w.job.kind # "none" /\ ~w.job.receiving
  BY DEF DevicesInv, Sound, JobEnds, World
<1>2. PICK same \in BOOLEAN :
        Become(IF w.job.kind = "start" THEN joined
               ELSE IF w.job.kind = "restartStop" THEN ReceiveVideoInput(next, same)
               ELSE IF IsLive(done(same), old) THEN ReleaseMediaStream(done(same), old)
               ELSE done(same))
  BY DEF JobEnds, World
<1>3. /\ old \in Ids /\ old \in Others(w) /\ w.job \in Jobs
      /\ w.call[0].at = "idle" /\ Settled(w, old)
  <2>1. old \in Ids /\ old \in Others(w)
    BY <1>1 DEF Good, Typed, Others
  <2>2. Settled(w, old)
    BY <1>1, <2>1, OthersAreSettled
  <2> QED BY <1>1, <2>1, <2>2 DEF Good, Typed, Jobs, Control
<1> HIDE DEF w
<1>4. CASE w.job.kind = "start"
  <2> DEFINE j == [w.job EXCEPT !.kind = "join"]
             v == [w EXCEPT !.job = j]
  <2>1. v = joined
    OBVIOUS
  <2>2. j \in Jobs /\ j.kind = "join" /\ j.old = old
    BY <1>3 DEF Jobs
  <2> HIDE DEF j
  <2>3. w.sess = "start" => j.kind \in {"start", "join"} /\ j.old = 0
    BY <1>1, <2>2 DEF Good, Control
  <2>4. Good(v, {} \ {j.old}) /\ Keeps(w, v) /\ Shows(w, v)
    BY <1>1, <1>3, <2>2, <2>3, JobGiven
  <2>5. Become(v)
    BY <1>2, <1>4, <2>1
  <2> HIDE DEF v
  <2>6. Good(v, {})
    BY <2>4 DEF Good, Held
  <2> QED BY <1>1, <2>4, <2>5, <2>6, TurnEnds
<1>5. CASE w.job.kind = "restartStop"
  <2> DEFINE yes == TRUE
             u == [w EXCEPT !.tile = yes]
             j == [w.job EXCEPT !.kind = "restartStart"]
             x == [u EXCEPT !.job = j]
             v == ReceiveVideoInput(next, same)
  <2>1. yes \in BOOLEAN /\ yes
    OBVIOUS
  <2>2. again = [w EXCEPT !.tile = yes, !.job = j]
    OBVIOUS
  <2>3. j \in Jobs /\ j.kind = "restartStart" /\ j.old = old
    BY <1>3 DEF Jobs
  <2> HIDE DEF j, yes
  <2>4. Good(u, {}) /\ Differ(w, u, {"tile"}) /\ Keeps(w, u) /\ Shows(w, u)
    BY <1>1, <2>1, TileGiven
  <2>5. u.call = w.call /\ u.sess = w.sess /\ u.job = w.job /\ u.stream = w.stream
    BY <2>4 DEF Differ, Fields
  <2>6. x = again
    BY <2>2
  <2>7. w.sess # "start"
    BY <1>1, <1>5 DEF Good, Control
  <2>8. Settled(u, j.old)
    BY <1>3, <2>3, <2>5 DEF Settled
  <2> HIDE DEF u
  <2>9. /\ Good(x, {} \ {j.old}) /\ Differ(u, x, {"job"}) /\ x.job = j
        /\ Keeps(u, x) /\ Shows(u, x)
    BY <1>3, <2>3, <2>4, <2>5, <2>7, <2>8, JobGiven
  <2>10. Good(x, {}) /\ x.call = u.call /\ x.sess = u.sess
    BY <2>9 DEF Good, Held, Differ, Fields
  <2> HIDE DEF x, again
  <2>11. /\ Good(next, {}) /\ Keeps(x, next) /\ next.call = x.call
         /\ next.job.kind # "none" /\ next.sess = x.sess
    <3>1. CASE x.sess = "up"
      <4> DEFINE kind == "update"
                 none == 0
                 n == Defer(x, kind, none)
      <4>1. next = n
        BY <2>6, <3>1
      <4>2. kind \in {"update", "restart", "stop"} /\ none = 0 /\ none \in Ids /\ Settled(x, none)
        BY DEF Ids, Settled
      <4>3. Busy(x)
        BY <2>3, <2>9, <3>1 DEF Busy, NoJob
      <4> HIDE DEF kind, none
      <4>4. Good(n, {} \ {none}) /\ Differ(x, n, {"stream", "slot"}) /\ Keeps(x, n)
        BY <2>10, <4>2, <4>3, DeferDoes
      <4> HIDE DEF n
      <4>5. Good(n, {}) /\ n.call = x.call /\ n.job = x.job /\ n.sess = x.sess
        BY <4>4 DEF Good, Held, Differ, Fields
      <4> HIDE DEF next
      <4> QED BY <2>3, <2>9, <4>1, <4>4, <4>5
    <3>2. CASE x.sess # "up"
      <4>1. next = x
        BY <2>6, <3>2
      <4> HIDE DEF next
      <4> QED BY <2>3, <2>9, <2>10, <4>1 DEF Keeps, Heard
    <3> QED BY <3>1, <3>2
  <2>12. next.call[0].at = "idle"
    BY <1>3, <2>5, <2>10, <2>11
  <2>13. Become(v)
    BY <1>2, <1>5
  <2> HIDE DEF next
  <2>14. Good(v, {}) /\ Keeps(next, v) /\ Shown(v)
    BY <2>11, <2>12, ReceiveDoes
  <2> HIDE DEF v
  <2>15. Keeps(w, v) /\ Shows(w, v)
    BY <2>4, <2>9, <2>11, <2>14 DEF Keeps, Heard, Shows
  <2> QED BY <1>1, <2>13, <2>14, <2>15, TurnEnds
<1>6. CASE w.job.kind \notin {"start", "restartStop"}
  <2> DEFINE u == done(same)
             v == ReleaseMediaStream(u, old)
  <2>1. /\ Good(u, {old}) /\ Keeps(w, u) /\ Shows(w, u)
        /\ CallsStay(w, u) /\ u.call[0].stream = 0
    BY <1>1, FinishJobDoes
  <2>2. Become(IF IsLive(u, old) THEN v ELSE u)
    BY <1>2, <1>6
  <2> HIDE DEF u, old
  <2>3. CASE ~IsLive(u, old)
    <3>1. Good(u, {})
      BY <2>1, <2>3 DEF Good, Held, IsLive
    <3>2. Become(u)
      BY <2>2, <2>3
    <3> QED BY <1>1, <2>1, <3>1, <3>2, TurnEnds
  <2>4. CASE IsLive(u, old)
    <3>1. Settled(u, old)
      <4>1. old \in Streams /\ u.stream[old] # "free" /\ old # 0
        BY <2>4, DevicesAssumption DEF IsLive, DevicesAssumption
      <4>2. \A c \in Numbers : u.call[c].stream # old
        BY <1>3, <2>1, <4>1 DEF Settled, CallsStay, Numbers
      <4> QED BY <4>1, <4>2 DEF Settled
    <3>2. Good(v, {old} \ {old}) /\ Keeps(u, v) /\ Shows(u, v)
      BY <2>1, <3>1, ReleaseDoes
    <3>3. Become(v)
      BY <2>2, <2>4
    <3> HIDE DEF v
    <3>4. Good(v, {}) /\ Keeps(w, v) /\ Shows(w, v)
      BY <2>1, <3>2 DEF Good, Held, Keeps, Heard, Shows
    <3> QED BY <1>1, <3>3, <3>4, TurnEnds
  <2> QED BY <2>3, <2>4
<1> QED BY <1>4, <1>5, <1>6

-----------------------------------------------------------------------------
(* The session is cleaned up.                                               *)

\* A closing session releases a stream: it begins no update.
LEMMA ReleaseAtEnd ==
  ASSUME NEW w, NEW s, NEW X, Good(w, X), Settled(w, s), w.sess \in {"closing", "aborting"}
  PROVE  LET v == ReleaseMediaStream(w, s)
         IN  /\ Good(v, X \ {s}) /\ Keeps(w, v) /\ ~IsLive(v, s)
             /\ v.using = w.using /\ v.refused = w.refused /\ v.sess = w.sess
             /\ v.active.audio.stream # s \/ s = 0
<1> DEFINE u == StopTracks(w, s)
           off == [u EXCEPT !.tile = FALSE]
           v == ReleaseMediaStream(w, s)
<1>1. /\ Good(v, X \ {s}) /\ Keeps(w, v) /\ ~IsLive(v, s) /\ v.sess = w.sess
      /\ v = StopTracks(w, s) \/ v = StopTile(StopTracks(w, s))
  BY ReleaseDoes
<1>2. Good(u, X \ {s}) /\ Differ(w, u, {"stream", "active"}) /\ Deselected(w, u, s)
  BY StopTracksDoes
<1>3. /\ u.using = w.using /\ u.refused = w.refused /\ u.sess = w.sess
      /\ u.active.audio.stream # s \/ s = 0
  BY <1>2 DEF Differ, Fields, Deselected, Kinds
<1> HIDE DEF u, v
<1>4. /\ off.using = u.using /\ off.refused = u.refused /\ off.sess = u.sess
      /\ off.active = u.active
  BY <1>2 DEF Good, Typed, Fields
<1>5. StopTile(u) = off
  BY <1>3, <1>4 DEF StopTile, Busy
<1> QED BY <1>1, <1>3, <1>4, <1>5 DEF u, v

\* CleanStoppedSessionTask.
LEMMA CleanDoes ==
  ASSUME NEW w, Sound(w), w.sess \in {"closing", "aborting"}
  PROVE  LET v == Clean(w)
         IN  Sound(v) /\ (Off(w) => Off(v))
<1> DEFINE s == w.using.audio
           gone == [w EXCEPT !.stream[w.source] = "dead"]
           over == [w EXCEPT !.sess = "down"]
           v == ReleaseMediaStream(w, s)
           x == [v EXCEPT !.using.audio = 0]
           p == v.using.video
           u == ReleaseMediaStream(x, p)
           z == [u EXCEPT !.using.video = 0, !.tile = FALSE, !.sess = "down"]
<1>1. Clean(w) = IF s = Mix /\ w.source = 0 THEN over ELSE z
  BY DEF Clean
<1>2. /\ Good(w, {}) /\ s \in Ids \cup {Mix} /\ s \in Others(w) /\ w.source \in Ids
      /\ w.slot.kind = "none"
  BY DEF Sound, Good, Typed, Kinds, Others, Control, Busy
<1>3. CASE s = Mix /\ w.source = 0
  <2> DEFINE m == "down"
             n == [w EXCEPT !.sess = m]
  <2>1. Clean(w) = n /\ m \in {"closing", "down"}
    BY <1>1, <1>3
  <2> HIDE DEF m
  <2>2. Good(n, {}) /\ Keeps(w, n) /\ Shown(n)
    BY <1>2, <2>1, SessionIsOver
  <2> HIDE DEF n
  <2> QED BY <2>1, <2>2 DEF Sound, Keeps, Heard
<1>4. CASE ~(s = Mix /\ w.source = 0)
  <2>1. /\ Good(v, {}) /\ Alive(v, 0) /\ Heard(v, 0) /\ (Off(w) => Off(v))
        /\ ~IsLive(v, v.using.audio) /\ v.sess = w.sess
        /\ web \/ v.refused \/ v.active.audio.stream = 0
    <3>1. CASE s = Mix
      <4> DEFINE q == w.source
                 m == "dead"
                 n == [w EXCEPT !.stream[q] = m]
      <4>1. v = n
        <5>1. w.active.video.stream # Mix
          BY <1>2, DevicesAssumption DEF Good, Typed, Kinds, Ids, DevicesAssumption
        <5> QED BY <1>4, <3>1, <5>1 DEF ReleaseMediaStream
      <4>2. /\ q # 0 /\ q \in Streams /\ w.stream[q] # "free" /\ web /\ q # w.active.video.stream
            /\ Unclaimed(w, q)
        <5>1. q # 0 /\ q \in Streams
          BY <1>2, <1>4, <3>1 DEF Ids
        <5>2. w.stream[q] # "free" /\ web
          BY <1>2, <5>1 DEF Good, Taken, Control
        <5>3. q # w.active.video.stream
          BY <1>2, <5>1 DEF Good, Apart
        <5>4. Unclaimed(w, q)
          BY <1>2, <5>1 DEF Good, Fresh, Unclaimed
        <5> QED BY <5>1, <5>2, <5>3, <5>4
      <4>3. m \in {"dead", "missed"} /\ m # "missed" /\ q = w.source
        OBVIOUS
      <4> HIDE DEF m, q
      <4>4. /\ Good(n, {}) /\ Differ(w, n, {"stream"})
            /\ (Echo(w, 0) => Echo(n, 0)) /\ (Tuned(w) => Tuned(n)) /\ (Off(w) => Off(n))
            /\ Alive(w, 0) => Alive(n, q)
        BY <1>2, <4>2, <4>3, GoneDoes
      <4>5. /\ n.active = w.active /\ n.source = w.source /\ n.using = w.using
            /\ n.refused = w.refused
            /\ n.sess = w.sess
        BY <4>4 DEF Differ, Fields
      <4> HIDE DEF n, v
      <4>6. Alive(n, 0)
        BY <4>2, <4>3, <4>4, <4>5 DEF Sound, Alive
      <4>7. ~IsLive(n, n.using.audio)
        BY <3>1, <4>5, DevicesAssumption DEF IsLive, DevicesAssumption
      <4> QED BY <4>1, <4>2, <4>4, <4>5, <4>6, <4>7 DEF Sound, Heard
    <3>2. CASE s # Mix
      <4>1. Settled(w, s)
        <5>1. s \in Ids
          BY <1>2, <3>2
        <5> QED BY <1>2, <5>1, OthersAreSettled
      <4> HIDE DEF s
      <4>2. /\ Good(v, {} \ {s}) /\ Keeps(w, v) /\ ~IsLive(v, s)
            /\ v.using = w.using /\ v.refused = w.refused /\ v.sess = w.sess
            /\ v.active.audio.stream # s \/ s = 0
        BY <1>2, <4>1, ReleaseAtEnd
      <4> HIDE DEF v
      <4>3. Good(v, {})
        BY <4>2 DEF Good, Held
      <4>4. Tuned(v)
        BY <4>2 DEF Sound, Keeps, Heard
      <4>5. web \/ v.refused \/ v.active.audio.stream = 0
        BY <4>2, <4>4 DEF Tuned, s
      <4> QED BY <4>2, <4>3, <4>5 DEF Sound, Keeps, Heard, s
    <3> QED BY <3>1, <3>2
  <2> HIDE DEF v
  <2>2. Good(x, {}) /\ Keeps(v, x)
    <3> DEFINE none == 0
               n == [v EXCEPT !.using.audio = none]
    <3>1. none \in {0, Mix}
      OBVIOUS
    <3> HIDE DEF none
    <3>2. Good(n, {}) /\ Keeps(v, n)
      BY <2>1, <3>1, NoStreamIs
    <3> QED BY <3>2 DEF none
  <2>3. x.using.video = p /\ x.sess = w.sess
    BY <2>1 DEF Good, Typed, Fields, Kinds
  <2> HIDE DEF x
  <2>4. p \in Ids /\ Settled(x, p)
    <3>1. p \in Ids /\ p \in Others(x)
      BY <2>2, <2>3 DEF Good, Typed, Kinds, Others
    <3> QED BY <2>2, <3>1, OthersAreSettled
  <2> HIDE DEF p
  <2>5. /\ Good(u, {} \ {p}) /\ Keeps(x, u) /\ ~IsLive(u, p)
        /\ u.using = x.using /\ u.refused = x.refused /\ u.sess = x.sess
    BY <2>2, <2>3, <2>4, ReleaseAtEnd
  <2> HIDE DEF u
  <2>6. /\ Typed(z) /\ z.active = u.active /\ z.call = u.call /\ z.preview = u.preview
        /\ z.source = u.source /\ z.sess = "down" /\ z.job = u.job /\ z.slot = u.slot
        /\ z.stream = u.stream
        /\ z.using.video = 0 /\ z.using.audio = u.using.audio /\ z.refused = u.refused
    <3> DEFINE no == FALSE
    <3>1. no \in BOOLEAN
      OBVIOUS
    <3> HIDE DEF no
    <3>2. z = [u EXCEPT !.using.video = 0, !.tile = no, !.sess = "down"]
      BY DEF no
    <3> HIDE DEF z
    <3> QED BY <2>5, <3>1, <3>2, DevicesAssumption
            DEF Good, Typed, Fields, Kinds, Ids, DevicesAssumption
  <2> HIDE DEF z
  <2>7. \A t : t \in Others(z) => t = 0 \/ t \in Others(u)
    BY <2>6 DEF Others
  <2>8. \A t : t \in Others(u) => t = p \/ t \in Others(z)
    BY <2>3, <2>5, <2>6 DEF Others
  <2>9. Held(z, {})
    BY <2>5, <2>6, <2>8 DEF Good, Held, IsLive
  <2>10. Taken(z)
    BY <2>5, <2>6, <2>7, DevicesAssumption DEF Good, Taken, DevicesAssumption
  <2>11. Fresh(z)
    BY <2>5, <2>6, <2>7, FreshStays DEF Good
  <2>12. Apart(z)
    BY <2>5, <2>6 DEF Good, Apart
  <2>13. Control(z)
    <3>1. u.slot.kind = "none"
      BY <2>3, <2>5 DEF Good, Control, Busy
    <3> QED BY <2>5, <2>6, <3>1 DEF Good, Control
  <2>14. Keeps(u, z) /\ Shown(z)
    BY <2>6 DEF Keeps, Alive, Heard, Echo, Tuned, Off, Shown, IsLive
  <2>15. Sound(z) /\ (Off(w) => Off(z))
    BY <2>1, <2>2, <2>5, <2>6, <2>9, <2>10, <2>11, <2>12, <2>13, <2>14 DEF Sound, Good, Keeps, Heard
  <2> QED BY <1>1, <1>4, <2>15
<1> QED BY <1>3, <1>4

LEMMA DisconnectedAgrees ==
  ASSUME DevicesInv, Disconnected
  PROVE  DevicesInv'
<1> DEFINE w == World
           v == Clean(w)
<1>1. /\ Become(v) /\ web' = web /\ wanted' = wanted /\ w.sess \in {"closing", "aborting"}
      /\ Sound(w) /\ (wanted = "nothing" => Off(w))
  BY DEF Disconnected, DevicesInv, World
<1> HIDE DEF w
<1>2. Sound(v) /\ (Off(w) => Off(v))
  BY <1>1, CleanDoes
<1> HIDE DEF v
<1>3. Sound(World)' /\ (Off(v) => Off(World)')
  BY <1>1, <1>2, BecomeDoes
<1> QED BY <1>1, <1>2, <1>3 DEF DevicesInv

-----------------------------------------------------------------------------
(* The theorems.                                                            *)

LEMMA InitAgrees ==
  ASSUME Init
  PROVE  DevicesInv
<1> DEFINE w == World
           none == None
           idle == Idle
           nojob == NoJob
           nothing == Nothing
           no == FALSE
<1>1. /\ no \in BOOLEAN /\ nojob \in Jobs /\ nojob.kind = "none" /\ nojob.old = 0
      /\ nothing \in [kind : {"none", "update", "restart", "stop"}, old : Ids]
      /\ nothing.kind = "none" /\ nothing.old = 0
      /\ none \in [stream : Ids, device : Microphones \cup Cameras \cup {NoDevice}]
      /\ none.stream = 0
  BY DEF NoJob, Nothing, None, Jobs, Ids
<1>2. /\ idle \in [at : {"idle", "prompt", "change"}, kind : Kinds,
                   device : Microphones \cup Cameras \cup {NoDevice},
                   stream : Ids, overruled : BOOLEAN]
      /\ idle.at = "idle" /\ idle.stream = 0
  <2>1. idle = [at |-> "idle", kind |-> "video", device |-> NoDevice, stream |-> 0,
                overruled |-> no]
    BY DEF Idle
  <2> HIDE DEF no, idle
  <2> QED BY <1>1, <2>1 DEF Kinds, Ids
<1>3. /\ w = [f \in Fields |-> w[f]]
      /\ w.active = [k \in Kinds |-> none]
      /\ w.stream = [s \in Streams |-> "free"]
      /\ w.call = [c \in Numbers |-> idle]
      /\ w.preview = 0 /\ w.source = 0 /\ w.sess = "down"
      /\ w.job = nojob /\ w.slot = nothing /\ w.tile = no
      /\ w.using = [k \in Kinds |-> 0] /\ w.refused = no
  BY DEF Init, World, Fields, Numbers
<1>4. wanted # "nothing" /\ NoJob = nojob
  BY DEF Init
<1> HIDE DEF w, none, idle, nojob, nothing, no
<1>5. Typed(w)
  BY <1>1, <1>2, <1>3, DevicesAssumption DEF Typed, Kinds, Ids, Jobs, DevicesAssumption
<1>6. Others(w) = {0} /\ \A c \in Numbers : w.call[c] = idle
  BY <1>1, <1>3 DEF Others, Kinds
<1>7. Held(w, {})
  BY <1>3 DEF Held
<1>8. Taken(w)
  BY <1>2, <1>3, <1>6, DevicesAssumption DEF Taken, DevicesAssumption
<1>9. Fresh(w)
  BY <1>2, <1>6 DEF Fresh
<1>10. Apart(w)
  BY <1>1, <1>3 DEF Apart, Kinds
<1>11. Control(w)
  BY <1>1, <1>2, <1>3, <1>4, <1>6 DEF Control, Numbers
<1>12. Alive(w, 0) /\ Heard(w, 0) /\ Shown(w)
  BY ZenonT(60), <1>1, <1>3, DevicesAssumption
  DEF Alive, Heard, Echo, Tuned, Shown, IsLive, Kinds, DevicesAssumption
<1> QED BY <1>4, <1>5, <1>7, <1>8, <1>9, <1>10, <1>11, <1>12 DEF DevicesInv, Sound, Good, w

LEMMA StepAgrees ==
  ASSUME DevicesInv, [Next]_vars
  PROVE  DevicesInv'
<1>1. CASE UNCHANGED vars
  <2> USE <1>1 DEF World, vars
  <2>1. Typed(World)' /\ Held(World, {})' /\ Taken(World)'
    BY DEF DevicesInv, Sound, Good, Typed, Held, Taken, Others, IsLive
  <2>2. Fresh(World)' /\ Apart(World)' /\ Control(World)'
    BY DEF DevicesInv, Sound, Good, Fresh, Apart, Control, Others, Busy
  <2>3. Alive(World, 0)' /\ Heard(World, 0)' /\ Shown(World)'
    BY DEF DevicesInv, Sound, Alive, Heard, Echo, Tuned, Shown, IsLive
  <2>4. (wanted = "nothing" => Off(World))'
    BY DEF DevicesInv, Off
  <2> QED BY <2>1, <2>2, <2>3, <2>4 DEF DevicesInv, Sound, Good
<1>2. CASE \E k \in Kinds : ChooseInputDevice(k)
  BY <1>2, ChooseInputDeviceAgrees
<1>3. CASE StartPreview
  BY <1>3, StartPreviewAgrees
<1>4. CASE PreviewOpens
  BY <1>4, PreviewOpensAgrees
<1>5. CASE StopPreview
  BY <1>5, StopPreviewAgrees
<1>6. CASE \E c \in Calls \cup {0} : PromptEnds(c) \/ ListArrives(c)
  BY <1>6, PromptEndsAgrees, ListArrivesAgrees
<1>7. CASE \E s \in Streams : StreamEnds(s)
  BY <1>7, StreamEndsAgrees
<1>8. CASE Start
  BY <1>8, StartAgrees
<1>9. CASE JobEnds
  BY <1>9, JobEndsAgrees
<1>10. CASE StartLocalVideo
  BY <1>10, StartLocalVideoAgrees
<1>11. CASE StopLocalVideo
  BY <1>11, StopLocalVideoAgrees
<1>12. CASE MonitorUpdate
  BY <1>12, MonitorUpdateAgrees
<1>13. CASE Stop
  BY <1>13, StopAgrees
<1>14. CASE Fail
  BY <1>14, FailAgrees
<1>15. CASE Disconnected
  BY <1>15, DisconnectedAgrees
<1> QED BY <1>1, <1>2, <1>3, <1>4, <1>5, <1>6, <1>7, <1>8, <1>9, <1>10, <1>11, <1>12, <1>13,
           <1>14, <1>15 DEF Next

LEMMA DevicesHold == Spec => []DevicesInv
<1>1. Init => DevicesInv
  BY InitAgrees
<1>2. DevicesInv /\ [Next]_vars => DevicesInv'
  BY StepAgrees
<1> QED BY <1>1, <1>2, PTL DEF Spec

\* Every media stream that DefaultDeviceController or the session has captured
\* and not stopped is referred to by something that will release it: a selection,
\* the session's inputs, a call that waits, the preview, a task group or the
\* deferred action, whatever the order of calls, prompts, device changes and
\* session tasks.
THEOREM NothingIsLost == Spec => []NothingLost
<1>1. DevicesInv => NothingLost
  BY HoldersAre DEF DevicesInv, Sound, Good, Held, NothingLost, IsLive
<1> QED BY <1>1, DevicesHold, PTL

\* After chooseVideoInputDevice(null) no camera stays selected, and none that was
\* asked for before is selected later, except by a call that had passed the check
\* of lastNoVideoInputDeviceCount and waited in handleDeviceChange().
THEOREM NoDeviceIsKept == Spec => []NoDeviceUnlessOverrun
<1>1. DevicesInv => NoDeviceUnlessOverrun
  BY DEF DevicesInv, Off, NoDeviceUnlessOverrun, World
<1> QED BY <1>1, DevicesHold, PTL

\* A selected stream that the controller has stopped is no longer selected, and
\* one that ends while it is selected is replaced, unless it ended before its
\* "ended" listener was added, or a session has released it through the mix.
THEOREM SelectionStaysAlive == Spec => []SelectionIsAlive
<1>1. DevicesInv => SelectionIsAlive
  <2> DEFINE w == World
  <2> SUFFICES ASSUME DevicesInv, NEW k \in Kinds, w.active[k].stream # 0
               PROVE  \/ w.stream[w.active[k].stream] \in {"live", "missed"}
                      \/ web /\ w.active[k].stream = w.source
    BY DEF SelectionIsAlive, World
  <2>1. Typed(w) /\ Alive(w, 0)
    BY DEF DevicesInv, Sound, Good
  <2> HIDE DEF w
  <2>2. w.active[k].stream \in Streams \ {0} /\ k \in {"audio", "video"}
    BY <2>1 DEF Typed, Ids, Kinds
  <2> QED BY <2>1, <2>2 DEF Alive, Typed
<1> QED BY <1>1, DevicesHold, PTL

\* A session that is up and runs no task group sends the selected camera or none,
\* none with the local tile stopped, no live microphone but the selected one, and
\* that one if it has not been denied it and none was chosen before it had a peer
\* connection: what restartLocalVideo(), restartLocalAudio() and the updates do
\* has caught up with every selection made meanwhile.
THEOREM SessionFollowsSelection == Spec => []SessionSendsSelection
<1>1. DevicesInv => SessionSendsSelection
  <2> DEFINE w == World
  <2> SUFFICES ASSUME DevicesInv, w.sess = "up", w.job = NoJob
               PROVE  /\ w.using.video \in {0, w.active.video.stream}
                      /\ ~w.tile => w.using.video = 0
                      /\ IsLive(w, w.using.audio) => w.using.audio = w.active.audio.stream
                      /\ IF web THEN w.active.audio.stream \in {0, w.source}
                         ELSE w.refused \/ w.active.audio.stream \in {0, w.using.audio}
    BY DEF SessionSendsSelection, World
  <2>1. Good(w, {}) /\ Heard(w, 0) /\ Shown(w)
    BY DEF DevicesInv, Sound
  <2> HIDE DEF w
  <2>2. w.slot.kind = "none" /\ w.call[0].at = "idle"
    BY <2>1 DEF Good, Control, Busy, NoJob
  <2>3. ~IsLive(w, 0)
    BY DevicesAssumption DEF IsLive, DevicesAssumption
  <2> QED BY <2>1, <2>2, <2>3 DEF Heard, Echo, Tuned, Shown
<1> QED BY <1>1, DevicesHold, PTL

=============================================================================
