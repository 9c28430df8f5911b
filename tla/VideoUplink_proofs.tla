------------------------- MODULE VideoUplink_proofs -------------------------
(***************************************************************************)
(* Theorems about what the camera sends, for every set of participants,     *)
(* bandwidths, settings and layers and any number of changes.               *)
(* A turn is a composition of operators on the record of the variables, so  *)
(* there is a lemma for each operator, for beginning, finishing and         *)
(* reconnecting, and then one step for each action.                         *)
(***************************************************************************)
EXTENDS VideoUplink, TLAPS

Fields == {"session", "deferred", "phase", "retry", "duplex", "camera", "input", "policy",
           "param", "info", "seen", "sender", "told"}
PolicyFields == {"num", "kbps", "held", "wanted", "current", "newWidth", "width", "known",
                 "ideal", "priority", "optimal", "inEffect"}
Phases == {"idle", "open", "peer", "device", "attach", "subscribe", "ack", "finish"}

PolicyTyped(p) ==
  /\ p = [f \in PolicyFields |-> p[f]]
  /\ p.num \in Participants /\ p.ideal \in Ideals /\ p.priority \in BOOLEAN

Typed(w) ==
  /\ w = [f \in Fields |-> w[f]]
  /\ PolicyTyped(w.policy)
  /\ w.info = [f \in {"rates", "off", "allocated", "fresh"} |-> w.info[f]]
  /\ w.sender = [f \in {"on", "rates", "limit"} |-> w.sender[f]]
  /\ w.sender.on \in BOOLEAN /\ w.input \in BOOLEAN /\ w.retry \in BOOLEAN /\ w.camera \in BOOLEAN

-----------------------------------------------------------------------------
(* The invariant of the record of a turn that leaves stale at x.            *)

\* An update runs exactly when the session is not Connected, and only then
\* another one waits.  While the device or the sender of a camera is waited for,
\* index frames are looked at.
Running(w) ==
  /\ w.phase \in Phases /\ w.deferred \in {"none", "Update", "Reconnect"}
  /\ \/ w.session = "Connected" /\ w.phase = "idle" /\ w.deferred = "none"
     \/ w.session \in {"Updating", "Connecting"} /\ w.phase # "idle"
  /\ w.phase \in {"open", "peer"} => ~w.sender.on
  /\ w.phase = "device" \/ (w.phase = "attach" /\ w.input) => w.duplex = "DUPLEX"

\* A bandwidth of this size is never truncated to nothing.
Generous == \A k \in Ideals : k >= 13

\* Without simulcast: the parameters of a bandwidth that is up to date.
Rated(w, x) ==
  /\ x # "yes" => w.policy.optimal.rate = MaxBandwidthKbps(w.policy)
  /\ w.policy.optimal.rate \in Nat \ {0}
  /\ w.phase \in Phases \ {"idle", "open", "peer"} => w.param.rate \in Nat \ {0}

Loose(w, x) ==
  /\ Running(w)
  /\ w.param = w.policy.inEffect
  /\ ~simulcast /\ Generous => Rated(w, x)

\* With simulcast, unless another update waits: the task that has just run has
\* carried the decision as far as it goes, and the decision has not changed.
Encoded(w) ==
  /\ w.phase = "attach" /\ w.input =>
       w.policy.wanted = w.policy.current /\ w.info.rates = w.policy.current
  /\ w.phase = "subscribe" /\ w.sender.on =>
       w.sender.rates = w.policy.current /\ w.info.rates = w.policy.current
  /\ w.phase \in {"ack", "finish"} /\ w.sender.on =>
       w.sender.rates = w.policy.current /\ w.told = w.policy.current
  /\ w.phase = "idle" /\ ~w.retry /\ w.sender.on =>
       w.sender.rates = w.policy.current /\ w.told = w.policy.current

\* Without simulcast, unless another update waits: so has it the parameters.
Limited(w, x) ==
  /\ w.phase \in {"ack", "finish"} => w.told = <<w.param.rate>>
  /\ w.phase = "idle" /\ ~w.retry /\ w.sender.on =>
       w.told = <<w.param.rate>> /\ (x = "no" => w.sender.limit = w.param.rate)

Strict(w, x) ==
  w.deferred = "none" =>
    /\ simulcast => Encoded(w)
    /\ ~simulcast /\ Generous => Limited(w, x)

Agreed(w, x) == Loose(w, x) /\ Strict(w, x)

UplinkInv == Typed(World) /\ Agreed(World, stale)

LEMMA BecomeAgrees ==
  ASSUME NEW r, Typed(r), Become(r), Agreed(r, stale')
  PROVE  UplinkInv'
<1>1. World' = r /\ simulcast' = simulcast
  BY DEF Become, World, Typed, Fields
<1>2. Typed(World)'
  BY <1>1 DEF Typed, PolicyTyped
<1>3. Agreed(World, stale)'
  BY <1>1 DEF Agreed, Loose, Running, Rated, Strict, Encoded, Limited, Generous, MaxBandwidthKbps
<1> QED BY <1>2, <1>3 DEF UplinkInv

-----------------------------------------------------------------------------
(* The policies.                                                            *)

\* What two policies have in common that decides for the encodings, and for the
\* bandwidth without simulcast.
SameEncodings(p, q) == q.wanted = p.wanted /\ q.current = p.current
SameRate(p, q) ==
  /\ q.num = p.num /\ q.ideal = p.ideal /\ q.priority = p.priority
  /\ q.optimal = p.optimal /\ q.inEffect = p.inEffect

LEMMA SameRateSame ==
  ASSUME NEW p, NEW q, SameRate(p, q)
  PROVE  MaxBandwidthKbps(q) = MaxBandwidthKbps(p)
BY DEF SameRate, MaxBandwidthKbps

LEMMA AtLeastOnce ==
  ASSUME NEW x \in Nat, NEW y \in Nat \ {0}, x >= y
  PROVE  x \div y \in Nat \ {0}
OBVIOUS

LEMMA ShareIsLarge ==
  ASSUME NEW k \in Nat, NEW n \in Nat \ {0}, k >= 13
  PROVE  (544 * n + 14880) * k \in Nat /\ (544 * n + 14880) * k >= 6600 * n
<1> DEFINE m == 544 * n + 14880
<1>1. m \in Nat
  OBVIOUS
<1>2. m * 13 >= 6600 * n
  OBVIOUS
<1> HIDE DEF m
<1>3. m * k \in Nat /\ m * k >= m * 13
  BY <1>1
<1>4. m * 13 \in Nat /\ 6600 * n \in Nat
  BY <1>1
<1>5. m * k >= 6600 * n
  BY <1>2, <1>3, <1>4
<1> QED BY <1>3, <1>5 DEF m

LEMMA BandwidthIsPositive ==
  ASSUME NEW p, PolicyTyped(p), Generous
  PROVE  MaxBandwidthKbps(p) \in Nat \ {0}
<1>1. p.num \in Nat \ {0} /\ p.ideal \in Nat /\ p.ideal >= 13
  BY UplinkAssumption DEF PolicyTyped, UplinkAssumption, Generous
<1>2. (2 * p.ideal) \div 3 \in Nat \ {0}
  <2>1. 2 * p.ideal \in Nat /\ 2 * p.ideal >= 3
    BY <1>1
  <2> QED BY <2>1, AtLeastOnce
<1>3. ((544 * p.num + 14880) * p.ideal) \div (6600 * p.num) \in Nat \ {0}
  <2>1. 6600 * p.num \in Nat \ {0}
    BY <1>1
  <2>2. /\ (544 * p.num + 14880) * p.ideal \in Nat
        /\ (544 * p.num + 14880) * p.ideal >= 6600 * p.num
    BY <1>1, ShareIsLarge
  <2> DEFINE x == (544 * p.num + 14880) * p.ideal
             y == 6600 * p.num
  <2> HIDE DEF x, y
  <2>3. x \div y \in Nat \ {0}
    BY <2>1, <2>2, AtLeastOnce DEF x, y
  <2> QED BY <2>3 DEF x, y
<1> QED BY <1>1, <1>2, <1>3 DEF MaxBandwidthKbps

\* An index frame makes the bandwidth up to date.
LEMMA IndexDoes ==
  ASSUME NEW p, p = [f \in PolicyFields |-> p[f]], p.ideal \in Ideals, p.priority \in BOOLEAN,
         NEW n \in Participants
  PROVE  LET q == UpdateIndex(p, n)
         IN  /\ PolicyTyped(q)
             /\ q.current = p.current /\ q.inEffect = p.inEffect
             /\ ~simulcast => q.optimal.rate = MaxBandwidthKbps(q)
<1> DEFINE counted == [p EXCEPT !.num = n]
           best    == [width |-> IF n > 4 THEN 320 ELSE 640, rate |-> MaxBandwidthKbps(counted)]
           q       == UpdateIndex(p, n)
<1>1. /\ PolicyTyped(counted)
      /\ counted.current = p.current /\ counted.inEffect = p.inEffect
  BY DEF PolicyTyped, PolicyFields
<1>2. CASE simulcast
  BY ZenonT(60), <1>1, <1>2 DEF UpdateIndex, Recalculate, PolicyTyped, PolicyFields
<1>3. CASE ~simulcast
  <2>1. q = [counted EXCEPT !.optimal = best]
    BY <1>3 DEF UpdateIndex
  <2>2. best.rate = MaxBandwidthKbps(counted)
    OBVIOUS
  <2> HIDE DEF counted, best, q
  <2>3. /\ PolicyTyped(q) /\ q.optimal = best
        /\ q.current = p.current /\ q.inEffect = p.inEffect
        /\ q.num = counted.num /\ q.ideal = counted.ideal /\ q.priority = counted.priority
    BY <1>1, <2>1 DEF PolicyTyped, PolicyFields
  <2>4. MaxBandwidthKbps(q) = MaxBandwidthKbps(counted)
    BY <2>3 DEF MaxBandwidthKbps
  <2> QED BY <2>2, <2>3, <2>4 DEF q
<1> QED BY <1>2, <1>3

LEMMA MetricDoes ==
  ASSUME NEW p, PolicyTyped(p), NEW kbps
  PROVE  LET q == UpdateConnectionMetric(p, kbps)
         IN  PolicyTyped(q) /\ SameRate(p, q) /\ q.current = p.current
BY DEF UpdateConnectionMetric, Recalculate, PolicyTyped, PolicyFields, SameRate

LEMMA ChoosingDoes ==
  ASSUME NEW p, PolicyTyped(p)
  PROVE  /\ LET q == ChooseEncodings(p)
            IN  /\ PolicyTyped(q) /\ SameRate(p, q) /\ q.wanted = p.wanted
                /\ simulcast => q.current = p.wanted
         /\ LET q == ChooseConstraints(p)
            IN  PolicyTyped(q) /\ SameRate(p, q) /\ SameEncodings(p, q)
         /\ LET q == ChooseCapture(p)
            IN  /\ PolicyTyped(q) /\ SameEncodings(p, q)
                /\ q.inEffect = p.optimal /\ q.optimal = p.optimal
                /\ q.num = p.num /\ q.ideal = p.ideal /\ q.priority = p.priority
BY DEF ChooseEncodings, ChooseConstraints, ChooseCapture, PolicyTyped, PolicyFields,
       SameRate, SameEncodings

-----------------------------------------------------------------------------
(* The session.                                                             *)

\* A turn that changes neither the decision nor how far it has been carried.
Untouched(w, r) ==
  /\ r.session = w.session /\ r.deferred = w.deferred /\ r.phase = w.phase
  /\ r.duplex = w.duplex /\ r.input = w.input /\ r.info.rates = w.info.rates
  /\ r.sender = w.sender /\ r.told = w.told /\ r.param = w.param
  /\ SameRate(w.policy, r.policy) /\ SameEncodings(w.policy, r.policy)
  /\ w.retry => r.retry

LEMMA UntouchedLoose ==
  ASSUME NEW w, NEW x, Loose(w, x), NEW r, Untouched(w, r)
  PROVE  Loose(r, x)
<1>1. Running(r)
  BY DEF Loose, Running, Untouched
<1>2. r.param = r.policy.inEffect
  BY DEF Loose, Untouched, SameRate
<1>3. MaxBandwidthKbps(r.policy) = MaxBandwidthKbps(w.policy)
  BY SameRateSame DEF Untouched
<1>4. ~simulcast /\ Generous => Rated(r, x)
  BY <1>3 DEF Loose, Untouched, Rated, SameRate
<1> QED BY <1>1, <1>2, <1>4 DEF Loose

LEMMA UntouchedAgrees ==
  ASSUME NEW w, NEW x, Agreed(w, x), NEW r, Untouched(w, r)
  PROVE  Agreed(r, x)
<1>1. Loose(r, x)
  BY UntouchedLoose DEF Agreed
<1>2. Encoded(w) => Encoded(r)
  BY DEF Encoded, Untouched, SameEncodings
<1>3. Limited(w, x) => Limited(r, x)
  BY DEF Limited, Untouched
<1>4. Strict(r, x)
  BY <1>2, <1>3 DEF Agreed, Strict, Untouched
<1> QED BY <1>1, <1>4 DEF Agreed

\* ReceiveVideoInputTask starts an update, and what comes of it is decided later.
LEMMA ReceiveDoes ==
  ASSUME NEW w, Typed(w), NEW x, w.session \in {"Updating", "Connecting"},
         w.deferred \in {"none", "Update", "Reconnect"},
         ~simulcast /\ Generous =>
           /\ x # "yes" => w.policy.optimal.rate = MaxBandwidthKbps(w.policy)
           /\ w.policy.optimal.rate \in Nat \ {0}
  PROVE  Typed(ReceiveVideoInput(w)) /\ Agreed(ReceiveVideoInput(w), x)
<1> DEFINE q     == ChooseCapture(w.policy)
           taken == w.input /\ w.camera
           next  == IF w.camera THEN "device" ELSE "attach"
           mode  == IF w.camera THEN "DUPLEX" ELSE "RX"
           r     == ReceiveVideoInput(w)
<1>1. r = [w EXCEPT !.duplex = mode, !.policy = q, !.param = w.policy.optimal,
                    !.input = taken, !.phase = next]
  BY DEF ReceiveVideoInput, Typed, Fields
<1>2. /\ PolicyTyped(q) /\ SameEncodings(w.policy, q)
      /\ q.inEffect = w.policy.optimal /\ q.optimal = w.policy.optimal
      /\ q.num = w.policy.num /\ q.ideal = w.policy.ideal /\ q.priority = w.policy.priority
  BY ChoosingDoes DEF Typed
<1>3. taken \in BOOLEAN /\ (next = "attach" => ~taken) /\ next \in {"device", "attach"}
      /\ (next = "device" => mode = "DUPLEX")
  BY DEF Typed
<1> HIDE DEF q, taken, next, mode, r
<1>4. /\ r.duplex = mode /\ r.policy = q /\ r.param = w.policy.optimal /\ r.input = taken
      /\ r.phase = next /\ r.session = w.session /\ r.deferred = w.deferred
      /\ r.sender = w.sender /\ r.info = w.info /\ r.retry = w.retry /\ r.camera = w.camera
      /\ r = [f \in Fields |-> r[f]]
  BY <1>1 DEF Typed, Fields
<1>5. Typed(r)
  BY <1>2, <1>3, <1>4 DEF Typed
<1>6. Running(r)
  BY <1>3, <1>4 DEF Running, Phases
<1>7. MaxBandwidthKbps(q) = MaxBandwidthKbps(w.policy)
  BY <1>2 DEF MaxBandwidthKbps
<1>8. Loose(r, x)
  BY <1>2, <1>4, <1>6, <1>7 DEF Loose, Rated
<1>9. Strict(r, x)
  BY <1>3, <1>4 DEF Strict, Encoded, Limited
<1> QED BY <1>5, <1>8, <1>9 DEF Agreed, r

\* A reconnection starts with the transceivers gone.
LEMMA CleanDoes ==
  ASSUME NEW w, Typed(w), NEW x, w.session = "Connecting",
         w.deferred \in {"none", "Update", "Reconnect"},
         w.param = w.policy.inEffect,
         ~simulcast /\ Generous =>
           /\ x # "yes" => w.policy.optimal.rate = MaxBandwidthKbps(w.policy)
           /\ w.policy.optimal.rate \in Nat \ {0}
  PROVE  Typed(CleanRestartedSession(w)) /\ Agreed(CleanRestartedSession(w), x)
<1> DEFINE off  == [on |-> FALSE, rates |-> <<200, 400, 1100>>, limit |-> 0]
           info1 == [w.info EXCEPT !.fresh = TRUE]
           r    == CleanRestartedSession(w)
<1>1. r = [w EXCEPT !.phase = "open", !.info = info1, !.sender = off]
  BY DEF CleanRestartedSession, Typed, Fields
<1>2. info1 = [f \in {"rates", "off", "allocated", "fresh"} |-> info1[f]]
  BY DEF Typed
<1>3. off = [f \in {"on", "rates", "limit"} |-> off[f]] /\ off.on = FALSE
  OBVIOUS
<1> HIDE DEF off, info1, r
<1>4. /\ r.phase = "open" /\ r.info = info1 /\ r.sender = off
      /\ r.session = w.session /\ r.deferred = w.deferred /\ r.policy = w.policy
      /\ r.param = w.param /\ r.input = w.input /\ r.retry = w.retry /\ r.camera = w.camera
      /\ r = [f \in Fields |-> r[f]]
  BY <1>1 DEF Typed, Fields
<1>5. Typed(r)
  BY <1>2, <1>3, <1>4 DEF Typed
<1>6. Running(r)
  BY <1>3, <1>4 DEF Running, Phases
<1>7. Loose(r, x)
  BY <1>4, <1>6 DEF Loose, Rated
<1>8. Strict(r, x)
  BY <1>4 DEF Strict, Encoded, Limited
<1> QED BY <1>5, <1>7, <1>8 DEF Agreed, r

\* An update or a reconnection that is asked for begins, or waits for the end of
\* the one that runs; whatever had been agreed may be out of date by then.
LEMMA PerformAgrees ==
  ASSUME NEW w, Typed(w), NEW x, Loose(w, x), NEW a \in {"Update", "Reconnect"}
  PROVE  Typed(Perform(w, a)) /\ Agreed(Perform(w, a), x)
<1>0. /\ w.param = w.policy.inEffect
      /\ ~simulcast /\ Generous =>
           /\ x # "yes" => w.policy.optimal.rate = MaxBandwidthKbps(w.policy)
           /\ w.policy.optimal.rate \in Nat \ {0}
  BY DEF Loose, Rated
<1>1. CASE w.session = "Connected"
  <2>1. w.deferred = "none"
    BY <1>1 DEF Loose, Running
  <2>2. CASE a = "Update"
    <3> DEFINE u == [w EXCEPT !.session = "Updating"]
    <3>1. Perform(w, a) = ReceiveVideoInput(u)
      BY <1>1, <2>2 DEF Perform, HasTransition, Target, Transition, Work
    <3>2. Typed(u) /\ u.session = "Updating" /\ u.deferred = "none" /\ u.policy = w.policy
      BY <2>1 DEF Typed, Fields
    <3> HIDE DEF u
    <3> QED BY <1>0, <3>1, <3>2, ReceiveDoes
  <2>3. CASE a = "Reconnect"
    <3> DEFINE u == [w EXCEPT !.session = "Connecting"]
    <3>1. Perform(w, a) = CleanRestartedSession(u)
      BY <1>1, <2>3 DEF Perform, HasTransition, Target, Transition, Work
    <3>2. Typed(u) /\ u.session = "Connecting" /\ u.deferred = "none" /\ u.policy = w.policy
          /\ u.param = w.param
      BY <2>1 DEF Typed, Fields
    <3> HIDE DEF u
    <3> QED BY <1>0, <3>1, <3>2, CleanDoes
  <2> QED BY <2>2, <2>3
<1>2. CASE w.session # "Connected"
  <2>1. w.session \in {"Updating", "Connecting"} /\ w.phase # "idle"
        /\ w.deferred \in {"none", "Update", "Reconnect"}
    BY <1>2 DEF Loose, Running
  <2>2. \/ Perform(w, a) = w /\ w.deferred # "none"
        \/ Perform(w, a) = [w EXCEPT !.deferred = a]
    BY <2>1 DEF Perform, HasTransition, Target, Transition, CanDefer, KeepsDeferred,
                DeferPriority, Busy
  <2>3. CASE Perform(w, a) = w /\ w.deferred # "none"
    BY <2>3 DEF Agreed, Strict
  <2>4. CASE Perform(w, a) = [w EXCEPT !.deferred = a]
    <3> DEFINE r == [w EXCEPT !.deferred = a]
    <3>1. /\ Typed(r) /\ r.deferred = a
          /\ r.session = w.session /\ r.phase = w.phase /\ r.sender = w.sender
          /\ r.duplex = w.duplex /\ r.input = w.input /\ r.policy = w.policy /\ r.param = w.param
      BY DEF Typed, Fields
    <3> HIDE DEF r
    <3>2. Running(r)
      BY <2>1, <3>1 DEF Loose, Running
    <3>3. Loose(r, x) /\ Strict(r, x)
      BY <3>1, <3>2 DEF Loose, Rated, Strict
    <3> QED BY <2>4, <3>1, <3>3 DEF Agreed, r
  <2> QED BY <2>2, <2>3, <2>4
<1> QED BY <1>1, <1>2

\* An update ends: what waits begins, and otherwise nothing has changed since.
LEMMA FinishAgrees ==
  ASSUME NEW w, Typed(w), NEW x, Loose(w, x), w.phase # "idle",
         w.deferred = "none" /\ ~w.retry /\ w.sender.on =>
           /\ simulcast => w.sender.rates = w.policy.current /\ w.told = w.policy.current
           /\ ~simulcast /\ Generous =>
                w.told = <<w.param.rate>> /\ (x = "no" => w.sender.limit = w.param.rate)
  PROVE  Typed(Finish(w)) /\ Agreed(Finish(w), x)
<1> DEFINE done == [w EXCEPT !.phase = "idle", !.session = "Connected"]
           free == [done EXCEPT !.deferred = "none"]
<1>1. w.session \in {"Updating", "Connecting"} /\ w.deferred \in {"none", "Update", "Reconnect"}
  BY DEF Loose, Running
<1>2. Finish(w) = IF w.deferred = "none" THEN done ELSE Perform(free, w.deferred)
  <2> DEFINE stopped == [w EXCEPT !.phase = "idle"]
             act == IF w.session = "Updating" THEN "FinishUpdating" ELSE "FinishConnecting"
  <2>1. stopped.session = w.session /\ [stopped EXCEPT !.session = "Connected"] = done
    BY DEF Typed, Fields
  <2>2. Target(stopped.session, act) = "Connected"
    BY <1>1, <2>1 DEF Target, Transition
  <2>3. Work([stopped EXCEPT !.session = "Connected"], act) = done
    BY <2>1 DEF Work
  <2> HIDE DEF stopped, done, act
  <2>4. Perform(stopped, act) = done
    BY <2>2, <2>3 DEF Perform, HasTransition
  <2> QED BY <2>4 DEF Finish, stopped, act
<1>3. /\ Typed(done) /\ done.phase = "idle" /\ done.session = "Connected"
      /\ done.deferred = w.deferred /\ done.policy = w.policy /\ done.param = w.param
      /\ done.sender = w.sender /\ done.told = w.told /\ done.retry = w.retry
  BY DEF Typed, Fields
<1> HIDE DEF done
<1>4. /\ Typed(free) /\ free.phase = "idle" /\ free.session = "Connected"
      /\ free.deferred = "none" /\ free.policy = w.policy /\ free.param = w.param
  BY <1>3 DEF Typed, Fields
<1> HIDE DEF free
<1>5. CASE w.deferred = "none"
  <2>1. Running(done) /\ Loose(done, x)
    BY <1>3, <1>5 DEF Loose, Running, Rated, Phases
  <2>2. Strict(done, x)
    BY <1>3, <1>5 DEF Strict, Encoded, Limited
  <2> QED BY <1>2, <1>3, <1>5, <2>1, <2>2 DEF Agreed
<1>6. CASE w.deferred # "none"
  <2>1. Loose(free, x)
    BY <1>4 DEF Loose, Running, Rated, Phases
  <2> QED BY <1>1, <1>2, <1>4, <1>6, <2>1, PerformAgrees
<1> QED BY <1>5, <1>6

LEMMA AskedDoes ==
  ASSUME NEW w, Typed(w)
  PROVE  Typed(Asked(w)) /\ Untouched(w, Asked(w))
<1> DEFINE held == w.policy.held \/ Wants(w)
           known == Descriptions(w)
           q == [w.policy EXCEPT !.held = held, !.known = known]
           r == [w EXCEPT !.policy = q]
<1>1. Asked(w) = IF simulcast THEN r ELSE w
  BY DEF Asked, Typed, Fields
<1>2. PolicyTyped(q) /\ SameRate(w.policy, q) /\ SameEncodings(w.policy, q)
  <2> HIDE DEF held, known
  <2> QED BY DEF Typed, PolicyTyped, PolicyFields, SameRate, SameEncodings
<1> HIDE DEF q
<1>3. Typed(r) /\ Untouched(w, r)
  BY <1>2 DEF Typed, Fields, Untouched
<1>4. Untouched(w, w)
  BY DEF Untouched, SameRate, SameEncodings
<1> QED BY <1>1, <1>3, <1>4

\* setVideoSendingBitrateKbps reaches the limit of the sender only.
LEMMA EnforceDoes ==
  ASSUME NEW w, Typed(w), NEW rate
  PROVE  LET r == Enforce(w, rate)
         IN  /\ Typed(r)
             /\ \A f \in Fields \ {"sender"} : r[f] = w[f]
             /\ r.sender.on = w.sender.on /\ r.sender.rates = w.sender.rates
             /\ r.sender.limit = IF ~simulcast /\ w.sender.on /\ rate > 0 THEN rate
                                 ELSE w.sender.limit
<1> DEFINE set == [w.sender EXCEPT !.limit = rate]
           r   == Enforce(w, rate)
<1>1. r = IF ~simulcast /\ w.sender.on /\ rate > 0 THEN [w EXCEPT !.sender = set] ELSE w
  BY DEF Enforce, Typed, Fields
<1>2. /\ set = [f \in {"on", "rates", "limit"} |-> set[f]] /\ set.limit = rate
      /\ set.on = w.sender.on /\ set.rates = w.sender.rates
  BY DEF Typed
<1> HIDE DEF set, r
<1>3. Typed(r)
  BY <1>1, <1>2 DEF Typed, Fields
<1>4. \A f \in Fields \ {"sender"} : r[f] = w[f]
  BY <1>1 DEF Typed, Fields
<1>5. /\ r.sender.on = w.sender.on /\ r.sender.rates = w.sender.rates
      /\ r.sender.limit = IF ~simulcast /\ w.sender.on /\ rate > 0 THEN rate ELSE w.sender.limit
  BY <1>1, <1>2 DEF Typed, Fields
<1> QED BY <1>3, <1>4, <1>5 DEF r

-----------------------------------------------------------------------------
(* The tasks of an update.                                                  *)

LEMMA WorldIs ==
  /\ World.session = session /\ World.deferred = deferred /\ World.phase = phase
  /\ World.retry = retry /\ World.duplex = duplex /\ World.camera = camera
  /\ World.input = input /\ World.policy = policy /\ World.param = param
  /\ World.info = info /\ World.seen = seen /\ World.sender = sender /\ World.told = told
BY DEF World

LEMMA DeviceAnswersAgrees ==
  ASSUME UplinkInv, NEW granted \in BOOLEAN, DeviceAnswers(granted)
  PROVE  UplinkInv'
<1> DEFINE chosen == ChooseEncodings(policy)
           pol == IF granted THEN ChooseConstraints(chosen) ELSE chosen
           inf == IF simulcast THEN [info EXCEPT !.rates = chosen.current, !.off = {}] ELSE info
           r   == [World EXCEPT !.phase = "attach", !.input = granted, !.policy = pol, !.info = inf]
<1>1. phase = "device" /\ Become(r) /\ stale' = stale
  BY DEF DeviceAnswers, Keep, Integrate, World
<1>2. Typed(World) /\ Loose(World, stale)
  BY DEF UplinkInv, Agreed
<1>3. PolicyTyped(policy)
  BY <1>2, WorldIs DEF Typed
<1>4. /\ PolicyTyped(chosen) /\ SameRate(policy, chosen) /\ chosen.wanted = policy.wanted
      /\ simulcast => chosen.current = policy.wanted
  BY <1>3, ChoosingDoes
<1> HIDE DEF chosen
<1>5. /\ PolicyTyped(pol) /\ SameRate(policy, pol) /\ pol.wanted = policy.wanted
      /\ pol.current = chosen.current
  BY <1>4, ChoosingDoes DEF SameRate, SameEncodings
<1>6. /\ inf = [f \in {"rates", "off", "allocated", "fresh"} |-> inf[f]]
      /\ simulcast => inf.rates = chosen.current
  BY <1>2, WorldIs DEF Typed
<1> HIDE DEF pol, inf
<1>7. /\ Typed(r) /\ r.phase = "attach" /\ r.input = granted /\ r.policy = pol /\ r.info = inf
      /\ r.session = session /\ r.deferred = deferred /\ r.retry = retry /\ r.duplex = duplex
      /\ r.param = param /\ r.sender = sender /\ r.told = told
  BY <1>2, <1>5, <1>6, WorldIs DEF Typed, Fields
<1> HIDE DEF r
<1>8. Running(r)
  BY <1>1, <1>2, <1>7, WorldIs DEF Loose, Running, Phases
<1>9. Loose(r, stale)
  <2>1. MaxBandwidthKbps(pol) = MaxBandwidthKbps(policy)
    BY <1>5, SameRateSame
  <2> QED BY <1>1, <1>2, <1>5, <1>7, <1>8, <2>1, WorldIs DEF Loose, Rated, SameRate, Phases
<1>10. Strict(r, stale)
  BY <1>4, <1>5, <1>6, <1>7 DEF Strict, Encoded, Limited
<1> QED BY <1>1, <1>7, <1>9, <1>10, BecomeAgrees DEF Agreed

LEMMA AttachAgrees ==
  ASSUME UplinkInv, AttachMediaInput
  PROVE  UplinkInv'
<1> DEFINE chosen == ChooseEncodings(policy)
           rates1 == IF simulcast THEN chosen.current ELSE sender.rates
           on  == [sender EXCEPT !.on = TRUE, !.rates = rates1]
           off == [sender EXCEPT !.on = FALSE]
           pol == IF input THEN chosen ELSE policy
           snd == IF input THEN on ELSE off
           r   == [World EXCEPT !.phase = "subscribe", !.policy = pol, !.sender = snd]
<1>0. Typed(World) /\ Loose(World, stale) /\ Strict(World, stale)
  BY DEF UplinkInv, Agreed
<1>1. phase = "attach" /\ Become(r) /\ stale' = stale
  <2>1. input \in BOOLEAN
    BY <1>0, WorldIs DEF Typed
  <2>2. input => [World EXCEPT !.phase = "subscribe", !.policy = chosen, !.sender.on = TRUE,
                               !.sender.rates = IF simulcast THEN chosen.current ELSE @] = r
    <3> HIDE DEF chosen
    <3> QED BY <1>0, <2>1, WorldIs DEF Typed, Fields
  <2>3. ~input => [World EXCEPT !.phase = "subscribe", !.sender.on = FALSE] = r
    <3> HIDE DEF chosen
    <3> QED BY <1>0, <2>1, WorldIs DEF Typed, Fields
  <2> HIDE DEF r
  <2> QED BY <2>1, <2>2, <2>3 DEF AttachMediaInput, Keep
<1>2. PolicyTyped(policy)
  BY <1>0, WorldIs DEF Typed
<1>3. /\ PolicyTyped(chosen) /\ SameRate(policy, chosen) /\ chosen.wanted = policy.wanted
      /\ simulcast => chosen.current = policy.wanted
  BY <1>2, ChoosingDoes
<1> HIDE DEF chosen
<1>4. PolicyTyped(pol) /\ SameRate(policy, pol) /\ (input => pol = chosen)
  BY <1>2, <1>3 DEF SameRate
<1>5. /\ snd = [f \in {"on", "rates", "limit"} |-> snd[f]] /\ snd.on \in BOOLEAN
      /\ snd.on => input
      /\ input /\ simulcast => snd.rates = chosen.current
  BY <1>0, WorldIs DEF Typed
<1> HIDE DEF pol, snd
<1>6. /\ Typed(r) /\ r.phase = "subscribe" /\ r.policy = pol /\ r.sender = snd
      /\ r.session = session /\ r.deferred = deferred /\ r.retry = retry /\ r.duplex = duplex
      /\ r.param = param /\ r.input = input /\ r.info = info /\ r.told = told
  BY <1>0, <1>4, <1>5, WorldIs DEF Typed, Fields
<1> HIDE DEF r
<1>7. Running(r)
  BY <1>0, <1>1, <1>6, WorldIs DEF Loose, Running, Phases
<1>8. Loose(r, stale)
  <2>1. MaxBandwidthKbps(pol) = MaxBandwidthKbps(policy)
    BY <1>4, SameRateSame
  <2> QED BY <1>0, <1>1, <1>4, <1>6, <1>7, <2>1, WorldIs DEF Loose, Rated, SameRate, Phases
<1>9. Strict(r, stale)
  BY <1>0, <1>1, <1>3, <1>4, <1>5, <1>6, WorldIs DEF Strict, Encoded, Limited
<1> QED BY <1>1, <1>6, <1>8, <1>9, BecomeAgrees DEF Agreed

LEMMA SubscribeAgrees ==
  ASSUME UplinkInv, Subscribe
  PROVE  UplinkInv'
<1> DEFINE described == IF simulcast THEN info ELSE [info EXCEPT !.rates = <<param.rate>>]
           r == [World EXCEPT !.phase = "ack", !.info = described, !.told = described.rates]
<1>0. Typed(World) /\ Loose(World, stale) /\ Strict(World, stale)
  BY DEF UplinkInv, Agreed
<1>1. phase = "subscribe" /\ Become(r) /\ stale' = stale
  BY DEF Subscribe, Keep
<1>2. /\ described = [f \in {"rates", "off", "allocated", "fresh"} |-> described[f]]
      /\ described.rates = IF simulcast THEN info.rates ELSE <<param.rate>>
  BY <1>0, WorldIs DEF Typed
<1> HIDE DEF described
<1>3. /\ Typed(r) /\ r.phase = "ack" /\ r.info = described /\ r.told = described.rates
      /\ r.session = session /\ r.deferred = deferred /\ r.retry = retry /\ r.duplex = duplex
      /\ r.param = param /\ r.input = input /\ r.policy = policy /\ r.sender = sender
  BY <1>0, <1>2, WorldIs DEF Typed, Fields
<1> HIDE DEF r
<1>4. Loose(r, stale)
  BY <1>0, <1>1, <1>3, WorldIs DEF Loose, Running, Rated, Phases
<1>5. Strict(r, stale)
  BY <1>0, <1>1, <1>2, <1>3, WorldIs DEF Strict, Encoded, Limited
<1> QED BY <1>1, <1>3, <1>4, <1>5, BecomeAgrees DEF Agreed

LEMMA SubscribeAckAgrees ==
  ASSUME UplinkInv, SubscribeAck
  PROVE  UplinkInv'
<1> DEFINE new   == ~info.allocated \/ info.fresh
           seen1 == [l \in Layers |-> IF new \/ seen[l] = "absent" THEN "unseen" ELSE seen[l]]
           knows == IF new THEN [l \in Layers |-> "none"] ELSE policy.known
           inf   == [info EXCEPT !.allocated = simulcast, !.fresh = FALSE]
           pol   == [policy EXCEPT !.known = knows]
           r     == [World EXCEPT !.phase = "finish", !.info = inf, !.seen = seen1, !.policy = pol]
<1>0. Typed(World) /\ Loose(World, stale) /\ Strict(World, stale)
  BY DEF UplinkInv, Agreed
<1>1. phase = "ack" /\ stale' = stale
  BY DEF SubscribeAck, Keep
<1>2. Become(r)
  <2>1. [World EXCEPT !.phase = "finish", !.info.allocated = simulcast, !.info.fresh = FALSE,
           !.seen = [l \in Layers |-> IF new \/ seen[l] = "absent" THEN "unseen" ELSE seen[l]],
           !.policy.known = IF new THEN [l \in Layers |-> "none"] ELSE @] = r
    <3> HIDE DEF new
    <3> QED BY <1>0, WorldIs DEF Typed, Fields
  <2> HIDE DEF r
  <2> QED BY <2>1 DEF SubscribeAck
<1> HIDE DEF seen1, knows
<1>3. /\ inf = [f \in {"rates", "off", "allocated", "fresh"} |-> inf[f]]
      /\ inf.rates = info.rates
      /\ PolicyTyped(pol) /\ SameRate(policy, pol) /\ SameEncodings(policy, pol)
  BY <1>0, WorldIs DEF Typed, PolicyTyped, PolicyFields, SameRate, SameEncodings
<1> HIDE DEF inf, pol
<1>4. /\ Typed(r) /\ r.phase = "finish" /\ r.info = inf /\ r.policy = pol
      /\ r.session = session /\ r.deferred = deferred /\ r.retry = retry /\ r.duplex = duplex
      /\ r.param = param /\ r.input = input /\ r.sender = sender /\ r.told = told
  BY <1>0, <1>3, WorldIs DEF Typed, Fields
<1> HIDE DEF r
<1>5. Loose(r, stale)
  <2>1. MaxBandwidthKbps(pol) = MaxBandwidthKbps(policy)
    BY <1>3, SameRateSame
  <2> QED BY <1>0, <1>1, <1>3, <1>4, <2>1, WorldIs DEF Loose, Running, Rated, SameRate, Phases
<1>6. Strict(r, stale)
  BY <1>0, <1>1, <1>3, <1>4, WorldIs DEF Strict, Encoded, Limited, SameEncodings
<1> QED BY <1>1, <1>2, <1>4, <1>5, <1>6, BecomeAgrees DEF Agreed

LEMMA FinishUpdateAgrees ==
  ASSUME UplinkInv, FinishUpdate
  PROVE  UplinkInv'
<1> DEFINE w == IF session = "Connecting" THEN [World EXCEPT !.duplex = "RX"] ELSE World
           e == Enforce(w, param.rate)
<1>0. Typed(World) /\ Loose(World, stale) /\ Strict(World, stale)
  BY DEF UplinkInv, Agreed
<1>1. /\ phase = "finish" /\ Become(Finish(e))
      /\ stale' = IF stale = "indexed" THEN "no" ELSE stale
  BY DEF FinishUpdate
<1>2. /\ Typed(w) /\ w.phase = "finish" /\ w.session = session /\ w.deferred = deferred
      /\ w.policy = policy /\ w.param = param /\ w.sender = sender /\ w.told = told
      /\ w.retry = retry
  BY <1>0, <1>1, WorldIs DEF Typed, Fields
<1> HIDE DEF w
<1>3. /\ Typed(e) /\ \A f \in Fields \ {"sender"} : e[f] = w[f]
      /\ e.sender.on = w.sender.on /\ e.sender.rates = w.sender.rates
      /\ e.sender.limit = IF ~simulcast /\ w.sender.on /\ param.rate > 0 THEN param.rate
                          ELSE w.sender.limit
  BY <1>2, EnforceDoes
<1> HIDE DEF e
<1>4. /\ e.phase = "finish" /\ e.session = session /\ e.deferred = deferred
      /\ e.policy = policy /\ e.param = param /\ e.told = told /\ e.retry = retry
  BY <1>2, <1>3 DEF Fields
<1>5. Loose(e, stale')
  BY <1>0, <1>1, <1>3, <1>4, WorldIs DEF Loose, Running, Rated, Phases
<1>6. ASSUME e.deferred = "none", e.sender.on
      PROVE  /\ simulcast => e.sender.rates = e.policy.current /\ e.told = e.policy.current
             /\ ~simulcast /\ Generous =>
                  e.told = <<e.param.rate>> /\ e.sender.limit = e.param.rate
  <2>1. simulcast => Encoded(World)
    BY <1>0, <1>4, <1>6, WorldIs DEF Strict
  <2>2. ~simulcast /\ Generous => Limited(World, stale) /\ param.rate \in Nat \ {0}
    BY <1>0, <1>1, <1>4, <1>6, WorldIs DEF Strict, Loose, Rated, Phases
  <2>3. ~simulcast /\ Generous => param.rate > 0
    BY <2>2
  <2> QED BY ZenonT(60), <1>1, <1>2, <1>3, <1>4, <1>6, <2>1, <2>2, <2>3, WorldIs DEF Encoded, Limited
<1>7. Typed(Finish(e)) /\ Agreed(Finish(e), stale')
  BY <1>3, <1>4, <1>5, <1>6, FinishAgrees
<1> QED BY <1>1, <1>7, BecomeAgrees

-----------------------------------------------------------------------------
(* Failures, reconnections and requests.                                    *)

LEMMA SessionAgrees ==
  ASSUME UplinkInv, UpdateFails \/ PeerConnected \/ RetryFires \/ ConnectionFails \/ SwitchCamera
  PROVE  UplinkInv'
<1>0. Typed(World) /\ Agreed(World, stale) /\ Loose(World, stale)
  BY DEF UplinkInv, Agreed
<1>1. stale' = stale
  BY DEF UpdateFails, PeerConnected, RetryFires, ConnectionFails, SwitchCamera, Keep
<1>2. CASE UpdateFails
  <2> DEFINE w == [World EXCEPT !.retry = TRUE]
  <2>1. phase # "idle" /\ Become(Finish(w))
    BY <1>2 DEF UpdateFails
  <2>2. Typed(w) /\ w.retry /\ w.phase = phase /\ Untouched(World, w)
    BY <1>0, WorldIs DEF Typed, Fields, Untouched, SameRate, SameEncodings
  <2> HIDE DEF w
  <2>3. Loose(w, stale)
    BY <1>0, <2>2, UntouchedLoose
  <2>4. Typed(Finish(w)) /\ Agreed(Finish(w), stale)
    BY <2>1, <2>2, <2>3, FinishAgrees
  <2> QED BY <1>1, <2>1, <2>4, BecomeAgrees
<1>3. CASE PeerConnected
  <2>1. phase = "peer" /\ Become(ReceiveVideoInput(World))
    BY <1>3 DEF PeerConnected
  <2>2. Typed(ReceiveVideoInput(World)) /\ Agreed(ReceiveVideoInput(World), stale)
    BY <1>0, <2>1, WorldIs, ReceiveDoes DEF Loose, Running, Rated
  <2> QED BY <1>1, <2>1, <2>2, BecomeAgrees
<1>4. CASE RetryFires
  <2> DEFINE w == [World EXCEPT !.retry = FALSE]
  <2>1. Become(Perform(w, "Reconnect"))
    BY <1>4 DEF RetryFires
  <2>2. /\ Typed(w) /\ w.session = session /\ w.phase = phase /\ w.deferred = deferred
        /\ w.sender = sender /\ w.duplex = duplex /\ w.input = input
        /\ w.policy = policy /\ w.param = param
    BY <1>0, WorldIs DEF Typed, Fields
  <2> HIDE DEF w
  <2>3. Loose(w, stale)
    BY <1>0, <2>2, WorldIs DEF Loose, Running, Rated
  <2>4. Typed(Perform(w, "Reconnect")) /\ Agreed(Perform(w, "Reconnect"), stale)
    BY <2>2, <2>3, PerformAgrees
  <2> QED BY <1>1, <2>1, <2>4, BecomeAgrees
<1>5. CASE ConnectionFails
  <2> DEFINE w == [World EXCEPT !.retry = TRUE]
  <2>1. Become(w)
    BY <1>5 DEF ConnectionFails
  <2>2. Typed(w) /\ Untouched(World, w)
    BY <1>0, WorldIs DEF Typed, Fields, Untouched, SameRate, SameEncodings
  <2> HIDE DEF w
  <2>3. Agreed(w, stale)
    BY <1>0, <2>2, UntouchedAgrees
  <2> QED BY <1>1, <2>1, <2>2, <2>3, BecomeAgrees
<1>6. CASE SwitchCamera
  <2> DEFINE w == [World EXCEPT !.camera = ~camera]
  <2>1. Become(Perform(w, "Update"))
    <3>1. [World EXCEPT !.camera = ~@] = w
      BY DEF World
    <3> HIDE DEF w
    <3> QED BY <1>6, <3>1 DEF SwitchCamera
  <2>2. Typed(w) /\ Untouched(World, w)
    BY <1>0, WorldIs DEF Typed, Fields, Untouched, SameRate, SameEncodings
  <2> HIDE DEF w
  <2>3. Loose(w, stale)
    BY <1>0, <2>2, UntouchedLoose
  <2>4. Typed(Perform(w, "Update")) /\ Agreed(Perform(w, "Update"), stale)
    BY <2>2, <2>3, PerformAgrees
  <2> QED BY <1>1, <2>1, <2>4, BecomeAgrees
<1> QED BY <1>2, <1>3, <1>4, <1>5, <1>6

-----------------------------------------------------------------------------
(* Frames, reports and settings.                                            *)

\* The policy that wants nothing has chosen what it decided.
LEMMA WantsNothing ==
  ASSUME NEW w, simulcast, ~Wants(w)
  PROVE  w.policy.wanted = w.policy.current
BY DEF Wants

\* The policy has decided anew: either it says so, or what was carried is still
\* its decision.
LEMMA DecidedAgrees ==
  ASSUME NEW w, NEW x, Agreed(w, x), NEW r, NEW y, Loose(r, y),
         r.session = w.session, r.deferred = w.deferred, r.phase = w.phase, r.input = w.input,
         r.info = w.info, r.sender = w.sender, r.told = w.told, r.param = w.param,
         r.retry = w.retry, r.policy.current = w.policy.current,
         y = "no" => x = "no",
         simulcast /\ r.phase = "attach" /\ r.input /\ r.deferred = "none" =>
           r.policy.wanted = r.policy.current
  PROVE  Agreed(r, y)
<1>1. r.deferred = "none" /\ simulcast => Encoded(r)
  BY DEF Agreed, Strict, Encoded
<1>2. Limited(w, x) => Limited(r, y)
  BY DEF Limited
<1> QED BY <1>1, <1>2 DEF Agreed, Strict

LEMMA IndexFrameAgrees ==
  ASSUME UplinkInv, NEW n \in Participants, NEW own, NEW down, IndexFrame(n, own, down)
  PROVE  UplinkInv'
<1> DEFINE w  == IF phase = "open" THEN [World EXCEPT !.phase = "peer"] ELSE World
           pol == UpdateIndex(w.policy, n)
           heard == IndexOwnStreams(w.seen, own)
           indexed == [w EXCEPT !.policy = UpdateIndex(@, n), !.seen = IndexOwnStreams(@, own)]
           up    == indexed.duplex = "DUPLEX" /\ Wants(indexed)
           asked == IF indexed.duplex = "DUPLEX" THEN Asked(indexed) ELSE indexed
           cap   == ChooseCapture(asked.policy)
           chose == [asked EXCEPT !.policy = cap, !.param = asked.policy.optimal]
           final == IF up \/ down THEN Perform(chose, "Update") ELSE asked
<1>0. Typed(World) /\ Agreed(World, stale) /\ Loose(World, stale)
  BY DEF UplinkInv, Agreed
<1>1. /\ Become(final)
      /\ stale' = IF stale = "yes" THEN "indexed" ELSE stale
  <2>1. HandleIndexFrame(w, n, own, down) = final
    <3> HIDE DEF w
    <3> QED BY DEF HandleIndexFrame
  <2>2. Typed(w)
    BY <1>0 DEF Typed, Fields
  <2> HIDE DEF final
  <2> QED BY <2>1 DEF IndexFrame
<1>2. /\ Typed(w) /\ w.policy = policy /\ w.param = param /\ Agreed(w, stale)
  <2>1. CASE phase # "open"
    BY <1>0, <2>1, WorldIs
  <2>2. CASE phase = "open"
    <3> DEFINE v == [World EXCEPT !.phase = "peer"]
    <3>1. /\ Typed(v) /\ v.policy = policy /\ v.param = param /\ v.phase = "peer"
          /\ v.session = session /\ v.deferred = deferred /\ v.sender = sender
      BY <1>0, WorldIs DEF Typed, Fields
    <3> HIDE DEF v
    <3>2. Loose(v, stale)
      BY <1>0, <2>2, <3>1, WorldIs DEF Loose, Running, Rated, Phases
    <3>3. Strict(v, stale)
      BY <3>1 DEF Strict, Encoded, Limited
    <3>4. w = v
      BY <2>2 DEF v
    <3> HIDE DEF w
    <3> QED BY <3>1, <3>2, <3>3, <3>4 DEF Agreed
  <2> QED BY <2>1, <2>2
<1> HIDE DEF w, heard
<1>3. /\ PolicyTyped(pol) /\ pol.current = policy.current /\ pol.inEffect = policy.inEffect
      /\ ~simulcast => pol.optimal.rate = MaxBandwidthKbps(pol)
  BY <1>2, IndexDoes DEF Typed, PolicyTyped
<1>4. Generous => MaxBandwidthKbps(pol) \in Nat \ {0}
  BY <1>3, BandwidthIsPositive
<1> HIDE DEF pol
<1>5. /\ Typed(indexed) /\ indexed.policy = pol
      /\ indexed.session = w.session /\ indexed.deferred = w.deferred /\ indexed.phase = w.phase
      /\ indexed.duplex = w.duplex /\ indexed.input = w.input /\ indexed.info = w.info
      /\ indexed.sender = w.sender /\ indexed.told = w.told /\ indexed.param = w.param
      /\ indexed.retry = w.retry
  <2>1. UpdateIndex(w.policy, n) = pol
    BY DEF pol
  <2> QED BY <1>2, <1>3, <2>1 DEF Typed, Fields
<1> HIDE DEF indexed
<1>6. Loose(indexed, stale')
  BY <1>2, <1>3, <1>4, <1>5 DEF Agreed, Loose, Running, Rated
<1>7. Typed(asked) /\ Untouched(indexed, asked)
  <2>1. Untouched(indexed, indexed)
    BY DEF Untouched, SameRate, SameEncodings
  <2> QED BY <1>5, <2>1, AskedDoes
<1>8. Loose(asked, stale')
  <2> HIDE DEF asked
  <2> QED BY <1>6, <1>7, UntouchedLoose
<1> HIDE DEF asked
<1>9. CASE up \/ down
  <2>1. /\ PolicyTyped(cap) /\ cap.inEffect = asked.policy.optimal
        /\ cap.optimal = asked.policy.optimal /\ cap.num = asked.policy.num
        /\ cap.ideal = asked.policy.ideal /\ cap.priority = asked.policy.priority
    BY <1>7, ChoosingDoes DEF Typed
  <2> HIDE DEF cap
  <2>2. /\ Typed(chose) /\ chose.policy = cap /\ chose.param = asked.policy.optimal
        /\ chose.session = asked.session /\ chose.deferred = asked.deferred
        /\ chose.phase = asked.phase /\ chose.sender = asked.sender
        /\ chose.duplex = asked.duplex /\ chose.input = asked.input
    BY <1>7, <2>1 DEF Typed, Fields
  <2> HIDE DEF chose
  <2>3. MaxBandwidthKbps(cap) = MaxBandwidthKbps(asked.policy)
    BY <2>1 DEF MaxBandwidthKbps
  <2>4. Loose(chose, stale')
    BY <1>8, <2>1, <2>2, <2>3 DEF Loose, Running, Rated
  <2>5. Typed(Perform(chose, "Update")) /\ Agreed(Perform(chose, "Update"), stale')
    BY <2>2, <2>4, PerformAgrees
  <2> QED BY <1>1, <1>9, <2>5, BecomeAgrees
<1>10. CASE ~(up \/ down)
  <2>1. simulcast /\ indexed.phase = "attach" /\ indexed.input =>
          indexed.policy.wanted = indexed.policy.current
    BY <1>6, <1>10, WantsNothing DEF Loose, Running
  <2>2. stale' = "no" => stale = "no"
    BY <1>1
  <2>3. indexed.policy.current = w.policy.current
    BY <1>2, <1>3, <1>5
  <2>4. Agreed(indexed, stale')
    BY <1>2, <1>5, <1>6, <2>1, <2>2, <2>3, DecidedAgrees
  <2>5. Agreed(asked, stale')
    BY <1>7, <2>4, UntouchedAgrees
  <2> HIDE DEF up
  <2> QED BY <1>1, <1>7, <1>10, <2>5, BecomeAgrees
<1> QED BY <1>9, <1>10

LEMMA MetricReportAgrees ==
  ASSUME UplinkInv, NEW kbps, NEW down, MetricReport(kbps, down)
  PROVE  UplinkInv'
<1> DEFINE pol == UpdateConnectionMetric(policy, kbps)
           measured == [World EXCEPT !.policy = pol]
           noted  == Asked(measured)
           picked == ChooseConstraints(ChooseEncodings(noted.policy))
           chosen == [noted EXCEPT !.policy = picked]
           asked  == IF Wants(measured) THEN chosen ELSE noted
<1>0. Typed(World) /\ Agreed(World, stale) /\ Loose(World, stale)
  BY DEF UplinkInv, Agreed
<1>1. /\ stale' = stale
      /\ \/ camera /\ Become(IF Wants(measured) \/ down THEN Perform(asked, "Update") ELSE asked)
         \/ ~camera /\ Become(Perform(World, "Update"))
  <2>1. [World EXCEPT !.policy = UpdateConnectionMetric(@, kbps)] = measured
    BY DEF World
  <2>2. [noted EXCEPT !.policy = ChooseConstraints(ChooseEncodings(@))] = chosen
    OBVIOUS
  <2>3. stale' = stale
    BY DEF MetricReport
  <2>4. camera \in BOOLEAN
    BY <1>0, WorldIs DEF Typed
  <2> HIDE DEF measured, chosen
  <2> QED BY <2>1, <2>2, <2>3, <2>4 DEF MetricReport
<1>2. PolicyTyped(pol) /\ SameRate(policy, pol) /\ pol.current = policy.current
  BY <1>0, WorldIs, MetricDoes DEF Typed
<1> HIDE DEF pol
<1>3. /\ Typed(measured) /\ measured.policy = pol
      /\ measured.session = session /\ measured.deferred = deferred /\ measured.phase = phase
      /\ measured.duplex = duplex /\ measured.input = input /\ measured.info = info
      /\ measured.sender = sender /\ measured.told = told /\ measured.param = param
      /\ measured.retry = retry
  BY <1>0, <1>2, WorldIs DEF Typed, Fields
<1> HIDE DEF measured
<1>4. Loose(measured, stale)
  <2>1. MaxBandwidthKbps(pol) = MaxBandwidthKbps(policy)
    BY <1>2, SameRateSame
  <2> QED BY <1>0, <1>2, <1>3, <2>1, WorldIs DEF Loose, Running, Rated, SameRate
<1>5. Typed(noted) /\ Untouched(measured, noted)
  BY <1>3, AskedDoes
<1> HIDE DEF noted
<1>6. Loose(noted, stale)
  BY <1>4, <1>5, UntouchedLoose
<1>7. Typed(chosen) /\ Loose(chosen, stale)
  <2>1. /\ PolicyTyped(ChooseEncodings(noted.policy))
        /\ SameRate(noted.policy, ChooseEncodings(noted.policy))
    BY <1>5, ChoosingDoes DEF Typed
  <2>2. PolicyTyped(picked) /\ SameRate(noted.policy, picked)
    BY <2>1, ChoosingDoes DEF SameRate
  <2> HIDE DEF picked
  <2>3. /\ Typed(chosen) /\ chosen.policy = picked
        /\ chosen.session = noted.session /\ chosen.deferred = noted.deferred
        /\ chosen.phase = noted.phase /\ chosen.sender = noted.sender
        /\ chosen.duplex = noted.duplex /\ chosen.input = noted.input
        /\ chosen.param = noted.param
    BY <1>5, <2>2 DEF Typed, Fields
  <2> HIDE DEF chosen
  <2>4. MaxBandwidthKbps(picked) = MaxBandwidthKbps(noted.policy)
    BY <2>2, SameRateSame
  <2>5. Loose(chosen, stale)
    BY <1>6, <2>2, <2>3, <2>4 DEF Loose, Running, Rated, SameRate
  <2> QED BY <2>3, <2>5
<1> HIDE DEF chosen
<1>8. CASE camera /\ (Wants(measured) \/ down) /\ Become(Perform(asked, "Update"))
  <2>1. Typed(asked) /\ Loose(asked, stale)
    BY <1>5, <1>6, <1>7
  <2> HIDE DEF asked
  <2>2. Typed(Perform(asked, "Update")) /\ Agreed(Perform(asked, "Update"), stale)
    BY <2>1, PerformAgrees
  <2> QED BY <1>1, <1>8, <2>2, BecomeAgrees
<1>9. CASE ~Wants(measured) /\ Become(noted)
  <2>1. simulcast => measured.policy.wanted = measured.policy.current
    BY <1>9, WantsNothing
  <2>2. measured.policy.current = World.policy.current
    BY <1>2, <1>3, WorldIs
  <2>3. Agreed(measured, stale)
    BY <1>0, <1>3, <1>4, <2>1, <2>2, WorldIs, DecidedAgrees
  <2>4. Agreed(noted, stale)
    BY <1>5, <2>3, UntouchedAgrees
  <2> QED BY <1>1, <1>5, <1>9, <2>4, BecomeAgrees
<1>10. CASE Become(Perform(World, "Update"))
  <2>1. Typed(Perform(World, "Update")) /\ Agreed(Perform(World, "Update"), stale)
    BY <1>0, PerformAgrees
  <2> QED BY <1>1, <1>10, <2>1, BecomeAgrees
<1> QED BY <1>1, <1>8, <1>9, <1>10

\* What neither changes the decision nor what has been carried of it.
LEMMA BystandersAgree ==
  ASSUME UplinkInv, BitrateFrame \/ HoldEnds \/ \E l \in Layers : BrowserAdapts(l)
  PROVE  UplinkInv'
<1>0. Typed(World) /\ Agreed(World, stale)
  BY DEF UplinkInv
<1>1. stale' = stale
  BY DEF BitrateFrame, HoldEnds, BrowserAdapts, Keep
<1> DEFINE inf(y) == [info EXCEPT !.off = y]
           pol(z) == [policy EXCEPT !.held = z]
           r(x, y, z) == [World EXCEPT !.seen = x, !.info = inf(y), !.policy = pol(z)]
<1>2. ASSUME NEW x, NEW y, NEW z, Become(r(x, y, z))
      PROVE  UplinkInv'
  <2>1. /\ inf(y) = [f \in {"rates", "off", "allocated", "fresh"} |-> inf(y)[f]]
        /\ inf(y).rates = info.rates
        /\ PolicyTyped(pol(z)) /\ SameRate(policy, pol(z)) /\ SameEncodings(policy, pol(z))
    BY <1>0, WorldIs DEF Typed, PolicyTyped, PolicyFields, SameRate, SameEncodings
  <2> HIDE DEF inf, pol
  <2>2. Typed(r(x, y, z)) /\ Untouched(World, r(x, y, z))
    BY <1>0, <2>1, WorldIs DEF Typed, Fields, Untouched
  <2> HIDE DEF r
  <2>3. Agreed(r(x, y, z), stale)
    BY <1>0, <2>2, UntouchedAgrees
  <2> QED BY <1>1, <1>2, <2>2, <2>3, BecomeAgrees
<1>3. info = inf(info.off) /\ policy = pol(policy.held)
  BY <1>0, WorldIs DEF Typed, PolicyTyped, PolicyFields
<1>4. CASE BitrateFrame
  <2>1. PICK heard, out : Become([World EXCEPT !.seen = heard, !.info.off = out])
    BY <1>4 DEF BitrateFrame
  <2>2. r(heard, out, policy.held) = [World EXCEPT !.seen = heard, !.info.off = out]
    <3> HIDE DEF pol
    <3> QED BY <1>0, <1>3, WorldIs DEF Typed, Fields
  <2>3. Become(r(heard, out, policy.held))
    BY <2>1, <2>2
  <2> HIDE DEF r
  <2> QED BY <1>2, <2>3
<1>5. CASE HoldEnds
  <2>1. Become([World EXCEPT !.policy.held = FALSE])
    BY <1>5 DEF HoldEnds
  <2>2. r(seen, info.off, FALSE) = [World EXCEPT !.policy.held = FALSE]
    <3> HIDE DEF inf
    <3> QED BY <1>0, <1>3, WorldIs DEF Typed, Fields
  <2>3. PICK z : Become(r(seen, info.off, z))
    BY <2>1, <2>2, Zenon
  <2> HIDE DEF r
  <2> QED BY <1>2, <2>3
<1>6. CASE \E l \in Layers : BrowserAdapts(l)
  <2>1. Become(World)
    BY <1>6 DEF BrowserAdapts
  <2>2. r(seen, info.off, policy.held) = World
    <3> HIDE DEF inf, pol
    <3> QED BY <1>0, <1>3, WorldIs DEF Typed, Fields
  <2> HIDE DEF r
  <2> QED BY <1>2, <2>1, <2>2
<1> QED BY <1>4, <1>5, <1>6

\* A setting or a priority is not in the parameters before the next index frame.
LEMMA SettingsAgree ==
  ASSUME UplinkInv,
         HandleHasBandwidthPriority \/ \E k \in Ideals : SetIdealMaxBandwidth(k)
  PROVE  UplinkInv'
<1>0. Typed(World) /\ Loose(World, stale) /\ Strict(World, stale) /\ Agreed(World, stale)
  BY DEF UplinkInv, Agreed
<1>1. stale' = "yes" /\ ~simulcast
  BY DEF HandleHasBandwidthPriority, SetIdealMaxBandwidth
<1>2. ASSUME NEW r, Typed(r), Become(r),
             r.session = session, r.deferred = deferred, r.phase = phase, r.duplex = duplex,
             r.input = input, r.info = info, r.told = told, r.param = param, r.retry = retry,
             r.sender.on = sender.on, r.policy.optimal = policy.optimal,
             r.policy.inEffect = policy.inEffect
      PROVE  UplinkInv'
  <2>1. Loose(r, "yes")
    BY <1>0, <1>1, <1>2, WorldIs DEF Loose, Running, Rated
  <2>2. Strict(r, "yes")
    BY <1>0, <1>1, <1>2, WorldIs DEF Strict, Limited
  <2> QED BY <1>1, <1>2, <2>1, <2>2, BecomeAgrees DEF Agreed
<1>3. ASSUME NEW k \in Ideals, SetIdealMaxBandwidth(k)
      PROVE  UplinkInv'
  <2> DEFINE pol == [policy EXCEPT !.ideal = k]
             r   == [World EXCEPT !.policy = pol]
  <2>1. Become(r)
    <3>1. [World EXCEPT !.policy.ideal = k] = r
      BY DEF World
    <3> HIDE DEF r
    <3> QED BY <1>3, <3>1 DEF SetIdealMaxBandwidth
  <2>2. PolicyTyped(pol) /\ pol.optimal = policy.optimal /\ pol.inEffect = policy.inEffect
    BY <1>0, WorldIs DEF Typed, PolicyTyped, PolicyFields
  <2> HIDE DEF pol
  <2>3. /\ Typed(r) /\ r.policy = pol
        /\ r.session = session /\ r.deferred = deferred /\ r.phase = phase /\ r.duplex = duplex
        /\ r.input = input /\ r.info = info /\ r.told = told /\ r.param = param
        /\ r.retry = retry /\ r.sender = sender
    BY <1>0, <2>2, WorldIs DEF Typed, Fields
  <2> HIDE DEF r
  <2> QED BY <1>2, <2>1, <2>2, <2>3
<1>4. CASE HandleHasBandwidthPriority
  <2> DEFINE pol == [policy EXCEPT !.priority = ~policy.priority]
             given == [World EXCEPT !.policy = pol]
             rate == MaxBandwidthKbps(given.policy)
             enforced == Enforce(given, rate)
  <2>1. Become(enforced) \/ Become(given)
    <3>1. [World EXCEPT !.policy.priority = ~@] = given
      BY DEF World
    <3> HIDE DEF given
    <3> QED BY <1>4, <3>1 DEF HandleHasBandwidthPriority
  <2>2. PolicyTyped(pol) /\ pol.optimal = policy.optimal /\ pol.inEffect = policy.inEffect
    BY <1>0, WorldIs DEF Typed, PolicyTyped, PolicyFields
  <2> HIDE DEF pol
  <2>3. /\ Typed(given) /\ given.policy = pol
        /\ given.session = session /\ given.deferred = deferred /\ given.phase = phase
        /\ given.duplex = duplex /\ given.input = input /\ given.info = info
        /\ given.told = told /\ given.param = param /\ given.retry = retry /\ given.sender = sender
    BY <1>0, <2>2, WorldIs DEF Typed, Fields
  <2> HIDE DEF given, rate
  <2>4. /\ Typed(enforced) /\ \A f \in Fields \ {"sender"} : enforced[f] = given[f]
        /\ enforced.sender.on = given.sender.on
    BY <2>3, EnforceDoes
  <2> HIDE DEF enforced
  <2>5. /\ enforced.policy = pol
        /\ enforced.session = session /\ enforced.deferred = deferred /\ enforced.phase = phase
        /\ enforced.duplex = duplex /\ enforced.input = input /\ enforced.info = info
        /\ enforced.told = told /\ enforced.param = param /\ enforced.retry = retry
    BY <2>3, <2>4 DEF Fields
  <2>6. CASE Become(given)
    BY <1>2, <2>2, <2>3, <2>6
  <2>7. CASE Become(enforced)
    BY <1>2, <2>2, <2>3, <2>4, <2>5, <2>7
  <2> QED BY <2>1, <2>6, <2>7
<1> QED BY <1>3, <1>4

-----------------------------------------------------------------------------
(* The whole.                                                               *)

LEMMA InitAgrees == Init => UplinkInv
<1> SUFFICES ASSUME Init PROVE UplinkInv
  OBVIOUS
<1> DEFINE first == <<300, 500, 1100>>
           zero  == [width |-> 0, rate |-> 0]
           unknown == [l \in Layers |-> "none"]
           no == FALSE
           least(k) == [num |-> 0, kbps |-> k, held |-> no, wanted |-> first, current |-> first,
                        newWidth |-> 1280, width |-> 1280, known |-> unknown,
                        ideal |-> 1400, priority |-> no, optimal |-> zero, inEffect |-> zero]
<1>1. PICK n \in Participants :
        policy = UpdateIndex(least(CHOOSE k \in Uplinks : \A j \in Uplinks : j <= k), n)
  BY DEF Init
<1>2. PICK k : policy = UpdateIndex(least(k), n)
  BY <1>1
<1>3. /\ least(k) = [f \in PolicyFields |-> least(k)[f]]
      /\ least(k).ideal \in Ideals /\ least(k).priority \in BOOLEAN
      /\ least(k).inEffect = [width |-> 0, rate |-> 0]
  <2>1. least(k) = [f \in PolicyFields |-> least(k)[f]]
    <3> HIDE DEF first, zero, unknown, no
    <3> QED BY DEF PolicyFields
  <2>2. least(k).ideal = 1400 /\ least(k).inEffect = [width |-> 0, rate |-> 0]
    OBVIOUS
  <2> HIDE DEF least, zero
  <2>3. least(k).ideal \in Ideals
    BY <2>2, UplinkAssumption DEF UplinkAssumption
  <2>4. least(k).priority \in BOOLEAN
    <3>1. no \in BOOLEAN
      OBVIOUS
    <3> HIDE DEF no
    <3>2. least(k).priority = no
      BY DEF least
    <3> HIDE DEF least
    <3> QED BY <3>1, <3>2
  <2> QED BY <2>1, <2>2, <2>3, <2>4 DEF zero
<1> HIDE DEF least
<1>5. /\ PolicyTyped(policy) /\ policy.inEffect = [width |-> 0, rate |-> 0]
      /\ ~simulcast => policy.optimal.rate = MaxBandwidthKbps(policy)
  BY <1>2, <1>3, IndexDoes
<1>6. Generous => MaxBandwidthKbps(policy) \in Nat \ {0}
  BY <1>5, BandwidthIsPositive
<1>7. /\ session = "Connected" /\ deferred = "none" /\ phase = "idle" /\ retry = FALSE
      /\ duplex = "RX" /\ camera = FALSE /\ input = FALSE
      /\ param = [width |-> 0, rate |-> 0]
      /\ info = [rates |-> <<0, 0, 0>>, off |-> {}, allocated |-> FALSE, fresh |-> TRUE]
      /\ sender = [on |-> FALSE, rates |-> <<200, 400, 1100>>, limit |-> 0]
  BY DEF Init
<1>8. Typed(World)
  <2>1. World = [f \in Fields |-> World[f]]
    BY DEF World, Fields
  <2>2. /\ info = [f \in {"rates", "off", "allocated", "fresh"} |-> info[f]]
        /\ sender = [f \in {"on", "rates", "limit"} |-> sender[f]]
    BY <1>7
  <2>3. /\ sender.on \in BOOLEAN /\ input \in BOOLEAN /\ retry \in BOOLEAN
        /\ camera \in BOOLEAN
    BY <1>7
  <2> QED BY <1>5, <2>1, <2>2, <2>3, WorldIs DEF Typed
<1>9. Loose(World, stale)
  BY <1>5, <1>6, <1>7, <1>8, WorldIs DEF Loose, Running, Rated, Phases
<1>10. Strict(World, stale)
  BY <1>7, <1>8, WorldIs DEF Strict, Encoded, Limited
<1> QED BY <1>8, <1>9, <1>10 DEF UplinkInv, Agreed

LEMMA StepAgrees == UplinkInv /\ [Next]_vars => UplinkInv'
<1> SUFFICES ASSUME UplinkInv, [Next]_vars PROVE UplinkInv'
  OBVIOUS
<1>1. ASSUME NEW granted \in BOOLEAN, DeviceAnswers(granted)
      PROVE  UplinkInv'
  BY <1>1, DeviceAnswersAgrees
<1>2. CASE AttachMediaInput
  BY <1>2, AttachAgrees
<1>3. CASE Subscribe
  BY <1>3, SubscribeAgrees
<1>4. CASE SubscribeAck
  BY <1>4, SubscribeAckAgrees
<1>5. CASE FinishUpdate
  BY <1>5, FinishUpdateAgrees
<1>6. CASE UpdateFails \/ PeerConnected \/ RetryFires \/ ConnectionFails \/ SwitchCamera
  BY <1>6, SessionAgrees
<1>7. ASSUME NEW n \in Participants, NEW own \in {{}, Layers}, NEW down \in BOOLEAN,
             IndexFrame(n, own, down)
      PROVE  UplinkInv'
  BY <1>7, IndexFrameAgrees
<1>8. CASE BitrateFrame \/ HoldEnds \/ \E l \in Layers : BrowserAdapts(l)
  BY <1>8, BystandersAgree
<1>9. ASSUME NEW kbps \in Uplinks, NEW down \in BOOLEAN, MetricReport(kbps, down)
      PROVE  UplinkInv'
  BY <1>9, MetricReportAgrees
<1>10. CASE HandleHasBandwidthPriority \/ \E k \in Ideals : SetIdealMaxBandwidth(k)
  BY <1>10, SettingsAgree
<1>11. CASE UNCHANGED vars
  <2>1. World' = World /\ stale' = stale /\ simulcast' = simulcast
    BY <1>11 DEF vars, World
  <2>2. Typed(World)'
    BY <2>1 DEF UplinkInv, Typed, PolicyTyped
  <2>3. Agreed(World, stale)'
    BY <2>1 DEF UplinkInv, Agreed, Loose, Running, Rated, Strict, Encoded, Limited, Generous,
                MaxBandwidthKbps
  <2> QED BY <2>2, <2>3 DEF UplinkInv
<1> QED BY <1>1, <1>2, <1>3, <1>4, <1>5, <1>6, <1>7, <1>8, <1>9, <1>10, <1>11 DEF Next

LEMMA UplinkIsKept == Spec => []UplinkInv
<1> QED BY InitAgrees, StepAgrees, PTL DEF Spec

\* Whatever is reported, switched, lost or retried between the turns of an update:
\* once nothing is under way, waits or will be retried, the camera's RTCRtpSender
\* is encoded as SubscribeAndReceiveSubscribeAckTask has told the server, and as
\* SimulcastUplinkPolicy believes.  The decision that ReceiveVideoInputTask and
\* AttachMediaInputTask each read is the same one: while an update runs, whatever
\* changes it also puts another update in the single deferred slot.
THEOREM EncodingIsAgreed == Spec => []EncodingsAgree
<1>1. UplinkInv => EncodingsAgree
  BY WorldIs DEF UplinkInv, Agreed, Strict, Encoded, EncodingsAgree, Quiet
<1> QED BY <1>1, UplinkIsKept, PTL

\* With NScaleVideoUplinkBandwidthPolicy, once nothing is under way, the limit that
\* setVideoSendingBitrateKbps has put on the sender and the bitrate the server was
\* told are maxBandwidthKbps, for ideal bandwidths of 13 kbps and more.  For less,
\* Math.trunc can give a bandwidth of 0, which actionFinishUpdating does not put
\* on the sender.
THEOREM RateIsFollowed ==
  ASSUME \A k \in Ideals : k >= 13
  PROVE  Spec => []RateIsAgreed
<1>1. Generous
  BY DEF Generous
<1>2. UplinkInv => RateIsAgreed
  <2> SUFFICES ASSUME UplinkInv, ~simulcast, Quiet, sender.on, stale = "no",
                      policy.inEffect = policy.optimal
               PROVE  /\ sender.limit = MaxBandwidthKbps(policy)
                      /\ told = <<MaxBandwidthKbps(policy)>>
    BY DEF RateIsAgreed
  <2>1. /\ param = policy.inEffect /\ policy.optimal.rate = MaxBandwidthKbps(policy)
    BY <1>1, WorldIs DEF UplinkInv, Agreed, Loose, Rated
  <2>2. told = <<param.rate>> /\ sender.limit = param.rate
    BY <1>1, WorldIs DEF UplinkInv, Agreed, Strict, Limited, Quiet
  <2> QED BY <2>1, <2>2
<1> QED BY <1>2, UplinkIsKept, PTL
=============================================================================
