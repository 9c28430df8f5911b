------------------------ MODULE ConnectionHealth_proofs ------------------------
(***************************************************************************)
(* Theorems about ConnectionHealth, for every threshold, window, cool-down  *)
(* and bound.  What the invariants say of the calls that wait is said of    *)
(* positions in tasks; a turn takes away the first position, adds one at    *)
(* the end, or both, and there is a lemma for each of the two.              *)
(***************************************************************************)
EXTENDS ConnectionHealth, FiniteSetTheorems, SequenceTheorems, TLAPS

\* The calls of tasks by position: those that tell of bad audio, and the misses
\* that no pong wipes out.
Poors(q)  == {i \in DOMAIN q : q[i] = "poor"}
Misses(q) == {i \in DOMAIN q : q[i] = "miss" /\ \A j \in i + 1 .. Len(q) : q[j] # "pong"}
HasPong(q) == \E i \in DOMAIN q : q[i] = "pong"

Typed ==
  /\ tasks \in Seq(Calls) /\ told \in Notices
  /\ warnings \in Nat /\ unanswered \in Nat
  /\ "missed" \in DOMAIN data /\ data.missed \in Nat
  /\ warn \in [health : {0, 1}, count : 0 .. MaxWarnings + 1, age : Nat]
  /\ ping \in [interval : BOOLEAN, unaccounted : Nat]

-----------------------------------------------------------------------------
(* Positions in a queue.                                                    *)

LEMMA QueueIs ==
  ASSUME NEW q \in Seq(Calls)
  PROVE  /\ Len(q) \in Nat /\ DOMAIN q = 1 .. Len(q) /\ \A i \in 1 .. Len(q) : q[i] \in Calls
         /\ Poors(q) \subseteq 1 .. Len(q) /\ Misses(q) \subseteq 1 .. Len(q)
         /\ IsFiniteSet(Poors(q)) /\ IsFiniteSet(Misses(q))
         /\ Cardinality(Poors(q)) \in Nat /\ Cardinality(Misses(q)) \in Nat
<1>1. Len(q) \in Nat /\ DOMAIN q = 1 .. Len(q) /\ \A i \in 1 .. Len(q) : q[i] \in Calls
  BY LenProperties, ElementOfSeq
<1>2. Poors(q) \subseteq 1 .. Len(q) /\ Misses(q) \subseteq 1 .. Len(q)
  BY <1>1 DEF Poors, Misses
<1>3. IsFiniteSet(1 .. Len(q))
  BY <1>1, FS_Interval
<1>4. IsFiniteSet(Poors(q)) /\ IsFiniteSet(Misses(q))
  BY <1>2, <1>3, FS_Subset
<1> QED BY <1>1, <1>2, <1>4, FS_CardinalityType

\* Positions that move up by one when the first is taken away.
LEMMA MovedUp ==
  ASSUME NEW n \in Nat, NEW S, S \subseteq 1 .. n
  PROVE  LET T == {i \in 1 .. n - 1 : i + 1 \in S}
         IN  /\ IsFiniteSet(T)
             /\ Cardinality(S) \in Nat
             /\ Cardinality(T) = IF 1 \in S THEN Cardinality(S) - 1 ELSE Cardinality(S)
<1> DEFINE T == {i \in 1 .. n - 1 : i + 1 \in S}
           R == S \ {1}
           f == [i \in R |-> i - 1]
<1>1. IsFiniteSet(S)
  <2>1. 1 \in Int /\ n \in Int
    OBVIOUS
  <2>2. IsFiniteSet(1 .. n)
    BY <2>1, FS_Interval
  <2> QED BY <2>2, FS_Subset
<1>2. IsFiniteSet(R) /\ Cardinality(R) = IF 1 \in S THEN Cardinality(S) - 1 ELSE Cardinality(S)
  BY <1>1, FS_RemoveElement
<1>3. f \in Bijection(R, T)
  <2>1. \A i \in R : i - 1 \in T
    OBVIOUS
  <2>2. \A i, j \in R : i - 1 = j - 1 => i = j
    OBVIOUS
  <2>3. \A t \in T : t + 1 \in R /\ (t + 1) - 1 = t
    OBVIOUS
  <2>4. f \in [R -> T]
    BY <2>1
  <2>5. \A i, j \in R : f[i] = f[j] => i = j
    BY <2>2
  <2>6. \A t \in T : \E i \in R : f[i] = t
    BY <2>3
  <2> QED BY <2>4, <2>5, <2>6 DEF Bijection, Injection, Surjection, IsInjective
<1> HIDE DEF f, T, R
<1>4. ExistsBijection(R, T)
  BY <1>3 DEF ExistsBijection
<1>5. IsFiniteSet(T) /\ Cardinality(T) = Cardinality(R)
  BY <1>2, <1>4, FS_Bijection
<1> QED BY <1>1, <1>2, <1>5, FS_CardinalityType DEF T

LEMMA TailIs ==
  ASSUME NEW q \in Seq(Calls), q # <<>>
  PROVE  /\ Tail(q) \in Seq(Calls) /\ Len(Tail(q)) = Len(q) - 1 /\ Len(q) \in Nat \ {0}
         /\ Head(q) = q[1] /\ Head(q) \in Calls
         /\ \A i \in 1 .. Len(q) - 1 : Tail(q)[i] = q[i + 1]
BY HeadTailProperties, EmptySeq

LEMMA TailCounts ==
  ASSUME NEW q \in Seq(Calls), q # <<>>
  PROVE  /\ Cardinality(Poors(Tail(q))) =
              IF Head(q) = "poor" THEN Cardinality(Poors(q)) - 1 ELSE Cardinality(Poors(q))
         /\ Cardinality(Misses(Tail(q))) =
              IF Head(q) = "miss" /\ ~HasPong(Tail(q))
              THEN Cardinality(Misses(q)) - 1 ELSE Cardinality(Misses(q))
         /\ HasPong(q) <=> Head(q) = "pong" \/ HasPong(Tail(q))
<1> DEFINE n == Len(q)  t == Tail(q)
<1>1. /\ n \in Nat \ {0} /\ t \in Seq(Calls) /\ Len(t) = n - 1
      /\ Head(q) = q[1] /\ \A i \in 1 .. n - 1 : t[i] = q[i + 1]
  BY TailIs
<1>2. DOMAIN q = 1 .. n /\ DOMAIN t = 1 .. n - 1
  BY <1>1, QueueIs
<1>3. Poors(q) \subseteq 1 .. n /\ Misses(q) \subseteq 1 .. n
  BY QueueIs
<1> HIDE DEF n, t
<1>4. Poors(t) = {i \in 1 .. n - 1 : i + 1 \in Poors(q)}
  BY <1>1, <1>2 DEF Poors
<1>5. Misses(t) = {i \in 1 .. n - 1 : i + 1 \in Misses(q)}
  <2>1. ASSUME NEW i \in 1 .. n - 1
        PROVE  (\A j \in i + 1 .. n - 1 : t[j] # "pong") <=> (\A j \in i + 2 .. n : q[j] # "pong")
    <3>1. ASSUME \A j \in i + 1 .. n - 1 : t[j] # "pong", NEW j \in i + 2 .. n
          PROVE  q[j] # "pong"
      <4>1. j - 1 \in i + 1 .. n - 1 /\ j - 1 \in 1 .. n - 1 /\ (j - 1) + 1 = j
        BY <1>1
      <4> QED BY <1>1, <3>1, <4>1
    <3>2. ASSUME \A j \in i + 2 .. n : q[j] # "pong", NEW j \in i + 1 .. n - 1
          PROVE  t[j] # "pong"
      <4>1. j + 1 \in i + 2 .. n /\ j \in 1 .. n - 1
        BY <1>1
      <4> QED BY <1>1, <3>2, <4>1
    <3> QED BY <3>1, <3>2
  <2>2. \A i \in 1 .. n - 1 : i + 1 \in 1 .. n /\ (i + 1) + 1 = i + 2
    BY <1>1
  <2>3. \A i \in 1 .. n - 1 : i \in Misses(t) <=> i + 1 \in Misses(q)
    BY <1>1, <1>2, <2>1, <2>2 DEF Misses, n
  <2> QED BY <1>2, <2>3 DEF Misses
<1>6. 1 \in Poors(q) <=> Head(q) = "poor"
  BY <1>1, <1>2 DEF Poors
<1>7. HasPong(t) <=> \E j \in 2 .. n : q[j] = "pong"
  <2>1. ASSUME NEW j \in 2 .. n, q[j] = "pong"
        PROVE  HasPong(t)
    <3>1. j - 1 \in 1 .. n - 1 /\ (j - 1) + 1 = j
      BY <1>1
    <3> QED BY <1>1, <1>2, <2>1, <3>1 DEF HasPong
  <2>2. ASSUME NEW j \in 1 .. n - 1, t[j] = "pong"
        PROVE  \E i \in 2 .. n : q[i] = "pong"
    <3>1. j + 1 \in 2 .. n
      BY <1>1
    <3> QED BY <1>1, <2>2, <3>1
  <2> QED BY <1>2, <2>1, <2>2 DEF HasPong
<1>8. 1 \in Misses(q) <=> Head(q) = "miss" /\ ~HasPong(t)
  BY <1>1, <1>2, <1>7 DEF Misses, n
<1>9. HasPong(q) <=> Head(q) = "pong" \/ HasPong(t)
  <2>1. \A j \in 1 .. n : j = 1 \/ j \in 2 .. n
    BY <1>1
  <2>2. 1 \in 1 .. n /\ \A j \in 2 .. n : j \in 1 .. n
    BY <1>1
  <2>3. HasPong(q) <=> q[1] = "pong" \/ \E j \in 2 .. n : q[j] = "pong"
    BY <1>2, <2>1, <2>2 DEF HasPong
  <2> QED BY <1>1, <1>7, <2>3
<1>10. Cardinality(Poors(t)) = IF 1 \in Poors(q) THEN Cardinality(Poors(q)) - 1 ELSE Cardinality(Poors(q))
  BY <1>1, <1>3, <1>4, MovedUp
<1>11. Cardinality(Misses(t)) = IF 1 \in Misses(q) THEN Cardinality(Misses(q)) - 1 ELSE Cardinality(Misses(q))
  BY <1>1, <1>3, <1>5, MovedUp
<1> QED BY <1>6, <1>8, <1>9, <1>10, <1>11 DEF t

LEMMA AppendIs ==
  ASSUME NEW q \in Seq(Calls), NEW c \in Calls
  PROVE  /\ Append(q, c) \in Seq(Calls) /\ Len(Append(q, c)) = Len(q) + 1
         /\ \A i \in 1 .. Len(q) : Append(q, c)[i] = q[i]
         /\ Append(q, c)[Len(q) + 1] = c
BY AppendProperties

LEMMA AppendCounts ==
  ASSUME NEW q \in Seq(Calls), NEW c \in Calls
  PROVE  /\ Cardinality(Poors(Append(q, c))) =
              IF c = "poor" THEN Cardinality(Poors(q)) + 1 ELSE Cardinality(Poors(q))
         /\ Cardinality(Misses(Append(q, c))) =
              IF c = "pong" THEN 0
              ELSE IF c = "miss" THEN Cardinality(Misses(q)) + 1 ELSE Cardinality(Misses(q))
         /\ HasPong(Append(q, c)) <=> c = "pong" \/ HasPong(q)
<1> DEFINE n == Len(q)  r == Append(q, c)
<1>1. /\ n \in Nat /\ r \in Seq(Calls) /\ Len(r) = n + 1
      /\ r[n + 1] = c /\ \A i \in 1 .. n : r[i] = q[i]
  BY AppendIs, QueueIs
<1>2. DOMAIN q = 1 .. n /\ DOMAIN r = 1 .. n + 1
  BY <1>1, QueueIs
<1>3. /\ Poors(q) \subseteq 1 .. n /\ Misses(q) \subseteq 1 .. n
      /\ IsFiniteSet(Poors(q)) /\ IsFiniteSet(Misses(q))
  BY QueueIs
<1> HIDE DEF n, r
<1>4. n + 1 \notin Poors(q) /\ n + 1 \notin Misses(q)
  BY <1>1, <1>3
<1>5. Poors(r) = IF c = "poor" THEN Poors(q) \cup {n + 1} ELSE Poors(q)
  BY <1>1, <1>2 DEF Poors
<1>6. \A i \in 1 .. n : (\A j \in i + 1 .. n + 1 : r[j] # "pong") <=>
                        (\A j \in i + 1 .. n : q[j] # "pong") /\ c # "pong"
  BY <1>1
<1>7. \A j \in n + 2 .. n + 1 : r[j] # "pong"
  BY <1>1
<1>8. Misses(r) = IF c = "pong" THEN {} ELSE IF c = "miss" THEN Misses(q) \cup {n + 1} ELSE Misses(q)
  BY <1>1, <1>2, <1>6, <1>7 DEF Misses, n
<1>9. HasPong(r) <=> c = "pong" \/ HasPong(q)
  BY <1>1, <1>2 DEF HasPong
<1>10. Cardinality(Poors(r)) =
          IF c = "poor" THEN Cardinality(Poors(q)) + 1 ELSE Cardinality(Poors(q))
  BY <1>3, <1>4, <1>5, FS_AddElement
<1>11. Cardinality(Misses(r)) =
          IF c = "pong" THEN 0
          ELSE IF c = "miss" THEN Cardinality(Misses(q)) + 1 ELSE Cardinality(Misses(q))
  <2>1. CASE c = "pong"
    BY <1>8, <2>1, FS_EmptySet
  <2>2. CASE c = "miss"
    BY <1>3, <1>4, <1>8, <2>2, FS_AddElement
  <2>3. CASE c \notin {"pong", "miss"}
    BY <1>8, <2>3
  <2> QED BY <2>1, <2>2, <2>3
<1> QED BY <1>9, <1>10, <1>11 DEF r

-----------------------------------------------------------------------------
(* The session.                                                             *)

\* How a session that is not down moves on: the data stay or are new, and no call
\* is made.
SessionMoves ==
  \/ FinishConnecting \/ ReconnectFails \/ OtherFailure
  \/ RetryWaits \/ Reconnect \/ RestartLocalAudio

LEMMA MovingOn ==
  ASSUME SessionMoves
  PROVE  /\ UNCHANGED <<tasks, ping, warn, unanswered, told, warnings>>
         /\ stage # "down" /\ stage' # "down" /\ data' \in {data, NewData}
<1>1. CASE FinishConnecting
  BY <1>1 DEF FinishConnecting, Proceed, history
<1>2. CASE ReconnectFails
  BY <1>2 DEF ReconnectFails, Proceed, history
<1>3. CASE OtherFailure \/ RetryWaits
  BY <1>3 DEF OtherFailure, RetryWaits, history, monitored
<1>4. CASE Reconnect \/ RestartLocalAudio
  BY <1>4 DEF Reconnect, RestartLocalAudio, history
<1> QED BY <1>1, <1>2, <1>3, <1>4 DEF SessionMoves

-----------------------------------------------------------------------------
(* Types.                                                                   *)

\* What Notice adds to the queue.
LEMMA ToldOrNot ==
  ASSUME Typed, NEW w, w.health \in {0, 1}, NEW q \in Seq(Calls)
  PROVE  \/ w.health = warn.health /\ q \o Notice(w) = q
         \/ w.health = 0 /\ warn.health = 1 /\ q \o Notice(w) = Append(q, "poor")
         \/ w.health = 1 /\ warn.health = 0 /\ q \o Notice(w) = Append(q, "good")
<1>1. q \o <<>> = q
  BY ConcatEmptySeq
<1>2. \A c \in Calls : q \o <<c>> = Append(q, c)
  OBVIOUS
<1>3. warn.health \in {0, 1} /\ {"poor", "good"} \subseteq Calls
  BY DEF Typed, Calls, Notices
<1> QED BY <1>1, <1>2, <1>3 DEF Notice

LEMMA WarnIs ==
  ASSUME Typed
  PROVE  /\ Warn \in [health : {0, 1}, count : 0 .. MaxWarnings + 1, age : Nat]
         /\ Warn.health = 0 /\ warn.health = 1 =>
              warn.count + 1 <= MaxWarnings /\ Warn.count = warn.count + 1
         /\ warn.count <= Warn.count
<1>1. /\ warn \in [health : {0, 1}, count : 0 .. MaxWarnings + 1, age : Nat]
      /\ MaxWarnings \in Nat /\ CoolDown \in Nat
  BY HealthBounds DEF Typed
<1>2. CASE warn.age < CoolDown \/ (HighLoss /\ warn.health = 0)
  <2>1. Warn = warn
    BY <1>2 DEF Warn
  <2> QED BY <1>1, <2>1
<1>3. CASE ~(warn.age < CoolDown) /\ ~HighLoss
  <2>1. Warn = [warn EXCEPT !.health = 1]
    BY <1>3 DEF Warn
  <2> QED BY <1>1, <2>1
<1>4. CASE ~(warn.age < CoolDown) /\ HighLoss /\ warn.health # 0
  <2>1. Warn = [health |-> IF warn.count + 1 > MaxWarnings THEN 1 ELSE 0,
                count |-> UpTo(warn.count + 1, MaxWarnings + 1), age |-> 0]
    BY <1>4 DEF Warn
  <2> QED BY <1>1, <2>1 DEF UpTo
<1> QED BY <1>2, <1>3, <1>4

LEMMA PingKeepsTypes ==
  ASSUME Typed, NEW p, Ping(p)
  PROVE  tasks' \in Seq(Calls) /\ unanswered' \in Nat /\ ping' \in [interval : BOOLEAN, unaccounted : Nat]
<1>1. unanswered' \in Nat
  BY HealthBounds DEF Typed, Ping, UpTo
<1>2. tasks' \in Seq(Calls)
  <2>1. "miss" \in Calls
    BY DEF Calls
  <2> QED BY <2>1, AppendIs DEF Typed, Ping
<1> QED BY <1>1, <1>2 DEF Ping

LEMMA DeliverKeepsTypes ==
  ASSUME Typed, Deliver
  PROVE  Typed'
<1> DEFINE q == Tail(tasks)
<1>1. q \in Seq(Calls) /\ Head(tasks) \in Calls
  BY TailIs DEF Typed, Deliver
<1>2. \A c \in Calls : Append(q, c) \in Seq(Calls)
  BY <1>1, AppendIs
<1>3. "health" \in Calls /\ "poor" \in Calls /\ "good" \in Calls
  BY DEF Calls, Notices
<1>4. ping' = ping /\ unanswered' = unanswered
  BY DEF Deliver
<1> HIDE DEF q
<1>5. CASE Head(tasks) \in Notices /\ Tell
  <2>1. warnings' \in Nat
    BY <1>5, HealthBounds, SMTT(30) DEF Tell, Typed, UpTo
  <2> QED BY <1>1, <1>4, <1>5, <2>1 DEF Tell, Typed, q
<1>6. CASE SkipRemoved
  BY <1>1, <1>4, <1>6 DEF SkipRemoved, Typed, q
<1>7. CASE DidMissPongs
  <2>1. data' = [data EXCEPT !.missed = UpTo(@ + 1, MissedPongs)]
    BY <1>7 DEF DidMissPongs
  <2>2. "missed" \in DOMAIN data' /\ data'.missed \in Nat
    BY <2>1, HealthBounds, SMTT(30) DEF Typed, UpTo
  <2>3. tasks' \in Seq(Calls)
    BY <1>2, <1>3, <1>7 DEF DidMissPongs, q
  <2> QED BY <1>4, <1>7, <2>2, <2>3 DEF DidMissPongs, Typed
<1>8. CASE DidReceivePong
  <2>1. data' = [data EXCEPT !.missed = 0]
    BY <1>8 DEF DidReceivePong
  <2>2. "missed" \in DOMAIN data' /\ data'.missed \in Nat
    BY <2>1 DEF Typed
  <2>3. tasks' \in Seq(Calls)
    BY <1>2, <1>3, <1>8 DEF DidReceivePong, q
  <2> QED BY <1>4, <1>8, <2>2, <2>3 DEF DidReceivePong, Typed
<1>9. CASE ConnectionHealthDidChange
  <2>1. warn' = Warn /\ tasks' = q \o Notice(Warn)
    BY <1>9 DEF ConnectionHealthDidChange, q
  <2>2. warn' \in [health : {0, 1}, count : 0 .. MaxWarnings + 1, age : Nat]
    BY <2>1, WarnIs
  <2>3. Warn.health \in {0, 1}
    BY WarnIs
  <2>4. q \o Notice(Warn) \in {q, Append(q, "poor"), Append(q, "good")}
    BY <1>1, <2>3, ToldOrNot
  <2>5. tasks' \in Seq(Calls)
    BY <1>1, <1>2, <1>3, <2>1, <2>4
  <2> QED BY <1>4, <1>9, <2>2, <2>5 DEF ConnectionHealthDidChange, Typed
<1> QED BY <1>5, <1>6, <1>7, <1>8, <1>9 DEF Deliver

LEMMA StepKeepsTypes == Typed /\ [Next]_vars => Typed'
<1> SUFFICES ASSUME Typed, [Next]_vars PROVE Typed'
  OBVIOUS
<1>1. CASE PingInterval \/ SocketOpens
  <2>1. PICK p : Ping(p)
    BY <1>1 DEF PingInterval, SocketOpens
  <2>2. /\ tasks' \in Seq(Calls) /\ unanswered' \in Nat
        /\ ping' \in [interval : BOOLEAN, unaccounted : Nat]
    BY <2>1, PingKeepsTypes
  <2> QED BY <1>1, <2>2 DEF PingInterval, SocketOpens, Typed
<1>2. CASE ReceivePong
  <2>1. tasks' \in Seq(Calls)
    <3>1. "pong" \in Calls
      BY DEF Calls
    <3> QED BY <1>2, <3>1, AppendIs DEF ReceivePong, Typed
  <2>2. ping' \in [interval : BOOLEAN, unaccounted : Nat]
    BY <1>2 DEF ReceivePong, Typed
  <2> QED BY <1>2, <2>1, <2>2 DEF ReceivePong, Typed
<1>3. CASE SocketCloses \/ Clean
  <2>1. ping' \in [interval : BOOLEAN, unaccounted : Nat]
    <3>1. ping' = [interval |-> FALSE, unaccounted |-> 0]
      BY <1>3 DEF SocketCloses, Clean, NoPing
    <3> QED BY <3>1
  <2>2. UNCHANGED <<tasks, data, warn, unanswered, told, warnings>>
    BY <1>3 DEF SocketCloses, Clean, history
  <2> QED BY <2>1, <2>2 DEF Typed
<1>4. CASE MetricsDidReceive
  <2>1. "health" \in Calls
    BY DEF Calls
  <2>2. tasks' \in Seq(Calls)
    <3>1. tasks' \in {tasks, Append(tasks, "health")}
      BY <1>4 DEF MetricsDidReceive
    <3> QED BY <2>1, <3>1, AppendIs DEF Typed
  <2>3. "missed" \in DOMAIN data' /\ data'.missed = data.missed
    BY <1>4 DEF MetricsDidReceive, Typed
  <2>4. UNCHANGED <<ping, warn, unanswered, told, warnings>>
    BY <1>4 DEF MetricsDidReceive, history
  <2> QED BY <2>2, <2>3, <2>4 DEF Typed
<1>5. CASE ReceiveSignalStrengthChange
  <2>1. tasks' \in Seq(Calls)
    <3>1. "health" \in Calls
      BY DEF Calls
    <3> QED BY <1>5, <3>1, AppendIs DEF ReceiveSignalStrengthChange, Typed
  <2> QED BY <1>5, <2>1 DEF ReceiveSignalStrengthChange, Typed, history
<1>6. CASE Deliver
  BY <1>6, DeliverKeepsTypes
<1>7. CASE Connect
  <2>1. NewWarn \in [health : {0, 1}, count : 0 .. MaxWarnings + 1, age : Nat]
    BY HealthBounds DEF NewWarn
  <2>2. "missed" \in DOMAIN NewData /\ NewData.missed = 0 /\ "good" \in Notices
    BY DEF NewData, Notices
  <2> QED BY <1>7, <2>1, <2>2 DEF Connect, Typed
<1>8. CASE SessionMoves
  <2>1. "missed" \in DOMAIN NewData /\ NewData.missed = 0
    BY DEF NewData
  <2>2. UNCHANGED <<tasks, ping, warn, unanswered, told, warnings>> /\ data' \in {data, NewData}
    BY <1>8, MovingOn
  <2> QED BY <2>1, <2>2 DEF Typed
<1>9. CASE Tick
  <2>1. warn' = [warn EXCEPT !.age = UpTo(@ + 1, CoolDown)]
    BY <1>9 DEF Tick
  <2>2. UpTo(warn.age + 1, CoolDown) \in Nat
    BY HealthBounds, SMTT(30) DEF UpTo, Typed
  <2>3. warn' \in [health : {0, 1}, count : 0 .. MaxWarnings + 1, age : Nat]
    BY <2>1, <2>2 DEF Typed
  <2> QED BY <1>9, <2>3 DEF Tick, Typed, history
<1>10. CASE UNCHANGED vars
  BY <1>10 DEF vars, monitored, history, Typed
<1> QED BY <1>1, <1>2, <1>3, <1>4, <1>5, <1>6, <1>7, <1>8, <1>9, <1>10 DEF Next, SessionMoves

LEMMA InitTyped == Init => Typed
<1> SUFFICES ASSUME Init PROVE Typed
  OBVIOUS
<1>1. NewWarn \in [health : {0, 1}, count : 0 .. MaxWarnings + 1, age : Nat]
  BY HealthBounds DEF NewWarn
<1> QED BY <1>1 DEF Init, Typed, NewData, NoPing, Notices

-----------------------------------------------------------------------------
(* The pongs that are missed.                                               *)

\* What is counted, and what is on its way to be counted: m misses are counted
\* when the calls of q wait.
Due(q, m) == Cardinality(Misses(q)) + (IF HasPong(q) THEN 0 ELSE m)
Silent(due) == due = 0 \/ due < unanswered \/ unanswered = Silence

SilenceInv ==
  /\ stage = "down" => ping = NoPing
  /\ ping.unaccounted > 0 => unanswered > 0
  /\ stage # "down" => Silent(Due(tasks, data.missed))

LEMMA DueIsOutstanding == MissesAreSilence <=> (stage # "down" => Silent(Due(tasks, data.missed)))
BY DEF MissesAreSilence, Outstanding, Silent, Due, Misses, HasPong

LEMMA DueIsNat ==
  ASSUME NEW q \in Seq(Calls), NEW m \in Nat
  PROVE  Due(q, m) \in Nat
BY QueueIs DEF Due

LEMMA DueOfAppend ==
  ASSUME NEW q \in Seq(Calls), NEW c \in Calls, NEW m \in Nat
  PROVE  Due(Append(q, c), m) =
           IF c = "pong" THEN 0 ELSE IF c = "miss" THEN Due(q, m) + 1 ELSE Due(q, m)
<1>1. Cardinality(Misses(q)) \in Nat
  BY QueueIs
<1>2. /\ Cardinality(Misses(Append(q, c))) =
           IF c = "pong" THEN 0
           ELSE IF c = "miss" THEN Cardinality(Misses(q)) + 1 ELSE Cardinality(Misses(q))
      /\ HasPong(Append(q, c)) <=> c = "pong" \/ HasPong(q)
  BY AppendCounts
<1> QED BY <1>1, <1>2 DEF Due

\* Making the first call changes nothing of what is due, or less is.
LEMMA DueOfTail ==
  ASSUME NEW q \in Seq(Calls), q # <<>>, NEW m \in Nat, NEW n \in Nat,
         Head(q) = "miss" => n <= m + 1,
         Head(q) \notin {"miss", "pong"} => n = m,
         Head(q) = "pong" => n = 0
  PROVE  Due(Tail(q), n) <= Due(q, m)
<1>1. Cardinality(Misses(q)) \in Nat /\ Cardinality(Misses(Tail(q))) \in Nat
  BY QueueIs, TailIs
<1>2. /\ Cardinality(Misses(Tail(q))) =
           IF Head(q) = "miss" /\ ~HasPong(Tail(q))
           THEN Cardinality(Misses(q)) - 1 ELSE Cardinality(Misses(q))
      /\ HasPong(q) <=> Head(q) = "pong" \/ HasPong(Tail(q))
  BY TailCounts
<1> QED BY <1>1, <1>2 DEF Due

LEMMA SilentBelow ==
  ASSUME NEW d \in Nat, NEW e \in Nat, e <= d, Silent(d), unanswered \in Nat, unanswered' = unanswered
  PROVE  Silent(e)'
BY DEF Silent

\* A ping makes one more due only when one more went without an answer.
LEMMA PingIsSilent ==
  ASSUME Typed, NEW p \in Nat, p > 0 => unanswered > 0, Ping(p), UNCHANGED data
  PROVE  /\ unanswered' > 0
         /\ Silent(Due(tasks, data.missed)) => Silent(Due(tasks, data.missed))'
<1> DEFINE d == Due(tasks, data.missed)
           e == Due(tasks', data.missed)
<1>1. d \in Nat
  BY DueIsNat DEF Typed
<1>2. e = IF p > 0 THEN d + 1 ELSE d
  <2>1. "miss" \in Calls
    BY DEF Calls
  <2> QED BY <2>1, DueOfAppend DEF Ping, Typed
<1>3. unanswered \in Nat /\ Silence \in Nat /\ Silence > 0
  BY HealthBounds, SMTT(30) DEF Typed
<1>4. unanswered' = IF unanswered + 1 < Silence THEN unanswered + 1 ELSE Silence
  BY DEF Ping, UpTo
<1>5. unanswered' > 0
  BY <1>3, <1>4
<1> HIDE DEF d, e
<1>6. Silent(d) => e = 0 \/ e < unanswered' \/ unanswered' = Silence
  BY <1>1, <1>2, <1>3, <1>4 DEF Silent
<1> QED BY <1>5, <1>6 DEF Silent, d, e

LEMMA DeliverIsSilent ==
  ASSUME Typed, Deliver, stage # "down", Silent(Due(tasks, data.missed))
  PROVE  Silent(Due(tasks, data.missed))'
<1> DEFINE q == Tail(tasks)
           d == Due(tasks, data.missed)
           e == Due(tasks', data.missed')
<1>1. /\ q \in Seq(Calls) /\ tasks \in Seq(Calls) /\ tasks # <<>>
      /\ data.missed \in Nat /\ unanswered \in Nat
  BY TailIs DEF Typed, Deliver
<1>2. d \in Nat /\ unanswered' = unanswered
  BY <1>1, DueIsNat DEF Deliver
<1>3. \A c \in {"health", "poor", "good"} : c \in Calls /\ c \notin {"miss", "pong"}
  BY DEF Calls, Notices
<1>4. \A c \in {"health", "poor", "good"}, m \in Nat : Due(Append(q, c), m) = Due(q, m)
  BY <1>1, <1>3, DueOfAppend
<1>5. e \in Nat /\ e <= d
  <2>1. CASE Head(tasks) \in Notices /\ Tell
    <3>1. tasks' = q /\ data' = data /\ Head(tasks) \notin {"miss", "pong"}
      BY <2>1 DEF Tell, Notices
    <3> QED BY <1>1, <3>1, DueOfTail, DueIsNat
  <2>2. CASE Head(tasks) = "miss" /\ DidMissPongs
    <3>1. tasks' = Append(q, "health") /\ data'.missed = UpTo(data.missed + 1, MissedPongs)
      BY <2>2 DEF DidMissPongs, Typed
    <3>2. data'.missed \in Nat /\ data'.missed <= data.missed + 1
      BY <1>1, <3>1, HealthBounds DEF UpTo
    <3>3. e = Due(q, data'.missed)
      BY <1>4, <3>1, <3>2
    <3> QED BY <1>1, <2>2, <3>2, <3>3, DueOfTail, DueIsNat
  <2>3. CASE Head(tasks) = "pong" /\ DidReceivePong
    <3>1. tasks' = Append(q, "health") /\ data'.missed = 0
      BY <2>3 DEF DidReceivePong, Typed
    <3>2. e = Due(q, 0)
      BY <1>4, <3>1
    <3> QED BY <1>1, <2>3, <3>2, DueOfTail, DueIsNat
  <2>4. CASE Head(tasks) = "health" /\ ConnectionHealthDidChange
    <3>1. tasks' = q \o Notice(Warn) /\ data' = data
      BY <2>4 DEF ConnectionHealthDidChange
    <3>2. Warn.health \in {0, 1}
      BY WarnIs
    <3>3. tasks' \in {q, Append(q, "poor"), Append(q, "good")}
      BY <1>1, <3>1, <3>2, ToldOrNot
    <3>4. e = Due(q, data.missed)
      BY <1>1, <1>4, <3>1, <3>3
    <3> QED BY <1>1, <2>4, <3>4, DueOfTail, DueIsNat
  <2> QED BY <2>1, <2>2, <2>3, <2>4 DEF Deliver
<1> HIDE DEF d, e
<1> QED BY <1>1, <1>2, <1>5, SilentBelow DEF d, e

LEMMA StepKeepsSilence == Typed /\ SilenceInv /\ [Next]_vars => SilenceInv'
<1> SUFFICES ASSUME Typed, SilenceInv, [Next]_vars PROVE SilenceInv'
  OBVIOUS
<1>1. CASE PingInterval \/ SocketOpens
  <2>1. Ping(ping.unaccounted) /\ UNCHANGED data
    BY <1>1 DEF PingInterval, SocketOpens
  <2>2. ping.unaccounted \in Nat
    BY DEF Typed
  <2>3. stage # "down" /\ stage' = stage
    BY <1>1 DEF PingInterval, SocketOpens, SilenceInv, NoPing
  <2> QED BY <2>1, <2>2, <2>3, PingIsSilent DEF SilenceInv
<1>2. CASE ReceivePong
  <2>1. "pong" \in Calls /\ tasks \in Seq(Calls) /\ data.missed \in Nat
    BY DEF Typed, Calls
  <2>2. Due(tasks', data.missed) = 0
    BY <1>2, <2>1, DueOfAppend DEF ReceivePong
  <2>3. stage # "down" /\ stage' = stage /\ data' = data /\ ping'.unaccounted = 0
    BY <1>2 DEF ReceivePong, SilenceInv, NoPing, Typed
  <2> QED BY <2>2, <2>3 DEF SilenceInv, Silent
<1>3. CASE SocketCloses \/ Clean
  <2>1. ping' = NoPing /\ UNCHANGED <<tasks, data, unanswered>>
    BY <1>3 DEF SocketCloses, Clean, history
  <2>2. stage' # "down" => stage # "down"
    BY <1>3 DEF SocketCloses, Clean
  <2>3. NoPing.unaccounted = 0
    BY DEF NoPing
  <2> QED BY <2>1, <2>2, <2>3 DEF SilenceInv, Silent
<1>4. CASE MetricsDidReceive \/ ReceiveSignalStrengthChange
  <2>1. /\ tasks' \in {tasks, Append(tasks, "health")} /\ data'.missed = data.missed
        /\ UNCHANGED <<stage, ping, unanswered>>
    BY <1>4 DEF MetricsDidReceive, ReceiveSignalStrengthChange, history, Typed
  <2>2. "health" \in Calls /\ tasks \in Seq(Calls) /\ data.missed \in Nat
    BY DEF Typed, Calls
  <2>3. Due(tasks', data.missed) = Due(tasks, data.missed)
    BY <2>1, <2>2, DueOfAppend, ZenonT(30)
  <2> QED BY <2>1, <2>3 DEF SilenceInv, Silent
<1>5. CASE Deliver
  <2>1. UNCHANGED <<stage, ping, unanswered>>
    BY <1>5 DEF Deliver
  <2> QED BY <1>5, <2>1, DeliverIsSilent DEF SilenceInv
<1>6. CASE Connect
  <2>1. tasks' = <<>> /\ data'.missed = 0 /\ UNCHANGED ping /\ unanswered' = 0
    BY <1>6 DEF Connect, NewData
  <2>2. Due(<<>>, 0) = 0
    BY FS_EmptySet DEF Due, Misses, HasPong
  <2>3. ping = NoPing /\ NoPing.unaccounted = 0 /\ stage' # "down"
    BY <1>6 DEF Connect, SilenceInv, NoPing
  <2> QED BY <2>1, <2>2, <2>3 DEF SilenceInv, Silent
<1>7. CASE SessionMoves
  <2>1. /\ UNCHANGED <<tasks, ping, unanswered>> /\ stage # "down" /\ stage' # "down"
        /\ data' = data \/ data'.missed = 0
    BY <1>7, MovingOn DEF NewData
  <2>2. Due(tasks, 0) \in Nat /\ Due(tasks, data.missed) \in Nat /\ Due(tasks, 0) <= Due(tasks, data.missed)
    BY QueueIs DEF Typed, Due
  <2>3. unanswered \in Nat
    BY DEF Typed
  <2>4. CASE data' = data
    BY <2>1, <2>4 DEF SilenceInv, Silent
  <2>5. CASE data'.missed = 0
    <3>1. Silent(Due(tasks, 0))'
      BY <2>1, <2>2, <2>3, SilentBelow DEF SilenceInv, Silent
    <3> QED BY <2>1, <2>5, <3>1 DEF SilenceInv
  <2> QED BY <2>1, <2>4, <2>5
<1>8. CASE Tick
  <2>1. UNCHANGED <<tasks, ping, unanswered, data, stage>>
    BY <1>8 DEF Tick, history
  <2> QED BY <2>1 DEF SilenceInv, Silent
<1>9. CASE UNCHANGED vars
  <2>1. UNCHANGED <<tasks, ping, unanswered, data, stage>>
    BY <1>9 DEF vars, history, monitored
  <2> QED BY <2>1 DEF SilenceInv, Silent
<1> QED BY <1>1, <1>2, <1>3, <1>4, <1>5, <1>6, <1>7, <1>8, <1>9 DEF Next, SessionMoves

-----------------------------------------------------------------------------
(* The warnings.                                                            *)

\* The policy has counted every warning that was given or waits, and stops at
\* the limit.
WarnInv ==
  /\ warnings + Cardinality(Poors(tasks)) <= warn.count
  /\ warnings + Cardinality(Poors(tasks)) <= MaxWarnings

LEMMA WarnInvIsSparing == WarnInv => WarnedSparingly
BY DEF WarnInv, WarnedSparingly, Poors

\* Nothing is added but calls of other kinds.
LEMMA NoWarning ==
  ASSUME Typed, WarnInv, UNCHANGED warnings, warn'.count = warn.count,
         \/ tasks' = tasks
         \/ \E c \in Calls \ {"poor"} : tasks' = Append(tasks, c)
  PROVE  WarnInv'
<1>1. Cardinality(Poors(tasks)) = Cardinality(Poors(tasks'))
  <2>1. ASSUME NEW c \in Calls \ {"poor"}, tasks' = Append(tasks, c)
        PROVE  Cardinality(Poors(tasks)) = Cardinality(Poors(tasks'))
    <3>1. Cardinality(Poors(Append(tasks, c))) = Cardinality(Poors(tasks))
      BY AppendCounts DEF Typed
    <3> QED BY <2>1, <3>1
  <2> QED BY <2>1
<1> QED BY <1>1 DEF WarnInv

LEMMA DeliverWarns ==
  ASSUME Typed, WarnInv, Deliver
  PROVE  WarnInv'
<1> DEFINE q == Tail(tasks)
           k == Cardinality(Poors(tasks))
<1>1. /\ q \in Seq(Calls) /\ tasks \in Seq(Calls) /\ tasks # <<>>
      /\ Cardinality(Poors(q)) = IF Head(tasks) = "poor" THEN k - 1 ELSE k
  BY TailIs, TailCounts DEF Typed, Deliver
<1>2. /\ k \in Nat /\ warnings \in Nat /\ warn.count \in Nat /\ MaxWarnings \in Nat
      /\ warnings + k <= warn.count /\ warnings + k <= MaxWarnings
  BY <1>1, QueueIs, HealthBounds DEF WarnInv, Typed
<1>3. \A c \in {"health", "good", "poor"} :
        Cardinality(Poors(Append(q, c))) =
          IF c = "poor" THEN Cardinality(Poors(q)) + 1 ELSE Cardinality(Poors(q))
  <2>1. {"health", "good", "poor"} \subseteq Calls
    BY DEF Calls, Notices
  <2> QED BY <1>1, <2>1, AppendCounts
<1> HIDE DEF k, q
<1>4. CASE Tell
  <2>1. /\ tasks' = q /\ UNCHANGED warn
        /\ warnings' = IF Head(tasks) = "poor" THEN UpTo(warnings + 1, MaxWarnings + 1) ELSE warnings
    BY <1>4 DEF Tell, q
  <2>2. warnings' + Cardinality(Poors(q)) <= warnings + k
    BY <1>1, <1>2, <2>1 DEF UpTo
  <2>3. warnings' + Cardinality(Poors(q)) \in Nat
    BY <1>1, <1>2, <2>1, QueueIs DEF UpTo
  <2> QED BY <1>2, <2>1, <2>2, <2>3 DEF WarnInv
<1>5. CASE Head(tasks) \notin Notices /\ (SkipRemoved \/ DidMissPongs \/ DidReceivePong)
  <2>1. tasks' \in {q, Append(q, "health")} /\ UNCHANGED <<warn, warnings>>
    BY <1>5 DEF SkipRemoved, DidMissPongs, DidReceivePong, q
  <2>2. Cardinality(Poors(q)) = k
    BY <1>1, <1>5 DEF Notices
  <2>3. Cardinality(Poors(tasks')) = k
    BY <1>3, <2>1, <2>2
  <2> QED BY <1>2, <2>1, <2>3 DEF WarnInv
<1>6. CASE Head(tasks) = "health" /\ ConnectionHealthDidChange
  <2>1. tasks' = q \o Notice(Warn) /\ UNCHANGED warnings /\ warn' = Warn
    BY <1>6 DEF ConnectionHealthDidChange, q
  <2>2. /\ Warn.health \in {0, 1} /\ Warn.count \in Nat /\ warn.count <= Warn.count
        /\ Warn.health = 0 /\ warn.health = 1 =>
             warn.count + 1 <= MaxWarnings /\ Warn.count = warn.count + 1
    BY WarnIs
  <2>3. \/ q \o Notice(Warn) \in {q, Append(q, "good")}
        \/ Warn.health = 0 /\ warn.health = 1 /\ q \o Notice(Warn) = Append(q, "poor")
    BY <1>1, <2>2, ToldOrNot
  <2>4. \/ Cardinality(Poors(tasks')) = k
        \/ Warn.health = 0 /\ warn.health = 1 /\ Cardinality(Poors(tasks')) = k + 1
    BY <1>1, <1>3, <1>6, <2>1, <2>3
  <2>5. warnings + Cardinality(Poors(tasks')) <= Warn.count
        /\ warnings + Cardinality(Poors(tasks')) <= MaxWarnings
    BY <1>2, <2>2, <2>4
  <2>6. warnings' = warnings /\ warn'.count = Warn.count
    BY <2>1
  <2> QED BY <2>5, <2>6 DEF WarnInv
<1> QED BY <1>4, <1>5, <1>6 DEF Deliver, Notices

LEMMA StepKeepsWarnings == Typed /\ WarnInv /\ [Next]_vars => WarnInv'
<1> SUFFICES ASSUME Typed, WarnInv, [Next]_vars PROVE WarnInv'
  OBVIOUS
<1>1. {"miss", "pong", "health"} \subseteq Calls \ {"poor"}
  BY DEF Calls
<1>2. CASE PingInterval \/ SocketOpens \/ ReceivePong \/ MetricsDidReceive \/ ReceiveSignalStrengthChange
  <2>1. UNCHANGED <<warnings, warn>>
    BY <1>2 DEF PingInterval, SocketOpens, ReceivePong, MetricsDidReceive,
                ReceiveSignalStrengthChange, history
  <2>2. tasks' = tasks \/ \E c \in {"miss", "pong", "health"} : tasks' = Append(tasks, c)
    BY <1>2 DEF PingInterval, SocketOpens, ReceivePong, MetricsDidReceive,
                ReceiveSignalStrengthChange, Ping
  <2>3. tasks' = tasks \/ \E c \in Calls \ {"poor"} : tasks' = Append(tasks, c)
    BY <1>1, <2>2
  <2>4. warn'.count = warn.count /\ UNCHANGED warnings
    BY <2>1
  <2> QED BY <2>3, <2>4, NoWarning
<1>3. CASE Deliver
  BY <1>3, DeliverWarns
<1>4. CASE Connect
  <2>1. tasks' = <<>> /\ warnings' = 0 /\ warn'.count = 0
    BY <1>4 DEF Connect, NewWarn
  <2>2. Poors(<<>>) = {} /\ MaxWarnings \in Nat
    BY HealthBounds DEF Poors
  <2>3. Cardinality(Poors(tasks')) = 0
    BY <2>1, <2>2, FS_EmptySet
  <2> QED BY <2>1, <2>2, <2>3 DEF WarnInv
<1>5. CASE Tick
  <2>1. UNCHANGED <<warnings, tasks>> /\ warn'.count = warn.count
    BY <1>5 DEF Tick, history, Typed
  <2> QED BY <2>1, NoWarning
<1>6. CASE SocketCloses \/ Clean \/ SessionMoves
  <2>1. UNCHANGED <<warnings, tasks, warn>>
    BY <1>6, MovingOn DEF SocketCloses, Clean, history
  <2> QED BY <2>1, NoWarning
<1>7. CASE UNCHANGED vars
  <2>1. UNCHANGED <<warnings, tasks, warn>>
    BY <1>7 DEF vars, history, monitored
  <2> QED BY <2>1, NoWarning
<1> QED BY <1>2, <1>3, <1>4, <1>5, <1>6, <1>7 DEF Next, SessionMoves

-----------------------------------------------------------------------------
(* What the application hears.                                              *)

Alternates(h) ==
  \A i, j \in DOMAIN h :
    i < j /\ h[i] = h[j] /\ h[i] \in Notices => \E k \in i + 1 .. j - 1 : h[k] \in Notices
EndsWith(h, c) ==
  \E i \in DOMAIN h : h[i] = c /\ \A k \in i + 1 .. Len(h) : h[k] \notin Notices
Says(health) == IF health = 1 THEN "good" ELSE "poor"

NoticeInv ==
  /\ Alternates(<<told>> \o tasks)
  /\ stage # "down" => EndsWith(<<told>> \o tasks, Says(warn.health))

LEMMA NoticesAreThese == NoticesAlternate <=> NoticeInv
BY DEF NoticesAlternate, NoticeInv, Heard, Alternates, EndsWith, Says

LEMMA HeardIs ==
  ASSUME NEW t \in Calls, NEW q \in Seq(Calls)
  PROVE  LET h == <<t>> \o q
         IN  /\ h \in Seq(Calls) /\ Len(q) \in Nat /\ Len(h) = Len(q) + 1
             /\ DOMAIN h = 1 .. Len(q) + 1
             /\ h[1] = t /\ \A i \in 1 .. Len(q) : h[i + 1] = q[i]
<1>1. <<t>> \in Seq(Calls) /\ Len(<<t>>) = 1 /\ <<t>>[1] = t /\ Len(q) \in Nat
  BY LenProperties
<1>2. /\ <<t>> \o q \in Seq(Calls) /\ Len(<<t>> \o q) = 1 + Len(q)
      /\ \A i \in 1 .. 1 + Len(q) : (<<t>> \o q)[i] = IF i <= 1 THEN <<t>>[i] ELSE q[i - 1]
  BY <1>1, ConcatProperties
<1>3. DOMAIN (<<t>> \o q) = 1 .. Len(q) + 1
  BY <1>1, <1>2, LenProperties
<1>4. \A i \in 1 .. Len(q) : i + 1 \in 1 .. 1 + Len(q) /\ ~(i + 1 <= 1) /\ (i + 1) - 1 = i
  BY <1>1
<1>5. 1 \in 1 .. 1 + Len(q) /\ 1 <= 1
  BY <1>1
<1> QED BY <1>1, <1>2, <1>3, <1>4, <1>5

\* r is h with c behind it.
Longer(h, r, c) ==
  /\ Len(h) \in Nat /\ DOMAIN h = 1 .. Len(h)
  /\ Len(r) = Len(h) + 1 /\ DOMAIN r = 1 .. Len(h) + 1
  /\ r[Len(h) + 1] = c /\ \A i \in 1 .. Len(h) : r[i] = h[i]

LEMMA HeardIsLonger ==
  ASSUME NEW t \in Calls, NEW q \in Seq(Calls), NEW c \in Calls
  PROVE  Longer(<<t>> \o q, <<t>> \o Append(q, c), c)
<1> DEFINE h == <<t>> \o q  a == Append(q, c)  r == <<t>> \o a
<1>1. /\ a \in Seq(Calls) /\ Len(a) = Len(q) + 1 /\ a[Len(q) + 1] = c /\ Len(q) \in Nat
      /\ \A i \in 1 .. Len(q) : a[i] = q[i]
  BY AppendIs, QueueIs
<1> HIDE DEF a
<1>2. /\ Len(h) = Len(q) + 1 /\ DOMAIN h = 1 .. Len(h) /\ h[1] = t
      /\ \A i \in 1 .. Len(q) : h[i + 1] = q[i]
  BY HeardIs
<1>3. /\ Len(r) = Len(a) + 1 /\ DOMAIN r = 1 .. Len(r) /\ r[1] = t
      /\ \A i \in 1 .. Len(a) : r[i + 1] = a[i]
  BY <1>1, HeardIs
<1> HIDE DEF h, r
<1>4. ASSUME NEW i \in 1 .. Len(h) PROVE r[i] = h[i]
  <2>1. CASE i = 1
    BY <1>2, <1>3, <2>1
  <2>2. CASE i # 1
    <3>1. i - 1 \in 1 .. Len(q) /\ i - 1 \in 1 .. Len(a) /\ (i - 1) + 1 = i
      BY <1>1, <1>2, <2>2
    <3> QED BY <1>1, <1>2, <1>3, <3>1
  <2> QED BY <2>1, <2>2
<1>5. Len(q) + 1 \in 1 .. Len(a)
  BY <1>1
<1>6. r[Len(h) + 1] = c
  BY <1>1, <1>2, <1>3, <1>5
<1> QED BY <1>1, <1>2, <1>3, <1>4, <1>6 DEF Longer, h, r, a

LEMMA OtherCallAdded ==
  ASSUME NEW h, NEW r, NEW c, Longer(h, r, c), c \notin Notices
  PROVE  /\ Alternates(h) => Alternates(r)
         /\ \A x \in Notices : EndsWith(h, x) => EndsWith(r, x)
<1>1. ASSUME Alternates(h), NEW i \in DOMAIN r, NEW j \in DOMAIN r,
             i < j, r[i] = r[j], r[i] \in Notices
      PROVE  \E k \in i + 1 .. j - 1 : r[k] \in Notices
  <2>1. i \in 1 .. Len(h) /\ j \in 1 .. Len(h) /\ h[i] = h[j] /\ h[i] \in Notices
    BY <1>1 DEF Longer
  <2>2. PICK k \in i + 1 .. j - 1 : h[k] \in Notices
    BY <1>1, <2>1 DEF Alternates, Longer
  <2>3. k \in 1 .. Len(h)
    BY <2>1, <2>2 DEF Longer
  <2> QED BY <2>2, <2>3 DEF Longer
<1>2. ASSUME NEW x \in Notices, EndsWith(h, x) PROVE EndsWith(r, x)
  <2>1. PICK i \in 1 .. Len(h) : h[i] = x /\ \A k \in i + 1 .. Len(h) : h[k] \notin Notices
    BY <1>2 DEF EndsWith, Longer
  <2>2. i \in DOMAIN r /\ r[i] = x
    BY <2>1 DEF Longer
  <2>3. ASSUME NEW k \in i + 1 .. Len(r) PROVE r[k] \notin Notices
    <3>1. k = Len(h) + 1 \/ (k \in i + 1 .. Len(h) /\ k \in 1 .. Len(h))
      BY <2>1, <2>3 DEF Longer
    <3> QED BY <2>1, <3>1 DEF Longer
  <2> QED BY <2>2, <2>3 DEF EndsWith
<1> QED BY <1>1, <1>2 DEF Alternates

LEMMA NoticeAdded ==
  ASSUME NEW h, NEW r, NEW c \in Notices, NEW x \in Notices \ {c},
         Longer(h, r, c), Alternates(h), EndsWith(h, x)
  PROVE  Alternates(r) /\ EndsWith(r, c)
<1>1. PICK l \in 1 .. Len(h) : h[l] = x /\ \A k \in l + 1 .. Len(h) : h[k] \notin Notices
  BY DEF EndsWith, Longer
<1>2. ASSUME NEW i \in DOMAIN r, NEW j \in DOMAIN r, i < j, r[i] = r[j], r[i] \in Notices
      PROVE  \E k \in i + 1 .. j - 1 : r[k] \in Notices
  <2>1. CASE j # Len(h) + 1
    <3>1. i \in 1 .. Len(h) /\ j \in 1 .. Len(h) /\ h[i] = h[j] /\ h[i] \in Notices
      BY <1>2, <2>1 DEF Longer
    <3>2. PICK k \in i + 1 .. j - 1 : h[k] \in Notices
      BY <1>2, <3>1 DEF Alternates, Longer
    <3>3. k \in 1 .. Len(h)
      BY <3>1, <3>2 DEF Longer
    <3> QED BY <3>2, <3>3 DEF Longer
  <2>2. CASE j = Len(h) + 1
    <3>1. r[i] = c /\ i \in 1 .. Len(h) /\ h[i] = c
      BY <1>2, <2>2 DEF Longer
    <3>2. i < l
      <4>1. ~(i \in l + 1 .. Len(h)) /\ i # l
        BY <1>1, <3>1
      <4> QED BY <1>1, <3>1, <4>1 DEF Longer
    <3>3. l \in i + 1 .. j - 1 /\ r[l] = x
      BY <1>1, <2>2, <3>1, <3>2 DEF Longer
    <3> QED BY <3>3
  <2> QED BY <2>1, <2>2
<1>3. EndsWith(r, c)
  <2>1. Len(h) + 1 \in DOMAIN r /\ r[Len(h) + 1] = c
        /\ \A k \in Len(h) + 2 .. Len(r) : r[k] \notin Notices
    BY DEF Longer
  <2>2. (Len(h) + 1) + 1 = Len(h) + 2
    BY DEF Longer
  <2> QED BY <2>1, <2>2 DEF EndsWith
<1> QED BY <1>2, <1>3 DEF Alternates

\* The call at the second position is made, and says nothing to the application.
LEMMA OtherCallMade ==
  ASSUME NEW t \in Calls, NEW q \in Seq(Calls), q # <<>>, Head(q) \notin Notices
  PROVE  LET h == <<t>> \o q  r == <<t>> \o Tail(q)
         IN  /\ Alternates(h) => Alternates(r)
             /\ \A x \in Notices : EndsWith(h, x) => EndsWith(r, x)
<1> DEFINE h == <<t>> \o q  r == <<t>> \o Tail(q)  n == Len(q)
<1>1. n \in Nat \ {0} /\ Tail(q) \in Seq(Calls) /\ Len(Tail(q)) = n - 1 /\ Head(q) = q[1]
      /\ \A i \in 1 .. n - 1 : Tail(q)[i] = q[i + 1]
  BY TailIs
<1>2. Len(h) = n + 1 /\ DOMAIN h = 1 .. n + 1 /\ h[1] = t /\ \A i \in 1 .. n : h[i + 1] = q[i]
  BY HeardIs
<1>3. Len(r) = n /\ DOMAIN r = 1 .. n /\ r[1] = t /\ \A i \in 1 .. n - 1 : r[i + 1] = Tail(q)[i]
  BY <1>1, HeardIs
<1> HIDE DEF h, r, n
<1>4. h[2] \notin Notices
  <2>1. 1 \in 1 .. n /\ 1 + 1 = 2
    BY <1>1
  <2> QED BY <1>1, <1>2, <2>1
<1>5. ASSUME NEW i \in 2 .. n PROVE r[i] = h[i + 1]
  <2>1. i - 1 \in 1 .. n - 1 /\ (i - 1) + 1 = i /\ i \in 1 .. n
    BY <1>1
  <2>2. r[(i - 1) + 1] = Tail(q)[i - 1] /\ Tail(q)[i - 1] = q[(i - 1) + 1] /\ h[i + 1] = q[i]
    BY <1>1, <1>2, <1>3, <2>1
  <2> QED BY <2>1, <2>2
<1> DEFINE at(i) == IF i = 1 THEN 1 ELSE i + 1
<1>6. \A i \in 1 .. n : at(i) \in 1 .. n + 1 /\ r[i] = h[at(i)]
  BY <1>1, <1>2, <1>3, <1>5
\* What lies in between in h does in r, but for the call that was made.
<1>7. ASSUME NEW i \in 1 .. n, NEW k \in at(i) + 1 .. n + 1, h[k] \in Notices
      PROVE  k - 1 \in i + 1 .. n /\ k - 1 \in 1 .. n /\ at(k - 1) = k /\ r[k - 1] \in Notices
  <2>1. k # 2
    BY <1>4, <1>7
  <2>2. k - 1 \in i + 1 .. n /\ k - 1 \in 1 .. n /\ k - 1 # 1
    BY <1>1, <1>7, <2>1
  <2> QED BY <1>6, <1>7, <2>2
<1>8. ASSUME Alternates(h), NEW i \in 1 .. n, NEW j \in 1 .. n, i < j, r[i] = r[j], r[i] \in Notices
      PROVE  \E k \in i + 1 .. j - 1 : r[k] \in Notices
  <2>1. at(i) < at(j) /\ at(j) = j + 1
    BY <1>8
  <2>2. PICK k \in at(i) + 1 .. at(j) - 1 : h[k] \in Notices
    BY <1>2, <1>6, <1>8, <2>1 DEF Alternates
  <2>3. k \in at(i) + 1 .. n + 1
    BY <1>1, <1>8, <2>1, <2>2
  <2>4. k - 1 \in i + 1 .. n /\ r[k - 1] \in Notices
    BY <1>7, <2>2, <2>3
  <2>5. k - 1 \in i + 1 .. j - 1
    BY <1>8, <2>1, <2>2, <2>4
  <2> QED BY <2>4, <2>5
<1>9. ASSUME NEW x \in Notices, EndsWith(h, x) PROVE EndsWith(r, x)
  <2>1. PICK i \in 1 .. n + 1 : h[i] = x /\ \A k \in i + 1 .. n + 1 : h[k] \notin Notices
    BY <1>2, <1>9 DEF EndsWith
  <2>2. i # 2
    BY <1>4, <2>1
  <2>3. PICK l \in 1 .. n : at(l) = i
    <3>1. CASE i = 1
      <4>1. 1 \in 1 .. n
        BY <1>1
      <4> QED BY <3>1, <4>1
    <3>2. CASE i # 1
      <4>1. i - 1 \in 1 .. n /\ at(i - 1) = i
        BY <1>1, <2>2, <3>2
      <4> QED BY <4>1
    <3> QED BY <3>1, <3>2
  <2>4. ASSUME NEW k \in l + 1 .. n PROVE r[k] \notin Notices
    <3>1. k \in 2 .. n /\ k + 1 \in i + 1 .. n + 1
      BY <1>1, <2>3, <2>4
    <3> QED BY <1>5, <2>1, <3>1
  <2> QED BY <1>3, <1>6, <2>1, <2>3, <2>4 DEF EndsWith
<1>10. Alternates(h) => Alternates(r)
  BY <1>3, <1>8 DEF Alternates
<1> QED BY <1>9, <1>10 DEF h, r

\* A notice is told: what was told before is forgotten.
LEMMA NoticeMade ==
  ASSUME NEW t \in Calls, NEW q \in Seq(Calls), q # <<>>, Head(q) \in Notices
  PROVE  LET h == <<t>> \o q  r == <<Head(q)>> \o Tail(q)
         IN  /\ Alternates(h) => Alternates(r)
             /\ \A x \in Notices : EndsWith(h, x) => EndsWith(r, x)
<1> DEFINE h == <<t>> \o q  r == <<Head(q)>> \o Tail(q)  n == Len(q)
<1>1. n \in Nat \ {0} /\ Tail(q) \in Seq(Calls) /\ Len(Tail(q)) = n - 1 /\ Head(q) = q[1]
      /\ Head(q) \in Calls /\ \A i \in 1 .. n - 1 : Tail(q)[i] = q[i + 1]
  BY TailIs
<1>2. Len(h) = n + 1 /\ DOMAIN h = 1 .. n + 1 /\ \A i \in 1 .. n : h[i + 1] = q[i]
  BY HeardIs
<1>3. Len(r) = n /\ DOMAIN r = 1 .. n /\ r[1] = q[1] /\ \A i \in 1 .. n - 1 : r[i + 1] = Tail(q)[i]
  BY <1>1, HeardIs
<1> HIDE DEF h, r, n
<1>4. ASSUME NEW i \in 1 .. n PROVE r[i] = h[i + 1]
  <2>1. CASE i = 1
    BY <1>1, <1>2, <1>3, <2>1
  <2>2. CASE i # 1
    <3>1. i - 1 \in 1 .. n - 1 /\ (i - 1) + 1 = i
      BY <1>1, <2>2
    <3>2. r[(i - 1) + 1] = Tail(q)[i - 1] /\ Tail(q)[i - 1] = q[(i - 1) + 1] /\ h[i + 1] = q[i]
      BY <1>1, <1>2, <1>3, <3>1
    <3> QED BY <3>1, <3>2
  <2> QED BY <2>1, <2>2
<1>5. h[2] \in Notices
  <2>1. 1 \in 1 .. n /\ 1 + 1 = 2
    BY <1>1
  <2> QED BY <1>1, <1>2, <2>1
<1>6. ASSUME Alternates(h), NEW i \in 1 .. n, NEW j \in 1 .. n, i < j, r[i] = r[j], r[i] \in Notices
      PROVE  \E k \in i + 1 .. j - 1 : r[k] \in Notices
  <2>1. /\ i + 1 \in 1 .. n + 1 /\ j + 1 \in 1 .. n + 1 /\ i + 1 < j + 1
        /\ h[i + 1] = h[j + 1] /\ h[i + 1] \in Notices
    BY <1>1, <1>4, <1>6
  <2>2. PICK k \in (i + 1) + 1 .. (j + 1) - 1 : h[k] \in Notices
    BY <1>2, <1>6, <2>1 DEF Alternates
  <2>3. k - 1 \in i + 1 .. j - 1 /\ k - 1 \in 1 .. n /\ (k - 1) + 1 = k
    BY <1>1, <1>6, <2>2
  <2> QED BY <1>4, <2>2, <2>3
<1>7. ASSUME NEW x \in Notices, EndsWith(h, x) PROVE EndsWith(r, x)
  <2>1. PICK i \in 1 .. n + 1 : h[i] = x /\ \A k \in i + 1 .. n + 1 : h[k] \notin Notices
    BY <1>2, <1>7 DEF EndsWith
  <2>2. i # 1
    <3>1. i = 1 => 2 \in i + 1 .. n + 1
      BY <1>1
    <3> QED BY <1>5, <2>1, <3>1
  <2>3. i - 1 \in 1 .. n /\ (i - 1) + 1 = i
    BY <1>1, <2>1, <2>2
  <2>4. ASSUME NEW k \in (i - 1) + 1 .. n PROVE r[k] \notin Notices
    <3>1. k \in 1 .. n /\ k + 1 \in i + 1 .. n + 1
      BY <1>1, <2>3, <2>4
    <3> QED BY <1>4, <2>1, <3>1
  <2> QED BY <1>3, <1>4, <2>1, <2>3, <2>4 DEF EndsWith
<1>8. Alternates(h) => Alternates(r)
  BY <1>3, <1>6 DEF Alternates
<1> QED BY <1>7, <1>8 DEF h, r

\* A call that is no notice joins the queue, and the policy keeps its health.
LEMMA NoNotice ==
  ASSUME Typed, NoticeInv, UNCHANGED told, warn'.health = warn.health,
         stage' # "down" => stage # "down",
         \/ tasks' = tasks
         \/ \E c \in Calls \ Notices : tasks' = Append(tasks, c)
  PROVE  NoticeInv'
<1>1. told \in Calls /\ tasks \in Seq(Calls)
  BY DEF Typed, Calls
<1>2. Says(warn.health) \in Notices
  BY DEF Says, Notices
<1>3. ASSUME NEW c \in Calls \ Notices, tasks' = Append(tasks, c)
      PROVE  NoticeInv'
  <2>1. Longer(<<told>> \o tasks, <<told>> \o tasks', c)
    BY <1>1, <1>3, HeardIsLonger
  <2>2. /\ Alternates(<<told>> \o tasks')
        /\ stage # "down" => EndsWith(<<told>> \o tasks', Says(warn.health))
    BY <1>2, <2>1, OtherCallAdded DEF NoticeInv
  <2> QED BY <2>2 DEF NoticeInv
<1>4. CASE tasks' = tasks
  BY <1>4 DEF NoticeInv
<1> QED BY <1>3, <1>4

LEMMA DeliverAlternates ==
  ASSUME Typed, NoticeInv, Deliver
  PROVE  NoticeInv'
<1> DEFINE q == Tail(tasks)
           x == Says(warn.health)
<1>1. /\ q \in Seq(Calls) /\ tasks \in Seq(Calls) /\ tasks # <<>> /\ stage' = stage
      /\ told \in Calls
  BY TailIs DEF Typed, Deliver, Calls
<1>2. x \in Notices
  BY DEF Says, Notices
<1>3. ASSUME Head(tasks) \notin Notices
      PROVE  /\ Alternates(<<told>> \o q)
             /\ stage # "down" => EndsWith(<<told>> \o q, x)
  BY <1>1, <1>2, <1>3, OtherCallMade DEF NoticeInv
<1>4. \A c \in Calls : Longer(<<told>> \o q, <<told>> \o Append(q, c), c)
  BY <1>1, HeardIsLonger
<1>5. "health" \in Calls \ Notices /\ "poor" \in Notices /\ "good" \in Notices /\ Notices \subseteq Calls
  BY DEF Calls, Notices
<1>6. CASE Head(tasks) \in Notices /\ Tell
  <2>1. tasks' = q /\ told' = Head(tasks) /\ warn' = warn
    BY <1>6 DEF Tell
  <2>2. /\ Alternates(<<Head(tasks)>> \o q)
        /\ stage # "down" => EndsWith(<<Head(tasks)>> \o q, x)
    BY <1>1, <1>2, <1>6, NoticeMade DEF NoticeInv
  <2> QED BY <1>1, <2>1, <2>2 DEF NoticeInv
<1>7. CASE Head(tasks) \notin Notices /\ (SkipRemoved \/ DidMissPongs \/ DidReceivePong)
  <2>1. tasks' \in {q, Append(q, "health")} /\ UNCHANGED <<told, warn>>
    BY <1>7 DEF SkipRemoved, DidMissPongs, DidReceivePong
  <2>2. /\ Alternates(<<told>> \o Append(q, "health"))
        /\ stage # "down" => EndsWith(<<told>> \o Append(q, "health"), x)
    BY <1>2, <1>3, <1>4, <1>5, <1>7, OtherCallAdded
  <2> HIDE DEF q
  <2> QED BY <1>1, <1>3, <1>7, <2>1, <2>2 DEF NoticeInv
<1>8. CASE Head(tasks) = "health" /\ stage # "down" /\ ConnectionHealthDidChange
  <2>1. tasks' = q \o Notice(Warn) /\ told' = told /\ warn' = Warn
    BY <1>8 DEF ConnectionHealthDidChange
  <2>2. Warn.health \in {0, 1}
    BY WarnIs
  <2>3. Alternates(<<told>> \o q) /\ EndsWith(<<told>> \o q, x)
    BY <1>3, <1>5, <1>8
  <2>4. \/ Warn.health = warn.health /\ q \o Notice(Warn) = q
        \/ Warn.health = 0 /\ warn.health = 1 /\ q \o Notice(Warn) = Append(q, "poor")
        \/ Warn.health = 1 /\ warn.health = 0 /\ q \o Notice(Warn) = Append(q, "good")
    BY <1>1, <2>2, ToldOrNot
  <2>5. CASE warn'.health = warn.health /\ tasks' = q
    BY <2>1, <2>3, <2>5 DEF NoticeInv
  <2>6. CASE warn'.health = 0 /\ warn.health = 1 /\ tasks' = Append(q, "poor")
    <3>1. x = "good" /\ Says(warn'.health) = "poor" /\ "good" \in Notices \ {"poor"}
      BY <1>5, <2>6 DEF Says
    <3>2. Longer(<<told>> \o q, <<told>> \o tasks', "poor")
      BY <1>4, <1>5, <2>6
    <3>3. Alternates(<<told>> \o tasks') /\ EndsWith(<<told>> \o tasks', "poor")
      BY <1>5, <2>3, <3>1, <3>2, NoticeAdded
    <3> QED BY <2>1, <3>1, <3>3 DEF NoticeInv
  <2>7. CASE warn'.health = 1 /\ warn.health = 0 /\ tasks' = Append(q, "good")
    <3>1. x = "poor" /\ Says(warn'.health) = "good" /\ "poor" \in Notices \ {"good"}
      BY <1>5, <2>7 DEF Says
    <3>2. Longer(<<told>> \o q, <<told>> \o tasks', "good")
      BY <1>4, <1>5, <2>7
    <3>3. Alternates(<<told>> \o tasks') /\ EndsWith(<<told>> \o tasks', "good")
      BY <1>5, <2>3, <3>1, <3>2, NoticeAdded
    <3> QED BY <2>1, <3>1, <3>3 DEF NoticeInv
  <2> QED BY <2>1, <2>4, <2>5, <2>6, <2>7
<1> QED BY <1>6, <1>7, <1>8 DEF Deliver, Notices

LEMMA StepAlternates == Typed /\ NoticeInv /\ [Next]_vars => NoticeInv'
<1> SUFFICES ASSUME Typed, NoticeInv, [Next]_vars PROVE NoticeInv'
  OBVIOUS
<1>1. {"miss", "pong", "health"} \subseteq Calls \ Notices
  BY DEF Calls, Notices
<1>2. CASE PingInterval \/ SocketOpens \/ ReceivePong \/ MetricsDidReceive \/ ReceiveSignalStrengthChange
  <2>1. UNCHANGED <<told, warn, stage>>
    BY <1>2 DEF PingInterval, SocketOpens, ReceivePong, MetricsDidReceive,
                ReceiveSignalStrengthChange, history
  <2>2. tasks' = tasks \/ \E c \in {"miss", "pong", "health"} : tasks' = Append(tasks, c)
    BY <1>2 DEF PingInterval, SocketOpens, ReceivePong, MetricsDidReceive,
                ReceiveSignalStrengthChange, Ping
  <2>3. tasks' = tasks \/ \E c \in Calls \ Notices : tasks' = Append(tasks, c)
    BY <1>1, <2>2
  <2> QED BY <2>1, <2>3, NoNotice
<1>3. CASE Deliver
  BY <1>3, DeliverAlternates
<1>4. CASE Connect
  <2>1. tasks' = <<>> /\ told' = "good" /\ warn'.health = 1
    BY <1>4 DEF Connect, NewWarn
  <2>2. <<"good">> \o <<>> = <<"good">> /\ Says(1) = "good"
    BY DEF Says
  <2>3. Alternates(<<"good">>)
    BY DEF Alternates
  <2>4. EndsWith(<<"good">>, "good")
    BY DEF EndsWith
  <2> QED BY <2>1, <2>2, <2>3, <2>4 DEF NoticeInv
<1>5. CASE Tick
  <2>1. UNCHANGED <<told, tasks, stage>> /\ warn'.health = warn.health
    BY <1>5 DEF Tick, history, Typed
  <2> QED BY <2>1, NoNotice
<1>6. CASE SocketCloses \/ Clean \/ SessionMoves
  <2>1. UNCHANGED <<told, tasks, warn>> /\ (stage' # "down" => stage # "down")
    BY <1>6, MovingOn DEF SocketCloses, Clean, history
  <2> QED BY <2>1, NoNotice
<1>7. CASE UNCHANGED vars
  <2>1. UNCHANGED <<told, tasks, warn, stage>>
    BY <1>7 DEF vars, history, monitored
  <2> QED BY <2>1, NoNotice
<1> QED BY <1>2, <1>3, <1>4, <1>5, <1>6, <1>7 DEF Next, SessionMoves

-----------------------------------------------------------------------------
(* The theorems.                                                            *)

\* The inductive invariant.
HealthInv == Typed /\ SilenceInv /\ WarnInv /\ NoticeInv

LEMMA InitHolds == Init => HealthInv
<1> SUFFICES ASSUME Init PROVE HealthInv
  OBVIOUS
<1>1. Typed
  BY InitTyped
<1>2. stage = "down" /\ ping = NoPing /\ NoPing.unaccounted = 0
  BY DEF Init, NoPing
<1>3. SilenceInv
  BY <1>2 DEF SilenceInv
<1>4. WarnInv
  <2>1. warnings = 0 /\ warn.count = 0 /\ Cardinality(Poors(tasks)) = 0 /\ MaxWarnings \in Nat
    BY FS_EmptySet, HealthBounds DEF Init, NewWarn, Poors
  <2> QED BY <2>1 DEF WarnInv
<1>5. NoticeInv
  <2>1. <<told>> \o tasks = <<"good">>
    BY DEF Init
  <2> QED BY <1>2, <2>1 DEF NoticeInv, Alternates
<1> QED BY <1>1, <1>3, <1>4, <1>5 DEF HealthInv

LEMMA StepHolds == HealthInv /\ [Next]_vars => HealthInv'
BY StepKeepsTypes, StepKeepsSilence, StepKeepsWarnings, StepAlternates DEF HealthInv

LEMMA AlwaysHealth == Spec => []HealthInv
<1>1. Init => HealthInv
  BY InitHolds
<1>2. HealthInv /\ [Next]_vars => HealthInv'
  BY StepHolds
<1> QED BY <1>1, <1>2, PTL DEF Spec

\* The monitor never counts more missed pongs than pings went without an answer,
\* however many of the ping-pong's calls to didMissPongs and didReceivePong wait
\* in the scheduler, and whatever reconnections and restarts of the local audio
\* have put in its place since.
THEOREM SilenceIsCounted == Spec => []MissesAreSilence
<1>1. HealthInv => MissesAreSilence
  BY DueIsOutstanding DEF HealthInv, SilenceInv
<1> QED BY <1>1, AlwaysHealth, PTL

\* connectionHealthDidChange tells the application of the audio by turns, and the
\* last call that waits says what the policy says now, for every cool-down,
\* window of samples and limit.
THEOREM NoticesTakeTurns == Spec => []NoticesAlternate
<1>1. HealthInv => NoticesAlternate
  BY NoticesAreThese DEF HealthInv
<1> QED BY <1>1, AlwaysHealth, PTL

\* No session warns more often than maximumTimesToWarn, with the warnings that
\* wait counted among those that were given.
THEOREM WarningsAreFew == Spec => []WarnedSparingly
<1>1. HealthInv => WarnedSparingly
  BY WarnInvIsSparing DEF HealthInv
<1> QED BY <1>1, AlwaysHealth, PTL

=============================================================================
