----------------------- MODULE VideoReception_proofs ------------------------
(***************************************************************************)
(* Proofs about VideoReception.  Slots are given out by position, so the    *)
(* first part is about the order of a finite set of numbers; the second     *)
(* says what AssignSlots returns.  The invariants then relate the tiles to  *)
(* what the browser receives, and to every subscription under way.          *)
(***************************************************************************)
EXTENDS VideoReception, FiniteSetTheorems, TLAPS

-----------------------------------------------------------------------------
(* The order of a finite set of numbers.                                    *)

LEMMA RankGrows ==
  ASSUME NEW S \in SUBSET Int, IsFiniteSet(S), NEW x \in S, NEW y \in S, x < y
  PROVE  Rank(S, x) < Rank(S, y)
<1> DEFINE X == {z \in S : z < x}
           Y == {z \in S : z < y}
<1>1. IsFiniteSet(Y) /\ Cardinality(Y) \in Nat
  BY FS_Subset, FS_CardinalityType
<1>2. X \in SUBSET Y /\ x \in Y \ X
  <2>1. \A z \in S : z < x => z < y
    OBVIOUS
  <2>2. X \subseteq Y
    BY <2>1
  <2>3. x \in Y /\ x \notin X
    OBVIOUS
  <2> HIDE DEF X, Y
  <2> QED BY <2>2, <2>3
<1>3. IsFiniteSet(X) /\ Cardinality(X) \in Nat
  BY <1>1, <1>2, FS_Subset, FS_CardinalityType
<1>4. Cardinality(X) <= Cardinality(Y) /\ Cardinality(X) # Cardinality(Y)
  BY <1>1, <1>2, FS_Subset
<1> QED BY <1>1, <1>3, <1>4 DEF Rank

LEMMA RankType ==
  ASSUME NEW S \in SUBSET Int, IsFiniteSet(S), NEW x \in S
  PROVE  Cardinality(S) \in Nat /\ Rank(S, x) \in 0 .. Cardinality(S) - 1
<1> DEFINE X == {z \in S : z < x}
<1>1. X \in SUBSET S /\ x \notin X
  OBVIOUS
<1>2. Cardinality(S) \in Nat /\ Cardinality(X) \in Nat
  BY <1>1, FS_Subset, FS_CardinalityType
<1>3. Cardinality(X) <= Cardinality(S) /\ Cardinality(X) # Cardinality(S)
  BY <1>1, FS_Subset
<1> QED BY <1>2, <1>3 DEF Rank

LEMMA RankOnto ==
  ASSUME NEW S \in SUBSET Int, IsFiniteSet(S), NEW k \in 0 .. Cardinality(S) - 1
  PROVE  \E x \in S : Rank(S, x) = k
<1> DEFINE c == Cardinality(S)
           T == 0 .. c - 1
           f == [x \in S |-> Rank(S, x)]
<1>1. c \in Nat
  BY FS_CardinalityType
<1>2. IsFiniteSet(T) /\ Cardinality(T) = c
  BY <1>1, FS_Interval
<1>3. f \in [S -> T]
  BY RankType
<1>4. ASSUME NEW x \in S, NEW y \in S, x # y PROVE f[x] # f[y]
  <2>1. Rank(S, x) \in Int /\ Rank(S, y) \in Int
    BY RankType
  <2>2. CASE x < y
    BY <2>1, <2>2, RankGrows
  <2>3. CASE y < x
    BY <2>1, <2>3, RankGrows
  <2> QED BY <1>4, <2>2, <2>3
<1>5. f \in Injection(S, T)
  BY <1>3, <1>4 DEF Injection, IsInjective
<1>6. f \in Surjection(S, T)
  BY <1>2, <1>5, FS_Injection
<1> QED BY <1>6 DEF Surjection

\* The element at a position is the one of that rank.
LEMMA AtIs ==
  ASSUME NEW S \in SUBSET Int, IsFiniteSet(S), NEW k \in Nat
  PROVE  /\ k < Cardinality(S) => At(S, k) \in S /\ Rank(S, At(S, k)) = k
         /\ k >= Cardinality(S) => At(S, k) = None
         /\ \A x \in S : At(S, Rank(S, x)) = x
<1>1. Cardinality(S) \in Nat
  BY FS_CardinalityType
<1>2. k < Cardinality(S) => \E x \in S : Rank(S, x) = k
  BY <1>1, RankOnto
<1>3. k >= Cardinality(S) => ~\E x \in S : Rank(S, x) = k
  BY <1>1, RankType
<1>4. ASSUME NEW x \in S PROVE At(S, Rank(S, x)) = x
  <2> DEFINE y == At(S, Rank(S, x))
  <2>1. y \in S /\ Rank(S, y) = Rank(S, x)
    BY DEF At
  <2> HIDE DEF y
  <2>2. Rank(S, x) \in Int /\ Rank(S, y) \in Int
    BY <2>1, RankType
  <2>3. ~(x < y) /\ ~(y < x)
    BY <2>1, <2>2, RankGrows
  <2>4. y = x
    BY <2>1, <2>3
  <2> QED BY <2>4 DEF y
<1> QED BY <1>2, <1>3, <1>4 DEF At

-----------------------------------------------------------------------------
(* What AssignSlots returns.                                                *)

Streams == 1 .. 2 * NumAttendees
Tracks  == [Slots -> Streams \cup {None}]

LEMMA AttendeeType ==
  /\ NumAttendees \in Nat \ {0} /\ Slots = 1 .. NumAttendees /\ Attendees = 1 .. NumAttendees
  /\ None = 0 /\ None \notin Streams
  /\ \A s \in Streams : AttendeeOf(s) \in Attendees
BY VideoBounds DEF Slots, Attendees, None, Streams, AttendeeOf

LEMMA HighestIs ==
  ASSUME NEW idx \in SUBSET Streams
  PROVE  /\ Highest(idx) \in SUBSET idx
         /\ \A s, t \in Highest(idx) : AttendeeOf(s) = AttendeeOf(t) => s = t
<1>1. ASSUME NEW s \in Highest(idx), NEW t \in Highest(idx), AttendeeOf(s) = AttendeeOf(t)
      PROVE  s = t
  <2>1. s \in Int /\ t \in Int /\ ~(s > t) /\ ~(t > s)
    BY <1>1, AttendeeType DEF Highest, Streams
  <2> QED BY <2>1
<1> QED BY <1>1 DEF Highest

\* At most one stream of an attendee is wanted.
LEMMA WantedIsSmall ==
  ASSUME NEW idx \in SUBSET Streams
  PROVE  IsFiniteSet(Highest(idx)) /\ Cardinality(Highest(idx)) <= NumAttendees
<1> DEFINE f == [s \in Highest(idx) |-> AttendeeOf(s)]
<1>1. f \in Injection(Highest(idx), Attendees)
  BY HighestIs, AttendeeType DEF Injection, IsInjective
<1>2. IsFiniteSet(Attendees) /\ Cardinality(Attendees) = NumAttendees
  BY AttendeeType, FS_Interval
<1> QED BY <1>1, <1>2, FS_Injection

\* Slots in which no two attendees are the same.
Apart(f) ==
  \A m, n \in Slots : m # n /\ f[m] # None /\ f[n] # None => AttendeeOf(f[m]) # AttendeeOf(f[n])

\* The local definitions of AssignSlots(DOMAIN slots).
Keeping == {n \in DOMAIN slots : Kept(n) # {}}
Rest    == {t \in wanted : ~\E n \in Keeping : t \in Kept(n)}
Needed  == Cardinality(Keeping) + Cardinality(Rest)
Size    == IF Needed > Cardinality(DOMAIN slots) THEN Needed ELSE Cardinality(DOMAIN slots)
Open    == (1 .. Size) \ Keeping

LEMMA AssignSlotsIs ==
  AssignSlots(DOMAIN slots) =
    [n \in 1 .. Size |-> IF n \in Keeping THEN CHOOSE t \in Kept(n) : TRUE
                         ELSE At(Rest, Rank(Open, n))]
BY DEF AssignSlots, Keeping, Rest, Needed, Size, Open

\* What holds when an update begins.
Attachable ==
  /\ index \in SUBSET Streams /\ wanted = Highest(index)
  /\ ack \in Tracks /\ Apart(ack)
  /\ slots \in Seq(Streams \cup {None}) /\ Len(slots) <= NumAttendees

LEMMA KeptIs ==
  ASSUME Attachable
  PROVE  /\ \A n \in Slots : \A t \in Kept(n) :
              t \in wanted /\ ack[n] # None /\ AttendeeOf(t) = AttendeeOf(ack[n])
         /\ \A n \in Slots : \A t, u \in Kept(n) : t = u
         /\ \A m, n \in Slots : \A t \in Kept(m) : t \in Kept(n) => m = n
<1>1. ASSUME NEW n \in Slots, NEW t \in Kept(n)
      PROVE  t \in wanted /\ ack[n] # None /\ AttendeeOf(t) = AttendeeOf(ack[n])
  BY <1>1, AttendeeType DEF Kept, SameGroup, Attachable
<1>2. ASSUME NEW n \in Slots, NEW t \in Kept(n), NEW u \in Kept(n) PROVE t = u
  BY <1>1, <1>2, HighestIs DEF Attachable
<1>3. ASSUME NEW m \in Slots, NEW n \in Slots, NEW t \in Kept(m), t \in Kept(n) PROVE m = n
  BY <1>1, <1>3 DEF Attachable, Apart
<1> QED BY <1>1, <1>2, <1>3

\* There are slots enough: as many as before, and one for each wanted stream.
LEMMA SizeIs ==
  ASSUME Attachable
  PROVE  /\ Size \in Len(slots) .. NumAttendees /\ DOMAIN slots = 1 .. Len(slots)
         /\ Keeping \in SUBSET (1 .. Size)
         /\ IsFiniteSet(Rest) /\ Rest \in SUBSET Int
         /\ IsFiniteSet(Open) /\ Open \in SUBSET Int
         /\ Cardinality(Open) \in Nat /\ Cardinality(Rest) \in 0 .. Cardinality(Open)
<1>1. DOMAIN slots = 1 .. Len(slots) /\ Len(slots) \in Nat /\ DOMAIN slots \in SUBSET Slots
  BY AttendeeType DEF Attachable
<1>2. IsFiniteSet(DOMAIN slots) /\ Cardinality(DOMAIN slots) = Len(slots)
  BY <1>1, FS_Interval
<1>3. IsFiniteSet(wanted) /\ Cardinality(wanted) \in Nat /\ Cardinality(wanted) <= NumAttendees
  BY WantedIsSmall, FS_CardinalityType DEF Attachable
<1>4. Keeping \in SUBSET DOMAIN slots /\ Rest \in SUBSET wanted
  BY DEF Keeping, Rest
<1>5. /\ IsFiniteSet(Keeping) /\ IsFiniteSet(Rest)
      /\ Cardinality(Keeping) \in Nat /\ Cardinality(Rest) \in Nat
  BY <1>2, <1>3, <1>4, FS_Subset, FS_CardinalityType
<1>6. Cardinality(Keeping) <= Cardinality(wanted) - Cardinality(Rest)
  <2> DEFINE W == wanted \ Rest
             g == [n \in Keeping |-> CHOOSE t \in Kept(n) : TRUE]
  <2>1. IsFiniteSet(W) /\ Cardinality(W) = Cardinality(wanted) - Cardinality(wanted \cap Rest)
    BY <1>3, FS_Difference
  <2>2. wanted \cap Rest = Rest
    BY <1>4
  <2>3. ASSUME NEW n \in Keeping PROVE g[n] \in Kept(n) /\ n \in Slots
    BY <1>1 DEF Keeping
  <2>4. ASSUME NEW n \in Keeping PROVE g[n] \in W
    BY <2>3, KeptIs DEF Rest
  <2>5. ASSUME NEW m \in Keeping, NEW n \in Keeping, g[m] = g[n] PROVE m = n
    <3>1. g[m] \in Kept(m) /\ g[m] \in Kept(n) /\ m \in Slots /\ n \in Slots
      BY <2>3, <2>5
    <3> QED BY <3>1, KeptIs
  <2>6. g \in Injection(Keeping, W)
    BY <2>4, <2>5 DEF Injection, IsInjective
  <2>7. Cardinality(Keeping) <= Cardinality(W)
    BY <2>1, <2>6, FS_Injection
  <2> QED BY <2>1, <2>2, <2>7
<1>7. Size \in Len(slots) .. NumAttendees /\ Size \in Nat /\ Size >= Needed
  BY <1>1, <1>2, <1>3, <1>5, <1>6, AttendeeType DEF Size, Needed, Attachable
<1>8. Keeping \in SUBSET (1 .. Size)
  BY <1>1, <1>4, <1>7
<1>9. IsFiniteSet(1 .. Size) /\ Cardinality(1 .. Size) = Size
  BY <1>7, FS_Interval
<1>10. /\ IsFiniteSet(Open)
       /\ Cardinality(Open) = Cardinality(1 .. Size) - Cardinality((1 .. Size) \cap Keeping)
  BY <1>9, FS_Difference DEF Open
<1>11. (1 .. Size) \cap Keeping = Keeping
  BY <1>8
<1>12. Cardinality(Open) = Size - Cardinality(Keeping)
  BY <1>9, <1>10, <1>11
<1>13. Open \in SUBSET Int /\ Rest \in SUBSET Int
  <2>1. wanted \subseteq index /\ index \subseteq Streams
    BY HighestIs DEF Attachable
  <2>2. Streams \subseteq Int
    BY AttendeeType DEF Streams
  <2>3. 1 .. Size \subseteq Int
    BY <1>7
  <2> QED BY <1>4, <2>1, <2>2, <2>3 DEF Open
<1>14. Cardinality(Open) \in Nat /\ Cardinality(Rest) \in 0 .. Cardinality(Open)
  BY <1>5, <1>7, <1>12 DEF Needed
<1> QED BY <1>1, <1>5, <1>7, <1>8, <1>10, <1>13, <1>14

\* A stream that is left has exactly one of the open slots.
LEMMA RestHasSlot ==
  ASSUME Attachable
  PROVE  /\ \A n \in Open : At(Rest, Rank(Open, n)) \in Rest \cup {None}
         /\ \A t \in Rest : \E n \in Open : At(Rest, Rank(Open, n)) = t
         /\ \A m, n \in Open : m # n /\ At(Rest, Rank(Open, m)) # None =>
                                 At(Rest, Rank(Open, m)) # At(Rest, Rank(Open, n))
<1> USE SizeIs
<1>1. ASSUME NEW n \in Open
      PROVE  Rank(Open, n) \in Nat
  BY RankType
<1>2. ASSUME NEW n \in Open PROVE At(Rest, Rank(Open, n)) \in Rest \cup {None}
  BY <1>1, AtIs
<1>3. ASSUME NEW t \in Rest PROVE \E n \in Open : At(Rest, Rank(Open, n)) = t
  <2>1. Rank(Rest, t) \in 0 .. Cardinality(Rest) - 1
    BY RankType
  <2>2. Rank(Rest, t) \in 0 .. Cardinality(Open) - 1
    BY <2>1
  <2>3. PICK n \in Open : Rank(Open, n) = Rank(Rest, t)
    BY <2>2, RankOnto
  <2> QED BY <2>1, <2>3, AtIs
<1>4. ASSUME NEW m \in Open, NEW n \in Open, m # n, At(Rest, Rank(Open, m)) # None
      PROVE  At(Rest, Rank(Open, m)) # At(Rest, Rank(Open, n))
  <2>1. Rank(Open, m) # Rank(Open, n)
    BY <1>1, <1>4, RankGrows
  <2>2. Rank(Rest, At(Rest, Rank(Open, m))) = Rank(Open, m)
    BY <1>1, <1>4, AtIs
  <2>3. At(Rest, Rank(Open, n)) # None => Rank(Rest, At(Rest, Rank(Open, n))) = Rank(Open, n)
    BY <1>1, AtIs
  <2> QED BY <1>4, <2>1, <2>2, <2>3
<1> QED BY <1>2, <1>3, <1>4

LEMMA AssignSlotsExact ==
  ASSUME Attachable, NEW a, a = AssignSlots(DOMAIN slots)
  PROVE  /\ a \in Seq(wanted \cup {None}) /\ Len(a) \in Len(slots) .. NumAttendees
         /\ DOMAIN slots \subseteq DOMAIN a
         /\ \A s \in wanted : \E n \in DOMAIN a : a[n] = s
         /\ \A m, n \in DOMAIN a : m # n /\ a[m] # None => a[m] # a[n]
         /\ \A n \in DOMAIN slots : Kept(n) # {} => a[n] \in Kept(n)
         /\ \A n \in DOMAIN a : Kept(n) = {} \/ n \notin DOMAIN slots =>
              \A m \in DOMAIN slots : a[n] \notin Kept(m)
<1>1. a = [n \in 1 .. Size |-> IF n \in Keeping THEN CHOOSE t \in Kept(n) : TRUE
                               ELSE At(Rest, Rank(Open, n))]
  BY AssignSlotsIs
<1>2. /\ DOMAIN a = 1 .. Size /\ DOMAIN slots \subseteq DOMAIN a
      /\ Size \in Nat /\ Size \in Len(slots) .. NumAttendees
  BY <1>1, SizeIs, AttendeeType DEF Attachable
<1>3. ASSUME NEW n \in Keeping PROVE n \in Slots /\ n \in DOMAIN a /\ a[n] \in Kept(n)
  BY <1>1, SizeIs, AttendeeType DEF Keeping
<1>4. ASSUME NEW n \in DOMAIN a, n \notin Keeping
      PROVE  n \in Open /\ a[n] = At(Rest, Rank(Open, n)) /\ a[n] \in Rest \cup {None}
  <2>1. n \in 1 .. Size /\ n \in Open
    BY <1>2, <1>4 DEF Open
  <2>2. a[n] = At(Rest, Rank(Open, n))
    BY <1>1, <1>4, <2>1
  <2> QED BY <2>1, <2>2, RestHasSlot
<1>5. ASSUME NEW n \in Open PROVE n \in DOMAIN a /\ n \notin Keeping
  BY <1>2 DEF Open
<1>6. ASSUME NEW n \in DOMAIN a PROVE a[n] \in wanted \cup {None}
  BY <1>3, <1>4, KeptIs DEF Rest
<1>7. a \in Seq(wanted \cup {None}) /\ Len(a) = Size
  BY <1>1, <1>2, <1>6
<1>8. ASSUME NEW s \in wanted PROVE \E n \in DOMAIN a : a[n] = s
  <2>1. CASE s \in Rest
    BY <1>4, <1>5, <2>1, RestHasSlot
  <2>2. CASE s \notin Rest
    <3>1. PICK n \in Keeping : s \in Kept(n)
      BY <2>2 DEF Rest
    <3> QED BY <1>3, <3>1, KeptIs
  <2> QED BY <2>1, <2>2
<1>9. ASSUME NEW m \in DOMAIN a, NEW n \in DOMAIN a, m # n, a[m] # None PROVE a[m] # a[n]
  <2>1. CASE m \in Keeping /\ n \in Keeping
    BY <1>3, <1>9, <2>1, KeptIs
  <2>2. CASE m \in Keeping /\ n \notin Keeping
    <3>1. a[m] \in Kept(m) /\ a[m] \notin Rest
      BY <1>3, <2>2 DEF Rest
    <3> QED BY <1>4, <1>9, <2>2, <3>1
  <2>3. CASE m \notin Keeping /\ n \in Keeping
    <3>1. a[n] \in Kept(n) /\ a[n] \notin Rest
      BY <1>3, <2>3 DEF Rest
    <3> QED BY <1>4, <1>9, <2>3, <3>1
  <2>4. CASE m \notin Keeping /\ n \notin Keeping
    BY <1>4, <1>9, <2>4, RestHasSlot
  <2> QED BY <2>1, <2>2, <2>3, <2>4
<1>10. ASSUME NEW n \in DOMAIN a, Kept(n) = {} \/ n \notin DOMAIN slots, NEW m \in DOMAIN slots
       PROVE  a[n] \notin Kept(m)
  <2>1. n \notin Keeping
    BY <1>10 DEF Keeping
  <2>2. CASE Kept(m) = {}
    BY <2>2
  <2>3. CASE Kept(m) # {}
    <3>1. m \in Keeping /\ m \in Slots
      BY <2>3, SizeIs, AttendeeType DEF Keeping
    <3>2. None \notin Kept(m)
      BY <3>1, KeptIs, HighestIs, AttendeeType DEF Attachable
    <3> QED BY <1>4, <2>1, <3>1, <3>2 DEF Rest
  <2> QED BY <2>2, <2>3
<1>11. \A n \in DOMAIN slots : Kept(n) # {} => a[n] \in Kept(n)
  BY <1>3 DEF Keeping
<1> QED BY <1>2, <1>6, <1>7, <1>8, <1>9, <1>10, <1>11

-----------------------------------------------------------------------------
(* The inductive invariant.                                                 *)

Frames == [index : SUBSET Streams] \cup [tracks : Tracks]
Tile   == [attendee : Attendees \cup {None}, stream : Streams \cup {None},
           paused : BOOLEAN, told : BOOLEAN]

Typed ==
  /\ sending \in SUBSET Streams /\ index \in SUBSET Streams /\ halted \in SUBSET Streams
  /\ wanted = Highest(index)
  /\ inbox \in Seq(Frames)
  /\ ack \in Tracks /\ flows \in Tracks
  /\ slots \in Seq(Streams \cup {None}) /\ Len(slots) <= NumAttendees
  /\ tiles \in [Slots -> Tile]
  /\ phase \in {"down", "joining", "idle", "attach", "subscribe", "ack", "remote"}
  /\ again \in BOOLEAN /\ misnamed \in BOOLEAN /\ switched \in BOOLEAN

\* The acks of an inbox; there is never a second one.
Acks(q)   == {i \in DOMAIN q : "tracks" \in DOMAIN q[i]}
Single(q) == \A i, j \in Acks(q) : i = j

\* The subscription that the server serves.
InForce(q, ph, a, f) ==
  IF Acks(q) # {} THEN q[CHOOSE i \in Acks(q) : TRUE].tracks
  ELSE IF ph = "remote" THEN a ELSE f

\* A subscription f can follow what is received now, fl: it has transceivers for
\* its slots, moves no stream to another slot, and gives no slot with a tile to
\* another attendee unless the connection is one of those excepted.
Follows(f, sl, fl, excepted, ts) ==
  /\ Apart(f)
  /\ \A n \in Slots : f[n] # None => n \in DOMAIN sl
  /\ \A m, n \in Slots : f[m] # None /\ f[m] = fl[n] => m = n
  /\ \A n \in Slots : ~excepted /\ ts[n] # NoTile /\ f[n] # None =>
       AttendeeOf(f[n]) = ts[n].attendee

\* The slots as a subscription.
Plan(sl) == [n \in Slots |-> IF n \in DOMAIN sl THEN sl[n] ELSE None]

\* What is received, and each subscription under way, can follow what is received.
FollowInv ==
  /\ phase # "remote" => ack = flows
  /\ Follows(flows, slots, flows, misnamed, tiles)
  /\ Follows(ack, slots, flows, misnamed, tiles)
  /\ phase = "subscribe" => Follows(Plan(slots), slots, flows, misnamed, tiles)
  /\ \A i \in Acks(inbox) :
       phase = "ack" /\ Follows(inbox[i].tracks, slots, flows, misnamed, tiles)
  /\ Single(inbox)

\* Tiles are on slots that receive, with the stream that they had at first.
TileInv ==
  /\ OneTilePerAttendee
  /\ \A n \in Slots :
       /\ tiles[n] # NoTile => flows[n] # None
       /\ ~switched /\ tiles[n] # NoTile => tiles[n].stream = flows[n]
       /\ tiles[n].told = tiles[n].paused

\* The server has paused only what it serves, and on account of a tile.
PauseInv ==
  /\ halted \subseteq Served
  /\ ~switched => \A s \in halted : \E n \in Slots : tiles[n].paused /\ flows[n] = s
  /\ PauseReachesStream

VideoInv == Typed /\ FollowInv /\ TileInv /\ PauseInv

-----------------------------------------------------------------------------
(* Inboxes, subscriptions and tiles.                                        *)

LEMMA FrameIs ==
  ASSUME NEW f \in Frames
  PROVE  /\ "index" \in DOMAIN f => f.index \in SUBSET Streams /\ "tracks" \notin DOMAIN f
         /\ "tracks" \in DOMAIN f => f.tracks \in Tracks
BY DEF Frames

LEMMA ServedIs ==
  /\ Served  = {InForce(inbox, phase, ack, flows)[n] : n \in Slots} \ {None}
  /\ Served' = {InForce(inbox', phase', ack', flows')[n] : n \in Slots} \ {None}
BY DEF Served, InForce, Acks

\* The acks of q2 are those of q.
SameAcks(q, q2) ==
  /\ Acks(q) = {} <=> Acks(q2) = {}
  /\ \A i \in Acks(q), j \in Acks(q2) : q2[j] = q[i]
  /\ Single(q2)

\* Index frames come and go without touching an ack.
LEMMA AcksOfAppend ==
  ASSUME NEW q \in Seq(Frames), Single(q), NEW x \in SUBSET Streams
  PROVE  SameAcks(q, Append(q, [index |-> x])) /\ Append(q, [index |-> x]) \in Seq(Frames)
<1> DEFINE f == [index |-> x]
<1>1. f \in Frames /\ "tracks" \notin DOMAIN f
  BY DEF Frames
<1> HIDE DEF f
<1>2. /\ DOMAIN Append(q, f) = DOMAIN q \cup {Len(q) + 1} /\ Append(q, f) \in Seq(Frames)
      /\ Append(q, f)[Len(q) + 1] = f /\ Len(q) + 1 \notin DOMAIN q
      /\ \A i \in DOMAIN q : Append(q, f)[i] = q[i]
  BY <1>1
<1>3. Acks(Append(q, f)) = Acks(q)
  BY <1>1, <1>2 DEF Acks
<1>4. \A i \in Acks(q) : Append(q, f)[i] = q[i]
  BY <1>2 DEF Acks
<1>5. SameAcks(q, Append(q, f))
  BY <1>3, <1>4 DEF SameAcks, Single
<1> QED BY <1>2, <1>5 DEF f

LEMMA AcksOfTail ==
  ASSUME NEW q \in Seq(Frames), Single(q), q # <<>>
  PROVE  /\ Tail(q) \in Seq(Frames) /\ Head(q) \in Frames
         /\ "tracks" \notin DOMAIN Head(q) => SameAcks(q, Tail(q))
         /\ "tracks" \in DOMAIN Head(q) => /\ 1 \in Acks(q) /\ q[1] = Head(q)
                                           /\ Acks(Tail(q)) = {}
<1>1. /\ Tail(q) \in Seq(Frames) /\ Head(q) = q[1] /\ 1 \in DOMAIN q /\ q[1] \in Frames
      /\ DOMAIN q = 1 .. Len(q) /\ DOMAIN Tail(q) = 1 .. Len(q) - 1 /\ Len(q) \in Nat
      /\ \A i \in 1 .. Len(q) - 1 : Tail(q)[i] = q[i + 1]
  OBVIOUS
<1>2. \A i \in Acks(Tail(q)) : i \in Int /\ i + 1 \in Acks(q) /\ Tail(q)[i] = q[i + 1] /\ i + 1 # 1
  BY <1>1 DEF Acks
<1>3. \A j \in Acks(q) : j \in Int /\ (j # 1 => j - 1 \in Acks(Tail(q)))
  <2> TAKE j \in Acks(q)
  <2>1. j \in 1 .. Len(q) /\ "tracks" \in DOMAIN q[j]
    BY <1>1 DEF Acks
  <2>2. j # 1 => j - 1 \in 1 .. Len(q) - 1 /\ Tail(q)[j - 1] = q[j]
    BY <1>1, <2>1
  <2> QED BY <1>1, <2>1, <2>2 DEF Acks
<1>4. CASE "tracks" \notin DOMAIN Head(q)
  <2>1. 1 \notin Acks(q)
    BY <1>1, <1>4 DEF Acks
  <2>2. Acks(q) = {} <=> Acks(Tail(q)) = {}
    BY <1>2, <1>3, <2>1
  <2>3. ASSUME NEW i \in Acks(q), NEW j \in Acks(Tail(q)) PROVE Tail(q)[j] = q[i]
    BY <1>2, <2>3 DEF Single
  <2>4. ASSUME NEW i \in Acks(Tail(q)), NEW j \in Acks(Tail(q)) PROVE i = j
    <3>1. i + 1 = j + 1
      BY <1>2, <2>4 DEF Single
    <3> QED BY <1>2, <2>4, <3>1
  <2> QED BY <1>1, <1>4, <2>2, <2>3, <2>4 DEF SameAcks, Single
<1>5. CASE "tracks" \in DOMAIN Head(q)
  <2>1. 1 \in Acks(q)
    BY <1>1, <1>5 DEF Acks
  <2> QED BY <1>1, <1>2, <1>5, <2>1 DEF Single
<1> QED BY <1>1, <1>4, <1>5

\* What the server serves stays with the acks.
LEMMA InForceStays ==
  ASSUME NEW q, NEW q2, SameAcks(q, q2), NEW ph, NEW ph2, ph = "remote" <=> ph2 = "remote",
         NEW a, NEW f
  PROVE  InForce(q2, ph2, a, f) = InForce(q, ph, a, f)
<1>1. CASE Acks(q) = {}
  BY <1>1 DEF InForce, SameAcks
<1>2. CASE Acks(q) # {}
  BY <1>2 DEF InForce, SameAcks
<1> QED BY <1>1, <1>2

\* A subscription goes on following when slots are added, tiles vanish or are
\* paused, or the connection becomes an exception.
LEMMA FollowsStays ==
  ASSUME NEW f, NEW sl, NEW sl2, NEW fl, NEW ts, NEW ts2, NEW e, NEW e2,
         Follows(f, sl, fl, e, ts), DOMAIN sl \subseteq DOMAIN sl2, e => e2,
         \A n \in Slots : ts2[n] # NoTile => ts[n] # NoTile /\ ts2[n].attendee = ts[n].attendee
  PROVE  Follows(f, sl2, fl, e2, ts2)
BY DEF Follows

\* What the tiles are after the answer has been set.
LEMMA RemoteTiles ==
  ASSUME Typed, TileInv, SetRemote, NEW n \in Slots
  PROVE  /\ tiles'[n] # NoTile =>
              \/ flows[n] # None /\ ack[n] # None /\ tiles'[n] = tiles[n]
              \/ /\ flows[n] = None /\ ack[n] # None /\ tiles'[n] = NewTile(n)
                 /\ \A m \in Slots : flows[m] # None /\ ack[m] # None /\ tiles[m] # NoTile =>
                      tiles[m].attendee # AttendeeForTrack(n)
                 /\ \A m \in Slots : m < n /\ flows[m] = None /\ ack[m] # None =>
                      AttendeeForTrack(m) # AttendeeForTrack(n)
         /\ flows[n] # None /\ ack[n] # None => tiles'[n] = tiles[n]
         /\ ~misnamed' =>
              ~misnamed /\ (flows[n] = None /\ ack[n] # None => AttendeeForTrack(n) # None)
         /\ ~switched' =>
              ~switched /\ (flows[n] # None /\ ack[n] # None => ack[n] = flows[n])
<1> DEFINE on(f) == {k \in Slots : f[k] # None}
           gone  == on(flows) \ on(ack)
           new   == on(ack) \ on(flows)
           same  == on(ack) \cap on(flows)
           kept  == RemoveTiles(gone)
<1>1. /\ tiles' = AddTiles(kept, new)
      /\ misnamed' = (misnamed \/ \E k \in new : AttendeeForTrack(k) = None)
      /\ switched' = (switched \/ \E k \in same : ack[k] # flows[k])
  BY DEF SetRemote
<1>2. \A k \in Slots : kept[k] = IF k \in gone THEN NoTile ELSE tiles[k]
  BY DEF RemoveTiles
<1>3. \A k \in Slots : /\ k \in gone <=> flows[k] # None /\ ack[k] = None
                       /\ k \in new  <=> flows[k] = None /\ ack[k] # None
                       /\ k \in same <=> flows[k] # None /\ ack[k] # None
  OBVIOUS
<1> HIDE DEF gone, new, same, kept
<1>4. tiles'[n] =
        IF /\ n \in new /\ ~\E m \in new : m < n /\ AttendeeForTrack(m) = AttendeeForTrack(n)
           /\ ~HasTile(kept, AttendeeForTrack(n))
        THEN NewTile(n) ELSE kept[n]
  BY <1>1 DEF AddTiles
<1>5. tiles[n] # NoTile => flows[n] # None
  BY DEF TileInv
<1>6. CASE n \in new
  <2>1. kept[n] = NoTile
    BY <1>2, <1>3, <1>5, <1>6
  <2>2. ASSUME tiles'[n] # NoTile
        PROVE  /\ tiles'[n] = NewTile(n)
               /\ ~\E m \in new : m < n /\ AttendeeForTrack(m) = AttendeeForTrack(n)
               /\ ~HasTile(kept, AttendeeForTrack(n))
    BY <1>4, <2>1, <2>2
  <2>3. \A m \in Slots : flows[m] # None /\ ack[m] # None => kept[m] = tiles[m]
    BY <1>2, <1>3
  <2> QED BY <1>1, <1>3, <1>6, <2>2, <2>3 DEF HasTile
<1>7. CASE n \notin new
  <2>1. tiles'[n] = IF n \in gone THEN NoTile ELSE tiles[n]
    BY <1>2, <1>4, <1>7
  <2> QED BY <1>1, <1>3, <1>5, <1>7, <2>1
<1> QED BY <1>6, <1>7

-----------------------------------------------------------------------------
(* Steps.                                                                   *)

LEMMA NoTracksType ==
  /\ NoTracks \in Tracks /\ NoTile \in Tile
  /\ \A n \in Slots : NoTracks[n] = None
BY DEF NoTracks, Tracks, NoTile, Tile

LEMMA VideoInit == Init => VideoInv
<1> SUFFICES ASSUME Init PROVE VideoInv
  OBVIOUS
<1>1. Acks(<<>>) = {}
  BY DEF Acks
<1>2. \A n \in Slots : tiles[n] = NoTile /\ flows[n] = None /\ ack[n] = None
  BY NoTracksType DEF Init
<1>3. Highest({}) = {}
  BY DEF Highest
<1>4. Typed
  <2>1. tiles \in [Slots -> Tile] /\ ack \in Tracks /\ flows \in Tracks
    BY NoTracksType DEF Init
  <2>2. Len(slots) = 0 /\ slots \in Seq(Streams \cup {None}) /\ inbox \in Seq(Frames)
    BY DEF Init
  <2>3. Len(slots) <= NumAttendees
    BY <2>2, AttendeeType
  <2> QED BY <1>3, <2>1, <2>2, <2>3 DEF Init, Typed
<1>5. FollowInv
  BY <1>1, <1>2 DEF Init, FollowInv, Follows, Apart, Single
<1>6. TileInv
  BY <1>2 DEF Init, TileInv, OneTilePerAttendee, NoTile
<1>7. PauseInv
  BY <1>2 DEF Init, PauseInv, PauseReachesStream
<1> QED BY <1>4, <1>5, <1>6, <1>7 DEF VideoInv

LEMMA CanAttach == Typed /\ FollowInv => Attachable
BY DEF Typed, FollowInv, Follows, Attachable

\* Only the two flags of a tile change when it is paused or goes on.
LEMMA PausedTiles ==
  ASSUME NEW ts \in [Slots -> Tile], NEW n \in Slots, NEW b \in BOOLEAN, NEW ts2,
         ts2 = [ts EXCEPT ![n].paused = b, ![n].told = b]
  PROVE  /\ ts2 \in [Slots -> Tile]
         /\ \A k \in Slots : k # n => ts2[k] = ts[k]
         /\ ts2[n].paused = b /\ ts2[n].told = b
         /\ \A k \in Slots : ts2[k].attendee = ts[k].attendee /\ ts2[k].stream = ts[k].stream
<1> DEFINE t == [ts[n] EXCEPT !.paused = b, !.told = b]
<1>1. ts[n] \in Tile
  OBVIOUS
<1>2. /\ t \in Tile /\ t.paused = b /\ t.told = b
      /\ t.attendee = ts[n].attendee /\ t.stream = ts[n].stream
  BY <1>1 DEF Tile
<1>3. ts2 = [ts EXCEPT ![n] = t]
  BY <1>1 DEF Tile
<1> HIDE DEF t
<1> QED BY <1>2, <1>3

LEMMA TypedStep == Typed /\ FollowInv /\ TileInv /\ [Next]_vars => Typed'
<1> SUFFICES ASSUME Typed, FollowInv, TileInv, [Next]_vars PROVE Typed'
  OBVIOUS
<1>0. Single(inbox)
  BY DEF FollowInv
<1>1. CASE ServerChanges
  <2>1. sending' \in SUBSET Streams
    <3>1. PICK a \in Attendees : \E p \in {{}, {2 * a - 1}, {2 * a - 1, 2 * a}} :
            sending' = {s \in sending : AttendeeOf(s) # a} \cup p
      BY <1>1 DEF ServerChanges
    <3>2. 2 * a - 1 \in Streams /\ 2 * a \in Streams
      BY AttendeeType DEF Streams
    <3> QED BY <3>1, <3>2 DEF Typed
  <2>2. inbox' \in Seq(Frames)
    BY <1>0, <1>1, <2>1, AcksOfAppend DEF ServerChanges, Typed
  <2> QED BY <1>1, <2>1, <2>2 DEF ServerChanges, Typed, client, shown
<1>2. CASE Join
  <2>1. inbox' \in Seq(Frames)
    BY <1>2 DEF Join, Frames, Typed
  <2> QED BY <1>2, <2>1 DEF Join, Typed, shown
<1>3. CASE ReceiveIndex
  <2>1. inbox' \in Seq(Frames) /\ index' \in SUBSET Streams
    BY <1>0, <1>3, AcksOfTail, FrameIs DEF ReceiveIndex, Typed
  <2>2. phase' \in {phase, "attach"} /\ again' \in BOOLEAN
    BY <1>3 DEF ReceiveIndex, Update, Typed
  <2> QED BY <1>3, <2>1, <2>2 DEF ReceiveIndex, Typed, shown
<1>4. CASE AppUpdates
  BY <1>4 DEF AppUpdates, Update, Typed, shown
<1>5. CASE Attach
  <2>1. slots' \in Seq(wanted \cup {None}) /\ Len(slots') <= NumAttendees
    BY <1>5, CanAttach, AssignSlotsExact DEF Attach
  <2>2. wanted \subseteq Streams
    BY HighestIs DEF Typed
  <2>3. slots' \in Seq(Streams \cup {None})
    BY <2>1, <2>2
  <2>4. misnamed' \in BOOLEAN
    BY <1>5 DEF Attach, Typed
  <2> QED BY <1>5, <2>1, <2>3, <2>4 DEF Attach, Typed
<1>6. CASE Subscribe
  <2>1. inbox' \in Seq(Frames) /\ halted' \in SUBSET Streams
    BY <1>6 DEF Subscribe, Typed, Frames, Tracks
  <2> QED BY <1>6, <2>1 DEF Subscribe, Typed, shown
<1>7. CASE ReceiveAck
  <2>1. inbox' \in Seq(Frames) /\ ack' \in Tracks
    BY <1>0, <1>7, AcksOfTail, FrameIs DEF ReceiveAck, Typed
  <2> QED BY <1>7, <2>1 DEF ReceiveAck, Typed, shown
<1>8. CASE SetRemote
  <2>1. \A n \in Slots : NewTile(n) \in Tile
    BY AttendeeType DEF NewTile, Tile, AttendeeForTrack, Typed, Tracks
  <2>2. \A n \in Slots : tiles'[n] \in Tile
    BY <1>8, <2>1, RemoteTiles, NoTracksType DEF Typed
  <2>3. tiles' \in [Slots -> Tile]
    BY <1>8, <2>2 DEF SetRemote, AddTiles
  <2>4. misnamed' \in BOOLEAN /\ switched' \in BOOLEAN
    BY <1>8 DEF SetRemote, Typed
  <2>5. /\ flows' = ack /\ phase' \in {"attach", "idle"} /\ again' = FALSE
        /\ UNCHANGED <<sending, inbox, halted, index, wanted, ack, slots>>
    BY <1>8 DEF SetRemote
  <2> QED BY <2>3, <2>4, <2>5 DEF Typed
<1>9. CASE Fail
  <2>1. tiles' \in [Slots -> Tile]
    BY <1>9, NoTracksType DEF Fail, RemoveTiles
  <2>2. slots' \in Seq(Streams \cup {None}) /\ Len(slots') <= NumAttendees /\ inbox' \in Seq(Frames)
    BY <1>9, AttendeeType DEF Fail
  <2> QED BY <1>9, <2>1, <2>2, NoTracksType DEF Fail, Typed
<1>10. CASE Pause
  <2>1. tiles' \in [Slots -> Tile]
    BY <1>10, PausedTiles DEF Pause, Typed
  <2>2. halted' \in SUBSET Streams
    <3>1. PICK n \in Slots :
            halted' \in {halted, halted \cup ({tiles[n].stream} \cap Served)}
      BY <1>10 DEF Pause
    <3>2. tiles[n].stream \in Streams \cup {None} /\ None \notin Served
      BY ServedIs DEF Typed, Tile
    <3> QED BY <3>1, <3>2 DEF Typed
  <2> QED BY <1>10, <2>1, <2>2 DEF Pause, Typed, client
<1>11. CASE Unpause
  <2>1. tiles' \in [Slots -> Tile]
    BY <1>11, PausedTiles DEF Unpause, Typed
  <2>2. halted' \in SUBSET Streams
    BY <1>11 DEF Unpause, Typed
  <2> QED BY <1>11, <2>1, <2>2 DEF Unpause, Typed, client
<1>12. CASE UNCHANGED vars
  BY <1>12 DEF vars, client, shown, Typed
<1> QED BY <1>1, <1>2, <1>3, <1>4, <1>5, <1>6, <1>7, <1>8, <1>9, <1>10, <1>11, <1>12 DEF Next

\* The steps that change neither the slots nor what is received or served, and
\* may at most pause a tile.
Quiet ==
  /\ SameAcks(inbox, inbox') /\ (Acks(inbox) # {} => phase' = phase)
  /\ phase = "remote" <=> phase' = "remote"
  /\ phase' = "subscribe" => phase = "subscribe"
  /\ UNCHANGED <<ack, flows, slots, misnamed, switched>>
  /\ \A n \in Slots : tiles'[n] # NoTile =>
       /\ tiles[n] # NoTile
       /\ tiles'[n].attendee = tiles[n].attendee /\ tiles'[n].stream = tiles[n].stream

LEMMA SameAcksAsBefore == ASSUME NEW q, Single(q) PROVE SameAcks(q, q)
BY DEF Single, SameAcks

LEMMA IsQuiet ==
  ASSUME Typed, FollowInv, Typed',
         ServerChanges \/ Join \/ ReceiveIndex \/ AppUpdates \/ Pause \/ Unpause \/ UNCHANGED vars
  PROVE  Quiet
<1>1. Single(inbox) /\ (phase # "ack" => Acks(inbox) = {})
  BY DEF FollowInv
<1>2. Acks(<<>>) = {}
  BY DEF Acks
<1>3. CASE ServerChanges
  <2>1. SameAcks(inbox, inbox')
    <3>1. CASE phase = "down"
      BY <1>1, <1>2, <1>3, <3>1 DEF ServerChanges, SameAcks, Single
    <3>2. CASE phase # "down"
      <4>1. sending' \in SUBSET Streams /\ inbox' = Append(inbox, [index |-> sending'])
        BY <1>3, <3>2 DEF ServerChanges, Typed
      <4> QED BY <1>1, <4>1, AcksOfAppend DEF Typed
    <3> QED BY <3>1, <3>2
  <2> QED BY <1>3, <2>1 DEF ServerChanges, client, shown, Quiet
<1>4. CASE Join
  <2>1. Acks(inbox') = {}
    BY <1>4 DEF Join, Acks
  <2> QED BY <1>1, <1>4, <2>1 DEF Join, shown, Quiet, SameAcks, Single
<1>5. CASE ReceiveIndex
  <2>1. SameAcks(inbox, inbox')
    BY <1>1, <1>5, AcksOfTail, FrameIs DEF ReceiveIndex, Typed
  <2>2. phase' = phase \/ (phase \in {"joining", "idle"} /\ phase' = "attach")
    BY <1>5 DEF ReceiveIndex, Update
  <2> QED BY <1>1, <1>5, <2>1, <2>2 DEF ReceiveIndex, shown, Quiet
<1>6. CASE AppUpdates
  BY <1>1, <1>6, SameAcksAsBefore DEF AppUpdates, Update, shown, Quiet
<1>7. CASE Pause
  <2>1. PICK n \in Slots :
          tiles[n] # NoTile /\ tiles' = [tiles EXCEPT ![n].paused = TRUE, ![n].told = TRUE]
    BY <1>7 DEF Pause
  <2>2. \A k \in Slots :
          /\ k # n => tiles'[k] = tiles[k]
          /\ tiles'[k].attendee = tiles[k].attendee /\ tiles'[k].stream = tiles[k].stream
    BY <2>1, PausedTiles DEF Typed
  <2> QED BY <1>1, <1>7, <2>1, <2>2, SameAcksAsBefore DEF Pause, client, Quiet
<1>8. CASE Unpause
  <2>1. PICK n \in Slots :
          tiles[n].paused /\ tiles' = [tiles EXCEPT ![n].paused = FALSE, ![n].told = FALSE]
    BY <1>8 DEF Unpause
  <2>2. \A k \in Slots :
          /\ k # n => tiles'[k] = tiles[k]
          /\ tiles'[k].attendee = tiles[k].attendee /\ tiles'[k].stream = tiles[k].stream
    BY <2>1, PausedTiles DEF Typed
  <2>3. tiles[n] # NoTile
    BY <2>1 DEF NoTile
  <2> QED BY <1>1, <1>8, <2>1, <2>2, <2>3, SameAcksAsBefore DEF Unpause, client, Quiet
<1>9. CASE UNCHANGED vars
  BY <1>1, <1>9, SameAcksAsBefore DEF vars, client, shown, Quiet
<1> QED BY <1>3, <1>4, <1>5, <1>6, <1>7, <1>8, <1>9

LEMMA FollowQuiet == FollowInv /\ Quiet => FollowInv'
<1> SUFFICES ASSUME FollowInv, Quiet PROVE FollowInv'
  OBVIOUS
<1>1. /\ UNCHANGED <<ack, flows, slots, misnamed>> /\ Single(inbox')
      /\ \A n \in Slots : tiles'[n] # NoTile =>
           tiles[n] # NoTile /\ tiles'[n].attendee = tiles[n].attendee
  BY DEF Quiet, SameAcks
<1>2. ASSUME NEW f, Follows(f, slots, flows, misnamed, tiles)
      PROVE  Follows(f, slots', flows', misnamed', tiles')
  BY <1>1, <1>2, FollowsStays
<1>3. ASSUME NEW j \in Acks(inbox')
      PROVE  phase' = "ack" /\ Follows(inbox'[j].tracks, slots', flows', misnamed', tiles')
  <2>1. PICK i \in Acks(inbox) : inbox'[j] = inbox[i]
    BY <1>3 DEF Quiet, SameAcks
  <2>2. phase' = phase
    BY <2>1 DEF Quiet
  <2> QED BY <1>2, <2>1, <2>2 DEF FollowInv
<1> QED BY <1>1, <1>2, <1>3 DEF FollowInv, Quiet

\* The slots that AttachMediaInputTask gives can follow what is received.
LEMMA PlanFollows ==
  ASSUME Typed, FollowInv, TileInv, Attach
  PROVE  /\ Follows(Plan(slots'), slots', flows', misnamed', tiles')
         /\ DOMAIN slots \subseteq DOMAIN slots'
<1> DEFINE a == slots'
           f == Plan(a)
<1>1. /\ a = AssignSlots(DOMAIN slots) /\ UNCHANGED <<flows, tiles, ack>> /\ ack = flows
      /\ misnamed' = (misnamed \/ \E n \in DOMAIN slots :
                                     /\ tiles[n] # NoTile /\ Kept(n) = {} /\ a[n] # None
                                     /\ AttendeeOf(a[n]) # tiles[n].attendee)
  BY DEF Attach, FollowInv
<1>2. Attachable
  BY CanAttach
<1>3. /\ \A n \in DOMAIN a : a[n] \in wanted \cup {None}
      /\ DOMAIN slots \subseteq DOMAIN a
      /\ \A m, n \in DOMAIN a : m # n /\ a[m] # None => a[m] # a[n]
      /\ \A n \in DOMAIN slots : Kept(n) # {} => a[n] \in Kept(n)
      /\ \A n \in DOMAIN a : Kept(n) = {} \/ n \notin DOMAIN slots =>
           \A m \in DOMAIN slots : a[n] \notin Kept(m)
  BY <1>1, <1>2, AssignSlotsExact
<1>4. \A n \in Slots : f[n] = IF n \in DOMAIN a THEN a[n] ELSE None
  BY DEF Plan
<1>5. wanted \subseteq index /\ index \subseteq Streams /\ wanted = Highest(index)
  BY HighestIs DEF Typed
<1> HIDE DEF f, a
<1>6. Apart(f)
  <2> SUFFICES ASSUME NEW m \in Slots, NEW n \in Slots, m # n, f[m] # None, f[n] # None
               PROVE  AttendeeOf(f[m]) # AttendeeOf(f[n])
    BY DEF Apart
  <2>1. f[m] \in wanted /\ f[n] \in wanted /\ f[m] # f[n]
    BY <1>3, <1>4
  <2> QED BY <1>5, <2>1, HighestIs
<1>7. ASSUME NEW n \in Slots, f[n] # None PROVE n \in DOMAIN a
  BY <1>4, <1>7
<1>8. ASSUME NEW m \in Slots, NEW n \in Slots, f[m] # None, f[m] = flows[n] PROVE m = n
  <2>1. m \in DOMAIN a /\ f[m] = a[m] /\ a[m] \in wanted
    BY <1>3, <1>4, <1>8
  <2>2. a[m] \in Kept(n)
    BY <1>1, <1>5, <1>8, <2>1 DEF Kept, SameGroup
  <2>3. n \in DOMAIN slots
    BY <1>8 DEF FollowInv, Follows
  <2>4. Kept(m) # {} /\ m \in DOMAIN slots
    BY <1>3, <2>1, <2>2, <2>3
  <2> QED BY <1>2, <1>3, <2>2, <2>4, KeptIs
<1>9. ASSUME NEW n \in Slots, ~misnamed', tiles'[n] # NoTile, f[n] # None
      PROVE  AttendeeOf(f[n]) = tiles'[n].attendee
  <2>1. flows[n] # None /\ tiles[n] # NoTile
    BY <1>1, <1>9 DEF TileInv
  <2>2. n \in DOMAIN slots /\ AttendeeOf(flows[n]) = tiles[n].attendee
    BY <1>1, <1>9, <2>1 DEF FollowInv, Follows
  <2>3. f[n] = a[n] /\ a[n] # None
    BY <1>4, <1>9
  <2>4. CASE Kept(n) = {}
    BY <1>1, <1>9, <2>1, <2>2, <2>3, <2>4
  <2>5. CASE Kept(n) # {}
    <3>1. a[n] \in Kept(n)
      BY <1>3, <2>2, <2>5
    <3> QED BY <1>1, <1>2, <2>2, <2>3, <3>1, KeptIs
  <2> QED BY <2>4, <2>5
<1>10. Follows(f, a, flows', misnamed', tiles')
  BY <1>1, <1>6, <1>7, <1>8, <1>9 DEF Follows
<1> QED BY <1>3, <1>10 DEF a, f

\* Once the answer is set, what it says is what is received.
LEMMA AnswerFollows ==
  ASSUME Typed, FollowInv, TileInv, SetRemote
  PROVE  Follows(ack, slots', ack, misnamed', tiles')
<1>1. slots' = slots /\ Follows(ack, slots, flows, misnamed, tiles)
  BY DEF SetRemote, FollowInv
<1>2. ASSUME NEW m \in Slots, NEW n \in Slots, ack[m] # None, ack[m] = ack[n] PROVE m = n
  BY <1>1, <1>2 DEF Follows, Apart
<1>3. ASSUME NEW n \in Slots, ~misnamed', tiles'[n] # NoTile, ack[n] # None
      PROVE  AttendeeOf(ack[n]) = tiles'[n].attendee
  <2>1. CASE tiles'[n] = tiles[n]
    BY <1>1, <1>3, <2>1, RemoteTiles DEF Follows
  <2>2. CASE tiles'[n] # tiles[n]
    <3>1. tiles'[n] = NewTile(n) /\ AttendeeForTrack(n) # None
      BY <1>3, <2>2, RemoteTiles
    <3> QED BY <3>1 DEF NewTile, AttendeeForTrack
  <2> QED BY <2>1, <2>2
<1> QED BY <1>1, <1>2, <1>3 DEF Follows

LEMMA FollowStep == Typed /\ Typed' /\ FollowInv /\ TileInv /\ [Next]_vars => FollowInv'
<1> SUFFICES ASSUME Typed, Typed', FollowInv, TileInv, [Next]_vars PROVE FollowInv'
  OBVIOUS
<1>1. Single(inbox) /\ (phase # "ack" => Acks(inbox) = {})
  BY DEF FollowInv
<1>2. CASE ServerChanges \/ Join \/ ReceiveIndex \/ AppUpdates \/ Pause \/ Unpause \/ UNCHANGED vars
  BY <1>2, IsQuiet, FollowQuiet
<1>3. CASE Attach
  <2>1. /\ phase = "attach" /\ phase' = "subscribe" /\ UNCHANGED <<inbox, ack, flows, tiles>>
        /\ misnamed => misnamed'
    BY <1>3 DEF Attach
  <2>2. Follows(flows, slots', flows', misnamed', tiles')
    BY <1>3, <2>1, PlanFollows, FollowsStays DEF FollowInv
  <2> QED BY <1>1, <1>3, <2>1, <2>2, PlanFollows DEF FollowInv
<1>4. CASE Subscribe
  <2> DEFINE t == [n \in Slots |-> IF n \in DOMAIN slots /\ slots[n] \in sending THEN slots[n] ELSE None]
             f == [tracks |-> t]
  <2>1. /\ phase = "subscribe" /\ phase' = "ack" /\ inbox' = Append(inbox, f)
        /\ UNCHANGED <<ack, flows, tiles, slots, misnamed>>
    BY <1>4 DEF Subscribe, shown
  <2>2. Follows(Plan(slots), slots, flows, misnamed, tiles)
    BY <2>1 DEF FollowInv
  <2>3. \A n \in Slots : t[n] \in {Plan(slots)[n], None}
    BY DEF Plan
  <2>4. f.tracks = t
    OBVIOUS
  <2> HIDE DEF t, f
  <2>5. Follows(t, slots, flows, misnamed, tiles)
    <3> HIDE DEF Plan
    <3> QED BY <2>2, <2>3 DEF Follows, Apart
  <2>6. \A i \in Acks(inbox') : i = Len(inbox) + 1 /\ inbox'[i] = f
    <3>1. inbox \in Seq(Frames) /\ Acks(inbox) = {}
      BY <1>1, <2>1 DEF Typed
    <3>2. /\ DOMAIN inbox' = DOMAIN inbox \cup {Len(inbox) + 1} /\ inbox'[Len(inbox) + 1] = f
          /\ \A i \in DOMAIN inbox : inbox'[i] = inbox[i]
      BY <2>1, <3>1
    <3> QED BY <3>1, <3>2 DEF Acks
  <2> QED BY <2>1, <2>4, <2>5, <2>6 DEF FollowInv, Single
<1>5. CASE ReceiveAck
  <2>1. /\ ack' = Head(inbox).tracks /\ inbox' = Tail(inbox) /\ phase' = "remote"
        /\ "tracks" \in DOMAIN Head(inbox) /\ inbox # <<>>
        /\ UNCHANGED <<flows, tiles, slots, misnamed>>
    BY <1>5 DEF ReceiveAck, shown
  <2>2. 1 \in Acks(inbox) /\ inbox[1] = Head(inbox) /\ Acks(inbox') = {}
    BY <1>1, <2>1, AcksOfTail DEF Typed
  <2>3. Follows(ack', slots, flows, misnamed, tiles)
    BY <2>1, <2>2 DEF FollowInv
  <2> QED BY <2>1, <2>2, <2>3 DEF FollowInv, Single
<1>6. CASE SetRemote
  <2>1. /\ phase = "remote" /\ phase' \in {"attach", "idle"} /\ flows' = ack /\ ack' = ack /\ inbox' = inbox
    BY <1>6 DEF SetRemote
  <2> QED BY <1>1, <1>6, <2>1, AnswerFollows DEF FollowInv, Single
<1>7. CASE Fail
  <2>1. /\ phase' = "down" /\ inbox' = <<>> /\ ack' = NoTracks /\ flows' = NoTracks
    BY <1>7 DEF Fail
  <2>2. \A n \in Slots : flows'[n] = None
    BY <2>1, NoTracksType
  <2>3. Acks(inbox') = {}
    BY <2>1 DEF Acks
  <2>4. Follows(flows', slots', flows', misnamed', tiles')
    BY <2>2 DEF Follows, Apart
  <2> QED BY <2>1, <2>3, <2>4 DEF FollowInv, Single
<1> QED BY <1>2, <1>3, <1>4, <1>5, <1>6, <1>7 DEF Next

LEMMA TileStep == Typed /\ Typed' /\ FollowInv /\ TileInv /\ [Next]_vars => TileInv'
<1> SUFFICES ASSUME Typed, Typed', FollowInv, TileInv, [Next]_vars PROVE TileInv'
  OBVIOUS
<1>1. ASSUME Quiet, \A n \in Slots : tiles'[n].told = tiles'[n].paused PROVE TileInv'
  BY <1>1 DEF Quiet, TileInv, OneTilePerAttendee
<1>2. ASSUME tiles' = tiles PROVE \A n \in Slots : tiles'[n].told = tiles'[n].paused
  BY <1>2 DEF TileInv
<1>3. CASE ServerChanges \/ Join \/ ReceiveIndex \/ AppUpdates \/ UNCHANGED vars
  <2>1. tiles' = tiles
    BY <1>3 DEF ServerChanges, Join, ReceiveIndex, AppUpdates, vars, shown
  <2>2. Quiet
    BY <1>3, IsQuiet
  <2> QED BY <1>1, <1>2, <2>1, <2>2
<1>4. CASE Pause
  <2>1. PICK n \in Slots : tiles' = [tiles EXCEPT ![n].paused = TRUE, ![n].told = TRUE]
    BY <1>4 DEF Pause
  <2>2. \A k \in Slots : tiles'[k].told = tiles'[k].paused
    <3>1. tiles'[n].told = TRUE /\ tiles'[n].paused = TRUE /\ \A k \in Slots : k # n => tiles'[k] = tiles[k]
      BY <2>1, PausedTiles DEF Typed
    <3>2. \A k \in Slots : tiles[k].told = tiles[k].paused
      BY DEF TileInv
    <3> QED BY <3>1, <3>2
  <2> QED BY <1>1, <1>4, <2>2, IsQuiet
<1>5. CASE Unpause
  <2>1. PICK n \in Slots : tiles' = [tiles EXCEPT ![n].paused = FALSE, ![n].told = FALSE]
    BY <1>5 DEF Unpause
  <2>2. \A k \in Slots : tiles'[k].told = tiles'[k].paused
    <3>1. tiles'[n].told = FALSE /\ tiles'[n].paused = FALSE /\ \A k \in Slots : k # n => tiles'[k] = tiles[k]
      BY <2>1, PausedTiles DEF Typed
    <3>2. \A k \in Slots : tiles[k].told = tiles[k].paused
      BY DEF TileInv
    <3> QED BY <3>1, <3>2
  <2> QED BY <1>1, <1>5, <2>2, IsQuiet
<1>6. CASE Attach \/ Subscribe \/ ReceiveAck
  <2>1. UNCHANGED <<tiles, flows, switched>>
    BY <1>6 DEF Attach, Subscribe, ReceiveAck, shown
  <2> QED BY <2>1 DEF TileInv, OneTilePerAttendee
<1>7. CASE SetRemote
  <2>1. flows' = ack
    BY <1>7 DEF SetRemote
  <2>2. ASSUME NEW m \in Slots, NEW n \in Slots, m < n, tiles'[m] # NoTile, tiles'[n] # NoTile
        PROVE  tiles'[m].attendee # tiles'[n].attendee
    <3>1. NewTile(m).attendee = AttendeeForTrack(m) /\ NewTile(n).attendee = AttendeeForTrack(n)
      BY DEF NewTile
    <3>2. tiles'[m] = tiles[m] /\ tiles'[n] = tiles[n] => tiles'[m].attendee # tiles'[n].attendee
      BY <2>2, AttendeeType DEF TileInv, OneTilePerAttendee
    <3> QED BY <1>7, <2>2, <3>1, <3>2, RemoteTiles
  <2>3. OneTilePerAttendee'
    <3>1. \A m, n \in Slots : m # n => m < n \/ n < m
      BY AttendeeType
    <3> QED BY <2>2, <3>1 DEF OneTilePerAttendee
  <2>4. ASSUME NEW n \in Slots
        PROVE  /\ tiles'[n] # NoTile => flows'[n] # None
               /\ ~switched' /\ tiles'[n] # NoTile => tiles'[n].stream = flows'[n]
               /\ tiles'[n].told = tiles'[n].paused
    <3>1. NewTile(n).stream = ack[n] /\ NewTile(n).told = NewTile(n).paused /\ NoTile.told = NoTile.paused
      BY DEF NewTile, NoTile
    <3> QED BY <1>7, <2>1, <3>1, RemoteTiles DEF TileInv
  <2> QED BY <2>3, <2>4 DEF TileInv
<1>8. CASE Fail
  <2>1. \A n \in Slots : tiles'[n] = NoTile
    BY <1>8 DEF Fail, RemoveTiles
  <2>2. NoTile.told = NoTile.paused
    BY DEF NoTile
  <2> QED BY <2>1, <2>2 DEF TileInv, OneTilePerAttendee
<1> QED BY <1>3, <1>4, <1>5, <1>6, <1>7, <1>8 DEF Next

\* All steps but a subscription and the end of a connection leave what is served.
LEMMA ServedStays ==
  ASSUME Typed, FollowInv, [Next]_vars, Typed', ~Subscribe, ~Fail
  PROVE  Served' = Served
<1>1. Single(inbox) /\ (phase # "ack" => Acks(inbox) = {})
  BY DEF FollowInv
<1>2. CASE ServerChanges \/ Join \/ ReceiveIndex \/ AppUpdates \/ Pause \/ Unpause \/ UNCHANGED vars
  <2>1. Quiet
    BY <1>2, IsQuiet
  <2> QED BY <2>1, InForceStays, ServedIs DEF Quiet
<1>3. CASE Attach
  <2>1. /\ phase = "attach" /\ phase' = "subscribe" /\ UNCHANGED <<inbox, ack, flows>>
    BY <1>3 DEF Attach
  <2> QED BY <1>1, <2>1, SameAcksAsBefore, InForceStays, ServedIs
<1>4. CASE ReceiveAck
  <2>1. /\ ack' = Head(inbox).tracks /\ inbox' = Tail(inbox) /\ phase' = "remote" /\ inbox # <<>>
        /\ "tracks" \in DOMAIN Head(inbox)
    BY <1>4 DEF ReceiveAck
  <2>2. 1 \in Acks(inbox) /\ inbox[1] = Head(inbox) /\ Acks(inbox') = {}
    BY <1>1, <2>1, AcksOfTail DEF Typed
  <2>3. InForce(inbox, phase, ack, flows) = ack'
    <3>1. (CHOOSE i \in Acks(inbox) : TRUE) = 1
      BY <1>1, <2>2 DEF Single
    <3> QED BY <2>1, <2>2, <3>1 DEF InForce
  <2>4. InForce(inbox', phase', ack', flows') = ack'
    BY <2>1, <2>2 DEF InForce
  <2> QED BY <2>3, <2>4, ServedIs
<1>5. CASE SetRemote
  <2>1. /\ phase = "remote" /\ phase' \in {"attach", "idle"} /\ flows' = ack /\ inbox' = inbox
    BY <1>5 DEF SetRemote
  <2>2. InForce(inbox, phase, ack, flows) = ack /\ InForce(inbox', phase', ack', flows') = ack
    BY <1>1, <2>1 DEF InForce
  <2> QED BY <2>2, ServedIs
<1> QED BY <1>2, <1>3, <1>4, <1>5 DEF Next

LEMMA PauseStep == Typed /\ Typed' /\ FollowInv /\ TileInv /\ PauseInv /\ [Next]_vars => PauseInv'
<1> SUFFICES ASSUME Typed, Typed', FollowInv, TileInv, PauseInv, [Next]_vars PROVE PauseInv'
  OBVIOUS
\* No stream is received in two slots.
<1>0. ASSUME NEW m \in Slots, NEW n \in Slots, flows[m] # None, flows[m] = flows[n] PROVE m = n
  BY <1>0 DEF FollowInv, Follows
<1>1. CASE ServerChanges \/ Join \/ ReceiveIndex \/ AppUpdates \/ Attach \/ ReceiveAck \/ UNCHANGED vars
  <2>1. UNCHANGED <<halted, tiles, flows, switched>>
    BY <1>1 DEF ServerChanges, Join, ReceiveIndex, AppUpdates, Attach, ReceiveAck, vars, shown
  <2>2. ~Subscribe /\ ~Fail
    BY <1>1 DEF ServerChanges, Join, ReceiveIndex, AppUpdates, Attach, ReceiveAck, Subscribe, Fail,
                vars, shown, client, Update
  <2>3. Served' = Served
    BY <2>2, ServedStays
  <2> QED BY <2>1, <2>3 DEF PauseInv, PauseReachesStream
<1>2. CASE Pause
  <2>1. PICK n \in Slots :
          /\ tiles[n] # NoTile /\ ~tiles[n].paused
          /\ halted' = IF tiles[n].told THEN halted ELSE halted \cup ({tiles[n].stream} \cap Served)
          /\ tiles' = [tiles EXCEPT ![n].paused = TRUE, ![n].told = TRUE]
    BY <1>2 DEF Pause
  <2>2. Served' = Served /\ UNCHANGED <<flows, switched>>
    BY <1>2, ServedStays DEF Pause, Subscribe, Fail, client
  <2>3. tiles'[n].paused = TRUE /\ \A k \in Slots : k # n => tiles'[k] = tiles[k]
    BY <2>1, PausedTiles DEF Typed
  <2>4. halted' = halted \cup ({tiles[n].stream} \cap Served)
    BY <2>1 DEF TileInv
  <2>5. flows[n] # None /\ (~switched => tiles[n].stream = flows[n])
    BY <2>1 DEF TileInv
  <2>6. ASSUME ~switched', NEW s \in halted' PROVE \E k \in Slots : tiles'[k].paused /\ flows'[k] = s
    BY <2>2, <2>3, <2>4, <2>5, <2>6 DEF PauseInv
  <2>7. ASSUME NEW k \in Slots, ~switched', tiles'[k] # NoTile, flows'[k] \in Served'
        PROVE  tiles'[k].paused <=> flows'[k] \in halted'
    <3>1. CASE k = n
      BY <2>2, <2>3, <2>4, <2>5, <2>7, <3>1
    <3>2. CASE k # n
      <4>1. flows[k] # flows[n] /\ tiles'[k] = tiles[k]
        BY <1>0, <2>3, <2>5, <3>2
      <4>2. flows'[k] \in halted' <=> flows[k] \in halted
        BY <2>2, <2>4, <2>5, <2>7, <4>1
      <4> QED BY <2>2, <2>7, <4>1, <4>2 DEF PauseInv, PauseReachesStream
    <3> QED BY <3>1, <3>2
  <2> QED BY <2>2, <2>4, <2>6, <2>7 DEF PauseInv, PauseReachesStream
<1>3. CASE Unpause
  <2>1. PICK n \in Slots :
          /\ tiles[n].paused
          /\ halted' = IF tiles[n].told THEN halted \ {tiles[n].stream} ELSE halted
          /\ tiles' = [tiles EXCEPT ![n].paused = FALSE, ![n].told = FALSE]
    BY <1>3 DEF Unpause
  <2>2. Served' = Served /\ UNCHANGED <<flows, switched>>
    BY <1>3, ServedStays DEF Unpause, Subscribe, Fail, client
  <2>3. tiles'[n].paused = FALSE /\ \A k \in Slots : k # n => tiles'[k] = tiles[k]
    BY <2>1, PausedTiles DEF Typed
  <2>4. halted' = halted \ {tiles[n].stream}
    BY <2>1 DEF TileInv
  <2>5. tiles[n] # NoTile
    BY <2>1 DEF NoTile
  <2>6. flows[n] # None /\ (~switched => tiles[n].stream = flows[n])
    BY <2>5 DEF TileInv
  <2>7. ASSUME ~switched', NEW s \in halted' PROVE \E k \in Slots : tiles'[k].paused /\ flows'[k] = s
    <3>1. PICK k \in Slots : tiles[k].paused /\ flows[k] = s
      BY <2>2, <2>4, <2>7 DEF PauseInv
    <3>2. k # n
      BY <2>2, <2>4, <2>6, <2>7, <3>1
    <3> QED BY <2>2, <2>3, <3>1, <3>2
  <2>8. ASSUME NEW k \in Slots, ~switched', tiles'[k] # NoTile, flows'[k] \in Served'
        PROVE  tiles'[k].paused <=> flows'[k] \in halted'
    <3>1. CASE k = n
      BY <2>2, <2>3, <2>4, <2>6, <2>8, <3>1
    <3>2. CASE k # n
      <4>1. flows[k] # flows[n] /\ tiles'[k] = tiles[k]
        BY <1>0, <2>3, <2>6, <3>2
      <4>2. flows'[k] \in halted' <=> flows[k] \in halted
        BY <2>2, <2>4, <2>6, <2>8, <4>1
      <4> QED BY <2>2, <2>8, <4>1, <4>2 DEF PauseInv, PauseReachesStream
    <3> QED BY <3>1, <3>2
  <2> QED BY <2>2, <2>4, <2>7, <2>8 DEF PauseInv, PauseReachesStream
<1>4. CASE Subscribe
  <2> DEFINE t == [n \in Slots |-> IF n \in DOMAIN slots /\ slots[n] \in sending THEN slots[n] ELSE None]
             f == [tracks |-> t]
  <2>1. /\ phase = "subscribe" /\ inbox' = Append(inbox, f)
        /\ halted' = {s \in halted : \E n \in Slots : t[n] = s}
        /\ UNCHANGED <<flows, tiles, switched, ack>>
    BY <1>4 DEF Subscribe, shown
  <2>2. f.tracks = t /\ "tracks" \in DOMAIN f
    OBVIOUS
  <2> HIDE DEF t, f
  <2>3. Acks(inbox) = {} /\ inbox \in Seq(Frames)
    BY <2>1 DEF FollowInv, Typed
  <2>4. /\ DOMAIN inbox' = DOMAIN inbox \cup {Len(inbox) + 1} /\ inbox'[Len(inbox) + 1] = f
        /\ \A i \in DOMAIN inbox : inbox'[i] = inbox[i]
    BY <2>1, <2>3
  <2>5. Acks(inbox') = {Len(inbox) + 1}
    BY <2>2, <2>3, <2>4 DEF Acks
  <2>6. InForce(inbox', phase', ack', flows') = t
    <3>1. (CHOOSE i \in Acks(inbox') : TRUE) = Len(inbox) + 1
      BY <2>5
    <3> QED BY <2>2, <2>4, <2>5, <3>1 DEF InForce
  <2>7. Served' = {t[n] : n \in Slots} \ {None}
    BY <2>6, ServedIs
  <2>8. InForce(inbox, phase, ack, flows) = flows
    BY <2>1, <2>3 DEF InForce
  <2>9. Served = {flows[n] : n \in Slots} \ {None}
    BY <2>8, ServedIs
  <2>10. halted' \subseteq Served' /\ halted' = halted \cap Served'
    BY <2>1, <2>7, <2>9 DEF PauseInv
  <2>11. ASSUME NEW n \in Slots, ~switched', tiles'[n] # NoTile, flows'[n] \in Served'
         PROVE  tiles'[n].paused <=> flows'[n] \in halted'
    <3>1. flows[n] \in Served
      BY <2>1, <2>7, <2>9, <2>11
    <3> QED BY <2>1, <2>10, <2>11, <3>1 DEF PauseInv, PauseReachesStream
  <2> QED BY <2>1, <2>10, <2>11 DEF PauseInv, PauseReachesStream
<1>5. CASE SetRemote
  <2>1. /\ phase = "remote" /\ flows' = ack /\ halted' = halted
    BY <1>5 DEF SetRemote
  <2>2. Served' = Served
    BY <1>5, ServedStays DEF SetRemote, Subscribe, Fail
  <2>3. Acks(inbox) = {}
    BY <2>1 DEF FollowInv
  <2>4. Served = {ack[n] : n \in Slots} \ {None}
    BY <2>1, <2>3, ServedIs DEF InForce
  <2>5. ASSUME ~switched', NEW s \in halted'
        PROVE  \E n \in Slots : ack[n] = s /\ flows[n] = s /\ tiles[n].paused /\ tiles'[n] = tiles[n]
    <3>1. ~switched
      BY <1>5, <2>5, RemoteTiles, AttendeeType
    <3>2. PICK n \in Slots : tiles[n].paused /\ flows[n] = s
      BY <2>1, <2>5, <3>1 DEF PauseInv
    <3>3. PICK m \in Slots : ack[m] = s /\ s # None
      BY <2>1, <2>4, <2>5 DEF PauseInv
    <3>4. m = n
      BY <3>2, <3>3 DEF FollowInv, Follows
    <3> QED BY <1>5, <3>2, <3>3, <3>4, RemoteTiles
  <2>6. ASSUME NEW n \in Slots, ~switched', tiles'[n] # NoTile
        PROVE  tiles'[n].paused <=> ack[n] \in halted'
    <3>1. CASE flows[n] # None /\ ack[n] # None /\ tiles'[n] = tiles[n]
      <4>1. ack[n] = flows[n] /\ ~switched
        BY <1>5, <2>6, <3>1, RemoteTiles
      <4>2. flows[n] \in Served
        BY <2>4, <3>1, <4>1
      <4> QED BY <2>1, <2>6, <3>1, <4>1, <4>2 DEF PauseInv, PauseReachesStream
    <3>2. CASE flows[n] = None /\ ack[n] # None /\ tiles'[n] = NewTile(n)
      <4>1. ~tiles'[n].paused
        BY <3>2 DEF NewTile
      <4>2. ASSUME ack[n] \in halted' PROVE FALSE
        <5>1. PICK k \in Slots : ack[k] = ack[n] /\ flows[k] = ack[n]
          BY <2>5, <2>6, <4>2
        <5>2. k = n
          BY <3>2, <5>1 DEF FollowInv, Follows
        <5> QED BY <3>2, <5>1, <5>2
      <4> QED BY <4>1, <4>2
    <3> QED BY <1>5, <2>6, <3>1, <3>2, RemoteTiles
  <2>7. ~switched' => \A s \in halted' : \E n \in Slots : tiles'[n].paused /\ flows'[n] = s
    BY <2>1, <2>5
  <2> QED BY <2>1, <2>2, <2>6, <2>7 DEF PauseInv, PauseReachesStream
<1>6. CASE Fail
  <2>1. /\ halted' = {} /\ \A n \in Slots : tiles'[n] = NoTile
    BY <1>6 DEF Fail, RemoveTiles
  <2> QED BY <2>1 DEF PauseInv, PauseReachesStream
<1> QED BY <1>1, <1>2, <1>3, <1>4, <1>5, <1>6 DEF Next

-----------------------------------------------------------------------------
(* Theorems.                                                                *)

LEMMA VideoInvariant == Spec => []VideoInv
<1>1. VideoInv /\ [Next]_vars => VideoInv'
  BY TypedStep, FollowStep, TileStep, PauseStep DEF VideoInv
<1> QED BY <1>1, VideoInit, PTL DEF Spec

\* No attendee has two tiles: the tracks that come with one answer are added one
\* after the other, and addRemoteVideoTrack asks haveVideoTileForAttendeeId.
THEOREM AttendeesHaveOneTile == Spec => []OneTilePerAttendee
<1>1. VideoInv => OneTilePerAttendee
  BY DEF VideoInv, TileInv
<1> QED BY <1>1, VideoInvariant, PTL

\* A tile shows the attendee that it was bound to in addRemoteVideoTrack, because
\* unsubscribeTransceivers keeps the slot of a group, but for the connections in
\* which a slot changed hands in one update or a track came without a name.
THEOREM TilesShowTheirAttendee == Spec => []TileShowsItsAttendee
<1>1. VideoInv => TileShowsItsAttendee
  BY DEF VideoInv, TileInv, FollowInv, Follows, TileShowsItsAttendee
<1> QED BY <1>1, VideoInvariant, PTL

\* pauseVideoTile and unpauseVideoTile reach the stream that the tile shows, and
\* no other tile's, also while a subscription is under way.
THEOREM PausingReachesStream == Spec => []PauseReachesStream
<1>1. VideoInv => PauseReachesStream
  BY DEF VideoInv, PauseInv
<1> QED BY <1>1, VideoInvariant, PTL

\* updateVideoTransceivers gives every wanted stream exactly one slot and nothing
\* else a slot, and a group that goes on keeps the slot that it has.
THEOREM SlotsAreGivenExactly == Spec => SlotsAreExact
<1> DEFINE Begins == phase = "attach" /\ phase' = "subscribe"
<1>1. ASSUME VideoInv, Attach
      PROVE  /\ \A s \in wanted : Cardinality({n \in DOMAIN slots' : slots'[n] = s}) = 1
             /\ \A n \in DOMAIN slots' : slots'[n] \in wanted \cup {None}
             /\ \A n \in DOMAIN slots, s \in wanted :
                  SameGroup(flows[n], s) /\ ack = flows => slots'[n] = s
  <2>1. Attachable /\ slots' = AssignSlots(DOMAIN slots) /\ DOMAIN slots \subseteq Slots
    BY <1>1, CanAttach, AttendeeType DEF VideoInv, Attach, Attachable
  <2>2. /\ \A n \in DOMAIN slots' : slots'[n] \in wanted \cup {None}
        /\ \A s \in wanted : \E n \in DOMAIN slots' : slots'[n] = s
        /\ \A m, n \in DOMAIN slots' : m # n /\ slots'[m] # None => slots'[m] # slots'[n]
        /\ \A n \in DOMAIN slots : Kept(n) # {} => slots'[n] \in Kept(n)
    BY <2>1, AssignSlotsExact
  <2>3. None \notin wanted
    BY <2>1, HighestIs, AttendeeType DEF Attachable
  <2>4. ASSUME NEW s \in wanted
        PROVE  Cardinality({n \in DOMAIN slots' : slots'[n] = s}) = 1
    <3>1. PICK n \in DOMAIN slots' : slots'[n] = s
      BY <2>2
    <3>2. {k \in DOMAIN slots' : slots'[k] = s} = {n}
      BY <2>2, <2>3, <3>1
    <3> QED BY <3>2, FS_Singleton
  <2>5. ASSUME NEW n \in DOMAIN slots, NEW s \in wanted, SameGroup(flows[n], s), ack = flows
        PROVE  slots'[n] = s
    <3>1. s \in Kept(n)
      BY <2>5 DEF Kept
    <3> QED BY <2>1, <2>2, <3>1, KeptIs
  <2> QED BY <2>2, <2>4, <2>5
<1>2. ASSUME [Next]_vars, Begins PROVE Attach
  BY <1>2 DEF Next, ServerChanges, Join, ReceiveIndex, AppUpdates, Update, Subscribe, ReceiveAck,
              SetRemote, Fail, Pause, Unpause, vars, client, shown
<1>3. VideoInv /\ [Next]_vars =>
        [phase = "attach" /\ phase' = "subscribe" =>
           /\ \A s \in wanted : Cardinality({n \in DOMAIN slots' : slots'[n] = s}) = 1
           /\ \A n \in DOMAIN slots' : slots'[n] \in wanted \cup {None}
           /\ \A n \in DOMAIN slots, s \in wanted :
                SameGroup(flows[n], s) /\ ack = flows => slots'[n] = s]_vars
  BY <1>1, <1>2
<1> QED BY <1>3, VideoInvariant, PTL DEF Spec, SlotsAreExact

=============================================================================
