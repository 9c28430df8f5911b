----------------------- MODULE SignalingClient_proofs -----------------------
(***************************************************************************)
(* Theorems about SignalingClient, for every number of sessions, sockets    *)
(* and waiting requests.  The argument is in one invariant, SignalingInv:   *)
(* until a close listener disturbs it, the adapter refers to the one live   *)
(* socket of the current client, and the flags of that client say in which  *)
(* state this socket is.                                                    *)
(***************************************************************************)
EXTENDS SignalingClient, TLAPS

Stages == {"media", "opening", "reopening", "doomed", "failed", "up",
           "leaving", "cleaning", "down"}
SocketRecords == [owner : Clients, state : Live \cup {"unused", "closed"}]
ClientRecords == [queue : Nat, isClosing : BOOLEAN, wasOpened : BOOLEAN, unload : BOOLEAN]

\* The types of adapter, sockets and clients.
Typed(w) == w \in [conn : {0} \cup Sockets, sock : [Sockets -> SocketRecords],
                   client : [Clients -> ClientRecords]]

\* A socket that was used belongs to a session that has begun, and the one
\* between its error and its close event is closed.  n: the current client; f: failing.
Owned(w, n, f) ==
  /\ \A s \in Sockets : w.sock[s].state # "unused" => w.sock[s].owner <= n
  /\ f # 0 => w.sock[f].state = "closed"

\* The adapter belongs to the current client, which has no other live socket.
Follows(w, n) ==
  /\ w.conn # 0 => w.sock[w.conn].owner = n
  /\ \A s \in Sockets : w.sock[s].owner = n /\ w.sock[s].state \in Live => s = w.conn

\* Whoever waits has a socket whose close event is still to come; of the
\* current client it is the one that the adapter refers to.
Pending(w, s, f) == w.sock[s].state \in Live \/ f = s
Served(w, n, f) ==
  /\ \A c \in Clients : w.client[c].queue > 0 =>
       \E s \in Sockets : w.sock[s].owner = c /\ Pending(w, s, f)
  /\ n # 0 /\ w.client[n].queue > 0 => w.conn # 0 /\ Pending(w, w.conn, f)

\* The flags of the current client follow its socket.
Flagged(w, n) ==
  w.conn # 0 /\ n # 0 =>
    /\ w.sock[w.conn].state \in {"connecting", "open"} => ~w.client[n].isClosing
    /\ w.sock[w.conn].state = "open" => w.client[n].wasOpened

Calm(w, n, f) == Follows(w, n) /\ Served(w, n, f) /\ Flagged(w, n)

\* The invariant.
SignalingInv ==
  /\ Typed(World) /\ current \in 0 .. MaxClients /\ stage \in Stages
  /\ failing \in {0} \cup Sockets /\ disturbed \in BOOLEAN
  /\ stage # "down" => current # 0
  /\ Owned(World, current, failing)
  /\ ~disturbed => Calm(World, current, failing)

-----------------------------------------------------------------------------
(* The operators on adapter, sockets and clients.                           *)

\* All but the current client are served: what holds while its own request is
\* looked at.
OthersServed(w, n, f) ==
  \A c \in Clients \ {n} : w.client[c].queue > 0 =>
    \E s \in Sockets : w.sock[s].owner = c /\ Pending(w, s, f)

Unused(w) == {s \in Sockets : w.sock[s].state = "unused"}

LEMMA CreateTakesUnused ==
  ASSUME NEW w, Typed(w), NEW c, Unused(w) # {}
  PROVE  \E s \in Unused(w) :
           Create(w, c) = [w EXCEPT !.conn = s, !.sock = [w.sock EXCEPT
                                      ![s] = [owner |-> c, state |-> "connecting"]]]
<1> DEFINE s == CHOOSE t \in Sockets : w.sock[t].state = "unused"
<1>1. s \in Unused(w)
  BY DEF Unused
<1>2. Create(w, c) = [w EXCEPT !.conn = s, !.sock = [w.sock EXCEPT
                                 ![s] = [owner |-> c, state |-> "connecting"]]]
  <2> HIDE DEF s
  <2>1. [w EXCEPT !.conn = s].sock = w.sock
    BY DEF Typed
  <2> QED BY <2>1 DEF Create, s, Typed
<1> QED BY <1>1, <1>2

\* The client takes its next request: types and owners, whoever is current.
LEMMA ServiceQueueTyped ==
  ASSUME NEW w, Typed(w), NEW n \in Clients, NEW f \in {0} \cup Sockets, Owned(w, n, f),
         NEW c \in Clients, c <= n, w.client[c].queue = 0 \/ Unused(w) # {}
  PROVE  Typed(ServiceQueue(w, c)) /\ Owned(ServiceQueue(w, c), n, f)
<1>1. CASE w.client[c].queue = 0
  BY <1>1 DEF ServiceQueue
<1>2. CASE w.client[c].queue # 0
  <2>1. PICK s \in Unused(w) :
          Create(w, c) = [w EXCEPT !.conn = s, !.sock = [w.sock EXCEPT
                                     ![s] = [owner |-> c, state |-> "connecting"]]]
    BY <1>2, CreateTakesUnused
  <2> DEFINE socks == [w.sock EXCEPT ![s] = [owner |-> c, state |-> "connecting"]]
             fewer == [w.client[c] EXCEPT !.queue = @ - 1, !.isClosing = FALSE]
             next  == [w EXCEPT !.conn = s, !.sock = socks, !.client = [w.client EXCEPT ![c] = fewer]]
  <2>2. ServiceQueue(w, c) = next
    BY <1>2, <2>1 DEF ServiceQueue, Typed, ClientRecords
  <2>3. socks \in [Sockets -> SocketRecords]
    BY DEF Typed, SocketRecords, Live, Unused
  <2>4. fewer \in ClientRecords
    <3>1. w.client[c] \in ClientRecords /\ w.client[c].queue - 1 \in Nat
      BY <1>2 DEF Typed, ClientRecords
    <3> QED BY <3>1 DEF ClientRecords
  <2>5. \A t \in Sockets : t # s => socks[t] = w.sock[t]
    BY DEF Typed
  <2>6. socks[s].owner = c /\ w.sock[s].state = "unused"
    BY DEF Typed, Unused
  <2> HIDE DEF socks, fewer
  <2>7. Typed(next) /\ next.sock = socks
    BY <2>3, <2>4 DEF Typed, Unused
  <2> HIDE DEF next
  <2> QED BY <2>2, <2>5, <2>6, <2>7 DEF Owned
<1> QED BY <1>1, <1>2

\* The current client takes its next request when it has no connection.
LEMMA ServiceQueueCalm ==
  ASSUME NEW w, Typed(w), NEW n \in Clients, NEW f \in {0} \cup Sockets, Owned(w, n, f),
         w.client[n].queue = 0 \/ Unused(w) # {}, ~HasConnection(w),
         Follows(w, n), OthersServed(w, n, f)
  PROVE  Calm(ServiceQueue(w, n), n, f)
<1>1. CASE w.client[n].queue = 0
  <2>1. Flagged(w, n)
    BY DEF Flagged, HasConnection, Live
  <2>2. Served(w, n, f)
    BY <1>1 DEF Served, OthersServed
  <2> QED BY <1>1, <2>1, <2>2 DEF ServiceQueue, Calm
<1>2. CASE w.client[n].queue # 0
  <2>1. PICK s \in Unused(w) :
          Create(w, n) = [w EXCEPT !.conn = s, !.sock = [w.sock EXCEPT
                                     ![s] = [owner |-> n, state |-> "connecting"]]]
    BY <1>2, CreateTakesUnused
  <2> DEFINE socks == [w.sock EXCEPT ![s] = [owner |-> n, state |-> "connecting"]]
             fewer == [w.client[n] EXCEPT !.queue = @ - 1, !.isClosing = FALSE]
             users == [w.client EXCEPT ![n] = fewer]
             next  == [w EXCEPT !.conn = s, !.sock = socks, !.client = users]
  <2>2. ServiceQueue(w, n) = next
    BY <1>2, <2>1 DEF ServiceQueue, Typed, ClientRecords
  <2>3. \A t \in Sockets : t # s => socks[t] = w.sock[t]
    BY DEF Typed
  <2>4. socks[s].owner = n /\ socks[s].state = "connecting" /\ w.sock[s].state = "unused"
    BY DEF Typed, Unused
  <2>5. users[n].isClosing = FALSE /\ \A c \in Clients \ {n} : users[c] = w.client[c]
    BY DEF Typed, ClientRecords
  <2>6. s \in Sockets /\ s # 0
    BY SignalingBounds DEF Unused, Sockets
  <2> HIDE DEF socks, users
  <2>7. next.conn = s /\ next.sock = socks /\ next.client = users
    BY DEF Typed
  <2> HIDE DEF next
  <2>8. Follows(next, n)
    <3>1. ASSUME NEW t \in Sockets, t # s, w.sock[t].owner = n, w.sock[t].state \in Live PROVE FALSE
      BY <2>6, <3>1 DEF Follows, HasConnection, Sockets
    <3> QED BY <2>3, <2>4, <2>7, <3>1 DEF Follows
  <2>9. Flagged(next, n)
    BY <2>4, <2>5, <2>7 DEF Flagged
  <2>10. Served(next, n, f)
    <3>1. ASSUME NEW c \in Clients \ {n}, users[c].queue > 0
          PROVE  \E t \in Sockets : socks[t].owner = c /\ Pending(next, t, f)
      <4>1. PICK t \in Sockets : w.sock[t].owner = c /\ Pending(w, t, f)
        BY <2>5, <3>1 DEF OthersServed
      <4>2. t # s
        BY <2>4, <2>6, <4>1 DEF Pending, Live, Owned
      <4> QED BY <2>3, <2>7, <4>1, <4>2 DEF Pending
    <3>2. Pending(next, s, f)
      BY <2>4, <2>7 DEF Pending, Live
    <3> QED BY <2>4, <2>6, <2>7, <3>1, <3>2 DEF Served
  <2> QED BY <2>2, <2>8, <2>9, <2>10 DEF Calm
<1> QED BY <1>1, <1>2

LEMMA CloseConnectionTyped ==
  ASSUME NEW w, Typed(w), NEW n \in Clients, NEW f \in {0} \cup Sockets, Owned(w, n, f),
         HasConnection(w) \/ w.client[n].queue = 0 \/ Unused(w) # {}
  PROVE  Typed(CloseConnection(w, n)) /\ Owned(CloseConnection(w, n), n, f)
<1>1. CASE HasConnection(w)
  <2> DEFINE user  == [w.client[n] EXCEPT !.isClosing = TRUE, !.unload = FALSE]
             socks == [w.sock EXCEPT ![w.conn] = [w.sock[w.conn] EXCEPT !.state = "closing"]]
             next  == [w EXCEPT !.client = [w.client EXCEPT ![n] = user], !.sock = socks]
  <2>1. CloseConnection(w, n) = next
    BY <1>1 DEF CloseConnection, Typed, ClientRecords, SocketRecords
  <2>2. user \in ClientRecords
    BY DEF Typed, ClientRecords
  <2>3. /\ w.conn \in Sockets /\ socks \in [Sockets -> SocketRecords]
        /\ \A t \in Sockets : socks[t].owner = w.sock[t].owner
        /\ \A t \in Sockets : t # w.conn => socks[t] = w.sock[t]
        /\ w.sock[w.conn].state \notin {"unused", "closed"}
    BY <1>1 DEF HasConnection, Typed, SocketRecords, Live
  <2> HIDE DEF user, socks
  <2>4. Typed(next) /\ next.sock = socks
    BY <2>2, <2>3 DEF Typed
  <2> HIDE DEF next
  <2> QED BY <2>1, <2>3, <2>4 DEF Owned
<1>2. CASE ~HasConnection(w)
  <2>1. n <= n
    BY SignalingBounds DEF Clients
  <2> QED BY <1>2, <2>1, ServiceQueueTyped DEF CloseConnection
<1> QED BY <1>1, <1>2

\* Closing: the live socket is told to close, or the next request is served.
LEMMA CloseConnectionCalm ==
  ASSUME NEW w, Typed(w), NEW n \in Clients, NEW f \in {0} \cup Sockets, Owned(w, n, f),
         HasConnection(w) \/ w.client[n].queue = 0 \/ Unused(w) # {},
         Follows(w, n), OthersServed(w, n, f)
  PROVE  Calm(CloseConnection(w, n), n, f)
<1>1. CASE HasConnection(w)
  <2> DEFINE user  == [w.client[n] EXCEPT !.isClosing = TRUE, !.unload = FALSE]
             users == [w.client EXCEPT ![n] = user]
             socks == [w.sock EXCEPT ![w.conn] = [w.sock[w.conn] EXCEPT !.state = "closing"]]
             next  == [w EXCEPT !.client = users, !.sock = socks]
  <2>1. CloseConnection(w, n) = next
    BY <1>1 DEF CloseConnection, Typed, ClientRecords, SocketRecords
  <2>2. \A c \in Clients \ {n} : users[c] = w.client[c]
    BY DEF Typed
  <2>3. /\ w.conn \in Sockets /\ w.conn # 0
        /\ \A t \in Sockets : socks[t].owner = w.sock[t].owner
        /\ \A t \in Sockets : t # w.conn => socks[t] = w.sock[t]
        /\ socks[w.conn].state = "closing" /\ w.sock[w.conn].state \in Live
    BY <1>1 DEF HasConnection, Typed, SocketRecords, Live
  <2> HIDE DEF users, socks
  <2>4. next.sock = socks /\ next.client = users /\ next.conn = w.conn
    BY DEF Typed
  <2> HIDE DEF next
  <2>5. \A t \in Sockets : Pending(w, t, f) <=> Pending(next, t, f)
    BY <2>3, <2>4 DEF Pending, Live
  <2>6. Follows(next, n)
    BY <2>3, <2>4 DEF Follows, Live
  <2>7. Flagged(next, n)
    BY <2>3, <2>4 DEF Flagged
  <2>8. Pending(next, next.conn, f)
    BY <2>3, <2>4 DEF Pending, Live
  <2>9. Served(next, n, f)
    <3>1. ASSUME NEW c \in Clients, users[c].queue > 0
          PROVE  \E t \in Sockets : next.sock[t].owner = c /\ Pending(next, t, f)
      <4>1. CASE c = n
        BY <2>3, <2>4, <2>6, <2>8, <4>1 DEF Follows
      <4>2. CASE c # n
        BY <2>2, <2>3, <2>4, <2>5, <3>1, <4>2 DEF OthersServed
      <4> QED BY <4>1, <4>2
    <3> QED BY <2>3, <2>4, <2>8, <3>1 DEF Served
  <2> QED BY <2>1, <2>6, <2>7, <2>9 DEF Calm
<1>2. CASE ~HasConnection(w)
  BY <1>2, ServiceQueueCalm DEF CloseConnection
<1> QED BY <1>1, <1>2

\* openConnection: the request is pushed, then the connection is closed.
LEMMA OpenConnectionKeeps ==
  ASSUME NEW w, Typed(w), NEW n \in Clients, NEW f \in {0} \cup Sockets, Owned(w, n, f),
         Unused(w) # {}
  PROVE  /\ Typed(OpenConnection(w, n)) /\ Owned(OpenConnection(w, n), n, f)
         /\ Calm(w, n, f) => Calm(OpenConnection(w, n), n, f)
<1> DEFINE user  == [w.client[n] EXCEPT !.queue = @ + 1]
           users == [w.client EXCEPT ![n] = user]
           pushed == [w EXCEPT !.client = users]
<1>1. OpenConnection(w, n) = CloseConnection(pushed, n)
  BY DEF OpenConnection
<1>2. user \in ClientRecords
  BY DEF Typed, ClientRecords
<1> HIDE DEF user
<1>3. users \in [Clients -> ClientRecords] /\ \A c \in Clients \ {n} : users[c] = w.client[c]
  BY <1>2 DEF Typed
<1> HIDE DEF users
<1>4. Typed(pushed) /\ pushed.conn = w.conn /\ pushed.sock = w.sock /\ pushed.client = users
  BY <1>3 DEF Typed
<1> HIDE DEF pushed
<1>5. Owned(pushed, n, f) /\ Unused(pushed) # {}
  BY <1>4 DEF Owned, Unused
<1>6. ASSUME Calm(w, n, f) PROVE Follows(pushed, n) /\ OthersServed(pushed, n, f)
  BY <1>3, <1>4, <1>6 DEF Calm, Follows, Served, OthersServed, Pending
<1> QED BY <1>1, <1>4, <1>5, <1>6, CloseConnectionTyped, CloseConnectionCalm

\* The close listener of socket s, of client c, when the socket has been marked
\* closed: it disturbs nobody if the adapter refers to s or to none, and a client that
\* is no longer the current one has no request.
LEMMA OnCloseKeeps ==
  ASSUME NEW w, Typed(w), NEW n \in Clients, NEW s \in Sockets, NEW f \in {0, s},
         Owned(w, n, f), w.sock[s].state # "unused", NEW c, c = w.sock[s].owner,
         w.client[c].queue = 0 \/ Unused(w) # {},
         NEW closed, closed = [w EXCEPT !.sock[s].state = "closed"]
  PROVE  /\ Typed(OnClose(closed, c)) /\ Owned(OnClose(closed, c), n, 0)
         /\ ~OnClose(closed, c).client[c].wasOpened
         /\ Calm(w, n, f) /\ w.conn \in {0, s} /\ (c = n \/ w.client[c].queue = 0)
              => Calm(OnClose(closed, c), n, 0)
<1> DEFINE socks == [w.sock EXCEPT ![s] = [w.sock[s] EXCEPT !.state = "closed"]]
           user  == [w.client[c] EXCEPT !.unload = FALSE, !.wasOpened = FALSE]
           users == [w.client EXCEPT ![c] = user]
           reset == [w EXCEPT !.conn = 0, !.sock = socks, !.client = users]
<1>0. c \in Clients /\ c <= n
  BY DEF Typed, SocketRecords, Owned
<1>1. OnClose(closed, c) = ServiceQueue(reset, c)
  <2>1. closed = [w EXCEPT !.sock = socks]
    BY DEF Typed, SocketRecords
  <2> HIDE DEF socks
  <2>2. ResetConnection([closed EXCEPT !.client[c].unload = FALSE], c) = reset
    BY ZenonT(60), <1>0, <2>1 DEF ResetConnection, Destroy, Typed, ClientRecords
  <2> QED BY <2>2 DEF OnClose
<1>2. /\ socks \in [Sockets -> SocketRecords]
      /\ \A t \in Sockets : socks[t].owner = w.sock[t].owner
      /\ \A t \in Sockets : t # s => socks[t] = w.sock[t]
      /\ socks[s].state = "closed"
  BY DEF Typed, SocketRecords
<1>3. user \in ClientRecords /\ user.queue = w.client[c].queue /\ user.wasOpened = FALSE
  BY <1>0 DEF Typed, ClientRecords
<1> HIDE DEF socks, user
<1>4. /\ users \in [Clients -> ClientRecords] /\ users[c] = user
      /\ \A d \in Clients : users[d].queue = w.client[d].queue
  BY <1>0, <1>3 DEF Typed
<1> HIDE DEF users
<1>5. Typed(reset) /\ reset.conn = 0 /\ reset.sock = socks /\ reset.client = users
  BY <1>2, <1>4 DEF Typed
<1> HIDE DEF reset
<1>6. /\ Owned(reset, n, 0) /\ ~HasConnection(reset)
      /\ reset.client[c].queue = 0 \/ Unused(reset) # {}
  <2>1. Unused(reset) = Unused(w)
    BY <1>2, <1>5 DEF Unused
  <2> QED BY <1>0, <1>2, <1>4, <1>5, <2>1 DEF Owned, HasConnection
<1>7. Typed(ServiceQueue(reset, c)) /\ Owned(ServiceQueue(reset, c), n, 0)
  BY <1>0, <1>5, <1>6, 0 \in {0} \cup Sockets, ServiceQueueTyped
<1>8. ~ServiceQueue(reset, c).client[c].wasOpened
  <2>1. CASE reset.client[c].queue = 0
    BY <1>3, <1>4, <1>5, <2>1 DEF ServiceQueue
  <2>2. CASE reset.client[c].queue # 0
    <3>1. PICK t \in Unused(reset) :
            Create(reset, c) = [reset EXCEPT !.conn = t, !.sock = [reset.sock EXCEPT
                                               ![t] = [owner |-> c, state |-> "connecting"]]]
      BY <1>5, <1>6, <2>2, CreateTakesUnused
    <3>2. Create(reset, c).client = users /\ "client" \in DOMAIN Create(reset, c)
      BY <1>5, <3>1 DEF Typed
    <3>3. ServiceQueue(reset, c).client[c] = [users[c] EXCEPT !.queue = @ - 1, !.isClosing = FALSE]
      BY <1>0, <1>4, <2>2, <3>2 DEF ServiceQueue
    <3> QED BY <1>3, <1>4, <3>3 DEF ClientRecords
  <2> QED BY <2>1, <2>2
<1>9. ASSUME Calm(w, n, f), w.conn \in {0, s}, c = n \/ w.client[c].queue = 0
      PROVE  Calm(ServiceQueue(reset, c), n, 0)
  <2>1. Follows(reset, n)
    BY <1>2, <1>5, <1>9 DEF Calm, Follows, Live
  <2>2. ASSUME NEW d \in Clients \ {c}, reset.client[d].queue > 0
        PROVE  \E t \in Sockets : reset.sock[t].owner = d /\ Pending(reset, t, 0)
    <3>1. PICK t \in Sockets : w.sock[t].owner = d /\ Pending(w, t, f)
      BY <1>4, <1>5, <1>9, <2>2 DEF Calm, Served
    <3> QED BY <1>2, <1>5, <3>1 DEF Pending
  <2>3. CASE c = n
    <3>1. OthersServed(reset, n, 0)
      BY <2>2, <2>3 DEF OthersServed
    <3> QED BY <1>5, <1>6, <2>1, <2>3, <3>1, ServiceQueueCalm
  <2>4. CASE c # n
    <3>1. reset.client[c].queue = 0 /\ ServiceQueue(reset, c) = reset
      BY <1>0, <1>4, <1>5, <1>9, <2>4 DEF ServiceQueue
    <3>2. ~(w.client[n].queue > 0)
      <4>1. SUFFICES ASSUME w.client[n].queue > 0 PROVE FALSE
        OBVIOUS
      <4>2. n # 0
        BY DEF Clients
      <4>3. w.conn # 0 /\ w.sock[w.conn].owner = n
        BY <1>9, <4>1, <4>2 DEF Calm, Served, Follows
      <4> QED BY <1>9, <2>4, <4>3
    <3>3. Served(reset, n, 0)
      BY <1>4, <1>5, <2>2, <3>1, <3>2 DEF Served
    <3> QED BY <1>5, <2>1, <3>1, <3>3 DEF Calm, Flagged
  <2> QED BY <2>3, <2>4
<1> QED BY <1>1, <1>7, <1>8, <1>9

-----------------------------------------------------------------------------
(* The actions.                                                             *)

LEMMA BecomesKeepsInv ==
  ASSUME NEW w, Becomes(w), Typed(w), current' \in 0 .. MaxClients, stage' \in Stages,
         failing' \in {0} \cup Sockets, disturbed' \in BOOLEAN,
         stage' # "down" => current' # 0, Owned(w, current', failing'),
         ~disturbed' => Calm(w, current', failing')
  PROVE  SignalingInv'
<1>1. World' = w
  BY DEF World, Becomes, Typed
<1>2. Typed(World)' /\ Owned(World, current, failing)'
  BY <1>1 DEF Typed, Owned
<1>3. Calm(World, current, failing)' <=> Calm(w, current', failing')
  BY <1>1 DEF Calm, Follows, Served, Pending, Flagged
<1> QED BY <1>2, <1>3 DEF SignalingInv

\* Turns that leave adapter, sockets and clients alone.
LEMMA StageKeepsInv ==
  ASSUME SignalingInv, UNCHANGED <<conn, sock, client, current, failing, disturbed>>,
         stage' \in Stages, stage' # "down" => current # 0
  PROVE  SignalingInv'
<1>1. Becomes(World)
  BY DEF Becomes, World
<1> QED BY <1>1, BecomesKeepsInv DEF SignalingInv

LEMMA ConnectKeepsInv ==
  ASSUME SignalingInv, Connect
  PROVE  SignalingInv'
<1> DEFINE n == current + 1
           user  == [client[n] EXCEPT !.wasOpened = FALSE]
           users == [client EXCEPT ![n] = user]
           next  == [World EXCEPT !.conn = 0, !.client = users]
<1>1. /\ n \in Clients /\ n \in 0 .. MaxClients /\ n # 0 /\ current' = n /\ failing' = 0
      /\ failing = 0 /\ disturbed' = disturbed /\ stage' = "media" /\ n > current
  BY SignalingBounds DEF Connect, SignalingInv, Clients
<1>2. Becomes(next)
  BY <1>1 DEF Connect, ResetConnection, Destroy, World, SignalingInv, Typed, ClientRecords
<1>3. user \in ClientRecords /\ user.queue = client[n].queue
  BY <1>1 DEF SignalingInv, Typed, World, ClientRecords
<1> HIDE DEF user
<1>4. users \in [Clients -> ClientRecords] /\ \A c \in Clients : users[c].queue = client[c].queue
  BY <1>1, <1>3 DEF SignalingInv, Typed, World
<1> HIDE DEF users
<1>5. Typed(next) /\ next.conn = 0 /\ next.sock = sock /\ next.client = users
  BY <1>4 DEF SignalingInv, Typed, World
<1> HIDE DEF next
<1>6. World.sock = sock /\ World.client = client
  BY DEF World
<1>7. \A s \in Sockets : sock[s].state # "unused" => sock[s].owner <= current /\ sock[s].owner # n
  <2>1. \A s \in Sockets : sock[s].owner \in Nat
    BY <1>6 DEF SignalingInv, Typed, SocketRecords, Clients
  <2>2. current \in Nat
    BY DEF SignalingInv
  <2> QED BY <1>6, <2>1, <2>2 DEF SignalingInv, Owned
<1>8. Owned(next, n, 0)
  <2>1. \A s \in Sockets : sock[s].owner \in Nat
    BY <1>6 DEF SignalingInv, Typed, SocketRecords, Clients
  <2>2. current \in Nat
    BY DEF SignalingInv
  <2> QED BY <1>5, <1>7, <2>1, <2>2 DEF Owned
<1>9. ASSUME ~disturbed PROVE Calm(next, n, 0)
  <2>1. Follows(next, n)
    BY <1>5, <1>7 DEF Follows, Live
  <2>2. Served(World, current, 0)
    BY <1>1, <1>9 DEF SignalingInv, Calm
  <2>3. ~(client[n].queue > 0)
    <3>1. SUFFICES ASSUME client[n].queue > 0 PROVE FALSE
      OBVIOUS
    <3>2. PICK s \in Sockets : sock[s].owner = n /\ Pending(World, s, 0)
      BY <1>1, <1>6, <2>2, <3>1 DEF Served
    <3>3. sock[s].state # "unused"
      BY <1>6, <3>2, SignalingBounds DEF Pending, Live, Sockets
    <3> QED BY <1>7, <3>2, <3>3
  <2>4. Served(next, n, 0)
    BY <1>1, <1>4, <1>5, <1>6, <2>2, <2>3 DEF Served, Pending
  <2> QED BY <1>5, <2>1, <2>4 DEF Calm, Flagged
<1> QED BY <1>1, <1>2, <1>5, <1>8, <1>9, BecomesKeepsInv DEF SignalingInv, Stages

LEMMA OpenKeepsInv ==
  ASSUME SignalingInv, Open \/ Reopen
  PROVE  SignalingInv'
<1>1. /\ Becomes(OpenConnection(World, current)) /\ stage' \in {"opening", "reopening"}
      /\ UNCHANGED <<current, failing, disturbed>> /\ Spare /\ stage # "down"
  BY DEF Open, Reopen
<1>2. current \in Clients /\ Unused(World) # {}
  BY <1>1 DEF SignalingInv, Clients, Spare, Unused, World
<1>3. /\ Typed(OpenConnection(World, current))
      /\ Owned(OpenConnection(World, current), current, failing)
      /\ ~disturbed => Calm(OpenConnection(World, current), current, failing)
  BY <1>2, OpenConnectionKeeps DEF SignalingInv
<1> QED BY <1>1, <1>2, <1>3, BecomesKeepsInv DEF SignalingInv, Stages

\* CleanStoppedSessionTask keeps what it finds.
LEMMA CleanKeepsInv ==
  ASSUME NEW w, Typed(w), current \in Clients, NEW f \in {0} \cup Sockets, Owned(w, current, f),
         Clean(w), UNCHANGED current, failing' = f, disturbed' \in BOOLEAN,
         ~disturbed' => Calm(w, current, f)
  PROVE  SignalingInv'
<1>1. current \in 0 .. MaxClients /\ current # 0
  BY DEF Clients
<1>2. CASE Ready(w, current)
  <2>1. HasConnection(w)
    BY <1>2 DEF Ready, HasConnection, Live
  <2>2. Typed(CloseConnection(w, current)) /\ Owned(CloseConnection(w, current), current, f)
    BY <2>1, CloseConnectionTyped
  <2>3. Calm(w, current, f) => Calm(CloseConnection(w, current), current, f)
    <3>1. Calm(w, current, f) => Follows(w, current) /\ OthersServed(w, current, f)
      BY DEF Calm, Served, OthersServed
    <3> QED BY <2>1, <3>1, CloseConnectionCalm
  <2> QED BY <1>1, <1>2, <2>2, <2>3, BecomesKeepsInv DEF Clean, Stages
<1>3. CASE ~Ready(w, current)
  BY <1>1, <1>3, BecomesKeepsInv DEF Clean, Stages
<1> QED BY <1>2, <1>3

LEMMA SocketOpensKeepsInv ==
  ASSUME SignalingInv, NEW s \in Sockets, SocketOpens(s)
  PROVE  SignalingInv'
<1> DEFINE c == sock[s].owner
           socks == [sock EXCEPT ![s].state = "open"]
           user  == [client[c] EXCEPT !.wasOpened = TRUE, !.unload = TRUE]
           users == [client EXCEPT ![c] = user]
           next  == [conn |-> conn, sock |-> socks, client |-> users]
<1>0. World.sock = sock /\ World.client = client /\ World.conn = conn
  BY DEF World
<1>1. c \in Clients
  BY <1>0 DEF SignalingInv, Typed, SocketRecords
<1>2. /\ Becomes(next) /\ UNCHANGED <<current, failing, disturbed>> /\ failing = 0
      /\ sock[s].state = "connecting"
  <2>1. [client EXCEPT ![c].wasOpened = TRUE, ![c].unload = TRUE] = users
    BY <1>0, <1>1 DEF SignalingInv, Typed, ClientRecords
  <2> HIDE DEF users
  <2> QED BY <2>1 DEF SocketOpens, Becomes
<1>3. /\ socks \in [Sockets -> SocketRecords]
      /\ \A t \in Sockets : socks[t].owner = sock[t].owner
      /\ \A t \in Sockets : t # s => socks[t] = sock[t]
      /\ socks[s].state = "open"
  BY <1>0 DEF SignalingInv, Typed, SocketRecords, Live
<1>4. /\ user \in ClientRecords /\ user.wasOpened = TRUE
       /\ user.queue = client[c].queue /\ user.isClosing = client[c].isClosing
  BY <1>0, <1>1 DEF SignalingInv, Typed, ClientRecords
<1> HIDE DEF user
<1>5. /\ users \in [Clients -> ClientRecords] /\ users[c].wasOpened = TRUE
      /\ \A d \in Clients : /\ users[d].queue = client[d].queue
                            /\ users[d].isClosing = client[d].isClosing
                            /\ client[d].wasOpened => users[d].wasOpened
  BY <1>0, <1>1, <1>4 DEF SignalingInv, Typed
<1> HIDE DEF socks, users
<1>6. Typed(next) /\ next.sock = socks /\ next.client = users /\ next.conn = conn
  BY <1>0, <1>3, <1>5 DEF SignalingInv, Typed
<1> HIDE DEF next
<1>7. Owned(next, current, 0)
  BY <1>0, <1>2, <1>3, <1>6 DEF SignalingInv, Owned
<1>8. ASSUME ~disturbed PROVE Calm(next, current, 0)
  <2>1. Calm(World, current, 0)
    BY <1>2, <1>8 DEF SignalingInv
  <2>2. \A t \in Sockets : Pending(World, t, 0) => Pending(next, t, 0)
    BY <1>0, <1>3, <1>6 DEF Pending, Live
  <2>3. Follows(next, current)
    <3>1. conn # 0 => conn \in Sockets
      BY <1>0 DEF SignalingInv, Typed
    <3> QED BY <3>1, <1>0, <1>2, <1>3, <1>6, <2>1 DEF Calm, Follows, Live
  <2>4. Served(next, current, 0)
    <3>1. current # 0 => current \in Clients
      BY DEF SignalingInv, Clients
    <3>2. conn # 0 => conn \in Sockets
      BY <1>0 DEF SignalingInv, Typed
    <3> QED BY <1>0, <1>3, <1>5, <1>6, <2>1, <2>2, <3>1, <3>2 DEF Calm, Served
  <2>5. Flagged(next, current)
    <3>1. SUFFICES ASSUME conn # 0, current # 0
                   PROVE  /\ socks[conn].state \in {"connecting", "open"} => ~users[current].isClosing
                          /\ socks[conn].state = "open" => users[current].wasOpened
      BY <1>6 DEF Flagged
    <3>2. current \in Clients /\ conn \in Sockets
      BY <1>0, <3>1 DEF SignalingInv, Clients, Typed
    <3>3. CASE conn = s
      BY <1>0, <1>2, <1>5, <2>1, <3>1, <3>2, <3>3 DEF Calm, Flagged, Follows
    <3>4. CASE conn # s
      BY <1>0, <1>3, <1>5, <2>1, <3>1, <3>2, <3>4 DEF Calm, Flagged
    <3> QED BY <3>3, <3>4
  <2> QED BY <2>3, <2>4, <2>5 DEF Calm
<1>9. stage' \in Stages /\ (stage' # "down" => current # 0)
  BY DEF SocketOpens, SignalingInv, Stages
<1> QED BY <1>2, <1>6, <1>7, <1>8, <1>9, BecomesKeepsInv DEF SignalingInv

LEMMA SocketErrsKeepsInv ==
  ASSUME SignalingInv, NEW s \in Sockets, SocketErrs(s)
  PROVE  SignalingInv'
<1> DEFINE c == sock[s].owner
           socks == [sock EXCEPT ![s].state = "closed"]
           w == [World EXCEPT !.sock = socks]
<1>0. World.sock = sock /\ World.client = client /\ World.conn = conn
  BY DEF World
<1>1. /\ UNCHANGED <<current, disturbed>> /\ failing = 0 /\ failing' = s
      /\ sock[s].state \in Live /\ s # 0
  BY SignalingBounds DEF SocketErrs, Sockets
<1>2. \/ c = current /\ stage = "leaving" /\ Clean(w)
      \/ /\ Becomes(w) /\ stage' \in {stage, "doomed", "failed"}
         /\ stage = "down" => stage' = stage
  <2>1. w = [World EXCEPT !.sock[s].state = "closed"]
    BY <1>0 DEF World
  <2> HIDE DEF w
  <2> QED BY <2>1 DEF SocketErrs, Rejected
<1>3. /\ socks \in [Sockets -> SocketRecords]
      /\ \A t \in Sockets : socks[t].owner = sock[t].owner
      /\ \A t \in Sockets : t # s => socks[t] = sock[t]
      /\ socks[s].state = "closed"
  BY <1>0 DEF SignalingInv, Typed, SocketRecords
<1> HIDE DEF socks
<1>4. Typed(w) /\ w.sock = socks /\ w.client = client /\ w.conn = conn
  BY <1>0, <1>3 DEF SignalingInv, Typed, World
<1> HIDE DEF w
<1>5. Owned(w, current, s)
  BY <1>0, <1>1, <1>3, <1>4 DEF SignalingInv, Owned, Live
<1>6. ASSUME ~disturbed PROVE Calm(w, current, s)
  <2>1. Calm(World, current, 0)
    BY <1>1, <1>6 DEF SignalingInv
  <2>2. \A t \in Sockets : Pending(World, t, 0) => Pending(w, t, s)
    BY <1>0, <1>1, <1>3, <1>4 DEF Pending, Sockets
  <2>3. conn # 0 => conn \in Sockets
    BY <1>0 DEF SignalingInv, Typed
  <2>4. Follows(w, current)
    BY <1>0, <1>3, <1>4, <2>1, <2>3 DEF Calm, Follows, Live
  <2>5. Served(w, current, s)
    BY <1>0, <1>3, <1>4, <2>1, <2>2, <2>3 DEF Calm, Served
  <2>6. Flagged(w, current)
    BY <1>0, <1>3, <1>4, <2>1, <2>3 DEF Calm, Flagged
  <2> QED BY <2>4, <2>5, <2>6 DEF Calm
<1>7. CASE c = current /\ stage = "leaving" /\ Clean(w)
  <2>1. current \in Clients
    BY <1>7 DEF SignalingInv, Clients
  <2> QED BY <1>1, <1>4, <1>5, <1>6, <1>7, <2>1, CleanKeepsInv DEF SignalingInv
<1>8. CASE Becomes(w) /\ stage' \in {stage, "doomed", "failed"} /\ (stage = "down" => stage' = stage)
  BY <1>1, <1>4, <1>5, <1>6, <1>8, BecomesKeepsInv DEF SignalingInv, Stages
<1> QED BY <1>2, <1>7, <1>8

LEMMA SocketClosesKeepsInv ==
  ASSUME SignalingInv, NEW s \in Sockets, SocketCloses(s)
  PROVE  SignalingInv'
<1> DEFINE c == sock[s].owner
           closed == [World EXCEPT !.sock[s].state = "closed"]
           w == OnClose(closed, c)
<1>0. World.sock = sock /\ World.client = client /\ World.conn = conn
  BY DEF World
<1>1. /\ UNCHANGED current /\ failing \in {0, s} /\ failing' = 0
      /\ disturbed' = (disturbed \/ Disturbs(s))
      /\ client[c].queue = 0 \/ Unused(World) # {}
  BY <1>0 DEF SocketCloses, Spare, Unused
<1>2. \/ c = current /\ stage = "leaving" /\ Clean(w)
      \/ Becomes(w) /\ stage' \in {stage, "down"}
  <2> HIDE DEF w
  <2> QED BY DEF SocketCloses, w
<1>3. sock[s].state # "unused"
  BY <1>0, SignalingBounds DEF SocketCloses, SignalingInv, Owned, Sockets
<1>4. current \in Clients
  <2>1. sock[s].owner \in Nat \ {0} /\ sock[s].owner <= current
    BY <1>0, <1>3 DEF SignalingInv, Owned, Typed, SocketRecords, Clients
  <2> QED BY <2>1 DEF SignalingInv, Clients
<1>5. /\ Typed(w) /\ Owned(w, current, 0)
      /\ Calm(World, current, failing) /\ conn \in {0, s} /\ (c = current \/ client[c].queue = 0)
           => Calm(w, current, 0)
  <2> HIDE DEF closed
  <2>1. c = World.sock[s].owner /\ closed = [World EXCEPT !.sock[s].state = "closed"]
    BY <1>0 DEF closed
  <2> QED BY <1>0, <1>1, <1>3, <1>4, <2>1, OnCloseKeeps DEF SignalingInv
<1>6. ASSUME ~disturbed' PROVE Calm(w, current, 0)
  <2>1. ~disturbed /\ ~Disturbs(s)
    BY <1>1, <1>6
  <2>2. client[c].queue \in Nat
    BY <1>0 DEF SignalingInv, Typed, SocketRecords, ClientRecords
  <2>3. conn \in {0, s} /\ (c = current \/ client[c].queue = 0)
    BY <2>1, <2>2 DEF Disturbs
  <2> QED BY <1>5, <2>1, <2>3 DEF SignalingInv
<1>7. disturbed' \in BOOLEAN /\ 0 \in {0} \cup Sockets
  BY <1>1 DEF SignalingInv, Disturbs
<1> HIDE DEF w
<1>8. CASE c = current /\ stage = "leaving" /\ Clean(w)
  BY <1>1, <1>4, <1>5, <1>6, <1>7, <1>8, CleanKeepsInv
<1>9. CASE Becomes(w) /\ stage' \in {stage, "down"}
  BY <1>1, <1>5, <1>6, <1>7, <1>9, BecomesKeepsInv DEF SignalingInv, Stages
<1> QED BY <1>2, <1>8, <1>9

-----------------------------------------------------------------------------
LEMMA InitGivesInv == Init => SignalingInv
<1> SUFFICES ASSUME Init PROVE SignalingInv
  OBVIOUS
<1>1. /\ conn = 0 /\ current = 0 /\ stage = "down" /\ failing = 0 /\ disturbed = FALSE
      /\ sock = [s \in Sockets |-> [owner |-> 1, state |-> "unused"]]
      /\ client = [c \in Clients |-> NewClient]
  BY DEF Init
<1>2. Typed(World)
  <2>1. 1 \in Clients
    BY SignalingBounds DEF Clients
  <2> QED BY <1>1, <2>1 DEF Typed, World, SocketRecords, ClientRecords, NewClient
<1>3. Owned(World, 0, 0) /\ Calm(World, 0, 0)
  BY <1>1 DEF World, Owned, Calm, Follows, Served, Flagged, NewClient, Live
<1>4. 0 \in 0 .. MaxClients
  BY SignalingBounds
<1>5. Owned(World, current, failing) /\ Calm(World, current, failing)
  BY <1>1, <1>3
<1> QED BY <1>1, <1>2, <1>4, <1>5 DEF SignalingInv, Stages

LEMMA NextKeepsInv == SignalingInv /\ [Next]_vars => SignalingInv'
<1> SUFFICES ASSUME SignalingInv, [Next]_vars PROVE SignalingInv'
  OBVIOUS
<1>1. CASE Connect
  BY <1>1, ConnectKeepsInv
<1>2. CASE Open \/ Reopen
  BY <1>2, OpenKeepsInv
<1>3. CASE OpenTimesOut \/ Teardown \/ CleanTimesOut
  <2>1. /\ UNCHANGED <<conn, sock, client, current, failing, disturbed>> /\ stage' \in Stages
        /\ stage' # "down" => stage # "down"
    BY <1>3 DEF OpenTimesOut, Teardown, CleanTimesOut, Rejected, Stages
  <2> QED BY <2>1, StageKeepsInv DEF SignalingInv
<1>4. CASE LeaveEnds
  <2>1. current \in Clients /\ Clean(World) /\ UNCHANGED <<current, failing, disturbed>>
    BY <1>4 DEF LeaveEnds, SignalingInv, Clients
  <2> QED BY <2>1, CleanKeepsInv DEF SignalingInv
<1>5. ASSUME NEW s \in Sockets, SocketOpens(s) \/ SocketErrs(s) \/ SocketCloses(s)
      PROVE  SignalingInv'
  BY <1>5, SocketOpensKeepsInv, SocketErrsKeepsInv, SocketClosesKeepsInv
<1>6. CASE UNCHANGED vars
  BY <1>6, StageKeepsInv DEF vars, SignalingInv
<1> QED BY <1>1, <1>2, <1>3, <1>4, <1>5, <1>6 DEF Next

LEMMA Invariance == Spec => []SignalingInv
BY InitGivesInv, NextKeepsInv, PTL DEF Spec

\* The adapter follows the session: whatever sessions, time-outs, reconnections
\* and socket events come in whatever order, until a close listener has acted on
\* another client's or another socket's connection, the adapter refers to a socket
\* of the current client, which has no other live one (DefaultSignalingClient
\* openConnection, closeConnection and its close listener).
THEOREM AdapterIsFollowed == Spec => []AdapterFollowsSession
<1>1. SignalingInv => AdapterFollowsSession
  BY DEF SignalingInv, AdapterFollowsSession, Calm, Follows, Mine, World
<1> QED BY <1>1, Invariance, PTL

\* No request is forgotten: until then each client with a connection request in
\* its queue has a socket of its own whose close event will serve it
\* (serviceConnectionRequestQueue).
THEOREM WaitingIsServed == Spec => []RequestsAreServed
<1>1. SignalingInv => RequestsAreServed
  BY DEF SignalingInv, RequestsAreServed, Calm, Served, Pending, World
<1> QED BY <1>1, Invariance, PTL

\* ready() is exact: until then the client of the session is ready just when
\* one of its sockets is open, so that isClosing and wasOpened, which survive the
\* socket they were set for, never say otherwise.
THEOREM ReadyIsRight == Spec => []ReadyIsExact
<1>1. SignalingInv => ReadyIsExact
  <2> SUFFICES ASSUME SignalingInv, ~disturbed, current # 0
               PROVE  Ready(World, current) <=> \E s \in Mine : sock[s].state = "open"
    BY DEF ReadyIsExact
  <2>0. World.sock = sock /\ World.client = client /\ World.conn = conn /\ Calm(World, current, failing)
    BY DEF World, SignalingInv
  <2>1. conn # 0 => conn \in Sockets
    BY <2>0 DEF SignalingInv, Typed
  <2>2. ASSUME Ready(World, current) PROVE \E s \in Mine : sock[s].state = "open"
    BY <2>0, <2>1, <2>2 DEF Ready, Calm, Follows, Mine, Live
  <2>3. ASSUME NEW s \in Mine, sock[s].state = "open" PROVE Ready(World, current)
    <3>1. s = conn /\ conn # 0
      BY <2>0, <2>3, SignalingBounds DEF Calm, Follows, Mine, Sockets
    <3> QED BY <2>0, <2>3, <3>1 DEF Ready, Calm, Flagged
  <2> QED BY <2>2, <2>3
<1> QED BY <1>1, Invariance, PTL

=============================================================================
