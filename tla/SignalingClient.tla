-------------------------- MODULE SignalingClient --------------------------
(***************************************************************************)
(* DefaultSignalingClient on its DefaultWebSocketAdapter, as the tasks of    *)
(* an audio-video session use them.                                         *)
(*                                                                          *)
(* A session that starts makes a new client; all clients share the one      *)
(* adapter, which refers to one socket.  The listeners of a socket belong   *)
(* to the client that created it and stay when the adapter refers to        *)
(* another socket or none.  An action is one listener, timer or task turn;   *)
(* the operators map the record w of adapter, sockets and clients to the    *)
(* record that a method of the code leaves.                                 *)
(***************************************************************************)
EXTENDS Naturals

CONSTANTS MaxClients,  \* bound: sessions started
          MaxSockets,  \* bound: sockets created
          MaxQueue     \* bound: connection requests waiting in one client

ASSUME SignalingBounds == MaxClients \in Nat \ {0} /\ MaxSockets \in Nat /\ MaxQueue \in Nat

Clients == 1 .. MaxClients
Sockets == 1 .. MaxSockets

VARIABLES
  conn,      \* the adapter's connection: a socket, or 0 for null
  sock,      \* the sockets, with the client whose listeners they carry
  client,    \* the clients' fields
  current,   \* the client of the session's context, 0 before the first
  stage,     \* what the session's tasks are doing or waiting for
  failing,   \* a socket between its error and its close event, or 0
  disturbed  \* history: a close listener has interfered with another client's
             \* or another socket's connection (see Disturbs)

vars == <<conn, sock, client, current, stage, failing, disturbed>>

Live == {"connecting", "open", "closing"}

\* The stages. media: before the connection is requested; opening and reopening:
\* OpenSignalingConnectionTask waits, in AudioVideoStart or
\* AudioVideoReconnect; doomed and failed: it was rejected; up: anything after
\* it; leaving: LeaveAndReceiveLeaveAckTask waits; cleaning:
\* CleanStoppedSessionTask waits; down: no session.

NewClient == [queue |-> 0, isClosing |-> FALSE, wasOpened |-> FALSE, unload |-> FALSE]

World == [conn |-> conn, sock |-> sock, client |-> client]

Becomes(w) == conn' = w.conn /\ sock' = w.sock /\ client' = w.client

-----------------------------------------------------------------------------
(* DefaultWebSocketAdapter and DefaultSignalingClient.                      *)

\* readyState() is neither None nor Closed.
HasConnection(w) == w.conn # 0 /\ w.sock[w.conn].state \in Live

Destroy(w) == [w EXCEPT !.conn = 0]

Create(w, c) ==
  LET s == CHOOSE t \in Sockets : w.sock[t].state = "unused"
  IN  [w EXCEPT !.conn = s, !.sock[s] = [owner |-> c, state |-> "connecting"]]

ResetConnection(w, c) == [Destroy(w) EXCEPT !.client[c].wasOpened = FALSE]

ServiceQueue_StillClosing(w, c) ==   \* mutant: isClosing is not cleared
  IF w.client[c].queue = 0 THEN w
  ELSE [Create(w, c) EXCEPT !.client[c].queue = @ - 1]
ServiceQueue(w, c) ==
  IF w.client[c].queue = 0 THEN w
  ELSE [Create(w, c) EXCEPT !.client[c].queue = @ - 1, !.client[c].isClosing = FALSE]

\* The close() of a socket that is closing already does nothing.
CloseConnection_ServesAtOnce(w, c) ==   \* mutant: the queue does not wait for the close event
  ServiceQueue([w EXCEPT !.client[c].unload = FALSE], c)
CloseConnection(w, c) ==
  IF HasConnection(w)
  THEN [w EXCEPT !.client[c].isClosing = TRUE, !.client[c].unload = FALSE,
                 !.sock[w.conn].state = "closing"]
  ELSE ServiceQueue(w, c)

OpenConnection(w, c) == CloseConnection([w EXCEPT !.client[c].queue = @ + 1], c)

Ready(w, c) ==
  /\ w.conn # 0 /\ w.sock[w.conn].state = "open"
  /\ ~w.client[c].isClosing /\ w.client[c].wasOpened

\* The close listener: resetConnection() destroys whatever the adapter refers to.
OnClose_QueueForgotten(w, c) ==   \* mutant: the queue is not serviced
  ResetConnection([w EXCEPT !.client[c].unload = FALSE], c)
OnClose(w, c) ==
  ServiceQueue(ResetConnection([w EXCEPT !.client[c].unload = FALSE], c), c)

\* The event that the error listener sends, if any.
OnError(w, c) ==
  IF w.client[c].isClosing /\ ~w.client[c].wasOpened THEN "none"
  ELSE IF w.client[c].wasOpened THEN "WebSocketError" ELSE "WebSocketFailed"

\* The close listener of socket s takes away a connection that is not its own,
\* or connects a client whose session has been replaced.
Disturbs(s) ==
  \/ conn \notin {0, s}
  \/ (sock[s].owner # current /\ client[sock[s].owner].queue > 0)

-----------------------------------------------------------------------------
(* The session's tasks.                                                     *)

Spare == \E t \in Sockets : sock[t].state = "unused"

\* actionConnect: the constructor of the new client destroys the adapter's
\* connection, whatever its state.
Connect ==
  /\ stage = "down" /\ failing = 0
  /\ current < MaxClients
  /\ current' = current + 1 /\ stage' = "media"
  /\ Becomes(ResetConnection(World, current + 1))
  /\ UNCHANGED <<failing, disturbed>>

\* OpenSignalingConnectionTask of AudioVideoStart.
Open ==
  /\ stage = "media" /\ failing = 0
  /\ Spare
  /\ Becomes(OpenConnection(World, current)) /\ stage' = "opening"
  /\ UNCHANGED <<current, failing, disturbed>>

\* OpenSignalingConnectionTask of AudioVideoReconnect, on the same client.
\* After a failure a deferred Reconnect runs in the microtasks that follow the
\* error listener, before the close listener of the same socket.
Reopen ==
  /\ stage = "failed" \/ (stage = "up" /\ failing = 0)
  /\ Spare /\ client[current].queue < MaxQueue
  /\ Becomes(OpenConnection(World, current)) /\ stage' = "reopening"
  /\ UNCHANGED <<current, failing, disturbed>>

\* Where a rejection of OpenSignalingConnectionTask leaves the session: a first
\* connection will be torn down, a reconnecting one is Connected again.
Rejected == IF stage = "opening" THEN "doomed" ELSE "failed"

OpenTimesOut ==
  /\ stage \in {"opening", "reopening"} /\ failing = 0
  /\ stage' = Rejected
  /\ UNCHANGED <<conn, sock, client, current, failing, disturbed>>

\* CleanStoppedSessionTask, from the turn in which the leave task has ended.
Clean(w) ==
  IF Ready(w, current)
  THEN Becomes(CloseConnection(w, current)) /\ stage' = "cleaning"
  ELSE Becomes(w) /\ stage' = "down"

\* actionDisconnect: leave and clean end at once when the client is not ready.
Teardown ==
  /\ stage \in {"media", "opening", "reopening", "doomed", "failed", "up"}
  /\ failing = 0 \/ stage \in {"doomed", "failed"}
  /\ stage' = IF Ready(World, current) THEN "leaving" ELSE "down"
  /\ UNCHANGED <<conn, sock, client, current, failing, disturbed>>

\* The LEAVE_ACK arrives, or the wait for it times out.
LeaveEnds ==
  /\ stage = "leaving" /\ failing = 0
  /\ Clean(World)
  /\ UNCHANGED <<current, failing, disturbed>>

CleanTimesOut ==
  /\ stage = "cleaning" /\ failing = 0
  /\ stage' = "down"
  /\ UNCHANGED <<conn, sock, client, current, failing, disturbed>>

-----------------------------------------------------------------------------
(* The events of the sockets.                                               *)

SocketOpens(s) ==
  /\ sock[s].state = "connecting" /\ failing = 0
  /\ LET c == sock[s].owner
     IN  /\ sock' = [sock EXCEPT ![s].state = "open"]
         /\ client' = [client EXCEPT ![c].wasOpened = TRUE, ![c].unload = TRUE]
         /\ stage' = IF c = current /\ stage \in {"opening", "reopening"} THEN "up" ELSE stage
  /\ UNCHANGED <<conn, current, failing, disturbed>>

\* The error listener, and the microtasks that its event makes runnable.
SocketErrs(s) ==
  /\ sock[s].state \in Live /\ failing = 0
  /\ failing' = s
  /\ LET c     == sock[s].owner
         event == OnError(World, c)
         w     == [World EXCEPT !.sock[s].state = "closed"]
     IN  IF c = current /\ stage = "leaving" /\ event # "none" THEN Clean(w)
         ELSE /\ Becomes(w)
              /\ stage' = IF /\ c = current /\ event = "WebSocketFailed"
                             /\ stage \in {"opening", "reopening"}
                          THEN Rejected ELSE stage
  /\ UNCHANGED <<current, disturbed>>

\* The close listener: after the error event, or at the end of a close
\* handshake or of a connection that the server has closed.
SocketCloses(s) ==
  /\ failing = s \/ (failing = 0 /\ sock[s].state \in {"open", "closing"})
  /\ LET c == sock[s].owner
         w == OnClose([World EXCEPT !.sock[s].state = "closed"], c)
     IN  /\ client[c].queue = 0 \/ Spare
         /\ IF c = current /\ stage = "leaving" THEN Clean(w)
            ELSE /\ Becomes(w)
                 /\ stage' = IF c = current /\ stage = "cleaning" THEN "down" ELSE stage
  /\ failing' = 0 /\ disturbed' = (disturbed \/ Disturbs(s))
  /\ UNCHANGED current

-----------------------------------------------------------------------------
Init ==
  /\ conn = 0 /\ current = 0 /\ stage = "down"
  /\ sock = [s \in Sockets |-> [owner |-> 1, state |-> "unused"]]
  /\ client = [c \in Clients |-> NewClient]
  /\ failing = 0 /\ disturbed = FALSE

Next ==
  \/ Connect \/ Open \/ Reopen \/ OpenTimesOut
  \/ Teardown \/ LeaveEnds \/ CleanTimesOut
  \/ \E s \in Sockets : SocketOpens(s) \/ SocketErrs(s) \/ SocketCloses(s)

Spec == Init /\ [][Next]_vars

-----------------------------------------------------------------------------
(* The connection discipline.                                               *)

Mine == {s \in Sockets : sock[s].owner = current /\ sock[s].state \in Live}

\* Until a close listener disturbs it, the shared adapter belongs to the current
\* session: it refers to that session's socket, and the session has no other
\* live one (openConnection closes before it opens).
AdapterFollowsSession ==
  ~disturbed =>
    /\ conn # 0 => sock[conn].owner = current
    /\ \A s \in Mine : s = conn

\* Until then no request is forgotten: one that waits in a client's queue has a
\* live socket of that client, whose close event will serve it.
RequestsAreServed ==
  ~disturbed => \A c \in Clients : client[c].queue > 0 =>
    \E s \in Sockets : sock[s].owner = c /\ (sock[s].state \in Live \/ failing = s)

\* Until then ready() is exact: an open socket of the session can be used, and
\* closed by its teardown, and nothing else makes the client ready.
ReadyIsExact ==
  ~disturbed => (current # 0 =>
    (Ready(World, current) <=> \E s \in Mine : sock[s].state = "open"))

=============================================================================
