------------------------- MODULE ReconnectingSocket -------------------------
(* ReconnectingPromisedWebSocket over DefaultPromisedWebSocket: the socket    *)
(* that screen sharing uses, and its retries. A turn of the event loop is a   *)
(* composition of these operators on a record with the fields                 *)
(*   ws         this.webSocket, 0 when it is null                             *)
(*   sock       the browser's sockets; "opening" says that the promise of     *)
(*              open() has not settled                                        *)
(*   timer      timeoutScheduler: none (null), set, or spent                  *)
(*   strays     pending timers that another one has replaced                  *)
(*   attempts   of FullJitterLimitedBackoff, which reset() leaves alone       *)
(*   told       the last open, close or reconnect event of the listeners      *)
(*   disturbed  history: a live socket is no longer the one referred to       *)
EXTENDS Naturals, FiniteSets

CONSTANTS MaxSockets,  \* bound: the browser's sockets that can be told apart
          RetryLimit   \* reconnectRetryLimit

ASSUME SocketAssumption == MaxSockets \in Nat \ {0} /\ RetryLimit \in Nat

Sockets == 1..MaxSockets
Unused == [state |-> "unused", opening |-> FALSE]

\* A socket that cannot act any more is as good as new.
Settle(s) == [s EXCEPT !.sock = [i \in Sockets |->
  IF s.sock[i].state = "closed" /\ ~s.sock[i].opening THEN Unused ELSE s.sock[i]]]

FreeSockets(s) == {i \in Sockets : s.sock[i].state = "unused"}

Connect(s) ==
  LET new == CHOOSE i \in FreeSockets(s) : TRUE
  IN  [s EXCEPT !.ws = new, !.sock[new] = [state |-> "connecting", opening |-> TRUE]]

Open_Always(s) == IF FreeSockets(s) = {} THEN s ELSE Connect(s)   \* mutant: no 'opened' error
\* open() rejects while there is a socket.
Open(s) == IF s.ws # 0 THEN s ELSE Connect(s)

DidOpenWebSocket(s) == [s EXCEPT !.timer = "none"]

\* close(): the browser's socket gets new handlers, so that the promise of an
\* open() that is under way can only time out.
Close(s) ==
  IF s.ws = 0 THEN s
  ELSE [DidOpenWebSocket(s) EXCEPT !.ws = 0, !.sock[s.ws].state = "closing"]

\* The listener for 'open', and the promise of open().
HearOpen(s, i) ==
  [DidOpenWebSocket(s) EXCEPT !.sock[i] = [state |-> "open", opening |-> FALSE],
                              !.told = "open"]

Retry_ToldFirst(s) ==   \* mutant: 'reconnect' is dispatched before the backoff throws
  IF s.attempts = RetryLimit THEN [s EXCEPT !.told = "reconnecting"]
  ELSE [s EXCEPT !.attempts = @ + 1, !.timer = "set", !.told = "reconnecting",
                 !.strays = IF s.timer = "set" THEN @ + 1 ELSE @]
\* An abnormal closure: the backoff gives the time of the next attempt, or throws.
Retry(s) ==
  IF s.attempts = RetryLimit THEN [s EXCEPT !.told = "closed"]
  ELSE [s EXCEPT !.attempts = @ + 1, !.timer = "set", !.told = "reconnecting",
                 !.strays = IF s.timer = "set" THEN @ + 1 ELSE @]

\* The listener for 'close' of socket i forgets whichever socket is referred to.
HearClose(s, i, normal) ==
  LET after == IF normal THEN [s EXCEPT !.told = "closed"] ELSE Retry(s)
  IN  Settle([after EXCEPT !.ws = 0, !.sock[i].state = "closed",
                           !.disturbed = @ \/ s.ws \notin {0, i}])

\* The error of a socket that fails rejects open(), whose catch forgets the
\* socket, before the close event comes; a caller may open again in between.
HearFailure(s, i, again) ==
  LET rejected == [s EXCEPT !.ws = 0, !.sock[i].opening = FALSE]
  IN  HearClose(IF again THEN Open(rejected) ELSE rejected, i, FALSE)

\* The timeout of open() forgets whichever socket is referred to, and leaves
\* the browser's one as it is.
OpenExpires(s, i) ==
  Settle([s EXCEPT !.ws = 0, !.sock[i].opening = FALSE,
                   !.disturbed = @ \/ s.ws # 0])

\* The callback of the timer stops timeoutScheduler, which is another timer when
\* this one is a stray, and throws when it is null.
FireTimer(s) == Open([s EXCEPT !.timer = "spent"])
FireStray(s) ==
  LET fired == [s EXCEPT !.strays = @ - 1]
  IN  IF s.timer = "none" THEN fired ELSE Open([fired EXCEPT !.timer = "spent"])
=============================================================================
