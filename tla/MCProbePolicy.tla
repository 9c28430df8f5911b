--------------------------- MODULE MCProbePolicy ---------------------------
(* A sender of two simulcast streams and a second sender: of one stream,   *)
(* or the content share of the first.                                      *)
EXTENDS ProbePolicy

MCStreams == 1 .. 3
MCOwner == [s \in MCStreams |-> <<"a", "a", "b">>[s]]
MCMaxRate == [s \in MCStreams |-> <<300, 1200, 600>>[s]]
\* All at their maximum, or the better stream of "a" far below it.
MCAverages ==
  {[s \in MCStreams |-> <<0, 0, 0>>[s]], [s \in MCStreams |-> <<200, 500, 600>>[s]]}
Rate(est, used, nack, lost) == [est |-> est, used |-> used, nack |-> nack, lost |-> lost]
MCReports == {Rate(700, 0, 0, 0), Rate(1000, 0, 1, 1), Rate(2900, 0, 0, 0)}

\* The bandwidth collapses under a content share.
MCCollapse == {Rate(400, 0, 1, 1), Rate(400, 3000, 0, 0)}
=============================================================================
