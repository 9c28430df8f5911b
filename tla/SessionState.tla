---------------------------- MODULE SessionState ----------------------------
(***************************************************************************)
(* The state table of DefaultSessionStateController: which transition an    *)
(* action makes from a state, which actions may wait for the next state,    *)
(* and which of two waiting actions is kept.  The controller's two fields   *)
(* (current state, deferred action with its work) are carried by the        *)
(* modules that use this one.                                               *)
(***************************************************************************)
EXTENDS Naturals

States  == {"NotConnected", "Connecting", "Connected", "Updating", "Disconnecting"}

Actions == {"Connect", "FinishConnecting", "Update", "FinishUpdating",
            "Reconnect", "Disconnect", "Fail", "FinishDisconnecting"}

\* The states in which an action that finds no transition is kept for later.
Busy == {"Connecting", "Updating"}

\* transition(): the rows of the table, "none" when there is none.
Transition(st, action) ==
  CASE st = "NotConnected"  /\ action = "Connect"             -> "Connecting"
    [] st = "Connecting"    /\ action = "Fail"                -> "Disconnecting"
    [] st = "Connecting"    /\ action = "FinishConnecting"    -> "Connected"
    [] st = "Connected"     /\ action = "Disconnect"          -> "Disconnecting"
    [] st = "Connected"     /\ action = "Reconnect"           -> "Connecting"
    [] st = "Connected"     /\ action = "Fail"                -> "Disconnecting"
    [] st = "Connected"     /\ action = "Update"              -> "Updating"
    [] st = "Updating"      /\ action = "Fail"                -> "Disconnecting"
    [] st = "Updating"      /\ action = "FinishUpdating"      -> "Connected"
    [] st = "Disconnecting" /\ action = "FinishDisconnecting" -> "NotConnected"
    [] OTHER                                                  -> "none"

\* Mutants: Fail is missing from Connecting; Fail is accepted while Disconnecting.
Target_NoFailFromConnecting(st, action) ==
  IF st = "Connecting" /\ action = "Fail" THEN "none" ELSE Transition(st, action)
Target_FailTwice(st, action) ==
  IF st = "Disconnecting" /\ action = "Fail" THEN st ELSE Transition(st, action)

\* perform(): the state an action leads to.
Target(st, action) == Transition(st, action)

HasTransition(st, action) == Target(st, action) # "none"

DeferPriority_ConnectWaits(action) ==   \* mutant: Connect may be deferred
  CASE action = "Disconnect" -> 4
    [] action = "Fail"       -> 3
    [] action = "Reconnect"  -> 2
    [] action \in {"Update", "Connect"} -> 1
    [] OTHER                 -> 0

\* SessionStateControllerDeferPriority; 0 is DoNotDefer.
DeferPriority(action) ==
  CASE action = "Disconnect" -> 4
    [] action = "Fail"       -> 3
    [] action = "Reconnect"  -> 2
    [] action = "Update"     -> 1
    [] OTHER                 -> 0

CanDefer_AnyState(st, action) ==   \* mutant: deferred in any state
  DeferPriority(action) # 0
CanDefer(st, action) == DeferPriority(action) # 0 /\ st \in Busy

KeepsDeferred_LowerWins(waiting, action) ==   \* mutant: the comparison is swapped
  waiting # "none" /\ DeferPriority(waiting) < DeferPriority(action)

\* deferAction(): an action of equal priority replaces the one that waits.
KeepsDeferred(waiting, action) ==
  waiting # "none" /\ DeferPriority(waiting) > DeferPriority(action)
=============================================================================
