\* Three sessions in a row on one adapter, with reconnections and late events.
SPECIFICATION Spec
CONSTANTS
  MaxClients = 3
  MaxSockets = 5
  MaxQueue = 2
INVARIANTS AdapterFollowsSession RequestsAreServed ReadyIsExact
CHECK_DEADLOCK FALSE
