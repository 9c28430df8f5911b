SPECIFICATION Spec
CONSTANTS
  Microphones = {"mic"}
  Cameras = {"camera"}
  Streams = {s1, s2, s3, s4}
  Mix = mix
  Calls = {c1, c2}
  MaxLoad = 2
SYMMETRY Symmetry
INVARIANTS
  NothingLost
  NoDeviceUnlessOverrun
  SelectionIsAlive
  SessionSendsSelection
CHECK_DEADLOCK FALSE
