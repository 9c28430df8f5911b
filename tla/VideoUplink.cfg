SPECIFICATION Spec
CONSTANTS
  Participants = {2, 5}
  Uplinks = {700, 2000}
  Ideals = {1400, 600}
  Layers = {3}
  MaxChanges = 3
INVARIANTS
  EncodingsAgree
  RateIsAgreed
PROPERTIES
  Converges
