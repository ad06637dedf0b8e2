\* Every request is used once, so the instance stops.
CONSTANTS
  Claude = {e1, e2}
  Restored = {e1}
  Claw = {k1}
  Requests = {r1, r2, r3}
  MaxRestarts = 1
  MaxLosses = 1
  Boot = Boot
  NoClient = NoClient
  NoRow = NoRow
  NoNative = NoNative
SPECIFICATION Spec
SYMMETRY Symmetry
CHECK_DEADLOCK FALSE
INVARIANTS
  SentMeansAccepted
  OneTurnPerNative
  NativeRecorded
  TickOpenOnlyIfHalted
