SPECIFICATION Spec
SYMMETRY Symmetry
CONSTANTS
  Sweeps = {w1, w2}
  Cooldown = 2
  Window = 3
  MaxRun = 1
  MaxClock = 6
  Never = Never
  NotDue = NotDue
INVARIANTS
  TypeOK
  OneNotice
PROPERTIES
  ClaimsSpaced
