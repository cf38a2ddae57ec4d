SPECIFICATION Spec
CONSTANTS
  u1 = u1
  u2 = u2
  daily = daily
  Users = {u1, u2}
  Rules = {daily}
  OnRule <- MCOnRule
  Holidays = {2}
  MaxDay = 2
  Given = {0, 1}
  MaxOpened = 3
  MaxRows = 2
INVARIANTS TypeOK StaysHidden
PROPERTY SplitKeepsDays
SYMMETRY Symmetric
CHECK_DEADLOCK FALSE
