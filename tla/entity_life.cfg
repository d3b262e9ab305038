CONSTANTS
  x = x
  y = y
  Names = {x, y}
  Nodes = {1, 2, 3}
  Born = {1}
  NameOf <- Extracted
  Mergers = {"worker", "introspector"}
  Unborn = Unborn
  Released = Released
  Nothing = Nothing
  Never = Never
  MaxClock = 0
  MaxHands = 1
SPECIFICATION Spec
INVARIANTS MergedNamesHaveAnHeir AbsorbedCanBeSplit DecisionsAreTrue
PROPERTY WalkExplainsAll
CHECK_DEADLOCK FALSE
