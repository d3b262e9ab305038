CONSTANTS
  a = a
  a2 = a2
  b = b
  e1 = e1
  e2 = e2
  Facts = {a, a2, b}
  Episodes = {e1, e2}
  SourceOf <- Sources
  Pairs <- JudgedPairs
  Intentions = {a2}
  NoPair = NoPair
  Nodes = {a, a2, b, e1, e2}
  Never = Never
  MaxClock = 1
  Modes = {"auto", "unanimous"}
  Touched = {a}
  MaxHands = 1
SPECIFICATION Spec
INVARIANTS LineageMatchesCurrency NoHiddenJudgment DismissalIsFinal
PROPERTY HistoryIsFinal
CHECK_DEADLOCK FALSE
