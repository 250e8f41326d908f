SPECIFICATION Spec
CONSTANTS
  Platforms = {"linux", "macos"}
  Starters = {"s1"}
  Stoppers = {}
  Askers = {"a1"}
  MaxRestarts = 2
CHECK_DEADLOCK FALSE
INVARIANTS TypeOK NoOldCode AnswerNotOld CodeOfThisRunUnlessBroken
