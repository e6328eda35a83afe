CONSTANTS
  Task = {1, 2}
  Arg = {1, 2}
  Image = 2
  PipeCap = 1
  MaxRead = 1
  Color = {1}
  SizeMod = 8
  MaxTrouble = 1
SPECIFICATION Spec
INVARIANTS TypeOK ImageInOrder EofIsComplete NothingLeft FrontendSurvives
PROPERTIES ReadReturns CancelReturns
CHECK_DEADLOCK FALSE
