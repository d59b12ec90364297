SPECIFICATION ServiceSpec
CONSTANTS
  ModeMax = 5
  Strange <- MCStrange
  Unreadable = unreadable
  Colors = {warm}
  NoNumber = none
INVARIANTS
  DisplayTypeOK
  DefaultSurvives
  NoThirdDefault
  RestoredBeforeServing
  DisplayInv
  AnswersKept
  DefaultShowable
  ServiceInv
