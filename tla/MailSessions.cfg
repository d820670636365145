SPECIFICATION Spec
CONSTANTS
  Protocols <- MCProtocols
  Greeting <- MCGreeting
  Sends <- MCSends
  Answer <- MCAnswer
  BodyText <- MCBodyText
  MaxCommands = 4
  MaxBody = 2
INVARIANTS AnswersFollowCommands ClearAuthReported VerdictSound UpgradeRecognised
PROPERTIES ClosedStaysClosed
CHECK_DEADLOCK FALSE
