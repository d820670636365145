SPECIFICATION MCSpec
SYMMETRY MCSymmetry
INVARIANTS DeletedStaysOut SuspensionHolds MailStaysFiled 
CONSTANTS
  Emails <- MCEmails
  Builtin <- MCBuiltin
  Master = "admin"
  MaxRequests = 4
  MaxTroubles = 1
  ana = ana
  ben = ben
  m1 = m1
  m2 = m2
  kim = kim
  lee = lee
  Users <- MCUsers
  Mails <- MCMails
  Recipients <- MCRecipients
  MaxMoves = 2
  MaxMishaps = 1
  Owners <- MCOwners
  Prints <- MCPrints
  MaxVersion = 3
CHECK_DEADLOCK FALSE
CONSTANT Foci <- MCFoci
