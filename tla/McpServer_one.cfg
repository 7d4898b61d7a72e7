SPECIFICATION Spec
CONSTANTS
  c1 = c1
  c2 = c2
  x = x
  none = none
  Calls = {c1}
  Contents = {x}
  Empty = none
  Requests <- AllRequests
  Says = {"accept", "acceptUnconfirmed", "decline", "cancel", "error"}
  PoolSize = 2
INVARIANT IInv
INVARIANT ReplyTellsTruth
INVARIANT AtMostOnce
 
PROPERTY NoChangeWithoutConsent
PROPERTY FirstAnswerWins
PROPERTY ImplementsContract
PROPERTY AcceptHonoured
