\* Two conversations, one per pass: every due conversation gets its turn.
SPECIFICATION FairSpec
CONSTANTS
  NumConversations = 2
  Limit = 1
  MaxQueue = 1
  MaxOps = 1
PROPERTIES
  HeadServed
  Quiesces
  CloseDrains
