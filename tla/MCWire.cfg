SPECIFICATION FairSpec
CONSTANTS
  Numeral <- Numbers
  Words <- AllWords
  NoText = NoText
  Scripts <- AllScripts
  MaxBeats = 1
INVARIANTS
  TypeOK
  Unaltered
  InOrder
  OwnAnswer
  OwnReply
  EndsAtPlus
PROPERTIES
  Delivered
  Answered
CHECK_DEADLOCK FALSE
