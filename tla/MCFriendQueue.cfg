CONSTANTS
  MailSlots = 2
  RetryMax = 2
  NoAnswer = NoAnswer
  NoPoll = NoPoll
  MaxMsgs = 3
  MaxUpdates = 3
  MaxMap = 2
SPECIFICATION MailFairSpec
CHECK_DEADLOCK FALSE
INVARIANTS
  HeldIsAcceptable
PROPERTIES
  DropsOnlyWhatWasAccepted
  EveryItemLeaves
