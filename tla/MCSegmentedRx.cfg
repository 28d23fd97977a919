CONSTANTS
  handler = handler
  gatt = gatt
  Handler = handler
  Gatt = gatt
  Sources <- MCSources
  SeqAuths <- MCSeqAuths
  SegN <- MCSegN12
  Undecryptable <- MCUndecryptable
  MaxPdus = 3
SPECIFICATION Spec
INVARIANTS
  OneMessageInBuffer
  AckTruthful
  CompleteAckUnlessCleared
PROPERTIES
  RefusedOnlyIfBusy
  ReceptionEnds
