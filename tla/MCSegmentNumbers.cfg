CONSTANTS
  SeqZeroSize = 8
  SeqSize = 32
  IvSize = 4
  MaxSegN = 3
  MaxIv = 2
SPECIFICATION NumbersSpec
CHECK_DEADLOCK FALSE
INVARIANTS
  SegmentsNameTheirMessageInIv
