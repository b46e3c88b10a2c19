SPECIFICATION MCSpec
CONSTANTS
  Sig = {s1, s2, s3, s4, s5}
  NoSig = NoSig
  Cap = 3
  MaxLog = 7
INVARIANTS RingTypeOK BufIsLogSuffix SeenIsRecent DedupHorizon
CHECK_DEADLOCK FALSE
