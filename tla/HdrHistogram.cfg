SPECIFICATION CaptureSpec
CONSTANTS
  Buckets = 8
  WordBits = 9
  Values = {0, 1, 2, 3, 64, 127, 200, 300, 511}
  Percents = {0, 7000, 25000, 50000, 50001, 75000, 99000, 99900, 100000, 150000}
  MaxCount = 5
  Cap = 2
  ExactBits = 6
  Untrackable = 128
INVARIANTS
  TypeOK
  FieldsAgree
  PercentileFindsRank
  PercentilesMonotone
  SampleWithinThird
  BufferAccountsForWindow
  OnlyOutliersVanish
  MaximaPartOnOutliers
