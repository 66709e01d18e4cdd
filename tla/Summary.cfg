SPECIFICATION MCSummarySpec
CONSTANTS
  Scale = 12
  BufferSize = 4
  NoValue = NoValue
  QuantileLists <- OnlyCoarse
  AgeBuckets = 3
  RotationInterval = 2
  Values = {1, 2, 3}
  MaxObservations = 4
  MaxTime = 8
INVARIANTS SummaryTypeOK SampleCoversRanks WindowSlides QuantilesMonotone
