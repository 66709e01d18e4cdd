SPECIFICATION MCSummarySpec
CONSTANTS
  Scale = 99000
  BufferSize = 500
  NoValue = NoValue
  QuantileLists <- OnlyLatency
  AgeBuckets = 5
  RotationInterval = 12
  Values = {1, 2, 3, 4, 5}
  MaxObservations = 5
  MaxTime = 0
INVARIANT QuantileWithinError
