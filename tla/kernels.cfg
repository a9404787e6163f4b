CONSTANTS
  Jobs <- MCJobs
  Workers = 2
  RowBlock = 2
  TileBytes = 4928
  DK = 2
  DV = 3
  HD = 2
SPECIFICATION Spec
INVARIANTS KernelsAgree DotIsOfDequantised OneWriterPerCell
CHECK_DEADLOCK FALSE
