\* A buffer of three bytes, writes of none to more than two buffers.
SPECIFICATION FairSpec
CONSTANTS
  BufferSize = 3
  Lengths = {0, 1, 3, 7}
  MaxBytes = 9
  MaxFaults = 2
INVARIANTS TypeOK EachByteOnce
PROPERTY CallsReturn
