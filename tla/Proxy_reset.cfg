\* A provider that resets the connection in mid-stream.
SPECIFICATION Spec
CONSTANTS
  Requests = {r1}
  Slices = {s1}
  NoSlice = NoSlice
  targets <- TwoProviders
PROPERTIES
  BrokenStreamTaints
