\* The second dial of a WebSocket request.
SPECIFICATION Spec
CONSTANTS
  Requests = {r1}
  Slices = {s1}
  NoSlice = NoSlice
  targets <- TwoProviders
PROPERTIES
  UpgradedHasSession
