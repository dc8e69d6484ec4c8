\* Every request ends, and the refinement; a provider is listed twice.
SPECIFICATION FairSpec
CONSTANTS
  Requests = {r1}
  Slices = {s1}
  NoSlice = NoSlice
  targets <- SplitProvider
PROPERTIES
  RequestEnds
  ServesRequests
