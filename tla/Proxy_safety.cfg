\* Two concurrent requests, two providers.
SPECIFICATION Spec
CONSTANTS
  Requests = {r1, r2}
  Slices = {s1, s2}
  NoSlice = NoSlice
  targets <- TwoProviders
SYMMETRY Symmetry
INVARIANTS
  TypeOK
  SliceExclusive
  AnsweredOnce
  SingleSource
  FailoverComplete
PROPERTIES
  SnapshotStable
