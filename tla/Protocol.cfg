CONSTANTS
  Sites <- MCSites
  VersionOf <- MCVersionOf
  Guarded <- MCGuarded
  Ranges <- MCRanges
  Speaks <- MCSpeaks
SPECIFICATION ProtocolSpec
CHECK_DEADLOCK FALSE
INVARIANTS
  SentAtCommonVersion
  RefusedOnlyIfUnsupported
  BodiesHaveTheirForm
  FakeBrokerUnderstands
  AdminReportsAreTrue
