SPECIFICATION Spec
CONSTANTS
  Lidars = {l1}
  Configured = {}
  Options <- MCOptions
  SetOptions <- MCOptions
  MaxSourceLidar = 1
  PacketQueueSize = 2
  IndexRange = 4
  MaxFrames = 5
  MaxImus = 1
  MaxInfoChanges = 3
  MaxFailures = 1
  MaxMixed = 0
CHECK_DEADLOCK FALSE
INVARIANTS SamplingIsConfigured NoTornRead
PROPERTIES ConfiguredIsSampled DataReleasesPoller QueueIsFifo PublishedWhenFollowed
