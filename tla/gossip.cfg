\* One node composes the numbers 1 to 3, the other hears them over a radio that loses a frame.
SPECIFICATION Spec
CONSTANTS
  n1 = n1
  n2 = n2
  Node = {n1, n2}
  Phase <- Pair
  NoReq = NoReq
  DigestInterval = 3
  Suppression = 2
  Jitter = 1
  DigestMax = 1
  ResendMax = 2
  ReqMax = 4
  Composed <- UpToFour
  MaxLosses = 1
  MaxAttach <- Once1
  Start <- FromOne
  Expiring <- Middle
INVARIANTS VectorIsHonest
PROPERTIES AsksWhatIsMissing GossipSpec CatchesUp
CHECK_DEADLOCK FALSE
