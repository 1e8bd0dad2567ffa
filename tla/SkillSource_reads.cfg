SPECIFICATION FairSpec
CONSTANTS
  p1 = p1
  p2 = p2
  p3 = p3
  u1 = u1
  b1 = b1
  b2 = b2
  NoCall = NoCall
  NoBody = NoBody
  Calls = {c1, c2}
  Pins = {p1, p2, p3}
  Urls = {u1}
  Bodies = {b1, b2}
  UrlOf <- MCUrlOf
  Sha256Body <- MCSha256Body
  BlobBodies <- MCBlobBodies
  DriftBodies <- MCDrift
INVARIANTS ServedIsPinned ProvenanceTruthful
PROPERTIES ImplementsPromise EveryReadAnswered
CHECK_DEADLOCK FALSE
