SPECIFICATION FairSpec
CONSTANTS
  Ops = {o1}
  Reads = {r1, r2}
  Infos = {i1}
  SkillReads = {k1}
  SkillRuns = {}
  Script = Script
  ReadCap = 1
  InfoCap = 1
INVARIANTS EvidenceCoversSeen BucketCaps
PROPERTIES RunAnswers
CHECK_DEADLOCK FALSE
