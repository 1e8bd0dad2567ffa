SPECIFICATION Spec
CONSTANTS
  Ops = {o1, o2}
  Reads = {}
  Infos = {}
  SkillReads = {}
  SkillRuns = {s1, s2}
  Script = Script
  ReadCap = 1
  InfoCap = 1
SYMMETRY OpSymmetry
INVARIANTS FooterIsHonest
PROPERTIES ImplementsAuditTrail
CHECK_DEADLOCK FALSE
