SPECIFICATION UsageSpec
CONSTANTS
  d1 = d1
  d2 = d2
  chat = chat
  canary = canary
  stray = stray
  Deliveries = {d1, d2}
  Traces = {chat, canary, stray}
  Batch <- BatchOf
  Responses <- ResponsesOf
  Identified = {chat, canary}
  Flagged = {canary}
  Old = {canary}
  ChunkSize = 2
  Attempts = 2
  Shared = Shared
INVARIANT NothingLostQuietly
INVARIANT LossIsCounted
INVARIANT GapsCountedOnce
CHECK_DEADLOCK FALSE
