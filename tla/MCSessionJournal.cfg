CONSTANTS
  send = send
  bind = bind
  queue = queue
  message = message
  record = record
  entry = entry
  queued = queued
  Request <- MCRequest
  LinesOf <- MCLinesOf
  Wide <- MCWide
  h1 = h1
  h2 = h2
  Handle = {h1, h2}
  Primary = h1
  MayOverlap = FALSE
  MaxFaults = 3
SPECIFICATION Spec
INVARIANTS
  HistoryIsSound
  AnswersAreTrue
  MirrorIsFile
PROPERTY
  HistoryOnlyGrows
CHECK_DEADLOCK FALSE
