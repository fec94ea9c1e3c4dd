CONSTANTS
  send = send
  bind = bind
  queue = queue
  message = message
  record = record
  entry = entry
  queued = queued
  Request <- MCRequest
  LinesOf <- MCLinesOf
  Wide <- MCWide
  h1 = h1
  h2 = h2
  Handle = {h1, h2}
  Primary = h1
  MayOverlap = FALSE
  MaxFaults = 1
SPECIFICATION Spec
INVARIANT TornTailIsRepaired
CHECK_DEADLOCK FALSE
