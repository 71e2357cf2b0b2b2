SPECIFICATION Spec
CONSTANTS
  NULL = NULL
  IoHandles = {p1, s1}
  Streams = {s1}
  Fds = {0, 2}
  Events = {"in", "out"}
  MaxEvents = 2
  EarlyClose = TRUE
INVARIANT RegistrationSucceeds
