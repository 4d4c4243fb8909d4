CONSTANTS
  Session = {s1, s2}
  Repo = {"acme/widget"}
  Ttl = 3
  MaxTime = 3
  None = None
SPECIFICATION Spec
INVARIANT OncePerWindow
CHECK_DEADLOCK FALSE
