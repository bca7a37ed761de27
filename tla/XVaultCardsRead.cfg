SPECIFICATION Spec
CONSTANTS
  c1 = c1  c2 = c2
  plain = plain  s1 = s1  s2 = s2
  Cards = {c1}
  Spaces = {plain, s1, s2}
  Sealed = {s1, s2}
  Tabs = {t1}
  NoCard = NoCard  Gone = Gone  Unfiled = Unfiled  NoBox = NoBox  Root = Root  Idle = Idle
  Alone <- Endpoints
  Allowed = {"create", "read"}
SYMMETRY Symmetry
CHECK_DEADLOCK FALSE
INVARIANT SealedSpaceIsSealed
