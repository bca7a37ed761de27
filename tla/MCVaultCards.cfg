SPECIFICATION Spec
CONSTANTS
  c1 = c1  c2 = c2
  plain = plain  s1 = s1  s2 = s2
  Cards = {c1, c2}
  Spaces = {plain, s1, s2}
  Sealed = {s1, s2}
  Tabs = {t1, t2}
  NoCard = NoCard  Gone = Gone  Unfiled = Unfiled  NoBox = NoBox  Root = Root  Idle = Idle
  Alone = {"file", "nest", "stack", "merge", "dissolve"}
  Allowed = {"create", "video", "read", "edit", "file", "stack", "delete", "deleteSpace", "merge",
             "nest", "dissolve"}
SYMMETRY Symmetry
CHECK_DEADLOCK FALSE
INVARIANTS SealedCardOpens StackStaysTogether SpacesFormATree
