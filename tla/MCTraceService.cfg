SPECIFICATION Spec
CONSTANTS
  i1 = i1
  i2 = i2
  x1 = x1
  c1 = c1
  c2 = c2
  c3 = c3
  none = none
  s1 = s1
  s2 = s2
  t1 = t1
  t2 = t2
  Commands = {c1, c2, c3}
  Workflows <- MCWorkflows
  NoId = none
  SessionIds = {s1, s2}
  Foreign = {x1}
  Tags = {t1, t2}
  Turns = {0, 1, 2, 3}
  MaxRequests = 3
SYMMETRY MCSymmetry
INVARIANTS
  TypeOK
  SessionsArePrefixes
  RepliesAgree
  AnswersNamedInstance
PROPERTIES
  RetriesAreServed
CHECK_DEADLOCK FALSE
