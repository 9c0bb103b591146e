\* Two reconciles of one payment, the later answer of the node arriving first.
SPECIFICATION ClientSpec
CONSTANTS
  q1 = q1
  q2 = q2
  p1 = p1
  p2 = p2
  p3 = p3
  Quotes = {q1, q2}
  Processes = {p1, p2}
  Other = Other
  Nothing = Nothing
PROPERTY ConfirmedIsFinal
CHECK_DEADLOCK FALSE
