\* A pay of each quote and a reconcile at once, any of them killed.
SPECIFICATION ClientSpec
CONSTANTS
  q1 = q1
  q2 = q2
  p1 = p1
  p2 = p2
  p3 = p3
  Quotes = {q1, q2}
  Processes = {p1, p2, p3}
  Other = Other
  Nothing = Nothing
SYMMETRY Symmetry
INVARIANT SubmittedOnce
INVARIANT ResolvedIsTrue
PROPERTY SentAfterProof
CHECK_DEADLOCK FALSE
