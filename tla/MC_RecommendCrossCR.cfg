\* A profile of a PtpConfig whose rules lost is applied through a same-named profile of another.
CONSTANTS
  n1 = n1  n2 = n2  l1 = l1  l2 = l2  NilValue = NilValue
  Nil <- NilValue
  CRNames = {1, 2}
  ProfileNames = {5, 6}
  NodeNames = {n1, n2}
  LabelKeys = {l1, l2}
  Priorities = {0, 1}
  TheNode <- MCNode
  Inputs <- SelectionInputs

SPECIFICATION Spec
INVARIANT WinningRuleOwnsProfile
\* The reconcile is one call: it stops once the call has returned.
CHECK_DEADLOCK FALSE
