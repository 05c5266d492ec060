\* Recommend-rule selection and cross-profile reference resolution over all
\* lists of up to two PtpConfigs.
CONSTANTS
  n1 = n1  n2 = n2  l1 = l1  l2 = l2  NilValue = NilValue
  Nil <- NilValue
  CRNames = {1, 2}
  ProfileNames = {5, 6}
  NodeNames = {n1, n2}
  LabelKeys = {l1, l2}
  Priorities = {0, 1}
  TheNode <- MCNode
  Inputs <- AllInputs

SPECIFICATION Spec
INVARIANT TypeOK RecommendMatchesReference ReferencesResolved ListOrderIrrelevant
\* The reconcile is one call: it stops once the call has returned.
CHECK_DEADLOCK FALSE
