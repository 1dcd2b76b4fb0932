\* Two proposals, an auto-approve rule and a gated one; no crash.
CONSTANTS
  r1 = r1
  r2 = r2
  p1 = p1
  p2 = p2
  t1 = t1
  t2 = t2
  Rule <- TwoRules
  Proposal = {p1, p2}
  AutoApprove <- AutoOne
  Text <- Texts
  RulePrefixed = {t2}
  Reasoning <- ReasonTwo
  DemoteAfter = 0
  TuneAfter = 1
  PromoteAfter = 1
  StoreFails = FALSE
  MaxRestarts = 0
SPECIFICATION Spec
SYMMETRY Symmetry
INVARIANTS
  ApprovalGate
  RunsBounded
  RowSettles
  OutcomesCounted
  LearningBehind
PROPERTY GatedLifecycle
\* The callers may stop proposing and deciding.
CHECK_DEADLOCK FALSE
