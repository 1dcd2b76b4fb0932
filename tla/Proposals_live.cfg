\* One proposal, two crashes, failing statements, goroutines fairly scheduled.
CONSTANTS
  r1 = r1
  r2 = r2
  p1 = p1
  p2 = p2
  t1 = t1
  t2 = t2
  Rule <- TwoRules
  Proposal = {p1}
  AutoApprove <- AutoOne
  Text <- Texts
  RulePrefixed = {t2}
  Reasoning <- ReasonTwo
  DemoteAfter = 0
  TuneAfter = 1
  PromoteAfter = 1
  StoreFails = TRUE
  MaxRestarts = 2
SPECIFICATION FairSpec
INVARIANT GatedRowTruth
PROPERTIES
  ApprovedRuns
  ExecutionEnds
\* The callers may stop proposing and deciding.
CHECK_DEADLOCK FALSE
