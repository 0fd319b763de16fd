SPECIFICATION Spec
CONSTANTS
  code = code  sql = sql  mcq = mcq  ai = ai  sim = sim  t1 = t1  e1 = e1  e2 = e2
  r1 = r1  r2 = r2  g1 = g1  g2 = g2  a1 = a1  a2 = a2  o1 = o1  o2 = o2  NULL = NULL
  Coding <- OneCoding
  Sql <- OneSql
  Mcq <- OneMcq
  Prompting <- OnePrompting
  Simulation <- OneSimulation
  Text <- OneText
  Correct <- OneText
  Execution <- TwoExecutions
  Caller <- TwoCallers
  Grader <- TwoGraders
  Outcome <- TwoOutcomes
  Staff <- TwoStaff
  None = NULL
INVARIANTS TypeOK SubmittedAnswerRan FullMarkEarned ReviewedIsEarned ScoreIsCurrent DecisionAudited
PROPERTIES AnswersSealed ClosingEndsInScore
CONSTRAINT Bounded
SYMMETRY Interchangeable
