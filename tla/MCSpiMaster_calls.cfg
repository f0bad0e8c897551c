SPECIFICATION FairSpec
CONSTANTS
  t1 = t1
  t2 = t2
  Tasks <- TwoTasks
  Lengths = {1, 3}
  MaxBytes = 4
INVARIANT TypeOK
INVARIANT NoOverrun
INVARIANT AnswerLag
INVARIANT OneByteIntoClosed
PROPERTY ImplementsByteFifo
PROPERTY CallsReturn
