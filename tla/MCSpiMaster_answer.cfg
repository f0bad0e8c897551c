SPECIFICATION Spec
CONSTANTS
  t1 = t1
  t2 = t2
  Tasks <- OneTask
  Lengths = {1, 2}
  MaxBytes = 2
INVARIANT AnswersOwnByte
