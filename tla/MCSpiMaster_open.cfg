SPECIFICATION Spec
CONSTANTS
  t1 = t1
  t2 = t2
  Tasks <- TwoTasks
  Lengths = {1}
  MaxBytes = 1
INVARIANT OneOpener
