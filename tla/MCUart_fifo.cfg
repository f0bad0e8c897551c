SPECIFICATION Spec
CONSTANTS
  Bytes = {1, 2}
  Groups <- MCGroups
  Counts = {0, 1, 2, 3}
  Garbage <- MCGarbage
  MaxInput = 5
  MaxOutput = 3
INVARIANT EachGroupBackwards
