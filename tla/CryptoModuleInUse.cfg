SPECIFICATION Spec
CONSTANTS
  p1 = p1
  p2 = p2
  p3 = p3
  Program = {p1, p2, p3}
INVARIANT NotUnloadedInUse
