SPECIFICATION Spec
CONSTANTS
  w = w
  f1 = f1
  f2 = f2
  Headings <- MCHeadings
  Files = {f1, f2}
  Main = Main
  MaxHeadings = 3
  MaxWants = 2
  MaxDrift = 1
  ReadDeadline = 2
INVARIANTS AllOrNothing SectionsAddressable
CHECK_DEADLOCK FALSE
