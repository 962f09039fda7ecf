SPECIFICATION Spec
CONSTANTS
  r1 = r1
  r2 = r2
  old = old
  new = new
  newer = newer
  Runs = {r1, r2}
  Materials = {old, new, newer}
  Old = old
  Material <- MCMaterial
  MaxFaults = 4
CHECK_DEADLOCK FALSE
PROPERTIES
  OutcomeTellsTheDisk
  ReportedIsServed
