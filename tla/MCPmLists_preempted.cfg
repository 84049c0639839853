CONSTANTS
  d1 = d1  d2 = d2  d3 = d3
  Dev = {d1, d2, d3}
  MaxChanges = 3
SPECIFICATION Spec
INVARIANTS ListsInv AllDevicesDown
\* What has gone astray is not described further.
CHECK_DEADLOCK FALSE
