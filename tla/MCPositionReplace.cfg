CONSTANTS
  Calls = {c1, c2}
  Operations = {"appoint"}
  OdooIds = {o1, o2}
  PositionNames = {"Admin", "admin"}
  AdminNames = {"Admin", "admin"}
  Admin = "Admin"
  NoRow = norow
  Employed = 2
  Staffed = 1
  MaxEmployees = 2
  MaxPositions = 1
  MaxCalls = 2
  c1 = c1
  c2 = c2
  o1 = o1
  o2 = o2
  o3 = o3
SPECIFICATION Spec
PROPERTIES
  PositionSetReplaced
CHECK_DEADLOCK FALSE
