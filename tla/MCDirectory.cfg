CONSTANTS
  Calls = {c1, c2}
  Operations = {"create", "update", "deleteEmployees", "appoint", "deletePositions", "editPosition", "bootstrap"}
  OdooIds = {o1, o2}
  PositionNames = {"Admin", "admin"}
  AdminNames = {"Admin", "admin"}
  Admin = "Admin"
  NoRow = norow
  Employed = 1
  Staffed = 2
  MaxEmployees = 2
  MaxPositions = 2
  MaxCalls = 2
  c1 = c1
  c2 = c2
  o1 = o1
  o2 = o2
  o3 = o3
SPECIFICATION Spec
INVARIANTS
  TypeOK
  OdooIdsConfirmed
  AdminHasPassword
PROPERTIES
  EmployeeSetReplaced
SYMMETRY Symmetry
CHECK_DEADLOCK FALSE
