SPECIFICATION Spec
CONSTANTS
    a1 = a1
    a2 = a2
    d1 = d1
    d2 = d2
    d3 = d3
    Askers = {a1}
    Docs = {d1, d2, d3}
    Name <- Titles
    Categories = {"general", "finance"}
    Category <- Topics
    Permitted <- Roles
    Admins = {}
    Owner <- Owners
    Visibility <- Levels
    RoleAllowed <- NoRoles
    MaxQueries = 2
    MaxAsks = 2
INVARIANTS Grounded OneNameOneReader
CHECK_DEADLOCK FALSE
