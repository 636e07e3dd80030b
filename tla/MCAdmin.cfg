SPECIFICATION Spec
CONSTANTS
    a1 = a1
    a2 = a2
    a3 = a3
    Admins = {a1, a2, a3}
    FirstRoles <- MCFirstRoles
    Overrides = {o1}
    Handlers = {h1, h2}
    Operations = {"policy", "exempt", "request", "approve", "reject", "role", "launch"}
    MaxRequests = 4
    None = None
INVARIANTS
    HeadsGrantedByHeads
    SupersededHasSuccessor
    ApprovedByAnotherHead
CHECK_DEADLOCK FALSE
