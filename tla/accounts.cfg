SPECIFICATION Spec
CONSTANTS
    Employees = {e1, e2}
    Numbers <- AllNumbers
    NumberStyle <- Styled
    Bios = {"1001", "2001"}
    SeedBio <- Seed
    Choices <- Free
    AdminNames <- Admin
    RESERVED <- Admin
    Forms <- Submitted
    Slots = {r1, r2}
    Posts = 3
    Restarts = 1
INVARIANTS TypeOK OneSwitch HiresGetLogins NumbersBelong 
PROPERTIES RevokedTokensStayRevoked
CHECK_DEADLOCK FALSE
