SPECIFICATION FairSpec

CONSTANTS
    p1 = p1  p2 = p2  f1 = f1  f2 = f2  r1 = r1  r2 = r2
    NoRow = NoRow  NoUser = NoUser  NoFaculty = NoFaculty  Keep = Keep
    Person <- TwoPeople
    Faculty <- TwoFaculties
    Request <- TwoRequests
    MaxAccounts = 3
    MaxLinks = 2
    Owned = {1}
    Scopes <- EightScopes

INVARIANTS TypeOK PeopleMatchAccounts RoleAndFacultyTogether
PROPERTIES LinksWorkOnce OwnersGetIn

\* A scope rests when no request can arrive.
CHECK_DEADLOCK FALSE
