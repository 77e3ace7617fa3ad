SPECIFICATION AccountsSpec
CONSTANTS
    Requests = {f1, f2, r1, r2}
    f1 = f1
    f2 = f2
    r1 = r1
    r2 = r2
    Emails = {e1, e2}
    e1 = e1
    e2 = e2
    Passwords = {p1, p2}
    p1 = p1
    p2 = p2
    Founders <- MCFounders
    None = None
    Elsewhere = Elsewhere
SYMMETRY Alike
INVARIANTS
    AccountsTypeOK
    OneUserPerEmail
    OrphanOnlyOnFailure
    ConflictIsReal
    LoginIsThatUser
PROPERTIES
    RegisteredCanLogIn
    ListsAreComplete
