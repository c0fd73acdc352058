SPECIFICATION Spec
CONSTANTS
    Offices = {o1, o2}
    Requests <- Concurrent
    Ids = {0, 1, 2, 3}
    MAX_BANK_ACCOUNTS = 4
    MAX_BALANCE = 4
    Word = 16
    Passwords <- MCPasswords
    ValidPasswords <- MCValidPasswords
    AdminPassword = "admin"
    Salts = {s, t}
    Unquoted <- MCUnquoted
    Quoted <- MCQuoted
SYMMETRY SaltSymmetry
CHECK_DEADLOCK FALSE
INVARIANTS
    TypeOK
    LoginSound
    ConservedWhileDisjoint
PROPERTY BankWhileDisjoint
