SPECIFICATION Spec
CONSTANTS
    Offices = {o1}
    Requests <- AllPaths
    Ids = {0, 1, 2, 3, 15}
    MAX_BANK_ACCOUNTS = 3
    MAX_BALANCE = 4
    Word = 16
    Passwords <- MCPasswords
    ValidPasswords <- MCValidPasswords
    AdminPassword = "admin"
    Salts = {"s"}
    Unquoted <- MCUnquoted
    Quoted <- MCQuoted
CHECK_DEADLOCK FALSE
PROPERTY ImplementsBank
