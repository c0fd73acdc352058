SPECIFICATION FairSpec
CONSTANTS
    Users = {u1, u2, ref, adm}
    Admins = {adm}
    Refused = {ref}
    Mortal = {u1}
    Leftover = {ref}
    Offices = {o1}
    Main = Main
    CAPACITY = 1
CHECK_DEADLOCK FALSE
INVARIANTS
    TypeOK
    OwnReply
    ExitAnswered
PROPERTY UsersAnswered
