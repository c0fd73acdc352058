------------------------------ MODULE Accounts ------------------------------
(***************************************************************************)
(* The accounts of the home banking service and the checks that server.c   *)
(* makes before it changes them, as operators on the array of accounts.    *)
(* Bank.tla uses them in one step per request, Ledger.tla in the order in  *)
(* which the offices' threads read and write the array.                    *)
(***************************************************************************)
EXTENDS Integers, Sequences, FiniteSets

CONSTANTS
    Requests,           \* the requests users send; records, see RequestType
    Ids,                \* the account ids that requests mention
    MAX_BANK_ACCOUNTS,  \* length of the array accounts
    MAX_BALANCE,
    Word,               \* 2^32, the range of a balance (uint32_t)
    Passwords,          \* all passwords, ValidPasswords the acceptable ones:
    ValidPasswords,     \* MIN_PASSWORD_LEN to MAX_PASSWORD_LEN bytes, no space
    AdminPassword,      \* given on the command line of the server
    Salts,              \* what rand_string may produce
    Unquoted(_),        \* how the shell reads a password without quotes,
    Quoted(_)           \* and how between double ones, where $ ` \ " count still

ADMIN == 0              \* ADMIN_ACCOUNT_ID
MIN_BALANCE == 1

\* req_header_t and the union of req_create_account_t and req_transfer_t,
\* whose first two fields overlap: acc is the account_id of either, amount the
\* balance of a create and the amount of a transfer.  type is "other" when it is
\* no operation; the fourth, a SHUTDOWN, never gets to an office.
RequestType ==
    [type : {"create", "balance", "transfer", "other"},
     id : Ids, password : Passwords, acc : Ids, amount : Nat,
     newpass : Passwords]

ASSUME BankAssumption ==
    /\ Requests \subseteq RequestType
    /\ Ids \subseteq Nat
    /\ MAX_BANK_ACCOUNTS \in Nat \ {0}
    /\ MAX_BALANCE \in Nat \ {0}
    /\ Word \in Nat /\ 2 * MAX_BALANCE < Word
    /\ \A r \in Requests : r.amount < Word
    /\ AdminPassword \in ValidPasswords /\ ValidPasswords \subseteq Passwords
    /\ Salts # {}
    /\ \A p \in Passwords : Unquoted(p) \in Passwords /\ Quoted(p) \in Passwords

-----------------------------------------------------------------------------
(* What the user's program sends for its command line.                     *)

Operations == <<"create", "balance", "transfer", "shutdown">>

\* The type is left unassigned for an unknown operation: it may be any.
OpTypes(id_op) ==
    IF id_op + 1 \in DOMAIN Operations
    THEN {Operations[id_op + 1]}
    ELSE {Operations[i] : i \in DOMAIN Operations} \cup {"other"}

\* get_request, as the set of the requests it may make.  The numbers are what atoi
\* returns, negative ones included; the fields they go to are unsigned.
GetRequest(id, password, id_op, acc, amount, newpass) ==
    [type : OpTypes(id_op), id : {id % Word}, password : {password},
     acc : {acc % Word}, amount : {amount % Word}, newpass : {newpass}]

-----------------------------------------------------------------------------
Index == 0 .. MAX_BANK_ACCOUNTS - 1

\* sha256sum of what echo prints: equal only for the same password and salt.
Hash(password, salt) == [password |-> password, salt |-> salt]

\* The empty string of a zeroed account: the sum of nothing, not even of an empty
\* password and an empty salt.
NoHash == [zeroed |-> TRUE]

\* The array is zeroed at load time.
NoAccount == [account_id |-> 0, balance |-> 0, salt |-> "", hash |-> NoHash]

\* An answer without a balance, and a ret_code nobody has assigned yet.
NoBalance == -1
UNSET == "UNSET"

Codes == {"OK", "LOGIN_FAIL", "OP_NALLOW", "ID_IN_USE", "ID_NOT_FOUND",
          "NO_FUNDS", "OTHER", UNSET}

HashType == [password : Passwords, salt : Salts] \cup {NoHash}

AccountType ==
    [account_id : Index, balance : 0 .. Word - 1, salt : Salts \cup {""},
     hash : HashType]

\* Mutant of Account: the hash leaves the salt out.
AccountUnsalted(id, balance, password, salt) ==
    [account_id |-> id, balance |-> balance, salt |-> salt,
     hash |-> Hash(password, "")]

Account(id, balance, password, salt) ==
    [account_id |-> id, balance |-> balance, salt |-> salt,
     hash |-> Hash(password, salt)]

\* create_admin_account; the password is hashed as the shell reads it in double
\* quotes, which is also how validate_admin and validate_user hash it.
WithAdmin(salt) ==
    [i \in Index |-> IF i = ADMIN THEN Account(ADMIN, 0, Quoted(AdminPassword), salt)
                                  ELSE NoAccount]

Between(lo, x, hi) == lo <= x /\ x <= hi

\* Each of the next operators is the ret_code of a series of checks, "OK" if
\* they all succeed.  The code of two of them is that of the first that fails.
Then(code, next) == IF code = "OK" THEN next ELSE code

\* validate_admin
AdminCode(a, r) ==
    IF r.id # ADMIN THEN "OP_NALLOW"
    ELSE IF Hash(Quoted(r.password), a[ADMIN].salt) # a[ADMIN].hash THEN "LOGIN_FAIL"
    ELSE "OK"

\* validate_user: the checks on the id ...
UserIdCode(a, r) ==
    IF r.id = ADMIN THEN "OP_NALLOW"
    ELSE IF ~Between(1, r.id, MAX_BANK_ACCOUNTS) THEN "OTHER"
    ELSE IF a[r.id].account_id # r.id THEN "ID_NOT_FOUND"
    ELSE "OK"

\* Mutant of LoginCode: any password will do.
LoginCodeAny(a, r, salt) == IF a[r.id].hash = NoHash THEN "LOGIN_FAIL" ELSE "OK"

\* ... and on the password.
LoginCode(a, r, salt) ==
    IF Hash(Quoted(r.password), salt) # a[r.id].hash THEN "LOGIN_FAIL" ELSE "OK"

\* create_user_account
CreateCode(a, r) ==
    IF ~Between(1, r.acc, MAX_BANK_ACCOUNTS) THEN "OTHER"
    ELSE IF a[r.acc].account_id = r.acc THEN "ID_IN_USE"
    ELSE IF ~Between(MIN_BALANCE, r.amount, MAX_BALANCE) THEN "OTHER"
    ELSE IF r.newpass \notin ValidPasswords THEN "OTHER"
    ELSE "OK"

\* create_user_transfer: the destination, the funds and the room for them.
DestCode(a, r) ==
    IF ~Between(1, r.acc, MAX_BANK_ACCOUNTS) THEN "OTHER"
    ELSE IF a[r.acc].account_id # r.acc THEN "ID_IN_USE"
    ELSE "OK"

FundsCode(a, r) ==
    IF Between(MIN_BALANCE, r.amount, a[r.id].balance) THEN "OK" ELSE "NO_FUNDS"

\* Mutant of RoomCode: the greatest balance is refused.
RoomCodeStrict(a, r) ==
    IF Between(MIN_BALANCE, (r.amount + a[r.acc].balance) % Word, MAX_BALANCE - 1)
    THEN "OK" ELSE "NO_FUNDS"

\* The two comparisons of between, each of which reads the balance.
FloorCode(a, r) ==
    IF MIN_BALANCE <= (r.amount + a[r.acc].balance) % Word THEN "OK" ELSE "NO_FUNDS"

CeilingCode(a, r) ==
    IF (r.amount + a[r.acc].balance) % Word <= MAX_BALANCE THEN "OK" ELSE "NO_FUNDS"

RoomCode(a, r) == Then(FloorCode(a, r), CeilingCode(a, r))

UserCode(a, r) == Then(UserIdCode(a, r), LoginCode(a, r, a[r.id].salt))

\* Mutant of Moved: both balances are computed from the ones before.
MovedStale(a, from, to, amount) ==
    [a EXCEPT ![from].balance = (a[from].balance - amount) % Word,
              ![to].balance = (a[to].balance + amount) % Word]

\* The balances after a transfer, in unsigned arithmetic: the debit comes first,
\* and the credit starts from it.
Moved(a, from, to, amount) ==
    LET debited == [a EXCEPT ![from].balance = (@ - amount) % Word]
    IN  [debited EXCEPT ![to].balance = (@ + amount) % Word]

\* What validate_admin makes sure of.
FromAdmin(r) == r.id = ADMIN /\ Quoted(r.password) = Quoted(AdminPassword)

\* Every index that the operation applies to the array is inside it: the id in
\* validate_user, the other account once validate_request has succeeded.
InArray(a, r) ==
    /\ r.type \in {"balance", "transfer"} => r.id # MAX_BANK_ACCOUNTS
    /\ r.type = "create" /\ AdminCode(a, r) = "OK" => r.acc \in Index
    /\ r.type = "transfer" /\ UserCode(a, r) = "OK" => r.acc \in Index
=============================================================================
