-------------------------------- MODULE Bank --------------------------------
(***************************************************************************)
(* What the home banking service promises: it deals with one request at a  *)
(* time, each in one step that answers it.  This is acknowledge_request    *)
(* with nobody else at work; Ledger.tla shows when several offices at work *)
(* still amount to it.                                                     *)
(***************************************************************************)
EXTENDS Accounts, FiniteSetsExt

VARIABLES
    accounts,  \* accounts[i]: id, balance, salt and hash of account i
    answers    \* the replies: request, ret_code and, if it counts, balance

vars == <<accounts, answers>>

Init ==
    /\ \E salt \in Salts : accounts = WithAdmin(salt)
    /\ answers = {}

\* A request is answered once.  The promise is about the accounts that exist
\* in the array: what an index outside of it does is undefined.
Pending(r, type) ==
    /\ r.type = type
    /\ InArray(accounts, r)
    /\ \A x \in answers : x.req # r

\* The balance of a reply counts only in an OK answer to a balance or transfer.
Answer(r, code, balance) ==
    answers' = answers \cup
        {[req |-> r, code |-> code,
          balance |-> IF code = "OK" THEN balance ELSE NoBalance]}

Create(r) ==
    LET code == Then(AdminCode(accounts, r), CreateCode(accounts, r))
    IN  /\ Pending(r, "create")
        /\ Answer(r, code, NoBalance)
        /\ IF code = "OK"
           THEN \E salt \in Salts : accounts' = [accounts EXCEPT
                    ![r.acc] = Account(r.acc, r.amount, Unquoted(r.newpass), salt)]
           ELSE UNCHANGED accounts

Balance(r) ==
    /\ Pending(r, "balance")
    /\ Answer(r, UserCode(accounts, r), accounts[r.id].balance)
    /\ UNCHANGED accounts

\* Mutant of Transfer: the room for the money is not checked.
TransferUnchecked(r) ==
    LET code == Then(UserCode(accounts, r),
                Then(DestCode(accounts, r), FundsCode(accounts, r)))
    IN  /\ Pending(r, "transfer")
        /\ accounts' = IF code = "OK" THEN Moved(accounts, r.id, r.acc, r.amount)
                                      ELSE accounts
        /\ Answer(r, code, accounts'[r.id].balance)

Transfer(r) ==
    LET code == Then(UserCode(accounts, r),
                Then(DestCode(accounts, r),
                Then(FundsCode(accounts, r), RoomCode(accounts, r))))
    IN  /\ Pending(r, "transfer")
        /\ accounts' = IF code = "OK" THEN Moved(accounts, r.id, r.acc, r.amount)
                                      ELSE accounts
        /\ Answer(r, code, accounts'[r.id].balance)

\* An operation that does not exist: the ret_code is left as it was.
Other(r) ==
    /\ Pending(r, "other")
    /\ \E code \in Codes \ {UNSET} : Answer(r, code, NoBalance)
    /\ UNCHANGED accounts

Next ==
    \E r \in Requests : Create(r) \/ Balance(r) \/ Transfer(r) \/ Other(r)

Spec == Init /\ [][Next]_vars

-----------------------------------------------------------------------------
AnswerType ==
    [req : Requests, code : Codes, balance : 0 .. Word - 1 \cup {NoBalance}]

\* Types of the accounts and of the answers.
TypeOK ==
    /\ accounts \in [Index -> AccountType]
    /\ answers \subseteq AnswerType

\* Every balance is at most MAX_BALANCE, hence no sum of the checks wraps
\* around, and the admin's account stays empty.
BalanceRange ==
    /\ \A i \in Index : accounts[i].balance <= MAX_BALANCE
    /\ accounts[ADMIN].balance = 0

\* The requests of a type that were answered OK.
Accepted(type) ==
    {r \in Requests : r.type = type /\ \E x \in answers : x.req = r /\ x.code = "OK"}

\* No money appears or vanishes: the balances add up to what the admin put in.
Conservation ==
    SumFunctionOnSet([i \in Index |-> accounts[i].balance], Index)
        = SumFunctionOnSet([r \in Requests |-> r.amount], Accepted("create"))

\* An account is created at most once, by the admin, and whoever operates it
\* gives a password that the shell reads as the one it was created with, in the
\* quotes of the login here and without quotes there.
Authentic ==
    /\ \A r \in Accepted("create") : FromAdmin(r)
    /\ \A r, s \in Accepted("create") : r.acc = s.acc => r = s
    /\ \A r \in Accepted("balance") \cup Accepted("transfer") :
         \E s \in Accepted("create") :
            s.acc = r.id /\ Unquoted(s.newpass) = Quoted(r.password)

-----------------------------------------------------------------------------
(* What the comments of types.h say of the ret_codes, as a reference for   *)
(* the checks of server.c.                                                 *)

Exists(a, id) == id \in Index /\ a[id].account_id = id

\* When each of them applies; a password is what the shell makes of it.  SRV_DOWN,
\* SRV_TIMEOUT and USR_DOWN are about the channels.
Applies(a, r) ==
    LET transfer == r.type = "transfer"
    IN  [LOGIN_FAIL   |-> Exists(a, r.id)
                          /\ a[r.id].hash # Hash(Quoted(r.password), a[r.id].salt),
         OP_NALLOW    |-> (r.type = "create") # (r.id = ADMIN),
         ID_IN_USE    |-> r.type = "create" /\ Exists(a, r.acc),
         ID_NOT_FOUND |-> ~Exists(a, r.id) \/ (transfer /\ ~Exists(a, r.acc)),
         SAME_ID      |-> transfer /\ r.id = r.acc,
         NO_FUNDS     |-> transfer /\ Exists(a, r.id)
                          /\ a[r.id].balance < r.amount + MIN_BALANCE,
         TOO_HIGH     |-> transfer /\ Exists(a, r.acc)
                          /\ a[r.acc].balance + r.amount > MAX_BALANCE]

Errors(a, r) == {e \in DOMAIN Applies(a, r) : Applies(a, r)[e]}

\* A request is answered OK exactly if none of the errors applies and none of
\* its arguments is invalid (OTHER), except that a transfer to oneself and one
\* of the whole balance are accepted, and one of nothing is refused as NO_FUNDS.
Tolerated(a, r) ==
    {"SAME_ID"} \cup
    {e \in {"NO_FUNDS"} : r.type = "transfer" /\ Exists(a, r.id)
                           /\ a[r.id].balance = r.amount}

JustlyAccepted ==
    [][\A x \in answers' \ answers : x.req.type # "other" =>
         LET errors == Errors(accounts, x.req) \ Tolerated(accounts, x.req)
         IN  IF x.code = "OK" THEN errors = {}
             ELSE \/ errors # {}
                  \/ x.code = "OTHER"
                  \/ x.code = "NO_FUNDS" /\ x.req.amount = 0]_vars
=============================================================================
