------------------------------- MODULE Ledger -------------------------------
(***************************************************************************)
(* acknowledge_request as the office threads run it: on the one array of   *)
(* accounts, with no lock.  A step is one access to a field of an account; *)
(* a string (salt, hash) is read or written in one step.  x -= y and       *)
(* x += y are a load and a store.  A request is one that Offices.tla hands *)
(* to an office.                                                           *)
(*                                                                         *)
(* An access outside of the array is undefined behaviour: the model stops  *)
(* there, with fault set.                                                  *)
(***************************************************************************)
EXTENDS Accounts, FiniteSetsExt, Functions

CONSTANT Offices

ASSUME LedgerAssumption == IsFiniteSet(Offices) /\ Requests # {}

VARIABLES
    accounts,
    pc,       \* where each office is in acknowledge_request
    job,      \* its next_request
    reply,    \* its reply: ret_code and balance, never cleared in between
    salt,     \* the salt that it has read or generated
    reg,      \* the balance that it has loaded and not yet stored
    begun,    \* the requests handed out so far
    slog,     \* the creations that were logged
    fault,
    answers,  \* history: the replies sent
    overlap   \* history: two offices have worked on one account together

shared == <<accounts, slog, fault>>
local  == <<reply, salt, reg>>
begin  == <<job, begun, overlap>>
vars   == <<shared, local, begin, pc, answers>>

Init ==
    /\ \E s \in Salts : accounts = WithAdmin(s)
    /\ pc = [o \in Offices |-> "idle"]
    /\ job = [o \in Offices |-> CHOOSE r \in Requests : TRUE]
    /\ reply = [o \in Offices |-> [ret_code |-> UNSET, balance |-> 0]]
    /\ salt = [o \in Offices |-> ""]
    /\ reg = [o \in Offices |-> 0]
    /\ begun = {}
    /\ slog = {}
    /\ fault = FALSE
    /\ answers = {}
    /\ overlap = FALSE

-----------------------------------------------------------------------------
\* The accounts other than the admin's that a request works on.
Touches(r) ==
    CASE r.type = "create"   -> {r.acc}
      [] r.type = "balance"  -> {r.id}
      [] r.type = "transfer" -> {r.id, r.acc}
      [] OTHER               -> {}

Busy == {o \in Offices : pc[o] # "idle"}

\* An office turns to its next request.
Begin(o, r) ==
    /\ pc[o] = "idle"
    /\ r \notin begun
    /\ pc' = [pc EXCEPT ![o] =
            CASE r.type = "create" -> "admin"
              [] r.type \in {"balance", "transfer"} -> "user"
              [] OTHER -> "other"]
    /\ job' = [job EXCEPT ![o] = r]
    /\ begun' = begun \cup {r}
    /\ overlap' = (overlap \/ \E p \in Busy : Touches(job[p]) \cap Touches(r) # {})
    /\ UNCHANGED <<shared, local, answers>>

\* An office goes on ...
Go(o, from, to) ==
    /\ pc[o] = from
    /\ pc' = [pc EXCEPT ![o] = to]
    /\ UNCHANGED <<begin, answers>>

\* ... with a check that gave a code, which goes into the reply ...
Checked(o, from, code, next, otherwise) ==
    /\ Go(o, from, IF code = "OK" THEN next ELSE otherwise)
    /\ reply' = [reply EXCEPT ![o].ret_code = code]
    /\ UNCHANGED <<shared, salt, reg>>

\* ... or with an access outside of the array.
Fault(o, from) ==
    /\ Go(o, from, from)
    /\ fault' = TRUE
    /\ UNCHANGED <<accounts, slog, local>>

\* validate_admin: the admin's account does not change.
ValidateAdmin(o) ==
    Checked(o, "admin", AdminCode(accounts, job[o]), "create", "reply")

\* validate_user: the id, the salt of the account and its hash.
ValidateUser(o) ==
    IF job[o].id = MAX_BANK_ACCOUNTS
    THEN Fault(o, "user")
    ELSE Checked(o, "user", UserIdCode(accounts, job[o]), "salt", "reply")

ReadSalt(o) ==
    /\ Go(o, "salt", "login")
    /\ salt' = [salt EXCEPT ![o] = accounts[job[o].id].salt]
    /\ UNCHANGED <<shared, reply, reg>>

Login(o) ==
    Checked(o, "login", LoginCode(accounts, job[o], salt[o]), job[o].type, "reply")

\* The default branch of validate_request assigns no ret_code: the reply keeps
\* the one of the office's previous request or, if there was none, whatever the
\* uninitialised local holds.
NoOperation(o) ==
    /\ Go(o, "other", "reply")
    /\ \E code \in Codes \ {UNSET} :
        /\ reply[o].ret_code \in {UNSET, code}
        /\ reply' = [reply EXCEPT ![o].ret_code = code]
    /\ UNCHANGED <<shared, salt, reg>>

\* check_user_balance
CheckBalance(o) ==
    /\ Go(o, "balance", "reply")
    /\ reply' = [reply EXCEPT ![o].balance = accounts[job[o].id].balance]
    /\ UNCHANGED <<shared, salt, reg>>

-----------------------------------------------------------------------------
(* create_user_account: the checks, then the fields one after the other.   *)

CheckCreate(o) ==
    IF job[o].acc = MAX_BANK_ACCOUNTS
    THEN Fault(o, "create")
    ELSE Checked(o, "create", CreateCode(accounts, job[o]), "set_id", "log")

\* logAccountCreation is called when create_user_account returns 1, and that
\* is when it fails.
LogCreation(o) ==
    IF job[o].acc \notin Index
    THEN Fault(o, "log")
    ELSE /\ Go(o, "log", "reply")
         /\ slog' = slog \cup {job[o]}
         /\ UNCHANGED <<accounts, fault, local>>

SetField(o, from, to, account) ==
    /\ Go(o, from, to)
    /\ accounts' = [accounts EXCEPT ![job[o].acc] = account]
    /\ UNCHANGED <<slog, fault, reply, reg>>

Target(o) == accounts[job[o].acc]

SetId(o) ==
    /\ SetField(o, "set_id", "set_balance",
                [Target(o) EXCEPT !.account_id = job[o].acc])
    /\ UNCHANGED salt

SetBalance(o) ==
    /\ SetField(o, "set_balance", "set_salt",
                [Target(o) EXCEPT !.balance = job[o].amount])
    /\ UNCHANGED salt

SetSalt(o) ==
    \E s \in Salts :
        /\ SetField(o, "set_salt", "set_hash", [Target(o) EXCEPT !.salt = s])
        /\ salt' = [salt EXCEPT ![o] = s]

\* Mutant of SetHash: the salt is left out of the hash.
SetHashUnsalted(o) ==
    /\ SetField(o, "set_hash", "reply",
                [Target(o) EXCEPT !.hash = Hash(Unquoted(job[o].newpass), "")])
    /\ UNCHANGED salt

SetHash(o) ==
    /\ SetField(o, "set_hash", "reply",
                [Target(o) EXCEPT !.hash = Hash(Unquoted(job[o].newpass), salt[o])])
    /\ UNCHANGED salt

-----------------------------------------------------------------------------
(* create_user_transfer.                                                   *)

\* The balance of the destination is put into the reply before any check.
EchoDest(o) ==
    IF job[o].acc \notin Index
    THEN Fault(o, "transfer")
    ELSE /\ Go(o, "transfer", "dest")
         /\ reply' = [reply EXCEPT ![o].balance = Target(o).balance]
         /\ UNCHANGED <<shared, salt, reg>>

CheckDest(o) ==
    Checked(o, "dest", DestCode(accounts, job[o]), "funds", "reply")

CheckFunds(o) ==
    Checked(o, "funds", FundsCode(accounts, job[o]), "floor", "reply")

\* between() evaluates the sum, and with it the balance, once for each limit.
CheckFloor(o) ==
    Checked(o, "floor", FloorCode(accounts, job[o]), "room", "reply")

CheckRoom(o) ==
    Checked(o, "room", CeilingCode(accounts, job[o]), "debit", "reply")

\* Mutant of Load: the variable the balance is loaded into is static.
LoadStatic(o, from, to, i) ==
    /\ Go(o, from, to)
    /\ reg' = [p \in Offices |-> accounts[i].balance]
    /\ UNCHANGED <<shared, reply, salt>>

Load(o, from, to, i) ==
    /\ Go(o, from, to)
    /\ reg' = [reg EXCEPT ![o] = accounts[i].balance]
    /\ UNCHANGED <<shared, reply, salt>>

Store(o, from, to, i, change) ==
    /\ Go(o, from, to)
    /\ accounts' = [accounts EXCEPT ![i].balance = (reg[o] + change) % Word]
    /\ UNCHANGED <<slog, fault, local>>

DebitLoad(o)   == Load(o, "debit", "debit_store", job[o].id)
DebitStore(o)  == Store(o, "debit_store", "credit", job[o].id, -job[o].amount)

\* Mutant of CreditLoad: the new balance is computed from the one in the reply.
CreditLoadEcho(o) ==
    /\ Go(o, "credit", "credit_store")
    /\ reg' = [reg EXCEPT ![o] = reply[o].balance]
    /\ UNCHANGED <<shared, reply, salt>>

CreditLoad(o)  == Load(o, "credit", "credit_store", job[o].acc)
CreditStore(o) == Store(o, "credit_store", "result", job[o].acc, job[o].amount)

\* Mutant of TransferResult: the balance in the reply is still the destination's.
TransferResultEcho(o) ==
    /\ Go(o, "result", "reply")
    /\ UNCHANGED <<shared, local>>

TransferResult(o) ==
    /\ Go(o, "result", "reply")
    /\ reply' = [reply EXCEPT ![o].balance = accounts[job[o].id].balance]
    /\ UNCHANGED <<shared, salt, reg>>

\* The reply goes to the user; its fields keep their values.
Reply(o) ==
    /\ pc[o] = "reply"
    /\ pc' = [pc EXCEPT ![o] = "idle"]
    /\ answers' = answers \cup {[req |-> job[o], code |-> reply[o].ret_code,
                                 balance |-> reply[o].balance]}
    /\ UNCHANGED <<shared, local, begin>>

-----------------------------------------------------------------------------
OfficeStep(o) ==
    \/ \E r \in Requests : Begin(o, r)
    \/ ValidateAdmin(o) \/ ValidateUser(o) \/ ReadSalt(o) \/ Login(o)
    \/ NoOperation(o) \/ CheckBalance(o)
    \/ CheckCreate(o) \/ LogCreation(o)
    \/ SetId(o) \/ SetBalance(o) \/ SetSalt(o) \/ SetHash(o)
    \/ EchoDest(o) \/ CheckDest(o) \/ CheckFunds(o)
    \/ CheckFloor(o) \/ CheckRoom(o)
    \/ DebitLoad(o) \/ DebitStore(o) \/ CreditLoad(o) \/ CreditStore(o)
    \/ TransferResult(o)
    \/ Reply(o)

Next == ~fault /\ \E o \in Offices : OfficeStep(o)

Spec == Init /\ [][Next]_vars

-----------------------------------------------------------------------------
PCs == {"idle", "admin", "user", "other", "salt", "login", "balance", "create",
        "log", "set_id", "set_balance", "set_salt", "set_hash", "transfer", "dest",
        "funds", "floor", "room", "debit", "debit_store", "credit", "credit_store",
        "result", "reply"}

\* Types of the accounts, of the offices' locals and of the histories.
TypeOK ==
    /\ accounts \in [Index -> AccountType]
    /\ pc \in [Offices -> PCs]
    /\ job \in [Offices -> Requests]
    /\ reply \in [Offices -> [ret_code : Codes, balance : 0 .. Word - 1]]
    /\ salt \in [Offices -> Salts \cup {""}]
    /\ reg \in [Offices -> 0 .. Word - 1]
    /\ begun \subseteq Requests
    /\ slog \subseteq Requests
    /\ fault \in BOOLEAN
    /\ answers \subseteq [req : Requests, code : Codes, balance : 0 .. Word - 1]
    /\ overlap \in BOOLEAN

-----------------------------------------------------------------------------
(* The Bank that the offices implement: a request takes effect when its    *)
(* code is decided, and the work of an office before that does not show.   *)
(* A create that failed and cannot be logged is never answered.            *)

Creating(o)  == pc[o] \in {"set_balance", "set_salt", "set_hash"}
Debited(o)   == pc[o] \in {"credit", "credit_store", "result"}
Credited(o)  == pc[o] = "result"
Decided(o)   == pc[o] = "reply" \/ (pc[o] = "log" /\ job[o].acc \in Index)

Amounts == [o \in Offices |-> job[o].amount]

\* What is missing from account i, and what is in it too early.
Undone(i) ==
    SumFunctionOnSet(Amounts, {o \in Offices : Debited(o) /\ job[o].id = i})
        - SumFunctionOnSet(Amounts, {o \in Offices : Credited(o) /\ job[o].acc = i})

AccountsView ==
    [i \in Index |->
        IF \E o \in Offices : Creating(o) /\ job[o].acc = i
        THEN NoAccount
        ELSE [accounts[i] EXCEPT !.balance = (@ + Undone(i)) % Word]]

\* print_reply: what the user is shown of a reply is its code and, if that is OK
\* and the operation was a balance or a transfer, the balance.
PrintReply(r, code, balance) ==
    [req |-> r, code |-> code,
     balance |-> IF code = "OK" /\ r.type \in {"balance", "transfer"}
                 THEN balance ELSE NoBalance]

AnswersView ==
    {PrintReply(x.req, x.code, x.balance) : x \in answers} \cup
    {PrintReply(job[o], reply[o].ret_code, reply[o].balance) :
        o \in {p \in Offices : Decided(p)}}

BankView == INSTANCE Bank WITH accounts <- AccountsView, answers <- AnswersView

\* A single office implements the Bank.
ImplementsBank == BankView!Spec

\* As long as no two offices have worked on one account at the same time, the
\* offices do what the Bank does, one request at a time.
BankWhileDisjoint ==
    BankView!Init /\ [][overlap' \/ [BankView!Next]_(BankView!vars)]_vars

\* Whatever the offices do to each other, a user operation is accepted only
\* with a password that the shell reads, in the quotes of the login, as it read the
\* one of a request to create the account, and only if the admin sent that.
LoginSound ==
    \A x \in answers : x.code = "OK" /\ x.req.type \in {"balance", "transfer"} =>
        \E r \in begun :
            /\ r.type = "create" /\ FromAdmin(r)
            /\ r.acc = x.req.id /\ Unquoted(r.newpass) = Quoted(x.req.password)

-----------------------------------------------------------------------------
(* What the code's comments say of several offices.                        *)

AtRest == Busy = {} /\ ~fault

Accepted(type) ==
    {r \in Requests : r.type = type /\ \E x \in answers : x.req = r /\ x.code = "OK"}

\* Each account has a critical section, so that no money appears or vanishes:
\* when no office is at work the balances add up to what the admin put in.
Conservation ==
    AtRest => SumFunctionOnSet([i \in Index |-> accounts[i].balance], Index)
                = SumFunctionOnSet([r \in Requests |-> r.amount], Accepted("create"))

\* There is none, but it takes two offices that have worked on one account at the
\* same time to lose money.
ConservedWhileDisjoint == overlap \/ Conservation
=============================================================================
