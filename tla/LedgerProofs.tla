---------------------------- MODULE LedgerProofs ----------------------------
(***************************************************************************)
(* Theorems about several offices at work on the accounts without a lock,  *)
(* for every number of offices and every set of requests.                  *)
(***************************************************************************)
EXTENDS Ledger, SumTheorems, AccountsProofs

-----------------------------------------------------------------------------
(* Types.  What an office has checked of its request it relies on later:   *)
(* the operation it is in, and the indexes that it applies to the array.   *)

SetPCs    == {"set_id", "set_balance", "set_salt", "set_hash"}
CreatePCs == {"admin", "create", "log"} \cup SetPCs
MovePCs   == {"dest", "funds", "floor", "room", "debit", "debit_store", "credit",
              "credit_store", "result"}
KnownPCs  == {"salt", "login", "balance", "transfer"} \cup MovePCs
UserPCs   == {"user"} \cup KnownPCs

PlaceAt(o, at) ==
    /\ at \in CreatePCs => job[o].type = "create"
    /\ at \in UserPCs => job[o].type \in {"balance", "transfer"}
    /\ at = "other" => job[o].type = "other"
    /\ at \in SetPCs => job[o].acc \in Index \ {ADMIN}
    /\ at \in KnownPCs => job[o].id \in Index \ {ADMIN}
    /\ at \in MovePCs => job[o].acc \in Index
    /\ at = "set_hash" => salt[o] \in Salts

Places == \A o \in Offices : PlaceAt(o, pc[o])

TypeInv == TypeOK /\ Places

\* The variables start with values of their types.
LEMMA TypeInit == Init => TypeInv
  <1> SUFFICES ASSUME Init PROVE TypeInv
    OBVIOUS
  <1>0. 0 \in 0 .. Word - 1
    BY BankAssumption
  <1>1. accounts \in [Index -> AccountType]
    BY InitialAccounts DEF Init
  <1>2. job \in [Offices -> Requests]
    BY LedgerAssumption DEF Init
  <1>3. reply \in [Offices -> [ret_code : Codes, balance : 0 .. Word - 1]]
    BY <1>0 DEF Init, Codes
  <1>4. pc \in [Offices -> PCs] /\ salt \in [Offices -> Salts \cup {""}]
    BY DEF Init, PCs
  <1>5. reg \in [Offices -> 0 .. Word - 1]
    BY <1>0 DEF Init
  <1>6. fault \in BOOLEAN /\ overlap \in BOOLEAN
    BY Zenon DEF Init
  <1>7. begun = {} /\ slog = {} /\ answers = {}
    BY DEF Init
  <1>8. \A o \in Offices : pc[o] = "idle"
    BY DEF Init
  <1>9. Places
    BY <1>8 DEF Places, PlaceAt, CreatePCs, UserPCs, KnownPCs, SetPCs, MovePCs
  <1> QED
    BY <1>1, <1>2, <1>3, <1>4, <1>5, <1>6, <1>7, <1>9 DEF TypeInv, TypeOK

\* An office that goes on.
LEMMA Goes ==
    ASSUME TypeOK, NEW o \in Offices, NEW from, NEW to \in PCs, Go(o, from, to)
    PROVE  /\ pc[o] = from /\ pc'[o] = to /\ pc' \in [Offices -> PCs]
           /\ \A p \in Offices : p # o => pc'[p] = pc[p]
           /\ UNCHANGED <<job, begun, overlap, answers>>
  BY DEF TypeOK, Go, begin

\* A check changes nothing but the ret_code of the reply.
LEMMA Checks ==
    ASSUME TypeOK, NEW o \in Offices, NEW from, NEW code \in Codes, NEW next \in PCs,
           NEW otherwise \in PCs, Checked(o, from, code, next, otherwise)
    PROVE  /\ pc[o] = from
           /\ pc'[o] = IF code = "OK" THEN next ELSE otherwise
           /\ pc' \in [Offices -> PCs]
           /\ \A p \in Offices : p # o => pc'[p] = pc[p] /\ reply'[p] = reply[p]
           /\ reply' \in [Offices -> [ret_code : Codes, balance : 0 .. Word - 1]]
           /\ reply'[o].ret_code = code
           /\ UNCHANGED <<job, begun, overlap, answers, accounts, slog, fault, salt, reg>>
  <1>1. Go(o, from, IF code = "OK" THEN next ELSE otherwise)
    BY DEF Checked
  <1>2. /\ reply' = [reply EXCEPT ![o].ret_code = code]
        /\ UNCHANGED <<accounts, slog, fault, salt, reg>>
    BY DEF Checked, shared
  <1>3. /\ reply' \in [Offices -> [ret_code : Codes, balance : 0 .. Word - 1]]
        /\ reply'[o].ret_code = code
        /\ \A p \in Offices : p # o => reply'[p] = reply[p]
    BY <1>2 DEF TypeOK
  <1> QED
    BY <1>1, <1>2, <1>3, Goes

\* The codes of the checks.
LEMMA CodesOfChecks ==
    ASSUME NEW r \in Requests, NEW s
    PROVE  /\ AdminCode(accounts, r) \in Codes /\ UserIdCode(accounts, r) \in Codes
           /\ LoginCode(accounts, r, s) \in Codes /\ CreateCode(accounts, r) \in Codes
           /\ DestCode(accounts, r) \in Codes /\ FundsCode(accounts, r) \in Codes
           /\ FloorCode(accounts, r) \in Codes /\ CeilingCode(accounts, r) \in Codes
  BY DEF Codes, AdminCode, UserIdCode, LoginCode, CreateCode, DestCode, FundsCode,
     FloorCode, CeilingCode

\* What the checks of the ids give.
LEMMA InRange ==
    ASSUME NEW r \in Requests
    PROVE  /\ r.id # MAX_BANK_ACCOUNTS /\ UserIdCode(accounts, r) = "OK" =>
                r.id \in Index \ {ADMIN}
           /\ r.acc # MAX_BANK_ACCOUNTS /\ CreateCode(accounts, r) = "OK" =>
                r.acc \in Index \ {ADMIN}
  <1>1. r.id \in Nat /\ r.acc \in Nat
    BY RequestFields
  <1> QED
    BY <1>1, BankAssumption DEF UserIdCode, CreateCode, Between, Index, ADMIN

\* An office that goes on to a place where it may be, with values of the right
\* types, keeps the types.
LEMMA TypeGo ==
    ASSUME TypeInv, NEW o \in Offices, NEW from, NEW to \in PCs, Go(o, from, to),
           PlaceAt(o, to)',
           \A p \in Offices : p # o => salt'[p] = salt[p],
           accounts' \in [Index -> AccountType],
           reply' \in [Offices -> [ret_code : Codes, balance : 0 .. Word - 1]],
           salt' \in [Offices -> Salts \cup {""}],
           reg' \in [Offices -> 0 .. Word - 1],
           slog' \subseteq Requests, fault' \in BOOLEAN
    PROVE  TypeInv'
  <1>1. /\ pc[o] = from /\ pc'[o] = to /\ pc' \in [Offices -> PCs]
        /\ \A p \in Offices : p # o => pc'[p] = pc[p]
        /\ UNCHANGED <<job, begun, overlap, answers>>
    BY Goes DEF TypeInv
  <1>2. ASSUME NEW p \in Offices PROVE PlaceAt(p, pc[p])'
    BY <1>1 DEF TypeInv, Places, PlaceAt
  <1>3. Places'
    BY <1>2 DEF Places
  <1> QED
    BY <1>1, <1>3 DEF TypeInv, TypeOK

\* The same for a check, which leaves only the ret_code.
LEMMA TypeChecked ==
    ASSUME TypeInv, NEW o \in Offices, NEW from, NEW code \in Codes, NEW next \in PCs,
           NEW otherwise \in PCs, Checked(o, from, code, next, otherwise),
           code = "OK" => PlaceAt(o, next), code # "OK" => PlaceAt(o, otherwise)
    PROVE  TypeInv'
  <1> DEFINE to == IF code = "OK" THEN next ELSE otherwise
  <1>1. Go(o, from, to) /\ to \in PCs
    BY DEF Checked
  <1>2. /\ reply' \in [Offices -> [ret_code : Codes, balance : 0 .. Word - 1]]
        /\ UNCHANGED <<accounts, slog, fault, salt, reg, job>>
    BY Checks DEF TypeInv
  <1>3. PlaceAt(o, to)'
    BY <1>2 DEF PlaceAt
  <1> QED
    BY <1>1, <1>2, <1>3, TypeGo DEF TypeInv, TypeOK

\* An access outside of the array changes nothing but fault.
LEMMA TypeFault ==
    ASSUME TypeInv, NEW o \in Offices, NEW from, Fault(o, from) PROVE TypeInv'
  <1>1. /\ Go(o, from, from) /\ from \in PCs
        /\ UNCHANGED <<accounts, slog, reply, salt, reg, job>>
    BY DEF Fault, Go, begin, local, TypeInv, TypeOK
  <1>2. fault' \in BOOLEAN
    BY Zenon DEF Fault
  <1>3. PlaceAt(o, from)'
    BY <1>1 DEF Go, TypeInv, Places, PlaceAt
  <1> QED
    BY <1>1, <1>2, <1>3, TypeGo DEF TypeInv, TypeOK

\* Where an office is when it takes a step.
LEMMA At ==
    ASSUME TypeInv, NEW o \in Offices, NEW from, NEW to, Go(o, from, to)
    PROVE  PlaceAt(o, from) /\ job[o] \in Requests /\ from \in PCs
  BY DEF TypeInv, TypeOK, Places, Go

\* The checks of an office.
LEMMA TypeChecks ==
    ASSUME TypeInv, NEW o \in Offices,
           \/ ValidateAdmin(o) \/ ValidateUser(o) \/ Login(o) \/ CheckCreate(o)
           \/ CheckDest(o) \/ CheckFunds(o) \/ CheckFloor(o) \/ CheckRoom(o)
    PROVE  TypeInv'
  <1>0. job[o] \in Requests
    BY DEF TypeInv, TypeOK
  <1>a. /\ AdminCode(accounts, job[o]) \in Codes /\ UserIdCode(accounts, job[o]) \in Codes
        /\ LoginCode(accounts, job[o], salt[o]) \in Codes
        /\ CreateCode(accounts, job[o]) \in Codes /\ DestCode(accounts, job[o]) \in Codes
        /\ FundsCode(accounts, job[o]) \in Codes /\ FloorCode(accounts, job[o]) \in Codes
        /\ CeilingCode(accounts, job[o]) \in Codes
    BY <1>0, CodesOfChecks
  <1>b. /\ {"create", "reply", "salt", "balance", "transfer", "set_id", "log", "funds",
             "floor", "room", "debit"} \subseteq PCs
        /\ PlaceAt(o, "reply")
    BY DEF PCs, PlaceAt, CreatePCs, UserPCs, KnownPCs, SetPCs, MovePCs
  <1> DEFINE Follows(from, next) == PlaceAt(o, from) => PlaceAt(o, next)
  <1>c. /\ Follows("admin", "create") /\ Follows("create", "log")
        /\ Follows("dest", "funds") /\ Follows("funds", "floor")
        /\ Follows("floor", "room") /\ Follows("room", "debit")
        /\ PlaceAt(o, "login") => PlaceAt(o, job[o].type) /\ job[o].type \in {"balance", "transfer"}
        /\ job[o].id \in Index \ {ADMIN} => Follows("user", "salt")
        /\ job[o].acc \in Index \ {ADMIN} => Follows("create", "set_id")
    BY DEF PlaceAt, CreatePCs, UserPCs, KnownPCs, SetPCs, MovePCs
  <1>d. ASSUME NEW from, NEW code, NEW next, NEW otherwise,
               Checked(o, from, code, next, otherwise)
        PROVE  PlaceAt(o, from)
    BY <1>d, At DEF Checked
  <1>1. CASE ValidateAdmin(o)
    <2>1. Checked(o, "admin", AdminCode(accounts, job[o]), "create", "reply")
      BY <1>1 DEF ValidateAdmin
    <2>2. PlaceAt(o, "admin") /\ PlaceAt(o, "create")
      BY <1>c, <1>d, <2>1
    <2> QED
      BY <1>a, <1>b, <2>1, <2>2, TypeChecked
  <1>2. CASE ValidateUser(o)
    <2>1. CASE job[o].id = MAX_BANK_ACCOUNTS
      BY <1>2, <2>1, TypeFault DEF ValidateUser
    <2>2. CASE job[o].id # MAX_BANK_ACCOUNTS
      <3>1. Checked(o, "user", UserIdCode(accounts, job[o]), "salt", "reply")
        BY <1>2, <2>2 DEF ValidateUser
      <3>2. PlaceAt(o, "user") /\ PlaceAt(o, "reply")
        BY <1>b, <1>c, <1>d, <3>1
      <3>3. UserIdCode(accounts, job[o]) = "OK" => PlaceAt(o, "salt")
        BY <1>0, <1>c, <2>2, <3>2, InRange
      <3> QED
        BY <1>a, <1>b, <3>1, <3>2, <3>3, TypeChecked
    <2> QED
      BY <2>1, <2>2
  <1>3. CASE Login(o)
    <2>1. Checked(o, "login", LoginCode(accounts, job[o], salt[o]), job[o].type, "reply")
      BY <1>3 DEF Login
    <2>2. PlaceAt(o, "login") /\ PlaceAt(o, job[o].type) /\ job[o].type \in PCs
      BY <1>b, <1>c, <1>d, <2>1
    <2> QED
      BY <1>a, <1>b, <2>1, <2>2, TypeChecked
  <1>4. CASE CheckCreate(o)
    <2>1. CASE job[o].acc = MAX_BANK_ACCOUNTS
      BY <1>4, <2>1, TypeFault DEF CheckCreate
    <2>2. CASE job[o].acc # MAX_BANK_ACCOUNTS
      <3>1. Checked(o, "create", CreateCode(accounts, job[o]), "set_id", "log")
        BY <1>4, <2>2 DEF CheckCreate
      <3>2. PlaceAt(o, "create") /\ PlaceAt(o, "log")
        BY <1>b, <1>c, <1>d, <3>1
      <3>3. CreateCode(accounts, job[o]) = "OK" => PlaceAt(o, "set_id")
        BY <1>0, <1>c, <2>2, <3>2, InRange
      <3> QED
        BY <1>a, <1>b, <3>1, <3>2, <3>3, TypeChecked
    <2> QED
      BY <2>1, <2>2
  <1>5. CASE CheckDest(o)
    <2>1. Checked(o, "dest", DestCode(accounts, job[o]), "funds", "reply")
      BY <1>5 DEF CheckDest
    <2>2. PlaceAt(o, "dest") /\ PlaceAt(o, "funds")
      BY <1>c, <1>d, <2>1
    <2> QED
      BY <1>a, <1>b, <2>1, <2>2, TypeChecked
  <1>6. CASE CheckFunds(o)
    <2>1. Checked(o, "funds", FundsCode(accounts, job[o]), "floor", "reply")
      BY <1>6 DEF CheckFunds
    <2>2. PlaceAt(o, "funds") /\ PlaceAt(o, "floor")
      BY <1>c, <1>d, <2>1
    <2> QED
      BY <1>a, <1>b, <2>1, <2>2, TypeChecked
  <1>7. CASE CheckFloor(o)
    <2>1. Checked(o, "floor", FloorCode(accounts, job[o]), "room", "reply")
      BY <1>7 DEF CheckFloor
    <2>2. PlaceAt(o, "floor") /\ PlaceAt(o, "room")
      BY <1>c, <1>d, <2>1
    <2> QED
      BY <1>a, <1>b, <2>1, <2>2, TypeChecked
  <1>8. CASE CheckRoom(o)
    <2>1. Checked(o, "room", CeilingCode(accounts, job[o]), "debit", "reply")
      BY <1>8 DEF CheckRoom
    <2>2. PlaceAt(o, "room") /\ PlaceAt(o, "debit")
      BY <1>c, <1>d, <2>1
    <2> QED
      BY <1>a, <1>b, <2>1, <2>2, TypeChecked
  <1> QED
    BY <1>1, <1>2, <1>3, <1>4, <1>5, <1>6, <1>7, <1>8

\* The steps that put something else into the reply, or only read.
LEMMA TypeReads ==
    ASSUME TypeInv, NEW o \in Offices,
           \/ ReadSalt(o) \/ NoOperation(o) \/ CheckBalance(o) \/ LogCreation(o)
           \/ EchoDest(o) \/ DebitLoad(o) \/ CreditLoad(o) \/ TransferResult(o)
    PROVE  TypeInv'
  <1>0. /\ job[o] \in Requests /\ accounts \in [Index -> AccountType]
        /\ reply \in [Offices -> [ret_code : Codes, balance : 0 .. Word - 1]]
        /\ salt \in [Offices -> Salts \cup {""}]
        /\ reg \in [Offices -> 0 .. Word - 1]
        /\ slog \subseteq Requests /\ fault \in BOOLEAN
    BY DEF TypeInv, TypeOK
  <1>1. \A i \in Index : /\ accounts[i].balance \in 0 .. Word - 1
                         /\ accounts[i].salt \in Salts \cup {""}
    BY <1>0 DEF AccountType
  <1>2. ASSUME NEW b \in 0 .. Word - 1, NEW from, NEW to \in PCs, Go(o, from, to),
               PlaceAt(o, from) => PlaceAt(o, to),
               reply' = [reply EXCEPT ![o].balance = b],
               UNCHANGED <<shared, salt, reg>>
        PROVE  TypeInv'
    <2>1. PlaceAt(o, to)'
      BY <1>2, At DEF PlaceAt, Go, begin
    <2>2. reply' \in [Offices -> [ret_code : Codes, balance : 0 .. Word - 1]]
      BY <1>0, <1>2
    <2> QED
      BY <1>0, <1>2, <2>1, <2>2, TypeGo DEF shared
  <1> USE DEF PCs, PlaceAt, CreatePCs, UserPCs, KnownPCs, SetPCs, MovePCs
  <1>3. CASE ReadSalt(o)
    <2>1. PlaceAt(o, "salt") /\ Go(o, "salt", "login")
      BY <1>3, At DEF ReadSalt
    <2>2. /\ salt' = [salt EXCEPT ![o] = accounts[job[o].id].salt]
          /\ UNCHANGED <<accounts, slog, fault, reply, reg, job>>
      BY <1>3 DEF ReadSalt, shared, Go, begin
    <2>3. /\ salt' \in [Offices -> Salts \cup {""}]
          /\ \A p \in Offices : p # o => salt'[p] = salt[p]
      BY <1>0, <1>1, <2>1, <2>2
    <2>4. PlaceAt(o, "login")'
      BY <2>1, <2>2
    <2> QED
      BY <1>0, <2>1, <2>2, <2>3, <2>4, TypeGo
  <1>4. CASE NoOperation(o)
    <2>1. PICK code \in Codes : reply' = [reply EXCEPT ![o].ret_code = code]
      BY <1>4 DEF NoOperation
    <2>2. reply' \in [Offices -> [ret_code : Codes, balance : 0 .. Word - 1]]
      BY <1>0, <2>1
    <2>3. Go(o, "other", "reply") /\ UNCHANGED <<accounts, slog, fault, salt, reg>>
      BY <1>4 DEF NoOperation, shared
    <2> QED
      BY <1>0, <2>2, <2>3, TypeGo
  <1>5. CASE CheckBalance(o)
    <2>1. job[o].id \in Index
      BY <1>5, At DEF CheckBalance
    <2> QED
      BY <1>1, <1>2, <1>5, <2>1 DEF CheckBalance
  <1>6. CASE LogCreation(o)
    <2>1. CASE job[o].acc \notin Index
      BY <1>6, <2>1, TypeFault DEF LogCreation
    <2>2. CASE job[o].acc \in Index
      <3>1. /\ Go(o, "log", "reply") /\ slog' = slog \cup {job[o]}
            /\ UNCHANGED <<accounts, fault, reply, salt, reg>>
        BY <1>6, <2>2 DEF LogCreation, local
      <3> QED
        BY <1>0, <3>1, TypeGo
    <2> QED
      BY <2>1, <2>2
  <1>7. CASE EchoDest(o)
    <2>1. CASE job[o].acc \notin Index
      BY <1>7, <2>1, TypeFault DEF EchoDest
    <2>2. CASE job[o].acc \in Index
      BY <1>1, <1>2, <1>7, <2>2 DEF EchoDest, Target
    <2> QED
      BY <2>1, <2>2
  <1>8. ASSUME NEW i \in Index, NEW from \in MovePCs, NEW to \in MovePCs,
               Load(o, from, to, i)
        PROVE  TypeInv'
    <2>1. /\ Go(o, from, to) /\ PlaceAt(o, from) /\ from \in PCs
          /\ reg' = [reg EXCEPT ![o] = accounts[i].balance]
          /\ UNCHANGED <<accounts, slog, fault, reply, salt, job>>
      BY <1>8, At DEF Load, shared, Go, begin
    <2>2. reg' \in [Offices -> 0 .. Word - 1]
      BY <1>0, <1>1, <2>1
    <2>3. PlaceAt(o, to)' /\ to \in PCs
      BY <2>1
    <2> HIDE DEF PCs, PlaceAt
    <2> QED
      BY <1>0, <2>1, <2>2, <2>3, TypeGo
  <1>9. CASE DebitLoad(o)
    <2>1. job[o].id \in Index
      BY <1>9, At DEF DebitLoad, Load
    <2> QED
      BY <1>8, <1>9, <2>1 DEF DebitLoad
  <1>10. CASE CreditLoad(o)
    <2>1. job[o].acc \in Index
      BY <1>10, At DEF CreditLoad, Load
    <2> QED
      BY <1>8, <1>10, <2>1 DEF CreditLoad
  <1>11. CASE TransferResult(o)
    <2>1. job[o].id \in Index
      BY <1>11, At DEF TransferResult
    <2> QED
      BY <1>1, <1>2, <1>11, <2>1 DEF TransferResult
  <1> QED
    BY <1>3, <1>4, <1>5, <1>6, <1>7, <1>9, <1>10, <1>11

\* The fields of a new account are written one after the other.
LEMMA FieldWrites ==
    ASSUME TypeInv, NEW o \in Offices,
           SetId(o) \/ SetBalance(o) \/ SetSalt(o) \/ SetHash(o)
    PROVE  /\ job[o].acc \in Index \ {ADMIN}
           /\ accounts' \in [Index -> AccountType]
           /\ \A i \in Index : i # job[o].acc => accounts'[i] = accounts[i]
           /\ ~SetHash(o) => accounts'[job[o].acc].hash = accounts[job[o].acc].hash
           /\ SetHash(o) => accounts'[job[o].acc].hash
                              = Hash(Unquoted(job[o].newpass), salt[o])
  <1> DEFINE i == job[o].acc
  <1>0. job[o] \in Requests /\ accounts \in [Index -> AccountType]
    BY DEF TypeInv, TypeOK
  <1>1. i \in Index \ {ADMIN} /\ Target(o) = accounts[i] /\ Target(o) \in AccountType
    <2>1. PlaceAt(o, pc[o]) /\ pc[o] \in SetPCs
      BY DEF TypeInv, Places, SetId, SetBalance, SetSalt, SetHash, SetField, Go, SetPCs
    <2> QED
      BY <1>0, <2>1 DEF PlaceAt, Target
  <1>2. ASSUME NEW account \in AccountType,
               accounts' = [accounts EXCEPT ![i] = account]
        PROVE  /\ accounts' \in [Index -> AccountType]
               /\ \A k \in Index : k # i => accounts'[k] = accounts[k]
               /\ accounts'[i] = account
    BY <1>0, <1>1, <1>2
  <1>3. CASE SetId(o)
    <2>1. accounts' = [accounts EXCEPT ![i] = [Target(o) EXCEPT !.account_id = i]]
      BY <1>3 DEF SetId, SetField
    <2>2. /\ [Target(o) EXCEPT !.account_id = i] \in AccountType
          /\ [Target(o) EXCEPT !.account_id = i].hash = Target(o).hash
      BY <1>1, WithField, BankAssumption DEF HashType
    <2>3. ~SetHash(o)
      BY <1>3 DEF SetId, SetHash, SetField, Go
    <2> HIDE DEF i
    <2> QED
      BY <1>1, <1>2, <2>1, <2>2, <2>3 DEF i
  <1>4. CASE SetBalance(o)
    <2>1. accounts' = [accounts EXCEPT ![i] =
                          [Target(o) EXCEPT !.balance = job[o].amount]]
      BY <1>4 DEF SetBalance, SetField
    <2>2. /\ [Target(o) EXCEPT !.balance = job[o].amount] \in AccountType
          /\ [Target(o) EXCEPT !.balance = job[o].amount].hash = Target(o).hash
      BY <1>0, <1>1, WithBalance, RequestFields
    <2>3. ~SetHash(o)
      BY <1>4 DEF SetBalance, SetHash, SetField, Go
    <2> QED
      BY <1>1, <1>2, <2>1, <2>2, <2>3
  <1>5. CASE SetSalt(o)
    <2>1. PICK s \in Salts : accounts' = [accounts EXCEPT ![i] =
                                             [Target(o) EXCEPT !.salt = s]]
      BY <1>5 DEF SetSalt, SetField
    <2>2. /\ [Target(o) EXCEPT !.salt = s] \in AccountType
          /\ [Target(o) EXCEPT !.salt = s].hash = Target(o).hash
      BY <1>1, WithField DEF HashType
    <2>3. ~SetHash(o)
      BY <1>5 DEF SetSalt, SetHash, SetField, Go
    <2> QED
      BY <1>1, <1>2, <2>1, <2>2, <2>3
  <1>6. CASE SetHash(o)
    <2> DEFINE h == Hash(Unquoted(job[o].newpass), salt[o])
    <2>1. accounts' = [accounts EXCEPT ![i] = [Target(o) EXCEPT !.hash = h]]
      BY <1>6 DEF SetHash, SetField
    <2>2. h \in HashType
      <3>1. salt[o] \in Salts
        BY <1>6, At DEF SetHash, SetField, PlaceAt
      <3>2. Unquoted(job[o].newpass) \in Passwords
        BY <1>0, RequestFields, BankAssumption
      <3> QED
        BY <3>1, <3>2 DEF Hash, HashType
    <2> HIDE DEF h
    <2>3. /\ [Target(o) EXCEPT !.hash = h] \in AccountType
          /\ [Target(o) EXCEPT !.hash = h].hash = h
      BY <1>1, <2>2, WithField, BankAssumption, ZenonT(40)
    <2> QED
      BY <1>1, <1>2, <1>6, <2>1, <2>3 DEF h
  <1> QED
    BY <1>3, <1>4, <1>5, <1>6

\* They keep the types.
LEMMA TypeWrites ==
    ASSUME TypeInv, NEW o \in Offices,
           SetId(o) \/ SetBalance(o) \/ SetSalt(o) \/ SetHash(o)
    PROVE  TypeInv'
  <1>0. /\ reply \in [Offices -> [ret_code : Codes, balance : 0 .. Word - 1]]
        /\ salt \in [Offices -> Salts \cup {""}]
        /\ reg \in [Offices -> 0 .. Word - 1]
        /\ slog \subseteq Requests /\ fault \in BOOLEAN
    BY DEF TypeInv, TypeOK
  <1>1. accounts' \in [Index -> AccountType]
    BY FieldWrites
  <1>2. PICK from \in SetPCs, to \in SetPCs \cup {"reply"} :
          /\ Go(o, from, to)
          /\ UNCHANGED <<slog, fault, reply, reg>>
          /\ \/ to # "set_hash" /\ UNCHANGED salt
             \/ \E s \in Salts : salt' = [salt EXCEPT ![o] = s]
    <2>1. CASE SetId(o)
      BY <2>1 DEF SetId, SetField, SetPCs
    <2>2. CASE SetBalance(o)
      BY <2>2 DEF SetBalance, SetField, SetPCs
    <2>3. CASE SetSalt(o)
      BY <2>3 DEF SetSalt, SetField, SetPCs
    <2>4. CASE SetHash(o)
      BY <2>4 DEF SetHash, SetField, SetPCs
    <2> QED
      BY <2>1, <2>2, <2>3, <2>4
  <1>3. /\ salt' \in [Offices -> Salts \cup {""}]
        /\ \A p \in Offices : p # o => salt'[p] = salt[p]
        /\ to = "set_hash" => salt'[o] \in Salts
    BY <1>0, <1>2
  <1>4. PlaceAt(o, from) /\ to \in PCs
    BY <1>2, At DEF PCs, SetPCs
  <1>5. PlaceAt(o, to)'
    BY <1>2, <1>3, <1>4 DEF Go, begin, PlaceAt, CreatePCs, UserPCs, KnownPCs, SetPCs, MovePCs
  <1> QED
    BY <1>0, <1>1, <1>2, <1>3, <1>4, <1>5, TypeGo

\* A store writes a balance and nothing else.
LEMMA Stores ==
    ASSUME TypeInv, NEW o \in Offices, DebitStore(o) \/ CreditStore(o)
    PROVE  /\ accounts' \in [Index -> AccountType]
           /\ \A i \in Index : /\ accounts'[i].account_id = accounts[i].account_id
                               /\ accounts'[i].salt = accounts[i].salt
                               /\ accounts'[i].hash = accounts[i].hash
  <1>0. /\ job[o] \in Requests /\ accounts \in [Index -> AccountType]
        /\ reg[o] \in Int
    <2>1. reg[o] \in 0 .. Word - 1 /\ Word \in Nat
      BY BankAssumption DEF TypeInv, TypeOK
    <2>2. reg[o] \in Int
      BY <2>1
    <2> QED
      BY <2>2 DEF TypeInv, TypeOK
  <1>1. PICK i \in Index, change \in Int :
          accounts' = [accounts EXCEPT ![i].balance = (reg[o] + change) % Word]
    <2>1. job[o].amount \in Int /\ -job[o].amount \in Int
      BY <1>0, RequestFields
    <2>2. CASE DebitStore(o)
      <3>1. job[o].id \in Index
        BY <2>2, At DEF DebitStore, Store, PlaceAt, KnownPCs, MovePCs
      <3> QED
        BY <2>1, <2>2, <3>1 DEF DebitStore, Store
    <2>3. CASE CreditStore(o)
      <3>1. job[o].acc \in Index
        BY <2>3, At DEF CreditStore, Store, PlaceAt, MovePCs
      <3> QED
        BY <2>1, <2>3, <3>1 DEF CreditStore, Store
    <2> QED
      BY <2>2, <2>3
  <1> DEFINE b == (reg[o] + change) % Word
             new == [accounts[i] EXCEPT !.balance = b]
  <1>2. b \in 0 .. Word - 1
    <2>1. Word \in Nat \ {0} /\ reg[o] + change \in Int
      BY <1>0, BankAssumption
    <2> QED
      BY <2>1
  <1>3. accounts' = [accounts EXCEPT ![i] = new]
    BY <1>1
  <1> HIDE DEF b
  <1>4. /\ new \in AccountType /\ new.account_id = accounts[i].account_id
        /\ new.salt = accounts[i].salt /\ new.hash = accounts[i].hash
    BY <1>0, <1>2, WithBalance
  <1> HIDE DEF new
  <1> QED
    BY <1>0, <1>3, <1>4

\* The stores keep the types.
LEMMA TypeStores ==
    ASSUME TypeInv, NEW o \in Offices, DebitStore(o) \/ CreditStore(o)
    PROVE  TypeInv'
  <1>1. PICK from \in MovePCs, to \in MovePCs :
          Go(o, from, to) /\ UNCHANGED <<slog, fault, reply, salt, reg, job>>
    BY DEF DebitStore, CreditStore, Store, local, Go, begin, MovePCs
  <1>2. PlaceAt(o, from) /\ to \in PCs
    BY <1>1, At DEF PCs, MovePCs
  <1>3. PlaceAt(o, to)'
    BY <1>1, <1>2 DEF PlaceAt, CreatePCs, UserPCs, KnownPCs, SetPCs, MovePCs
  <1> QED
    BY <1>1, <1>2, <1>3, Stores, TypeGo DEF TypeInv, TypeOK

\* Between two requests.
LEMMA TypeBetween ==
    ASSUME TypeInv, NEW o \in Offices, Reply(o) \/ \E r \in Requests : Begin(o, r)
    PROVE  TypeInv'
  <1>1. CASE Reply(o)
    <2>1. /\ pc' = [pc EXCEPT ![o] = "idle"]
          /\ UNCHANGED <<accounts, slog, fault, reply, salt, reg, job, begun, overlap>>
      BY <1>1 DEF Reply, shared, local, begin
    <2>2. Places'
      BY <2>1 DEF TypeInv, TypeOK, Places, PlaceAt, CreatePCs, UserPCs, KnownPCs, SetPCs,
         MovePCs
    <2>3. answers' \subseteq [req : Requests, code : Codes, balance : 0 .. Word - 1]
      <3>1. job[o] \in Requests /\ reply[o] \in [ret_code : Codes, balance : 0 .. Word - 1]
        BY DEF TypeInv, TypeOK
      <3>2. [req |-> job[o], code |-> reply[o].ret_code, balance |-> reply[o].balance]
               \in [req : Requests, code : Codes, balance : 0 .. Word - 1]
        BY <3>1
      <3> QED
        BY <1>1, <3>2 DEF Reply, TypeInv, TypeOK
    <2>4. pc' \in [Offices -> PCs]
      BY <2>1 DEF TypeInv, TypeOK, PCs
    <2> QED
      BY <2>1, <2>2, <2>3, <2>4 DEF TypeInv, TypeOK
  <1>2. ASSUME NEW r \in Requests, Begin(o, r) PROVE TypeInv'
    <2>1. /\ job' = [job EXCEPT ![o] = r] /\ begun' = begun \cup {r}
          /\ UNCHANGED <<accounts, slog, fault, reply, salt, reg, answers>>
      BY <1>2 DEF Begin, shared, local
    <2>2. overlap' \in BOOLEAN
      BY <1>2, Zenon DEF Begin
    <2>3. PICK to \in {"admin", "user", "other"} :
            /\ pc' = [pc EXCEPT ![o] = to]
            /\ to = "admin" => r.type = "create"
            /\ to = "user" => r.type \in {"balance", "transfer"}
            /\ to = "other" => r.type = "other"
      BY <1>2, RequestFields DEF Begin
    <2>4. Places'
      BY <2>1, <2>3 DEF TypeInv, TypeOK, Places, PlaceAt, CreatePCs, UserPCs, KnownPCs,
         SetPCs, MovePCs
    <2>5. pc' \in [Offices -> PCs]
      BY <2>3 DEF TypeInv, TypeOK, PCs
    <2> QED
      BY <2>1, <2>2, <2>4, <2>5 DEF TypeInv, TypeOK
  <1> QED
    BY <1>1, <1>2

\* The strengthened type invariant is inductive.
LEMMA TypeStep == TypeInv /\ [Next]_vars => TypeInv'
  <1> SUFFICES ASSUME TypeInv, [Next]_vars PROVE TypeInv'
    OBVIOUS
  <1>1. ASSUME NEW o \in Offices, OfficeStep(o) PROVE TypeInv'
    BY <1>1, TypeChecks, TypeReads, TypeWrites, TypeStores, TypeBetween DEF OfficeStep
  <1>2. CASE UNCHANGED vars
    BY <1>2 DEF vars, shared, local, begin, TypeInv, TypeOK, Places, PlaceAt
  <1> QED
    BY <1>1, <1>2 DEF Next

\* Every field of every account, reply and register keeps its type, and no office
\* writes outside of the array: whatever the offices do at the same time, the
\* indexes that they checked stay the ones they use.
THEOREM TypeCorrect == Spec => []TypeOK
  <1>1. TypeInv => TypeOK
    BY DEF TypeInv
  <1> QED
    BY <1>1, TypeInit, TypeStep, PTL DEF Spec

-----------------------------------------------------------------------------
(* Logins.  Nothing that is computed from balances matters: the hash of an *)
(* account is zero or comes from a create that the admin's password let    *)
(* through, and the admin's account never changes.                         *)

\* An admin's request gave account i the password p.
Granted(i, p) ==
    \E r \in begun : /\ r.type = "create" /\ FromAdmin(r)
                     /\ r.acc = i /\ Unquoted(r.newpass) = p

HashInv ==
    /\ accounts[ADMIN].hash = Hash(Quoted(AdminPassword), accounts[ADMIN].salt)
    /\ \A i \in Index \ {ADMIN} :
         accounts[i].hash # NoHash => Granted(i, accounts[i].hash.password)

\* What an office knows of the request that it works on.
Entitled(o) ==
    /\ pc[o] \in CreatePCs => job[o] \in begun
    /\ pc[o] \in CreatePCs \ {"admin"} => FromAdmin(job[o])
    /\ \/ pc[o] \in KnownPCs \ {"salt", "login"}
       \/ /\ pc[o] = "reply" /\ reply[o].ret_code = "OK"
          /\ job[o].type \in {"balance", "transfer"}
       => Granted(job[o].id, Quoted(job[o].password))

LoginInv == HashInv /\ (\A o \in Offices : Entitled(o)) /\ LoginSound

\* A step of o that neither takes a grant back nor disturbs the other offices.
LEMMA LoginFrame ==
    ASSUME LoginInv, NEW o \in Offices, begun \subseteq begun',
           \A p \in Offices : p # o =>
              pc'[p] = pc[p] /\ job'[p] = job[p] /\ reply'[p] = reply[p],
           HashInv', Entitled(o)', answers' = answers
    PROVE  LoginInv'
  <1>1. \A i, p : Granted(i, p) => Granted(i, p)'
    BY DEF Granted
  <1>2. ASSUME NEW p \in Offices PROVE Entitled(p)'
    BY <1>1 DEF LoginInv, Entitled
  <1>3. LoginSound'
    BY DEF LoginInv, LoginSound
  <1> QED
    BY <1>2, <1>3 DEF LoginInv

\* Hashes that are left alone stay granted.
LEMMA HashFrame ==
    ASSUME HashInv, begun \subseteq begun', accounts'[ADMIN].salt = accounts[ADMIN].salt,
           \A i \in Index : accounts'[i].hash = accounts[i].hash
    PROVE  HashInv'
  <1>1. ADMIN \in Index
    BY BankAssumption DEF Index, ADMIN
  <1> QED
    BY <1>1 DEF HashInv, Granted

\* The first three checks make out who the user is, and the others come after.
LEMMA LoginChecked ==
    ASSUME TypeInv, LoginInv, NEW o \in Offices, NEW from, NEW code \in Codes,
           NEW next \in PCs, NEW otherwise \in {"reply", "log"},
           Checked(o, from, code, next, otherwise),
           otherwise = "log" => from = "create",
           code = "OK" =>
              /\ next \notin {"reply", "log"}
              /\ next \in CreatePCs => from \in CreatePCs /\ FromAdmin(job[o])
              /\ next \in KnownPCs \ {"salt", "login"} =>
                   Granted(job[o].id, Quoted(job[o].password))
    PROVE  LoginInv'
  <1>1. /\ pc[o] = from
        /\ pc'[o] = IF code = "OK" THEN next ELSE otherwise
        /\ \A p \in Offices : p # o => pc'[p] = pc[p] /\ reply'[p] = reply[p]
        /\ reply'[o].ret_code = code
        /\ UNCHANGED <<job, begun, answers, accounts>>
    <2>1. otherwise \in PCs /\ TypeOK
      BY DEF PCs, TypeInv
    <2> QED
      BY <2>1, Checks, ZenonT(40)
  <1>2. HashInv'
    BY <1>1, HashFrame DEF LoginInv
  <1>3. Granted(job[o].id, Quoted(job[o].password))' = Granted(job[o].id, Quoted(job[o].password))
    BY <1>1 DEF Granted
  <1>4. Entitled(o)'
    BY <1>1, <1>3 DEF LoginInv, Entitled, CreatePCs, KnownPCs, SetPCs, MovePCs
  <1> QED
    BY <1>1, <1>2, <1>4, LoginFrame

\* The checks keep what the offices know.
LEMMA LoginChecks ==
    ASSUME TypeInv, LoginInv, NEW o \in Offices,
           \/ ValidateAdmin(o) \/ Login(o) \/ CheckDest(o) \/ CheckFunds(o)
           \/ CheckFloor(o) \/ CheckRoom(o)
           \/ ValidateUser(o) /\ job[o].id # MAX_BANK_ACCOUNTS
           \/ CheckCreate(o) /\ job[o].acc # MAX_BANK_ACCOUNTS
    PROVE  LoginInv'
  <1>0. job[o] \in Requests /\ Entitled(o) /\ HashInv
    BY DEF TypeInv, TypeOK, LoginInv
  <1> USE <1>0, CodesOfChecks DEF PCs, CreatePCs, KnownPCs, SetPCs, MovePCs
  <1>1. CASE ValidateAdmin(o)
    <2>1. AdminCode(accounts, job[o]) = "OK" => FromAdmin(job[o])
      BY HashFacts DEF AdminCode, HashInv, FromAdmin
    <2> QED
      BY <1>1, <2>1, LoginChecked DEF ValidateAdmin
  <1>2. CASE ValidateUser(o) /\ job[o].id # MAX_BANK_ACCOUNTS
    BY <1>2, LoginChecked DEF ValidateUser
  <1>3. CASE Login(o)
    <2>1. PlaceAt(o, "login")
      BY <1>3, At DEF Login, Checked
    <2>2. job[o].type \in {"balance", "transfer"} /\ job[o].id \in Index \ {ADMIN}
      BY <2>1 DEF PlaceAt, UserPCs
    <2>3. LoginCode(accounts, job[o], salt[o]) = "OK" =>
            Granted(job[o].id, Quoted(job[o].password))
      BY <2>2, HashFacts DEF LoginCode, HashInv
    <2> QED
      BY <1>3, <2>2, <2>3, LoginChecked DEF Login
  <1>4. CASE CheckCreate(o) /\ job[o].acc # MAX_BANK_ACCOUNTS
    <2>1. pc[o] = "create"
      BY <1>4 DEF CheckCreate, Checked, Go
    <2> QED
      BY <1>4, <2>1, LoginChecked DEF CheckCreate, Entitled
  <1>5. CASE CheckDest(o)
    <2>1. pc[o] = "dest"
      BY <1>5 DEF CheckDest, Checked, Go
    <2>2. Granted(job[o].id, Quoted(job[o].password))
      BY <2>1 DEF Entitled
    <2> QED
      BY <1>5, <2>2, LoginChecked DEF CheckDest
  <1>6. CASE CheckFunds(o)
    <2>1. pc[o] = "funds"
      BY <1>6 DEF CheckFunds, Checked, Go
    <2>2. Granted(job[o].id, Quoted(job[o].password))
      BY <2>1 DEF Entitled
    <2> QED
      BY <1>6, <2>2, LoginChecked DEF CheckFunds
  <1>7. CASE CheckFloor(o)
    <2>1. pc[o] = "floor"
      BY <1>7 DEF CheckFloor, Checked, Go
    <2>2. Granted(job[o].id, Quoted(job[o].password))
      BY <2>1 DEF Entitled
    <2> QED
      BY <1>7, <2>2, LoginChecked DEF CheckFloor
  <1>8. CASE CheckRoom(o)
    <2>1. pc[o] = "room"
      BY <1>8 DEF CheckRoom, Checked, Go
    <2>2. Granted(job[o].id, Quoted(job[o].password))
      BY <2>1 DEF Entitled
    <2> QED
      BY <1>8, <2>2, LoginChecked DEF CheckRoom
  <1> QED
    BY <1>1, <1>2, <1>3, <1>4, <1>5, <1>6, <1>7, <1>8

\* The steps after the checks stay within what they allow.
LEMMA LoginWork ==
    ASSUME TypeInv, LoginInv, NEW o \in Offices, NEW from \in PCs, NEW to \in PCs,
           Go(o, from, to), HashInv',
           \A p \in Offices : p # o => reply'[p] = reply[p],
           \/ to \in CreatePCs \ {"admin"} /\ from \in CreatePCs \ {"admin"}
           \/ to = "reply" /\ from \in CreatePCs \cup {"other"}
           \/ to = "login"
           \/ to \in KnownPCs \cup {"reply"} /\ from \in KnownPCs \ {"salt", "login"}
           \/ to = from /\ UNCHANGED reply
    PROVE  LoginInv'
  <1>1. /\ pc[o] = from /\ pc'[o] = to
        /\ \A p \in Offices : p # o => pc'[p] = pc[p]
        /\ UNCHANGED <<job, begun, answers>>
    BY Goes DEF TypeInv
  <1>2. PlaceAt(o, from) /\ Entitled(o)
    BY <1>1 DEF TypeInv, Places, LoginInv
  <1>3. Granted(job[o].id, Quoted(job[o].password))' = Granted(job[o].id, Quoted(job[o].password))
    BY <1>1 DEF Granted
  <1>4. Entitled(o)'
    BY <1>1, <1>2, <1>3 DEF PlaceAt, Entitled, CreatePCs, UserPCs, KnownPCs, SetPCs, MovePCs
  <1> QED
    BY <1>1, <1>4, LoginFrame

\* The steps of an office between its checks and its reply.
LEMMA LoginWorks ==
    ASSUME TypeInv, LoginInv, NEW o \in Offices,
           \/ ReadSalt(o) \/ NoOperation(o) \/ CheckBalance(o) \/ LogCreation(o)
           \/ SetId(o) \/ SetBalance(o) \/ SetSalt(o) \/ SetHash(o) \/ EchoDest(o)
           \/ DebitLoad(o) \/ DebitStore(o) \/ CreditLoad(o) \/ CreditStore(o)
           \/ TransferResult(o)
           \/ ValidateUser(o) /\ job[o].id = MAX_BANK_ACCOUNTS
           \/ CheckCreate(o) /\ job[o].acc = MAX_BANK_ACCOUNTS
    PROVE  LoginInv'
  <1>0. /\ HashInv /\ TypeOK /\ job[o] \in Requests
        /\ reply \in [Offices -> [ret_code : Codes, balance : 0 .. Word - 1]]
    BY DEF LoginInv, TypeInv, TypeOK
  <1> DEFINE OthersKeep == \A p \in Offices : p # o => reply'[p] = reply[p]
  <1>1. ASSUME NEW from \in PCs, Fault(o, from) PROVE LoginInv'
    <2>1. Go(o, from, from) /\ UNCHANGED <<accounts, begun, reply>>
      BY <1>1 DEF Fault, local, Go, begin
    <2>2. HashInv'
      BY <1>0, <2>1, HashFrame
    <2> QED
      BY <2>1, <2>2, LoginWork
  <1> USE DEF PCs, CreatePCs, KnownPCs, SetPCs, MovePCs
  <1>2. CASE ReadSalt(o)
    <2>1. Go(o, "salt", "login") /\ UNCHANGED <<accounts, begun, reply>>
      BY <1>2 DEF ReadSalt, shared, Go, begin
    <2>2. HashInv'
      BY <1>0, <2>1, HashFrame
    <2> QED
      BY <2>1, <2>2, LoginWork
  <1>3. CASE NoOperation(o)
    <2>1. /\ Go(o, "other", "reply") /\ UNCHANGED <<accounts, begun>>
          /\ \E code : reply' = [reply EXCEPT ![o].ret_code = code]
      BY <1>3 DEF NoOperation, shared, Go, begin
    <2>2. HashInv' /\ OthersKeep
      BY <1>0, <2>1, HashFrame
    <2> QED
      BY <2>1, <2>2, LoginWork
  <1>4. CASE CheckBalance(o)
    <2>1. /\ Go(o, "balance", "reply") /\ UNCHANGED <<accounts, begun>>
          /\ \E b : reply' = [reply EXCEPT ![o].balance = b]
      BY <1>4 DEF CheckBalance, shared, Go, begin
    <2>2. HashInv' /\ OthersKeep
      BY <1>0, <2>1, HashFrame
    <2> QED
      BY <2>1, <2>2, LoginWork
  <1>5. CASE LogCreation(o)
    <2>1. CASE job[o].acc \notin Index
      BY <1>1, <1>5, <2>1 DEF LogCreation
    <2>2. CASE job[o].acc \in Index
      <3>1. Go(o, "log", "reply") /\ UNCHANGED <<accounts, begun, reply>>
        BY <1>5, <2>2 DEF LogCreation, local, Go, begin
      <3>2. HashInv'
        BY <1>0, <3>1, HashFrame
      <3> QED
        BY <3>1, <3>2, LoginWork
    <2> QED
      BY <2>1, <2>2
  <1>6. CASE SetId(o) \/ SetBalance(o) \/ SetSalt(o) \/ SetHash(o)
    <2>1. PICK from \in SetPCs, to \in SetPCs \cup {"reply"} :
             Go(o, from, to) /\ UNCHANGED <<begun, reply>>
      BY <1>6 DEF SetId, SetBalance, SetSalt, SetHash, SetField, Go, begin
    <2>2. HashInv'
      <3>1. /\ job[o].acc \in Index \ {ADMIN}
            /\ \A i \in Index : i # job[o].acc => accounts'[i] = accounts[i]
            /\ ~SetHash(o) => accounts'[job[o].acc].hash = accounts[job[o].acc].hash
            /\ SetHash(o) => accounts'[job[o].acc].hash
                               = Hash(Unquoted(job[o].newpass), salt[o])
        BY <1>6, FieldWrites
      <3>2. ADMIN \in Index
        BY BankAssumption DEF Index, ADMIN
      <3>3. CASE ~SetHash(o)
        BY <1>0, <2>1, <3>1, <3>2, <3>3, HashFrame
      <3>4. CASE SetHash(o)
        <4>1. pc[o] = "set_hash"
          BY <3>4 DEF SetHash, SetField, Go
        <4>2. Entitled(o) /\ PlaceAt(o, "set_hash")
          BY <4>1 DEF LoginInv, TypeInv, Places
        <4>3. Granted(job[o].acc, Unquoted(job[o].newpass))
          BY <4>1, <4>2 DEF Entitled, PlaceAt, Granted
        <4>4. accounts'[job[o].acc].hash.password = Unquoted(job[o].newpass)
          BY <3>1, <3>4, HashFacts
        <4>5. \A i, p : Granted(i, p)' = Granted(i, p)
          BY <2>1 DEF Granted
        <4>6. ASSUME NEW i \in Index \ {ADMIN}, accounts'[i].hash # NoHash
              PROVE  Granted(i, accounts'[i].hash.password)
          BY <1>0, <3>1, <4>3, <4>4, <4>6 DEF HashInv
        <4>7. accounts'[ADMIN] = accounts[ADMIN]
          BY <3>1, <3>2
        <4> QED
          BY <1>0, <4>5, <4>6, <4>7 DEF HashInv
      <3> QED
        BY <3>3, <3>4
    <2> QED
      BY <2>1, <2>2, LoginWork
  <1>7. CASE EchoDest(o)
    <2>1. CASE job[o].acc \notin Index
      BY <1>1, <1>7, <2>1 DEF EchoDest
    <2>2. CASE job[o].acc \in Index
      <3>1. /\ Go(o, "transfer", "dest") /\ UNCHANGED <<accounts, begun>>
            /\ \E b : reply' = [reply EXCEPT ![o].balance = b]
        BY <1>7, <2>2 DEF EchoDest, shared, Go, begin
      <3>2. HashInv' /\ OthersKeep
        BY <1>0, <3>1, HashFrame
      <3> QED
        BY <3>1, <3>2, LoginWork
    <2> QED
      BY <2>1, <2>2
  <1>8. CASE DebitLoad(o) \/ CreditLoad(o)
    <2>1. PICK from \in MovePCs, to \in MovePCs :
             Go(o, from, to) /\ UNCHANGED <<accounts, begun, reply>>
      BY <1>8 DEF DebitLoad, CreditLoad, Load, shared, Go, begin
    <2>2. HashInv'
      BY <1>0, <2>1, HashFrame
    <2> QED
      BY <2>1, <2>2, LoginWork
  <1>9. CASE DebitStore(o) \/ CreditStore(o)
    <2>1. PICK from \in MovePCs, to \in MovePCs :
             Go(o, from, to) /\ UNCHANGED <<begun, reply>>
      BY <1>9 DEF DebitStore, CreditStore, Store, local, Go, begin
    <2>2. HashInv'
      <3>1. ADMIN \in Index
        BY BankAssumption DEF Index, ADMIN
      <3> QED
        BY <1>0, <1>9, <2>1, <3>1, Stores, HashFrame
    <2> QED
      BY <2>1, <2>2, LoginWork
  <1>10. CASE TransferResult(o)
    <2>1. /\ Go(o, "result", "reply") /\ UNCHANGED <<accounts, begun>>
          /\ \E b : reply' = [reply EXCEPT ![o].balance = b]
      BY <1>10 DEF TransferResult, shared, Go, begin
    <2>2. HashInv' /\ OthersKeep
      BY <1>0, <2>1, HashFrame
    <2> QED
      BY <2>1, <2>2, LoginWork
  <1>11. CASE ValidateUser(o) /\ job[o].id = MAX_BANK_ACCOUNTS
    BY <1>1, <1>11 DEF ValidateUser
  <1>12. CASE CheckCreate(o) /\ job[o].acc = MAX_BANK_ACCOUNTS
    BY <1>1, <1>12 DEF CheckCreate
  <1> QED
    BY <1>2, <1>3, <1>4, <1>5, <1>6, <1>7, <1>8, <1>9, <1>10, <1>11, <1>12

\* A new request starts with no privileges, and a reply says what the checks gave.
LEMMA LoginBetween ==
    ASSUME TypeInv, LoginInv, NEW o \in Offices,
           Reply(o) \/ \E r \in Requests : Begin(o, r)
    PROVE  LoginInv'
  <1>1. CASE Reply(o)
    <2>1. /\ pc[o] = "reply" /\ pc' = [pc EXCEPT ![o] = "idle"]
          /\ answers' = answers \cup {[req |-> job[o], code |-> reply[o].ret_code,
                                       balance |-> reply[o].balance]}
          /\ UNCHANGED <<accounts, begun, job, reply>>
      BY <1>1 DEF Reply, shared, local, begin
    <2>2. HashInv'
      BY <2>1, HashFrame DEF LoginInv
    <2>3. \A i, p : Granted(i, p)' = Granted(i, p)
      BY <2>1 DEF Granted
    <2>4. \A p \in Offices : Entitled(p)'
      BY <2>1, <2>3 DEF TypeInv, TypeOK, LoginInv, Entitled, CreatePCs, KnownPCs, SetPCs,
         MovePCs
    <2>5. LoginSound'
      <3>1. Entitled(o) /\ LoginSound
        BY DEF LoginInv
      <3>2. reply[o].ret_code = "OK" /\ job[o].type \in {"balance", "transfer"} =>
              Granted(job[o].id, Quoted(job[o].password))
        BY <2>1, <3>1 DEF Entitled
      <3>3. ASSUME NEW x \in answers', x.code = "OK",
                   x.req.type \in {"balance", "transfer"}
            PROVE  Granted(x.req.id, Quoted(x.req.password))
        <4>1. CASE x \in answers
          BY <3>1, <3>3, <4>1 DEF LoginSound, Granted
        <4>2. CASE x = [req |-> job[o], code |-> reply[o].ret_code,
                        balance |-> reply[o].balance]
          BY <3>2, <3>3, <4>2
        <4> QED
          BY <2>1, <4>1, <4>2
      <3> QED
        BY <2>1, <3>3 DEF LoginSound, Granted
    <2> QED
      BY <2>2, <2>4, <2>5 DEF LoginInv
  <1>2. ASSUME NEW r \in Requests, Begin(o, r) PROVE LoginInv'
    <2>1. /\ job' = [job EXCEPT ![o] = r] /\ begun' = begun \cup {r}
          /\ UNCHANGED <<accounts, reply, answers>>
      BY <1>2 DEF Begin, shared, local
    <2>2. PICK to \in {"admin", "user", "other"} : pc' = [pc EXCEPT ![o] = to]
      BY <1>2 DEF Begin
    <2>3. Entitled(o)'
      BY <2>1, <2>2 DEF TypeInv, TypeOK, Entitled, CreatePCs, KnownPCs, SetPCs, MovePCs
    <2>4. HashInv'
      BY <2>1, HashFrame DEF LoginInv
    <2>5. \A p \in Offices : p # o =>
             pc'[p] = pc[p] /\ job'[p] = job[p] /\ reply'[p] = reply[p]
      BY <2>1, <2>2 DEF TypeInv, TypeOK
    <2> QED
      BY <2>1, <2>3, <2>4, <2>5, LoginFrame
  <1> QED
    BY <1>1, <1>2

\* Whatever several offices do to the accounts at the same time, a balance or a
\* transfer is answered OK only with a password that the shell reads, in quotes, as
\* it read without them the one that an admin's create gave to the account.
THEOREM LoginsSound == Spec => []LoginSound
  <1>1. Init => LoginInv
    <2> SUFFICES ASSUME Init PROVE LoginInv
      OBVIOUS
    <2>1. HashInv
      <3>1. PICK s \in Salts : accounts = WithAdmin(s)
        BY DEF Init
      <3>2. /\ accounts[ADMIN] = Account(ADMIN, 0, Quoted(AdminPassword), s)
            /\ \A i \in Index \ {ADMIN} : accounts[i] = NoAccount
        BY <3>1, InitialAccounts
      <3>3. /\ Account(ADMIN, 0, Quoted(AdminPassword), s).hash = Hash(Quoted(AdminPassword), s)
            /\ Account(ADMIN, 0, Quoted(AdminPassword), s).salt = s
            /\ NoAccount.hash = NoHash
        BY DEF Account, NoAccount
      <3> QED
        BY <3>2, <3>3 DEF HashInv
    <2>2. \A o \in Offices : pc[o] = "idle"
      BY DEF Init
    <2>3. \A o \in Offices : Entitled(o)
      BY <2>2 DEF Entitled, CreatePCs, KnownPCs, SetPCs, MovePCs
    <2> QED
      BY <2>1, <2>3 DEF Init, LoginInv, LoginSound
  <1>2. TypeInv /\ LoginInv /\ [Next]_vars => LoginInv'
    <2> SUFFICES ASSUME TypeInv, LoginInv, [Next]_vars PROVE LoginInv'
      OBVIOUS
    <2>1. ASSUME NEW o \in Offices, OfficeStep(o) PROVE LoginInv'
      BY <2>1, LoginChecks, LoginWorks, LoginBetween DEF OfficeStep
    <2>2. CASE UNCHANGED vars
      BY <2>2 DEF vars, shared, local, begin, LoginInv, HashInv, Entitled, Granted,
         LoginSound
    <2> QED
      BY <2>1, <2>2 DEF Next
  <1>3. LoginInv => LoginSound
    BY DEF LoginInv
  <1> QED
    BY <1>1, <1>2, <1>3, TypeInit, TypeStep, PTL DEF Spec

-----------------------------------------------------------------------------
(* The Bank.  A request is worked on once, and an office is where the kind *)
(* of its request takes it.                                                *)

MovesPCs == {"transfer"} \cup MovePCs

\* The checks that leave OK in the reply come before these places.
OKPCs == {"create"} \cup SetPCs \cup KnownPCs

Kind(o) ==
    /\ pc[o] = "balance" => job[o].type = "balance"
    /\ pc[o] \in MovesPCs => job[o].type = "transfer"
    /\ pc[o] \in OKPCs => reply[o].ret_code = "OK"

Once ==
    /\ \A o \in Offices : o \in Busy => job[o] \in begun
    /\ \A o, p \in Busy : job[o] = job[p] => o = p
    /\ \A x \in answers : x.req \in begun /\ \A o \in Busy : x.req # job[o]

OnceInv == Once /\ \A o \in Offices : Kind(o)

-----------------------------------------------------------------------------
(* As long as there was no overlap, no two offices work on the same        *)
(* account, so that what an office has found out stays true of the         *)
(* accounts that it works on -- as the Bank shows them, that is without    *)
(* the work that the office itself has under way.                          *)

Disjoint ==
    \A o, p \in Busy : o # p => Touches(job[o]) \cap Touches(job[p]) = {}

\* An account that was not created is as it was at the start.
Zeroed ==
    \A i \in Index \ {ADMIN} : accounts[i].account_id # i => accounts[i] = NoAccount

\* The checks that office o has made, on the accounts v and at a place in
\* acknowledge_request.
Passed(o, at, v) ==
    LET r == job[o]
    IN  /\ at \in CreatePCs \ {"admin"} => AdminCode(v, r) = "OK"
        /\ at \in SetPCs => CreateCode(v, r) = "OK"
        /\ at \in KnownPCs => UserIdCode(v, r) = "OK"
        /\ at = "login" => salt[o] = v[r.id].salt
        /\ at \in KnownPCs \ {"salt", "login"} => UserCode(v, r) = "OK"
        /\ at \in MovePCs \ {"dest"} => DestCode(v, r) = "OK"
        /\ at \in MovePCs \ {"dest", "funds"} => FundsCode(v, r) = "OK"
        /\ at \in MovePCs \ {"dest", "funds", "floor"} => FloorCode(v, r) = "OK"
        /\ at \in MovePCs \ {"dest", "funds", "floor", "room"} => RoomCode(v, r) = "OK"

\* What office o has written so far, and what it has loaded.
Written(o, at) ==
    LET r == job[o]
    IN  /\ at \in SetPCs \ {"set_id"} => accounts[r.acc].account_id = r.acc
        /\ at \in {"set_salt", "set_hash"} => accounts[r.acc].balance = r.amount
        /\ at = "set_hash" => accounts[r.acc].salt = salt[o]
        /\ at = "debit_store" => reg[o] = accounts[r.id].balance
        /\ at = "credit_store" => reg[o] = accounts[r.acc].balance

Apart ==
    /\ Disjoint
    /\ Zeroed
    /\ \A o \in Offices : Passed(o, pc[o], AccountsView) /\ Written(o, pc[o])

ApartInv == ~overlap => Apart

-----------------------------------------------------------------------------
(* The accounts as the Bank shows them.                                    *)

\* Unsigned arithmetic takes back what it did.
LEMMA ModBack ==
    ASSUME NEW w \in Nat, NEW x \in 0 .. w - 1, NEW a \in 0 .. w - 1
    PROVE  /\ (((x + a) % w) - a) % w = x /\ (((x - a) % w) + a) % w = x
           /\ (x + a) % w \in 0 .. w - 1 /\ (x - a) % w \in 0 .. w - 1
           /\ x % w = x
  <1>1. (x + a) % w = IF x + a < w THEN x + a ELSE x + a - w
    <2>1. CASE x + a < w
      BY <2>1, ModSmall
    <2>2. CASE ~(x + a < w)
      <3>1. x + a - w \in Nat /\ x + a - w < w
        BY <2>2
      <3>2. (x + a - w) % w = x + a - w
        BY <3>1, ModSmall
      <3> QED
        BY <2>2, <3>1, <3>2
    <2> QED
      BY <2>1, <2>2
  <1>2. (x - a) % w = IF x >= a THEN x - a ELSE x - a + w
    OBVIOUS
  <1>3. x % w = x
    BY ModSmall
  <1>4. (((x + a) % w) - a) % w = x
    <2>1. CASE x + a < w
      BY <1>1, <1>3, <2>1
    <2>2. CASE ~(x + a < w)
      <3>1. ((x + a) % w) - a = x - w
        BY <1>1, <2>2
      <3>2. (x - w) % w = x
        OBVIOUS
      <3> QED
        BY <3>1, <3>2
    <2> QED
      BY <2>1, <2>2
  <1>5. (((x - a) % w) + a) % w = x
    <2>1. CASE x >= a
      BY <1>2, <1>3, <2>1
    <2>2. CASE ~(x >= a)
      <3>1. ((x - a) % w) + a = x + w
        BY <1>2, <2>2
      <3>2. (x + w) % w = x
        OBVIOUS
      <3> QED
        BY <3>1, <3>2
    <2> QED
      BY <2>1, <2>2
  <1>6. (x + a) % w \in 0 .. w - 1 /\ (x - a) % w \in 0 .. w - 1
    BY <1>1, <1>2
  <1> QED
    BY <1>3, <1>4, <1>5, <1>6

\* The amounts that offices are moving, together.
LEMMA SumOf ==
    TypeInv => \A S \in SUBSET Offices :
        /\ IsFiniteSet(S) /\ \A p \in S : Amounts[p] \in Int /\ Amounts[p] = job[p].amount
        /\ SumFunctionOnSet(Amounts, S) \in Int
        /\ S = {} => SumFunctionOnSet(Amounts, S) = 0
        /\ \A o \in Offices : S = {o} => SumFunctionOnSet(Amounts, S) = job[o].amount
  <1> SUFFICES ASSUME TypeInv, NEW S \in SUBSET Offices
               PROVE  /\ IsFiniteSet(S)
                      /\ \A p \in S : Amounts[p] \in Int /\ Amounts[p] = job[p].amount
                      /\ SumFunctionOnSet(Amounts, S) \in Int
                      /\ S = {} => SumFunctionOnSet(Amounts, S) = 0
                      /\ \A o \in Offices : S = {o} =>
                            SumFunctionOnSet(Amounts, S) = job[o].amount
    OBVIOUS
  <1>1. IsFiniteSet(S)
    BY LedgerAssumption, FS_Subset
  <1>2. \A p \in Offices : Amounts[p] \in Int /\ Amounts[p] = job[p].amount
    <2>1. \A p \in Offices : job[p] \in Requests
      BY DEF TypeInv, TypeOK
    <2>2. \A p \in Offices : job[p].amount \in Int
      BY <2>1, RequestFields
    <2> QED
      BY <2>2 DEF Amounts
  <1>3. PICK f : f = Amounts
    OBVIOUS
  <1>4. SumFunctionOnSet(f, S) \in Int
    BY <1>1, <1>2, <1>3, SumInt
  <1>5. SumFunctionOnSet(f, {}) = 0
    BY SumEmpty
  <1>6. ASSUME NEW o \in Offices PROVE SumFunctionOnSet(f, {o}) = job[o].amount
    <2>1. SumFunctionOnSet(f, {} \cup {o}) = f[o] + SumFunctionOnSet(f, {})
      BY <1>2, <1>3, FS_EmptySet, SumAdd
    <2>2. {} \cup {o} = {o}
      OBVIOUS
    <2> QED
      BY <1>2, <1>3, <1>5, <2>1, <2>2
  <1> QED
    BY <1>1, <1>2, <1>3, <1>4, <1>5, <1>6

\* Offices that have taken an amount from account i, or put one into it.
From(i) == {o \in Offices : Debited(o) /\ job[o].id = i}
To(i)   == {o \in Offices : Credited(o) /\ job[o].acc = i}

\* An account as the Bank shows it.
LEMMA ViewOf ==
    TypeInv => /\ AccountsView \in [Index -> AccountType]
               /\ \A i \in Index :
                    /\ Undone(i) \in Int
                    /\ Undone(i) = SumFunctionOnSet(Amounts, From(i))
                                     - SumFunctionOnSet(Amounts, To(i))
                    /\ AccountsView[i] =
                         IF \E o \in Offices : Creating(o) /\ job[o].acc = i
                         THEN NoAccount
                         ELSE [accounts[i] EXCEPT !.balance = (@ + Undone(i)) % Word]
  <1> SUFFICES ASSUME TypeInv
               PROVE  /\ AccountsView \in [Index -> AccountType]
                      /\ \A i \in Index :
                           /\ Undone(i) \in Int
                           /\ Undone(i) = SumFunctionOnSet(Amounts, From(i))
                                            - SumFunctionOnSet(Amounts, To(i))
                           /\ AccountsView[i] =
                                IF \E o \in Offices : Creating(o) /\ job[o].acc = i
                                THEN NoAccount
                                ELSE [accounts[i] EXCEPT
                                        !.balance = (@ + Undone(i)) % Word]
    OBVIOUS
  <1>1. ASSUME NEW i \in Index
        PROVE  /\ Undone(i) \in Int
               /\ Undone(i) = SumFunctionOnSet(Amounts, From(i))
                                - SumFunctionOnSet(Amounts, To(i))
    <2>1. From(i) \in SUBSET Offices /\ To(i) \in SUBSET Offices
      BY DEF From, To
    <2>2. Undone(i) = SumFunctionOnSet(Amounts, From(i)) - SumFunctionOnSet(Amounts, To(i))
      BY DEF Undone, From, To
    <2>3. /\ SumFunctionOnSet(Amounts, From(i)) \in Int
          /\ SumFunctionOnSet(Amounts, To(i)) \in Int
      BY <2>1, SumOf
    <2> QED
      BY <2>2, <2>3
  <1>2. ASSUME NEW i \in Index
        PROVE  [accounts[i] EXCEPT !.balance = (@ + Undone(i)) % Word] \in AccountType
    <2>1. accounts[i] \in AccountType /\ Word \in Nat \ {0}
      <3>1. Word \in Nat \ {0}
        BY BankAssumption
      <3> QED
        BY <3>1 DEF TypeInv, TypeOK
    <2>2. accounts[i].balance \in 0 .. Word - 1
      BY <2>1 DEF AccountType
    <2>3. PICK b : b = (accounts[i].balance + Undone(i)) % Word
      OBVIOUS
    <2>4. b \in 0 .. Word - 1
      <3>1. accounts[i].balance + Undone(i) \in Int
        BY <1>1, <2>2
      <3> QED
        BY <2>1, <2>3, <3>1
    <2>5. [accounts[i] EXCEPT !.balance = b] \in AccountType
      BY <2>1, <2>4, WithBalance
    <2> QED
      BY <2>3, <2>5
  <1>3. NoAccount \in AccountType
    BY BankAssumption DEF NoAccount, AccountType, HashType, Index
  <1>4. ASSUME NEW i \in Index
        PROVE  AccountsView[i] =
                 IF \E o \in Offices : Creating(o) /\ job[o].acc = i
                 THEN NoAccount
                 ELSE [accounts[i] EXCEPT !.balance = (@ + Undone(i)) % Word]
    BY DEF AccountsView
  <1>5. AccountsView \in [Index -> AccountType]
    BY <1>2, <1>3 DEF AccountsView
  <1> QED
    BY <1>1, <1>4, <1>5

\* A step that leaves account i alone, and the work that is under way on it, does
\* not change what the Bank shows of it.
LEMMA ViewSame ==
    ASSUME TypeInv, TypeInv', NEW i \in Index, accounts'[i] = accounts[i],
           \A p \in Offices :
              /\ (Creating(p) /\ job[p].acc = i)' <=> (Creating(p) /\ job[p].acc = i)
              /\ (p \in From(i))' <=> p \in From(i)
              /\ (p \in To(i))' <=> p \in To(i)
              /\ p \in From(i) \cup To(i) => job'[p] = job[p]
    PROVE  AccountsView'[i] = AccountsView[i]
  <1>1. From(i)' = From(i) /\ To(i)' = To(i)
    <2>1. From(i) \subseteq Offices /\ To(i) \subseteq Offices
      BY DEF From, To
    <2>2. From(i)' \subseteq Offices /\ To(i)' \subseteq Offices
      BY DEF From, To
    <2> QED
      BY <2>1, <2>2
  <1>2. ASSUME NEW S \in SUBSET Offices, \A p \in S : job'[p] = job[p]
        PROVE  SumFunctionOnSet(Amounts, S)' = SumFunctionOnSet(Amounts, S)
    <2>1. IsFiniteSet(S) /\ \A p \in S : Amounts[p] \in Int /\ Amounts[p] = job[p].amount
      BY SumOf
    <2>2. \A p \in S : Amounts'[p] = job'[p].amount
      BY DEF Amounts
    <2>3. PICK f, e : f = Amounts /\ e = Amounts'
      OBVIOUS
    <2>4. SumFunctionOnSet(e, S) = SumFunctionOnSet(f, S)
      BY <1>2, <2>1, <2>2, <2>3, SumEqual
    <2> QED
      BY <2>3, <2>4
  <1>3. /\ From(i) \in SUBSET Offices /\ \A p \in From(i) : job'[p] = job[p]
        /\ To(i) \in SUBSET Offices /\ \A p \in To(i) : job'[p] = job[p]
    BY DEF From, To
  <1>4. Undone(i)' = Undone(i)
    <2>1. /\ Undone(i) = SumFunctionOnSet(Amounts, From(i))
                          - SumFunctionOnSet(Amounts, To(i))
          /\ Undone(i)' = SumFunctionOnSet(Amounts', From(i)')
                          - SumFunctionOnSet(Amounts', To(i)')
      BY DEF Undone, From, To
    <2>2. PICK S \in SUBSET Offices, T \in SUBSET Offices : S = From(i) /\ T = To(i)
      BY <1>3
    <2>3. /\ SumFunctionOnSet(Amounts, S)' = SumFunctionOnSet(Amounts, S)
          /\ SumFunctionOnSet(Amounts, T)' = SumFunctionOnSet(Amounts, T)
      BY <1>2, <1>3, <2>2
    <2> QED
      BY <1>1, <2>1, <2>2, <2>3
  <1>5. (\E o \in Offices : Creating(o) /\ job[o].acc = i)' <=>
            \E o \in Offices : Creating(o) /\ job[o].acc = i
    OBVIOUS
  <1> QED
    BY <1>4, <1>5 DEF AccountsView

\* A request under way has its place, and its kind.
LEMMA AtWork ==
    TypeInv /\ OnceInv => \A o \in Offices :
        /\ job[o] \in Requests
        /\ Creating(o) => /\ o \in Busy /\ job[o].acc \in Index \ {ADMIN}
                          /\ Touches(job[o]) = {job[o].acc}
        /\ Debited(o) => /\ o \in Busy /\ job[o].id \in Index \ {ADMIN}
                         /\ Touches(job[o]) = {job[o].id, job[o].acc}
        /\ Credited(o) => Debited(o) /\ job[o].acc \in Index
  <1> SUFFICES ASSUME TypeInv, OnceInv, NEW o \in Offices
               PROVE  /\ job[o] \in Requests
                      /\ Creating(o) => /\ o \in Busy /\ job[o].acc \in Index \ {ADMIN}
                                        /\ Touches(job[o]) = {job[o].acc}
                      /\ Debited(o) => /\ o \in Busy /\ job[o].id \in Index \ {ADMIN}
                                       /\ Touches(job[o]) = {job[o].id, job[o].acc}
                      /\ Credited(o) => Debited(o) /\ job[o].acc \in Index
    OBVIOUS
  <1>1. PlaceAt(o, pc[o]) /\ Kind(o) /\ job[o] \in Requests
    BY DEF TypeInv, TypeOK, Places, OnceInv
  <1>2. CASE Creating(o)
    <2>1. pc[o] \in SetPCs /\ pc[o] \in CreatePCs /\ pc[o] # "idle" /\ ~Debited(o)
            /\ ~Credited(o)
      BY <1>2 DEF Creating, Debited, Credited, SetPCs, CreatePCs
    <2> QED
      BY <1>1, <2>1 DEF PlaceAt, Touches, Busy
  <1>3. CASE Debited(o)
    <2>1. /\ pc[o] \in MovePCs /\ pc[o] \in KnownPCs /\ pc[o] \in MovesPCs /\ pc[o] # "idle"
          /\ ~Creating(o)
      BY <1>3 DEF Creating, Debited, MovePCs, KnownPCs, MovesPCs
    <2> QED
      BY <1>1, <1>3, <2>1 DEF PlaceAt, Touches, Busy, Kind
  <1>4. Credited(o) => Debited(o)
    BY DEF Credited, Debited
  <1> QED
    BY <1>1, <1>2, <1>3, <1>4

\* What office o has taken from account i and not yet put there again.
Due(o, i) ==
    (IF Debited(o) /\ job[o].id = i THEN job[o].amount ELSE 0)
        - (IF Credited(o) /\ job[o].acc = i THEN job[o].amount ELSE 0)

\* The Bank's view of an account that one office works on.
ViewAtWork ==
    \A o \in Busy, i \in Index : i \in Touches(job[o]) =>
        AccountsView[i] =
            IF Creating(o) THEN NoAccount
            ELSE [accounts[i] EXCEPT !.balance = (@ + Due(o, i)) % Word]

\* It is the array without what that office has done.
LEMMA ViewAt == TypeInv /\ OnceInv /\ Disjoint => ViewAtWork
  <1> SUFFICES ASSUME TypeInv, OnceInv, Disjoint, NEW o \in Busy, NEW i \in Index,
                      i \in Touches(job[o])
               PROVE  AccountsView[i] =
                        IF Creating(o) THEN NoAccount
                        ELSE [accounts[i] EXCEPT !.balance = (@ + Due(o, i)) % Word]
    BY DEF ViewAtWork
  <1>1. \A p \in Busy : i \in Touches(job[p]) => p = o
    BY DEF Disjoint
  <1>2. o \in Offices
    BY DEF Busy
  <1>3. Creating(o) => job[o].acc = i
    BY <1>2, AtWork
  <1>4. (\E p \in Offices : Creating(p) /\ job[p].acc = i) <=> Creating(o)
    BY <1>1, <1>2, <1>3, AtWork
  <1>5. From(i) = IF Debited(o) /\ job[o].id = i THEN {o} ELSE {}
    BY <1>1, <1>2, AtWork DEF From
  <1>6. To(i) = IF Credited(o) /\ job[o].acc = i THEN {o} ELSE {}
    BY <1>1, <1>2, AtWork DEF To
  <1>7. /\ {o} \in SUBSET Offices /\ {} \in SUBSET Offices
    BY <1>2
  <1>8. /\ SumFunctionOnSet(Amounts, {o}) = job[o].amount
        /\ SumFunctionOnSet(Amounts, {}) = 0
    BY <1>2, <1>7, SumOf
  <1>9. Undone(i) = Due(o, i)
    BY <1>5, <1>6, <1>8, ViewOf DEF Due
  <1> QED
    BY <1>4, <1>9, ViewOf

\* Before it writes, an office sees the accounts as the Bank shows them.
ViewUnwritten ==
    \A o \in Busy, i \in Index :
        ~Creating(o) /\ ~Debited(o) /\ i \in Touches(job[o]) =>
            AccountsView[i] = accounts[i]

\* Nothing is to be taken back then.
LEMMA ViewQuiet == TypeInv /\ OnceInv /\ Disjoint => ViewUnwritten
  <1> SUFFICES ASSUME TypeInv, OnceInv, Disjoint, NEW o \in Busy, NEW i \in Index,
                      ~Creating(o), ~Debited(o), i \in Touches(job[o])
               PROVE  AccountsView[i] = accounts[i]
    BY DEF ViewUnwritten
  <1>1. Due(o, i) = 0
    BY DEF Due, Debited, Credited
  <1>2. accounts[i] \in AccountType
    BY DEF TypeInv, TypeOK
  <1>3. accounts[i].balance \in 0 .. Word - 1 /\ Word \in Nat
    BY <1>2, BankAssumption DEF AccountType
  <1>4. (accounts[i].balance + 0) % Word = accounts[i].balance
    <2>1. PICK b \in 0 .. Word - 1 : b = accounts[i].balance
      BY <1>3
    <2>2. b + 0 = b /\ b % Word = b
      BY <1>3, ModSmall
    <2> QED
      BY <2>1, <2>2
  <1>5. [accounts[i] EXCEPT !.balance = (@ + 0) % Word] = accounts[i]
    BY <1>2, <1>4 DEF AccountType
  <1> QED
    BY <1>1, <1>5, ViewAt DEF ViewAtWork

\* The Bank shows the admin's password as it is.
LEMMA ViewAdmin ==
    TypeInv /\ OnceInv =>
        /\ AccountsView[ADMIN].salt = accounts[ADMIN].salt
        /\ AccountsView[ADMIN].hash = accounts[ADMIN].hash
  <1> SUFFICES ASSUME TypeInv, OnceInv
               PROVE  /\ AccountsView[ADMIN].salt = accounts[ADMIN].salt
                      /\ AccountsView[ADMIN].hash = accounts[ADMIN].hash
    OBVIOUS
  <1>1. ADMIN \in Index
    BY BankAssumption DEF Index, ADMIN
  <1>2. \A o \in Offices : ~(Creating(o) /\ job[o].acc = ADMIN)
    BY AtWork
  <1>3. accounts[ADMIN] \in AccountType
    BY <1>1 DEF TypeInv, TypeOK
  <1>4. AccountsView[ADMIN] = [accounts[ADMIN] EXCEPT !.balance = (@ + Undone(ADMIN)) % Word]
    BY <1>1, <1>2, ViewOf
  <1> QED
    BY <1>3, <1>4 DEF AccountType

\* The checks depend on the accounts that a request works on, and on the admin's
\* password.
LEMMA CodesSame ==
    ASSUME NEW r \in Requests, NEW v, NEW w
    PROVE  /\ w[ADMIN].salt = v[ADMIN].salt /\ w[ADMIN].hash = v[ADMIN].hash =>
                AdminCode(w, r) = AdminCode(v, r)
           /\ r.id # MAX_BANK_ACCOUNTS /\ (r.id \in Index => w[r.id] = v[r.id]) =>
                /\ UserIdCode(w, r) = UserIdCode(v, r)
                /\ UserCode(w, r) = UserCode(v, r)
           /\ r.acc # MAX_BANK_ACCOUNTS /\ (r.acc \in Index => w[r.acc] = v[r.acc]) =>
                /\ CreateCode(w, r) = CreateCode(v, r)
                /\ DestCode(w, r) = DestCode(v, r)
           /\ w[r.id] = v[r.id] =>
                /\ FundsCode(w, r) = FundsCode(v, r)
                /\ \A s : LoginCode(w, r, s) = LoginCode(v, r, s)
           /\ w[r.acc] = v[r.acc] =>
                /\ FloorCode(w, r) = FloorCode(v, r)
                /\ CeilingCode(w, r) = CeilingCode(v, r)
                /\ RoomCode(w, r) = RoomCode(v, r)
  <1>1. r.id \in Nat /\ r.acc \in Nat /\ MAX_BANK_ACCOUNTS \in Nat
    BY RequestFields, BankAssumption
  <1>2. /\ r.id # MAX_BANK_ACCOUNTS /\ Between(1, r.id, MAX_BANK_ACCOUNTS) => r.id \in Index
        /\ r.acc # MAX_BANK_ACCOUNTS /\ Between(1, r.acc, MAX_BANK_ACCOUNTS) => r.acc \in Index
    BY <1>1 DEF Between, Index
  <1>3. w[ADMIN].salt = v[ADMIN].salt /\ w[ADMIN].hash = v[ADMIN].hash =>
                AdminCode(w, r) = AdminCode(v, r)
    BY DEF AdminCode
  <1>4. r.id # MAX_BANK_ACCOUNTS /\ (r.id \in Index => w[r.id] = v[r.id]) =>
                /\ UserIdCode(w, r) = UserIdCode(v, r)
                /\ UserCode(w, r) = UserCode(v, r)
    BY <1>2 DEF UserIdCode, UserCode, Then, LoginCode
  <1>5. r.acc # MAX_BANK_ACCOUNTS /\ (r.acc \in Index => w[r.acc] = v[r.acc]) =>
                /\ CreateCode(w, r) = CreateCode(v, r)
                /\ DestCode(w, r) = DestCode(v, r)
    BY <1>2 DEF CreateCode, DestCode
  <1>6. w[r.id] = v[r.id] =>
                /\ FundsCode(w, r) = FundsCode(v, r)
                /\ \A s : LoginCode(w, r, s) = LoginCode(v, r, s)
    BY DEF FundsCode, LoginCode
  <1>7. w[r.acc] = v[r.acc] =>
                /\ FloorCode(w, r) = FloorCode(v, r)
                /\ CeilingCode(w, r) = CeilingCode(v, r)
                /\ RoomCode(w, r) = RoomCode(v, r)
    BY DEF FloorCode, CeilingCode, RoomCode
  <1> QED
    BY <1>3, <1>4, <1>5, <1>6, <1>7

\* The Bank makes the checks that the offices make.
LEMMA SameChecks ==
    /\ BankView!ADMIN = ADMIN /\ BankView!Index = Index
    /\ \A a, r : /\ BankView!AdminCode(a, r) = AdminCode(a, r)
                 /\ BankView!CreateCode(a, r) = CreateCode(a, r)
                 /\ BankView!UserCode(a, r) = UserCode(a, r)
                 /\ BankView!DestCode(a, r) = DestCode(a, r)
                 /\ BankView!FundsCode(a, r) = FundsCode(a, r)
                 /\ BankView!RoomCode(a, r) = RoomCode(a, r)
                 /\ BankView!InArray(a, r) = InArray(a, r)
    /\ \A a, b : BankView!Then(a, b) = Then(a, b)
    /\ \A i, b, p, s : BankView!Account(i, b, p, s) = Account(i, b, p, s)
    /\ \A a, i, j, b : BankView!Moved(a, i, j, b) = Moved(a, i, j, b)
    /\ BankView!Codes = Codes /\ BankView!UNSET = UNSET /\ BankView!NoBalance = NoBalance
  BY DEF BankView!ADMIN, ADMIN, BankView!Index, Index, BankView!AdminCode, AdminCode,
     BankView!CreateCode, CreateCode, BankView!UserCode, UserCode, BankView!DestCode,
     DestCode, BankView!FundsCode, FundsCode, BankView!RoomCode, RoomCode,
     BankView!FloorCode, FloorCode, BankView!CeilingCode, CeilingCode,
     BankView!InArray, InArray, BankView!Then, Then, BankView!Account, Account,
     BankView!Moved, Moved, BankView!Codes, Codes, BankView!UNSET, UNSET,
     BankView!NoBalance, NoBalance, BankView!Hash, Hash, BankView!UserIdCode, UserIdCode,
     BankView!LoginCode, LoginCode, BankView!Between, Between,
     BankView!MIN_BALANCE, MIN_BALANCE

-----------------------------------------------------------------------------
(* The steps of an office between Begin and Reply.                         *)

Checking(o) ==
    \/ ValidateAdmin(o) \/ ValidateUser(o) \/ Login(o) \/ CheckCreate(o)
    \/ CheckDest(o) \/ CheckFunds(o) \/ CheckFloor(o) \/ CheckRoom(o)

Reading(o) ==
    \/ ReadSalt(o) \/ NoOperation(o) \/ CheckBalance(o) \/ LogCreation(o)
    \/ EchoDest(o) \/ DebitLoad(o) \/ CreditLoad(o) \/ TransferResult(o)

Creation(o) == SetId(o) \/ SetBalance(o) \/ SetSalt(o) \/ SetHash(o)

Storing(o) == DebitStore(o) \/ CreditStore(o)

Work(o) == Checking(o) \/ Reading(o) \/ Creation(o) \/ Storing(o)

\* What is beyond the reach of a step of o.
Frame(o) ==
    /\ pc[o] # "idle" /\ pc'[o] # "idle"
    /\ \A p \in Offices : p # o => /\ pc'[p] = pc[p] /\ reply'[p] = reply[p]
                                   /\ salt'[p] = salt[p] /\ reg'[p] = reg[p]
    /\ UNCHANGED <<job, begun, overlap, answers>>
    /\ accounts'[ADMIN].salt = accounts[ADMIN].salt
    /\ accounts'[ADMIN].hash = accounts[ADMIN].hash
    /\ \A i \in Index : i \notin Touches(job[o]) => accounts'[i] = accounts[i]

\* A step from one place to another that writes no account.
LEMMA FrameGo ==
    ASSUME TypeInv, NEW o \in Offices, NEW from, NEW to, Go(o, from, to),
           from # "idle", to # "idle", accounts' = accounts,
           reply' = reply \/ (\E c : reply' = [reply EXCEPT ![o].ret_code = c])
               \/ (\E b : reply' = [reply EXCEPT ![o].balance = b]),
           salt' = salt \/ (\E s : salt' = [salt EXCEPT ![o] = s]),
           reg' = reg \/ (\E b : reg' = [reg EXCEPT ![o] = b])
    PROVE  Frame(o)
  <1>1. /\ pc[o] # "idle" /\ pc'[o] # "idle"
        /\ \A p \in Offices : p # o => pc'[p] = pc[p]
        /\ UNCHANGED <<job, begun, overlap, answers>>
    BY DEF Go, begin, TypeInv, TypeOK
  <1>2. \A p \in Offices : p # o => reply'[p] = reply[p]
    BY DEF TypeInv, TypeOK
  <1>3. \A p \in Offices : p # o => salt'[p] = salt[p] /\ reg'[p] = reg[p]
    BY DEF TypeInv, TypeOK
  <1> QED
    BY <1>1, <1>2, <1>3 DEF Frame

\* Checks.
LEMMA FrameChecked ==
    ASSUME TypeInv, NEW o \in Offices, NEW from, NEW code, NEW next, NEW otherwise,
           from # "idle", next # "idle", otherwise # "idle",
           Checked(o, from, code, next, otherwise)
    PROVE  Frame(o) /\ accounts' = accounts /\ salt' = salt /\ fault' = fault
  <1>1. PICK to : to = IF code = "OK" THEN next ELSE otherwise
    OBVIOUS
  <1>2. Go(o, from, to) /\ to # "idle"
    BY <1>1 DEF Checked
  <1>3. /\ reply' = [reply EXCEPT ![o].ret_code = code]
        /\ UNCHANGED <<accounts, slog, fault, salt, reg>>
    BY DEF Checked, shared
  <1> QED
    BY <1>2, <1>3, FrameGo

\* Accesses outside of the array.
LEMMA FrameFault ==
    ASSUME TypeInv, NEW o \in Offices, NEW from, from # "idle", Fault(o, from)
    PROVE  /\ Frame(o) /\ pc[o] = from
           /\ UNCHANGED <<accounts, pc, job, reply, salt, reg, begun, answers, overlap>>
  <1>1. Go(o, from, from) /\ UNCHANGED <<accounts, reply, salt, reg>>
    BY DEF Fault, local
  <1>2. UNCHANGED <<pc, job, begun, answers, overlap>> /\ pc[o] = from
    BY <1>1 DEF Go, begin, TypeInv, TypeOK
  <1> QED
    BY <1>1, <1>2, FrameGo

\* No step of an office goes beyond it.
LEMMA WorkFrame ==
    ASSUME TypeInv, OnceInv, NEW o \in Offices, Work(o) PROVE Frame(o)
  <1>0. PlaceAt(o, pc[o]) /\ Kind(o) /\ ADMIN \in Index
    <2>1. ADMIN \in Index
      BY BankAssumption DEF Index, ADMIN
    <2> QED
      BY <2>1 DEF TypeInv, Places, OnceInv
  <1>1. CASE Checking(o)
    <2>1. CASE ValidateAdmin(o)
      BY <2>1, FrameChecked DEF ValidateAdmin
    <2>2. CASE ValidateUser(o)
      BY <2>2, FrameChecked, FrameFault DEF ValidateUser
    <2>3. CASE Login(o)
      <3>1. pc[o] = "login" /\ Checked(o, "login", LoginCode(accounts, job[o], salt[o]),
                                       job[o].type, "reply")
        BY <2>3 DEF Login, Checked, Go
      <3>2. job[o].type # "idle"
        BY <1>0, <3>1 DEF PlaceAt, UserPCs, KnownPCs
      <3> QED
        BY <3>1, <3>2, FrameChecked
    <2>4. CASE CheckCreate(o)
      BY <2>4, FrameChecked, FrameFault DEF CheckCreate
    <2>5. CASE CheckDest(o)
      BY <2>5, FrameChecked DEF CheckDest
    <2>6. CASE CheckFunds(o)
      BY <2>6, FrameChecked DEF CheckFunds
    <2>7. CASE CheckFloor(o)
      BY <2>7, FrameChecked DEF CheckFloor
    <2>8. CASE CheckRoom(o)
      BY <2>8, FrameChecked DEF CheckRoom
    <2> QED
      BY <1>1, <2>1, <2>2, <2>3, <2>4, <2>5, <2>6, <2>7, <2>8 DEF Checking
  <1>2. CASE Reading(o)
    <2>1. CASE ReadSalt(o)
      BY <2>1, FrameGo DEF ReadSalt, shared
    <2>2. CASE NoOperation(o)
      BY <2>2, FrameGo DEF NoOperation, shared
    <2>3. CASE CheckBalance(o)
      BY <2>3, FrameGo DEF CheckBalance, shared
    <2>4. CASE LogCreation(o)
      BY <2>4, FrameGo, FrameFault DEF LogCreation, local
    <2>5. CASE EchoDest(o)
      BY <2>5, FrameGo, FrameFault DEF EchoDest, shared
    <2>6. CASE DebitLoad(o)
      BY <2>6, FrameGo DEF DebitLoad, Load, shared
    <2>7. CASE CreditLoad(o)
      BY <2>7, FrameGo DEF CreditLoad, Load, shared
    <2>8. CASE TransferResult(o)
      BY <2>8, FrameGo DEF TransferResult, shared
    <2> QED
      BY <1>2, <2>1, <2>2, <2>3, <2>4, <2>5, <2>6, <2>7, <2>8 DEF Reading
  <1>3. CASE Creation(o)
    <2>1. PICK from \in SetPCs, to \in SetPCs \cup {"reply"} :
             /\ Go(o, from, to) /\ UNCHANGED <<reply, reg>>
             /\ salt' = salt \/ \E s : salt' = [salt EXCEPT ![o] = s]
      BY <1>3 DEF Creation, SetId, SetBalance, SetSalt, SetHash, SetField, SetPCs
    <2>2. /\ pc[o] = from /\ pc[o] # "idle" /\ pc'[o] # "idle"
          /\ \A p \in Offices : p # o => /\ pc'[p] = pc[p] /\ reply'[p] = reply[p]
                                         /\ salt'[p] = salt[p] /\ reg'[p] = reg[p]
          /\ UNCHANGED <<job, begun, overlap, answers>>
      BY <2>1 DEF Go, begin, TypeInv, TypeOK, SetPCs
    <2>3. /\ job[o].acc \in Index \ {ADMIN}
          /\ \A i \in Index : i # job[o].acc => accounts'[i] = accounts[i]
      BY <1>3, FieldWrites DEF Creation
    <2>4. Touches(job[o]) = {job[o].acc}
      BY <1>0, <2>1, <2>2 DEF PlaceAt, CreatePCs, Touches
    <2> QED
      BY <1>0, <2>2, <2>3, <2>4 DEF Frame
  <1>4. CASE Storing(o)
    <2>1. PICK from \in MovePCs, to \in MovePCs, i \in {job[o].id, job[o].acc} :
             /\ Go(o, from, to) /\ UNCHANGED <<reply, salt, reg>>
             /\ \E b : accounts' = [accounts EXCEPT ![i].balance = b]
      BY <1>4 DEF Storing, DebitStore, CreditStore, Store, local, MovePCs
    <2>2. /\ pc[o] = from /\ pc[o] # "idle" /\ pc'[o] # "idle"
          /\ \A p \in Offices : p # o => /\ pc'[p] = pc[p] /\ reply'[p] = reply[p]
                                         /\ salt'[p] = salt[p] /\ reg'[p] = reg[p]
          /\ UNCHANGED <<job, begun, overlap, answers>>
      BY <2>1 DEF Go, begin, TypeInv, TypeOK, MovePCs
    <2>3. Touches(job[o]) = {job[o].id, job[o].acc}
      BY <1>0, <2>1, <2>2 DEF Kind, MovesPCs, Touches
    <2>4. \A k \in Index : k # i => accounts'[k] = accounts[k]
      BY <2>1 DEF TypeInv, TypeOK
    <2>5. /\ accounts'[ADMIN].salt = accounts[ADMIN].salt
          /\ accounts'[ADMIN].hash = accounts[ADMIN].hash
      BY <1>0, <1>4, Stores DEF Storing
    <2> QED
      BY <2>1, <2>2, <2>3, <2>4, <2>5 DEF Frame
  <1> QED
    BY <1>1, <1>2, <1>3, <1>4 DEF Work

\* A check leaves OK in the reply if the office goes on.
LEMMA KindChecked ==
    ASSUME TypeInv, OnceInv, NEW o \in Offices, NEW from, NEW code \in Codes,
           NEW next \in PCs, NEW otherwise \in {"reply", "log"},
           Checked(o, from, code, next, otherwise),
           next = "balance" => job[o].type = "balance",
           next \in MovesPCs => job[o].type = "transfer"
    PROVE  Kind(o)'
  <1>1. TypeOK /\ otherwise \in PCs
    BY DEF TypeInv, PCs
  <1>2. /\ pc'[o] = IF code = "OK" THEN next ELSE otherwise
        /\ reply'[o].ret_code = code /\ job' = job
    BY <1>1, Checks, ZenonT(40)
  <1> QED
    BY <1>2 DEF Kind, MovesPCs, OKPCs, SetPCs, KnownPCs, MovePCs

\* The other steps keep it.
LEMMA KindGo ==
    ASSUME TypeInv, OnceInv, NEW o \in Offices, NEW from, NEW to, Go(o, from, to),
           to # "balance" \/ to = from, to \in MovesPCs => from \in MovesPCs,
           to \in OKPCs => from \in OKPCs /\ reply'[o].ret_code = reply[o].ret_code
    PROVE  Kind(o)'
  <1>1. pc[o] = from /\ pc'[o] = to /\ job' = job
    BY DEF Go, begin, TypeInv, TypeOK
  <1>2. Kind(o)
    BY DEF OnceInv
  <1> QED
    BY <1>1, <1>2 DEF Kind

\* An office is where the kind of its request takes it.
LEMMA KindStep ==
    ASSUME TypeInv, OnceInv, NEW o \in Offices, Work(o) PROVE Kind(o)'
  <1>0. /\ job[o] \in Requests /\ PlaceAt(o, pc[o]) /\ Kind(o)
        /\ reply \in [Offices -> [ret_code : Codes, balance : 0 .. Word - 1]]
    BY DEF TypeInv, TypeOK, Places, OnceInv
  <1>a. /\ AdminCode(accounts, job[o]) \in Codes /\ UserIdCode(accounts, job[o]) \in Codes
        /\ LoginCode(accounts, job[o], salt[o]) \in Codes
        /\ CreateCode(accounts, job[o]) \in Codes /\ DestCode(accounts, job[o]) \in Codes
        /\ FundsCode(accounts, job[o]) \in Codes /\ FloorCode(accounts, job[o]) \in Codes
        /\ CeilingCode(accounts, job[o]) \in Codes
    BY <1>0, CodesOfChecks
  <1>b. /\ {"create", "salt", "balance", "transfer", "set_id", "funds", "floor",
             "room", "debit"} \subseteq PCs
        /\ {"funds", "floor", "room", "debit", "dest", "debit_store", "credit", "credit_store",
            "result", "transfer"} \subseteq MovesPCs
        /\ "balance" \notin MovesPCs
        /\ {"create", "set_id", "salt", "reply", "login", "log"} \cap MovesPCs = {}
    BY DEF PCs, MovesPCs, MovePCs
  <1>c. /\ {"reply", "log"} \cap OKPCs = {}
        /\ SetPCs \subseteq OKPCs /\ MovesPCs \subseteq OKPCs
        /\ {"salt", "login", "balance"} \subseteq OKPCs
        /\ SetPCs \cap MovesPCs = {} /\ "balance" \notin SetPCs
    BY DEF OKPCs, SetPCs, KnownPCs, MovePCs, MovesPCs
  <1>d. ASSUME NEW from, Fault(o, from) PROVE Kind(o)'
    <2>1. Go(o, from, from) /\ reply' = reply
      BY <1>d DEF Fault, local
    <2> QED
      BY <2>1, KindGo
  <1>1. CASE Checking(o)
    <2>1. CASE ValidateAdmin(o)
      BY <1>a, <1>b, <2>1, KindChecked DEF ValidateAdmin
    <2>2. CASE ValidateUser(o)
      BY <1>a, <1>b, <1>d, <2>2, KindChecked DEF ValidateUser
    <2>3. CASE Login(o)
      <3>1. pc[o] = "login" /\ Checked(o, "login", LoginCode(accounts, job[o], salt[o]),
                                       job[o].type, "reply")
        BY <2>3 DEF Login, Checked, Go
      <3>2. job[o].type \in {"balance", "transfer"}
        BY <1>0, <3>1 DEF PlaceAt, UserPCs, KnownPCs
      <3>3. job[o].type \in PCs /\ (job[o].type \in MovesPCs => job[o].type = "transfer")
        BY <1>b, <3>2
      <3>4. job[o].type = "balance" => job[o].type = "balance"
        OBVIOUS
      <3> QED
        BY <1>a, <3>1, <3>3, <3>4, KindChecked
    <2>4. CASE CheckCreate(o)
      BY <1>a, <1>b, <1>d, <2>4, KindChecked DEF CheckCreate
    <2>5. CASE CheckDest(o)
      <3>1. job[o].type = "transfer"
        BY <1>0, <1>b, <2>5 DEF CheckDest, Checked, Go, Kind
      <3> QED
        BY <1>a, <1>b, <2>5, <3>1, KindChecked DEF CheckDest
    <2>6. CASE CheckFunds(o)
      <3>1. job[o].type = "transfer"
        BY <1>0, <1>b, <2>6 DEF CheckFunds, Checked, Go, Kind
      <3> QED
        BY <1>a, <1>b, <2>6, <3>1, KindChecked DEF CheckFunds
    <2>7. CASE CheckFloor(o)
      <3>1. job[o].type = "transfer"
        BY <1>0, <1>b, <2>7 DEF CheckFloor, Checked, Go, Kind
      <3> QED
        BY <1>a, <1>b, <2>7, <3>1, KindChecked DEF CheckFloor
    <2>8. CASE CheckRoom(o)
      <3>1. job[o].type = "transfer"
        BY <1>0, <1>b, <2>8 DEF CheckRoom, Checked, Go, Kind
      <3> QED
        BY <1>a, <1>b, <2>8, <3>1, KindChecked DEF CheckRoom
    <2> QED
      BY <1>1, <2>1, <2>2, <2>3, <2>4, <2>5, <2>6, <2>7, <2>8 DEF Checking
  <1>2. CASE Reading(o)
    <2>1. CASE ReadSalt(o)
      BY <1>b, <1>c, <2>1, KindGo DEF ReadSalt
    <2>2. CASE NoOperation(o) \/ CheckBalance(o) \/ TransferResult(o)
      <3>1. \E from : Go(o, from, "reply")
        BY <2>2 DEF NoOperation, CheckBalance, TransferResult
      <3> QED
        BY <1>b, <1>c, <3>1, KindGo
    <2>3. CASE LogCreation(o)
      BY <1>b, <1>c, <1>d, <2>3, KindGo DEF LogCreation
    <2>4. CASE EchoDest(o)
      <3>1. CASE job[o].acc \notin Index
        BY <1>d, <2>4, <3>1 DEF EchoDest
      <3>2. CASE job[o].acc \in Index
        <4>1. Go(o, "transfer", "dest") /\ \E b : reply' = [reply EXCEPT ![o].balance = b]
          BY <2>4, <3>2 DEF EchoDest
        <4>2. reply'[o].ret_code = reply[o].ret_code
          BY <1>0, <4>1
        <4> QED
          BY <1>b, <1>c, <4>1, <4>2, KindGo
      <3> QED
        BY <3>1, <3>2
    <2>5. CASE DebitLoad(o) \/ CreditLoad(o)
      <3>1. PICK from \in {"debit", "credit"}, to \in {"debit_store", "credit_store"} :
              Go(o, from, to) /\ reply' = reply
        BY <2>5 DEF DebitLoad, CreditLoad, Load
      <3> QED
        BY <1>b, <1>c, <3>1, KindGo
    <2> QED
      BY <1>2, <2>1, <2>2, <2>3, <2>4, <2>5 DEF Reading
  <1>3. CASE Creation(o)
    <2>1. PICK from \in SetPCs, to \in SetPCs \cup {"reply"} :
             Go(o, from, to) /\ reply' = reply
      BY <1>3 DEF Creation, SetId, SetBalance, SetSalt, SetHash, SetField, SetPCs
    <2> QED
      BY <1>b, <1>c, <2>1, KindGo
  <1>4. CASE Storing(o)
    <2>1. PICK from \in {"debit_store", "credit_store"}, to \in {"credit", "result"} :
             Go(o, from, to) /\ reply' = reply
      BY <1>4 DEF Storing, DebitStore, CreditStore, Store, local
    <2> QED
      BY <1>b, <1>c, <2>1, KindGo
  <1> QED
    BY <1>1, <1>2, <1>3, <1>4 DEF Work

\* A request is begun once, and answered once.
LEMMA OnceStep == TypeInv /\ OnceInv /\ [Next]_vars => OnceInv'
  <1> SUFFICES ASSUME TypeInv, OnceInv, [Next]_vars PROVE OnceInv'
    OBVIOUS
  <1>1. ASSUME NEW o \in Offices, Work(o) PROVE OnceInv'
    <2>1. Frame(o) /\ Kind(o)'
      BY <1>1, WorkFrame, KindStep
    <2>2. ASSUME NEW p \in Offices PROVE Kind(p)'
      BY <2>1 DEF OnceInv, Kind, Frame
    <2>3. Busy' = Busy
      BY <2>1 DEF Busy, Frame
    <2>4. Once'
      BY <2>1, <2>3 DEF OnceInv, Once, Frame
    <2> QED
      BY <2>2, <2>4 DEF OnceInv
  <1>2. ASSUME NEW o \in Offices, Reply(o) PROVE OnceInv'
    <2>1. /\ pc[o] = "reply" /\ pc' = [pc EXCEPT ![o] = "idle"]
          /\ answers' = answers \cup {[req |-> job[o], code |-> reply[o].ret_code,
                                       balance |-> reply[o].balance]}
          /\ UNCHANGED <<begun, job, reply>>
      BY <1>2 DEF Reply, local, begin
    <2>2. ASSUME NEW p \in Offices PROVE Kind(p)'
      BY <2>1 DEF TypeInv, TypeOK, OnceInv, Kind, MovesPCs, OKPCs, SetPCs, KnownPCs, MovePCs
    <2>3. o \in Busy /\ Busy' = Busy \ {o}
      BY <2>1 DEF Busy, TypeInv, TypeOK
    <2>4. PICK x : /\ x.req = job[o] /\ answers' = answers \cup {x}
      BY <2>1
    <2>5. Once'
      BY <2>1, <2>3, <2>4 DEF OnceInv, Once, Busy
    <2> QED
      BY <2>2, <2>5 DEF OnceInv
  <1>3. ASSUME NEW o \in Offices, NEW r \in Requests, Begin(o, r) PROVE OnceInv'
    <2>1. /\ pc[o] = "idle" /\ r \notin begun
          /\ job' = [job EXCEPT ![o] = r] /\ begun' = begun \cup {r}
          /\ UNCHANGED <<reply, answers>>
      BY <1>3 DEF Begin, local
    <2>2. PICK to \in {"admin", "user", "other"} : pc' = [pc EXCEPT ![o] = to]
      BY <1>3 DEF Begin
    <2>3. ASSUME NEW p \in Offices PROVE Kind(p)'
      BY <2>1, <2>2 DEF TypeInv, TypeOK, OnceInv, Kind, MovesPCs, OKPCs, SetPCs, KnownPCs,
         MovePCs
    <2>4. o \notin Busy /\ Busy' = Busy \cup {o} /\ Busy \subseteq Offices
      BY <2>1, <2>2 DEF Busy, TypeInv, TypeOK
    <2>5. job'[o] = r /\ \A p \in Busy : job'[p] = job[p]
      BY <2>1, <2>4 DEF TypeInv, TypeOK
    <2>6. Once'
      BY <2>1, <2>4, <2>5 DEF OnceInv, Once
    <2> QED
      BY <2>3, <2>6 DEF OnceInv
  <1>4. CASE UNCHANGED vars
    BY <1>4 DEF vars, local, begin, OnceInv, Once, Kind, Busy
  <1> QED
    BY <1>1, <1>2, <1>3, <1>4 DEF Next, OfficeStep, Work, Checking, Reading, Creation, Storing

\* Nothing is under way at first.
LEMMA OnceInit == Init => OnceInv
  <1> SUFFICES ASSUME Init PROVE OnceInv
    OBVIOUS
  <1>1. \A o \in Offices : pc[o] = "idle"
    BY DEF Init
  <1>2. Busy = {} /\ answers = {}
    BY <1>1 DEF Busy, Init
  <1> QED
    BY <1>1, <1>2 DEF OnceInv, Once, Kind, MovesPCs, OKPCs, SetPCs, KnownPCs, MovePCs

-----------------------------------------------------------------------------
(* The steps of an office as the Bank sees them.                           *)

\* The accounts that work is under way on.
LEMMA TouchesAtWork ==
    TypeInv /\ OnceInv => \A p \in Offices :
        /\ Creating(p) => Touches(job[p]) = {job[p].acc}
        /\ Debited(p) => Touches(job[p]) = {job[p].id, job[p].acc}
        /\ Credited(p) => Debited(p)
  BY AtWork

\* Only the accounts that it works on change.
LEMMA ViewOthers ==
    ASSUME TypeInv, TypeInv', OnceInv, OnceInv', NEW o \in Offices, Frame(o),
           NEW i \in Index, i \notin Touches(job[o])
    PROVE  AccountsView'[i] = AccountsView[i]
  <1>1. job' = job /\ accounts'[i] = accounts[i] /\ \A p \in Offices : p # o => pc'[p] = pc[p]
    BY DEF Frame
  <1>2. /\ ~(Creating(o) /\ job[o].acc = i) /\ o \notin From(i) /\ o \notin To(i)
    BY AtWork DEF From, To
  <1>3. /\ ~(Creating(o) /\ job[o].acc = i)' /\ (o \notin From(i))' /\ (o \notin To(i))'
    <2>1. (TypeInv /\ OnceInv => \A p \in Offices :
            /\ Creating(p) => Touches(job[p]) = {job[p].acc}
            /\ Debited(p) => Touches(job[p]) = {job[p].id, job[p].acc}
            /\ Credited(p) => Debited(p))'
      BY TouchesAtWork, PTL
    <2>2. Touches(job[o])' = Touches(job[o])
      BY <1>1 DEF Touches
    <2> QED
      BY <1>1, <2>1, <2>2 DEF From, To
  <1>4. ASSUME NEW p \in Offices
        PROVE  /\ (Creating(p) /\ job[p].acc = i)' <=> (Creating(p) /\ job[p].acc = i)
               /\ (p \in From(i))' <=> p \in From(i)
               /\ (p \in To(i))' <=> p \in To(i)
    <2>1. CASE p = o
      BY <1>2, <1>3, <2>1
    <2>2. CASE p # o
      BY <1>1, <2>2 DEF Creating, Debited, Credited, From, To
    <2> QED
      BY <2>1, <2>2
  <1> QED
    BY <1>1, <1>4, ViewSame

\* The Bank's view is the same if it is of every account.
LEMMA SameView ==
    ASSUME \A i \in Index : AccountsView'[i] = AccountsView[i]
    PROVE  AccountsView' = AccountsView
  <1>1. PICK v, w : v = AccountsView /\ w = AccountsView'
    OBVIOUS
  <1>2. v = [i \in Index |-> v[i]]
    BY <1>1 DEF AccountsView
  <1>3. w = [i \in Index |-> w[i]]
    BY <1>1 DEF AccountsView
  <1>4. \A i \in Index : w[i] = v[i]
    BY <1>1
  <1>5. w = v
    BY <1>2, <1>3, <1>4
  <1> QED
    BY <1>1, <1>5

\* None of them does if nothing is written and nothing is under way.
LEMMA ViewStill ==
    ASSUME TypeInv, TypeInv', NEW o \in Offices, Frame(o), accounts' = accounts,
           Creating(o)' <=> Creating(o), Debited(o)' <=> Debited(o),
           Credited(o)' <=> Credited(o)
    PROVE  AccountsView' = AccountsView
  <1>1. job' = job /\ \A p \in Offices : p # o => pc'[p] = pc[p]
    BY DEF Frame
  <1>2. ASSUME NEW p \in Offices
        PROVE  /\ Creating(p)' <=> Creating(p)
               /\ Debited(p)' <=> Debited(p)
               /\ Credited(p)' <=> Credited(p)
    BY <1>1 DEF Creating, Debited, Credited
  <1>3. \A i \in Index : AccountsView'[i] = AccountsView[i]
    BY <1>1, <1>2, ViewSame DEF From, To
  <1> QED
    BY <1>3, SameView

\* A decision shows as an answer, and no other step does.
LEMMA AnswersStill ==
    ASSUME NEW o \in Offices, Frame(o), Decided(o)' <=> Decided(o),
           Decided(o) => reply'[o] = reply[o]
    PROVE  AnswersView' = AnswersView
  <1>1. /\ UNCHANGED <<job, answers>>
        /\ \A p \in Offices : p # o => pc'[p] = pc[p] /\ reply'[p] = reply[p]
    BY DEF Frame
  <1>2. \A p \in Offices : /\ Decided(p)' <=> Decided(p)
                           /\ Decided(p) => reply'[p] = reply[p]
    BY <1>1 DEF Decided
  <1> QED
    BY <1>1, <1>2 DEF AnswersView

\* The answer that a decision adds.
LEMMA AnswersGrow ==
    ASSUME NEW o \in Offices, Frame(o), ~Decided(o), Decided(o)'
    PROVE  AnswersView' = AnswersView \cup
             {PrintReply(job[o], reply'[o].ret_code, reply'[o].balance)}
  <1>1. /\ UNCHANGED <<job, answers>>
        /\ \A p \in Offices : p # o => pc'[p] = pc[p] /\ reply'[p] = reply[p]
    BY DEF Frame
  <1>2. \A p \in Offices : /\ p # o => (Decided(p)' <=> Decided(p))
                           /\ Decided(p) => p # o
    BY <1>1 DEF Decided
  <1>3. {p \in Offices : Decided(p)}' = {p \in Offices : Decided(p)} \cup {o}
    BY <1>1, <1>2
  <1>4. \A p \in Offices : Decided(p) => reply'[p] = reply[p]
    BY <1>1, <1>2
  <1> QED
    BY <1>1, <1>3, <1>4 DEF AnswersView

\* Before that there is no answer to the request.
LEMMA NotAnswered ==
    ASSUME OnceInv, NEW o \in Offices, pc[o] # "idle", ~Decided(o),
           NEW x \in AnswersView
    PROVE  x.req # job[o]
  <1>1. \A r, c, b : PrintReply(r, c, b).req = r
    BY DEF PrintReply
  <1>2. o \in Busy /\ \A p \in Offices : Decided(p) => p \in Busy
    BY DEF Busy, Decided
  <1>3. CASE \E y \in answers : x = PrintReply(y.req, y.code, y.balance)
    BY <1>1, <1>2, <1>3 DEF OnceInv, Once
  <1>4. CASE \E p \in Offices : Decided(p) /\ x = PrintReply(job[p], reply[p].ret_code,
                                                             reply[p].balance)
    BY <1>1, <1>2, <1>4 DEF OnceInv, Once
  <1> QED
    BY <1>3, <1>4 DEF AnswersView

\* The code of a create and of a transfer.
GrantCode(v, r) == Then(AdminCode(v, r), CreateCode(v, r))
TransferCode(v, r) ==
    Then(UserCode(v, r), Then(DestCode(v, r), Then(FundsCode(v, r), RoomCode(v, r))))

\* The decisions that are the Bank's.
BankDecides(r, code, balance) ==
    \/ /\ r.type = "create" /\ code = GrantCode(AccountsView, r)
       /\ IF code = "OK"
          THEN \E s \in Salts : AccountsView' = [AccountsView EXCEPT
                  ![r.acc] = Account(r.acc, r.amount, Unquoted(r.newpass), s)]
          ELSE AccountsView' = AccountsView
    \/ /\ r.type = "balance" /\ code = UserCode(AccountsView, r)
       /\ AccountsView' = AccountsView
       /\ code = "OK" => balance = AccountsView[r.id].balance
    \/ /\ r.type = "transfer" /\ code = TransferCode(AccountsView, r)
       /\ AccountsView' = IF code = "OK" THEN Moved(AccountsView, r.id, r.acc, r.amount)
                          ELSE AccountsView
       /\ code = "OK" => balance = AccountsView'[r.id].balance
    \/ /\ r.type = "other" /\ code \in Codes \ {UNSET}
       /\ AccountsView' = AccountsView

\* A request that is decided as the Bank would is a step of the Bank.
LEMMA BankStep ==
    ASSUME TypeInv, OnceInv, NEW o \in Offices, Frame(o), ~Decided(o), Decided(o)',
           InArray(AccountsView, job[o]),
           BankDecides(job[o], reply'[o].ret_code, reply'[o].balance)
    PROVE  BankView!Next
  <1>1. PICK r \in Requests : r = job[o]
    BY DEF TypeInv, TypeOK
  <1>2. PICK code, balance : code = reply'[o].ret_code /\ balance = reply'[o].balance
    OBVIOUS
  <1>3. PICK v, w : v = AccountsView /\ w = AccountsView'
    OBVIOUS
  <1>4. AnswersView' = AnswersView \cup {PrintReply(r, code, balance)}
    BY <1>1, <1>2, AnswersGrow
  <1>5. InArray(v, r) /\ \A x \in AnswersView : x.req # r
    BY <1>1, <1>3, NotAnswered DEF Frame
  <1>6. BankDecides(r, code, balance)
    BY <1>1, <1>2
  <1> DEFINE Sent(b) == [req |-> r, code |-> code,
                         balance |-> IF code = "OK" THEN b ELSE NoBalance]
  <1>7. CASE r.type = "create"
    <2>1. PrintReply(r, code, balance) = Sent(NoBalance)
      BY <1>7 DEF PrintReply
    <2>2. /\ code = Then(AdminCode(v, r), CreateCode(v, r))
          /\ IF code = "OK"
             THEN \E s \in Salts : w = [v EXCEPT
                     ![r.acc] = Account(r.acc, r.amount, Unquoted(r.newpass), s)]
             ELSE w = v
      BY <1>3, <1>6, <1>7 DEF BankDecides, GrantCode
    <2>3. BankView!Create(r)
      BY <1>3, <1>4, <1>5, <1>7, <2>1, <2>2, SameChecks
         DEF BankView!Create, BankView!Pending, BankView!Answer
    <2> QED
      BY <2>3 DEF BankView!Next
  <1>8. CASE r.type = "balance"
    <2>1. /\ code = UserCode(v, r) /\ w = v
          /\ code = "OK" => balance = v[r.id].balance
      BY <1>3, <1>6, <1>8 DEF BankDecides
    <2>2. PrintReply(r, code, balance) = Sent(v[r.id].balance)
      BY <1>8, <2>1 DEF PrintReply
    <2>3. BankView!Balance(r)
      BY <1>3, <1>4, <1>5, <1>8, <2>1, <2>2, SameChecks
         DEF BankView!Balance, BankView!Pending, BankView!Answer
    <2> QED
      BY <2>3 DEF BankView!Next
  <1>9. CASE r.type = "transfer"
    <2>1. /\ code = TransferCode(v, r)
          /\ w = IF code = "OK" THEN Moved(v, r.id, r.acc, r.amount) ELSE v
          /\ code = "OK" => balance = w[r.id].balance
      BY <1>3, <1>6, <1>9 DEF BankDecides
    <2>2. PrintReply(r, code, balance) = Sent(w[r.id].balance)
      BY <1>9, <2>1 DEF PrintReply
    <2>3. BankView!Transfer(r)
      BY <1>3, <1>4, <1>5, <1>9, <2>1, <2>2, SameChecks
         DEF BankView!Transfer, BankView!Pending, BankView!Answer, TransferCode
    <2> QED
      BY <2>3 DEF BankView!Next
  <1>10. CASE r.type = "other"
    <2>1. PrintReply(r, code, balance) = Sent(NoBalance)
      BY <1>10 DEF PrintReply
    <2>2. code \in Codes \ {UNSET} /\ w = v
      BY <1>3, <1>6, <1>10 DEF BankDecides
    <2>3. BankView!Other(r)
      BY <1>3, <1>4, <1>5, <1>10, <2>1, <2>2, SameChecks
         DEF BankView!Other, BankView!Pending, BankView!Answer
    <2> QED
      BY <2>3 DEF BankView!Next
  <1> QED
    BY <1>7, <1>8, <1>9, <1>10, RequestFields

\* Checks stay passed on accounts that do not change.
LEMMA PassedSame ==
    ASSUME NEW o \in Offices, NEW at, job[o] \in Requests, PlaceAt(o, at),
           at \in MovesPCs => job[o].type = "transfer",
           NEW v, NEW w, Passed(o, at, v),
           w[ADMIN].salt = v[ADMIN].salt, w[ADMIN].hash = v[ADMIN].hash,
           \A i \in Index : i \in Touches(job[o]) => w[i] = v[i]
    PROVE  Passed(o, at, w)
  <1>1. PICK r \in Requests : r = job[o]
    OBVIOUS
  <1>2. MAX_BANK_ACCOUNTS \notin Index
    BY BankAssumption DEF Index
  <1>3. AdminCode(w, r) = AdminCode(v, r)
    BY CodesSame
  <1>4. CASE at \in CreatePCs
    <2>1. at \notin KnownPCs /\ at \notin MovePCs /\ at # "login"
      BY <1>4 DEF CreatePCs, SetPCs, KnownPCs, MovePCs
    <2>2. at \in SetPCs => CreateCode(w, r) = CreateCode(v, r)
      <3>1. at \in SetPCs => r.acc \in Index /\ r.acc \in Touches(r)
        BY <1>1, <1>4 DEF PlaceAt, Touches
      <3> QED
        BY <1>1, <1>2, <3>1, CodesSame
    <2> QED
      BY <1>1, <1>3, <2>1, <2>2 DEF Passed
  <1>5. CASE at \in KnownPCs
    <2>1. at \notin CreatePCs /\ at \notin SetPCs
      BY <1>5 DEF CreatePCs, SetPCs, KnownPCs, MovePCs
    <2>2. r.id \in Index /\ r.id \in Touches(r)
      BY <1>1, <1>5 DEF PlaceAt, Touches, UserPCs
    <2>3. /\ UserIdCode(w, r) = UserIdCode(v, r) /\ UserCode(w, r) = UserCode(v, r)
          /\ FundsCode(w, r) = FundsCode(v, r) /\ w[r.id] = v[r.id]
      BY <1>1, <1>2, <2>2, CodesSame
    <2>4. at \in MovePCs => /\ DestCode(w, r) = DestCode(v, r)
                            /\ FloorCode(w, r) = FloorCode(v, r)
                            /\ RoomCode(w, r) = RoomCode(v, r)
      <3>1. at \in MovePCs => r.acc \in Index /\ r.acc \in Touches(r)
        BY <1>1 DEF PlaceAt, Touches, MovesPCs
      <3> QED
        BY <1>1, <1>2, <3>1, CodesSame
    <2> QED
      BY <1>1, <2>1, <2>3, <2>4 DEF Passed
  <1>6. CASE at \notin CreatePCs /\ at \notin KnownPCs
    BY <1>6 DEF Passed, CreatePCs, KnownPCs
  <1> QED
    BY <1>4, <1>5, <1>6

\* What the other offices have found out stays true.
LEMMA ApartFrame ==
    ASSUME TypeInv, TypeInv', OnceInv, OnceInv', Apart, NEW o \in Offices, Frame(o),
           Zeroed', Passed(o, pc[o], AccountsView)', Written(o, pc[o])'
    PROVE  Apart'
  <1>1. /\ job' = job /\ pc[o] # "idle" /\ pc'[o] # "idle"
        /\ \A p \in Offices : p # o => /\ pc'[p] = pc[p] /\ salt'[p] = salt[p]
                                       /\ reg'[p] = reg[p]
        /\ \A i \in Index : i \notin Touches(job[o]) => accounts'[i] = accounts[i]
    BY DEF Frame
  <1>2. Disjoint'
    <2>1. Busy' = Busy
      BY <1>1 DEF Busy
    <2>2. \A r : Touches(r)' = Touches(r)
      BY DEF Touches
    <2> QED
      BY <1>1, <2>1 DEF Apart, Disjoint, Touches
  <1>3. PICK v, w : v = AccountsView /\ w = AccountsView'
    OBVIOUS
  <1>4. w[ADMIN].salt = v[ADMIN].salt /\ w[ADMIN].hash = v[ADMIN].hash
    <2>1. v[ADMIN].salt = accounts[ADMIN].salt /\ v[ADMIN].hash = accounts[ADMIN].hash
      BY <1>3, ViewAdmin
    <2>2. (TypeInv /\ OnceInv => /\ AccountsView[ADMIN].salt = accounts[ADMIN].salt
                                 /\ AccountsView[ADMIN].hash = accounts[ADMIN].hash)'
      BY ViewAdmin, PTL
    <2>3. ADMIN' = ADMIN
      BY DEF ADMIN
    <2> QED
      BY <1>3, <2>1, <2>2, <2>3 DEF Frame
  <1>5. \A i \in Index : i \notin Touches(job[o]) => w[i] = v[i]
    BY <1>3, ViewOthers
  <1>6. ASSUME NEW p \in Offices, p # o, pc[p] # "idle"
        PROVE  /\ Passed(p, pc[p], AccountsView)' /\ Written(p, pc[p])'
    <2>1. \A i \in Index : i \in Touches(job[p]) => i \notin Touches(job[o])
      BY <1>1, <1>6 DEF Apart, Disjoint, Busy
    <2>2. /\ job[p] \in Requests /\ PlaceAt(p, pc[p]) /\ Passed(p, pc[p], v)
          /\ Written(p, pc[p])
          /\ pc[p] \in MovesPCs => job[p].type = "transfer"
      BY <1>3 DEF TypeInv, TypeOK, Places, OnceInv, Kind, Apart
    <2>3. Passed(p, pc[p], w)
      BY <1>4, <1>5, <2>1, <2>2, PassedSame
    <2>4. Passed(p, pc[p], AccountsView)'
      BY <1>1, <1>3, <1>6, <2>3 DEF Passed
    <2>5. Written(p, pc[p])'
      <3>1. pc[p] \in SetPCs => job[p].acc \in Index /\ job[p].acc \in Touches(job[p])
        BY <2>2 DEF PlaceAt, Touches, CreatePCs
      <3>2. pc[p] \in MovePCs => /\ job[p].acc \in Index /\ job[p].acc \in Touches(job[p])
                                 /\ job[p].id \in Index /\ job[p].id \in Touches(job[p])
        BY <2>2 DEF PlaceAt, Touches, MovesPCs, KnownPCs
      <3>3. /\ pc[p] \in SetPCs => accounts'[job[p].acc] = accounts[job[p].acc]
            /\ pc[p] \in MovePCs => /\ accounts'[job[p].acc] = accounts[job[p].acc]
                                    /\ accounts'[job[p].id] = accounts[job[p].id]
        BY <1>1, <2>1, <3>1, <3>2
      <3>4. /\ {"set_salt", "set_hash"} \subseteq SetPCs
            /\ {"debit_store", "credit_store"} \subseteq MovePCs
        BY DEF SetPCs, MovePCs
      <3> QED
        BY <1>1, <1>6, <2>2, <3>3, <3>4 DEF Written
    <2> QED
      BY <2>4, <2>5
  <1>7. ASSUME NEW p \in Offices, p # o, pc[p] = "idle"
        PROVE  /\ Passed(p, pc[p], AccountsView)' /\ Written(p, pc[p])'
    BY <1>1, <1>7 DEF Passed, Written, CreatePCs, KnownPCs, SetPCs, MovePCs
  <1> QED
    BY <1>2, <1>6, <1>7 DEF Apart

\* What a step of o has to show: the account of a new id is still untouched, o has
\* made the checks that its new place stands for, and the Bank takes a step or none.
Lands(o) ==
    /\ Zeroed' /\ Passed(o, pc[o], AccountsView)' /\ Written(o, pc[o])'
    /\ [BankView!Next]_(BankView!vars)

\* The request is refused, with the code that the Bank gives.
Refused(r, code, v) ==
    /\ InArray(v, r) /\ code # "OK"
    /\ \/ r.type = "create" /\ code = GrantCode(v, r)
       \/ r.type = "balance" /\ code = UserCode(v, r)
       \/ r.type = "transfer" /\ code = TransferCode(v, r)

\* A step that the Bank does not see.
LEMMA Unseen ==
    ASSUME NEW o \in Offices, AccountsView' = AccountsView, AnswersView' = AnswersView,
           Zeroed', Passed(o, pc[o], AccountsView)', Written(o, pc[o])'
    PROVE  Lands(o)
  BY DEF Lands, BankView!vars

\* A check: the office goes on unseen, or refuses the request.
LEMMA CheckedStep ==
    ASSUME TypeInv, TypeInv', OnceInv, Apart, NEW o \in Offices, Frame(o),
           NEW from \in {"admin", "user", "login", "create", "dest", "funds", "floor",
                         "room"},
           NEW next \in {"create", "salt", "balance", "transfer", "set_id", "funds",
                         "floor", "room", "debit"},
           NEW otherwise \in {"reply", "log"}, NEW code \in Codes,
           Checked(o, from, code, next, otherwise),
           NEW v, v = AccountsView,
           code = "OK" => Passed(o, next, v),
           otherwise = "log" => AdminCode(v, job[o]) = "OK",
           code # "OK" /\ (otherwise = "log" => job[o].acc \in Index) =>
              Refused(job[o], code, v)
    PROVE  Lands(o)
  <1>1. /\ pc[o] = from /\ pc'[o] = IF code = "OK" THEN next ELSE otherwise
        /\ reply'[o].ret_code = code
        /\ UNCHANGED <<job, accounts, salt, reg, begun, answers>>
    <2>1. next \in PCs /\ otherwise \in PCs /\ TypeOK
      BY DEF PCs, TypeInv
    <2> QED
      BY <2>1, Checks, ZenonT(40)
  <1>2. Zeroed'
    BY <1>1 DEF Apart, Zeroed
  <1>3. /\ ~Creating(o) /\ ~Debited(o) /\ ~Credited(o) /\ ~Decided(o)
        /\ ~Creating(o)' /\ ~Debited(o)' /\ ~Credited(o)'
        /\ Decided(o)' <=> code # "OK" /\ (otherwise = "log" => job[o].acc \in Index)
    BY <1>1 DEF Creating, Debited, Credited, Decided
  <1>4. AccountsView' = v
    BY <1>1, <1>3, ViewStill
  <1>5. PICK at : at = pc'[o]
    OBVIOUS
  <1>6. Passed(o, at, v)
    BY <1>1, <1>5 DEF Passed, CreatePCs, KnownPCs, SetPCs, MovePCs
  <1>7. Passed(o, pc[o], AccountsView)'
    BY <1>1, <1>4, <1>5, <1>6 DEF Passed
  <1>8. Written(o, pc[o])'
    BY <1>1 DEF Written, SetPCs
  <1>9. CASE ~Decided(o)'
    <2>1. AnswersView' = AnswersView
      BY <1>3, <1>9, AnswersStill
    <2> QED
      BY <1>2, <1>4, <1>7, <1>8, <2>1, Unseen
  <1>10. CASE Decided(o)'
    <2>1. Refused(job[o], code, v)
      BY <1>3, <1>10
    <2>2. BankDecides(job[o], reply'[o].ret_code, reply'[o].balance)
      BY <1>1, <1>4, <2>1 DEF Refused, BankDecides
    <2>3. BankView!Next
      BY <1>3, <1>10, <2>1, <2>2, BankStep DEF Refused
    <2> QED
      BY <1>2, <1>7, <1>8, <2>3 DEF Lands
  <1> QED
    BY <1>9, <1>10

\* An access outside of the array: the Bank does nothing.
LEMMA FaultStep ==
    ASSUME TypeInv, Apart, NEW o \in Offices, NEW from, from # "idle", Fault(o, from)
    PROVE  Lands(o)
  <1>1. UNCHANGED <<accounts, pc, job, reply, salt, reg, answers>>
    BY FrameFault
  <1>2. AccountsView' = AccountsView /\ AnswersView' = AnswersView
    BY <1>1 DEF AccountsView, Creating, Undone, Amounts, Debited, Credited, AnswersView, Decided
  <1>3. Zeroed' /\ Passed(o, pc[o], AccountsView)' /\ Written(o, pc[o])'
    BY <1>1, <1>2 DEF Apart, Zeroed, Passed, Written
  <1> QED
    BY <1>2, <1>3, Unseen

\* What the checks before mean for the code of the whole request.
LEMMA FirstFailure ==
    ASSUME NEW v, NEW r \in Requests
    PROVE  /\ AdminCode(v, r) # "OK" => GrantCode(v, r) = AdminCode(v, r)
           /\ AdminCode(v, r) = "OK" => GrantCode(v, r) = CreateCode(v, r)
           /\ UserIdCode(v, r) # "OK" => UserCode(v, r) = UserIdCode(v, r)
           /\ UserIdCode(v, r) = "OK" => UserCode(v, r) = LoginCode(v, r, v[r.id].salt)
           /\ UserCode(v, r) # "OK" => TransferCode(v, r) = UserCode(v, r)
           /\ UserCode(v, r) = "OK" =>
                /\ DestCode(v, r) # "OK" => TransferCode(v, r) = DestCode(v, r)
                /\ DestCode(v, r) = "OK" =>
                     /\ FundsCode(v, r) # "OK" => TransferCode(v, r) = FundsCode(v, r)
                     /\ FundsCode(v, r) = "OK" => TransferCode(v, r) = RoomCode(v, r)
           /\ FloorCode(v, r) # "OK" => RoomCode(v, r) = FloorCode(v, r)
           /\ FloorCode(v, r) = "OK" => RoomCode(v, r) = CeilingCode(v, r)
  BY DEF GrantCode, UserCode, TransferCode, RoomCode, Then

\* An office that has not written anything sees what the Bank shows.
LEMMA SeesView ==
    ASSUME TypeInv, OnceInv, Apart, NEW o \in Offices, pc[o] # "idle",
           ~Creating(o), ~Debited(o), NEW i \in Index, i \in Touches(job[o])
    PROVE  accounts[i] = AccountsView[i]
  BY ViewQuiet DEF ViewUnwritten, Busy, Apart

\* The checks on who asks.
LEMMA ApartValidates ==
    ASSUME TypeInv, TypeInv', OnceInv, Apart, NEW o \in Offices,
           ValidateAdmin(o) \/ ValidateUser(o) \/ Login(o)
    PROVE  Lands(o)
  <1>0. PICK v : v = AccountsView
    OBVIOUS
  <1>1. PICK r \in Requests : r = job[o]
    BY DEF TypeInv, TypeOK
  <1>2. Frame(o)
    BY WorkFrame DEF Work, Checking
  <1>3. PlaceAt(o, pc[o]) /\ Passed(o, pc[o], v) /\ Kind(o)
    BY <1>0 DEF TypeInv, Places, Apart, OnceInv
  <1>4. /\ AdminCode(accounts, r) \in Codes /\ UserIdCode(accounts, r) \in Codes
        /\ LoginCode(accounts, r, salt[o]) \in Codes
    BY CodesOfChecks
  <1>5. MAX_BANK_ACCOUNTS \notin Index
    BY BankAssumption DEF Index
  <1>6. CASE ValidateAdmin(o)
    <2>1. Checked(o, "admin", AdminCode(accounts, r), "create", "reply") /\ pc[o] = "admin"
      BY <1>1, <1>6 DEF ValidateAdmin, Checked, Go
    <2>2. AdminCode(accounts, r) = AdminCode(v, r)
      BY <1>0, ViewAdmin, CodesSame
    <2>3. r.type = "create"
      BY <1>1, <1>3, <2>1 DEF PlaceAt, CreatePCs
    <2>4. AdminCode(v, r) = "OK" => Passed(o, "create", v)
      BY <1>1 DEF Passed, CreatePCs, SetPCs, KnownPCs, MovePCs
    <2>5. AdminCode(v, r) # "OK" => Refused(r, AdminCode(v, r), v)
      BY <2>3, FirstFailure DEF Refused, InArray
    <2> QED
      BY <1>0, <1>1, <1>2, <1>4, <2>1, <2>2, <2>4, <2>5, CheckedStep
  <1>7. CASE ValidateUser(o) /\ r.id = MAX_BANK_ACCOUNTS
    <2>1. Fault(o, "user")
      BY <1>1, <1>7 DEF ValidateUser
    <2> QED
      BY <2>1, FaultStep
  <1>8. CASE ValidateUser(o) /\ r.id # MAX_BANK_ACCOUNTS
    <2>1. Checked(o, "user", UserIdCode(accounts, r), "salt", "reply") /\ pc[o] = "user"
      BY <1>1, <1>8 DEF ValidateUser, Checked, Go
    <2>2. r.type \in {"balance", "transfer"}
      BY <1>1, <1>3, <2>1 DEF PlaceAt, UserPCs
    <2>3. r.id \in Index => accounts[r.id] = v[r.id]
      BY <1>0, <1>1, <2>1, <2>2, SeesView DEF Touches, Creating, Debited
    <2>4. UserIdCode(accounts, r) = UserIdCode(v, r)
      BY <1>8, <2>3, CodesSame
    <2>5. UserIdCode(v, r) = "OK" => Passed(o, "salt", v)
      BY <1>1 DEF Passed, CreatePCs, SetPCs, KnownPCs, MovePCs
    <2>6. UserIdCode(v, r) # "OK" => Refused(r, UserIdCode(v, r), v)
      BY <1>8, <2>2, FirstFailure DEF Refused, InArray
    <2> QED
      BY <1>0, <1>1, <1>2, <1>4, <2>1, <2>4, <2>5, <2>6, CheckedStep
  <1>9. CASE Login(o)
    <2>1. Checked(o, "login", LoginCode(accounts, r, salt[o]), r.type, "reply") /\ pc[o] = "login"
      BY <1>1, <1>9 DEF Login, Checked, Go
    <2>2. r.type \in {"balance", "transfer"} /\ r.id \in Index
      BY <1>1, <1>3, <2>1 DEF PlaceAt, UserPCs, KnownPCs
    <2>3. accounts[r.id] = v[r.id]
      BY <1>0, <1>1, <2>1, <2>2, SeesView DEF Touches, Creating, Debited
    <2>4. UserIdCode(v, r) = "OK" /\ salt[o] = v[r.id].salt
      BY <1>1, <1>3, <2>1 DEF Passed, KnownPCs
    <2>5. LoginCode(accounts, r, salt[o]) = UserCode(v, r)
      BY <2>3, <2>4, CodesSame, FirstFailure
    <2>6. UserCode(v, r) = "OK" => Passed(o, r.type, v)
      BY <1>1, <2>2, <2>4 DEF Passed, CreatePCs, SetPCs, KnownPCs, MovePCs
    <2>7. UserCode(v, r) # "OK" => Refused(r, UserCode(v, r), v)
      BY <1>5, <2>2, FirstFailure DEF Refused, InArray
    <2> QED
      BY <1>0, <1>1, <1>2, <1>4, <2>1, <2>2, <2>5, <2>6, <2>7, CheckedStep
  <1> QED
    BY <1>6, <1>7, <1>8, <1>9

\* The checks on what is asked for.
LEMMA ApartChecks ==
    ASSUME TypeInv, TypeInv', OnceInv, Apart, NEW o \in Offices,
           \/ CheckCreate(o) \/ CheckDest(o) \/ CheckFunds(o)
           \/ CheckFloor(o) \/ CheckRoom(o)
    PROVE  Lands(o)
  <1>0. PICK v : v = AccountsView
    OBVIOUS
  <1>1. PICK r \in Requests : r = job[o]
    BY DEF TypeInv, TypeOK
  <1>2. Frame(o)
    BY WorkFrame DEF Work, Checking
  <1>3. PlaceAt(o, pc[o]) /\ Passed(o, pc[o], v) /\ Kind(o)
    BY <1>0 DEF TypeInv, Places, Apart, OnceInv
  <1>4. /\ CreateCode(accounts, r) \in Codes /\ DestCode(accounts, r) \in Codes
        /\ FundsCode(accounts, r) \in Codes /\ FloorCode(accounts, r) \in Codes
        /\ CeilingCode(accounts, r) \in Codes
    BY CodesOfChecks
  <1>5. MAX_BANK_ACCOUNTS \notin Index
    BY BankAssumption DEF Index
  <1>6. CASE CheckCreate(o) /\ r.acc = MAX_BANK_ACCOUNTS
    <2>1. Fault(o, "create")
      BY <1>1, <1>6 DEF CheckCreate
    <2> QED
      BY <2>1, FaultStep
  <1>7. CASE CheckCreate(o) /\ r.acc # MAX_BANK_ACCOUNTS
    <2>1. Checked(o, "create", CreateCode(accounts, r), "set_id", "log") /\ pc[o] = "create"
      BY <1>1, <1>7 DEF CheckCreate, Checked, Go
    <2>2. r.type = "create" /\ AdminCode(v, r) = "OK"
      BY <1>1, <1>3, <2>1 DEF PlaceAt, CreatePCs, Passed
    <2>3. r.acc \in Index => accounts[r.acc] = v[r.acc]
      BY <1>0, <1>1, <2>1, <2>2, SeesView DEF Touches, Creating, Debited
    <2>4. CreateCode(accounts, r) = CreateCode(v, r)
      BY <1>7, <2>3, CodesSame
    <2>5. CreateCode(v, r) = "OK" => Passed(o, "set_id", v)
      BY <1>1, <2>2 DEF Passed, CreatePCs, SetPCs, KnownPCs, MovePCs
    <2>6. CreateCode(v, r) # "OK" /\ r.acc \in Index => Refused(r, CreateCode(v, r), v)
      BY <2>2, FirstFailure DEF Refused, InArray
    <2> QED
      BY <1>0, <1>1, <1>2, <1>4, <2>1, <2>2, <2>4, <2>5, <2>6, CheckedStep
  <1>8. ASSUME pc[o] \in {"dest", "funds", "floor", "room"}
        PROVE  /\ r.type = "transfer" /\ r.id \in Index /\ r.acc \in Index
               /\ UserIdCode(v, r) = "OK" /\ UserCode(v, r) = "OK"
               /\ accounts[r.id] = v[r.id] /\ accounts[r.acc] = v[r.acc]
               /\ InArray(v, r)
    <2>1. /\ pc[o] \in MovesPCs /\ pc[o] \in MovePCs
          /\ pc[o] \in KnownPCs /\ pc[o] \in KnownPCs \ {"salt", "login"}
          /\ ~Creating(o) /\ ~Debited(o) /\ pc[o] # "idle"
      BY <1>8 DEF MovesPCs, MovePCs, KnownPCs, Creating, Debited
    <2>2. r.type = "transfer" /\ r.id \in Index /\ r.acc \in Index
      BY <1>1, <1>3, <2>1 DEF PlaceAt, Kind
    <2>3. UserIdCode(v, r) = "OK" /\ UserCode(v, r) = "OK"
      BY <1>1, <1>3, <2>1 DEF Passed
    <2>4. accounts[r.id] = v[r.id] /\ accounts[r.acc] = v[r.acc]
      BY <1>0, <1>1, <2>1, <2>2, SeesView DEF Touches
    <2> QED
      BY <1>5, <2>2, <2>3, <2>4 DEF InArray
  <1>9. CASE CheckDest(o)
    <2>1. Checked(o, "dest", DestCode(accounts, r), "funds", "reply") /\ pc[o] = "dest"
      BY <1>1, <1>9 DEF CheckDest, Checked, Go
    <2>2. DestCode(accounts, r) = DestCode(v, r)
      BY <1>5, <1>8, <2>1, CodesSame
    <2>3. DestCode(v, r) = "OK" => Passed(o, "funds", v)
      BY <1>1, <1>8, <2>1 DEF Passed, CreatePCs, SetPCs, KnownPCs, MovePCs
    <2>4. DestCode(v, r) # "OK" => Refused(r, DestCode(v, r), v)
      BY <1>8, <2>1, FirstFailure DEF Refused
    <2> QED
      BY <1>0, <1>1, <1>2, <1>4, <2>1, <2>2, <2>3, <2>4, CheckedStep
  <1>10. CASE CheckFunds(o)
    <2>1. Checked(o, "funds", FundsCode(accounts, r), "floor", "reply") /\ pc[o] = "funds"
      BY <1>1, <1>10 DEF CheckFunds, Checked, Go
    <2>2. FundsCode(accounts, r) = FundsCode(v, r) /\ DestCode(v, r) = "OK"
      BY <1>1, <1>3, <1>8, <2>1, CodesSame DEF Passed, MovePCs
    <2>3. FundsCode(v, r) = "OK" => Passed(o, "floor", v)
      BY <1>1, <1>8, <2>1, <2>2 DEF Passed, CreatePCs, SetPCs, KnownPCs, MovePCs
    <2>4. FundsCode(v, r) # "OK" => Refused(r, FundsCode(v, r), v)
      BY <1>8, <2>1, <2>2, FirstFailure DEF Refused
    <2> QED
      BY <1>0, <1>1, <1>2, <1>4, <2>1, <2>2, <2>3, <2>4, CheckedStep
  <1>11. CASE CheckFloor(o)
    <2>1. Checked(o, "floor", FloorCode(accounts, r), "room", "reply") /\ pc[o] = "floor"
      BY <1>1, <1>11 DEF CheckFloor, Checked, Go
    <2>2. /\ FloorCode(accounts, r) = FloorCode(v, r) /\ DestCode(v, r) = "OK"
          /\ FundsCode(v, r) = "OK"
      BY <1>1, <1>3, <1>8, <2>1, CodesSame DEF Passed, MovePCs
    <2>3. FloorCode(v, r) = "OK" => Passed(o, "room", v)
      BY <1>1, <1>8, <2>1, <2>2 DEF Passed, CreatePCs, SetPCs, KnownPCs, MovePCs
    <2>4. FloorCode(v, r) # "OK" => Refused(r, FloorCode(v, r), v)
      BY <1>8, <2>1, <2>2, FirstFailure DEF Refused
    <2> QED
      BY <1>0, <1>1, <1>2, <1>4, <2>1, <2>2, <2>3, <2>4, CheckedStep
  <1>12. CASE CheckRoom(o)
    <2>1. Checked(o, "room", CeilingCode(accounts, r), "debit", "reply") /\ pc[o] = "room"
      BY <1>1, <1>12 DEF CheckRoom, Checked, Go
    <2>2. /\ CeilingCode(accounts, r) = CeilingCode(v, r) /\ DestCode(v, r) = "OK"
          /\ FundsCode(v, r) = "OK" /\ FloorCode(v, r) = "OK"
      BY <1>1, <1>3, <1>8, <2>1, CodesSame DEF Passed, MovePCs
    <2>3. RoomCode(v, r) = CeilingCode(v, r)
      BY <2>2, FirstFailure
    <2>4. CeilingCode(v, r) = "OK" => Passed(o, "debit", v)
      BY <1>1, <1>8, <2>1, <2>2, <2>3 DEF Passed, CreatePCs, SetPCs, KnownPCs, MovePCs
    <2>5. CeilingCode(v, r) # "OK" => Refused(r, CeilingCode(v, r), v)
      BY <1>8, <2>1, <2>2, <2>3, FirstFailure DEF Refused
    <2> QED
      BY <1>0, <1>1, <1>2, <1>4, <2>1, <2>2, <2>4, <2>5, CheckedStep
  <1> QED
    BY <1>6, <1>7, <1>9, <1>10, <1>11, <1>12

\* A step that only reads, and that decides nothing.
LEMMA QuietStep ==
    ASSUME TypeInv, TypeInv', Apart, NEW o \in Offices, Frame(o),
           NEW from, NEW to, Go(o, from, to), accounts' = accounts,
           from \in {"credit", "credit_store"} <=> to \in {"credit", "credit_store"},
           {from, to} \cap {"set_balance", "set_salt", "set_hash", "result"} = {},
           from \in {"log", "reply"} =>
              from = "log" /\ to = "reply" /\ job[o].acc \in Index /\ reply' = reply,
           to \in {"log", "reply"} => from = "log",
           NEW v, v = AccountsView, Passed(o, to, v)', Written(o, to)'
    PROVE  Lands(o)
  <1>1. pc[o] = from /\ pc'[o] = to /\ job' = job
    BY DEF Go, begin, TypeInv, TypeOK
  <1>2. /\ Creating(o)' <=> Creating(o)
        /\ Debited(o)' <=> Debited(o)
        /\ Credited(o)' <=> Credited(o)
    BY <1>1 DEF Creating, Debited, Credited
  <1>3. AccountsView' = v
    BY <1>2, ViewStill
  <1>4. (Decided(o)' <=> Decided(o)) /\ (Decided(o) => reply'[o] = reply[o])
    BY <1>1 DEF Decided
  <1>5. AnswersView' = AnswersView
    BY <1>4, AnswersStill
  <1>6. Zeroed'
    BY DEF Apart, Zeroed
  <1>7. Passed(o, pc[o], AccountsView)' /\ Written(o, pc[o])'
    BY <1>1, <1>3 DEF Passed, Written
  <1> QED
    BY <1>3, <1>5, <1>6, <1>7, Unseen

\* The steps that read an account, or nothing.
LEMMA ApartReads ==
    ASSUME TypeInv, TypeInv', OnceInv, Apart, NEW o \in Offices,
           \/ ReadSalt(o) \/ NoOperation(o) \/ CheckBalance(o) \/ LogCreation(o)
           \/ EchoDest(o) \/ DebitLoad(o) \/ CreditLoad(o)
    PROVE  Lands(o)
  <1>0. PICK v : v = AccountsView
    OBVIOUS
  <1>1. PICK r \in Requests : r = job[o]
    BY DEF TypeInv, TypeOK
  <1>2. Frame(o) /\ job' = job
    BY WorkFrame DEF Work, Reading, Frame
  <1>3. PlaceAt(o, pc[o]) /\ Passed(o, pc[o], v) /\ Kind(o)
    BY <1>0 DEF TypeInv, Places, Apart, OnceInv
  <1>4. MAX_BANK_ACCOUNTS \notin Index
    BY BankAssumption DEF Index
  <1>5. CASE ReadSalt(o)
    <2>1. /\ Go(o, "salt", "login") /\ pc[o] = "salt" /\ accounts' = accounts
          /\ salt'[o] = accounts[r.id].salt
      BY <1>1, <1>5 DEF ReadSalt, shared, Go, TypeInv, TypeOK
    <2>2. /\ r.type \in {"balance", "transfer"} /\ r.id \in Index
          /\ UserIdCode(v, r) = "OK"
      BY <1>1, <1>3, <2>1 DEF PlaceAt, UserPCs, KnownPCs, Passed
    <2>3. accounts[r.id] = v[r.id]
      BY <1>0, <1>1, <2>1, <2>2, SeesView DEF Touches, Creating, Debited
    <2>4. Passed(o, "login", v)' /\ Written(o, "login")'
      BY <1>1, <1>2, <2>1, <2>2, <2>3 DEF Passed, Written, CreatePCs, SetPCs, KnownPCs, MovePCs
    <2>5. PICK from, to : from = "salt" /\ to = "login"
      OBVIOUS
    <2>6. /\ from \in {"credit", "credit_store"} <=> to \in {"credit", "credit_store"}
          /\ {from, to} \cap {"set_balance", "set_salt", "set_hash", "result"} = {}
          /\ from \notin {"log", "reply"} /\ to \notin {"log", "reply"}
      BY <2>5
    <2> QED
      BY <1>0, <1>2, <2>1, <2>4, <2>5, <2>6, QuietStep
  <1>6. CASE NoOperation(o)
    <2>1. PICK code \in Codes \ {UNSET} : reply' = [reply EXCEPT ![o].ret_code = code]
      BY <1>6 DEF NoOperation
    <2>2. /\ pc[o] = "other" /\ pc'[o] = "reply" /\ accounts' = accounts
          /\ reply'[o].ret_code = code
      <3>1. /\ pc[o] = "other" /\ pc' = [pc EXCEPT ![o] = "reply"] /\ accounts' = accounts
        BY <1>6 DEF NoOperation, shared, Go
      <3>2. reply'[o].ret_code = code
        BY <2>1 DEF TypeInv, TypeOK
      <3> QED
        BY <3>1, <3>2 DEF TypeInv, TypeOK
    <2>3. /\ ~Creating(o) /\ ~Debited(o) /\ ~Credited(o) /\ ~Decided(o)
          /\ ~Creating(o)' /\ ~Debited(o)' /\ ~Credited(o)' /\ Decided(o)'
      BY <2>2 DEF Creating, Debited, Credited, Decided
    <2>4. AccountsView' = v
      BY <1>0, <1>2, <2>2, <2>3, ViewStill
    <2>5. r.type = "other"
      BY <1>1, <1>3, <2>2 DEF PlaceAt
    <2>6. /\ BankDecides(job[o], reply'[o].ret_code, reply'[o].balance)
          /\ InArray(AccountsView, job[o])
      BY <1>0, <1>1, <2>2, <2>4, <2>5 DEF BankDecides, InArray
    <2>7. BankView!Next
      BY <1>2, <2>3, <2>6, BankStep
    <2>8. Zeroed'
      BY <2>2 DEF Apart, Zeroed
    <2>9. Passed(o, pc[o], AccountsView)' /\ Written(o, pc[o])'
      BY <2>2 DEF Passed, Written, CreatePCs, SetPCs, KnownPCs, MovePCs
    <2> QED
      BY <2>7, <2>8, <2>9 DEF Lands
  <1>7. CASE CheckBalance(o)
    <2>1. /\ pc[o] = "balance" /\ pc'[o] = "reply" /\ accounts' = accounts
          /\ reply'[o].balance = accounts[r.id].balance
          /\ reply'[o].ret_code = reply[o].ret_code
      BY <1>1, <1>7 DEF CheckBalance, shared, Go, TypeInv, TypeOK
    <2>2. /\ ~Creating(o) /\ ~Debited(o) /\ ~Credited(o) /\ ~Decided(o)
          /\ ~Creating(o)' /\ ~Debited(o)' /\ ~Credited(o)' /\ Decided(o)'
      BY <2>1 DEF Creating, Debited, Credited, Decided
    <2>3. AccountsView' = v
      BY <1>0, <1>2, <2>1, <2>2, ViewStill
    <2>4. /\ r.type = "balance" /\ r.id \in Index /\ UserCode(v, r) = "OK"
          /\ reply'[o].ret_code = "OK"
      BY <1>1, <1>3, <2>1 DEF PlaceAt, Kind, Passed, KnownPCs, OKPCs
    <2>5. accounts[r.id] = v[r.id]
      BY <1>0, <1>1, <2>1, <2>2, <2>4, SeesView DEF Touches
    <2>6. /\ BankDecides(job[o], reply'[o].ret_code, reply'[o].balance)
          /\ InArray(AccountsView, job[o])
      BY <1>0, <1>1, <1>4, <2>1, <2>3, <2>4, <2>5 DEF BankDecides, InArray
    <2>7. BankView!Next
      BY <1>2, <2>2, <2>6, BankStep
    <2>8. Zeroed'
      BY <2>1 DEF Apart, Zeroed
    <2>9. Passed(o, pc[o], AccountsView)' /\ Written(o, pc[o])'
      BY <2>1 DEF Passed, Written, CreatePCs, SetPCs, KnownPCs, MovePCs
    <2> QED
      BY <2>7, <2>8, <2>9 DEF Lands
  <1>8. CASE LogCreation(o)
    <2>1. CASE r.acc \notin Index
      BY <1>1, <1>8, <2>1, FaultStep DEF LogCreation
    <2>2. CASE r.acc \in Index
      <3>1. /\ Go(o, "log", "reply") /\ UNCHANGED <<accounts, reply>>
        BY <1>1, <1>8, <2>2 DEF LogCreation, local
      <3>2. Passed(o, "reply", v)' /\ Written(o, "reply")'
        BY DEF Passed, Written, CreatePCs, SetPCs, KnownPCs, MovePCs
      <3> QED
        BY <1>0, <1>1, <1>2, <2>2, <3>1, <3>2, QuietStep
    <2> QED
      BY <2>1, <2>2
  <1>9. CASE EchoDest(o)
    <2>1. CASE r.acc \notin Index
      BY <1>1, <1>9, <2>1, FaultStep DEF EchoDest
    <2>2. CASE r.acc \in Index
      <3>1. Go(o, "transfer", "dest") /\ pc[o] = "transfer" /\ accounts' = accounts
        BY <1>1, <1>9, <2>2 DEF EchoDest, shared, Go
      <3>2. UserIdCode(v, r) = "OK" /\ UserCode(v, r) = "OK"
        BY <1>1, <1>3, <3>1 DEF Passed, KnownPCs
      <3>3. Passed(o, "dest", v)' /\ Written(o, "dest")'
        BY <1>1, <1>2, <3>2 DEF Passed, Written, CreatePCs, SetPCs, KnownPCs, MovePCs
      <3> QED
        BY <1>0, <1>2, <3>1, <3>3, QuietStep
    <2> QED
      BY <2>1, <2>2
  <1>10. CASE DebitLoad(o)
    <2>1. /\ Go(o, "debit", "debit_store") /\ pc[o] = "debit"
          /\ accounts' = accounts /\ salt' = salt /\ reg'[o] = accounts[r.id].balance
      BY <1>1, <1>10 DEF DebitLoad, Load, shared, Go, TypeInv, TypeOK
    <2>2. Passed(o, "debit_store", v)'
      BY <1>1, <1>2, <1>3, <2>1 DEF Passed, CreatePCs, SetPCs, KnownPCs, MovePCs
    <2>3. Written(o, "debit_store")'
      BY <1>1, <1>2, <2>1 DEF Written, SetPCs
    <2> QED
      BY <1>0, <1>2, <2>1, <2>2, <2>3, QuietStep
  <1>11. CASE CreditLoad(o)
    <2>1. /\ Go(o, "credit", "credit_store") /\ pc[o] = "credit"
          /\ accounts' = accounts /\ salt' = salt /\ reg'[o] = accounts[r.acc].balance
      BY <1>1, <1>11 DEF CreditLoad, Load, shared, Go, TypeInv, TypeOK
    <2>2. Passed(o, "credit_store", v)'
      BY <1>1, <1>2, <1>3, <2>1 DEF Passed, CreatePCs, SetPCs, KnownPCs, MovePCs
    <2>3. Written(o, "credit_store")'
      BY <1>1, <1>2, <2>1 DEF Written, SetPCs
    <2> QED
      BY <1>0, <1>2, <2>1, <2>2, <2>3, QuietStep
  <1> QED
    BY <1>5, <1>6, <1>7, <1>8, <1>9, <1>10, <1>11

\* An office stays apart from the others as long as it works on the same request.
LEMMA DisjointFrame ==
    ASSUME Disjoint, NEW o \in Offices, Frame(o)
    PROVE  Disjoint' /\ o \in Busy /\ o \in Busy' /\ Touches(job[o])' = Touches(job[o])
  <1>1. Busy' = Busy /\ o \in Busy
    BY DEF Busy, Frame
  <1>2. job' = job
    BY DEF Frame
  <1> QED
    BY <1>1, <1>2 DEF Disjoint, Touches

\* What the Bank shows after a step of an account that the office works on.
LEMMA ViewNext ==
    ASSUME TypeInv', OnceInv', Disjoint, NEW o \in Offices, Frame(o),
           NEW i \in Index, i \in Touches(job[o])
    PROVE  /\ AccountsView'[i] =
                IF Creating(o)' THEN NoAccount
                ELSE [accounts'[i] EXCEPT !.balance = (@ + Due(o, i)') % Word]
           /\ ~Creating(o)' /\ ~Debited(o)' => AccountsView'[i] = accounts'[i]
  <1>1. Disjoint' /\ o \in Busy' /\ Touches(job[o])' = Touches(job[o])
    BY DisjointFrame
  <1>2. (TypeInv /\ OnceInv /\ Disjoint => ViewAtWork)'
    BY ViewAt, PTL
  <1>3. (TypeInv /\ OnceInv /\ Disjoint => ViewUnwritten)'
    BY ViewQuiet, PTL
  <1>4. Index' = Index
    BY DEF Index
  <1>5. AccountsView'[i] = IF Creating(o)' THEN NoAccount
                           ELSE [accounts'[i] EXCEPT !.balance = (@ + Due(o, i)') % Word]
    BY <1>1, <1>2, <1>4 DEF ViewAtWork
  <1>6. ~Creating(o)' /\ ~Debited(o)' => AccountsView'[i] = accounts'[i]
    BY <1>1, <1>3, <1>4 DEF ViewUnwritten
  <1> QED
    BY <1>5, <1>6

\* The Bank's view changes only on the accounts that the office works on.
LEMMA ViewEqual ==
    ASSUME TypeInv, TypeInv', OnceInv, OnceInv', NEW o \in Offices, Frame(o),
           \A i \in Index : i \in Touches(job[o]) => AccountsView'[i] = AccountsView[i]
    PROVE  AccountsView' = AccountsView
  <1>1. \A i \in Index : AccountsView'[i] = AccountsView[i]
    BY ViewOthers
  <1> QED
    BY <1>1, SameView

\* The fields of a new account before the last one: the Bank shows none of them.
LEMMA ApartFields ==
    ASSUME TypeInv, TypeInv', OnceInv, OnceInv', Apart, NEW o \in Offices,
           SetId(o) \/ SetBalance(o) \/ SetSalt(o)
    PROVE  Lands(o)
  <1>0. PICK v : v = AccountsView
    OBVIOUS
  <1>1. PICK r \in Requests : r = job[o]
    BY DEF TypeInv, TypeOK
  <1>2. Frame(o) /\ job' = job
    BY WorkFrame DEF Work, Creation, Frame
  <1>3. /\ PlaceAt(o, pc[o]) /\ Passed(o, pc[o], v) /\ Written(o, pc[o])
        /\ Zeroed /\ Disjoint
    BY <1>0 DEF TypeInv, Places, Apart
  <1>4. /\ r.acc \in Index \ {ADMIN} /\ Target(o) = accounts[r.acc]
        /\ \A i \in Index : i # r.acc => accounts'[i] = accounts[i]
    BY <1>1, FieldWrites DEF Target
  <1>5. accounts \in [Index -> AccountType] /\ accounts[r.acc] \in AccountType
    BY <1>4 DEF TypeInv, TypeOK
  <1>6. ASSUME NEW from \in SetPCs, NEW to \in SetPCs \ {"set_id"}, Go(o, from, to),
               v[r.acc] = NoAccount, accounts'[r.acc].account_id = r.acc, Written(o, to)'
        PROVE  Lands(o)
    <2>1. pc[o] = from /\ pc'[o] = to
      BY <1>6 DEF Go, TypeInv, TypeOK
    <2>2. Creating(o)' /\ ~Decided(o) /\ ~Decided(o)'
      BY <1>6, <2>1 DEF Creating, Decided, SetPCs
    <2>3. Touches(r) = {r.acc}
      BY <1>1, <1>3, <1>6, <2>1 DEF PlaceAt, CreatePCs, Touches
    <2>4. AccountsView'[r.acc] = NoAccount
      BY <1>1, <1>2, <1>3, <1>4, <2>2, <2>3, ViewNext
    <2>5. AccountsView' = v
      BY <1>0, <1>1, <1>2, <1>6, <2>3, <2>4, ViewEqual
    <2>6. AnswersView' = AnswersView
      BY <1>2, <2>2, AnswersStill
    <2>7. Zeroed'
      BY <1>3, <1>4, <1>6 DEF Zeroed
    <2>8. AdminCode(v, r) = "OK" /\ CreateCode(v, r) = "OK"
      BY <1>1, <1>3, <1>6, <2>1 DEF Passed, CreatePCs, SetPCs
    <2>9. Passed(o, pc[o], AccountsView)'
      BY <1>1, <1>2, <1>6, <2>1, <2>5, <2>8 DEF Passed, SetPCs, KnownPCs, MovePCs
    <2>10. Written(o, pc[o])'
      BY <1>6, <2>1 DEF Written
    <2> QED
      BY <1>0, <2>5, <2>6, <2>7, <2>9, <2>10, Unseen
  <1>7. Creating(o) => v[r.acc] = NoAccount
    <2>1. Creating(o) => o \in Busy /\ r.acc \in Touches(r)
      BY <1>1, AtWork
    <2> QED
      BY <1>0, <1>1, <1>3, <1>4, <2>1, ViewAt DEF ViewAtWork
  <1>8. CASE SetId(o)
    <2>1. /\ Go(o, "set_id", "set_balance") /\ pc[o] = "set_id"
          /\ accounts' = [accounts EXCEPT ![r.acc] = [accounts[r.acc] EXCEPT
                              !.account_id = r.acc]]
      BY <1>1, <1>4, <1>8 DEF SetId, SetField, Go
    <2>2. accounts'[r.acc].account_id = r.acc
      BY <1>4, <1>5, <2>1 DEF AccountType
    <2>3. accounts[r.acc] = v[r.acc]
      <3>1. r.acc \in Touches(r)
        BY <1>1, <1>3, <2>1 DEF PlaceAt, CreatePCs, SetPCs, Touches
      <3> QED
        BY <1>0, <1>1, <1>4, <2>1, <3>1, SeesView DEF Creating, Debited
    <2>4. v[r.acc] = NoAccount
      <3>1. CreateCode(v, r) = "OK"
        BY <1>1, <1>3, <2>1 DEF Passed, SetPCs
      <3>2. v[r.acc].account_id # r.acc
        BY <3>1 DEF CreateCode
      <3> QED
        BY <1>3, <1>4, <2>3, <3>2 DEF Zeroed
    <2>5. Written(o, "set_balance")'
      BY <1>1, <1>2, <2>2 DEF Written
    <2> QED
      BY <1>6, <2>1, <2>2, <2>4, <2>5 DEF SetPCs
  <1>9. CASE SetBalance(o)
    <2>1. /\ Go(o, "set_balance", "set_salt") /\ pc[o] = "set_balance"
          /\ accounts' = [accounts EXCEPT ![r.acc] = [accounts[r.acc] EXCEPT
                              !.balance = r.amount]]
      BY <1>1, <1>4, <1>9 DEF SetBalance, SetField, Go
    <2>2. accounts[r.acc].account_id = r.acc
      BY <1>1, <1>3, <2>1 DEF Written, SetPCs
    <2>3. accounts'[r.acc].account_id = r.acc /\ accounts'[r.acc].balance = r.amount
      BY <1>4, <1>5, <2>1, <2>2 DEF AccountType
    <2>4. Written(o, "set_salt")'
      BY <1>1, <1>2, <2>3 DEF Written
    <2> QED
      BY <1>6, <1>7, <2>1, <2>3, <2>4 DEF SetPCs, Creating
  <1>10. CASE SetSalt(o)
    <2>1. PICK s \in Salts :
            /\ Go(o, "set_salt", "set_hash") /\ pc[o] = "set_salt"
            /\ accounts' = [accounts EXCEPT ![r.acc] = [accounts[r.acc] EXCEPT !.salt = s]]
            /\ salt' = [salt EXCEPT ![o] = s]
      BY <1>1, <1>4, <1>10 DEF SetSalt, SetField, Go
    <2>2. accounts[r.acc].account_id = r.acc /\ accounts[r.acc].balance = r.amount
      BY <1>1, <1>3, <2>1 DEF Written, SetPCs
    <2>3. /\ accounts'[r.acc].account_id = r.acc /\ accounts'[r.acc].balance = r.amount
          /\ accounts'[r.acc].salt = s
      BY <1>4, <1>5, <2>1, <2>2 DEF AccountType
    <2>4. salt'[o] = s
      BY <2>1 DEF TypeInv, TypeOK
    <2>5. Written(o, "set_hash")'
      BY <1>1, <1>2, <2>3, <2>4 DEF Written
    <2> QED
      BY <1>6, <1>7, <2>1, <2>3, <2>5 DEF SetPCs, Creating
  <1> QED
    BY <1>8, <1>9, <1>10

\* The last one: the account is there.
LEMMA ApartCreated ==
    ASSUME TypeInv, TypeInv', OnceInv, OnceInv', Apart, NEW o \in Offices, SetHash(o)
    PROVE  Lands(o)
  <1>0. PICK v, w : v = AccountsView /\ w = AccountsView'
    OBVIOUS
  <1>1. PICK r \in Requests : r = job[o]
    BY DEF TypeInv, TypeOK
  <1>2. Frame(o) /\ job' = job
    BY WorkFrame DEF Work, Creation, Frame
  <1>3. /\ PlaceAt(o, pc[o]) /\ Passed(o, pc[o], v) /\ Written(o, pc[o]) /\ Kind(o)
        /\ Zeroed /\ Disjoint
    BY <1>0 DEF TypeInv, Places, Apart, OnceInv
  <1>4. PICK s, h : s = salt[o] /\ h = Hash(Unquoted(r.newpass), s)
    OBVIOUS
  <1>5. /\ pc[o] = "set_hash" /\ pc'[o] = "reply" /\ reply' = reply
        /\ accounts' = [accounts EXCEPT ![r.acc] = [accounts[r.acc] EXCEPT !.hash = h]]
    BY <1>1, <1>4 DEF SetHash, SetField, Go, Target, TypeInv, TypeOK
  <1>6. /\ r.type = "create" /\ r.acc \in Index \ {ADMIN} /\ s \in Salts
        /\ AdminCode(v, r) = "OK" /\ CreateCode(v, r) = "OK"
        /\ accounts[r.acc].account_id = r.acc /\ accounts[r.acc].balance = r.amount
        /\ accounts[r.acc].salt = s /\ reply[o].ret_code = "OK"
    BY <1>1, <1>3, <1>4, <1>5 DEF PlaceAt, CreatePCs, SetPCs, Passed, Written, Kind, OKPCs
  <1>7. accounts \in [Index -> AccountType] /\ accounts[r.acc] \in AccountType
    BY <1>6 DEF TypeInv, TypeOK
  <1>8. accounts'[r.acc] = Account(r.acc, r.amount, Unquoted(r.newpass), s)
    <2>1. accounts'[r.acc] = [accounts[r.acc] EXCEPT !.hash = h]
      BY <1>5, <1>6, <1>7
    <2>2. accounts[r.acc] = [account_id |-> r.acc, balance |-> r.amount, salt |-> s,
                             hash |-> accounts[r.acc].hash]
      BY <1>6, <1>7 DEF AccountType
    <2> QED
      BY <1>4, <2>1, <2>2 DEF Account
  <1>9. /\ ~Decided(o) /\ Decided(o)' /\ ~Creating(o)' /\ ~Debited(o)'
        /\ Touches(r) = {r.acc}
    BY <1>5, <1>6 DEF Decided, Creating, Debited, Touches
  <1>10. w[r.acc] = accounts'[r.acc]
    BY <1>0, <1>1, <1>2, <1>3, <1>6, <1>9, ViewNext
  <1>11. \A i \in Index : i # r.acc => w[i] = v[i]
    BY <1>0, <1>1, <1>2, <1>9, ViewOthers
  <1>12. w = [v EXCEPT ![r.acc] = Account(r.acc, r.amount, Unquoted(r.newpass), s)]
    <2>1. v \in [Index -> AccountType]
      BY <1>0, ViewOf
    <2>2. w = [i \in Index |-> w[i]]
      BY <1>0 DEF AccountsView
    <2> QED
      BY <1>6, <1>8, <1>10, <1>11, <2>1, <2>2
  <1>13. /\ BankDecides(job[o], reply'[o].ret_code, reply'[o].balance)
         /\ InArray(AccountsView, job[o])
    <2>1. GrantCode(v, r) = "OK"
      BY <1>6, FirstFailure
    <2> QED
      BY <1>0, <1>1, <1>5, <1>6, <1>12, <2>1 DEF BankDecides, InArray
  <1>14. BankView!Next
    BY <1>2, <1>9, <1>13, BankStep
  <1>15. Zeroed'
    <2>1. accounts'[r.acc].account_id = r.acc
      BY <1>8 DEF Account
    <2>2. \A i \in Index : i # r.acc => accounts'[i] = accounts[i]
      BY <1>1, FieldWrites
    <2> QED
      BY <1>3, <2>1, <2>2 DEF Zeroed
  <1>16. Passed(o, pc[o], AccountsView)' /\ Written(o, pc[o])'
    BY <1>5 DEF Passed, Written, CreatePCs, SetPCs, KnownPCs, MovePCs
  <1> QED
    BY <1>14, <1>15, <1>16 DEF Lands

\* An account with another balance.
LEMMA Shifted ==
    ASSUME NEW a \in AccountType, NEW d \in Int,
           NEW b, b = [a EXCEPT !.balance = (@ + d) % Word]
    PROVE  /\ b \in AccountType /\ b.account_id = a.account_id /\ b.salt = a.salt
           /\ b.hash = a.hash /\ b.balance = (a.balance + d) % Word
  <1>0. Word \in Nat \ {0}
    BY BankAssumption
  <1>1. a.balance \in 0 .. Word - 1 /\ Word \in Nat \ {0}
    BY <1>0 DEF AccountType
  <1>2. PICK x : x = (a.balance + d) % Word
    OBVIOUS
  <1>3. x \in 0 .. Word - 1
    <2>1. a.balance + d \in Int
      BY <1>1
    <2> QED
      BY <1>1, <1>2, <2>1
  <1>4. b = [a EXCEPT !.balance = x]
    BY <1>2
  <1> QED
    BY <1>2, <1>3, <1>4, WithBalance

\* An account is its fields.
LEMMA SameAccount ==
    ASSUME NEW a \in AccountType, NEW b \in AccountType, a.account_id = b.account_id,
           a.balance = b.balance, a.salt = b.salt, a.hash = b.hash
    PROVE  a = b
  <1>1. a = [account_id |-> a.account_id, balance |-> a.balance, salt |-> a.salt,
             hash |-> a.hash]
    BY DEF AccountType
  <1>2. b = [account_id |-> b.account_id, balance |-> b.balance, salt |-> b.salt,
             hash |-> b.hash]
    BY DEF AccountType
  <1> QED
    BY <1>1, <1>2

\* The requests that move money, and the accounts as the Bank shows them before
\* and after a step.
LEMMA MoveViews ==
    ASSUME TypeInv, TypeInv', OnceInv, OnceInv', Apart, NEW o \in Offices, Frame(o),
           pc[o] \in {"debit_store", "credit_store", "result"}, ~Creating(o)',
           NEW r, r = job[o]
    PROVE  /\ r \in Requests /\ r.type = "transfer" /\ r.id \in Index \ {ADMIN}
           /\ r.acc \in Index /\ Touches(r) = {r.id, r.acc}
           /\ \A i \in Touches(r) :
                /\ accounts[i] \in AccountType /\ accounts'[i] \in AccountType
                /\ Due(o, i) \in Int /\ Due(o, i)' \in Int
                /\ AccountsView[i] = [accounts[i] EXCEPT !.balance = (@ + Due(o, i)) % Word]
                /\ AccountsView'[i] = [accounts'[i] EXCEPT
                                          !.balance = (@ + Due(o, i)') % Word]
  <1>1. /\ pc[o] \in MovesPCs /\ pc[o] \in KnownPCs /\ pc[o] \in MovePCs
        /\ ~Creating(o) /\ o \in Busy
    BY DEF MovesPCs, KnownPCs, MovePCs, Creating, Busy
  <1>2. PlaceAt(o, pc[o]) /\ Kind(o) /\ r \in Requests
    BY DEF TypeInv, TypeOK, Places, OnceInv
  <1>3. r.type = "transfer" /\ r.id \in Index \ {ADMIN} /\ r.acc \in Index
    BY <1>1, <1>2 DEF PlaceAt, Kind
  <1>4. Touches(r) = {r.id, r.acc} /\ Touches(r) \subseteq Index
    BY <1>3 DEF Touches
  <1>5. job' = job /\ r.amount \in Int
    BY <1>2, RequestFields DEF Frame
  <1>6. ASSUME NEW i \in Touches(r)
        PROVE  /\ accounts[i] \in AccountType /\ accounts'[i] \in AccountType
               /\ Due(o, i) \in Int /\ Due(o, i)' \in Int
    <2>1. i \in Index
      BY <1>4
    <2>2. accounts[i] \in AccountType /\ accounts'[i] \in AccountType
      BY <2>1 DEF TypeInv, TypeOK
    <2>3. Due(o, i) \in Int
      BY <1>5 DEF Due
    <2>4. Due(o, i)' \in Int
      BY <1>5 DEF Due
    <2> QED
      BY <2>2, <2>3, <2>4
  <1>7. ASSUME NEW i \in Touches(r)
        PROVE  /\ AccountsView[i] = [accounts[i] EXCEPT !.balance = (@ + Due(o, i)) % Word]
               /\ AccountsView'[i] = [accounts'[i] EXCEPT
                                         !.balance = (@ + Due(o, i)') % Word]
    <2>1. i \in Index /\ i \in Touches(job[o])
      BY <1>4
    <2>2. AccountsView[i] = [accounts[i] EXCEPT !.balance = (@ + Due(o, i)) % Word]
      BY <1>1, <2>1, ViewAt DEF ViewAtWork, Apart
    <2>3. AccountsView'[i] = [accounts'[i] EXCEPT !.balance = (@ + Due(o, i)') % Word]
      BY <2>1, ViewNext DEF Apart
    <2> QED
      BY <2>2, <2>3
  <1> QED
    BY <1>2, <1>3, <1>4, <1>6, <1>7

\* A debit and a credit: the Bank shows the accounts without them.
LEMMA ApartStores ==
    ASSUME TypeInv, TypeInv', OnceInv, OnceInv', Apart, NEW o \in Offices,
           DebitStore(o) \/ CreditStore(o)
    PROVE  Lands(o)
  <1>0. PICK v, w : v = AccountsView /\ w = AccountsView'
    OBVIOUS
  <1>1. PICK r : r = job[o]
    OBVIOUS
  <1>2. Frame(o) /\ job' = job
    BY WorkFrame DEF Work, Storing, Frame
  <1>3. /\ pc[o] \in {"debit_store", "credit_store"}
        /\ pc[o] = "debit_store" => pc'[o] = "credit"
        /\ pc[o] = "credit_store" => pc'[o] = "result"
        /\ UNCHANGED <<reply, salt, reg>>
    BY DEF DebitStore, CreditStore, Store, Go, local, TypeInv, TypeOK
  <1>4. ~Creating(o)' /\ ~Decided(o) /\ ~Decided(o)'
    BY <1>3 DEF Creating, Decided
  <1>5. /\ r \in Requests /\ r.type = "transfer" /\ r.id \in Index \ {ADMIN}
        /\ r.acc \in Index /\ Touches(r) = {r.id, r.acc}
        /\ \A i \in Touches(r) :
             /\ accounts[i] \in AccountType /\ accounts'[i] \in AccountType
             /\ Due(o, i) \in Int /\ Due(o, i)' \in Int
             /\ v[i] = [accounts[i] EXCEPT !.balance = (@ + Due(o, i)) % Word]
             /\ w[i] = [accounts'[i] EXCEPT !.balance = (@ + Due(o, i)') % Word]
    BY <1>0, <1>1, <1>2, <1>3, <1>4, MoveViews
  <1>6. /\ Passed(o, pc[o], v) /\ Written(o, pc[o]) /\ Zeroed
    BY <1>0 DEF Apart
  <1>7. /\ \A i \in Index : /\ accounts'[i].account_id = accounts[i].account_id
                            /\ accounts'[i].salt = accounts[i].salt
                            /\ accounts'[i].hash = accounts[i].hash
        /\ r.amount \in 0 .. Word - 1 /\ Word \in Nat
    BY <1>5, Stores, RequestFields, BankAssumption
  <1>8. PICK a \in 0 .. Word - 1 : a = r.amount
    BY <1>7
  <1>9. ASSUME NEW i \in Touches(r)
        PROVE  (accounts'[i].balance + Due(o, i)') % Word = (accounts[i].balance + Due(o, i)) % Word
    <2>1. PICK x \in 0 .. Word - 1, y \in 0 .. Word - 1 :
            x = accounts[i].balance /\ y = accounts'[i].balance
      BY <1>5 DEF AccountType
    <2>2. /\ (((x - a) % Word) + a) % Word = x /\ (((x + a) % Word) - a) % Word = x
          /\ x % Word = x /\ (x + a) % Word \in 0 .. Word - 1
          /\ (x - a) % Word \in 0 .. Word - 1
      BY <1>7, ModBack
    <2>3. i \in Index /\ accounts \in [Index -> AccountType]
      BY <1>5 DEF TypeInv, TypeOK
    <2>4. CASE DebitStore(o)
      <3>1. /\ Due(o, i) = 0 /\ Due(o, i)' = IF r.id = i THEN a ELSE 0
        <4>1. pc[o] = "debit_store" /\ pc'[o] = "credit"
          BY <1>3, <2>4 DEF DebitStore, Store, Go
        <4> QED
          BY <1>1, <1>2, <1>8, <4>1 DEF Due, Debited, Credited
      <3>2. /\ reg[o] = accounts[r.id].balance
            /\ accounts' = [accounts EXCEPT ![r.id].balance = (reg[o] + (-r.amount)) % Word]
        BY <1>1, <1>3, <1>6, <2>4 DEF DebitStore, Store, Go, Written
      <3>3. CASE i = r.id
        <4>1. y = (x + (-a)) % Word
          <5>1. PICK z : z = (reg[o] + (-r.amount)) % Word
            OBVIOUS
          <5>2. accounts'[i] = [accounts[i] EXCEPT !.balance = z]
            BY <2>3, <3>2, <3>3, <5>1
          <5>3. accounts[i] \in AccountType
            BY <1>5
          <5>4. [accounts[i] EXCEPT !.balance = z].balance = z
            BY <5>3 DEF AccountType
          <5> QED
            BY <1>8, <2>1, <3>2, <3>3, <5>1, <5>2, <5>4
        <4>2. x + (-a) = x - a
          OBVIOUS
        <4>3. y = (x - a) % Word
          BY <4>1, <4>2
        <4>4. (y + a) % Word = (x + 0) % Word
          BY <2>2, <4>3
        <4> QED
          BY <2>1, <3>1, <3>3, <4>4
      <3>4. CASE i # r.id
        BY <2>1, <2>3, <3>1, <3>2, <3>4
      <3> QED
        BY <3>3, <3>4
    <2>5. CASE CreditStore(o)
      <3>1. /\ Due(o, i) = IF r.id = i THEN a ELSE 0
            /\ Due(o, i)' = (IF r.id = i THEN a ELSE 0) - (IF r.acc = i THEN a ELSE 0)
        <4>1. pc[o] = "credit_store" /\ pc'[o] = "result"
          BY <1>3, <2>5 DEF CreditStore, Store, Go
        <4> QED
          BY <1>1, <1>2, <1>8, <4>1 DEF Due, Debited, Credited
      <3>2. /\ reg[o] = accounts[r.acc].balance
            /\ accounts' = [accounts EXCEPT ![r.acc].balance = (reg[o] + r.amount) % Word]
        BY <1>1, <1>3, <1>6, <2>5 DEF CreditStore, Store, Go, Written
      <3>3. i = r.acc => y = (x + a) % Word
        <4>1. PICK z : z = (reg[o] + r.amount) % Word
          OBVIOUS
        <4>2. i = r.acc => accounts'[i] = [accounts[i] EXCEPT !.balance = z]
          BY <2>3, <3>2, <4>1
        <4>3. accounts[i] \in AccountType
          BY <1>5
        <4>4. [accounts[i] EXCEPT !.balance = z].balance = z
          BY <4>3 DEF AccountType
        <4> QED
          BY <1>8, <2>1, <3>2, <4>1, <4>2, <4>4
      <3>4. CASE i = r.acc /\ i # r.id
        <4>1. Due(o, i) = 0 /\ Due(o, i)' = -a
          BY <3>1, <3>4
        <4>2. y + (-a) = y - a /\ x + 0 = x
          OBVIOUS
        <4>3. (y - a) % Word = x % Word
          BY <2>2, <3>3, <3>4
        <4> QED
          BY <2>1, <4>1, <4>2, <4>3
      <3>5. CASE i = r.acc /\ i = r.id
        <4>1. Due(o, i) = a /\ Due(o, i)' = 0
          BY <3>1, <3>5
        <4>2. y + 0 = y /\ y % Word = y
          BY <1>7, ModSmall
        <4> QED
          BY <2>1, <3>3, <3>5, <4>1, <4>2
      <3>6. CASE i # r.acc
        <4>1. accounts'[i] = accounts[i]
          BY <2>3, <3>2, <3>6
        <4>2. Due(o, i)' = Due(o, i)
          BY <3>1, <3>6
        <4> QED
          BY <4>1, <4>2
      <3> QED
        BY <3>4, <3>5, <3>6
    <2> QED
      BY <2>4, <2>5
  <1>10. ASSUME NEW i \in Touches(r) PROVE w[i] = v[i]
    <2>1. /\ v[i] \in AccountType /\ v[i].account_id = accounts[i].account_id
          /\ v[i].salt = accounts[i].salt /\ v[i].hash = accounts[i].hash
          /\ v[i].balance = (accounts[i].balance + Due(o, i)) % Word
      BY <1>5, Shifted
    <2>2. PICK b, d : b = accounts'[i] /\ d = Due(o, i)'
      OBVIOUS
    <2>3. b \in AccountType /\ d \in Int /\ w[i] = [b EXCEPT !.balance = (@ + d) % Word]
      BY <1>5, <2>2
    <2>4. /\ w[i] \in AccountType /\ w[i].account_id = b.account_id
          /\ w[i].salt = b.salt /\ w[i].hash = b.hash
          /\ w[i].balance = (b.balance + d) % Word
      BY <2>3, Shifted
    <2>5. /\ b.account_id = accounts[i].account_id
          /\ b.salt = accounts[i].salt /\ b.hash = accounts[i].hash
          /\ (b.balance + d) % Word = (accounts[i].balance + Due(o, i)) % Word
      BY <1>5, <1>7, <1>9, <2>2
    <2> QED
      BY <2>1, <2>4, <2>5, SameAccount
  <1>11. AccountsView' = v
    BY <1>0, <1>1, <1>2, <1>10, ViewEqual
  <1>12. AnswersView' = AnswersView
    BY <1>2, <1>4, AnswersStill
  <1>13. /\ UserIdCode(v, r) = "OK" /\ UserCode(v, r) = "OK" /\ DestCode(v, r) = "OK"
         /\ FundsCode(v, r) = "OK" /\ FloorCode(v, r) = "OK" /\ RoomCode(v, r) = "OK"
    BY <1>1, <1>3, <1>6 DEF Passed, KnownPCs, MovePCs
  <1>14. accounts[r.id].account_id = r.id /\ accounts[r.acc].account_id = r.acc
    <2>1. v[r.id].account_id = r.id /\ v[r.acc].account_id = r.acc
      BY <1>13 DEF UserIdCode, DestCode
    <2>2. \A i \in Touches(r) : v[i].account_id = accounts[i].account_id
      BY <1>5, Shifted
    <2> QED
      BY <1>5, <2>1, <2>2
  <1>15. Zeroed'
    <2>1. \A i \in Index : i \notin Touches(r) => accounts'[i] = accounts[i]
      BY <1>1, <1>2 DEF Frame
    <2>2. \A i \in Touches(r) : accounts'[i].account_id = i
      BY <1>5, <1>7, <1>14
    <2> QED
      BY <1>6, <1>7, <2>1, <2>2 DEF Zeroed
  <1>16. Passed(o, pc[o], AccountsView)'
    BY <1>1, <1>2, <1>3, <1>11, <1>13 DEF Passed, CreatePCs, SetPCs, KnownPCs, MovePCs
  <1>17. Written(o, pc[o])'
    BY <1>3 DEF Written, SetPCs
  <1> QED
    BY <1>0, <1>11, <1>12, <1>15, <1>16, <1>17, Unseen

\* A transfer in one step, on any array of accounts.
LEMMA MovedAt ==
    ASSUME NEW v \in [Index -> AccountType], NEW from \in Index, NEW to \in Index,
           NEW a \in 0 .. Word - 1
    PROVE  /\ Moved(v, from, to, a) \in [Index -> AccountType]
           /\ \A i \in Index :
                /\ Moved(v, from, to, a)[i].account_id = v[i].account_id
                /\ Moved(v, from, to, a)[i].salt = v[i].salt
                /\ Moved(v, from, to, a)[i].hash = v[i].hash
                /\ i \notin {from, to} => Moved(v, from, to, a)[i] = v[i]
                /\ i = from /\ i # to =>
                     Moved(v, from, to, a)[i].balance = (v[i].balance - a) % Word
                /\ i = to /\ i # from =>
                     Moved(v, from, to, a)[i].balance = (v[i].balance + a) % Word
                /\ i = to /\ i = from =>
                     Moved(v, from, to, a)[i].balance = (((v[i].balance - a) % Word) + a) % Word
  <1>0. Word \in Nat \ {0}
    BY BankAssumption
  <1>1. PICK x : x = (v[from].balance - a) % Word
    OBVIOUS
  <1>2. x \in 0 .. Word - 1
    <2>1. v[from].balance \in 0 .. Word - 1
      BY DEF AccountType
    <2>2. v[from].balance - a \in Int
      BY <1>0, <2>1
    <2> QED
      BY <1>0, <1>1, <2>2
  <1>3. PICK d : d = [v EXCEPT ![from].balance = x]
    OBVIOUS
  <1>4. /\ d \in [Index -> AccountType] /\ d[from] = [v[from] EXCEPT !.balance = x]
        /\ \A i \in Index : i # from => d[i] = v[i]
    <2>1. [v[from] EXCEPT !.balance = x] \in AccountType
      BY <1>2, WithBalance
    <2> QED
      BY <1>3, <2>1
  <1>5. /\ d[from].balance = x /\ d[from].account_id = v[from].account_id
        /\ d[from].salt = v[from].salt /\ d[from].hash = v[from].hash
    BY <1>2, <1>4, WithBalance
  <1>6. PICK y : y = (d[to].balance + a) % Word
    OBVIOUS
  <1>7. y \in 0 .. Word - 1
    <2>1. d[to].balance \in 0 .. Word - 1
      BY <1>4 DEF AccountType
    <2>2. d[to].balance + a \in Int
      BY <1>0, <2>1
    <2> QED
      BY <1>0, <1>6, <2>2
  <1>8. PICK e : e = [d EXCEPT ![to].balance = y]
    OBVIOUS
  <1>9. /\ e \in [Index -> AccountType] /\ e[to] = [d[to] EXCEPT !.balance = y]
        /\ \A i \in Index : i # to => e[i] = d[i]
    <2>1. [d[to] EXCEPT !.balance = y] \in AccountType
      BY <1>4, <1>7, WithBalance
    <2> QED
      BY <1>4, <1>8, <2>1
  <1>10. /\ e[to].balance = y /\ e[to].account_id = d[to].account_id
         /\ e[to].salt = d[to].salt /\ e[to].hash = d[to].hash
    BY <1>4, <1>7, <1>9, WithBalance
  <1>11. e = Moved(v, from, to, a)
    BY <1>1, <1>3, <1>6, <1>8 DEF Moved
  <1>12. ASSUME NEW i \in Index
         PROVE  /\ e[i].account_id = v[i].account_id /\ e[i].salt = v[i].salt
                /\ e[i].hash = v[i].hash
                /\ i \notin {from, to} => e[i] = v[i]
                /\ i = from /\ i # to => e[i].balance = x
                /\ i = to => e[i].balance = y
    BY <1>4, <1>5, <1>9, <1>10
  <1>13. /\ to # from => y = (v[to].balance + a) % Word
         /\ to = from => y = (x + a) % Word
    BY <1>4, <1>5, <1>6
  <1> QED
    BY <1>1, <1>9, <1>11, <1>12, <1>13

\* The end of a transfer: the money has moved.
LEMMA ApartResult ==
    ASSUME TypeInv, TypeInv', OnceInv, OnceInv', Apart, NEW o \in Offices,
           TransferResult(o)
    PROVE  Lands(o)
  <1>0. PICK v, w : v = AccountsView /\ w = AccountsView'
    OBVIOUS
  <1>1. PICK r : r = job[o]
    OBVIOUS
  <1>2. Frame(o) /\ job' = job
    BY WorkFrame DEF Work, Reading, Frame
  <1>3. /\ pc[o] = "result" /\ pc'[o] = "reply" /\ accounts' = accounts
        /\ reply'[o].ret_code = reply[o].ret_code
        /\ reply'[o].balance = accounts[r.id].balance
    BY <1>1 DEF TransferResult, Go, shared, TypeInv, TypeOK
  <1>4. /\ ~Creating(o)' /\ ~Debited(o)' /\ ~Decided(o) /\ Decided(o)'
    BY <1>3 DEF Creating, Debited, Decided
  <1>5. /\ r \in Requests /\ r.type = "transfer" /\ r.id \in Index \ {ADMIN}
        /\ r.acc \in Index /\ Touches(r) = {r.id, r.acc}
        /\ \A i \in Touches(r) :
             /\ accounts[i] \in AccountType /\ accounts'[i] \in AccountType
             /\ Due(o, i) \in Int /\ Due(o, i)' \in Int
             /\ v[i] = [accounts[i] EXCEPT !.balance = (@ + Due(o, i)) % Word]
             /\ w[i] = [accounts'[i] EXCEPT !.balance = (@ + Due(o, i)') % Word]
    BY <1>0, <1>1, <1>2, <1>3, <1>4, MoveViews
  <1>6. /\ Passed(o, pc[o], v) /\ Kind(o) /\ Zeroed /\ Disjoint
    BY <1>0 DEF Apart, OnceInv
  <1>7. ASSUME NEW i \in Touches(r) PROVE w[i] = accounts[i]
    <2>1. i \in Index /\ i \in Touches(job[o])
      BY <1>1, <1>5
    <2>2. AccountsView'[i] = accounts'[i]
      BY <1>2, <1>4, <1>6, <2>1, ViewNext
    <2> QED
      BY <1>0, <1>3, <2>2
  <1>8. PICK a \in 0 .. Word - 1 : a = r.amount
    BY <1>5, RequestFields
  <1>9. Word \in Nat
    BY BankAssumption
  <1>10. v \in [Index -> AccountType]
    BY <1>0, ViewOf
  <1>11. PICK m : m = Moved(v, r.id, r.acc, a)
    OBVIOUS
  <1>12. /\ m \in [Index -> AccountType]
         /\ \A i \in Index :
              /\ m[i].account_id = v[i].account_id
              /\ m[i].salt = v[i].salt
              /\ m[i].hash = v[i].hash
              /\ i \notin {r.id, r.acc} => m[i] = v[i]
              /\ i = r.id /\ i # r.acc => m[i].balance = (v[i].balance - a) % Word
              /\ i = r.acc /\ i # r.id => m[i].balance = (v[i].balance + a) % Word
              /\ i = r.acc /\ i = r.id => m[i].balance = (((v[i].balance - a) % Word) + a) % Word
    BY <1>5, <1>10, <1>11, MovedAt
  <1>13. ASSUME NEW i \in Touches(r) PROVE m[i] = accounts[i]
    <2>1. i \in Index /\ accounts[i] \in AccountType /\ m[i] \in AccountType
      BY <1>5, <1>12
    <2>2. /\ v[i].account_id = accounts[i].account_id /\ v[i].salt = accounts[i].salt
          /\ v[i].hash = accounts[i].hash
          /\ v[i].balance = (accounts[i].balance + Due(o, i)) % Word
      BY <1>5, Shifted
    <2>3. Due(o, i) = (IF r.id = i THEN a ELSE 0) - (IF r.acc = i THEN a ELSE 0)
      BY <1>1, <1>3, <1>8 DEF Due, Debited, Credited
    <2>4. PICK x \in 0 .. Word - 1 : x = accounts[i].balance
      BY <2>1 DEF AccountType
    <2>5. /\ (((x - a) % Word) + a) % Word = x /\ (((x + a) % Word) - a) % Word = x
          /\ x % Word = x
      BY <1>9, ModBack
    <2>6. m[i].balance = x
      <3>1. CASE i = r.id /\ i # r.acc
        <4>1. Due(o, i) = a
          BY <2>3, <3>1
        <4>2. v[i].balance = (x + a) % Word
          BY <2>2, <2>4, <4>1
        <4> QED
          BY <1>12, <2>1, <2>5, <3>1, <4>2
      <3>2. CASE i = r.acc /\ i # r.id
        <4>1. Due(o, i) = -a /\ x + (-a) = x - a
          BY <2>3, <3>2
        <4>2. v[i].balance = (x - a) % Word
          BY <2>2, <2>4, <4>1
        <4> QED
          BY <1>12, <2>1, <2>5, <3>2, <4>2
      <3>3. CASE i = r.acc /\ i = r.id
        <4>1. Due(o, i) = 0 /\ x + 0 = x
          BY <2>3, <3>3
        <4>2. v[i].balance = x
          BY <2>2, <2>4, <2>5, <4>1
        <4> QED
          BY <1>12, <2>1, <2>5, <3>3, <4>2
      <3> QED
        BY <1>5, <3>1, <3>2, <3>3
    <2> QED
      BY <1>12, <2>1, <2>2, <2>4, <2>6, SameAccount
  <1>14. w = m
    <2>1. \A i \in Index : i \notin Touches(r) => w[i] = v[i]
      BY <1>0, <1>1, <1>2, ViewOthers
    <2>2. \A i \in Index : w[i] = m[i]
      BY <1>5, <1>7, <1>12, <1>13, <2>1
    <2>3. w = [i \in Index |-> w[i]]
      BY <1>0 DEF AccountsView
    <2> QED
      BY <1>12, <2>2, <2>3
  <1>15. /\ UserIdCode(v, r) = "OK" /\ UserCode(v, r) = "OK" /\ DestCode(v, r) = "OK"
         /\ FundsCode(v, r) = "OK" /\ RoomCode(v, r) = "OK" /\ reply[o].ret_code = "OK"
    BY <1>1, <1>3, <1>6 DEF Passed, Kind, OKPCs, KnownPCs, MovePCs
  <1>16. TransferCode(v, r) = "OK"
    BY <1>5, <1>15, FirstFailure
  <1>17. BankDecides(job[o], reply'[o].ret_code, reply'[o].balance)
    <2>1. reply'[o].balance = w[r.id].balance
      BY <1>3, <1>5, <1>7
    <2> QED
      BY <1>0, <1>1, <1>3, <1>5, <1>8, <1>11, <1>14, <1>15, <1>16, <2>1 DEF BankDecides
  <1>18. InArray(AccountsView, job[o])
    <2>1. r.id # MAX_BANK_ACCOUNTS
      BY <1>5, BankAssumption DEF Index
    <2> QED
      BY <1>1, <1>5, <2>1 DEF InArray
  <1>19. BankView!Next
    BY <1>2, <1>4, <1>17, <1>18, BankStep
  <1>20. Zeroed'
    BY <1>3, <1>6 DEF Zeroed
  <1>21. Passed(o, pc[o], AccountsView)' /\ Written(o, pc[o])'
    BY <1>3 DEF Passed, Written, CreatePCs, SetPCs, KnownPCs, MovePCs
  <1> QED
    BY <1>19, <1>20, <1>21 DEF Lands

\* Every step of an office between Begin and Reply is a step of the Bank or none.
LEMMA ApartWork ==
    ASSUME TypeInv, TypeInv', OnceInv, OnceInv', Apart, NEW o \in Offices, Work(o)
    PROVE  Apart' /\ [BankView!Next]_(BankView!vars)
  <1>1. Lands(o)
    BY ApartValidates, ApartChecks, ApartReads, ApartFields, ApartCreated, ApartStores,
       ApartResult DEF Work, Checking, Reading, Creation, Storing
  <1>2. Frame(o)
    BY WorkFrame
  <1> QED
    BY <1>1, <1>2, ApartFrame DEF Lands

\* The Bank's view of the accounts when an office starts or ends.
LEMMA ViewBetween ==
    ASSUME TypeInv, TypeInv', NEW o \in Offices, accounts' = accounts,
           pc[o] \in {"idle", "reply"}, pc'[o] \in {"idle", "admin", "user", "other"},
           \A p \in Offices : p # o => pc'[p] = pc[p] /\ job'[p] = job[p]
    PROVE  AccountsView' = AccountsView
  <1>1. /\ ~Creating(o) /\ ~Debited(o) /\ ~Credited(o)
        /\ ~Creating(o)' /\ ~Debited(o)' /\ ~Credited(o)'
    BY DEF Creating, Debited, Credited
  <1>2. ASSUME NEW p \in Offices, NEW i \in Index
        PROVE  /\ (Creating(p) /\ job[p].acc = i)' <=> (Creating(p) /\ job[p].acc = i)
               /\ (p \in From(i))' <=> p \in From(i)
               /\ (p \in To(i))' <=> p \in To(i)
               /\ p \in From(i) \cup To(i) => job'[p] = job[p]
    <2>1. CASE p = o
      BY <1>1, <2>1 DEF From, To
    <2>2. CASE p # o
      BY <2>2 DEF From, To, Creating, Debited, Credited
    <2> QED
      BY <2>1, <2>2
  <1>3. ASSUME NEW i \in Index PROVE AccountsView'[i] = AccountsView[i]
    BY <1>2, ViewSame
  <1> QED
    BY <1>3, SameView

\* An office that has answered works on nothing, and its reply is still shown.
LEMMA ApartReply ==
    ASSUME TypeInv, TypeInv', Apart, NEW o \in Offices, Reply(o)
    PROVE  Apart' /\ UNCHANGED BankView!vars
  <1>1. /\ pc[o] = "reply" /\ pc' = [pc EXCEPT ![o] = "idle"]
        /\ answers' = answers \cup {[req |-> job[o], code |-> reply[o].ret_code,
                                     balance |-> reply[o].balance]}
        /\ UNCHANGED <<accounts, reply, salt, reg, job>>
    BY DEF Reply, shared, local, begin
  <1>2. /\ pc'[o] = "idle" /\ \A p \in Offices : p # o => pc'[p] = pc[p]
    BY <1>1 DEF TypeInv, TypeOK
  <1>3. AccountsView' = AccountsView
    BY <1>1, <1>2, ViewBetween
  <1>4. AnswersView' = AnswersView
    <2>0. PICK y : y = [req |-> job[o], code |-> reply[o].ret_code,
                        balance |-> reply[o].balance]
      OBVIOUS
    <2>1. /\ answers' = answers \cup {y}
          /\ y.req = job[o] /\ y.code = reply[o].ret_code /\ y.balance = reply[o].balance
      BY <1>1, <2>0
    <2>2. Decided(o) /\ ~Decided(o)'
      BY <1>1, <1>2 DEF Decided
    <2>3. \A p \in Offices : p # o => (Decided(p)' <=> Decided(p))
      BY <1>1, <1>2 DEF Decided
    <2>4. {p \in Offices : Decided(p)} = {p \in Offices : Decided(p)}' \cup {o}
      BY <2>2, <2>3
    <2>5. \A x : x \in AnswersView <=>
            \/ \E z \in answers : x = PrintReply(z.req, z.code, z.balance)
            \/ \E p \in {q \in Offices : Decided(q)} :
                  x = PrintReply(job[p], reply[p].ret_code, reply[p].balance)
      BY DEF AnswersView
    <2>6. \A x : x \in AnswersView' <=>
            \/ \E z \in answers' : x = PrintReply(z.req, z.code, z.balance)
            \/ \E p \in {q \in Offices : Decided(q)}' :
                  x = PrintReply(job[p], reply[p].ret_code, reply[p].balance)
      BY <1>1 DEF AnswersView, PrintReply
    <2>7. \A x : x \in AnswersView' <=> x \in AnswersView
      BY <2>1, <2>4, <2>5, <2>6
    <2> QED
      BY <2>7 DEF AnswersView
  <1>5. Disjoint'
    <2>1. Busy' \subseteq Busy
      BY <1>2 DEF Busy
    <2> QED
      BY <1>1, <2>1 DEF Apart, Disjoint, Touches
  <1>6. Zeroed'
    BY <1>1 DEF Apart, Zeroed
  <1>7. ASSUME NEW p \in Offices PROVE Passed(p, pc[p], AccountsView)' /\ Written(p, pc[p])'
    <2>1. CASE p = o
      BY <1>2, <2>1 DEF Passed, Written, CreatePCs, SetPCs, KnownPCs, MovePCs
    <2>2. CASE p # o
      BY <1>1, <1>2, <1>3, <2>2 DEF Apart, Passed, Written
    <2> QED
      BY <2>1, <2>2
  <1> QED
    BY <1>3, <1>4, <1>5, <1>6, <1>7 DEF Apart, BankView!vars

\* An office that starts on accounts that nobody works on stays apart, and the Bank
\* has done nothing yet.
LEMMA ApartBegin ==
    ASSUME TypeInv, TypeInv', Apart, NEW o \in Offices, NEW r \in Requests, Begin(o, r),
           ~overlap'
    PROVE  Apart' /\ UNCHANGED BankView!vars
  <1>1. /\ pc[o] = "idle" /\ job' = [job EXCEPT ![o] = r]
        /\ \A p \in Busy : Touches(job[p]) \cap Touches(r) = {}
        /\ UNCHANGED <<accounts, reply, salt, reg, answers>>
    BY DEF Begin, shared, local
  <1>2. PICK to \in {"admin", "user", "other"} : pc' = [pc EXCEPT ![o] = to]
    BY DEF Begin
  <1>3. /\ pc'[o] = to /\ job'[o] = r
        /\ \A p \in Offices : p # o => pc'[p] = pc[p] /\ job'[p] = job[p]
    BY <1>1, <1>2 DEF TypeInv, TypeOK
  <1>4. AccountsView' = AccountsView
    BY <1>1, <1>3, ViewBetween
  <1>5. AnswersView' = AnswersView
    <2>1. ~Decided(o) /\ ~Decided(o)'
      BY <1>1, <1>3 DEF Decided
    <2>2. \A p \in Offices : /\ p # o => (Decided(p)' <=> Decided(p))
                             /\ Decided(p) => job'[p] = job[p]
      BY <1>3, <2>1 DEF Decided
    <2>3. {p \in Offices : Decided(p)}' = {p \in Offices : Decided(p)}
      BY <2>1, <2>2
    <2> QED
      BY <1>1, <2>2, <2>3 DEF AnswersView
  <1>6. Disjoint'
    <2>1. Busy' = Busy \cup {o} /\ o \notin Busy /\ Busy \subseteq Offices
      BY <1>1, <1>2, <1>3 DEF Busy
    <2>2. \A s : Touches(s)' = Touches(s)
      BY DEF Touches
    <2>3. \A p \in Busy : job'[p] = job[p]
      BY <1>3, <2>1
    <2>4. \A p, q \in Busy' : p # q => Touches(job'[p]) \cap Touches(job'[q]) = {}
      BY <1>1, <1>3, <2>1, <2>3 DEF Apart, Disjoint
    <2> QED
      BY <2>4 DEF Disjoint, Touches
  <1>7. Zeroed'
    BY <1>1 DEF Apart, Zeroed
  <1>8. ASSUME NEW p \in Offices PROVE Passed(p, pc[p], AccountsView)' /\ Written(p, pc[p])'
    <2>1. CASE p = o
      BY <1>3, <2>1 DEF Passed, Written, CreatePCs, SetPCs, KnownPCs, MovePCs
    <2>2. CASE p # o
      BY <1>1, <1>3, <1>4, <2>2 DEF Apart, Passed, Written
    <2> QED
      BY <2>1, <2>2
  <1> QED
    BY <1>4, <1>5, <1>6, <1>7, <1>8 DEF Apart, BankView!vars

\* The Bank's view is the array when no office is at work.
LEMMA ViewAtRest == TypeInv /\ Busy = {} => AccountsView = accounts
  <1> SUFFICES ASSUME TypeInv, Busy = {} PROVE AccountsView = accounts
    OBVIOUS
  <1>1. \A o \in Offices : ~Creating(o) /\ ~Debited(o) /\ ~Credited(o)
    BY DEF Busy, Creating, Debited, Credited
  <1>2. ASSUME NEW i \in Index PROVE AccountsView[i] = accounts[i]
    <2>1. From(i) = {} /\ To(i) = {}
      BY <1>1 DEF From, To
    <2>2. {} \in SUBSET Offices
      OBVIOUS
    <2>3. SumFunctionOnSet(Amounts, {}) = 0
      BY <2>2, SumOf
    <2>4. Undone(i) = 0
      <3>1. Undone(i) = SumFunctionOnSet(Amounts, From(i)) - SumFunctionOnSet(Amounts, To(i))
        BY ViewOf
      <3> QED
        BY <2>1, <2>3, <3>1
    <2>5. accounts[i] \in AccountType /\ Word \in Nat
      BY BankAssumption DEF TypeInv, TypeOK
    <2>6. PICK x \in 0 .. Word - 1 : x = accounts[i].balance
      BY <2>5 DEF AccountType
    <2>7. (x + 0) % Word = x
      BY <2>5, ModSmall
    <2>8. AccountsView[i] = [accounts[i] EXCEPT !.balance = x]
      BY <1>1, <2>4, <2>6, <2>7, ViewOf
    <2> QED
      BY <2>5, <2>6, <2>8 DEF AccountType
  <1>3. accounts \in [Index -> AccountType] /\ AccountsView \in [Index -> AccountType]
    BY ViewOf DEF TypeInv, TypeOK
  <1> QED
    BY <1>2, <1>3

\* At the start, no account is created but the admin's, and no office is at work.
LEMMA ApartInit == Init => Apart /\ BankView!Init
  <1> SUFFICES ASSUME Init PROVE Apart /\ BankView!Init
    OBVIOUS
  <1>1. PICK s \in Salts : accounts = WithAdmin(s)
    BY DEF Init
  <1>2. \A o \in Offices : pc[o] = "idle"
    BY DEF Init
  <1>3. Busy = {} /\ answers = {}
    BY <1>2 DEF Init, Busy
  <1>4. TypeInv
    BY TypeInit
  <1>5. \A o \in Offices : ~Decided(o)
    BY <1>2 DEF Decided
  <1>6. AccountsView = accounts
    BY <1>3, <1>4, ViewAtRest
  <1>7. AnswersView = {}
    BY <1>3, <1>5 DEF AnswersView
  <1>8. BankView!WithAdmin(s) = WithAdmin(s)
    BY DEF BankView!WithAdmin, WithAdmin, BankView!Index, Index, BankView!ADMIN, ADMIN,
       BankView!Account, Account, BankView!Hash, Hash, BankView!NoAccount, NoAccount,
       BankView!NoHash, NoHash
  <1>9. BankView!Init
    BY <1>1, <1>6, <1>7, <1>8 DEF BankView!Init
  <1>10. Disjoint /\ Zeroed
    BY <1>1, <1>3 DEF Disjoint, Zeroed, WithAdmin
  <1>11. \A o \in Offices : Passed(o, pc[o], AccountsView) /\ Written(o, pc[o])
    BY <1>2 DEF Passed, Written, CreatePCs, SetPCs, KnownPCs, MovePCs
  <1> QED
    BY <1>9, <1>10, <1>11 DEF Apart

\* As long as there is no overlap, every step of the offices is a step of the Bank
\* or none.
LEMMA ApartStep ==
    TypeInv /\ TypeInv' /\ OnceInv /\ OnceInv' /\ ApartInv /\ [Next]_vars =>
        ApartInv' /\ (overlap' \/ [BankView!Next]_(BankView!vars))
  <1> SUFFICES ASSUME TypeInv, TypeInv', OnceInv, OnceInv', ApartInv, [Next]_vars, ~overlap'
               PROVE  Apart' /\ [BankView!Next]_(BankView!vars)
    BY DEF ApartInv
  <1>1. ASSUME NEW o \in Offices, Work(o)
        PROVE  Apart' /\ [BankView!Next]_(BankView!vars)
    <2>1. ~overlap
      BY <1>1, WorkFrame DEF Frame
    <2> QED
      BY <1>1, <2>1, ApartWork DEF ApartInv
  <1>2. ASSUME NEW o \in Offices, Reply(o)
        PROVE  Apart' /\ [BankView!Next]_(BankView!vars)
    <2>1. ~overlap
      BY <1>2 DEF Reply, begin
    <2> QED
      BY <1>2, <2>1, ApartReply DEF ApartInv
  <1>3. ASSUME NEW o \in Offices, NEW r \in Requests, Begin(o, r)
        PROVE  Apart' /\ [BankView!Next]_(BankView!vars)
    <2>1. ~overlap
      BY <1>3 DEF Begin
    <2> QED
      BY <1>3, <2>1, ApartBegin DEF ApartInv
  <1>4. CASE UNCHANGED vars
    <2>1. UNCHANGED <<accounts, pc, job, reply, salt, reg, answers, overlap>>
      BY <1>4 DEF vars, shared, local, begin
    <2>2. AccountsView' = AccountsView /\ AnswersView' = AnswersView
      BY <2>1 DEF AccountsView, Creating, Undone, Amounts, Debited, Credited, AnswersView,
         Decided
    <2>3. Apart
      BY <2>1 DEF ApartInv
    <2>4. Disjoint' /\ Zeroed'
      BY <2>1, <2>3 DEF Apart, Disjoint, Zeroed, Busy, Touches
    <2>5. \A o \in Offices : Passed(o, pc[o], AccountsView)' /\ Written(o, pc[o])'
      BY <2>1, <2>2, <2>3 DEF Apart, Passed, Written
    <2> QED
      BY <2>2, <2>4, <2>5 DEF Apart, BankView!vars
  <1> QED
    BY <1>1, <1>2, <1>3, <1>4 DEF Next, OfficeStep, Work, Checking, Reading, Creation, Storing

\* As long as no two offices have worked on one account at the same time, the offices
\* do what the Bank does, one request at a time: acknowledge_request needs no lock for
\* that.  For any number of offices, of requests and of accounts.
THEOREM DisjointOfficesRefine == Spec => BankWhileDisjoint
  <1>1. Init => ApartInv /\ BankView!Init
    BY ApartInit DEF ApartInv
  <1>2. TypeInv /\ TypeInv' /\ OnceInv /\ OnceInv' /\ ApartInv /\ [Next]_vars =>
          [overlap' \/ [BankView!Next]_(BankView!vars)]_vars
    BY ApartStep
  <1> QED
    BY <1>1, <1>2, TypeInit, TypeStep, OnceInit, OnceStep, ApartStep, PTL
       DEF Spec, BankWhileDisjoint

\* A behaviour in which no two offices ever work on one account at the same time is
\* one of the Bank.
THEOREM ApartForeverRefines == Spec /\ []~overlap => ImplementsBank
  <1>1. Init => ApartInv /\ BankView!Init
    BY ApartInit DEF ApartInv
  <1>2. TypeInv /\ TypeInv' /\ OnceInv /\ OnceInv' /\ ApartInv /\ ~overlap'
          /\ [Next]_vars => [BankView!Next]_(BankView!vars)
    BY ApartStep
  <1> QED
    BY <1>1, <1>2, TypeInit, TypeStep, OnceInit, OnceStep, ApartStep, PTL
       DEF Spec, ImplementsBank, BankView!Spec

\* An office that is alone never works on an account together with another one.
LEMMA Alone == ASSUME NEW o, Offices = {o} PROVE Spec => []~overlap
  <1>1. Init => ~overlap
    BY DEF Init
  <1>2. TypeInv /\ OnceInv /\ ~overlap /\ [Next]_vars => ~overlap'
    <2> SUFFICES ASSUME TypeInv, OnceInv, ~overlap, [Next]_vars PROVE ~overlap'
      OBVIOUS
    <2>1. ASSUME NEW p \in Offices, Work(p) PROVE ~overlap'
      BY <2>1, WorkFrame DEF Frame
    <2>2. ASSUME NEW p \in Offices, Reply(p) PROVE ~overlap'
      BY <2>2 DEF Reply, begin
    <2>3. ASSUME NEW p \in Offices, NEW r \in Requests, Begin(p, r) PROVE ~overlap'
      <3>1. Busy = {}
        BY <2>3 DEF Begin, Busy
      <3> QED
        BY <2>3, <3>1 DEF Begin
    <2>4. CASE UNCHANGED vars
      BY <2>4 DEF vars, begin
    <2> QED
      BY <2>1, <2>2, <2>3, <2>4 DEF Next, OfficeStep, Work, Checking, Reading, Creation,
         Storing
  <1> QED
    BY <1>1, <1>2, TypeInit, TypeStep, OnceInit, OnceStep, PTL DEF Spec

\* A single office implements the Bank, whatever the requests: acknowledge_request
\* by itself does in its order of checks and writes what the service promises.
THEOREM OneOfficeRefines ==
    ASSUME NEW o, Offices = {o} PROVE Spec => ImplementsBank
  <1>1. Spec => []~overlap
    BY Alone
  <1> QED
    BY <1>1, ApartForeverRefines, PTL

-----------------------------------------------------------------------------
(* What is proved of the Bank is true of the offices while they are apart. *)
(* BankProofs gives it for the accounts and the answers that the Bank      *)
(* shows; at rest these are the array and the replies.                     *)

BankFacts == INSTANCE BankProofs WITH accounts <- AccountsView, answers <- AnswersView

\* The checks of the Bank mean the same wherever it is instantiated.
LEMMA FactsChecks ==
    /\ BankFacts!ADMIN = ADMIN /\ BankFacts!Index = Index
    /\ \A a, r : /\ BankFacts!AdminCode(a, r) = AdminCode(a, r)
              /\ BankFacts!CreateCode(a, r) = CreateCode(a, r)
              /\ BankFacts!UserCode(a, r) = UserCode(a, r)
              /\ BankFacts!DestCode(a, r) = DestCode(a, r)
              /\ BankFacts!FundsCode(a, r) = FundsCode(a, r)
              /\ BankFacts!RoomCode(a, r) = RoomCode(a, r)
              /\ BankFacts!InArray(a, r) = InArray(a, r)
    /\ \A a, b : BankFacts!Then(a, b) = Then(a, b)
    /\ \A i, b, p, s : BankFacts!Account(i, b, p, s) = Account(i, b, p, s)
    /\ \A a, i, j, b : BankFacts!Moved(a, i, j, b) = Moved(a, i, j, b)
    /\ BankFacts!Codes = Codes /\ BankFacts!UNSET = UNSET /\ BankFacts!NoBalance = NoBalance
  BY DEF BankFacts!ADMIN, ADMIN, BankFacts!Index, Index, BankFacts!AdminCode, AdminCode,
     BankFacts!CreateCode, CreateCode, BankFacts!UserCode, UserCode, BankFacts!DestCode,
     DestCode, BankFacts!FundsCode, FundsCode, BankFacts!RoomCode, RoomCode,
     BankFacts!FloorCode, FloorCode, BankFacts!CeilingCode, CeilingCode,
     BankFacts!InArray, InArray, BankFacts!Then, Then, BankFacts!Account, Account,
     BankFacts!Moved, Moved, BankFacts!Codes, Codes, BankFacts!UNSET, UNSET,
     BankFacts!NoBalance, NoBalance, BankFacts!Hash, Hash, BankFacts!UserIdCode, UserIdCode,
     BankFacts!LoginCode, LoginCode, BankFacts!Between, Between,
     BankFacts!MIN_BALANCE, MIN_BALANCE

\* So do the steps.
LEMMA SameSteps ==
    \A r : /\ BankFacts!Create(r) <=> BankView!Create(r)
           /\ BankFacts!Balance(r) <=> BankView!Balance(r)
           /\ BankFacts!Transfer(r) <=> BankView!Transfer(r)
           /\ BankFacts!Other(r) <=> BankView!Other(r)
  <1>1. ASSUME NEW r, NEW t PROVE BankFacts!Pending(r, t) = BankView!Pending(r, t)
    BY SameChecks, FactsChecks DEF BankFacts!Pending, BankView!Pending
  <1>2. ASSUME NEW r, NEW c, NEW b PROVE BankFacts!Answer(r, c, b) = BankView!Answer(r, c, b)
    BY SameChecks, FactsChecks DEF BankFacts!Answer, BankView!Answer
  <1>3. ASSUME NEW r PROVE BankFacts!Create(r) <=> BankView!Create(r)
    BY <1>1, <1>2, SameChecks, FactsChecks DEF BankFacts!Create, BankView!Create
  <1>4. ASSUME NEW r PROVE BankFacts!Balance(r) <=> BankView!Balance(r)
    BY <1>1, <1>2, SameChecks, FactsChecks DEF BankFacts!Balance, BankView!Balance
  <1>5. ASSUME NEW r PROVE BankFacts!Transfer(r) <=> BankView!Transfer(r)
    BY <1>1, <1>2, SameChecks, FactsChecks DEF BankFacts!Transfer, BankView!Transfer
  <1>6. ASSUME NEW r PROVE BankFacts!Other(r) <=> BankView!Other(r)
    BY <1>1, <1>2, SameChecks, FactsChecks DEF BankFacts!Other, BankView!Other
  <1> QED
    BY <1>3, <1>4, <1>5, <1>6

\* And the specification.
LEMMA SameBank ==
    /\ BankFacts!Next <=> BankView!Next
    /\ BankFacts!vars = BankView!vars /\ BankFacts!vars' = BankView!vars'
    /\ BankView!Init => BankFacts!Init
  <1>1. BankFacts!Next <=> BankView!Next
    BY SameSteps DEF BankFacts!Next, BankView!Next
  <1>2. BankFacts!vars = BankView!vars /\ BankFacts!vars' = BankView!vars'
    BY DEF BankFacts!vars, BankView!vars
  <1>3. ASSUME NEW s PROVE BankFacts!WithAdmin(s) = BankView!WithAdmin(s)
    BY DEF BankView!WithAdmin, BankFacts!WithAdmin, BankView!Index, BankFacts!Index,
       BankView!ADMIN, BankFacts!ADMIN, BankView!Account, BankFacts!Account,
       BankView!Hash, BankFacts!Hash, BankView!NoAccount, BankFacts!NoAccount,
       BankView!NoHash, BankFacts!NoHash
  <1>4. BankView!Init => BankFacts!Init
    BY <1>3 DEF BankFacts!Init, BankView!Init
  <1> QED
    BY <1>1, <1>2, <1>4

\* Sums are sums.
LEMMA SameSum ==
    ASSUME NEW f, NEW S PROVE BankFacts!SumFunctionOnSet(f, S) = SumFunctionOnSet(f, S)
  BY DEF BankFacts!SumFunctionOnSet, BankFacts!FoldFunctionOnSet, BankFacts!MapThenFoldSet,
     SumFunctionOnSet, FoldFunctionOnSet, MapThenFoldSet

\* The books of the Bank, as long as there is no overlap.
BooksWhile == ~overlap => BankFacts!BalanceInv /\ BankFacts!BooksInv

\* They are in order at first ...
LEMMA BooksStart == BankView!Init => BankFacts!BalanceInv /\ BankFacts!BooksInv
  <1>1. Requests \subseteq BankFacts!RequestType
    BY BankAssumption DEF RequestType, BankFacts!RequestType
  <1> QED
    BY <1>1, BankAssumption, SameBank, BankFacts!BalanceInit, BankFacts!BooksInit

\* ... and after every step.
LEMMA BooksOn ==
    TypeInv /\ TypeInv' /\ OnceInv /\ OnceInv' /\ ApartInv /\ BooksWhile /\ [Next]_vars =>
        BooksWhile'
  <1> SUFFICES ASSUME TypeInv, TypeInv', OnceInv, OnceInv', ApartInv, BooksWhile,
                      [Next]_vars, ~overlap'
               PROVE  (BankFacts!BalanceInv /\ BankFacts!BooksInv)'
    BY DEF BooksWhile
  <1>1. [BankFacts!Next]_(BankFacts!vars)
    BY ApartStep, SameBank
  <1>2. ~overlap
    <2>1. ASSUME NEW o \in Offices, Work(o) PROVE ~overlap
      BY <2>1, WorkFrame DEF Frame
    <2>2. ASSUME NEW o \in Offices, Reply(o) \/ \E r \in Requests : Begin(o, r)
          PROVE  ~overlap
      BY <2>2 DEF Reply, Begin, begin
    <2>3. CASE UNCHANGED vars
      BY <2>3 DEF vars, begin
    <2> QED
      BY <2>1, <2>2, <2>3 DEF Next, OfficeStep, Work, Checking, Reading, Creation, Storing
  <1>3. Requests \subseteq BankFacts!RequestType
    BY BankAssumption DEF RequestType, BankFacts!RequestType
  <1>4. BankFacts!BalanceInv'
    BY <1>1, <1>2, <1>3, BankAssumption, BankFacts!BalanceStep DEF BooksWhile
  <1>5. BankFacts!BooksInv'
    BY <1>1, <1>2, <1>3, BankAssumption, BankFacts!BooksStep DEF BooksWhile
  <1> QED
    BY <1>4, <1>5

\* When no office is at work they are the books of the offices.
LEMMA BooksAtRest == TypeInv /\ BooksWhile => ConservedWhileDisjoint
  <1> SUFFICES ASSUME TypeInv, BooksWhile, ~overlap, Busy = {} PROVE Conservation
    BY DEF ConservedWhileDisjoint, Conservation, AtRest
  <1>1. BankFacts!Conservation
    BY DEF BooksWhile, BankFacts!BooksInv
  <1>2. AccountsView = accounts
    BY ViewAtRest
  <1>3. BankFacts!Accepted("create") = Accepted("create")
    <2>1. \A o \in Offices : ~Decided(o)
      BY DEF Busy, Decided
    <2>2. AnswersView = {PrintReply(x.req, x.code, x.balance) : x \in answers}
      BY <2>1 DEF AnswersView
    <2>3. \A r, c, b : PrintReply(r, c, b).req = r /\ PrintReply(r, c, b).code = c
      BY DEF PrintReply
    <2>4. \A r : (\E x \in AnswersView : x.req = r /\ x.code = "OK") <=>
                \E x \in answers : x.req = r /\ x.code = "OK"
      BY <2>2, <2>3
    <2> QED
      BY <2>4 DEF BankFacts!Accepted, Accepted
  <1>4. BankFacts!Index = Index
    BY DEF BankFacts!Index, Index
  <1> QED
    BY <1>1, <1>2, <1>3, <1>4, SameSum DEF BankFacts!Conservation, Conservation

\* No money is lost before two offices have worked on one account at the same time:
\* create_user_transfer has no other way to lose any.
THEOREM MoneyConservedApart == Spec => []ConservedWhileDisjoint
  <1>1. Init => ApartInv /\ BooksWhile
    BY ApartInit, BooksStart DEF ApartInv, BooksWhile
  <1> QED
    BY <1>1, TypeInit, TypeStep, OnceInit, OnceStep, ApartStep, BooksOn, BooksAtRest, PTL
       DEF Spec

\* A single office never loses any.
THEOREM OneOfficeConserves ==
    ASSUME NEW o, Offices = {o} PROVE Spec => []Conservation
  <1>1. Spec => []~overlap
    BY Alone
  <1>2. ConservedWhileDisjoint /\ ~overlap => Conservation
    BY DEF ConservedWhileDisjoint
  <1> QED
    BY <1>1, <1>2, MoneyConservedApart, PTL
=============================================================================
