----------------------------- MODULE BankProofs -----------------------------
(***************************************************************************)
(* Theorems about the Bank, for every set of requests and every limit.     *)
(***************************************************************************)
EXTENDS Bank, SumTheorems, AccountsProofs

\* The part of the types that the arithmetic of a transfer needs.
BalanceInv ==
    /\ accounts \in [Index -> AccountType]
    /\ BalanceRange

\* The array starts with the admin's account and zeros.
LEMMA BalanceInit == Init => BalanceInv
  BY InitialAccounts, BankAssumption DEF Init, BalanceInv, BalanceRange, Index, ADMIN

\* The balances as numbers.
LEMMA BalanceNat ==
    ASSUME BalanceInv, NEW i \in Index PROVE accounts[i].balance \in 0..MAX_BALANCE
  <1>1. accounts[i] \in AccountType
    BY DEF BalanceInv
  <1>2. accounts[i].balance \in 0 .. Word - 1
    BY <1>1 DEF AccountType
  <1> QED
    BY <1>2, BankAssumption DEF BalanceInv, BalanceRange

\* Two balances are assigned, in accounts other than the admin's: nothing else
\* changes.
LEMMA StoreEffect ==
    ASSUME BalanceInv, NEW i \in Index \ {ADMIN}, NEW j \in Index \ {ADMIN}, i # j,
           NEW x \in 0..MAX_BALANCE, NEW y \in 0..MAX_BALANCE,
           accounts' = [accounts EXCEPT ![i] = [@ EXCEPT !.balance = x],
                                        ![j] = [@ EXCEPT !.balance = y]]
    PROVE  /\ accounts' \in [Index -> AccountType]
           /\ accounts'[i].balance = x /\ accounts'[j].balance = y
           /\ \A k \in Index \ {i, j} : accounts'[k].balance = accounts[k].balance
           /\ \A k \in Index : /\ accounts'[k].account_id = accounts[k].account_id
                               /\ accounts'[k].salt = accounts[k].salt
                               /\ accounts'[k].hash = accounts[k].hash
  <1>1. x \in 0 .. Word - 1 /\ y \in 0 .. Word - 1
    BY BankAssumption
  <1>2. accounts \in [Index -> AccountType]
    BY DEF BalanceInv
  <1> DEFINE ai == [accounts[i] EXCEPT !.balance = x]
             aj == [accounts[j] EXCEPT !.balance = y]
  <1>3. accounts' = [accounts EXCEPT ![i] = ai, ![j] = aj]
    BY <1>2
  <1>4. /\ ai \in AccountType /\ ai.balance = x
        /\ ai.account_id = accounts[i].account_id /\ ai.salt = accounts[i].salt
        /\ ai.hash = accounts[i].hash
    BY <1>1, <1>2, WithBalance
  <1>5. /\ aj \in AccountType /\ aj.balance = y
        /\ aj.account_id = accounts[j].account_id /\ aj.salt = accounts[j].salt
        /\ aj.hash = accounts[j].hash
    BY <1>1, <1>2, WithBalance
  <1> HIDE DEF ai, aj
  <1>6. /\ accounts' \in [Index -> AccountType]
        /\ accounts'[i] = ai /\ accounts'[j] = aj
        /\ \A k \in Index \ {i, j} : accounts'[k] = accounts[k]
    BY <1>2, <1>3, <1>4, <1>5
  <1> QED
    BY <1>4, <1>5, <1>6

\* The code of a transfer.
TransferCode(r) ==
    Then(UserCode(accounts, r),
    Then(DestCode(accounts, r),
    Then(FundsCode(accounts, r), RoomCode(accounts, r))))

\* A transfer that passes the checks is between two accounts of users that exist,
\* and neither its subtraction nor its addition wraps around; to oneself it
\* changes nothing.
LEMMA TransferEffect ==
    ASSUME BalanceInv, NEW r \in Requests, Transfer(r), TransferCode(r) = "OK"
    PROVE  /\ r.id \in Index \ {ADMIN} /\ r.acc \in Index \ {ADMIN}
           /\ accounts[r.id].account_id = r.id /\ accounts[r.acc].account_id = r.acc
           /\ accounts' \in [Index -> AccountType]
           /\ \A k \in Index : /\ accounts'[k].account_id = accounts[k].account_id
                               /\ accounts'[k].salt = accounts[k].salt
                               /\ accounts'[k].hash = accounts[k].hash
           /\ \/ accounts' = accounts
              \/ /\ r.id # r.acc
                 /\ accounts'[r.id].balance = accounts[r.id].balance - r.amount
                 /\ accounts'[r.acc].balance = accounts[r.acc].balance + r.amount
                 /\ accounts'[r.id].balance \in 0..MAX_BALANCE
                 /\ accounts'[r.acc].balance \in 0..MAX_BALANCE
                 /\ \A k \in Index \ {r.id, r.acc} :
                        accounts'[k].balance = accounts[k].balance
  <1> USE BankAssumption
  <1>1. /\ UserCode(accounts, r) = "OK" /\ DestCode(accounts, r) = "OK"
        /\ FundsCode(accounts, r) = "OK" /\ RoomCode(accounts, r) = "OK"
        /\ accounts' = Moved(accounts, r.id, r.acc, r.amount)
    BY DEF Transfer, TransferCode, Then
  <1>2. /\ r.id \in Nat /\ r.acc \in Nat /\ r.amount \in Nat
    BY RequestFields
  <1>3. /\ r.id \in Index \ {ADMIN} /\ r.acc \in Index \ {ADMIN}
        /\ accounts[r.id].account_id = r.id /\ accounts[r.acc].account_id = r.acc
    BY <1>1, <1>2 DEF Transfer, Pending, InArray, UserCode, Then, UserIdCode, DestCode,
       Between, Index, ADMIN
  <1>4. \A i \in Index : accounts[i].balance \in 0..MAX_BALANCE
    BY BalanceNat
  <1> DEFINE a == r.amount
             b == accounts[r.id].balance
             c == accounts[r.acc].balance
  <1>5. b \in 0..MAX_BALANCE /\ c \in 0..MAX_BALANCE
    BY <1>3, <1>4
  <1>6. a \in Nat /\ a <= b /\ (a + c) % Word <= MAX_BALANCE
    BY <1>1, <1>2, RoomBetween DEF FundsCode, Between
  <1>7. /\ a + c <= MAX_BALANCE
        /\ (b - a) % Word = b - a
        /\ (c + a) % Word = c + a
        /\ (b - a + a) % Word = b
    <2>1. Word \in Nat /\ MAX_BALANCE \in Nat /\ 2 * MAX_BALANCE < Word
      OBVIOUS
    <2> HIDE DEF a, b, c
    <2> QED
      BY <1>5, <1>6, <2>1, NoWrap
  <1>8. CASE r.id # r.acc
    <2>1. accounts' = [accounts EXCEPT ![r.id] = [@ EXCEPT !.balance = b - a],
                                       ![r.acc] = [@ EXCEPT !.balance = c + a]]
      <3> DEFINE first == [accounts EXCEPT ![r.id].balance = (b - a) % Word]
      <3>1. first[r.acc] = accounts[r.acc]
        BY <1>3, <1>8 DEF BalanceInv
      <3>2. accounts' = [first EXCEPT ![r.acc].balance =
                              (first[r.acc].balance + a) % Word]
        BY <1>1 DEF Moved
      <3> QED
        BY <3>1, <3>2, <1>7
    <2>2. b - a \in 0..MAX_BALANCE /\ c + a \in 0..MAX_BALANCE
      BY <1>5, <1>6, <1>7
    <2> HIDE DEF a, b, c
    <2>3. /\ accounts' \in [Index -> AccountType]
          /\ accounts'[r.id].balance = b - a /\ accounts'[r.acc].balance = c + a
          /\ \A k \in Index \ {r.id, r.acc} :
                accounts'[k].balance = accounts[k].balance
          /\ \A k \in Index : /\ accounts'[k].account_id = accounts[k].account_id
                              /\ accounts'[k].salt = accounts[k].salt
                              /\ accounts'[k].hash = accounts[k].hash
      BY <2>1, <2>2, <1>3, <1>8, StoreEffect
    <2> QED
      BY <1>3, <1>8, <2>2, <2>3 DEF a, b, c
  <1>9. CASE r.id = r.acc
    <2>1. accounts' = [accounts EXCEPT ![r.id].balance =
                              (((b - a) % Word) + a) % Word]
      <3> DEFINE first == [accounts EXCEPT ![r.id].balance = (b - a) % Word]
      <3>1. accounts[r.id] \in AccountType /\ accounts \in [Index -> AccountType]
        BY <1>3 DEF BalanceInv
      <3>2. accounts' = [first EXCEPT ![r.id].balance =
                              (first[r.id].balance + a) % Word]
        BY <1>1, <1>9 DEF Moved
      <3>3. first[r.id] = [accounts[r.id] EXCEPT !.balance = (b - a) % Word]
        BY <1>3, <3>1
      <3>4. first[r.id].balance = (b - a) % Word
        BY <3>1, <3>3 DEF AccountType
      <3> QED
        BY <1>3, <3>1, <3>2, <3>3, <3>4
    <2>2. accounts' = [accounts EXCEPT ![r.id].balance = b]
      BY <2>1, <1>7
    <2>3. accounts[r.id] \in AccountType
      BY <1>3 DEF BalanceInv
    <2>4. [accounts[r.id] EXCEPT !.balance = b] = accounts[r.id]
      BY <2>3 DEF AccountType
    <2>5. accounts' = accounts
      BY <2>2, <2>4 DEF BalanceInv
    <2> QED
      BY <1>3, <2>5 DEF BalanceInv
  <1> QED
    BY <1>8, <1>9

\* A transfer keeps the balances in their range.
LEMMA TransferRange ==
    ASSUME BalanceInv, NEW r \in Requests, Transfer(r) PROVE BalanceInv'
  <1>1. CASE accounts' = accounts
    BY <1>1 DEF BalanceInv, BalanceRange
  <1>2. CASE accounts' # accounts
    <2>1. TransferCode(r) = "OK"
      BY <1>2 DEF Transfer, TransferCode
    <2>2. ADMIN \in Index
      BY BankAssumption DEF Index, ADMIN
    <2> QED
      BY <1>2, <2>1, <2>2, TransferEffect DEF BalanceInv, BalanceRange
  <1> QED
    BY <1>1, <1>2

\* The code of a create.
GrantCode(r) == Then(AdminCode(accounts, r), CreateCode(accounts, r))

\* A create that passes the checks fills an account that did not exist and is not
\* the admin's.
LEMMA CreateEffect ==
    ASSUME BalanceInv, NEW r \in Requests, Create(r), GrantCode(r) = "OK"
    PROVE  /\ r.acc \in Index \ {ADMIN} /\ r.amount \in 0..MAX_BALANCE
           /\ accounts[r.acc].account_id # r.acc
           /\ accounts' \in [Index -> AccountType]
           /\ accounts'[r.acc].account_id = r.acc
           /\ accounts'[r.acc].balance = r.amount
           /\ accounts'[r.acc].hash = Hash(Unquoted(r.newpass), accounts'[r.acc].salt)
           /\ \A k \in Index \ {r.acc} : accounts'[k] = accounts[k]
  <1> USE BankAssumption
  <1>1. /\ AdminCode(accounts, r) = "OK" /\ CreateCode(accounts, r) = "OK"
        /\ InArray(accounts, r) /\ r.type = "create"
    BY DEF Create, GrantCode, Then, Pending
  <1>2. PICK salt \in Salts : accounts' = [accounts EXCEPT ![r.acc] =
              Account(r.acc, r.amount, Unquoted(r.newpass), salt)]
    BY DEF Create, GrantCode
  <1>3. r.acc \in Nat /\ r.amount \in Nat /\ r.newpass \in Passwords
    BY RequestFields
  <1>4. /\ r.acc \in Index \ {ADMIN} /\ r.amount \in 0..MAX_BALANCE
        /\ accounts[r.acc].account_id # r.acc
    BY <1>1, <1>3 DEF CreateCode, Between, InArray, Index, ADMIN
  <1> DEFINE new == Account(r.acc, r.amount, Unquoted(r.newpass), salt)
  <1>5. Hash(Unquoted(r.newpass), salt) \in HashType
    BY <1>3 DEF Hash, HashType
  <1>6. /\ new \in AccountType /\ new.balance = r.amount /\ new.account_id = r.acc
        /\ new.hash = Hash(Unquoted(r.newpass), new.salt)
    <2>1. r.amount \in 0 .. Word - 1
      BY <1>4
    <2> QED
      BY <1>4, <1>5, <2>1 DEF Account, AccountType
  <1> HIDE DEF new
  <1>7. /\ accounts' \in [Index -> AccountType]
        /\ accounts'[r.acc] = new
        /\ \A k \in Index \ {r.acc} : accounts'[k] = accounts[k]
    BY <1>2, <1>4, <1>6 DEF BalanceInv, new
  <1> QED
    BY <1>4, <1>6, <1>7

\* A create keeps the balances in their range.
LEMMA CreateRange ==
    ASSUME BalanceInv, NEW r \in Requests, Create(r) PROVE BalanceInv'
  <1>1. CASE GrantCode(r) # "OK"
    BY <1>1 DEF Create, GrantCode, BalanceInv, BalanceRange
  <1>2. CASE GrantCode(r) = "OK"
    <2>1. ADMIN \in Index
      BY BankAssumption DEF Index, ADMIN
    <2> QED
      BY <1>2, <2>1, CreateEffect DEF BalanceInv, BalanceRange
  <1> QED
    BY <1>1, <1>2

\* The range of the balances is inductive.
LEMMA BalanceStep == BalanceInv /\ [Next]_vars => BalanceInv'
  <1> SUFFICES ASSUME BalanceInv, [Next]_vars PROVE BalanceInv'
    OBVIOUS
  <1>1. ASSUME NEW r \in Requests, Create(r) PROVE BalanceInv'
    BY <1>1, CreateRange
  <1>2. ASSUME NEW r \in Requests, Transfer(r) PROVE BalanceInv'
    BY <1>2, TransferRange
  <1>3. ASSUME NEW r \in Requests, Balance(r) \/ Other(r) PROVE BalanceInv'
    BY <1>3 DEF Balance, Other, BalanceInv, BalanceRange
  <1>4. CASE UNCHANGED vars
    BY <1>4 DEF vars, BalanceInv, BalanceRange
  <1> QED
    BY <1>1, <1>2, <1>3, <1>4 DEF Next

\* No sequence of requests, whatever their amounts and passwords, takes a
\* balance above MAX_BALANCE or puts money into the admin's account.
THEOREM BalancesInRange == Spec => []BalanceRange
  <1>1. BalanceInv => BalanceRange
    BY DEF BalanceInv
  <1> QED
    BY <1>1, BalanceInit, BalanceStep, PTL DEF Spec

-----------------------------------------------------------------------------
(* Types.  A balance is reported only if the account exists.               *)

TypeInv == TypeOK /\ BalanceInv

\* Every series of checks gives one of the codes, and OK only for an account
\* that is in the array.
LEMMA UserCodes ==
    ASSUME BalanceInv, NEW r \in Requests, r.type \in {"balance", "transfer"}, InArray(accounts, r)
    PROVE  /\ UserCode(accounts, r) \in Codes
           /\ UserCode(accounts, r) = "OK" =>
                /\ r.id \in Index \ {ADMIN}
                /\ accounts[r.id].account_id = r.id
                /\ Hash(Quoted(r.password), accounts[r.id].salt) = accounts[r.id].hash
  <1>1. r.id \in Nat
    BY RequestFields
  <1> QED
    BY <1>1, BankAssumption DEF UserCode, UserIdCode, LoginCode, Then, Codes, Between, Index,
       ADMIN, InArray

\* An answer to a request is of the right type.
LEMMA AnswerTyped ==
    ASSUME TypeInv, NEW r \in Requests, NEW code \in Codes, NEW b,
           code = "OK" => b \in 0 .. Word - 1 \cup {NoBalance},
           Answer(r, code, b)
    PROVE  answers' \subseteq AnswerType
  <1> DEFINE x == [req |-> r, code |-> code,
                   balance |-> IF code = "OK" THEN b ELSE NoBalance]
  <1>1. x \in AnswerType
    BY DEF AnswerType
  <1>2. answers' = answers \cup {x}
    BY DEF Answer
  <1> HIDE DEF x
  <1> QED
    BY <1>1, <1>2 DEF TypeInv, TypeOK

\* Every step keeps the types.
LEMMA TypeStep == TypeInv /\ [Next]_vars => TypeInv'
  <1> SUFFICES ASSUME TypeInv, [Next]_vars PROVE TypeInv'
    OBVIOUS
  <1>0. BalanceInv /\ BalanceInv'
    BY BalanceStep DEF TypeInv
  <1> SUFFICES answers' \subseteq AnswerType
    BY <1>0 DEF TypeInv, TypeOK, BalanceInv
  <1>1. ASSUME NEW r \in Requests, Create(r) PROVE answers' \subseteq AnswerType
    <2>1. GrantCode(r) \in Codes
      BY DEF GrantCode, Then, AdminCode, CreateCode, Codes
    <2>2. Answer(r, GrantCode(r), NoBalance)
      BY <1>1 DEF Create, GrantCode
    <2> QED
      BY <2>1, <2>2, AnswerTyped
  <1>2. ASSUME NEW r \in Requests, Balance(r) PROVE answers' \subseteq AnswerType
    <2>1. /\ UserCode(accounts, r) \in Codes
          /\ UserCode(accounts, r) = "OK" => r.id \in Index
      BY <1>0, <1>2, UserCodes DEF Balance, Pending
    <2>2. UserCode(accounts, r) = "OK" => accounts[r.id].balance \in 0 .. Word - 1
      BY <1>0, <2>1 DEF BalanceInv, AccountType
    <2> QED
      BY <1>2, <2>1, <2>2, AnswerTyped DEF Balance
  <1>3. ASSUME NEW r \in Requests, Transfer(r) PROVE answers' \subseteq AnswerType
    <2>1. TransferCode(r) \in Codes
      BY <1>0, <1>3, UserCodes, RoomBetween DEF Transfer, Pending, TransferCode,
         Then, DestCode, FundsCode, Codes
    <2>2. TransferCode(r) = "OK" => accounts'[r.id].balance \in 0 .. Word - 1
      BY <1>0, <1>3, TransferEffect DEF BalanceInv, AccountType
    <2>3. Answer(r, TransferCode(r), accounts'[r.id].balance)
      BY <1>3 DEF Transfer, TransferCode
    <2> QED
      BY <2>1, <2>2, <2>3, AnswerTyped
  <1>4. ASSUME NEW r \in Requests, Other(r) PROVE answers' \subseteq AnswerType
    BY <1>4, AnswerTyped DEF Other
  <1>5. CASE UNCHANGED vars
    BY <1>5 DEF vars, TypeInv, TypeOK
  <1> QED
    BY <1>1, <1>2, <1>3, <1>4, <1>5 DEF Next

\* The accounts and the answers keep their types: a balance is reported only of
\* an account in the array.
THEOREM TypeCorrect == Spec => []TypeOK
  <1>1. Init => TypeInv
    BY BalanceInit DEF Init, TypeInv, TypeOK, BalanceInv
  <1>2. TypeInv => TypeOK
    BY DEF TypeInv
  <1> QED
    BY <1>1, <1>2, TypeStep, PTL DEF Spec

-----------------------------------------------------------------------------
(* Answers.  A request is accepted when the answer OK to it is sent.       *)

\* What an answer adds to the accepted requests.
LEMMA AcceptedStep ==
    ASSUME NEW r \in Requests, NEW code, NEW b, Answer(r, code, b), NEW type
    PROVE  Accepted(type)' = IF code = "OK" /\ r.type = type
                             THEN Accepted(type) \cup {r} ELSE Accepted(type)
  <1> DEFINE x == [req |-> r, code |-> code,
                   balance |-> IF code = "OK" THEN b ELSE NoBalance]
  <1>1. answers' = answers \cup {x}
    BY DEF Answer
  <1>2. x.req = r /\ x.code = code
    OBVIOUS
  <1> HIDE DEF x
  <1> QED
    BY <1>1, <1>2 DEF Accepted

-----------------------------------------------------------------------------
(* Money.  An account that was never created holds nothing, so that what a *)
(* create writes over is not lost.                                         *)

BooksInv ==
    /\ \A i \in Index : accounts[i].account_id # i => accounts[i].balance = 0
    /\ IsFiniteSet(Accepted("create"))
    /\ Conservation

Balances == [i \in Index |-> accounts[i].balance]
Amounts  == [r \in Requests |-> r.amount]

\* The two sums of Conservation are sums of numbers.
LEMMA SumFacts ==
    ASSUME BalanceInv
    PROVE  /\ IsFiniteSet(Index)
           /\ \A i \in Index : Balances[i] \in Int /\ Balances[i] = accounts[i].balance
           /\ \A r \in Requests : Amounts[r] \in Int /\ Amounts[r] = r.amount
           /\ Conservation <=> SumFunctionOnSet(Balances, Index)
                                = SumFunctionOnSet(Amounts, Accepted("create"))
  <1>1. IsFiniteSet(Index)
    BY BankAssumption, FS_Interval DEF Index
  <1>2. \A i \in Index : Balances[i] \in Int /\ Balances[i] = accounts[i].balance
    BY BalanceNat DEF Balances
  <1>3. \A r \in Requests : Amounts[r] \in Int /\ Amounts[r] = r.amount
    BY RequestFields DEF Amounts
  <1> QED
    BY <1>1, <1>2, <1>3 DEF Conservation, Balances, Amounts

\* A step that leaves the balances and the accepted creates alone keeps the books.
LEMMA BooksFrame ==
    ASSUME BalanceInv, BalanceInv', BooksInv,
           \A i \in Index : /\ accounts'[i].account_id = accounts[i].account_id
                            /\ accounts'[i].balance = accounts[i].balance,
           Accepted("create")' = Accepted("create")
    PROVE  BooksInv'
  <1>1. Balances' = Balances
    BY DEF Balances
  <1>2. Conservation'
    BY <1>1 DEF BooksInv, Conservation, Balances
  <1> QED
    BY <1>2 DEF BooksInv

\* A create adds to the accounts what it adds to the amounts granted.
LEMMA BooksCreate ==
    ASSUME BalanceInv, BalanceInv', BooksInv, NEW r \in Requests, Create(r)
    PROVE  BooksInv'
  <1>1. Answer(r, GrantCode(r), NoBalance) /\ r.type = "create"
    BY DEF Create, GrantCode, Pending
  <1>2. CASE GrantCode(r) # "OK"
    <2>1. accounts' = accounts
      BY <1>2 DEF Create, GrantCode
    <2>2. Accepted("create")' = Accepted("create")
      BY <1>1, <1>2, AcceptedStep
    <2> QED
      BY <2>1, <2>2, BooksFrame
  <1>3. CASE GrantCode(r) = "OK"
    <2> DEFINE old == Accepted("create")
    <2>1. Accepted("create")' = old \cup {r}
      BY <1>1, <1>3, AcceptedStep
    <2>2. r \notin old /\ IsFiniteSet(old) /\ old \subseteq Requests
      BY DEF Create, Pending, Accepted, BooksInv
    <2>3. /\ r.acc \in Index /\ accounts[r.acc].balance = 0
          /\ accounts'[r.acc].balance = r.amount /\ accounts'[r.acc].account_id = r.acc
          /\ \A k \in Index \ {r.acc} : accounts'[k] = accounts[k]
      BY <1>3, CreateEffect DEF BooksInv
    <2> HIDE DEF old
    <2>4. SumFunctionOnSet(Amounts, old \cup {r})
            = Amounts[r] + SumFunctionOnSet(Amounts, old)
      BY <2>2, SumFacts, SumAdd
    <2>5. SumFunctionOnSet(Balances', Index)
            = SumFunctionOnSet(Balances, Index) + (Balances'[r.acc] - Balances[r.acc])
      <3>1. \A k \in Index : Balances'[k] = accounts'[k].balance
        BY DEF Balances
      <3>2. /\ \A k \in Index : k # r.acc => Balances'[k] = Balances[k]
            /\ Balances'[r.acc] \in Int
        BY <2>3, <3>1, SumFacts, RequestFields
      <3> DEFINE new == Balances'
      <3> HIDE DEF new
      <3>3. /\ \A k \in Index : k # r.acc => new[k] = Balances[k]
            /\ new[r.acc] \in Int
        BY <3>2 DEF new
      <3>4. SumFunctionOnSet(new, Index)
              = SumFunctionOnSet(Balances, Index) + (new[r.acc] - Balances[r.acc])
        BY <2>3, <3>3, SumFacts, SumChange
      <3> QED
        BY <3>4 DEF new
    <2>6. Balances'[r.acc] = r.amount /\ Balances[r.acc] = 0 /\ Amounts[r] = r.amount
      BY <2>3 DEF Balances, Amounts
    <2>7. SumFunctionOnSet(Balances, Index) = SumFunctionOnSet(Amounts, old)
      BY SumFacts DEF BooksInv, old
    <2>8. SumFunctionOnSet(Balances, Index) \in Int /\ r.amount \in Int
      BY SumFacts, SumInt, RequestFields
    <2>9. SumFunctionOnSet(Balances', Index) = SumFunctionOnSet(Amounts, old \cup {r})
      BY <2>4, <2>5, <2>6, <2>7, <2>8
    <2>10. Conservation'
      BY <2>1, <2>9 DEF Conservation, Balances, Amounts
    <2>11. IsFiniteSet(Accepted("create")')
      BY <2>1, <2>2, FS_AddElement
    <2> QED
      BY <2>3, <2>10, <2>11 DEF BooksInv
  <1> QED
    BY <1>2, <1>3

\* A transfer takes from one account what it gives to the other.
LEMMA BooksTransfer ==
    ASSUME BalanceInv, BalanceInv', BooksInv, NEW r \in Requests, Transfer(r)
    PROVE  BooksInv'
  <1>1. Accepted("create")' = Accepted("create")
    <2>1. Answer(r, TransferCode(r), accounts'[r.id].balance) /\ r.type # "create"
      BY DEF Transfer, TransferCode, Pending
    <2> QED
      BY <2>1, AcceptedStep
  <1>2. CASE accounts' = accounts
    BY <1>1, <1>2, BooksFrame
  <1>3. CASE accounts' # accounts
    <2>1. TransferCode(r) = "OK"
      BY <1>3 DEF Transfer, TransferCode
    <2>2. /\ r.id \in Index /\ r.acc \in Index /\ r.id # r.acc
          /\ accounts[r.id].account_id = r.id /\ accounts[r.acc].account_id = r.acc
          /\ accounts'[r.id].balance = accounts[r.id].balance - r.amount
          /\ accounts'[r.acc].balance = accounts[r.acc].balance + r.amount
          /\ \A k \in Index \ {r.id, r.acc} :
                accounts'[k].balance = accounts[k].balance
          /\ \A k \in Index : accounts'[k].account_id = accounts[k].account_id
      BY <1>3, <2>1, TransferEffect
    <2> DEFINE mid == [Balances EXCEPT ![r.id] = @ - r.amount]
               new == Balances'
    <2>3. r.amount \in Int
      BY RequestFields
    <2>4. /\ \A k \in Index : mid[k] \in Int
          /\ \A k \in Index : k # r.id => mid[k] = Balances[k]
          /\ mid[r.id] = Balances[r.id] - r.amount
      BY <2>2, <2>3, SumFacts DEF Balances
    <2>5. /\ \A k \in Index : k # r.acc => new[k] = mid[k]
          /\ new[r.acc] = mid[r.acc] + r.amount
      BY <2>2, <2>4 DEF Balances
    <2>6. new[r.acc] \in Int /\ mid[r.id] \in Int /\ Balances[r.id] \in Int
          /\ mid[r.acc] \in Int
      BY <2>2, <2>3, <2>4, <2>5, SumFacts
    <2> HIDE DEF mid, new
    <2>7. SumFunctionOnSet(mid, Index)
            = SumFunctionOnSet(Balances, Index) + (mid[r.id] - Balances[r.id])
      BY <2>2, <2>4, <2>6, SumFacts, SumChange
    <2>8. SumFunctionOnSet(new, Index)
            = SumFunctionOnSet(mid, Index) + (new[r.acc] - mid[r.acc])
      BY <2>2, <2>4, <2>5, <2>6, SumFacts, SumChange
    <2>9. SumFunctionOnSet(Balances, Index) \in Int
      BY SumFacts, SumInt
    <2>10. SumFunctionOnSet(new, Index) = SumFunctionOnSet(Balances, Index)
      BY <2>3, <2>4, <2>5, <2>6, <2>7, <2>8, <2>9
    <2>11. Conservation'
      BY <1>1, <2>10 DEF BooksInv, Conservation, new, Balances
    <2>12. \A i \in Index : accounts'[i].account_id # i => accounts'[i].balance = 0
      BY <2>2 DEF BooksInv
    <2> QED
      BY <1>1, <2>11, <2>12 DEF BooksInv
  <1> QED
    BY <1>2, <1>3

\* The books are inductive.
LEMMA BooksStep == BalanceInv /\ BooksInv /\ [Next]_vars => BooksInv'
  <1> SUFFICES ASSUME BalanceInv, BooksInv, [Next]_vars PROVE BooksInv'
    OBVIOUS
  <1>0. BalanceInv'
    BY BalanceStep
  <1>1. ASSUME NEW r \in Requests, Create(r) PROVE BooksInv'
    BY <1>0, <1>1, BooksCreate
  <1>2. ASSUME NEW r \in Requests, Transfer(r) PROVE BooksInv'
    BY <1>0, <1>2, BooksTransfer
  <1>3. ASSUME NEW r \in Requests, Balance(r) \/ Other(r) PROVE BooksInv'
    <2>1. accounts' = accounts /\ r.type # "create"
      BY <1>3 DEF Balance, Other, Pending
    <2>2. \E code, b : Answer(r, code, b)
      BY <1>3 DEF Balance, Other
    <2>3. Accepted("create")' = Accepted("create")
      BY <2>1, <2>2, AcceptedStep
    <2> QED
      BY <1>0, <2>1, <2>3, BooksFrame
  <1>4. CASE UNCHANGED vars
    <2>1. Accepted("create")' = Accepted("create") /\ accounts' = accounts
      BY <1>4 DEF vars, Accepted
    <2> QED
      BY <1>0, <2>1, BooksFrame
  <1> QED
    BY <1>1, <1>2, <1>3, <1>4 DEF Next

\* At first there is no money.
LEMMA BooksInit == Init => BooksInv
  <1> SUFFICES ASSUME Init PROVE BooksInv
    OBVIOUS
  <1>1. BalanceInv
    BY BalanceInit
  <1>2. \A i \in Index : accounts[i].balance = 0
    <2>1. PICK salt \in Salts : accounts = WithAdmin(salt)
      BY DEF Init
    <2> QED
      BY <2>1 DEF WithAdmin, Account, NoAccount
  <1>3. Accepted("create") = {}
    BY DEF Init, Accepted
  <1>4. SumFunctionOnSet(Balances, Index) = 0
    BY <1>1, <1>2, SumFacts, SumZeros
  <1>5. Conservation
    BY <1>1, <1>3, <1>4, SumFacts, SumEmpty
  <1> QED
    BY <1>2, <1>3, <1>5, FS_EmptySet DEF BooksInv

\* No money appears or vanishes, whatever is requested: for any number of
\* accounts and requests the balances add up to what the accepted creates put in.
THEOREM MoneyConserved == Spec => []Conservation
  <1>1. BooksInv => Conservation
    BY DEF BooksInv
  <1> QED
    BY <1>1, BalanceInit, BalanceStep, BooksInit, BooksStep, PTL DEF Spec

-----------------------------------------------------------------------------
(* Authority.  The array remembers who created an account: the admin's      *)
(* account never changes, an account that exists has the hash of the        *)
(* password some accepted create gave it, and an accepted create leaves an  *)
(* account that exists for good.                                            *)

CreatedBy(i) ==
    \E s \in Accepted("create") :
        s.acc = i /\ accounts[i].hash = Hash(Unquoted(s.newpass), accounts[i].salt)

AuthInv ==
    /\ accounts[ADMIN].account_id = ADMIN
    /\ accounts[ADMIN].hash = Hash(Quoted(AdminPassword), accounts[ADMIN].salt)
    /\ \A i \in Index \ {ADMIN} : accounts[i].account_id = i => CreatedBy(i)
    /\ \A s \in Accepted("create") :
         s.acc \in Index \ {ADMIN} /\ accounts[s.acc].account_id = s.acc
    /\ Authentic

\* A step that leaves the ids, the salts, the hashes and the accepted creates
\* alone, and accepts only requests with the password of their account, keeps
\* the authority.
LEMMA AuthFrame ==
    ASSUME AuthInv,
           \A k \in Index : /\ accounts'[k].account_id = accounts[k].account_id
                            /\ accounts'[k].salt = accounts[k].salt
                            /\ accounts'[k].hash = accounts[k].hash,
           Accepted("create")' = Accepted("create"),
           \A r \in (Accepted("balance") \cup Accepted("transfer"))' :
              \/ r \in Accepted("balance") \cup Accepted("transfer")
              \/ /\ r.id \in Index \ {ADMIN}
                 /\ accounts[r.id].account_id = r.id
                 /\ Hash(Quoted(r.password), accounts[r.id].salt) = accounts[r.id].hash
    PROVE  AuthInv'
  <1>0. ADMIN \in Index
    BY BankAssumption DEF Index, ADMIN
  <1>1. \A i \in Index : CreatedBy(i) => CreatedBy(i)'
    BY DEF CreatedBy
  <1>2. ASSUME NEW r \in (Accepted("balance") \cup Accepted("transfer"))'
        PROVE  \E s \in Accepted("create") :
                  s.acc = r.id /\ Unquoted(s.newpass) = Quoted(r.password)
    <2>1. CASE r \in Accepted("balance") \cup Accepted("transfer")
      BY <2>1 DEF AuthInv, Authentic
    <2>2. CASE /\ r.id \in Index \ {ADMIN}
               /\ accounts[r.id].account_id = r.id
               /\ Hash(Quoted(r.password), accounts[r.id].salt) = accounts[r.id].hash
      <3>1. PICK s \in Accepted("create") :
               /\ s.acc = r.id
               /\ accounts[r.id].hash
                    = Hash(Unquoted(s.newpass), accounts[r.id].salt)
        BY <2>2 DEF AuthInv, CreatedBy
      <3> QED
        BY <2>2, <3>1, HashFacts
    <2> QED
      BY <1>2, <2>1, <2>2
  <1>3. Authentic'
    BY <1>2 DEF AuthInv, Authentic
  <1> QED
    BY <1>0, <1>1, <1>3 DEF AuthInv

\* A create is the admin's, and the account it fills was nobody's.
LEMMA AuthCreate ==
    ASSUME BalanceInv, AuthInv, NEW r \in Requests, Create(r) PROVE AuthInv'
  <1>1. Answer(r, GrantCode(r), NoBalance) /\ r.type = "create"
    BY DEF Create, GrantCode, Pending
  <1>2. /\ Accepted("balance")' = Accepted("balance")
        /\ Accepted("transfer")' = Accepted("transfer")
    BY <1>1, AcceptedStep
  <1>3. CASE GrantCode(r) # "OK"
    <2>1. accounts' = accounts
      BY <1>3 DEF Create, GrantCode
    <2>2. Accepted("create")' = Accepted("create")
      BY <1>1, <1>3, AcceptedStep
    <2> QED
      BY <1>2, <2>1, <2>2, AuthFrame
  <1>4. CASE GrantCode(r) = "OK"
    <2>0. ADMIN \in Index
      BY BankAssumption DEF Index, ADMIN
    <2>1. Accepted("create")' = Accepted("create") \cup {r}
      BY <1>1, <1>4, AcceptedStep
    <2>2. /\ r.acc \in Index \ {ADMIN}
          /\ accounts[r.acc].account_id # r.acc
          /\ accounts'[r.acc].account_id = r.acc
          /\ accounts'[r.acc].hash = Hash(Unquoted(r.newpass), accounts'[r.acc].salt)
          /\ \A k \in Index \ {r.acc} : accounts'[k] = accounts[k]
      BY <1>4, CreateEffect
    <2>3. FromAdmin(r)
      <3>1. AdminCode(accounts, r) = "OK"
        BY <1>4 DEF GrantCode, Then
      <3>2. /\ r.id = ADMIN
            /\ Hash(Quoted(r.password), accounts[ADMIN].salt) = accounts[ADMIN].hash
        BY <3>1 DEF AdminCode
      <3> QED
        BY <3>2, HashFacts DEF AuthInv, FromAdmin
    <2>4. \A i \in Index \ {ADMIN} : accounts'[i].account_id = i => CreatedBy(i)'
      BY <2>1, <2>2 DEF AuthInv, CreatedBy
    <2>5. \A s \in Accepted("create")' :
            s.acc \in Index \ {ADMIN} /\ accounts'[s.acc].account_id = s.acc
      BY <2>1, <2>2 DEF AuthInv
    <2>6. \A s \in Accepted("create") : s.acc # r.acc
      BY <2>2 DEF AuthInv
    <2>7. Authentic'
      BY <1>2, <2>1, <2>3, <2>6 DEF AuthInv, Authentic
    <2> QED
      BY <2>0, <2>2, <2>4, <2>5, <2>7 DEF AuthInv
  <1> QED
    BY <1>3, <1>4

\* A balance or a transfer is accepted with the password of the account.
LEMMA AuthUser ==
    ASSUME BalanceInv, AuthInv, NEW r \in Requests, Balance(r) \/ Transfer(r)
    PROVE  AuthInv'
  <1>0. r.type \in {"balance", "transfer"} /\ InArray(accounts, r)
    BY DEF Balance, Transfer, Pending
  <1>1. PICK code, b : /\ Answer(r, code, b)
                       /\ code = "OK" => UserCode(accounts, r) = "OK"
    BY DEF Balance, Transfer, Then
  <1>2. Accepted("create")' = Accepted("create")
    BY <1>0, <1>1, AcceptedStep
  <1>3. \A q \in (Accepted("balance") \cup Accepted("transfer"))' :
           \/ q \in Accepted("balance") \cup Accepted("transfer")
           \/ q = r /\ code = "OK"
    BY <1>1, AcceptedStep
  <1>4. code = "OK" =>
           /\ r.id \in Index \ {ADMIN}
           /\ accounts[r.id].account_id = r.id
           /\ Hash(Quoted(r.password), accounts[r.id].salt) = accounts[r.id].hash
    BY <1>0, <1>1, UserCodes
  <1>5. \A k \in Index : /\ accounts'[k].account_id = accounts[k].account_id
                         /\ accounts'[k].salt = accounts[k].salt
                         /\ accounts'[k].hash = accounts[k].hash
    <2>1. CASE accounts' = accounts
      BY <2>1
    <2>2. CASE accounts' # accounts
      <3>1. Transfer(r) /\ TransferCode(r) = "OK"
        BY <2>2 DEF Balance, Transfer, TransferCode
      <3> QED
        BY <3>1, TransferEffect
    <2> QED
      BY <2>1, <2>2
  <1> QED
    BY <1>2, <1>3, <1>4, <1>5, AuthFrame

\* The authority is inductive.
LEMMA AuthStep == BalanceInv /\ AuthInv /\ [Next]_vars => AuthInv'
  <1> SUFFICES ASSUME BalanceInv, AuthInv, [Next]_vars PROVE AuthInv'
    OBVIOUS
  <1>1. ASSUME NEW r \in Requests, Create(r) PROVE AuthInv'
    BY <1>1, AuthCreate
  <1>2. ASSUME NEW r \in Requests, Balance(r) \/ Transfer(r) PROVE AuthInv'
    BY <1>2, AuthUser
  <1>3. ASSUME NEW r \in Requests, Other(r) PROVE AuthInv'
    <2>1. accounts' = accounts /\ r.type = "other"
      BY <1>3 DEF Other, Pending
    <2>2. \E code, b : Answer(r, code, b)
      BY <1>3 DEF Other
    <2>3. /\ Accepted("create")' = Accepted("create")
          /\ Accepted("balance")' = Accepted("balance")
          /\ Accepted("transfer")' = Accepted("transfer")
      BY <2>1, <2>2, AcceptedStep
    <2> QED
      BY <2>1, <2>3, AuthFrame
  <1>4. CASE UNCHANGED vars
    <2>1. /\ Accepted("create")' = Accepted("create")
          /\ Accepted("balance")' = Accepted("balance")
          /\ Accepted("transfer")' = Accepted("transfer")
      BY <1>4 DEF vars, Accepted
    <2> QED
      BY <1>4, <2>1, AuthFrame DEF vars
  <1> QED
    BY <1>1, <1>2, <1>3, <1>4 DEF Next

\* At first the admin's account is the only one, and nothing is accepted.
LEMMA AuthInit == Init => AuthInv
  <1> SUFFICES ASSUME Init PROVE AuthInv
    OBVIOUS
  <1>1. PICK salt \in Salts : accounts = WithAdmin(salt)
    BY DEF Init
  <1>2. \A type : Accepted(type) = {}
    BY DEF Init, Accepted
  <1>3. /\ accounts[ADMIN].account_id = ADMIN
        /\ accounts[ADMIN].hash = Hash(Quoted(AdminPassword), accounts[ADMIN].salt)
    BY <1>1, BankAssumption DEF WithAdmin, Account, Index, ADMIN
  <1>4. \A i \in Index \ {ADMIN} : accounts[i].account_id # i
    BY <1>1 DEF WithAdmin, NoAccount, ADMIN
  <1> QED
    BY <1>2, <1>3, <1>4 DEF AuthInv, Authentic

\* An account is created at most once and by the admin, and whoever is answered
\* OK gave a password that the shell reads, in quotes, as it read without them the
\* one the account was created with, however the requests follow each other and
\* whatever the shell makes of the passwords.
THEOREM OnlyAuthentic == Spec => []Authentic
  <1>1. AuthInv => Authentic
    BY DEF AuthInv
  <1> QED
    BY <1>1, BalanceInit, BalanceStep, AuthInit, AuthStep, PTL DEF Spec

-----------------------------------------------------------------------------
(* Answers.  Each check of server.c that fails stands for an error that     *)
(* types.h describes, and if none fails none of them applies.               *)

\* When each of the errors is among those of a request.
LEMMA ErrorCases ==
    ASSUME NEW a, NEW r
    PROVE  /\ Errors(a, r) \subseteq {"LOGIN_FAIL", "OP_NALLOW", "ID_IN_USE",
                  "ID_NOT_FOUND", "SAME_ID", "NO_FUNDS", "TOO_HIGH"}
           /\ "LOGIN_FAIL" \in Errors(a, r) <=>
                Exists(a, r.id) /\ a[r.id].hash # Hash(Quoted(r.password), a[r.id].salt)
           /\ "OP_NALLOW" \in Errors(a, r) <=> (r.type = "create") # (r.id = ADMIN)
           /\ "ID_IN_USE" \in Errors(a, r) <=> r.type = "create" /\ Exists(a, r.acc)
           /\ "ID_NOT_FOUND" \in Errors(a, r) <=>
                ~Exists(a, r.id) \/ (r.type = "transfer" /\ ~Exists(a, r.acc))
           /\ "NO_FUNDS" \in Errors(a, r) <=>
                /\ r.type = "transfer" /\ Exists(a, r.id)
                /\ a[r.id].balance < r.amount + MIN_BALANCE
           /\ "TOO_HIGH" \in Errors(a, r) <=>
                /\ r.type = "transfer" /\ Exists(a, r.acc)
                /\ a[r.acc].balance + r.amount > MAX_BALANCE
  BY DEF Errors, Applies

\* What JustlyAccepted says of the answer code to r.
Just(r, code) ==
    LET errors == Errors(accounts, r) \ Tolerated(accounts, r)
    IN  IF code = "OK" THEN errors = {}
        ELSE \/ errors # {}
             \/ code = "OTHER"
             \/ code = "NO_FUNDS" /\ r.amount = 0

\* The codes of a create.
LEMMA JustCreate ==
    ASSUME AuthInv, NEW r \in Requests, r.type = "create", InArray(accounts, r)
    PROVE  Just(r, GrantCode(r))
  <1>0. /\ ADMIN \in Index /\ Exists(accounts, ADMIN)
        /\ AdminCode(accounts, r) = "OK" => r.acc \in Index
    BY BankAssumption DEF Index, ADMIN, InArray, AuthInv, Exists
  <1>1. Tolerated(accounts, r) = {"SAME_ID"}
    BY DEF Tolerated
  <1>2. "SAME_ID" \notin Errors(accounts, r)
    BY DEF Errors, Applies
  <1>3. CASE GrantCode(r) = "OK"
    <2>1. AdminCode(accounts, r) = "OK" /\ CreateCode(accounts, r) = "OK"
      BY <1>3 DEF GrantCode, Then
    <2>2. /\ r.id = ADMIN
          /\ Hash(Quoted(r.password), accounts[ADMIN].salt) = accounts[ADMIN].hash
          /\ accounts[r.acc].account_id # r.acc
      BY <2>1 DEF AdminCode, CreateCode
    <2>3. Errors(accounts, r) = {}
      BY <1>0, <1>2, <2>2, ErrorCases DEF Exists
    <2> QED
      BY <1>3, <2>3 DEF Just
  <1>4. CASE GrantCode(r) # "OK" /\ GrantCode(r) # "OTHER"
    <2>1. \/ r.id # ADMIN
          \/ /\ r.id = ADMIN
             /\ Hash(Quoted(r.password), accounts[ADMIN].salt) # accounts[ADMIN].hash
          \/ AdminCode(accounts, r) = "OK" /\ accounts[r.acc].account_id = r.acc
      BY <1>4 DEF GrantCode, Then, AdminCode, CreateCode
    <2>2. \/ "OP_NALLOW" \in Errors(accounts, r)
          \/ "LOGIN_FAIL" \in Errors(accounts, r)
          \/ "ID_IN_USE" \in Errors(accounts, r)
      BY <1>0, <2>1, ErrorCases DEF Exists
    <2> QED
      BY <1>1, <1>4, <2>2 DEF Just
  <1> QED
    BY <1>3, <1>4 DEF Just

\* The first checks of a balance or a transfer.
LEMMA JustUser ==
    ASSUME NEW r \in Requests, r.type \in {"balance", "transfer"}, InArray(accounts, r)
    PROVE  /\ UserCode(accounts, r) = "OK" =>
                /\ Exists(accounts, r.id)
                /\ {"LOGIN_FAIL", "OP_NALLOW", "ID_IN_USE"} \cap Errors(accounts, r) = {}
           /\ UserCode(accounts, r) # "OK" => Just(r, UserCode(accounts, r))
  <1>0. r.id \in Nat
    BY RequestFields
  <1>1. ASSUME UserCode(accounts, r) = "OK"
        PROVE  /\ Exists(accounts, r.id)
               /\ {"LOGIN_FAIL", "OP_NALLOW", "ID_IN_USE"} \cap Errors(accounts, r) = {}
    <2>1. /\ r.id # ADMIN /\ r.id \in Index /\ accounts[r.id].account_id = r.id
          /\ Hash(Quoted(r.password), accounts[r.id].salt) = accounts[r.id].hash
      BY <1>0, <1>1, BankAssumption DEF UserCode, Then, UserIdCode, LoginCode, Between,
         Index, ADMIN, InArray
    <2> QED
      BY <2>1, ErrorCases DEF Exists
  <1>2. ASSUME UserCode(accounts, r) # "OK", UserCode(accounts, r) # "OTHER"
        PROVE  Just(r, UserCode(accounts, r))
    <2>1. \/ r.id = ADMIN
          \/ accounts[r.id].account_id # r.id
          \/ /\ r.id \in Index /\ accounts[r.id].account_id = r.id
             /\ Hash(Quoted(r.password), accounts[r.id].salt) # accounts[r.id].hash
      BY <1>0, <1>2, BankAssumption DEF UserCode, Then, UserIdCode, LoginCode, Between,
         Index, ADMIN, InArray
    <2>2. \/ "OP_NALLOW" \in Errors(accounts, r)
          \/ "ID_NOT_FOUND" \in Errors(accounts, r)
          \/ "LOGIN_FAIL" \in Errors(accounts, r)
      BY <2>1, ErrorCases DEF Exists
    <2> QED
      BY <1>2, <2>2 DEF Just, Tolerated
  <1> QED
    BY <1>1, <1>2 DEF Just

\* The codes of a balance.
LEMMA JustBalance ==
    ASSUME NEW r \in Requests, r.type = "balance", InArray(accounts, r)
    PROVE  Just(r, UserCode(accounts, r))
  <1>1. CASE UserCode(accounts, r) = "OK"
    <2>1. "SAME_ID" \notin Errors(accounts, r)
      BY DEF Errors, Applies
    <2>2. Errors(accounts, r) = {}
      BY <1>1, <2>1, JustUser, ErrorCases
    <2> QED
      BY <1>1, <2>2 DEF Just
  <1> QED
    BY <1>1, JustUser

\* The codes of a transfer.
LEMMA JustTransfer ==
    ASSUME BalanceInv, NEW r \in Requests, r.type = "transfer", InArray(accounts, r)
    PROVE  Just(r, TransferCode(r))
  <1>0. r.amount \in Nat /\ (UserCode(accounts, r) = "OK" => r.acc \in Index)
    BY RequestFields DEF InArray
  <1>1. CASE UserCode(accounts, r) # "OK"
    BY <1>1, JustUser DEF TransferCode, Then
  <1>2. CASE UserCode(accounts, r) = "OK" /\ DestCode(accounts, r) # "OK"
    <2>1. TransferCode(r) = "OTHER" \/ "ID_NOT_FOUND" \in Errors(accounts, r)
      BY <1>0, <1>2, ErrorCases DEF TransferCode, Then, DestCode, Exists
    <2>2. TransferCode(r) # "OK"
      BY <1>2 DEF TransferCode, Then
    <2> QED
      BY <2>1, <2>2 DEF Just, Tolerated
  <1>3. CASE UserCode(accounts, r) = "OK" /\ DestCode(accounts, r) = "OK"
    <2>1. TransferCode(r) = Then(FundsCode(accounts, r), RoomCode(accounts, r))
      BY <1>3 DEF TransferCode, Then
    <2>2. r.id \in Index /\ Exists(accounts, r.id) /\ Exists(accounts, r.acc)
      BY <1>0, <1>3, JustUser DEF DestCode, Exists
    <2> DEFINE b == accounts[r.id].balance
               c == accounts[r.acc].balance
    <2>3. b \in 0..MAX_BALANCE /\ c \in 0..MAX_BALANCE
      BY <1>0, <1>3, <2>2, BalanceNat
    <2>4. ASSUME r.amount <= b, r.amount # 0
          PROVE  (r.amount + c) % Word = r.amount + c
      <3>1. r.amount + c \in Nat /\ r.amount + c < Word /\ Word \in Nat
        BY <1>0, <2>3, <2>4, BankAssumption
      <3> HIDE DEF c
      <3> QED
        BY <3>1, ModSmall
    <2>5. /\ "NO_FUNDS" \in Errors(accounts, r) <=> b < r.amount + MIN_BALANCE
          /\ "TOO_HIGH" \in Errors(accounts, r) <=> c + r.amount > MAX_BALANCE
          /\ {"LOGIN_FAIL", "OP_NALLOW", "ID_IN_USE", "ID_NOT_FOUND"}
               \cap Errors(accounts, r) = {}
      BY <1>3, <2>2, JustUser, ErrorCases
    <2>6. Tolerated(accounts, r) = {"SAME_ID"} \cup
              (IF b = r.amount THEN {"NO_FUNDS"} ELSE {})
      BY <2>2 DEF Tolerated
    <2> HIDE DEF b, c
    <2>7. CASE r.amount # 0 /\ r.amount <= b /\ r.amount + c <= MAX_BALANCE
      <3>1. TransferCode(r) = "OK"
        BY <1>0, <2>1, <2>3, <2>4, <2>7, RoomBetween DEF FundsCode, Then, Between,
           MIN_BALANCE, b, c
      <3>2. "TOO_HIGH" \notin Errors(accounts, r)
        BY <1>0, <2>3, <2>5, <2>7, BankAssumption
      <3>3. "NO_FUNDS" \in Errors(accounts, r) => b = r.amount
        BY <1>0, <2>3, <2>5, <2>7, BankAssumption DEF MIN_BALANCE
      <3>4. Errors(accounts, r) \subseteq Tolerated(accounts, r)
        BY <2>5, <2>6, <3>2, <3>3, ErrorCases
      <3> QED
        BY <3>1, <3>4 DEF Just
    <2>8. CASE r.amount = 0
      <3>1. TransferCode(r) = "NO_FUNDS"
        BY <2>1, <2>8 DEF FundsCode, Then, Between, MIN_BALANCE
      <3> QED
        BY <2>8, <3>1 DEF Just
    <2>9. CASE r.amount # 0 /\ r.amount > b
      <3>1. TransferCode(r) # "OK"
        BY <1>0, <2>1, <2>3, <2>9, BankAssumption DEF FundsCode, Then, Between, b
      <3>2. "NO_FUNDS" \in Errors(accounts, r) \ Tolerated(accounts, r)
        BY <1>0, <2>3, <2>5, <2>6, <2>9, BankAssumption DEF MIN_BALANCE
      <3> QED
        BY <3>1, <3>2 DEF Just
    <2>10. CASE r.amount # 0 /\ r.amount <= b /\ r.amount + c > MAX_BALANCE
      <3>1. TransferCode(r) # "OK"
        BY <1>0, <2>1, <2>3, <2>4, <2>10, RoomBetween, BankAssumption DEF FundsCode, Then,
           Between, MIN_BALANCE, b, c
      <3>2. "TOO_HIGH" \in Errors(accounts, r) \ Tolerated(accounts, r)
        BY <1>0, <2>3, <2>5, <2>6, <2>10, BankAssumption
      <3> QED
        BY <3>1, <3>2 DEF Just
    <2> QED
      BY <1>0, <2>3, <2>7, <2>8, <2>9, <2>10, BankAssumption
  <1> QED
    BY <1>1, <1>2, <1>3

\* The answer a step adds is the one it sends.
LEMMA NewAnswer ==
    ASSUME NEW r \in Requests, NEW code, NEW b, Answer(r, code, b),
           NEW x \in answers' \ answers
    PROVE  x.req = r /\ x.code = code
  BY DEF Answer

\* A request is answered OK exactly if none of the errors that types.h describes
\* applies to it, up to the three differences that Tolerated and JustlyAccepted
\* name: for every history, every amount and every limit.
THEOREM AcceptedJustly == Spec => JustlyAccepted
  <1>1. ASSUME BalanceInv, AuthInv, [Next]_vars
        PROVE  \A x \in answers' \ answers : x.req.type # "other" => Just(x.req, x.code)
    <2> SUFFICES ASSUME NEW x \in answers' \ answers, x.req.type # "other"
                 PROVE  Just(x.req, x.code)
      OBVIOUS
    <2>1. ASSUME NEW r \in Requests, Create(r) PROVE Just(x.req, x.code)
      <3>1. Answer(r, GrantCode(r), NoBalance) /\ r.type = "create" /\ InArray(accounts, r)
        BY <2>1 DEF Create, GrantCode, Pending
      <3> QED
        BY <1>1, <3>1, NewAnswer, JustCreate
    <2>2. ASSUME NEW r \in Requests, Balance(r) PROVE Just(x.req, x.code)
      <3>1. /\ Answer(r, UserCode(accounts, r), accounts[r.id].balance)
            /\ r.type = "balance" /\ InArray(accounts, r)
        BY <2>2 DEF Balance, Pending
      <3> QED
        BY <3>1, NewAnswer, JustBalance
    <2>3. ASSUME NEW r \in Requests, Transfer(r) PROVE Just(x.req, x.code)
      <3>1. /\ Answer(r, TransferCode(r), accounts'[r.id].balance)
            /\ r.type = "transfer" /\ InArray(accounts, r)
        BY <2>3 DEF Transfer, TransferCode, Pending
      <3> QED
        BY <1>1, <3>1, NewAnswer, JustTransfer
    <2>4. ASSUME NEW r \in Requests, Other(r) PROVE FALSE
      <3>1. r.type = "other" /\ \E code, b : Answer(r, code, b)
        BY <2>4 DEF Other, Pending
      <3> QED
        BY <3>1, NewAnswer
    <2>5. CASE UNCHANGED vars
      BY <2>5 DEF vars
    <2> QED
      BY <1>1, <2>1, <2>2, <2>3, <2>4, <2>5 DEF Next
  <1>2. BalanceInv /\ AuthInv /\ [Next]_vars =>
          [\A x \in answers' \ answers : x.req.type # "other" =>
             LET errors == Errors(accounts, x.req) \ Tolerated(accounts, x.req)
             IN  IF x.code = "OK" THEN errors = {}
                 ELSE \/ errors # {}
                      \/ x.code = "OTHER"
                      \/ x.code = "NO_FUNDS" /\ x.req.amount = 0]_vars
    BY <1>1 DEF Just
  <1> QED
    BY <1>2, BalanceInit, BalanceStep, AuthInit, AuthStep, PTL
       DEF Spec, JustlyAccepted

=============================================================================
