--------------------------- MODULE AccountsProofs ---------------------------
(***************************************************************************)
(* What the theorems of BankProofs and of LedgerProofs use of the requests *)
(* and of the accounts.                                                    *)
(***************************************************************************)
EXTENDS Accounts, TLAPS

\* Below Word, unsigned arithmetic is arithmetic.
LEMMA ModSmall ==
    ASSUME NEW w \in Nat, NEW x \in Nat, x < w PROVE x % w = x
  OBVIOUS

\* The sums and differences of a transfer from a balance b to a balance c.
LEMMA NoWrap ==
    ASSUME NEW w \in Nat, NEW m \in Nat, 2 * m < w,
           NEW a \in Nat, NEW b \in 0..m, NEW c \in 0..m,
           a <= b, (a + c) % w <= m
    PROVE  /\ a + c <= m
           /\ (b - a) % w = b - a
           /\ (c + a) % w = c + a
           /\ (b - a + a) % w = b
  <1>1. a + c \in Nat /\ a + c < w /\ b - a \in Nat /\ b - a < w
    OBVIOUS
  <1>2. (a + c) % w = a + c /\ (b - a) % w = b - a
    BY <1>1, ModSmall
  <1>3. c + a = a + c /\ b - a + a = b
    OBVIOUS
  <1>4. b % w = b
    BY ModSmall
  <1> QED
    BY <1>2, <1>3, <1>4

\* The fields of a request.
LEMMA RequestFields ==
    ASSUME NEW r \in Requests
    PROVE  /\ r.id \in Nat /\ r.acc \in Nat /\ r.amount \in 0 .. Word - 1
           /\ r.password \in Passwords /\ r.newpass \in Passwords
           /\ r.type \in {"create", "balance", "transfer", "other"}
  <1>1. r \in RequestType /\ Ids \subseteq Nat /\ r.amount < Word
    BY BankAssumption
  <1>2. /\ r.id \in Ids /\ r.acc \in Ids /\ r.amount \in Nat
        /\ r.password \in Passwords /\ r.newpass \in Passwords
        /\ r.type \in {"create", "balance", "transfer", "other"}
    BY <1>1 DEF RequestType
  <1>3. r.amount \in 0 .. Word - 1
    BY <1>1, <1>2, BankAssumption
  <1> QED
    BY <1>1, <1>2, <1>3

\* Passwords with the same salt have the same hash only if they are the same, and
\* none has the hash of a zeroed account.
LEMMA HashFacts ==
    ASSUME NEW p, NEW s
    PROVE  /\ Hash(p, s).password = p
           /\ Hash(p, s) # NoHash
           /\ \A q, t : Hash(p, s) = Hash(q, t) => p = q
  <1>1. \A q, t : Hash(q, t).password = q
    BY DEF Hash
  <1>2. DOMAIN Hash(p, s) = {"password", "salt"} /\ DOMAIN NoHash = {"zeroed"}
    BY DEF Hash, NoHash
  <1>3. Hash(p, s) # NoHash
    BY <1>2
  <1> QED
    BY <1>1, <1>3

\* The two comparisons of the room for the money are one.
LEMMA RoomBetween ==
    ASSUME NEW a, NEW r
    PROVE  RoomCode(a, r) =
             IF Between(MIN_BALANCE, (r.amount + a[r.acc].balance) % Word, MAX_BALANCE)
             THEN "OK" ELSE "NO_FUNDS"
  BY DEF RoomCode, Then, FloorCode, CeilingCode, Between

\* The array at the start.
LEMMA InitialAccounts ==
    ASSUME NEW s \in Salts
    PROVE  /\ WithAdmin(s) \in [Index -> AccountType]
           /\ \A i \in Index : WithAdmin(s)[i].balance = 0
           /\ WithAdmin(s)[ADMIN] = Account(ADMIN, 0, Quoted(AdminPassword), s)
           /\ \A i \in Index \ {ADMIN} : WithAdmin(s)[i] = NoAccount
  <1> USE BankAssumption DEF Index, ADMIN
  <1>1. NoAccount \in AccountType /\ NoAccount.balance = 0
    BY DEF NoAccount, AccountType, HashType
  <1>2. /\ Account(ADMIN, 0, Quoted(AdminPassword), s) \in AccountType
        /\ Account(ADMIN, 0, Quoted(AdminPassword), s).balance = 0
    <2>1. ADMIN \in Index /\ 0 \in 0 .. Word - 1
      OBVIOUS
    <2>2. Hash(Quoted(AdminPassword), s) \in HashType
      BY DEF Hash, HashType
    <2> QED
      BY <2>1, <2>2 DEF Account, AccountType
  <1> QED
    BY <1>1, <1>2 DEF WithAdmin

\* What the assignment of a field does to an account.
LEMMA WithBalance ==
    ASSUME NEW acc \in AccountType, NEW x \in 0 .. Word - 1
    PROVE  /\ [acc EXCEPT !.balance = x] \in AccountType
           /\ [acc EXCEPT !.balance = x].balance = x
           /\ [acc EXCEPT !.balance = x].account_id = acc.account_id
           /\ [acc EXCEPT !.balance = x].salt = acc.salt
           /\ [acc EXCEPT !.balance = x].hash = acc.hash
  <1>1. acc = [account_id |-> acc.account_id, balance |-> acc.balance,
               salt |-> acc.salt, hash |-> acc.hash]
    BY DEF AccountType
  <1>2. [acc EXCEPT !.balance = x] =
            [account_id |-> acc.account_id, balance |-> x, salt |-> acc.salt,
             hash |-> acc.hash]
    BY <1>1
  <1>3. /\ acc.account_id \in Index /\ acc.salt \in Salts \cup {""}
        /\ acc.hash \in HashType
    BY DEF AccountType
  <1> QED
    BY <1>2, <1>3 DEF AccountType

\* The other fields, of which only the hash has to do with passwords.
LEMMA WithField ==
    ASSUME NEW acc \in AccountType, NEW i \in Index, NEW s \in Salts, NEW h \in HashType
    PROVE  /\ [acc EXCEPT !.account_id = i] \in AccountType
           /\ [acc EXCEPT !.account_id = i].hash = acc.hash
           /\ [acc EXCEPT !.salt = s] \in AccountType
           /\ [acc EXCEPT !.salt = s].hash = acc.hash
           /\ [acc EXCEPT !.hash = h] \in AccountType
           /\ [acc EXCEPT !.hash = h].hash = h
  BY DEF AccountType
=============================================================================
