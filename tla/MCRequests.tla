----------------------------- MODULE MCRequests -----------------------------
(* Passwords and command lines of users for the instances of Bank and       *)
(* Ledger.  A command line stands for the set of the requests it may make.  *)
EXTENDS Accounts

MCPasswords == {"admin", "ad\"\"min", "one", "o\"\"ne", "two", "t*o", "bad"}

\* "bad" is one that create_user_account refuses (length, or a space in it).
MCValidPasswords == MCPasswords \ {"bad"}

\* In the double quotes of the login a pair of quotes ends them and begins them
\* again: the shell reads nothing there.
MCQuoted(p) ==
    CASE p = "ad\"\"min" -> "admin"
      [] p = "o\"\"ne"   -> "one"
      [] OTHER          -> p

\* Without quotes it also expands patterns: here one and its match.
MCUnquoted(p) == IF p = "t*o" THEN "two" ELSE MCQuoted(p)

CreateBy(id, password, acc, amount, newpass) ==
    GetRequest(id, password, 0, acc, amount, newpass)

CreateAs(acc, amount, newpass) == CreateBy(0, "admin", acc, amount, newpass)

BalanceOf(id, password) == GetRequest(id, password, 1, 0, 0, "bad")

Move(id, password, acc, amount) == GetRequest(id, password, 2, acc, amount, "bad")

\* An operation that does not exist.  If its type happens to be one of an
\* operation it is a request like the others, so only the last one is kept.
Unknown == {r \in GetRequest(1, "one", 7, 0, 0, "bad") : r.type = "other"}

-----------------------------------------------------------------------------
\* Two accounts, a second attempt at the first, and a create of a mere user with
\* an id outside of the array.
Creates ==
    UNION {CreateAs(1, 3, "one"), CreateBy(0, "ad\"\"min", 2, 2, "t*o"),
           CreateAs(1, 1, "two"), CreateBy(1, "one", -1, 1, "one")}

\* Money back and forth, to oneself, all of it, past the maximum, nothing, and less
\* than nothing.
Moves ==
    UNION {Move(1, "one", 2, -1), Move(1, "one", 2, 3), Move(2, "two", 1, 2),
           Move(1, "one", 1, 1), Move(1, "one", 2, 0)}

\* A balance with a password that only reads as the one of the account, and with
\* the very one it was created with, which reads as another.
Balances == UNION {BalanceOf(1, "o\"\"ne"), BalanceOf(2, "t*o")}

AllRequests == Creates \cup Moves \cup Balances \cup Unknown
=============================================================================
