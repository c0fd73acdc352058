------------------------------ MODULE MCLedger ------------------------------
(* Instances of Ledger for TLC.                                             *)
EXTENDS Ledger, MCRequests, TLC

\* Three accounts, one of them asked for twice, and money that moves from the first
\* to the second and from the third to itself, if it is there by then.
Concurrent ==
    UNION {CreateAs(1, 2, "one"), CreateAs(2, 1, "two"), CreateAs(3, 1, "one"),
           CreateAs(1, 2, "two"), Move(1, "one", 2, 2), Move(3, "o\"\"ne", 3, 1)}

\* Two transfers from the same account, which has money for one of them.
Spending ==
    UNION {CreateAs(1, 2, "one"), CreateAs(2, 1, "two"), Move(1, "one", 2, 1),
           Move(1, "one", 2, 2)}

\* Every path of acknowledge_request, the end of the array and negative ids
\* included, in requests that are refused before they apply them too.
AllPaths ==
    UNION {CreateAs(1, 3, "one"), CreateAs(2, 2, "two"), CreateAs(3, 1, "one"),
           CreateAs(-1, 1, "one"), CreateBy(1, "one", -1, 1, "one"),
           Move(1, "one", 2, 2), Move(2, "two", 2, 1), Move(-1, "one", 3, 1),
           BalanceOf(2, "two"), Unknown}

Symmetry == Permutations(Offices)
SaltSymmetry == Permutations(Offices) \cup Permutations(Salts)
=============================================================================
