------------------------------- MODULE MCLog -------------------------------
(* Instances of Log for TLC.                                                *)
EXTENDS Log

\* The main thread and an office of the server, and two users.
MCgetpid == [main |-> "srv", office |-> "srv", u1 |-> "u1", u2 |-> "u2"]
MClogfile == [srv |-> "slog.txt", u1 |-> "ulog.txt", u2 |-> "ulog.txt"]

Typed(fun, id, type) == [fun |-> fun, id |-> id, type |-> type]

\* Lines of different lengths.  One user has created an account; the other has
\* sent an unknown operation, which is not logged, and is answered with a balance.
MCCalls ==
    [main   |-> <<[fun |-> "logSyncMech", id |-> "0", op |-> "COND_SIGNAL"]>>,
     office |-> <<[fun |-> "logSyncDelay", id |-> "1", account |-> "acc"],
                  [fun |-> "logBankOfficeClose", id |-> "1"]>>,
     u1     |-> <<Typed("logRequest", "u1", "CREATE"), Typed("logReply", "u1", "CREATE")>>,
     u2     |-> <<Typed("logRequest", "u2", "OTHER"), Typed("logReply", "u2", "BALANCE")>>]
=============================================================================
