----------------------------- MODULE MCForensic -----------------------------
(* Instances of Forensic for TLC.                                           *)
EXTENDS Forensic

\* The shape of project1/test: directories between files, and one two levels down.
MCEntries ==
    [dir |-> <<"f1", "sub", "f2", "sub2">>, sub |-> <<"f3", "ola">>,
     ola |-> <<"f4">>, sub2 |-> <<"f5", "lost", "link", "f6">>, lost |-> <<"f7">>]

Tokens == {"-r", "-h", "-o", "-v", "md5", "bad", "out", "dir", "f1"}

\* All short command lines, and the ones with several options and values.
MCArgvs ==
    BoundedSeq(Tokens, 3)
        \cup {<<"-r", "-o", "out", "-v", "dir">>, <<"-h", "md5", "-o", "out", "dir">>,
              <<"-o", "out", "-r", "dir">>, <<"-h", "bad", "-h", "md5", "dir">>,
              <<"--help">>, <<"-r", "-r", "-r", "-r", "-v", "-v", "-v", "dir">>}

\* Command lines that the usage message allows.
Allowed == {<<"dir">>, <<"-r", "dir">>, <<"-o", "out", "dir">>, <<"-r", "-v", "dir">>}
=============================================================================
