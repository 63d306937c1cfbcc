----------------------------- MODULE MCJobQueue -----------------------------
(* Small instances of JobQueue: a reference parse of one attempt, enqueued    *)
(* without start, and a compile of two attempts that starts at once.          *)
EXTENDS JobQueue
CONSTANTS parse, compile, compile2

MCKind        == [j \in Jobs |-> IF j = parse THEN "reference.parse"
                                 ELSE "latex.compile"]
MCKinds       == {"reference.parse", "latex.compile"}
MCMaxAttempts == [j \in Jobs |-> IF j = parse THEN 1 ELSE 2]
MCAutostart   == Jobs \ {parse}
OnePerKind    == [k \in MCKinds |-> 1]
=============================================================================
