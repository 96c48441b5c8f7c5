------------------------------ MODULE BatchRefinement ------------------------------
(* The engine of multi_server/mod.rs keeps the promise of a batch. *)
EXTENDS BatchExecution

\* A target that neither waits nor runs has answered if exactly one result is its own.
FateOf(server) ==
    IF server \notin targets THEN "out"
    ELSE IF server \in waiting THEN "waiting"
    ELSE IF server \in running THEN "running"
    ELSE IF \E i \in DOMAIN nodes : Answering(server) = {i} THEN "answered"
    ELSE "lost"

Promise == INSTANCE BatchPromise WITH
    Limit <- Clamped,
    open <- stage # "idle",
    fate <- [server \in Server |-> FateOf(server)]

\* Read through its lists, every behaviour of the dialog and of the engine, whatever is
\* edited meanwhile and however the threads end, is one the promise allows: no server
\* is run twice in a batch, none is started beyond the limit or past a chunk that is not
\* joined, no result is duplicated, overwritten or given for a server that has none, and
\* no batch is over before its servers are.
KeepsPromise == Promise!Spec
====================================================================================
