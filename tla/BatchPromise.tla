------------------------------- MODULE BatchPromise -------------------------------
(***************************************************************************)
(* What a batch promises about each of its servers, and no more: the        *)
(* targets are chosen once; each of them starts once, when those that        *)
(* started before it have ended, and with at most Limit of them at a time;   *)
(* it ends once, with a result or without; and the batch is over when all    *)
(* have ended.  Who asked, which tool it is and what is recorded stand       *)
(* apart.                                                                   *)
(***************************************************************************)
EXTENDS Integers, FiniteSets

CONSTANTS Server, Limit

VARIABLES
    open,   \* is a batch under way?
    fate    \* of each server: "out" of the batch, "waiting", "running", "answered", "lost"

promiseVars == <<open, fate>>

Having(f) == {server \in Server : fate[server] = f}

\* The fate f for the servers of a set.
Befalls(servers, f) ==
    fate' = [server \in Server |-> IF server \in servers THEN f ELSE fate[server]]

Init ==
    /\ open = FALSE
    /\ fate = [server \in Server |-> "out"]

Open ==
    /\ ~open
    /\ open' = TRUE
    /\ \E servers \in SUBSET Server : Befalls(servers, "waiting")

Start ==
    /\ Having("running") = {}
    /\ UNCHANGED open
    /\ \E servers \in SUBSET Having("waiting") :
         /\ Cardinality(servers) <= Limit
         /\ Befalls(servers, "running")

End ==
    /\ UNCHANGED open
    /\ \E server \in Having("running"), f \in {"answered", "lost"} : Befalls({server}, f)

Close ==
    /\ open
    /\ Having("waiting") \cup Having("running") = {}
    /\ open' = FALSE
    /\ fate' = [server \in Server |-> "out"]

Next == Open \/ Start \/ End \/ Close

Spec == Init /\ [][Next]_promiseVars
===================================================================================
