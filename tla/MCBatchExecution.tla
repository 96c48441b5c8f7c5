---------------------------- MODULE MCBatchExecution ----------------------------
(* Small instances of BatchExecution. *)
EXTENDS BatchRefinement

CONSTANTS s1, s2, s3

MCTables == {[server \in Server |->
    CASE server = s1 -> "STAGING" [] server = s2 -> "PRODUCTION" [] server = s3 -> Absent]}

\* s3 is added and deleted: to a selector, what changes its environment is nothing else.
MCEdits == [server : {s3}, environment : {"STAGING", Absent}]

MCRank == [server \in Server |-> CASE server = s1 -> 1 [] server = s2 -> 2 [] server = s3 -> 3]

\* The servers of an environment, and those selected, which are none yet.
MCChoices == {[type |-> "environment", environment |-> "STAGING"],
              [type |-> "server_ids", serverIds |-> {}]}

\* All servers: a full chunk, and a partial one if s3 is there.
MCCalled == {[type |-> "all"]}
=================================================================================
