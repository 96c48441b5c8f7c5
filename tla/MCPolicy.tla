-------------------------------- MODULE MCPolicy --------------------------------
(* Commands from which TLC tightens requests. *)
EXTENDS PolicyTightening

Cmd(segments) == [matches |-> {}, blank |-> FALSE, redirects |-> FALSE, segments |-> segments]

MCSample == {NoCommand, Cmd({"diagnostic"}), Cmd({"systemctl_query", "cat_known_file"}),
             Cmd({"other"}), Cmd({}), [Cmd({}) EXCEPT !.blank = TRUE]}
=============================================================================
