------------------------------ MODULE MCHostKeys ------------------------------
(* Small instances of HostKeys for TLC. *)
EXTENDS HostKeys

CONSTANTS h, a, e1, e2, r1

\* Two keys of one type, one of another.
MCTypeOf == [k \in Key |-> IF k = r1 THEN "rsa" ELSE "ed25519"]

\* The user's ssh may have met the host, with a plain or a hashed name.
MCForeign == {[host |-> h, key |-> e1, hashed |-> FALSE],
              [host |-> h, key |-> r1, hashed |-> TRUE]}
NoForeign == {}
===============================================================================
