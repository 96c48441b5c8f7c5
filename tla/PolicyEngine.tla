------------------------------ MODULE PolicyEngine ------------------------------
(***************************************************************************)
(* The policy engine of the desktop core (policy.rs): a pure function from  *)
(* a tool's category and risk, the resolved target server, the permission   *)
(* mode and the shell command (if the tool has one) to a decision.          *)
(*                                                                         *)
(* A shell command is abstracted to what the two scanners of the engine see *)
(* of it: which destructive patterns match anywhere in its text, whether it *)
(* redirects or substitutes, and, per segment cut at ';' and '&&', the      *)
(* class of its first word.                                                 *)
(***************************************************************************)
EXTENDS Naturals

RiskLevel == {"READ_ONLY", "LOW", "MEDIUM", "HIGH", "CRITICAL"}

PermissionMode == {"APPROVAL_REQUIRED", "SAFE_AUTOMATION", "FULL_ACCESS"}

Environment == {"DEVELOPMENT", "STAGING", "PRODUCTION"}

\* The categories under which tools.rs registers its tools.
Category == {"local", "ssh", "server", "cpanel", "safety", "multi_server"}

Decision == {"ALLOW", "REQUIRE_APPROVAL", "REQUIRE_TYPED_CONFIRMATION", "DENY"}

\* The names the destructive scanner returns, one per group of patterns.
Heuristic == {"CRITICAL_SYSTEM_PATH_DELETION", "FILESYSTEM_FORMAT",
              "RAW_BLOCK_DEVICE_WRITE", "DATABASE_DROP", "FIREWALL_DISABLE",
              "SERVER_SHUTDOWN_OR_REBOOT", "MASS_SYSTEM_PERMISSION_CHANGE"}

\* Classes of a segment: a word that is always a diagnostic (uptime, df, ps),
\* cat or systemctl with or without an argument that qualifies it, any other.
Segment == {"diagnostic", "cat_known_file", "cat_other",
            "systemctl_query", "systemctl_other", "other"}

Command == [matches : SUBSET Heuristic,
            blank : BOOLEAN,
            redirects : BOOLEAN,
            segments : SUBSET Segment]

NoCommand == [none |-> TRUE]
HasCommand(cmd) == cmd # NoCommand

NoServer == "none"

-----------------------------------------------------------------------------
\* PermissionMode::from_str is infallible: an unknown string is the strictest
\* mode, and so is a request that names no mode (commands.rs).
ParseMode(s) ==
    IF s \in {"SAFE_AUTOMATION", "FULL_ACCESS"} THEN s ELSE "APPROVAL_REQUIRED"

ScanDestructive(cmd) == HasCommand(cmd) /\ cmd.matches # {}

\* Mutant: one diagnostic segment is enough.
DiagnosticPrefix(cmd) ==
    /\ HasCommand(cmd)
    /\ ~cmd.blank
    /\ ~cmd.redirects
    /\ cmd.segments \cap {"diagnostic", "cat_known_file", "systemctl_query"} # {}

\* A command that is not blank but has only empty segments (";") passes the
\* loop over its parts without meeting one, so it counts as a diagnostic.
IsReadOnlyDiagnostic(cmd) ==
    /\ HasCommand(cmd)
    /\ ~cmd.blank
    /\ ~cmd.redirects
    /\ cmd.segments \subseteq {"diagnostic", "cat_known_file", "systemctl_query"}

IsRemote(category) == category \in {"ssh", "server", "cpanel"}

EffectiveRisk(category, risk, cmd) ==
    IF category = "ssh" /\ IsReadOnlyDiagnostic(cmd) THEN "READ_ONLY" ELSE risk

\* env is the environment of the resolved server, or NoServer.
Unresolved(category, env) == IsRemote(category) /\ env = NoServer

Critical(risk, cmd) == risk = "CRITICAL" \/ ScanDestructive(cmd)

\* The cases that need nobody, once the two above are excluded.
Automatic(category, risk, env, mode, cmd) ==
    \/ EffectiveRisk(category, risk, cmd) = "READ_ONLY"
    \/ mode = "FULL_ACCESS" /\ ~(risk = "HIGH" /\ env = "PRODUCTION")
    \/ mode = "SAFE_AUTOMATION" /\ risk = "LOW" /\ env # "PRODUCTION"

EvaluatePolicy(category, risk, env, mode, cmd) ==
    IF Unresolved(category, env) THEN "DENY"
    ELSE IF Critical(risk, cmd) THEN "REQUIRE_TYPED_CONFIRMATION"
    ELSE IF Automatic(category, risk, env, mode, cmd) THEN "ALLOW"
    ELSE "REQUIRE_APPROVAL"
=============================================================================
