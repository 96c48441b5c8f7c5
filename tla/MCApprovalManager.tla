--------------------------- MODULE MCApprovalManager ---------------------------
(* Small instances of ApprovalManager for TLC. *)
EXTENDS ApprovalRefinement, ApprovalInvariant, TLC

CONSTANTS s1, n1, a1, a2, c1, c2

MCNameOf == [s \in Server |-> n1]

Cmd(matches, segments) ==
    [matches |-> matches, blank |-> FALSE, redirects |-> FALSE, segments |-> segments]

Tool(category, risk, target, mode, command) ==
    [category |-> category, risk |-> risk, target |-> target, mode |-> mode,
     valid |-> TRUE, command |-> command]

Reboot == Cmd({"SERVER_SHUTDOWN_OR_REBOOT"}, {"other"})
Uptime == Cmd({}, {"diagnostic"})

\* ssh.write_file under Safe Automation, ssh.execute of a reboot under Full Access.
Risky == {Tool("ssh", "MEDIUM", s1, "SAFE_AUTOMATION", NoCommand),
          Tool("ssh", "HIGH", s1, "FULL_ACCESS", Reboot)}

\* A diagnostic that runs at once, a reboot that must be confirmed, a service
\* restart that Full Access runs at once unless the server is in production.
Mixed == {Tool("ssh", "HIGH", s1, "APPROVAL_REQUIRED", Uptime),
          Tool("ssh", "HIGH", s1, "FULL_ACCESS", Reboot),
          Tool("server", "HIGH", s1, "FULL_ACCESS", NoCommand)}

\* Requests that name the server by its name, a local tool without a target, a
\* malformed one.
ByName == {Tool("ssh", "HIGH", n1, "APPROVAL_REQUIRED", Uptime),
           Tool("local", "CRITICAL", Nothing, "FULL_ACCESS", NoCommand),
           Tool("ssh", "LOW", Nothing, "SAFE_AUTOMATION", NoCommand),
           [Tool("ssh", "LOW", s1, "SAFE_AUTOMATION", NoCommand) EXCEPT !.valid = FALSE]}

\* One tool that waits for a typed confirmation; its target must exist.
OneReboot == {Tool("ssh", "HIGH", s1, "FULL_ACCESS", Reboot)}

\* A diagnostic that needs nobody and a reboot.
RiskyOrQuick == OneReboot \cup {Tool("ssh", "HIGH", s1, "APPROVAL_REQUIRED", Uptime)}

Everyday == Mixed \cup ByName

ApprovalSymmetry == Permutations(ApprovalId)
=============================================================================
