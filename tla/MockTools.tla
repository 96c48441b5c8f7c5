----------------------------- MODULE MockTools -----------------------------
(***************************************************************************)
(* What evaluateAndExecuteTool and submitApproval of the bridge answer     *)
(* when the interface runs in a plain browser (bridge.ts, the branch       *)
(* guarded by !isTauriEnvironment()): one operator per group of tools.     *)
(*                                                                         *)
(* A request is a record r: the tool, the target server, the permission    *)
(* mode passed, and what the branches look at, the arguments path, user    *)
(* and content, "danger" (the command matches the page's list of           *)
(* destructive fragments), "fails" (it exits with an error) and "keep"     *)
(* (a backup is wanted).  An answer is                                     *)
(* [type, ok] with type "executed", "approval_required" (and the request), *)
(* "denied", or "threw" when the promise is rejected.                      *)
(***************************************************************************)
EXTENDS Bridge

Executed(b, ok) == Reply(b, [type |-> "executed", ok |-> ok])
Denied(b) == Reply(b, [type |-> "denied", ok |-> FALSE])
Threw(b) == Reply(b, [type |-> "threw", ok |-> FALSE])

\* Put in front of the list, to be decided by the operator; "word" is what
\* the dialog wants typed, if anything.
NoWord == "no word"
Ask(b, r, word) ==
  LET request == [id |-> r.id, word |-> word]
  IN Reply([b EXCEPT !.pend = << request >> \o @],
           [type |-> "approval_required", ok |-> FALSE, request |-> request])

\* Fixed facts about the workstation.
localTool(b, r) == Executed(b, TRUE)

\* A command that matches a destructive fragment is never run unasked.
sshExecute(b, r) == IF r.danger THEN Ask(b, r, r.server) ELSE Executed(b, ~r.fails)

\* Listing, reading and downloading need the file; writing and uploading
\* happen at once, without an approval and in every permission mode.
fileTool(b, r) ==
  CASE r.tool \in {"ssh.list_directory"} -> Executed(b, TRUE)
    [] r.tool \in {"ssh.read_file", "ssh.download", "ssh.file_info"} ->
         IF Held(b, r.server, r.path) = Missing THEN Threw(b)
         ELSE Executed(b, TRUE)
    [] r.tool = "ssh.write_file" ->
         Executed(sftpWriteFile(b, r.server, r.path, r.content, r.keep).b, TRUE)
    [] r.tool = "ssh.upload" ->
         Executed(sftpWriteFile(b, r.server, r.path, r.content, TRUE).b, TRUE)

safetyTool(b, r) ==
  CASE r.tool = "safety.create_backup" ->
         Executed(safetyCreateBackup(b, r.server, r.path).b, TRUE)
    [] r.tool = "safety.rollback_file" ->
         IF b.backups = <<>> THEN Threw(b)
         ELSE Executed(safetyRestoreBackup(b, b.backups[1]).b, TRUE)
    [] r.tool = "safety.list_backups" -> Executed(b, TRUE)
    [] r.tool = "safety.safe_patch" ->
         LET p == safetyExecuteSafePatch(b, r.server, r.path, r.content,
                                         ~r.fails, TRUE)
         IN Executed(p.b, p.val = "applied")

\* Readings never ask and never fail.
Listings == {"server.process_list", "server.network_connections",
             "server.service_status"}
serverReading(b, r) == Executed(b, TRUE)
serverListing(b, r) == Executed(b, TRUE)

\* Service control runs unasked under Full Access alone; stopping asks for
\* the service's name.
serviceControl(b, r) ==
  IF r.mode = "FULL_ACCESS" THEN Executed(b, TRUE)
  ELSE Ask(b, r, IF r.tool = "server.service_stop" THEN "service" ELSE NoWord)

tailLog(b, r) == Executed(b, TRUE)

\* The panel's tools need a server with a panel; a server the page does not
\* know counts as having one.
HasPanel(b, r) ==
  r.server \in DOMAIN b.servers => b.servers[r.server].panel

panelReading(b, r) == Executed(b, TRUE)
panelDetails(b, r) == Executed(b, TRUE)

panelRestart(b, r) ==
  IF r.mode = "FULL_ACCESS" THEN Executed(b, TRUE) ELSE Ask(b, r, NoWord)

\* Suspension asks for the account's name, the reverse does not.
suspendAccount(b, r) ==
  CASE r.user = "none" -> Denied(b)
    [] r.user # "none" /\ r.mode # "FULL_ACCESS" -> Ask(b, r, r.user)
    [] OTHER -> Executed(b, TRUE)

unsuspendAccount(b, r) ==
  CASE r.user = "none" -> Denied(b)
    [] r.user # "none" /\ r.mode # "FULL_ACCESS" -> Ask(b, r, NoWord)
    [] OTHER -> Executed(b, TRUE)

panelTool(b, r) ==
  CASE r.tool = "cpanel.restart_service" -> panelRestart(b, r)
    [] r.tool = "cpanel.suspend_account" -> suspendAccount(b, r)
    [] r.tool = "cpanel.unsuspend_account" -> unsuspendAccount(b, r)
    [] r.tool = "cpanel.security_advisor" -> Denied(b)
    [] r.tool \in {"cpanel.ssl_status", "cpanel.backup_status",
                   "cpanel.account_disk_usage", "cpanel.list_php_versions"} ->
         panelDetails(b, r)
    [] OTHER -> panelReading(b, r)

\* The policy the page applies to a batch: base risk, whether a production
\* server is among the targets, and whether Full Access is on.
multiServerEvaluatePolicy(base, production, fullAccess) ==
  LET risk == IF ~production \/ base \in {"READ_ONLY", "CRITICAL"} THEN base
              ELSE "HIGH"
  IN [risk |-> risk,
      asks |-> /\ risk # "READ_ONLY"
               /\ production \/ ~fullAccess \/ risk = "CRITICAL"]

\* The servers a batch is aimed at: all, or the named ones that exist.
multiServerResolveTargets(b, selector) ==
  IF selector = "all" THEN DOMAIN b.servers ELSE selector \cap DOMAIN b.servers

\* One audit event for the batch and one per node; every node succeeds.
multiServerExecuteBatch(b, targets) ==
  Reply([b EXCEPT !.audit = @ + 1 + Cardinality(targets)], targets)

batchTool(b, r) ==
  LET full == r.mode = "FULL_ACCESS"
      targets == multiServerResolveTargets(b, "all")
      production == \E s \in targets : b.servers[s].production
      asks == multiServerEvaluatePolicy("HIGH", production, full).asks
  IN IF asks /\ ~full THEN Ask(b, r, "CONFIRM BATCH")
     ELSE Executed(multiServerExecuteBatch(b, targets).b, TRUE)

matrixTool(b, r) == Executed(b, TRUE)

\* Administrative tools and reboots always ask, Full Access or not.
adminTool(b, r) == Ask(b, r, "CONFIRM")

\* The branches in the order the code tries them; a name none of them knows
\* is denied, registered or not.
mockTool(b, r) ==
  CASE r.tool \in DOMAIN LocalTools -> localTool(b, r)
    [] r.tool = "ssh.execute" -> sshExecute(b, r)
    [] r.tool \in DOMAIN SftpTools \cup {"ssh.list_directory", "ssh.read_file"}
         -> fileTool(b, r)
    [] r.tool \in DOMAIN SafetyTools -> safetyTool(b, r)
    [] r.tool \in DOMAIN ServerReadings \ Listings -> serverReading(b, r)
    [] r.tool \in Listings -> serverListing(b, r)
    [] r.tool = "server.tail_log" -> tailLog(b, r)
    [] r.tool \in DOMAIN ServerControl \ {"server.tail_log"} ->
         serviceControl(b, r)
    [] r.tool \in DOMAIN PanelTools \cup DOMAIN AccountTools ->
         IF HasPanel(b, r) THEN panelTool(b, r) ELSE Denied(b)
    [] r.tool = "multi_server.execute_batch" -> batchTool(b, r)
    [] r.tool = "multi_server.diagnostics_matrix" -> matrixTool(b, r)
    [] r.tool \in {"server.reboot"} -> adminTool(b, r)
    [] OTHER -> Denied(b)

Without(pend, id) == SelectSeq(pend, LAMBDA a : a.id # id)

\* Removes the request, if it is there, and reports what was decided as
\* done; nothing of the tool is carried out.
mockSubmit(b, id, approved) ==
  Reply([b EXCEPT !.pend = Without(@, id)], [ok |-> approved])

listPendingApprovals(b) == Reply(b, b.pend)
=============================================================================
