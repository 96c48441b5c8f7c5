------------------------------ MODULE Registry ------------------------------
(***************************************************************************)
(* The tool registry the interface offers to the model when no backend     *)
(* answers (packages/tool-schema/src/registry.ts): which tools there are,  *)
(* to which category each belongs, and the risk each is registered with.   *)
(* Descriptions, time limits and input schemas are left out.               *)
(***************************************************************************)
EXTENDS TLC

\* A group of tools registered with their risks: name |-> risk.
With(risks) ==
  [name \in UNION {risks[r] : r \in DOMAIN risks} |->
     CHOOSE r \in DOMAIN risks : name \in risks[r]]

\* Tools that look at the operator's own workstation.
LocalTools ==
  With([READ_ONLY |-> {"local.system_info", "local.list_directory",
                       "local.read_file", "local.process_list"}])

\* Connections, commands and directory listings on a remote host.
SshTools ==
  With([READ_ONLY |-> {"ssh.test_connection", "ssh.host_key_info",
                       "ssh.list_directory", "ssh.read_file"},
        MEDIUM |-> {"ssh.execute"}])

\* Changing and transferring remote files.
SftpTools ==
  With([READ_ONLY |-> {"ssh.file_info", "ssh.download"},
        MEDIUM |-> {"ssh.upload"},
        HIGH |-> {"ssh.write_file"}])

\* Readings of a remote host.
ServerReadings ==
  With([READ_ONLY |-> {"server.system_info", "server.disk_usage",
                       "server.memory_usage", "server.cpu_usage",
                       "server.load_average", "server.process_list",
                       "server.network_connections", "server.service_status"}])

\* Service control and the log reader.
ServerControl ==
  With([READ_ONLY |-> {"server.tail_log"},
        MEDIUM |-> {"server.service_start", "server.service_restart"},
        HIGH |-> {"server.service_stop"}])

\* Hosting-panel tools, first half: the panel, its accounts and services.
PanelTools ==
  With([READ_ONLY |-> {"cpanel.server_info", "cpanel.list_accounts",
                       "cpanel.account_info", "cpanel.list_domains",
                       "cpanel.service_status", "cpanel.ssl_status",
                       "cpanel.backup_status"},
        MEDIUM |-> {"cpanel.restart_service"}])

\* Hosting-panel tools, second half: one account's state and suspension.
AccountTools ==
  With([READ_ONLY |-> {"cpanel.account_disk_usage", "cpanel.list_php_versions",
                       "cpanel.security_advisor"},
        MEDIUM |-> {"cpanel.unsuspend_account"},
        HIGH |-> {"cpanel.suspend_account"}])

\* Snapshots and the validated patch.
SafetyTools ==
  With([READ_ONLY |-> {"safety.list_backups"},
        LOW |-> {"safety.create_backup"},
        HIGH |-> {"safety.rollback_file", "safety.safe_patch"}])

\* Tools over several servers at once.
FleetTools ==
  With([READ_ONLY |-> {"multi_server.diagnostics_matrix"},
        HIGH |-> {"multi_server.execute_batch"}])

\* The default registry; register refuses a name registered twice, so the
\* groups are disjoint.
Registered ==
  LocalTools @@ SshTools @@ SftpTools @@ ServerReadings @@ ServerControl
  @@ PanelTools @@ AccountTools @@ SafetyTools @@ FleetTools
=============================================================================
