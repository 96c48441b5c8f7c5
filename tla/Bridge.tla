------------------------------- MODULE Bridge -------------------------------
(***************************************************************************)
(* The desktop interface's only way to a backend                           *)
(* (apps/desktop/src/bridge.ts).  Every exported function first invokes    *)
(* the Tauri command of the same name; when the invocation throws, for     *)
(* whatever reason, most of them answer from stores kept in the page.      *)
(* This module models the functions as operators on a backend's state: the *)
(* same operators describe what the core's commands do to its database and *)
(* what the page's stores do, the differences are taken from "inPage".     *)
(*                                                                         *)
(* Facts a query only displays (loads, versions, account lists) are        *)
(* abstracted to the server and the subject they describe.                 *)
(***************************************************************************)
EXTENDS Registry, Naturals, Sequences, SequencesExt, FiniteSets

Done == "done"
NoServer == "no server"

\* The function f with x mapped to v.
Bind(f, x, v) == [y \in DOMAIN f \cup {x} |-> IF y = x THEN v ELSE f[y]]

\* What a bridge function leaves behind and what it answers.
Reply(b, v) == [b |-> b, val |-> v]

\* A backend before the interface has changed anything.  The page's stores
\* are in-memory maps and arrays; the core's are its tables and its hosts.
Backend(inPage, servers, settings, files) ==
  [ inPage |-> inPage, servers |-> servers, settings |-> settings,
    secrets |-> {servers[s].cred : s \in DOMAIN servers}, files |-> files,
    convs |-> <<>>, msgs |-> {}, pend |-> <<>>, ran |-> {}, audit |-> 0,
    backups |-> <<>>, terms |-> <<>>, timer |-> "none" ]

-----------------------------------------------------------------------------
(* Settings *)

getSetting(b, k) == Reply(b, b.settings[k])

setSetting(b, k, v) == Reply([b EXCEPT !.settings[k] = v], Done)

-----------------------------------------------------------------------------
(* Servers and credentials *)

listServers(b) == Reply(b, b.servers)

\* Insert or replace by id.
saveServer(b, id, profile) ==
  Reply([b EXCEPT !.servers = Bind(@, id, profile)], Done)

deleteServer(b, id) ==
  Reply([b EXCEPT !.servers = [s \in DOMAIN @ \ {id} |-> @[s]]], Done)

\* Only the reference leaves the backend; it stands for the value typed.
saveSecret(b, typed) == Reply([b EXCEPT !.secrets = @ \cup {typed}], typed)

listCredentialRefs(b) == Reply(b, b.secrets)

deleteSecret(b, ref) == Reply([b EXCEPT !.secrets = @ \ {ref}], Done)

\* A reference whose secret is gone resolves to nothing.
getSecret(b, ref) == Reply(b, IF ref \in b.secrets THEN ref ELSE "none")

\* The core dials the host and compares its key; the page's stand-in trusts
\* every server, but for those named "mitm", of which there is none here.
testServerConnection(b, id, status) ==
  Reply(b, [about |-> id, status |-> IF b.inPage THEN "TRUSTED" ELSE status])

acceptServerHostKey(b, id) ==
  Reply(IF b.inPage THEN b ELSE [b EXCEPT !.ran = @ \cup {<<"accept", id>>}],
        Done)

-----------------------------------------------------------------------------
(* Audit trail *)

\* Days of zero or less prune nothing, on either side.
pruneAuditEvents(b, days, old) ==
  IF days <= 0 THEN Reply(b, 0)
  ELSE Reply([b EXCEPT !.audit = @ - old], old)

-----------------------------------------------------------------------------
(* Terminal sessions *)

\* The page numbers its own sessions apart from the core's.
startTerminalSession(b, server) ==
  LET id == Cardinality(DOMAIN b.terms) + IF b.inPage THEN 101 ELSE 1
      new == [server |-> server, out |-> << "banner" >>, seq |-> 1, live |-> TRUE]
  IN Reply([b EXCEPT !.terms = Bind(@, id, new)], [i \in {id} |-> new])

\* What the shell has written.
Output(term, line) == [term EXCEPT !.out = Append(@, line), !.seq = @ + 1]

\* Input to a session that is gone or over does nothing.  "exit" ends it,
\* except that the end of a shell of the core's own machine goes unnoticed;
\* "clear" empties the page's record of the output.
sendTerminalInput(b, id, line) ==
  IF id \notin DOMAIN b.terms \/ ~b.terms[id].live THEN Reply(b, Done)
  ELSE LET old == b.terms[id]
       IN Reply([b EXCEPT !.terms[id] =
                   [Output(old, line) EXCEPT
                      !.out = IF b.inPage /\ line = "clear" THEN <<>> ELSE @,
                      !.live = \/ line # "exit"
                               \/ ~b.inPage /\ old.server = NoServer]], Done)

\* The whole buffer if anything is newer than the caller has seen.
readTerminalOutput(b, id, lastSeq) ==
  Reply(b, IF id \notin DOMAIN b.terms THEN [data |-> <<>>, seq |-> 0]
           ELSE [data |-> IF lastSeq >= b.terms[id].seq THEN <<>>
                          ELSE b.terms[id].out,
                 seq |-> b.terms[id].seq])

interruptTerminal(b, id) == sendTerminalInput(b, id, "^C")

terminateTerminalSession(b, id) ==
  Reply(IF id \in DOMAIN b.terms THEN [b EXCEPT !.terms[id].live = FALSE]
        ELSE b, Done)

listTerminalSessions(b) == Reply(b, b.terms)

-----------------------------------------------------------------------------
(* Remote files *)

\* The page keeps one file system whatever the server; the core has one per
\* server.
Place(b, server, path) == << IF b.inPage THEN NoServer ELSE server, path >>

Missing == "missing"
Held(b, server, path) ==
  LET p == Place(b, server, path)
  IN IF p \in DOMAIN b.files THEN b.files[p] ELSE Missing

Put(b, server, path, content) ==
  [b EXCEPT !.files = Bind(@, Place(b, server, path), content)]

sftpListDirectory(b, server, dir) ==
  Reply(b, [of |-> server, dir |-> dir,
            names |-> {q[2][2] : q \in {f \in DOMAIN b.files :
                         /\ f[1] = Place(b, server, dir)[1]
                         /\ f[2][1] = dir}}])

\* "all" is a file no longer than the limit the caller gave, otherwise the
\* answer holds its first part and says so.
sftpReadFile(b, server, path, long) ==
  Reply(b, [text |-> Held(b, server, path), cut |-> path \in long])

\* An existing file is copied beside itself first, if the caller asked.
sftpWriteFile(b, server, path, content, createBackup) ==
  LET old == Held(b, server, path)
      new == Put(b, server, path, content)
  IN Reply(IF createBackup /\ old # Missing
           THEN [new EXCEPT !.backups =
                   << [server |-> server, path |-> path, was |-> old] >> \o @]
           ELSE new, Done)

sftpDeleteFile(b, server, path) ==
  Reply([b EXCEPT !.files = [p \in DOMAIN @ \ {Place(b, server, path)} |-> @[p]]],
        Done)

sftpCreateDirectory(b, server, path) ==
  Reply(Put(b, server, path, "directory"), Done)

-----------------------------------------------------------------------------
(* Snapshots and the validated patch *)

safetyCreateBackup(b, server, path) ==
  Reply([b EXCEPT !.backups =
           << [server |-> server, path |-> path, was |-> Held(b, server, path)]
           >> \o @], Done)

\* Restoring a snapshot puts its content back.
safetyRestoreBackup(b, snapshot) ==
  Reply(Put(b, snapshot.server, snapshot.path, snapshot.was), Done)

\* The operator is shown every server's snapshots or one server's.
safetyListBackups(b, server) ==
  Reply(b, SelectSeq(b.backups, LAMBDA s : server \in {NoServer, s.server}))

\* Snapshot, write, validate, restart; either check failing restores.
safetyExecuteSafePatch(b, server, path, content, valid, restarts) ==
  LET saved   == safetyCreateBackup(b, server, path).b
      patched == Put(saved, server, path, content)
  IN IF valid /\ restarts THEN Reply(patched, "applied")
     ELSE Reply(safetyRestoreBackup(patched, saved.backups[1]).b, "rolled back")

\* The deadline of a Full Access session.
safetySetFullAccessExpiry(b, minutes) ==
  Reply([b EXCEPT !.timer = IF minutes > 0 THEN "running" ELSE "none"],
        [active |-> TRUE, deadline |-> minutes > 0])

\* A deadline that has passed is reported as an inactive session and
\* forgotten; the stored permission mode is not touched.
safetyGetFullAccessStatus(b, mode) ==
  CASE mode # "FULL_ACCESS" -> Reply(b, [active |-> FALSE, deadline |-> FALSE])
    [] mode = "FULL_ACCESS" /\ b.timer = "over" ->
         Reply(IF b.inPage THEN [b EXCEPT !.timer = "none"] ELSE b,
               [active |-> FALSE, deadline |-> ~b.inPage])
    [] OTHER -> Reply(b, [active |-> TRUE, deadline |-> b.timer = "running"])

-----------------------------------------------------------------------------
(* Readings and operations of one server *)

\* System, processor, memory, disks and load: facts about that server.
serverReadings(b, server) == Reply(b, [of |-> server])
\* The end of its log, and the state of one of its services.
serverTailLog(b, server) == Reply(b, [of |-> server])
serverServiceStatus(b, server) == Reply(b, [of |-> server])

\* Only the core acts; the page's stand-in reports success all the same.
Operate(b, what) == IF b.inPage THEN b ELSE [b EXCEPT !.ran = @ \cup {what}]

serverServiceAction(b, server, service, action) ==
  Reply(Operate(b, << action, server, service >>), Done)

\* The panel's own facts, its accounts and its domains.
panelReadings(b, server) == Reply(b, [of |-> server])
\* Its services; its certificates, backups, disk use and PHP versions.
panelServices(b, server) == Reply(b, [of |-> server])
panelExtras(b, server) == Reply(b, [of |-> server])
accountReadings(b, server, user) == Reply(b, [of |-> server, user |-> user])

cpanelRestartService(b, server, service) ==
  Reply(Operate(b, << "restart panel", server, service >>), Done)

cpanelSuspendAccount(b, server, user) ==
  Reply(Operate(b, << "suspend", server, user >>), Done)

cpanelUnsuspendAccount(b, server, user) ==
  Reply(Operate(b, << "unsuspend", server, user >>), Done)

-----------------------------------------------------------------------------
(* Conversations *)

saveConversation(b, id, server) ==
  Reply([b EXCEPT !.convs = Bind(@, id, server)], Done)

\* One server's conversations and the unassigned ones; without a server, all.
listConversations(b, server) ==
  Reply(b, {c \in DOMAIN b.convs :
              server = NoServer \/ b.convs[c] \in {NoServer, server}})

\* The messages go with their conversation.
deleteConversation(b, id) ==
  Reply([b EXCEPT !.convs = [c \in DOMAIN @ \ {id} |-> @[c]],
                  !.msgs = {m \in @ : m.conv # id}], Done)

saveMessage(b, m) == Reply([b EXCEPT !.msgs = @ \cup {m}], Done)

listMessages(b, id) == Reply(b, {m \in b.msgs : m.conv = id})

-----------------------------------------------------------------------------
(* Reports, updates and the log: each answers from the backend or, when it *)
(* throws, with the report of a healthy system.                            *)

checkForUpdates(b, found) ==
  Reply(b, IF b.inPage THEN "UP_TO_DATE" ELSE found)

installUpdate(b) == Reply(b, "restart required")

\* The filter is lost on the way to the core, whose command expects its
\* arguments under other names; the page's stand-in applies it.
exportAuditLog(b, filter) ==
  Reply(b, IF b.inPage THEN filter ELSE "everything")

getAlphaReadinessReport(b, passes) == Reply(b, b.inPage \/ passes)

checkDatabaseIntegrity(b, sound) == Reply(b, b.inPage \/ sound)

vacuumDatabase(b) == Reply(b, Done)

=============================================================================
