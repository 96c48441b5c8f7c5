---------------------------- MODULE DesktopProofs ----------------------------
(***************************************************************************)
(* Proofs about the desktop interface, for every value of its constants.   *)
(* Most steps are of a few kinds - the operator acts in one view, an       *)
(* answer goes on with fitting calls - and each kind keeps the invariant.  *)
(***************************************************************************)
EXTENDS DesktopInvariant, TLAPS

\* A sequence is a sequence of its own elements.
LEMMA SeqOfOwn ==
    ASSUME NEW q, IsSeq(q)
    PROVE  q \in Seq(ToSet(q)) /\ DOMAIN q = 1 .. Len(q)
  <1>1. Len(q) \in Nat /\ DOMAIN q = 1 .. Len(q)
    BY DEF IsSeq
  <1>2. \A i \in 1 .. Len(q) : q[i] \in ToSet(q)
    BY <1>1 DEF ToSet
  <1> QED BY <1>1, <1>2 DEF IsSeq

\* A member of Seq(S) is a sequence in the sense of the invariant.
LEMMA OwnSeq ==
    ASSUME NEW S, NEW q \in Seq(S)
    PROVE  IsSeq(q)
  BY DEF IsSeq

\* Two sequences joined: an element of the result is one of theirs.
LEMMA JoinSeq ==
    ASSUME NEW p, NEW q, IsSeq(p), IsSeq(q)
    PROVE  /\ IsSeq(p \o q)
           /\ Len(p \o q) = Len(p) + Len(q)
           /\ \A i \in DOMAIN (p \o q) :
                 \/ i \in DOMAIN p /\ (p \o q)[i] = p[i]
                 \/ i - Len(p) \in DOMAIN q /\ (p \o q)[i] = q[i - Len(p)]
  <1> DEFINE S == ToSet(p) \cup ToSet(q)
  <1>1. p \in Seq(ToSet(p)) /\ q \in Seq(ToSet(q))
    BY SeqOfOwn
  <1>2. p \in Seq(S) /\ q \in Seq(S)
    BY <1>1
  <1> HIDE DEF S
  <1>3. p \o q \in Seq(S)
    BY <1>2
  <1>4. IsSeq(p \o q)
    BY <1>3, OwnSeq
  <1>5. Len(p \o q) = Len(p) + Len(q)
    BY <1>2
  <1> QED BY <1>2, <1>4, <1>5

\* The head and the tail of a sequence that is not empty.
LEMMA TailSeq ==
    ASSUME NEW q, IsSeq(q), q # <<>>
    PROVE  /\ IsSeq(Tail(q)) /\ 1 \in DOMAIN q /\ Head(q) = q[1]
           /\ Len(Tail(q)) = Len(q) - 1
           /\ \A i \in DOMAIN Tail(q) : i + 1 \in DOMAIN q /\ Tail(q)[i] = q[i + 1]
  <1> DEFINE S == ToSet(q)
  <1>1. q \in Seq(S)
    BY SeqOfOwn
  <1> HIDE DEF S
  <1>2. Tail(q) \in Seq(S)
    BY <1>1
  <1>3. IsSeq(Tail(q))
    BY <1>2, OwnSeq
  <1> QED BY <1>1, <1>3

-----------------------------------------------------------------------------
(* Backends *)

Same(b, new) ==
    /\ DOMAIN new = DOMAIN b /\ new.servers = b.servers
    /\ new.settings = b.settings /\ new.msgs \subseteq b.msgs

ToolTypes == {"executed", "approval_required", "denied", "threw"}

\* The tools that touch files and those that touch backups.
LEMMA ToolGroups ==
    /\ DOMAIN SftpTools = {"ssh.file_info", "ssh.download", "ssh.upload", "ssh.write_file"}
    /\ DOMAIN SafetyTools = {"safety.list_backups", "safety.create_backup",
                            "safety.rollback_file", "safety.safe_patch"}
  <1>1. \A risks : DOMAIN With(risks) = UNION {risks[r] : r \in DOMAIN risks}
    BY DEF With
  <1>2. ASSUME NEW a, NEW b, NEW c
        PROVE  DOMAIN With([READ_ONLY |-> a, MEDIUM |-> b, HIGH |-> c]) = a \cup b \cup c
    <2> DEFINE rows == [READ_ONLY |-> a, MEDIUM |-> b, HIGH |-> c]
    <2>1. /\ DOMAIN rows = {"READ_ONLY", "MEDIUM", "HIGH"}
          /\ rows["READ_ONLY"] = a /\ rows["MEDIUM"] = b /\ rows["HIGH"] = c
      OBVIOUS
    <2> HIDE DEF rows
    <2>2. UNION {rows[r] : r \in DOMAIN rows} = a \cup b \cup c
      BY <2>1
    <2> QED BY <1>1, <2>2 DEF rows
  <1>3. ASSUME NEW a, NEW b, NEW c
        PROVE  DOMAIN With([READ_ONLY |-> a, LOW |-> b, HIGH |-> c]) = a \cup b \cup c
    <2> DEFINE rows == [READ_ONLY |-> a, LOW |-> b, HIGH |-> c]
    <2>1. /\ DOMAIN rows = {"READ_ONLY", "LOW", "HIGH"}
          /\ rows["READ_ONLY"] = a /\ rows["LOW"] = b /\ rows["HIGH"] = c
      OBVIOUS
    <2> HIDE DEF rows
    <2>2. UNION {rows[r] : r \in DOMAIN rows} = a \cup b \cup c
      BY <2>1
    <2> QED BY <1>1, <2>2 DEF rows
  <1>4. DOMAIN SftpTools = {"ssh.file_info", "ssh.download", "ssh.upload", "ssh.write_file"}
    BY <1>2 DEF SftpTools
  <1>5. DOMAIN SafetyTools = {"safety.list_backups", "safety.create_backup",
                            "safety.rollback_file", "safety.safe_patch"}
    BY <1>3 DEF SafetyTools
  <1> QED BY <1>4, <1>5

\* Asking for an approval leaves servers, settings and messages alone.
LEMMA AskSame ==
    ASSUME NEW b, NEW r, NEW word, DOMAIN b = BackendFields
    PROVE  Same(b, Ask(b, r, word).b) /\ Ask(b, r, word).val.type \in ToolTypes
  BY DEF Ask, Reply, Same, ToolTypes, BackendFields

\* So do an execution, a refusal and a failure.
LEMMA PlainSame ==
    ASSUME NEW b, DOMAIN b = BackendFields
    PROVE  /\ \A ok : Same(b, Executed(b, ok).b) /\ Executed(b, ok).val.type \in ToolTypes
           /\ Same(b, Denied(b).b) /\ Denied(b).val.type \in ToolTypes
           /\ Same(b, Threw(b).b) /\ Threw(b).val.type \in ToolTypes
  BY DEF Executed, Denied, Threw, Reply, Same, ToolTypes, BackendFields

\* An execution on top of a change that leaves them alone does too.
LEMMA ExecutedSame ==
    ASSUME NEW b, NEW new, NEW ok, Same(b, new)
    PROVE  Same(b, Executed(new, ok).b) /\ Executed(new, ok).val.type \in ToolTypes
  BY DEF Executed, Reply, Same, ToolTypes

\* So do the operations on remote files and their backups.
LEMMA FilesSame ==
    ASSUME NEW b, DOMAIN b = BackendFields, NEW server, NEW path, NEW text, NEW keep
    PROVE  /\ Same(b, Put(b, server, path, text))
           /\ Same(b, sftpWriteFile(b, server, path, text, keep).b)
           /\ Same(b, sftpDeleteFile(b, server, path).b)
           /\ Same(b, sftpCreateDirectory(b, server, path).b)
           /\ Same(b, safetyCreateBackup(b, server, path).b)
           /\ \A snapshot : Same(b, safetyRestoreBackup(b, snapshot).b)
  <1>1. \A s, p, t : Same(b, Put(b, s, p, t)) /\ DOMAIN Put(b, s, p, t) = BackendFields
    BY DEF Put, Same, BackendFields
  <1>2. Same(b, sftpWriteFile(b, server, path, text, keep).b)
    <2> DEFINE new == Put(b, server, path, text)
    <2>1. Same(b, new) /\ DOMAIN new = BackendFields
      BY <1>1
    <2> HIDE DEF new
    <2>2. \A log : Same(b, [new EXCEPT !.backups = log])
      BY <2>1 DEF Same, BackendFields
    <2>3. \E log : sftpWriteFile(b, server, path, text, keep).b \in {new, [new EXCEPT !.backups = log]}
      BY DEF sftpWriteFile, Reply, new
    <2> QED BY <2>1, <2>2, <2>3
  <1>3. Same(b, sftpDeleteFile(b, server, path).b)
    BY DEF sftpDeleteFile, Reply, Same, BackendFields
  <1>4. Same(b, sftpCreateDirectory(b, server, path).b)
    BY <1>1 DEF sftpCreateDirectory, Reply
  <1>5. Same(b, safetyCreateBackup(b, server, path).b)
    BY DEF safetyCreateBackup, Reply, Same, BackendFields
  <1>6. \A snapshot : Same(b, safetyRestoreBackup(b, snapshot).b)
    BY <1>1 DEF safetyRestoreBackup, Reply
  <1> QED BY <1>1, <1>2, <1>3, <1>4, <1>5, <1>6

\* Leaving alone twice is leaving alone.
LEMMA SameTrans ==
    ASSUME NEW a, NEW b, NEW c, Same(a, b), Same(b, c)
    PROVE  Same(a, c)
  BY DEF Same

\* A safe patch leaves servers, settings and messages alone.
LEMMA PatchSame ==
    ASSUME NEW b, DOMAIN b = BackendFields, NEW server, NEW path, NEW text, NEW valid
    PROVE  Same(b, safetyExecuteSafePatch(b, server, path, text, valid, TRUE).b)
  <1> DEFINE saved == safetyCreateBackup(b, server, path).b
             patched == Put(saved, server, path, text)
             undone == safetyRestoreBackup(patched, saved.backups[1]).b
  <1>1. Same(b, saved) /\ DOMAIN saved = BackendFields
    <2>1. Same(b, saved)
      BY FilesSame
    <2> QED BY <2>1 DEF Same
  <1> HIDE DEF saved
  <1>2. Same(saved, patched) /\ DOMAIN patched = BackendFields
    <2>1. Same(saved, patched)
      BY <1>1, FilesSame
    <2> QED BY <1>1, <2>1 DEF Same
  <1> HIDE DEF patched
  <1>3. Same(patched, undone)
    BY <1>2, FilesSame
  <1>4. safetyExecuteSafePatch(b, server, path, text, valid, TRUE).b \in {patched, undone}
    BY DEF safetyExecuteSafePatch, Reply, saved, patched
  <1> HIDE DEF undone
  <1>5. Same(b, patched)
    BY <1>1, <1>2, SameTrans
  <1>6. Same(b, undone)
    BY <1>3, <1>5, SameTrans
  <1> QED BY <1>4, <1>5, <1>6

\* So does every tool of the page's stand-in, which answers like a tool.
LEMMA MockSame ==
    ASSUME NEW b, NEW r, DOMAIN b = BackendFields
    PROVE  Same(b, mockTool(b, r).b) /\ mockTool(b, r).val.type \in ToolTypes
  <1> DEFINE Good(a) == Same(b, a.b) /\ a.val.type \in ToolTypes
  <1>1. /\ \A word : Good(Ask(b, r, word))
        /\ \A ok : Good(Executed(b, ok)) /\ Good(Denied(b)) /\ Good(Threw(b))
        /\ \A new, ok : Same(b, new) => Good(Executed(new, ok))
    BY AskSame, PlainSame, ExecutedSame
  <1>2. Good(localTool(b, r)) /\ Good(sshExecute(b, r)) /\ Good(serverReading(b, r))
        /\ Good(serverListing(b, r)) /\ Good(tailLog(b, r)) /\ Good(serviceControl(b, r))
        /\ Good(matrixTool(b, r)) /\ Good(adminTool(b, r))
    BY <1>1 DEF localTool, sshExecute, serverReading, serverListing, tailLog, serviceControl,
                matrixTool, adminTool
  <1>3. ASSUME r.tool \in DOMAIN SftpTools \cup {"ssh.list_directory", "ssh.read_file"}
        PROVE  Good(fileTool(b, r))
    <2>1. Good(Executed(sftpWriteFile(b, r.server, r.path, r.content, r.keep).b, TRUE))
          /\ Good(Executed(sftpWriteFile(b, r.server, r.path, r.content, TRUE).b, TRUE))
      BY <1>1, FilesSame
    <2> HIDE DEF Good
    <2> QED BY <1>1, <1>3, <2>1, ToolGroups DEF fileTool
  <1>4. ASSUME r.tool \in DOMAIN SafetyTools
        PROVE  Good(safetyTool(b, r))
    <2>1. /\ Good(Executed(safetyCreateBackup(b, r.server, r.path).b, TRUE))
          /\ Good(Executed(safetyRestoreBackup(b, b.backups[1]).b, TRUE))
      BY <1>1, FilesSame
    <2>2. \A ok : Good(Executed(safetyExecuteSafePatch(b, r.server, r.path, r.content, ~r.fails, TRUE).b, ok))
      BY <1>1, PatchSame
    <2> HIDE DEF Good
    <2> QED BY <1>1, <1>4, <2>1, <2>2, ToolGroups DEF safetyTool
  <1>5. Good(panelTool(b, r))
    <2> HIDE DEF Good
    <2> QED BY <1>1 DEF panelTool, panelRestart, suspendAccount, unsuspendAccount, panelReading, panelDetails
  <1>6. Good(batchTool(b, r))
    <2>1. \A targets : Same(b, multiServerExecuteBatch(b, targets).b)
      BY DEF multiServerExecuteBatch, Reply, Same, BackendFields
    <2>2. \A targets : Good(Executed(multiServerExecuteBatch(b, targets).b, TRUE))
      BY <1>1, <2>1
    <2> HIDE DEF Good
    <2> QED BY <1>1, <2>2 DEF batchTool
  <1> HIDE DEF Good
  <1>7. Good(mockTool(b, r))
    BY <1>1, <1>2, <1>3, <1>4, <1>5, <1>6 DEF mockTool
  <1> QED BY <1>7 DEF Good

ReadOps ==
  { "getSetting", "listServers", "listCredentialRefs", "getSecret",
    "testServerConnection", "readTerminalOutput", "listTerminalSessions",
    "sftpListDirectory", "sftpReadFile", "safetyListBackups",
    "serverReadings", "serverServiceStatus", "panelReadings", "accountReadings",
    "listPendingApprovals", "listConversations", "listMessages",
    "checkForUpdates", "installUpdate", "exportAuditLog",
    "getAlphaReadinessReport", "checkDatabaseIntegrity", "vacuumDatabase" }

\* A query changes nothing, and answers for the subject it was asked about.
LEMMA ReadSame ==
    ASSUME NEW b, NEW c, c.op \in ReadOps, NEW r \in Serve(b, c)
    PROVE  /\ r.b = b
           /\ c.op = "listServers" => r.val = b.servers
           /\ c.op = "getSetting" => r.val = b.settings[c.x]
           /\ c.op \in {"serverReadings", "panelReadings"} => r.val.of = c.x
           /\ c.op = "sftpListDirectory" => r.val.of = c.x.server /\ r.val.dir = c.x.dir
  <1>1. CASE c.op \in {"getSetting", "listServers", "listCredentialRefs", "getSecret"}
    <2>1. /\ c.op = "getSetting" => r = getSetting(b, c.x)
          /\ c.op = "listServers" => r = listServers(b)
          /\ c.op = "listCredentialRefs" => r = listCredentialRefs(b)
          /\ c.op = "getSecret" => r = getSecret(b, c.x)
      BY DEF Serve
    <2> QED BY <1>1, <2>1 DEF getSetting, listServers, listCredentialRefs, getSecret, Reply
  <1>2. CASE c.op \in {"testServerConnection", "readTerminalOutput", "listTerminalSessions"}
    <2>1. /\ c.op = "testServerConnection" => \E s : r = testServerConnection(b, c.x, s)
          /\ c.op = "readTerminalOutput" => r = readTerminalOutput(b, c.x.id, c.x.lastSeq)
          /\ c.op = "listTerminalSessions" => r = listTerminalSessions(b)
      BY DEF Serve
    <2>2. \A s : testServerConnection(b, c.x, s).b = b
      BY DEF testServerConnection, Reply
    <2>3. readTerminalOutput(b, c.x.id, c.x.lastSeq).b = b /\ listTerminalSessions(b).b = b
      BY DEF readTerminalOutput, listTerminalSessions, Reply
    <2> QED BY <1>2, <2>1, <2>2, <2>3
  <1>3. CASE c.op \in {"sftpListDirectory", "sftpReadFile", "safetyListBackups"}
    <2>1. /\ c.op = "sftpListDirectory" => r = sftpListDirectory(b, c.x.server, c.x.dir)
          /\ c.op = "sftpReadFile" => r = sftpReadFile(b, c.x.server, c.x.path, LongFiles)
          /\ c.op = "safetyListBackups" => r = safetyListBackups(b, c.x)
      BY DEF Serve
    <2> QED BY <1>3, <2>1 DEF sftpListDirectory, sftpReadFile, safetyListBackups, Reply
  <1>4. CASE c.op \in {"serverReadings", "serverServiceStatus", "panelReadings", "accountReadings"}
    <2>1. /\ c.op = "serverReadings" => r \in {serverReadings(b, c.x), serverTailLog(b, c.x)}
          /\ c.op = "serverServiceStatus" => r = serverServiceStatus(b, c.x)
          /\ c.op = "panelReadings" => r \in {panelReadings(b, c.x), panelServices(b, c.x), panelExtras(b, c.x)}
          /\ c.op = "accountReadings" => r = accountReadings(b, c.x.server, c.x.user)
      BY DEF Serve
    <2>2. \A x : /\ serverReadings(b, x).b = b /\ serverReadings(b, x).val.of = x
                 /\ serverTailLog(b, x).b = b /\ serverTailLog(b, x).val.of = x
                 /\ serverServiceStatus(b, x).b = b
      BY DEF serverReadings, serverTailLog, serverServiceStatus, Reply
    <2>3. \A x : /\ panelReadings(b, x).b = b /\ panelReadings(b, x).val.of = x
                 /\ panelServices(b, x).b = b /\ panelServices(b, x).val.of = x
                 /\ panelExtras(b, x).b = b /\ panelExtras(b, x).val.of = x
      BY DEF panelReadings, panelServices, panelExtras, Reply
    <2>4. accountReadings(b, c.x.server, c.x.user).b = b
      BY DEF accountReadings, Reply
    <2> QED BY <1>4, <2>1, <2>2, <2>3, <2>4
  <1>5. CASE c.op \in {"listPendingApprovals", "listConversations", "listMessages"}
    <2>1. /\ c.op = "listPendingApprovals" => r = listPendingApprovals(b)
          /\ c.op = "listConversations" => r = listConversations(b, c.x)
          /\ c.op = "listMessages" => r = listMessages(b, c.x)
      BY DEF Serve
    <2> QED BY <1>5, <2>1 DEF listPendingApprovals, listConversations, listMessages, Reply
  <1>6. CASE c.op \in {"checkForUpdates", "installUpdate", "exportAuditLog",
                      "getAlphaReadinessReport", "checkDatabaseIntegrity", "vacuumDatabase"}
    <2>1. /\ c.op = "checkForUpdates" => \E u : r = checkForUpdates(b, u)
          /\ c.op = "installUpdate" => r = installUpdate(b)
          /\ c.op = "exportAuditLog" => r = exportAuditLog(b, c.x)
      BY DEF Serve
    <2>2. /\ c.op = "getAlphaReadinessReport" => \E p : r = getAlphaReadinessReport(b, p)
          /\ c.op = "checkDatabaseIntegrity" => \E p : r = checkDatabaseIntegrity(b, p)
          /\ c.op = "vacuumDatabase" => r = vacuumDatabase(b)
      BY DEF Serve
    <2>3. /\ \A u : checkForUpdates(b, u).b = b
          /\ installUpdate(b).b = b /\ exportAuditLog(b, c.x).b = b
          /\ \A p : getAlphaReadinessReport(b, p).b = b /\ checkDatabaseIntegrity(b, p).b = b
          /\ vacuumDatabase(b).b = b
      BY DEF checkForUpdates, installUpdate, exportAuditLog,
                getAlphaReadinessReport, checkDatabaseIntegrity, vacuumDatabase, Reply
    <2> QED BY <1>6, <2>1, <2>2, <2>3
  <1> QED BY <1>1, <1>2, <1>3, <1>4, <1>5, <1>6 DEF ReadOps

WriteOps ==
  { "saveSecret", "deleteSecret", "acceptServerHostKey", "pruneAuditEvents",
    "startTerminalSession", "sendTerminalInput", "interruptTerminal",
    "terminateTerminalSession", "sftpWriteFile", "sftpDeleteFile",
    "sftpCreateDirectory", "safetyRestoreBackup", "safetySetFullAccessExpiry",
    "safetyGetFullAccessStatus", "serverServiceAction", "cpanelRestartService",
    "cpanelSuspendAccount", "cpanelUnsuspendAccount", "evaluateAndExecuteTool",
    "submitApproval", "saveConversation", "deleteConversation" }

\* A command on anything but servers, settings and messages leaves these
\* alone.
LEMMA WriteSame ==
    ASSUME NEW b, DOMAIN b = BackendFields, NEW c, c.op \in WriteOps, NEW r \in Serve(b, c)
    PROVE  /\ Same(b, r.b)
           /\ c.op = "saveSecret" => r.val = c.x
           /\ c.op = "evaluateAndExecuteTool" => r.val.type \in ToolTypes
  <1>0. Same(b, b)
    BY DEF Same
  <1>1. CASE c.op \in {"saveSecret", "deleteSecret", "acceptServerHostKey", "pruneAuditEvents"}
    <2>1. /\ c.op = "saveSecret" => r = saveSecret(b, c.x)
          /\ c.op = "deleteSecret" => r = deleteSecret(b, c.x)
          /\ c.op = "acceptServerHostKey" => r = acceptServerHostKey(b, c.x)
          /\ c.op = "pruneAuditEvents" => \E n : r = pruneAuditEvents(b, c.x, n)
      BY DEF Serve
    <2>2. /\ Same(b, saveSecret(b, c.x).b) /\ saveSecret(b, c.x).val = c.x
          /\ Same(b, deleteSecret(b, c.x).b)
      BY DEF saveSecret, deleteSecret, Reply, Same, BackendFields
    <2>3. Same(b, acceptServerHostKey(b, c.x).b)
      BY DEF acceptServerHostKey, Reply, Same, BackendFields
    <2>4. \A n : Same(b, pruneAuditEvents(b, c.x, n).b)
      BY DEF pruneAuditEvents, Reply, Same, BackendFields
    <2> QED BY <1>1, <2>1, <2>2, <2>3, <2>4
  <1>2. CASE c.op \in {"startTerminalSession", "terminateTerminalSession"}
    <2>1. /\ c.op = "startTerminalSession" => r = startTerminalSession(b, c.x)
          /\ c.op = "terminateTerminalSession" => r = terminateTerminalSession(b, c.x)
      BY DEF Serve
    <2>2. Same(b, startTerminalSession(b, c.x).b)
      BY DEF startTerminalSession, Reply, Same, BackendFields
    <2>3. Same(b, terminateTerminalSession(b, c.x).b)
      BY DEF terminateTerminalSession, Reply, Same, BackendFields
    <2> QED BY <1>2, <2>1, <2>2, <2>3
  <1>3. CASE c.op \in {"sendTerminalInput", "interruptTerminal"}
    <2>1. \A id, line : Same(b, sendTerminalInput(b, id, line).b)
      BY DEF sendTerminalInput, Reply, Same, BackendFields
    <2> QED BY <1>3, <2>1 DEF Serve, interruptTerminal
  <1>4. CASE c.op \in {"sftpWriteFile", "sftpDeleteFile", "sftpCreateDirectory", "safetyRestoreBackup"}
    <2>1. \A server, path, text, keep, snapshot :
            /\ Same(b, sftpWriteFile(b, server, path, text, keep).b)
            /\ Same(b, sftpDeleteFile(b, server, path).b)
            /\ Same(b, sftpCreateDirectory(b, server, path).b)
            /\ Same(b, safetyRestoreBackup(b, snapshot).b)
      BY FilesSame
    <2> QED BY <1>4, <2>1 DEF Serve
  <1>5. CASE c.op \in {"safetySetFullAccessExpiry", "safetyGetFullAccessStatus"}
    <2>1. /\ c.op = "safetySetFullAccessExpiry" => r = safetySetFullAccessExpiry(b, c.x)
          /\ c.op = "safetyGetFullAccessStatus" => r = safetyGetFullAccessStatus(b, c.x)
      BY DEF Serve
    <2>2. Same(b, safetySetFullAccessExpiry(b, c.x).b)
      BY DEF safetySetFullAccessExpiry, Reply, Same, BackendFields
    <2>3. Same(b, safetyGetFullAccessStatus(b, c.x).b)
      BY DEF safetyGetFullAccessStatus, Reply, Same, BackendFields
    <2> QED BY <1>5, <2>1, <2>2, <2>3
  <1>6. CASE c.op \in {"serverServiceAction", "cpanelRestartService", "cpanelSuspendAccount",
                      "cpanelUnsuspendAccount"}
    <2>1. /\ c.op = "serverServiceAction" =>
               r = serverServiceAction(b, c.x.server, c.x.service, c.x.action)
          /\ c.op = "cpanelRestartService" => r = cpanelRestartService(b, c.x.server, c.x.service)
          /\ c.op = "cpanelSuspendAccount" => r = cpanelSuspendAccount(b, c.x.server, c.x.user)
          /\ c.op = "cpanelUnsuspendAccount" => r = cpanelUnsuspendAccount(b, c.x.server, c.x.user)
      BY DEF Serve
    <2>2. \A what : Same(b, Operate(b, what))
      BY DEF Operate, Same, BackendFields
    <2>3. /\ \A s, x, a : Same(b, serverServiceAction(b, s, x, a).b)
          /\ \A s, x : Same(b, cpanelRestartService(b, s, x).b)
          /\ \A s, x : Same(b, cpanelSuspendAccount(b, s, x).b)
          /\ \A s, x : Same(b, cpanelUnsuspendAccount(b, s, x).b)
      BY <2>2 DEF serverServiceAction, cpanelRestartService, cpanelSuspendAccount,
                cpanelUnsuspendAccount, Reply
    <2> QED BY <1>6, <2>1, <2>3
  <1>7. CASE c.op = "evaluateAndExecuteTool"
    <2>1. r = mockTool(b, c.x) \/ r \in coreTool(b, c.x)
      BY <1>7 DEF Serve
    <2>2. ASSUME r \in coreTool(b, c.x)
          PROVE  Same(b, r.b) /\ r.val.type \in ToolTypes
      <3>1. \A ran : Same(b, [b EXCEPT !.ran = ran])
        BY DEF Same, BackendFields
      <3>2. \A ran : /\ Same(b, Executed([b EXCEPT !.ran = ran], TRUE).b)
                     /\ Executed([b EXCEPT !.ran = ran], TRUE).val.type \in ToolTypes
        BY <3>1, ExecutedSame
      <3>3. PICK ran : r \in {Executed([b EXCEPT !.ran = ran], TRUE), Executed(b, FALSE),
                              Ask(b, c.x, NoWord), Ask(b, c.x, c.x.server), Denied(b)}
        BY <2>2 DEF coreTool
      <3> QED BY <3>2, <3>3, PlainSame, AskSame
    <2> QED BY <1>7, <2>1, <2>2, MockSame
  <1>8. CASE c.op = "submitApproval"
    <2>1. r = mockSubmit(b, c.x.id, c.x.approved) \/ r \in coreSubmit(b, c.x)
      BY <1>8 DEF Serve
    <2> DEFINE rest == [b EXCEPT !.pend = Without(@, c.x.id)]
    <2>2. Same(b, rest) /\ DOMAIN rest = BackendFields
      BY DEF Same, BackendFields
    <2>3. r = mockSubmit(b, c.x.id, c.x.approved) => Same(b, r.b)
      BY <2>2 DEF mockSubmit, Reply
    <2>4. ASSUME r \in coreSubmit(b, c.x)
          PROVE  Same(b, r.b)
      <3> DEFINE ran == rest.ran \cup {<< "approved", c.x.id >>}
      <3>0. r \in {Reply(b, [ok |-> FALSE]), Reply(rest, [ok |-> FALSE]),
                   Reply([rest EXCEPT !.ran = ran], [ok |-> TRUE])}
        BY <2>4 DEF coreSubmit
      <3> HIDE DEF rest, ran
      <3>1. r.b \in {b, rest, [rest EXCEPT !.ran = ran]}
        BY <3>0 DEF Reply
      <3>2. Same(b, [rest EXCEPT !.ran = ran])
        BY <2>2 DEF Same, BackendFields
      <3> QED BY <1>0, <2>2, <3>1, <3>2
    <2> QED BY <1>8, <2>1, <2>3, <2>4
  <1>9. CASE c.op \in {"saveConversation", "deleteConversation"}
    <2>1. /\ c.op = "saveConversation" => r = saveConversation(b, c.x.id, c.x.server)
          /\ c.op = "deleteConversation" => r = deleteConversation(b, c.x)
      BY DEF Serve
    <2>2. Same(b, saveConversation(b, c.x.id, c.x.server).b)
      BY DEF saveConversation, Reply, Same, BackendFields
    <2>3. Same(b, deleteConversation(b, c.x).b)
      BY DEF deleteConversation, Reply, Same, BackendFields
    <2> QED BY <1>9, <2>1, <2>2, <2>3
  <1> QED BY <1>1, <1>2, <1>3, <1>4, <1>5, <1>6, <1>7, <1>8, <1>9 DEF WriteOps

\* What a backend's answer tells, and what becomes of the backend.
AnswerFits(b, c, r) ==
    /\ c.op \notin {"saveServer", "deleteServer"} => r.b.servers = b.servers
    /\ r.b.settings.permission_mode = IF ModeWrite(c) THEN c.x.value ELSE b.settings.permission_mode
    /\ c.op = "listServers" => r.val = b.servers
    /\ c.op = "getSetting" => r.val = b.settings[c.x]
    /\ c.op = "saveSecret" => r.val = c.x
    /\ c.op = "evaluateAndExecuteTool" => r.val.type \in ToolTypes
    /\ c.op \in {"serverReadings", "panelReadings"} => r.val.of = c.x
    /\ c.op = "sftpListDirectory" => r.val.of = c.x.server /\ r.val.dir = c.x.dir

\* A backend whose servers, settings and messages are left alone still fits.
LEMMA SameFits ==
    ASSUME NEW b, NEW new, NEW hist, BackendFits(b, hist), Same(b, new)
    PROVE  BackendFits(new, hist)
  BY DEF BackendFits, Same

\* Saving a fitting profile keeps the list of servers fitting.
LEMMA BindFits ==
    ASSUME NEW servers, ListFits(servers), NEW s \in ServerIds, NEW p, ProfileFits(s, p)
    PROVE  ListFits(Bind(servers, s, p))
  BY DEF ListFits, Bind

\* Every call is a query, one of those commands, or one of four others.
LEMMA OpGroups ==
    \A c, hist, n : CallFits(c, hist, n) =>
      c.op \in ReadOps \cup WriteOps \cup {"setSetting", "saveServer", "deleteServer", "saveMessage"}
  BY DEF CallFits, Operations, ReadOps, WriteOps

\* Whatever a backend answers, it still fits, and the answer is of the kind
\* its continuation expects.
LEMMA Served ==
    ASSUME NEW b, NEW c, NEW hist, NEW n, BackendFits(b, hist), CallFits(c, hist, n),
           NEW r \in Serve(b, c)
    PROVE  BackendFits(r.b, hist) /\ AnswerFits(b, c, r)
  <1>0. DOMAIN b = BackendFields
    BY DEF BackendFits
  <1>1. CASE c.op \in ReadOps
    <2>1. r.b = b
      BY <1>1, ReadSame
    <2>2. ~ModeWrite(c) /\ c.op \notin {"saveSecret", "evaluateAndExecuteTool"}
      BY <1>1 DEF ModeWrite, ReadOps
    <2> QED BY <1>1, <2>1, <2>2, ReadSame DEF AnswerFits
  <1>2. CASE c.op \in WriteOps
    <2>1. Same(b, r.b)
      BY <1>0, <1>2, WriteSame
    <2>2. BackendFits(r.b, hist)
      BY <2>1, SameFits
    <2>3. ~ModeWrite(c) /\ c.op \notin {"listServers", "getSetting", "serverReadings",
                                       "panelReadings", "sftpListDirectory"}
      BY <1>2 DEF ModeWrite, WriteOps
    <2>4. r.b.servers = b.servers /\ r.b.settings = b.settings
      BY <2>1 DEF Same
    <2> QED BY <1>0, <1>2, <2>2, <2>3, <2>4, WriteSame DEF AnswerFits
  <1>3. CASE c.op = "setSetting"
    <2>1. r = setSetting(b, c.x.key, c.x.value)
      BY <1>3 DEF Serve
    <2>2. r.b = [b EXCEPT !.settings[c.x.key] = c.x.value]
      BY <2>1 DEF setSetting, Reply
    <2>3. /\ DOMAIN r.b = BackendFields /\ r.b.servers = b.servers /\ r.b.msgs = b.msgs
          /\ r.b.settings = [b.settings EXCEPT ![c.x.key] = c.x.value]
      BY <1>0, <2>2 DEF BackendFields
    <2>4. /\ DOMAIN r.b.settings = DOMAIN b.settings
          /\ r.b.settings.permission_mode = IF c.x.key = "permission_mode" THEN c.x.value
                                            ELSE b.settings.permission_mode
      BY <2>3 DEF BackendFits
    <2>5. BackendFits(r.b, hist)
      BY <2>3, <2>4 DEF BackendFits
    <2> QED BY <1>3, <2>3, <2>4, <2>5 DEF AnswerFits, ModeWrite
  <1>4. CASE c.op = "saveServer"
    <2>1. r = saveServer(b, c.x.id, c.x.profile)
      BY <1>4 DEF Serve
    <2>2. /\ DOMAIN r.b = BackendFields /\ r.b.msgs = b.msgs /\ r.b.settings = b.settings
          /\ r.b.servers = Bind(b.servers, c.x.id, c.x.profile)
      BY <1>0, <2>1 DEF saveServer, Reply, BackendFields
    <2>3. ListFits(r.b.servers)
      BY <1>4, <2>2, BindFits DEF CallFits, BackendFits
    <2>4. BackendFits(r.b, hist)
      BY <2>2, <2>3 DEF BackendFits
    <2> QED BY <1>4, <2>2, <2>4 DEF AnswerFits, ModeWrite
  <1>5. CASE c.op = "deleteServer"
    <2>1. r = deleteServer(b, c.x)
      BY <1>5 DEF Serve
    <2>2. /\ DOMAIN r.b = BackendFields /\ r.b.msgs = b.msgs /\ r.b.settings = b.settings
          /\ r.b.servers = [s \in DOMAIN b.servers \ {c.x} |-> b.servers[s]]
      BY <1>0, <2>1 DEF deleteServer, Reply, BackendFields
    <2>3. ListFits(r.b.servers)
      BY <2>2 DEF BackendFits, ListFits
    <2>4. BackendFits(r.b, hist)
      BY <2>2, <2>3 DEF BackendFits
    <2> QED BY <1>5, <2>2, <2>4 DEF AnswerFits, ModeWrite
  <1>6. CASE c.op = "saveMessage"
    <2>1. r = saveMessage(b, c.x)
      BY <1>6 DEF Serve
    <2>2. /\ DOMAIN r.b = BackendFields /\ r.b.msgs = b.msgs \cup {c.x}
          /\ r.b.settings = b.settings /\ r.b.servers = b.servers
      BY <1>0, <2>1 DEF saveMessage, Reply, BackendFields
    <2>3. MessageFits(c.x, hist)
      BY <1>6 DEF CallFits
    <2>4. BackendFits(r.b, hist)
      BY <2>2, <2>3 DEF BackendFits
    <2> QED BY <1>6, <2>2, <2>4 DEF AnswerFits, ModeWrite
  <1> QED BY <1>1, <1>2, <1>3, <1>4, <1>5, <1>6, OpGroups

-----------------------------------------------------------------------------
(* Answers *)

\* An answer r of the bridge to c: what it leaves of the stores, and where its value is from.
Reflects(c, r) ==
    /\ StoreFits(r.store, sent) /\ r.faults \in 0 .. MaxFaults /\ r.faults <= faults
    /\ \/ \E b \in {store.core, store.page} : \E s \in Serve(b, c) : AnswerFits(b, c, s) /\ r.val = s.val
       \/ c.op \in ToolCalls /\ r.val.type = "denied"
    /\ \/ r.store.core = store.core
       \/ \E s \in Serve(store.core, c) :
            AnswerFits(store.core, c, s) /\ r.store.core = s.b /\ r.val = s.val
    /\ store.faked \subseteq r.store.faked
    /\ tauri /\ ~Refused(c) /\ c.op \notin ToolCalls \cup r.store.faked =>
         \E s \in Serve(store.core, c) :
            AnswerFits(store.core, c, s) /\ r.store.core = s.b /\ r.val = s.val

\* The same of the bridge, which falls back on the page's stores.
LEMMA Answered ==
    ASSUME Base, NEW c, CallFits(c, sent, app.mounts), NEW r \in Answers(c)
    PROVE  Reflects(c, r)
  <1>0. /\ StoreFits(store, sent) /\ faults \in 0 .. MaxFaults
        /\ BackendFits(store.core, sent) /\ BackendFits(store.page, sent)
    BY DEF Base, StoreFits
  <1>00. MaxFaults \in Nat
    BY DesktopAssumption
  <1>1. CASE r \in ByCore(c)
    <2>1. PICK s \in Serve(store.core, c) :
            r = [store |-> [store EXCEPT !.core = s.b], faults |-> faults, val |-> s.val]
      BY <1>1 DEF ByCore
    <2>2. BackendFits(s.b, sent) /\ AnswerFits(store.core, c, s)
      BY <1>0, Served
    <2>3. /\ DOMAIN r.store = {"core", "page", "faked"} /\ r.store.core = s.b
          /\ r.store.page = store.page /\ r.store.faked = store.faked
          /\ r.faults = faults /\ r.val = s.val
      BY <1>0, <2>1 DEF StoreFits
    <2>4. StoreFits(r.store, sent)
      BY <1>0, <2>2, <2>3 DEF StoreFits
    <2> QED BY <1>0, <1>00, <2>2, <2>3, <2>4 DEF Reflects
  <1>2. CASE r \in ByPage(c)
    <2>1. PICK s \in Fallback(c) :
            r = [store |-> [store EXCEPT !.page = s.b,
                                  !.faked = IF tauri /\ Pretends(c) THEN @ \cup {c.op} ELSE @],
                 faults |-> IF tauri /\ ~Refused(c) THEN faults - 1 ELSE faults,
                 val |-> s.val]
      BY <1>2 DEF ByPage
    <2>2. \/ s \in Serve(store.page, c)
          \/ c.op \in ToolCalls /\ s.b = store.page /\ s.val.type = "denied"
      BY DEF Fallback, Pretends, Reply
    <2>3. /\ BackendFits(s.b, sent)
          /\ \/ s \in Serve(store.page, c) /\ AnswerFits(store.page, c, s)
             \/ c.op \in ToolCalls /\ s.val.type = "denied"
      BY <1>0, <2>2, Served
    <2>4. /\ DOMAIN r.store = {"core", "page", "faked"} /\ r.store.core = store.core
          /\ r.store.page = s.b /\ r.val = s.val
          /\ r.store.faked = IF tauri /\ Pretends(c) THEN store.faked \cup {c.op} ELSE store.faked
          /\ r.faults = IF tauri /\ ~Refused(c) THEN faults - 1 ELSE faults
      BY <1>0, <2>1 DEF StoreFits
    <2>5. /\ store.faked \subseteq r.store.faked
          /\ tauri /\ c.op \notin ToolCalls => c.op \in r.store.faked
      BY <2>4 DEF Pretends
    <2>6. StoreFits(r.store, sent)
      BY <1>0, <2>3, <2>4 DEF StoreFits
    <2>7. tauri /\ ~Refused(c) => faults # 0
      BY <1>2 DEF ByPage
    <2>8. r.faults \in 0 .. MaxFaults /\ r.faults <= faults
      BY <1>0, <1>00, <2>4, <2>7
    <2> QED BY <2>3, <2>4, <2>5, <2>6, <2>8 DEF Reflects
  <1> QED BY <1>1, <1>2 DEF Answers

-----------------------------------------------------------------------------
(* Queues *)

\* Fitting calls may be joined to fitting calls.
LEMMA JoinFits ==
    ASSUME NEW p, NEW q, NEW hist, NEW n, QueueFits(p, hist, n), QueueFits(q, hist, n)
    PROVE  QueueFits(p \o q, hist, n)
  <1> DEFINE s == p \o q
  <1>1. IsSeq(p) /\ IsSeq(q)
    BY DEF QueueFits
  <1>2. /\ IsSeq(s)
        /\ \A i \in DOMAIN s :
             \/ i \in DOMAIN p /\ s[i] = p[i]
             \/ i - Len(p) \in DOMAIN q /\ s[i] = q[i - Len(p)]
    BY <1>1, JoinSeq
  <1> HIDE DEF s
  <1>3. ASSUME NEW i \in DOMAIN s
        PROVE  CallFits(s[i], hist, n)
    <2>1. CASE i \in DOMAIN p /\ s[i] = p[i]
      BY <2>1 DEF QueueFits
    <2>2. CASE i - Len(p) \in DOMAIN q /\ s[i] = q[i - Len(p)]
      BY <2>2 DEF QueueFits
    <2> QED BY <1>2, <2>1, <2>2
  <1>4. QueueFits(s, hist, n)
    BY <1>2, <1>3 DEF QueueFits
  <1> QED BY <1>4 DEF s

\* The head of a fitting queue fits, and so does what is left.
LEMMA TailFits ==
    ASSUME NEW q, NEW hist, NEW n, QueueFits(q, hist, n), q # <<>>
    PROVE  QueueFits(Tail(q), hist, n) /\ CallFits(Head(q), hist, n)
  BY TailSeq DEF QueueFits

\* The sequences of at most three elements.
LEMMA FewSeq ==
    /\ IsSeq(<<>>) /\ DOMAIN <<>> = {}
    /\ \A a : IsSeq(<< a >>) /\ DOMAIN << a >> = {1} /\ << a >>[1] = a
    /\ \A a, b : IsSeq(<< a, b >>) /\ DOMAIN << a, b >> = {1, 2}
                /\ << a, b >>[1] = a /\ << a, b >>[2] = b
    /\ \A a, b, c : IsSeq(<< a, b, c >>) /\ DOMAIN << a, b, c >> = {1, 2, 3}
                /\ << a, b, c >>[1] = a /\ << a, b, c >>[2] = b /\ << a, b, c >>[3] = c
  BY DEF IsSeq

\* Queues of at most three calls.
LEMMA FewFit ==
    ASSUME NEW hist, NEW n
    PROVE  /\ QueueFits(<<>>, hist, n)
           /\ \A a : CallFits(a, hist, n) => QueueFits(<< a >>, hist, n)
           /\ \A a, b : CallFits(a, hist, n) /\ CallFits(b, hist, n) => QueueFits(<< a, b >>, hist, n)
           /\ \A a, b, c : CallFits(a, hist, n) /\ CallFits(b, hist, n) /\ CallFits(c, hist, n) =>
                QueueFits(<< a, b, c >>, hist, n)
  <1>1. QueueFits(<<>>, hist, n)
    BY FewSeq DEF QueueFits
  <1>2. ASSUME NEW a, CallFits(a, hist, n)
        PROVE  QueueFits(<< a >>, hist, n)
    BY <1>2, FewSeq DEF QueueFits
  <1>3. ASSUME NEW a, NEW b, CallFits(a, hist, n), CallFits(b, hist, n)
        PROVE  QueueFits(<< a, b >>, hist, n)
    <2> DEFINE q == << a, b >>
    <2>1. IsSeq(q) /\ DOMAIN q = {1, 2} /\ q[1] = a /\ q[2] = b
      BY FewSeq
    <2> HIDE DEF q
    <2>2. QueueFits(q, hist, n)
      BY <1>3, <2>1 DEF QueueFits
    <2> QED BY <2>2 DEF q
  <1>4. ASSUME NEW a, NEW b, NEW c, CallFits(a, hist, n), CallFits(b, hist, n), CallFits(c, hist, n)
        PROVE  QueueFits(<< a, b, c >>, hist, n)
    <2> DEFINE q == << a, b, c >>
    <2>1. IsSeq(q) /\ DOMAIN q = {1, 2, 3} /\ q[1] = a /\ q[2] = b /\ q[3] = c
      BY FewSeq
    <2> HIDE DEF q
    <2>2. QueueFits(q, hist, n)
      BY <1>4, <2>1 DEF QueueFits
    <2> QED BY <2>2 DEF q
  <1> QED BY <1>1, <1>2, <1>3, <1>4

Extends(old, new) == \A i \in DOMAIN old : i \in DOMAIN new /\ new[i] = old[i]

\* A call keeps fitting as prompts are sent and views are mounted.
LEMMA CallGrows ==
    ASSUME NEW c, NEW hist, NEW n \in Nat, CallFits(c, hist, n),
           NEW new, Extends(hist, new), NEW m \in Nat, n <= m
    PROVE  CallFits(c, new, m)
  <1>1. c.on \in 0 .. n => c.on \in 0 .. m
    OBVIOUS
  <1>2. ASSUME NEW turn, TurnFits(turn, hist, n)
        PROVE  TurnFits(turn, new, m)
    <2>1. turn.mount \in 0 .. n => turn.mount \in 0 .. m
      OBVIOUS
    <2> QED BY <1>2, <2>1 DEF TurnFits, Extends
  <1>3. \A x : MessageFits(x, hist) => MessageFits(x, new)
    BY DEF MessageFits, Extends
  <1>4. \A x : RequestFits(x, hist) => RequestFits(x, new)
    BY DEF RequestFits, Extends
  <1> QED BY <1>1, <1>2, <1>3, <1>4 DEF CallFits

\* So does a queue of calls.
LEMMA QueueGrows ==
    ASSUME NEW q, NEW hist, NEW n \in Nat, QueueFits(q, hist, n),
           NEW new, Extends(hist, new), NEW m \in Nat, n <= m
    PROVE  QueueFits(q, new, m)
  BY CallGrows DEF QueueFits

\* So do the backends.
LEMMA StoreGrows ==
    ASSUME NEW st, NEW hist, StoreFits(st, hist), NEW new, Extends(hist, new)
    PROVE  StoreFits(st, new)
  BY DEF StoreFits, BackendFits, MessageFits, Extends

\* So do the views.
LEMMA TabsGrow ==
    ASSUME NEW ts, NEW n \in Nat, TabsFit(ts, n), NEW m \in Nat, n <= m
    PROVE  TabsFit(ts, m)
  <1>1. \A i : i \in 0 .. n => i \in 0 .. m
    OBVIOUS
  <1> QED BY <1>1 DEF TabsFit, TabFits

-----------------------------------------------------------------------------
(* Classes of steps *)

LoudKinds == SubmitKinds \cup AppKinds \cup FileKinds \cup WindowKinds

\* A call that concerns neither App's servers and mode nor the files view or the two windows.
Aside(c) ==
    /\ c.k \notin LoudKinds
    /\ c.op \notin WindowOps \cup {"saveServer", "deleteServer"}
    /\ ~ModeWrite(c)
AsideCalls(q) == IsSeq(q) /\ \A i \in DOMAIN q : Aside(q[i])

\* A step that makes such calls only, or answers one.
AsideStep ==
    /\ UNCHANGED << tauri, app >>
    /\ tabs'["Files"] = tabs["Files"] /\ tabs'["Servers"] = tabs["Servers"]
    /\ \E calls :
         /\ AsideCalls(calls)
         /\ \/ /\ queue' = queue \o calls /\ store'.faked = store.faked
               /\ store'.core.servers = store.core.servers
               /\ store'.core.settings = store.core.settings
            \/ /\ queue # <<>> /\ Head(queue).k \notin LoudKinds
               /\ queue' = Tail(queue) \o calls
               /\ \E r \in Answers(Head(queue)) : store' = r.store /\ faults' = r.faults

\* A step that only adds calls to those in flight.
Pushes(calls) == queue' = queue \o calls /\ UNCHANGED << store, faults >>

\* A step that answers a call of one of the kinds, and goes on with others.
Pops(kinds, calls) ==
    /\ queue # <<>> /\ Head(queue).k \in kinds /\ queue' = Tail(queue) \o calls
    /\ \E r \in Answers(Head(queue)) : store' = r.store /\ faults' = r.faults

\* What the view t shows next is the same mount of it.
Keeps(t, new) == "mount" \in DOMAIN new /\ new.mount = tabs[t].mount

\* A view that keeps its mount number may be changed.
LEMMA KeptTabs ==
    ASSUME NEW n, TabsFit(tabs, n), NEW t \in TabNames, NEW new, Keeps(t, new)
    PROVE  /\ TabsFit([tabs EXCEPT ![t] = new], n)
           /\ t # "Files" => [tabs EXCEPT ![t] = new]["Files"] = tabs["Files"]
           /\ t # "Servers" => [tabs EXCEPT ![t] = new]["Servers"] = tabs["Servers"]
  BY DEF TabsFit, TabFits, Keeps, TabNames

\* A step of the operator or the environment in a view.
LEMMA Acting ==
    ASSUME Base, UNCHANGED << tauri, store, faults, app, sent >>,
           acts' \in 0 .. MaxActs, TabsFit(tabs', app.mounts),
           NEW calls, QueueFits(calls, sent, app.mounts), queue' = queue \o calls,
           \A turn \in away' : TurnFits(turn, sent, app.mounts)
    PROVE  Base'
  <1>1. QueueFits(queue', sent', app'.mounts)
    BY JoinFits DEF Base
  <1>2. StoreFits(store', sent') /\ AppFits'
    BY DEF Base, AppFits
  <1>3. TabsFit(tabs', app'.mounts) /\ \A turn \in away' : TurnFits(turn, sent', app'.mounts)
    OBVIOUS
  <1> QED BY <1>1, <1>2, <1>3 DEF Base

\* A step of the operator in one view keeps the invariant if its calls fit.
LEMMA Doing ==
    ASSUME Base, NEW t \in TabNames, NEW new, NEW calls, Does(t, new, calls), Keeps(t, new),
           QueueFits(calls, sent, app.mounts), UNCHANGED << sent, away >>
    PROVE  Base' /\ (t \notin {"Files", "Servers"} /\ AsideCalls(calls) => AsideStep)
  <1>1. TabsFit(tabs, app.mounts) /\ \A turn \in away : TurnFits(turn, sent, app.mounts)
    BY DEF Base
  <1>2. /\ UNCHANGED << tauri, store, faults, app >> /\ queue' = queue \o calls
        /\ tabs' = [tabs EXCEPT ![t] = new] /\ acts > 0 /\ acts' = acts - 1
    BY DEF Does, Act
  <1>3. acts' \in 0 .. MaxActs
    BY <1>2, DesktopAssumption DEF Base
  <1>4. TabsFit(tabs', app.mounts)
    BY <1>1, <1>2, KeptTabs
  <1>5. Base'
    BY <1>1, <1>2, <1>3, <1>4, Acting
  <1>6. t \notin {"Files", "Servers"} /\ AsideCalls(calls) => AsideStep
    BY <1>1, <1>2, KeptTabs DEF AsideStep
  <1> QED BY <1>5, <1>6

\* A step that answers the call at the head of the queue.
LEMMA Answering ==
    ASSUME Base, queue # <<>>, NEW r \in Answers(Head(queue)), NEW calls, Take(r, calls),
           QueueFits(calls, sent, app.mounts), UNCHANGED << app, sent >>,
           TabsFit(tabs', app.mounts),
           \A turn \in away' : TurnFits(turn, sent, app.mounts)
    PROVE  /\ Base'
           /\ /\ tabs'["Files"] = tabs["Files"] /\ tabs'["Servers"] = tabs["Servers"]
              /\ Head(queue).k \notin LoudKinds /\ AsideCalls(calls)
              => AsideStep
  <1>1. QueueFits(Tail(queue), sent, app.mounts) /\ CallFits(Head(queue), sent, app.mounts)
    BY TailFits DEF Base
  <1>2. Reflects(Head(queue), r)
    BY <1>1, Answered
  <1>3. /\ store' = r.store /\ faults' = r.faults /\ queue' = Tail(queue) \o calls
        /\ UNCHANGED << tauri, acts >>
    BY DEF Take
  <1>4. QueueFits(queue', sent', app'.mounts)
    BY <1>1, <1>3, JoinFits
  <1>5. StoreFits(store', sent') /\ faults' \in 0 .. MaxFaults
    BY <1>2, <1>3 DEF Reflects
  <1>6. AppFits'
    BY DEF Base, AppFits
  <1>7. Base'
    BY <1>3, <1>4, <1>5, <1>6 DEF Base
  <1> QED BY <1>3, <1>7 DEF AsideStep

\* A call of no consequence to any of the invariants.
PlainOps ==
    Operations \ (WindowOps \cup {"saveServer", "deleteServer", "setSetting", "saveMessage",
                                   "evaluateAndExecuteTool"})
QuietKind(k) == k \notin TurnKinds \cup LoudKinds \cup {"chain", "load"}
Plain(c, n) ==
    /\ DOMAIN c = {"op", "x", "k", "e", "on"} /\ c.op \in PlainOps /\ QuietKind(c.k)
    /\ c.on \in 0 .. n
PlainCalls(q, n) == IsSeq(q) /\ \A i \in DOMAIN q : Plain(q[i], n)

QuietNames ==
  { "-", "pending", "listed", "loaded", "deleted", "stored", "approved", "rejected",
    "available", "sessions", "polled", "started", "terminated", "relisted",
    "expiry set", "key saved", "key listed", "secrets", "references", "update",
    "tokens", "tested", "accepted", "serviced", "suspended", "activity",
    "restored", "downloaded" }

\* The continuations that disturb no invariant.
LEMMA Quiets == \A k \in QuietNames : QuietKind(k) /\ k \notin LoudKinds
  <1>1. \A k \in QuietNames : k \notin TurnKinds \cup {"chain", "load"}
    BY DEF QuietNames, TurnKinds
  <1>2. \A k \in QuietNames : k \notin SubmitKinds \cup FileKinds \cup WindowKinds
    BY DEF QuietNames, SubmitKinds, FileKinds, WindowKinds
  <1>3. \A k \in QuietNames : k \notin AppKinds
    BY DEF QuietNames, AppKinds, LaunchKinds, ListKinds, ChangeKinds
  <1> QED BY <1>1, <1>2, <1>3 DEF QuietKind, LoudKinds

\* Those of turns, chains and loads are not among the loud ones.
LEMMA Loudly ==
    /\ \A k \in TurnKinds : k \notin LoudKinds
    /\ \A k \in {"chain", "load"} : k \notin LoudKinds
  BY DEF TurnKinds, LoudKinds, SubmitKinds, AppKinds, LaunchKinds, ListKinds, ChangeKinds, FileKinds,
         WindowKinds

\* A plain call fits whatever it carries.
LEMMA PlainFits ==
    ASSUME NEW c, NEW hist, NEW n, Plain(c, n)
    PROVE  CallFits(c, hist, n) /\ Aside(c)
  <1>1. /\ c.op \in Operations \ WindowOps
        /\ c.op \notin {"saveServer", "deleteServer", "setSetting", "saveMessage", "evaluateAndExecuteTool"}
    BY DEF Plain, PlainOps
  <1>2. /\ c.k \notin TurnKinds /\ c.k \notin LoudKinds /\ c.k # "chain" /\ c.k # "load"
        /\ c.k \notin SubmitKinds /\ c.k \notin AppKinds
    BY DEF Plain, QuietKind, LoudKinds
  <1>3. KindFits(c)
    BY <1>1, <1>2 DEF KindFits, TurnKinds, LoudKinds, AppKinds, LaunchKinds, ListKinds, ChangeKinds,
       SubmitKinds, FileKinds, WindowKinds
  <1>4. CallFits(c, hist, n)
    BY <1>1, <1>2, <1>3 DEF CallFits, Plain
  <1>5. Aside(c)
    BY <1>1, <1>2 DEF Aside, ModeWrite
  <1> QED BY <1>4, <1>5

\* So does a queue of them.
LEMMA PlainQueue ==
    ASSUME NEW q, NEW hist, NEW n, PlainCalls(q, n)
    PROVE  QueueFits(q, hist, n) /\ AsideCalls(q)
  BY PlainFits DEF PlainCalls, QueueFits, AsideCalls

\* Queues of at most two plain calls.
LEMMA FewPlain ==
    ASSUME NEW n
    PROVE  /\ PlainCalls(<<>>, n)
           /\ \A a : Plain(a, n) => PlainCalls(<< a >>, n)
           /\ \A a, b : Plain(a, n) /\ Plain(b, n) => PlainCalls(<< a, b >>, n)
  <1>1. PlainCalls(<<>>, n)
    BY FewSeq DEF PlainCalls
  <1>2. ASSUME NEW a, Plain(a, n)
        PROVE  PlainCalls(<< a >>, n)
    BY <1>2, FewSeq DEF PlainCalls
  <1>3. ASSUME NEW a, NEW b, Plain(a, n), Plain(b, n)
        PROVE  PlainCalls(<< a, b >>, n)
    <2> DEFINE q == << a, b >>
    <2>1. IsSeq(q) /\ DOMAIN q = {1, 2} /\ q[1] = a /\ q[2] = b
      BY FewSeq
    <2> HIDE DEF q
    <2>2. PlainCalls(q, n)
      BY <1>3, <2>1 DEF PlainCalls
    <2> QED BY <2>2 DEF q
  <1> QED BY <1>1, <1>2, <1>3

\* Every view has a mount number from the past.
LEMMA Mounted ==
    ASSUME Base, NEW t \in TabNames
    PROVE  "mount" \in DOMAIN tabs[t] /\ tabs[t].mount \in 0 .. app.mounts
  BY DEF Base, TabsFit, TabFits

\* A step of the operator that makes plain calls.
LEMMA DoingPlain ==
    ASSUME Base, NEW t \in TabNames \ {"Files", "Servers"}, NEW new, NEW calls,
           Does(t, new, calls), Keeps(t, new),
           PlainCalls(calls, app.mounts), UNCHANGED << sent, away >>
    PROVE  Base' /\ AsideStep
  BY Doing, PlainQueue

\* An answer changes the one view it was for, if anything.
LEMMA Showing ==
    ASSUME Base, NEW c, NEW t \in TabNames, NEW new, Keeps(t, new), Shows(c, t, new)
    PROVE  /\ TabsFit(tabs', app.mounts)
           /\ t # "Files" => tabs'["Files"] = tabs["Files"]
           /\ t # "Servers" => tabs'["Servers"] = tabs["Servers"]
  <1>1. TabsFit(tabs, app.mounts)
    BY DEF Base
  <1> QED BY <1>1, KeptTabs DEF Shows

\* The call that is answered.
LEMMA Headed ==
    ASSUME Base, NEW k, Awaited(k)
    PROVE  queue # <<>> /\ Head(queue).k = k /\ CallFits(Head(queue), sent, app.mounts)
  BY TailFits DEF Base, Awaited

\* An answer whose handler goes on with plain calls.
LEMMA AnsweringPlain ==
    ASSUME Base, NEW k, Awaited(k), k \notin LoudKinds, NEW r \in Answers(Head(queue)),
           NEW calls, Take(r, calls), PlainCalls(calls, app.mounts), UNCHANGED << app, sent, away >>,
           TabsFit(tabs', app.mounts),
           tabs'["Files"] = tabs["Files"], tabs'["Servers"] = tabs["Servers"]
    PROVE  Base' /\ AsideStep
  <1>1. queue # <<>> /\ Head(queue).k = k
    BY DEF Awaited
  <1>2. \A turn \in away' : TurnFits(turn, sent, app.mounts)
    BY DEF Base
  <1> QED BY <1>1, <1>2, Answering, PlainQueue

-----------------------------------------------------------------------------
(* The chat *)

\* The plain calls of the chat.
LEMMA ChatPlain ==
    ASSUME Base, NEW op \in PlainOps, NEW x, NEW k, QuietKind(k), NEW e
    PROVE  Plain(ChatCall(op, x, k, e), app.mounts)
  BY Mounted DEF ChatCall, Call, Plain, TabNames

\* What the operator does in the chat, except sending a prompt.
LEMMA ChatActs ==
    ASSUME Base, \/ NewChat \/ Cancel \/ TypeWord \/ Approve \/ Reject
                 \/ \E conv \in 1 .. Len(sent) : SelectConversation(conv) \/ DeleteConversation(conv)
    PROVE  Base' /\ AsideStep
  <1>0. "mount" \in DOMAIN Chat /\ Keeps("Chat", Chat) /\ "Chat" \in TabNames \ {"Files", "Servers"}
    BY Mounted DEF Chat, Keeps, TabNames
  <1>1. CASE NewChat
    <2>1. Does("Chat", Blank(Chat), <<>>) /\ UNCHANGED << sent, away >>
      BY <1>1 DEF NewChat, chatVars
    <2>2. Keeps("Chat", Blank(Chat))
      BY <1>0 DEF Blank, Keeps
    <2> QED BY <1>0, <2>1, <2>2, FewPlain, DoingPlain
  <1>2. CASE Cancel
    BY <1>0, <1>2, FewPlain, DoingPlain DEF Cancel
  <1>3. CASE TypeWord
    <2> DEFINE new == [Chat EXCEPT !.typed = Chat.pend.word]
    <2>1. Does("Chat", new, <<>>) /\ UNCHANGED << sent, away >>
      BY <1>3 DEF TypeWord, chatVars
    <2>2. Keeps("Chat", new)
      BY <1>0 DEF Keeps
    <2> QED BY <1>0, <2>1, <2>2, FewPlain, DoingPlain
  <1>4. CASE Approve \/ Reject
    <2> DEFINE new == [Chat EXCEPT !.busy = TRUE]
    <2>1. PICK approved \in BOOLEAN : Does("Chat", new, << Submission(approved) >>)
      BY <1>4 DEF Approve, Reject
    <2>2. Keeps("Chat", new)
      BY <1>0 DEF Keeps
    <2>3. Plain(Submission(approved), app.mounts)
      <3>1. "submitApproval" \in PlainOps /\ {"approved", "rejected"} \subseteq QuietNames
        BY DEF PlainOps, Operations, WindowOps, QuietNames
      <3> QED BY <3>1, ChatPlain, Quiets DEF Submission
    <2>4. UNCHANGED << sent, away >>
      BY <1>4 DEF Approve, Reject, chatVars
    <2> HIDE DEF new
    <2> QED BY <1>0, <2>1, <2>2, <2>3, <2>4, FewPlain, DoingPlain
  <1>5. CASE \E conv \in 1 .. Len(sent) : SelectConversation(conv)
    <2>1. PICK conv : SelectConversation(conv)
      BY <1>5
    <2> DEFINE new == [Chat EXCEPT !.conv = conv]
               call == ChatCall("listMessages", conv, "loaded", conv)
    <2>2. Does("Chat", new, << call >>) /\ UNCHANGED << sent, away >>
      BY <2>1 DEF SelectConversation, chatVars
    <2>3. Keeps("Chat", new)
      BY <1>0 DEF Keeps
    <2>4. Plain(call, app.mounts)
      <3>1. "listMessages" \in PlainOps /\ "loaded" \in QuietNames
        BY DEF PlainOps, Operations, WindowOps, QuietNames
      <3> QED BY <3>1, ChatPlain, Quiets
    <2> HIDE DEF new, call
    <2> QED BY <1>0, <2>2, <2>3, <2>4, FewPlain, DoingPlain
  <1>6. CASE \E conv \in 1 .. Len(sent) : DeleteConversation(conv)
    <2>1. PICK conv : DeleteConversation(conv)
      BY <1>6
    <2> DEFINE call == ChatCall("deleteConversation", conv, "deleted",
                                [current |-> Chat.conv, conv |-> conv, server |-> ActiveServer])
    <2>2. Does("Chat", Chat, << call >>) /\ UNCHANGED << sent, away >>
      BY <2>1 DEF DeleteConversation, chatVars
    <2>3. Plain(call, app.mounts)
      <3>1. "deleteConversation" \in PlainOps /\ "deleted" \in QuietNames
        BY DEF PlainOps, Operations, WindowOps, QuietNames
      <3> QED BY <3>1, ChatPlain, Quiets
    <2> HIDE DEF call
    <2> QED BY <1>0, <2>2, <2>3, FewPlain, DoingPlain
  <1> QED BY <1>1, <1>2, <1>3, <1>4, <1>5, <1>6

\* A message, and the calls that carry a turn on.
CallFields == {"op", "x", "k", "e", "on"}
\* Storing a message of the turn it belongs to.
LEMMA MessageCall ==
    ASSUME NEW hist, NEW n, NEW c, DOMAIN c = CallFields, c.op = "saveMessage",
           MessageFits(c.x, hist), c.k \in {"-", "stored"}, c.on \in 0 .. n
    PROVE  CallFits(c, hist, n) /\ Aside(c)
  <1>1. QuietKind(c.k)
    BY Quiets DEF QuietNames
  <1>2. KindFits(c)
    BY <1>1 DEF KindFits, QuietKind, LoudKinds, SubmitKinds, AppKinds, LaunchKinds, ListKinds,
       ChangeKinds, FileKinds, WindowKinds, TurnKinds
  <1>3. CallFits(c, hist, n)
    BY <1>1, <1>2 DEF CallFits, CallFields, Operations, QuietKind, LoudKinds
  <1>4. Aside(c)
    BY <1>1 DEF Aside, QuietKind, WindowOps, ModeWrite
  <1> QED BY <1>3, <1>4

\* Reading the configuration on behalf of a turn.
LEMMA ConfigCall ==
    ASSUME NEW hist, NEW n, NEW c, DOMAIN c = CallFields, c.op \in {"getSetting", "getSecret"},
           c.k \in {"configured", "private", "keyed"}, c.k = "configured" => c.op = "getSetting",
           TurnFits(c.e, hist, n), c.on \in 0 .. n
    PROVE  CallFits(c, hist, n) /\ Aside(c)
  <1>1. c.k \in TurnKinds /\ c.k \notin LoudKinds
    BY Loudly DEF TurnKinds
  <1>2. KindFits(c)
    BY <1>1 DEF KindFits, LoudKinds, SubmitKinds, AppKinds, LaunchKinds, ListKinds,
       ChangeKinds, FileKinds, WindowKinds
  <1>3. CallFits(c, hist, n)
    BY <1>1, <1>2 DEF CallFits, CallFields, Operations, LoudKinds
  <1>4. Aside(c)
    BY <1>1 DEF Aside, WindowOps, ModeWrite
  <1> QED BY <1>3, <1>4

\* Asking the core for a tool on behalf of a turn.
LEMMA ToolCallFits ==
    ASSUME NEW hist, NEW n, NEW turn, TurnFits(turn, hist, n), NEW tool, NEW named
    PROVE  CallFits(ToolCall(turn, tool, named), hist, n) /\ Aside(ToolCall(turn, tool, named))
  <1> DEFINE c == ToolCall(turn, tool, named)
             x == c.x
  <1>1. /\ DOMAIN c = CallFields /\ c.op = "evaluateAndExecuteTool" /\ c.k = "evaluated"
        /\ c.e = turn /\ c.on = turn.mount
    BY DEF ToolCall, CallFields
  <1>2. x.id = turn.n /\ x.named = (named # NoServer) /\ x.server = TargetOf(turn, named)
    BY DEF ToolCall
  <1> HIDE DEF c, x
  <1>3. RequestFits(x, hist)
    BY <1>2 DEF RequestFits, TargetOf, TurnFits
  <1>4. c.k \in TurnKinds /\ c.k \notin LoudKinds
    BY <1>1, Loudly DEF TurnKinds
  <1>5. KindFits(c)
    BY <1>1, <1>4 DEF KindFits, LoudKinds, SubmitKinds, AppKinds, LaunchKinds, ListKinds,
       ChangeKinds, FileKinds, WindowKinds
  <1>6. turn.mount \in 0 .. n
    BY DEF TurnFits
  <1>7. CallFits(c, hist, n)
    BY <1>1, <1>3, <1>4, <1>5, <1>6 DEF CallFits, CallFields, Operations, LoudKinds, x
  <1>8. Aside(c)
    BY <1>1, <1>4 DEF Aside, WindowOps, ModeWrite
  <1> QED BY <1>7, <1>8 DEF c

\* A prompt is added to the history, which only grows.
LEMMA OneMore ==
    ASSUME NEW q, IsSeq(q), NEW a
    PROVE  /\ IsSeq(Append(q, a)) /\ Extends(q, Append(q, a))
           /\ Len(q) + 1 \in DOMAIN Append(q, a) /\ Append(q, a)[Len(q) + 1] = a
           /\ Append(q, a) = q \o << a >>
  <1> DEFINE S == ToSet(q) \cup {a}
  <1>1. q \in Seq(ToSet(q)) /\ DOMAIN q = 1 .. Len(q) /\ Len(q) \in Nat
    BY SeqOfOwn DEF IsSeq
  <1>2. q \in Seq(S) /\ a \in S
    BY <1>1
  <1> HIDE DEF S
  <1>3. Append(q, a) \in Seq(S) /\ Append(q, a) = q \o << a >>
    BY <1>2
  <1>4. IsSeq(Append(q, a))
    BY <1>3, OwnSeq
  <1> QED BY <1>1, <1>2, <1>3, <1>4 DEF Extends

\* Sending a prompt: the turn remembers its conversation and its server.
LEMMA SendActs ==
    ASSUME Base, Send
    PROVE  Base' /\ AsideStep
  <1> DEFINE n == Len(sent) + 1
             conv == IF Chat.conv = NoConv THEN n ELSE Chat.conv
             turn == [n |-> n, conv |-> conv, server |-> ActiveServer,
                      mount |-> Chat.mount, config |-> <<>>, rounds |-> 0,
                      left |-> 0]
             new == [Chat EXCEPT !.conv = conv, !.busy = TRUE, !.aborter = n,
                                 !.shown = @ \cup {<< n, "thinking" >>}]
             entry == [conv |-> conv, server |-> ActiveServer]
             first == ChatCall("saveConversation", [id |-> conv, server |-> ActiveServer], "-", 0)
             second == ChatCall("saveMessage", [conv |-> conv, turn |-> n, role |-> "user"], "-", 0)
             third == ChatCall("getSetting", ConfigKeys[1], "configured", turn)
             calls == << first, second, third >>
  <1>1. Does("Chat", new, calls) /\ sent' = Append(sent, entry) /\ UNCHANGED away
    BY DEF Send
  <1>2. /\ UNCHANGED << tauri, store, faults, app >> /\ queue' = queue \o calls
        /\ tabs' = [tabs EXCEPT !["Chat"] = new] /\ acts' \in 0 .. MaxActs
    <2>1. /\ UNCHANGED << tauri, store, faults, app >> /\ queue' = queue \o calls
          /\ tabs' = [tabs EXCEPT !["Chat"] = new] /\ acts > 0 /\ acts' = acts - 1
      BY <1>1 DEF Does, Act
    <2> QED BY <2>1, DesktopAssumption DEF Base
  <1>3. "mount" \in DOMAIN Chat /\ Chat.mount \in 0 .. app.mounts /\ "Chat" \in TabNames
    BY Mounted DEF Chat, TabNames
  <1>4. Keeps("Chat", new)
    BY <1>3 DEF Keeps, Chat
  <1>5. /\ Extends(sent, sent') /\ IsSeq(sent')
        /\ n \in DOMAIN sent' /\ sent'[n] = entry
    BY <1>1, OneMore DEF Base
  <1>6. TurnFits(turn, sent', app.mounts)
    <2>1. /\ DOMAIN turn = {"n", "conv", "server", "mount", "config", "rounds", "left"}
          /\ turn.n = n /\ turn.conv = conv /\ turn.server = ActiveServer /\ turn.mount = Chat.mount
      OBVIOUS
    <2>2. entry.conv = conv /\ entry.server = ActiveServer
      OBVIOUS
    <2> HIDE DEF turn, entry, n, conv
    <2> QED BY <1>3, <1>5, <2>1, <2>2 DEF TurnFits
  <1> HIDE DEF turn, new, entry, n
  <1>7. Plain(first, app.mounts)
    <2>1. "saveConversation" \in PlainOps /\ "-" \in QuietNames
      BY DEF PlainOps, Operations, WindowOps, QuietNames
    <2> QED BY <2>1, ChatPlain, Quiets
  <1>8. CallFits(second, sent', app.mounts) /\ Aside(second)
    <2> DEFINE m == [conv |-> conv, turn |-> n, role |-> "user"]
    <2>1. MessageFits(m, sent')
      BY DEF MessageFits
    <2>2. /\ DOMAIN second = CallFields /\ second.op = "saveMessage" /\ second.x = m
          /\ second.k = "-" /\ second.on = Chat.mount
      BY DEF ChatCall, Call, Chat, CallFields
    <2> HIDE DEF m, second
    <2> QED BY <1>3, <2>1, <2>2, MessageCall
  <1>9. CallFits(third, sent', app.mounts) /\ Aside(third)
    <2>1. /\ DOMAIN third = CallFields /\ third.op = "getSetting" /\ third.k = "configured"
          /\ third.e = turn /\ third.on = Chat.mount
      BY DEF ChatCall, Call, Chat, CallFields
    <2> HIDE DEF third
    <2> QED BY <1>3, <1>6, <2>1, ConfigCall
  <1>10. CallFits(first, sent', app.mounts) /\ Aside(first)
    BY <1>7, PlainFits
  <1> HIDE DEF first, second, third
  <1>11. QueueFits(calls, sent', app.mounts)
    BY <1>8, <1>9, <1>10, FewFit
  <1>12. AsideCalls(calls)
    <2>1. IsSeq(calls) /\ DOMAIN calls = {1, 2, 3} /\ calls[1] = first /\ calls[2] = second
          /\ calls[3] = third
      BY FewSeq
    <2> HIDE DEF calls
    <2> QED BY <1>8, <1>9, <1>10, <2>1 DEF AsideCalls
  <1> HIDE DEF calls
  <1>13. app.mounts \in Nat /\ QueueFits(queue, sent, app.mounts) /\ StoreFits(store, sent)
        /\ TabsFit(tabs, app.mounts)
    BY DEF Base, AppFits
  <1>14. QueueFits(queue', sent', app'.mounts)
    <2>1. QueueFits(queue, sent', app.mounts)
      BY <1>5, <1>13, QueueGrows
    <2> QED BY <1>2, <1>11, <2>1, JoinFits
  <1>15. StoreFits(store', sent')
    BY <1>2, <1>5, <1>13, StoreGrows
  <1>16. \A t \in away' : TurnFits(t, sent', app'.mounts)
    BY <1>1, <1>2, <1>5 DEF Base, TurnFits, Extends
  <1>17. /\ TabsFit(tabs', app'.mounts)
         /\ tabs'["Files"] = tabs["Files"] /\ tabs'["Servers"] = tabs["Servers"]
    BY <1>2, <1>3, <1>4, <1>13, KeptTabs
  <1>18. AppFits'
    BY <1>2 DEF Base, AppFits
  <1>19. Base'
    BY <1>2, <1>5, <1>14, <1>15, <1>16, <1>17, <1>18 DEF Base
  <1>20. AsideStep
    BY <1>2, <1>12, <1>17 DEF AsideStep
  <1> QED BY <1>19, <1>20

\* Answers that only change what the chat shows.
LEMMA ChatAnswers ==
    ASSUME Base, PendingShown \/ ConversationsListed \/ ConversationLoaded \/ ConversationDeleted
    PROVE  Base' /\ AsideStep
  <1>0. "mount" \in DOMAIN Chat /\ Keeps("Chat", Chat) /\ "Chat" \in TabNames
    BY Mounted DEF Chat, Keeps, TabNames
  <1> DEFINE c == Head(queue)
  <1>1. ASSUME NEW k \in QuietNames, Awaited(k), NEW r \in Answers(c), NEW calls, Take(r, calls),
               PlainCalls(calls, app.mounts), NEW new, Keeps("Chat", new), Shows(c, "Chat", new),
               UNCHANGED << app, chatVars >>
        PROVE  Base' /\ AsideStep
    <2>1. TabsFit(tabs', app.mounts) /\ tabs'["Files"] = tabs["Files"] /\ tabs'["Servers"] = tabs["Servers"]
      BY <1>0, <1>1, Showing
    <2>2. UNCHANGED << app, sent, away >>
      BY <1>1 DEF chatVars
    <2> QED BY <1>1, <2>1, <2>2, AnsweringPlain, Quiets
  <1>2. CASE PendingShown
    <2>1. Awaited("pending") /\ UNCHANGED << app, chatVars >>
      BY <1>2 DEF PendingShown
    <2>2. PICK r \in Answers(c) :
            /\ Take(r, <<>>)
            /\ Shows(c, "Chat", [Chat EXCEPT !.pend = IF r.val = <<>> THEN NoApproval ELSE r.val[1]])
      BY <1>2 DEF PendingShown
    <2>3. Keeps("Chat", [Chat EXCEPT !.pend = IF r.val = <<>> THEN NoApproval ELSE r.val[1]])
      BY <1>0 DEF Keeps
    <2> QED BY <1>1, <2>1, <2>2, <2>3, FewPlain DEF QuietNames
  <1>3. CASE ConversationsListed
    <2>1. Awaited("listed") /\ UNCHANGED << app, chatVars >>
      BY <1>3 DEF ConversationsListed
    <2>2. PICK r \in Answers(c) :
            Take(r, <<>>) /\ Shows(c, "Chat", [Chat EXCEPT !.listed = r.val])
      BY <1>3 DEF ConversationsListed
    <2>3. Keeps("Chat", [Chat EXCEPT !.listed = r.val])
      BY <1>0 DEF Keeps
    <2> QED BY <1>1, <2>1, <2>2, <2>3, FewPlain DEF QuietNames
  <1>4. CASE ConversationLoaded
    <2>1. Awaited("loaded") /\ UNCHANGED << app, chatVars >>
      BY <1>4 DEF ConversationLoaded
    <2>2. PICK r \in Answers(c) : \E shown :
            Take(r, <<>>) /\ Shows(c, "Chat", [Chat EXCEPT !.shown = shown])
      BY <1>4 DEF ConversationLoaded
    <2>3. PICK shown : Take(r, <<>>) /\ Shows(c, "Chat", [Chat EXCEPT !.shown = shown])
      BY <2>2
    <2>4. Keeps("Chat", [Chat EXCEPT !.shown = shown])
      BY <1>0 DEF Keeps
    <2> QED BY <1>1, <2>1, <2>3, <2>4, FewPlain DEF QuietNames
  <1>5. CASE ConversationDeleted
    <2> DEFINE call == Within(c, "listConversations", c.e.server, "listed")
    <2>1. Awaited("deleted") /\ UNCHANGED << app, chatVars >>
      BY <1>5 DEF ConversationDeleted
    <2>2. PICK r \in Answers(c) :
            /\ Take(r, << call >>)
            /\ Shows(c, "Chat", IF c.e.current = c.e.conv THEN Blank(Chat) ELSE Chat)
      BY <1>5 DEF ConversationDeleted
    <2>3. Keeps("Chat", Blank(Chat))
      BY <1>0 DEF Keeps, Blank
    <2>4. Plain(call, app.mounts)
      <3>1. "listConversations" \in PlainOps /\ QuietKind("listed")
        BY Quiets DEF PlainOps, Operations, WindowOps, QuietNames
      <3>2. c.on \in 0 .. app.mounts
        BY <2>1, Headed DEF CallFits
      <3> QED BY <3>1, <3>2 DEF Within, Plain
    <2> HIDE DEF call
    <2>5. Keeps("Chat", IF c.e.current = c.e.conv THEN Blank(Chat) ELSE Chat)
      BY <1>0, <2>3
    <2> QED BY <1>1, <2>1, <2>2, <2>4, <2>5, FewPlain DEF QuietNames
  <1> QED BY <1>2, <1>3, <1>4, <1>5

\* An answer to a turn whose handler goes on with fitting calls.
LEMMA AnsweringTurn ==
    ASSUME Base, NEW k, Awaited(k), k \notin LoudKinds, NEW r \in Answers(Head(queue)),
           NEW calls, Take(r, calls), QueueFits(calls, sent, app.mounts), AsideCalls(calls),
           UNCHANGED << app, sent >>,
           TabsFit(tabs', app.mounts),
           tabs'["Files"] = tabs["Files"], tabs'["Servers"] = tabs["Servers"],
           \A turn \in away' : TurnFits(turn, sent, app.mounts)
    PROVE  Base' /\ AsideStep
  <1>1. queue # <<>> /\ Head(queue).k = k
    BY DEF Awaited
  <1> QED BY <1>1, Answering

\* Queues of at most one call that disturbs nothing.
LEMMA FewAside ==
    AsideCalls(<<>>) /\ \A a : Aside(a) => AsideCalls(<< a >>)
  <1>1. AsideCalls(<<>>)
    BY FewSeq DEF AsideCalls
  <1>2. ASSUME NEW a, Aside(a)
        PROVE  AsideCalls(<< a >>)
    BY <1>2, FewSeq DEF AsideCalls
  <1> QED BY <1>1, <1>2

\* What a turn stores at its end goes to the conversation it began in.
LEMMA LastWordsFit ==
    ASSUME NEW turn, NEW hist, NEW n, TurnFits(turn, hist, n)
    PROVE  CallFits(LastWords(turn), hist, n) /\ Aside(LastWords(turn))
  <1> DEFINE m == [conv |-> turn.conv, turn |-> turn.n, role |-> "assistant"]
  <1>1. MessageFits(m, hist) /\ turn.mount \in 0 .. n
    BY DEF MessageFits, TurnFits
  <1>2. /\ DOMAIN LastWords(turn) = CallFields /\ LastWords(turn).op = "saveMessage"
        /\ LastWords(turn).x = m /\ LastWords(turn).k = "stored" /\ LastWords(turn).on = turn.mount
    BY DEF LastWords, CallFields
  <1> HIDE DEF m
  <1> QED BY <1>1, <1>2, MessageCall

\* What a turn shows concerns the chat alone.
LEMMA SeenTabs ==
    ASSUME Base, NEW turn, NEW new, Keeps("Chat", new), Seen(turn, new)
    PROVE  /\ TabsFit(tabs', app.mounts)
           /\ tabs'["Files"] = tabs["Files"] /\ tabs'["Servers"] = tabs["Servers"]
  <1>1. TabsFit(tabs, app.mounts) /\ "Chat" \in TabNames
    BY DEF Base, TabNames
  <1> QED BY <1>1, KeptTabs DEF Seen

\* A chat that has settled is the same mount.
LEMMA SettledKeeps ==
    ASSUME Base, NEW turn, NEW pend
    PROVE  Keeps("Chat", Settled(Chat, turn)) /\ Keeps("Chat", [Settled(Chat, turn) EXCEPT !.pend = pend])
  <1>1. "mount" \in DOMAIN Chat /\ Keeps("Chat", Chat)
    BY Mounted DEF Chat, Keeps, TabNames
  <1>2. DOMAIN Settled(Chat, turn) = DOMAIN Chat /\ Settled(Chat, turn).mount = Chat.mount
    BY <1>1 DEF Settled
  <1> QED BY <1>1, <1>2 DEF Keeps

\* The answers a turn waits for.
LEMMA TurnSteps ==
    ASSUME Base, Configured \/ PrivacyRead \/ KeyResolved \/ ToolAnswered
    PROVE  Base' /\ AsideStep
  <1> DEFINE c == Head(queue)
  <1>0. /\ TabsFit(tabs, app.mounts) /\ \A turn \in away : TurnFits(turn, sent, app.mounts)
        /\ {"configured", "private", "keyed", "evaluated"} \subseteq TurnKinds
    BY DEF Base, TurnKinds
  <1>1. CASE Configured
    <2>1. Awaited("configured") /\ UNCHANGED << app, tabs, sent, away >>
      BY <1>1 DEF Configured, chatVars
    <2>2. PICK r \in Answers(c) :
            LET turn == [c.e EXCEPT !.config = Append(@, r.val)]
                next == IF Len(turn.config) < Len(ConfigKeys)
                        THEN [c EXCEPT !.x = ConfigKeys[Len(turn.config) + 1]]
                        ELSE [c EXCEPT !.x = "privacy_settings", !.k = "private"]
            IN Take(r, << [next EXCEPT !.e = turn] >>)
      BY <1>1 DEF Configured
    <2> DEFINE turn == [c.e EXCEPT !.config = Append(@, r.val)]
               next == IF Len(turn.config) < Len(ConfigKeys)
                       THEN [c EXCEPT !.x = ConfigKeys[Len(turn.config) + 1]]
                       ELSE [c EXCEPT !.x = "privacy_settings", !.k = "private"]
               call == [next EXCEPT !.e = turn]
    <2>3. Take(r, << call >>)
      BY <2>2
    <2>4. CallFits(c, sent, app.mounts) /\ c.k = "configured"
      BY <2>1, Headed
    <2>40. /\ DOMAIN c = CallFields /\ c.op = "getSetting"
           /\ TurnFits(c.e, sent, app.mounts) /\ c.on \in 0 .. app.mounts
      BY <1>0, <2>4 DEF CallFits, KindFits, CallFields
    <2>5. TurnFits(turn, sent, app.mounts)
      BY <2>40 DEF TurnFits
    <2> HIDE DEF turn
    <2>50. /\ DOMAIN next = CallFields /\ next.op = "getSetting" /\ next.k \in {"configured", "private"}
           /\ next.on = c.on
      BY <2>4, <2>40 DEF CallFields
    <2> HIDE DEF next
    <2>6. /\ DOMAIN call = CallFields /\ call.op = "getSetting" /\ call.k \in {"configured", "private"}
          /\ call.e = turn /\ call.on = c.on
      BY <2>50 DEF CallFields
    <2> HIDE DEF call
    <2>7. CallFits(call, sent, app.mounts) /\ Aside(call)
      BY <2>40, <2>5, <2>6, ConfigCall
    <2>8. QueueFits(<< call >>, sent, app.mounts) /\ AsideCalls(<< call >>)
      BY <2>7, FewFit, FewAside
    <2> QED BY <1>0, <2>1, <2>3, <2>8, AnsweringTurn, Loudly
  <1>2. CASE PrivacyRead
    <2> DEFINE call == Within(c, "getSecret", c.e.config[4], "keyed")
    <2>1. Awaited("private") /\ UNCHANGED << app, tabs, sent, away >>
      BY <1>2 DEF PrivacyRead, chatVars
    <2>2. PICK r \in Answers(c) : Take(r, << call >>)
      BY <1>2 DEF PrivacyRead
    <2>3. TurnFits(c.e, sent, app.mounts) /\ c.on \in 0 .. app.mounts
      BY <1>0, <2>1, Headed DEF CallFits
    <2>4. /\ DOMAIN call = CallFields /\ call.op = "getSecret" /\ call.k = "keyed" /\ call.e = c.e
          /\ call.on = c.on
      BY DEF Within, CallFields
    <2> HIDE DEF call
    <2>5. CallFits(call, sent, app.mounts) /\ Aside(call)
      BY <2>3, <2>4, ConfigCall
    <2>6. QueueFits(<< call >>, sent, app.mounts) /\ AsideCalls(<< call >>)
      BY <2>5, FewFit, FewAside
    <2> QED BY <1>0, <2>1, <2>2, <2>6, AnsweringTurn, Loudly
  <1>3. CASE KeyResolved
    <2>1. Awaited("keyed") /\ UNCHANGED << app, tabs, sent >> /\ away' = away \cup {c.e}
      BY <1>3 DEF KeyResolved
    <2>2. PICK r \in Answers(c) : Take(r, <<>>)
      BY <1>3 DEF KeyResolved
    <2>3. TurnFits(c.e, sent, app.mounts)
      BY <1>0, <2>1, Headed DEF CallFits
    <2>4. \A turn \in away' : TurnFits(turn, sent, app.mounts)
      BY <1>0, <2>1, <2>3
    <2> QED BY <1>0, <2>1, <2>2, <2>4, AnsweringTurn, Loudly, FewFit, FewAside
  <1>4. CASE ToolAnswered
    <2>1. Awaited("evaluated") /\ UNCHANGED << app, sent >>
      BY <1>4 DEF ToolAnswered
    <2>2. PICK r \in Answers(c) :
            \/ /\ r.val.type \in {"executed", "denied"} /\ c.e.left = 0
               /\ Take(r, <<>>)
               /\ away' = away \cup {c.e}
               /\ UNCHANGED tabs
            \/ /\ r.val.type \in {"executed", "denied"} /\ c.e.left > 0
               /\ \E tool \in ChatTools, named \in {NoServer} \cup ServerIds :
                    Take(r, << ToolCall([c.e EXCEPT !.left = @ - 1], tool, named) >>)
               /\ UNCHANGED << tabs, away >>
            \/ /\ r.val.type = "approval_required"
               /\ Take(r, << LastWords(c.e) >>)
               /\ Seen(c.e, [Settled(Chat, c.e) EXCEPT !.pend = r.val.request])
               /\ UNCHANGED away
            \/ /\ r.val.type = "threw"
               /\ Take(r, << LastWords(c.e) >>)
               /\ Seen(c.e, Settled(Chat, c.e))
               /\ UNCHANGED away
      BY <1>4 DEF ToolAnswered
    <2>3. TurnFits(c.e, sent, app.mounts) /\ CallFits(c, sent, app.mounts)
      BY <1>0, <2>1, Headed DEF CallFits
    <2>5. QueueFits(<< LastWords(c.e) >>, sent, app.mounts) /\ AsideCalls(<< LastWords(c.e) >>)
      BY <2>3, LastWordsFit, FewFit, FewAside
    <2>6. CASE Take(r, <<>>) /\ away' = away \cup {c.e} /\ UNCHANGED tabs
      <3>1. \A turn \in away' : TurnFits(turn, sent, app.mounts)
        BY <1>0, <2>3, <2>6
      <3> QED BY <1>0, <2>1, <2>6, <3>1, AnsweringTurn, Loudly, FewFit, FewAside
    <2>7. ASSUME NEW tool, NEW named,
                 Take(r, << ToolCall([c.e EXCEPT !.left = @ - 1], tool, named) >>), UNCHANGED << tabs, away >>
          PROVE  Base' /\ AsideStep
      <3> DEFINE turn == [c.e EXCEPT !.left = @ - 1]
                 call == ToolCall(turn, tool, named)
      <3>1. TurnFits(turn, sent, app.mounts)
        BY <2>3 DEF TurnFits
      <3> HIDE DEF turn
      <3>2. CallFits(call, sent, app.mounts) /\ Aside(call)
        BY <3>1, ToolCallFits
      <3>3. Take(r, << call >>)
        BY <2>7 DEF turn
      <3> HIDE DEF call
      <3>4. QueueFits(<< call >>, sent, app.mounts) /\ AsideCalls(<< call >>)
        BY <3>2, FewFit, FewAside
      <3> QED BY <1>0, <2>1, <2>7, <3>3, <3>4, AnsweringTurn, Loudly
    <2>8. ASSUME NEW new, new \in {[Settled(Chat, c.e) EXCEPT !.pend = r.val.request], Settled(Chat, c.e)},
                 Take(r, << LastWords(c.e) >>), Seen(c.e, new), UNCHANGED away
          PROVE  Base' /\ AsideStep
      <3>1. /\ TabsFit(tabs', app.mounts)
            /\ tabs'["Files"] = tabs["Files"] /\ tabs'["Servers"] = tabs["Servers"]
        BY <2>8, SettledKeeps, SeenTabs
      <3> QED BY <1>0, <2>1, <2>5, <2>8, <3>1, AnsweringTurn, Loudly
    <2> QED BY <2>2, <2>6, <2>7, <2>8
  <1> QED BY <1>1, <1>2, <1>3, <1>4

\* A quiet answer that changes one view.
LEMMA ShowingPlain ==
    ASSUME Base, NEW k \in QuietNames, Awaited(k), NEW r \in Answers(Head(queue)),
           NEW calls, Take(r, calls), PlainCalls(calls, app.mounts),
           NEW t \in TabNames \ {"Files", "Servers"}, NEW new, Keeps(t, new),
           Shows(Head(queue), t, new), UNCHANGED << app, sent, away >>
    PROVE  Base' /\ AsideStep
  <1>1. TabsFit(tabs', app.mounts) /\ tabs'["Files"] = tabs["Files"] /\ tabs'["Servers"] = tabs["Servers"]
    BY Showing
  <1> QED BY <1>1, AnsweringPlain, Quiets

\* A quiet answer that changes none.
LEMMA StayingPlain ==
    ASSUME Base, NEW k \in QuietNames, Awaited(k), NEW r \in Answers(Head(queue)),
           NEW calls, Take(r, calls), PlainCalls(calls, app.mounts),
           UNCHANGED << app, tabs, sent, away >>
    PROVE  Base' /\ AsideStep
  <1>1. TabsFit(tabs', app.mounts) /\ tabs'["Files"] = tabs["Files"] /\ tabs'["Servers"] = tabs["Servers"]
    BY DEF Base
  <1> QED BY <1>1, AnsweringPlain, Quiets

\* A call that goes on from the one answered.
LEMMA NextPlain ==
    ASSUME Base, NEW k, Awaited(k), NEW c, DOMAIN c = CallFields, c.op \in PlainOps,
           c.k \in QuietNames, c.on = Head(queue).on
    PROVE  PlainCalls(<< c >>, app.mounts)
  <1>1. Head(queue).on \in 0 .. app.mounts
    BY Headed DEF CallFits
  <1>2. Plain(c, app.mounts)
    BY <1>1, Quiets DEF Plain, CallFields
  <1> QED BY <1>2, FewPlain

\* Answers nothing waits for, and the words of a turn being stored.
LEMMA WordsKept ==
    ASSUME Base, WordsStored \/ (Unwatched /\ UNCHANGED chatVars)
    PROVE  Base' /\ AsideStep
  <1> DEFINE c == Head(queue)
  <1>1. CASE WordsStored
    <2> DEFINE call == [c EXCEPT !.op = "listConversations", !.x = c.e, !.k = "listed", !.e = 0]
    <2>1. Awaited("stored") /\ UNCHANGED << app, tabs, sent, away >>
      BY <1>1 DEF WordsStored, chatVars
    <2>2. PICK r \in Answers(c) : Take(r, << call >>)
      BY <1>1 DEF WordsStored
    <2>3. DOMAIN c = CallFields
      BY <2>1, Headed DEF CallFits, CallFields
    <2>4. DOMAIN call = CallFields /\ call.op = "listConversations" /\ call.k = "listed" /\ call.on = c.on
      BY <2>3 DEF CallFields
    <2> HIDE DEF call
    <2>5. "listConversations" \in PlainOps /\ {"listed", "stored"} \subseteq QuietNames
      BY DEF PlainOps, Operations, WindowOps, QuietNames
    <2>6. PlainCalls(<< call >>, app.mounts)
      BY <2>1, <2>4, <2>5, NextPlain
    <2> QED BY <2>1, <2>2, <2>5, <2>6, StayingPlain
  <1>2. CASE Unwatched /\ UNCHANGED chatVars
    <2>1. Awaited("-") /\ UNCHANGED << app, tabs, sent, away >>
      BY <1>2 DEF Unwatched, chatVars
    <2>2. PICK r \in Answers(c) : Take(r, <<>>)
      BY <1>2 DEF Unwatched
    <2> QED BY <2>1, <2>2, StayingPlain, FewPlain DEF QuietNames
  <1> QED BY <1>1, <1>2

\* After a verdict, the pending approvals are asked for again.
LEMMA VerdictFits ==
    ASSUME Base, NEW k, Awaited(k)
    PROVE  QueueFits(Verdict(Head(queue)), sent, app.mounts) /\ AsideCalls(Verdict(Head(queue)))
  <1> DEFINE c == Head(queue)
             m == [conv |-> c.e.conv, turn |-> c.e.id, role |-> "verdict"]
             call == Within([c EXCEPT !.e = c.e.server], "saveMessage", m, "stored")
  <1>1. Verdict(c) = <<>> \/ Verdict(c) = << call >>
    BY DEF Verdict
  <1>2. c.on \in 0 .. app.mounts /\ DOMAIN c = CallFields
    BY Headed DEF CallFits, CallFields
  <1>3. MessageFits(m, sent)
    BY DEF MessageFits
  <1>4. /\ DOMAIN call = CallFields /\ call.op = "saveMessage" /\ call.x = m /\ call.k = "stored"
        /\ call.on = c.on
    BY <1>2 DEF Within, CallFields
  <1> HIDE DEF c, m, call
  <1>5. CallFits(call, sent, app.mounts) /\ Aside(call)
    BY <1>2, <1>3, <1>4, MessageCall
  <1>6. QueueFits(Verdict(c), sent, app.mounts) /\ AsideCalls(Verdict(c))
    BY <1>1, <1>5, FewFit, FewAside
  <1> QED BY <1>6 DEF c

\* The answers to a verdict.
LEMMA DecisionSteps ==
    ASSUME Base, Approved \/ Rejected
    PROVE  Base' /\ AsideStep
  <1> DEFINE c == Head(queue)
             closed == [Chat EXCEPT !.busy = FALSE, !.pend = NoApproval]
             opened == [Chat EXCEPT !.busy = FALSE]
  <1>1. UNCHANGED << app, sent, away >>
    BY DEF Approved, Rejected, chatVars
  <1>2. PICK k \in {"approved", "rejected"} : Awaited(k)
    BY DEF Approved, Rejected
  <1>3. PICK r \in Answers(c) :
          \E calls \in {<<>>, Verdict(c)}, new \in {closed, opened} : Take(r, calls) /\ Shows(c, "Chat", new)
    BY DEF Approved, Rejected
  <1>4. PICK calls \in {<<>>, Verdict(c)}, new \in {closed, opened} : Take(r, calls) /\ Shows(c, "Chat", new)
    BY <1>3
  <1>5. Keeps("Chat", new) /\ "Chat" \in TabNames
    <2>1. "mount" \in DOMAIN Chat /\ Chat.mount = tabs["Chat"].mount
      BY Mounted DEF Chat, TabNames
    <2> QED BY <2>1 DEF Keeps, TabNames
  <1>6. TabsFit(tabs', app.mounts) /\ tabs'["Files"] = tabs["Files"] /\ tabs'["Servers"] = tabs["Servers"]
    BY <1>4, <1>5, Showing
  <1>7. QueueFits(calls, sent, app.mounts) /\ AsideCalls(calls)
    BY <1>2, VerdictFits, FewFit, FewAside
  <1>8. k \notin LoudKinds
    BY Quiets DEF QuietNames
  <1>9. \A turn \in away' : TurnFits(turn, sent, app.mounts)
    BY <1>1 DEF Base
  <1> QED BY <1>1, <1>2, <1>4, <1>6, <1>7, <1>8, <1>9, AnsweringTurn

-----------------------------------------------------------------------------
(* The provider *)

\* The provider answers: a tool call carries the request of its turn.
LEMMA ProviderSteps ==
    ASSUME Base, Provider
    PROVE  Base' /\ AsideStep
  <1>0. /\ TabsFit(tabs, app.mounts) /\ \A turn \in away : TurnFits(turn, sent, app.mounts)
        /\ acts \in 0 .. MaxActs /\ IsSeq(queue)
    BY DEF Base, QueueFits
  <1>1. PICK turn \in away :
          \/ ProviderEnds(turn)
          \/ \E tool \in ChatTools, named \in {NoServer} \cup ServerIds, calls \in 1 .. MaxCalls :
               ProviderCalls(turn, tool, named, calls)
    BY DEF Provider
  <1>2. TurnFits(turn, sent, app.mounts)
    BY <1>0
  <1>3. CASE ProviderEnds(turn)
    <2>1. /\ UNCHANGED << tauri, store, faults, app, sent, acts >>
          /\ queue' = Append(queue, LastWords(turn)) /\ away' = away \ {turn}
          /\ Seen(turn, Settled(Chat, turn))
      BY <1>3 DEF ProviderEnds
    <2>2. queue' = queue \o << LastWords(turn) >>
      BY <1>0, <2>1, OneMore
    <2>3. QueueFits(<< LastWords(turn) >>, sent, app.mounts) /\ AsideCalls(<< LastWords(turn) >>)
      BY <1>2, LastWordsFit, FewFit, FewAside
    <2>4. /\ TabsFit(tabs', app.mounts)
          /\ tabs'["Files"] = tabs["Files"] /\ tabs'["Servers"] = tabs["Servers"]
      BY <2>1, SettledKeeps, SeenTabs
    <2>5. \A t \in away' : TurnFits(t, sent, app.mounts)
      BY <1>0, <2>1
    <2>6. Base'
      BY <1>0, <2>1, <2>2, <2>3, <2>4, <2>5, Acting
    <2>7. AsideStep
      BY <2>1, <2>2, <2>3, <2>4 DEF AsideStep
    <2> QED BY <2>6, <2>7
  <1>4. ASSUME NEW tool, NEW named, NEW calls, ProviderCalls(turn, tool, named, calls)
        PROVE  Base' /\ AsideStep
    <2> DEFINE on == [turn EXCEPT !.rounds = @ + 1, !.left = calls - 1]
               call == ToolCall(on, tool, named)
    <2>1. /\ UNCHANGED << tauri, store, faults, app, sent, acts, tabs >>
          /\ queue' = Append(queue, call) /\ away' = away \ {turn}
      BY <1>4 DEF ProviderCalls
    <2>2. queue' = queue \o << call >>
      BY <1>0, <2>1, OneMore
    <2>3. TurnFits(on, sent, app.mounts)
      BY <1>2 DEF TurnFits
    <2> HIDE DEF on
    <2>4. CallFits(call, sent, app.mounts) /\ Aside(call)
      BY <2>3, ToolCallFits
    <2> HIDE DEF call
    <2>7. QueueFits(<< call >>, sent, app.mounts) /\ AsideCalls(<< call >>)
      BY <2>4, FewFit, FewAside
    <2>8. \A t \in away' : TurnFits(t, sent, app.mounts)
      BY <1>0, <2>1
    <2>9. Base'
      BY <1>0, <2>1, <2>2, <2>7, <2>8, Acting
    <2>10. AsideStep
      BY <2>1, <2>2, <2>7 DEF AsideStep
    <2> QED BY <2>9, <2>10
  <1> QED BY <1>1, <1>3, <1>4

-----------------------------------------------------------------------------
(* The terminal *)

\* The plain calls of any view.
LEMMA CallPlain ==
    ASSUME Base, NEW t \in TabNames, NEW op \in PlainOps, NEW x, NEW k \in QuietNames, NEW e
    PROVE  /\ Plain(Call(op, x, k, e, t), app.mounts)
           /\ Plain([op |-> op, x |-> x, k |-> k, e |-> e, on |-> tabs[t].mount], app.mounts)
  BY Mounted, Quiets DEF Call, Plain

TerminalOps ==
  { "startTerminalSession", "sendTerminalInput", "readTerminalOutput", "interruptTerminal",
    "terminateTerminalSession", "listTerminalSessions", "listServers" }
\* The operations and the continuations of the terminal are plain.
LEMMA TerminalNames ==
    /\ TerminalOps \subseteq PlainOps
    /\ {"sessions", "polled", "started", "terminated", "relisted", "available", "-"} \subseteq QuietNames
  BY DEF TerminalOps, PlainOps, Operations, WindowOps, QuietNames

\* So are the calls made when a session is selected.
LEMMA SelectionPlain ==
    ASSUME Base, NEW me, me.mount = Terminal.mount, NEW id
    PROVE  PlainCalls(SelectionEffect(me, id), app.mounts)
  <1> DEFINE sessions == SessionsCall(me.mount, ActiveServer, id)
             poll == PollCall(me.mount, id, 0)
  <1>1. "Terminal" \in TabNames /\ me.mount = tabs["Terminal"].mount
    BY DEF TabNames, Terminal
  <1>2. Plain(sessions, app.mounts) /\ Plain(poll, app.mounts)
    BY <1>1, CallPlain, TerminalNames DEF SessionsCall, PollCall, TerminalOps
  <1>3. SelectionEffect(me, id) \in {<<>>, << sessions, poll >>}
    BY DEF SelectionEffect
  <1> HIDE DEF sessions, poll
  <1> QED BY <1>2, <1>3, FewPlain

\* Selecting a session keeps the mount.
LEMMA SelectedKeeps ==
    ASSUME Base, NEW me, "mount" \in DOMAIN me, me.mount = Terminal.mount, NEW id
    PROVE  Keeps("Terminal", Selected(me, id))
  BY DEF Keeps, Selected, Terminal

\* What the operator does in the terminal.
LEMMA TerminalActs ==
    ASSUME Base, TerminalOperator, UNCHANGED chatVars
    PROVE  Base' /\ AsideStep
  <1>0. /\ "mount" \in DOMAIN Terminal /\ Keeps("Terminal", Terminal)
        /\ "Terminal" \in TabNames \ {"Files", "Servers"}
    BY Mounted DEF Terminal, Keeps, TabNames
  <1>00. UNCHANGED << sent, away >>
    BY DEF chatVars
  <1>1. ASSUME NEW id, SelectSession(id)
        PROVE  Base' /\ AsideStep
    <2>1. Does("Terminal", Selected(Terminal, id), SelectionEffect(Terminal, id))
      BY <1>1 DEF SelectSession
    <2> QED BY <1>0, <1>00, <2>1, SelectionPlain, SelectedKeeps, DoingPlain
  <1>2. ASSUME NEW op \in TerminalOps, NEW x, NEW k \in {"started", "-", "terminated"}, NEW e,
               Does("Terminal", Terminal, << TermCall(op, x, k, e) >>)
        PROVE  Base' /\ AsideStep
    <2>1. Plain(TermCall(op, x, k, e), app.mounts)
      BY <1>0, <1>2, CallPlain, TerminalNames DEF TermCall
    <2> QED BY <1>0, <1>00, <1>2, <2>1, FewPlain, DoingPlain
  <1>3. CASE ClearScreen
    <2>1. Does("Terminal", [Terminal EXCEPT !.screen = <<>>], <<>>)
      BY <1>3 DEF ClearScreen
    <2>2. Keeps("Terminal", [Terminal EXCEPT !.screen = <<>>])
      BY <1>0 DEF Keeps
    <2> QED BY <1>0, <1>00, <2>1, <2>2, FewPlain, DoingPlain
  <1>4. ASSUME NEW id, Terminate(id)
        PROVE  Base' /\ AsideStep
    BY <1>2, <1>4 DEF Terminate, TerminalOps
  <1>5. ASSUME NEW s, CreateSession(s)
        PROVE  Base' /\ AsideStep
    BY <1>2, <1>5 DEF CreateSession, TerminalOps
  <1>6. ASSUME NEW line, TypeLine(line)
        PROVE  Base' /\ AsideStep
    BY <1>2, <1>6 DEF TypeLine, TerminalOps
  <1>7. CASE Reconnect
    BY <1>2, <1>7 DEF Reconnect, TerminalOps
  <1>8. CASE Interrupt
    BY <1>2, <1>8 DEF Interrupt, TerminalOps
  <1> QED BY <1>1, <1>3, <1>4, <1>5, <1>6, <1>7, <1>8 DEF TerminalOperator

\* Answers to the terminal.
LEMMA TerminalAnswers ==
    ASSUME Base, TerminalAnswer, UNCHANGED chatVars
    PROVE  Base' /\ AsideStep
  <1> DEFINE c == Head(queue)
  <1>0. /\ "mount" \in DOMAIN Terminal /\ Keeps("Terminal", Terminal)
        /\ "Terminal" \in TabNames \ {"Files", "Servers"}
    BY Mounted DEF Terminal, Keeps, TabNames
  <1>00. UNCHANGED << app, sent, away >>
    BY DEF chatVars, TerminalAnswer, ServersAvailable, SessionsListed, SessionStarted, OutputRead,
           Terminated, SessionsRelisted
  <1>1. ASSUME NEW k \in QuietNames, Awaited(k), NEW r \in Answers(c), NEW new, Keeps("Terminal", new),
               NEW id, ShowsSession(c, r, new, id)
        PROVE  Base' /\ AsideStep
    <2>1. CASE Live(c, "Terminal")
      <3>1. /\ Take(r, SelectionEffect(new, id))
            /\ tabs' = [tabs EXCEPT !["Terminal"] = Selected(new, id)]
        BY <1>1, <2>1 DEF ShowsSession
      <3>2. Shows(c, "Terminal", Selected(new, id))
        BY <2>1, <3>1 DEF Live, Shows
      <3>3. "mount" \in DOMAIN new /\ new.mount = Terminal.mount
        BY <1>1 DEF Keeps, Terminal
      <3>4. Keeps("Terminal", Selected(new, id)) /\ PlainCalls(SelectionEffect(new, id), app.mounts)
        BY <3>3, SelectedKeeps, SelectionPlain
      <3> QED BY <1>0, <1>00, <1>1, <3>1, <3>2, <3>4, ShowingPlain
    <2>2. CASE ~Live(c, "Terminal")
      <3>1. Take(r, <<>>) /\ UNCHANGED tabs
        BY <1>1, <2>2 DEF ShowsSession
      <3> QED BY <1>00, <1>1, <3>1, FewPlain, StayingPlain
    <2> QED BY <2>1, <2>2
  <1>2. CASE ServersAvailable
    <2>1. Awaited("available")
      BY <1>2 DEF ServersAvailable
    <2>2. PICK r \in Answers(c) :
            Take(r, <<>>) /\ Shows(c, "Terminal", [Terminal EXCEPT !.servers = DOMAIN r.val])
      BY <1>2 DEF ServersAvailable
    <2>3. Keeps("Terminal", [Terminal EXCEPT !.servers = DOMAIN r.val])
      BY <1>0 DEF Keeps
    <2> QED BY <1>0, <1>00, <2>1, <2>2, <2>3, FewPlain, ShowingPlain, TerminalNames
  <1>3. CASE SessionsListed
    <2>1. Awaited("sessions")
      BY <1>3 DEF SessionsListed
    <2>2. PICK r \in Answers(c) :
            IF r.val = <<>>
            THEN /\ Take(r, << [c EXCEPT !.op = "startTerminalSession",
                                    !.x = c.e.server, !.k = "started", !.e = "only"] >>)
                 /\ UNCHANGED tabs
            ELSE \E id : ShowsSession(c, r, [Terminal EXCEPT !.sessions = r.val], id)
      BY <1>3 DEF SessionsListed
    <2>3. CASE r.val = <<>>
      <3> DEFINE call == [c EXCEPT !.op = "startTerminalSession",
                                    !.x = c.e.server, !.k = "started", !.e = "only"]
      <3>1. Take(r, << call >>) /\ UNCHANGED tabs
        BY <2>2, <2>3
      <3>2. DOMAIN c = CallFields
        BY <2>1, Headed DEF CallFits, CallFields
      <3>3. DOMAIN call = CallFields /\ call.op = "startTerminalSession" /\ call.k = "started" /\ call.on = c.on
        BY <3>2 DEF CallFields
      <3> HIDE DEF call
      <3>4. PlainCalls(<< call >>, app.mounts)
        BY <2>1, <3>3, TerminalNames, NextPlain DEF TerminalOps
      <3> QED BY <1>00, <2>1, <3>1, <3>4, StayingPlain, TerminalNames
    <2>4. CASE r.val # <<>>
      <3>1. PICK id : ShowsSession(c, r, [Terminal EXCEPT !.sessions = r.val], id)
        BY <2>2, <2>4
      <3>2. Keeps("Terminal", [Terminal EXCEPT !.sessions = r.val])
        BY <1>0 DEF Keeps
      <3> QED BY <1>1, <2>1, <3>1, <3>2, TerminalNames
    <2> QED BY <2>3, <2>4
  <1>4. CASE SessionStarted
    <2>1. Awaited("started")
      BY <1>4 DEF SessionStarted
    <2>2. PICK r \in Answers(c) :
            \E id \in DOMAIN r.val : \E list :
              ShowsSession(c, r, [Terminal EXCEPT !.sessions = list], id)
      BY <1>4 DEF SessionStarted
    <2>3. PICK id \in DOMAIN r.val :
            \E list : ShowsSession(c, r, [Terminal EXCEPT !.sessions = list], id)
      BY <2>2
    <2>4. PICK list : ShowsSession(c, r, [Terminal EXCEPT !.sessions = list], id)
      BY <2>3
    <2>5. Keeps("Terminal", [Terminal EXCEPT !.sessions = list])
      BY <1>0 DEF Keeps
    <2> QED BY <1>1, <2>1, <2>4, <2>5, TerminalNames
  <1>5. CASE OutputRead
    <2> DEFINE longer(r) == [Terminal EXCEPT !.lastSeq = r.val.seq, !.screen = @ \o r.val.data]
    <2>1. Awaited("polled")
      BY <1>5 DEF OutputRead
    <2>2. PICK r \in Answers(c) :
            Take(r, <<>>) /\ (Shows(c, "Terminal", longer(r)) \/ Shows(c, "Terminal", Terminal))
      BY <1>5 DEF OutputRead
    <2>3. Keeps("Terminal", longer(r))
      BY <1>0 DEF Keeps
    <2> HIDE DEF longer
    <2> QED BY <1>0, <1>00, <2>1, <2>2, <2>3, FewPlain, ShowingPlain, TerminalNames
  <1>6. CASE Terminated
    <2> DEFINE call == [c EXCEPT !.op = "listTerminalSessions", !.x = 0, !.k = "relisted"]
    <2>1. Awaited("terminated") /\ UNCHANGED tabs
      BY <1>6 DEF Terminated
    <2>2. PICK r \in Answers(c) : Take(r, << call >>)
      BY <1>6 DEF Terminated
    <2>3. DOMAIN c = CallFields
      BY <2>1, Headed DEF CallFits, CallFields
    <2>4. DOMAIN call = CallFields /\ call.op = "listTerminalSessions" /\ call.k = "relisted" /\ call.on = c.on
      BY <2>3 DEF CallFields
    <2> HIDE DEF call
    <2>5. PlainCalls(<< call >>, app.mounts)
      BY <2>1, <2>4, TerminalNames, NextPlain DEF TerminalOps
    <2> QED BY <1>00, <2>1, <2>2, <2>5, StayingPlain, TerminalNames
  <1>7. CASE SessionsRelisted
    <2>1. Awaited("relisted")
      BY <1>7 DEF SessionsRelisted
    <2>2. PICK r \in Answers(c) : \E id : ShowsSession(c, r, [Terminal EXCEPT !.sessions = r.val], id)
      BY <1>7 DEF SessionsRelisted
    <2>3. PICK id : ShowsSession(c, r, [Terminal EXCEPT !.sessions = r.val], id)
      BY <2>2
    <2>4. Keeps("Terminal", [Terminal EXCEPT !.sessions = r.val])
      BY <1>0 DEF Keeps
    <2> QED BY <1>1, <2>1, <2>3, <2>4, TerminalNames
  <1> QED BY <1>2, <1>3, <1>4, <1>5, <1>6, <1>7 DEF TerminalAnswer

\* A queue nothing is appended to.
LEMMA ByItself ==
    ASSUME NEW q, IsSeq(q)
    PROVE  q = q \o <<>>
  <1>1. q \in Seq(ToSet(q))
    BY SeqOfOwn
  <1> QED BY <1>1

\* What happens in the core of its own accord, outside its servers, settings and messages.
LEMMA CoreMoves ==
    ASSUME Base, NEW b, Same(store.core, b), store' = [store EXCEPT !.core = b],
           UNCHANGED << tauri, faults, queue, app, tabs, acts, sent, away >>
    PROVE  Base' /\ AsideStep
  <1>1. StoreFits(store, sent) /\ IsSeq(queue)
    BY DEF Base, QueueFits
  <1>2. /\ DOMAIN store' = {"core", "page", "faked"} /\ store'.core = b
        /\ store'.page = store.page /\ store'.faked = store.faked
    BY <1>1 DEF StoreFits
  <1>3. BackendFits(b, sent)
    BY <1>1, SameFits DEF StoreFits
  <1>4. StoreFits(store', sent')
    BY <1>1, <1>2, <1>3 DEF StoreFits
  <1>5. Base'
    BY <1>4 DEF Base, AppFits
  <1>6. queue' = queue \o <<>> /\ AsideCalls(<<>>)
    BY <1>1, ByItself, FewAside
  <1>7. AsideStep
    BY <1>2, <1>6 DEF AsideStep, Same
  <1> QED BY <1>5, <1>7

\* The shells put out lines, and the terminal polls.
LEMMA TerminalMoves ==
    ASSUME Base, TerminalProgress, UNCHANGED chatVars
    PROVE  Base' /\ AsideStep
  <1>0. UNCHANGED << sent, away >> /\ IsSeq(queue)
    BY DEF chatVars, Base, QueueFits
  <1>1. CASE Poll
    <2> DEFINE call == PollCall(Terminal.mount, Terminal.cur, Terminal.lastSeq)
    <2>1. UNCHANGED << tauri, store, faults, app, tabs, acts >> /\ queue' = Append(queue, call)
      BY <1>1 DEF Poll
    <2>2. queue' = queue \o << call >>
      BY <1>0, <2>1, OneMore
    <2>3. Plain(call, app.mounts)
      BY CallPlain, TerminalNames DEF PollCall, TerminalOps, Terminal, TabNames
    <2> HIDE DEF call
    <2>4. QueueFits(<< call >>, sent, app.mounts) /\ AsideCalls(<< call >>)
      BY <2>3, FewPlain, PlainQueue
    <2>5. acts' \in 0 .. MaxActs /\ TabsFit(tabs', app.mounts) /\ \A turn \in away' : TurnFits(turn, sent, app.mounts)
      BY <1>0, <2>1 DEF Base
    <2>6. Base'
      BY <1>0, <2>1, <2>2, <2>4, <2>5, Acting
    <2>7. AsideStep
      BY <2>1, <2>2, <2>4 DEF AsideStep
    <2> QED BY <2>6, <2>7
  <1>2. ASSUME NEW id, ShellWrites(id)
        PROVE  Base' /\ AsideStep
    <2> DEFINE terms == [store.core.terms EXCEPT ![id] = Output(@, "line")]
               b == [store.core EXCEPT !.terms = terms]
    <2>1. /\ store' = [store EXCEPT !.core = b]
          /\ UNCHANGED << tauri, faults, queue, app, tabs, acts >>
      BY <1>2 DEF ShellWrites
    <2> HIDE DEF terms
    <2>2. DOMAIN store.core = BackendFields
      BY DEF Base, StoreFits, BackendFits
    <2>3. Same(store.core, b)
      BY <2>2 DEF Same, BackendFields
    <2> HIDE DEF b
    <2> QED BY <1>0, <2>1, <2>3, CoreMoves
  <1> QED BY <1>1, <1>2 DEF TerminalProgress

-----------------------------------------------------------------------------
(* The settings *)

\* Chains may be joined.
LEMMA JoinSteps ==
    ASSUME NEW p, NEW q, StepsFit(p), StepsFit(q)
    PROVE  StepsFit(p \o q)
  BY JoinSeq DEF StepsFit

\* The first step of a chain, and what is left.
LEMMA TailSteps ==
    ASSUME NEW q, StepsFit(q), q # <<>>
    PROVE  StepsFit(Tail(q)) /\ StepFits(Head(q))
  BY TailSeq DEF StepsFit

\* Chains of at most three steps.
LEMMA FewSteps ==
    /\ StepsFit(<<>>)
    /\ \A a : StepFits(a) => StepsFit(<< a >>)
    /\ \A a, b : StepFits(a) /\ StepFits(b) => StepsFit(<< a, b >>)
    /\ \A a, b, c : StepFits(a) /\ StepFits(b) /\ StepFits(c) => StepsFit(<< a, b, c >>)
  <1>1. StepsFit(<<>>)
    BY FewSeq DEF StepsFit
  <1>2. ASSUME NEW a, StepFits(a)
        PROVE  StepsFit(<< a >>)
    BY <1>2, FewSeq DEF StepsFit
  <1>3. ASSUME NEW a, NEW b, StepFits(a), StepFits(b)
        PROVE  StepsFit(<< a, b >>)
    <2> DEFINE q == << a, b >>
    <2>1. IsSeq(q) /\ DOMAIN q = {1, 2} /\ q[1] = a /\ q[2] = b
      BY FewSeq
    <2> HIDE DEF q
    <2>2. StepsFit(q)
      BY <1>3, <2>1 DEF StepsFit
    <2> QED BY <2>2 DEF q
  <1>4. ASSUME NEW a, NEW b, NEW c, StepFits(a), StepFits(b), StepFits(c)
        PROVE  StepsFit(<< a, b, c >>)
    <2> DEFINE q == << a, b, c >>
    <2>1. IsSeq(q) /\ DOMAIN q = {1, 2, 3} /\ q[1] = a /\ q[2] = b /\ q[3] = c
      BY FewSeq
    <2> HIDE DEF q
    <2>2. StepsFit(q)
      BY <1>4, <2>1 DEF StepsFit
    <2> QED BY <2>2 DEF q
  <1> QED BY <1>1, <1>2, <1>3, <1>4

\* Writing any setting but the permission mode is a step of a chain.
LEMMA WritesFit ==
    ASSUME NEW key, key # "permission_mode", NEW v
    PROVE  StepFits(Write(key, v))
  BY DEF Write, StepFits, ChainOps

\* So is what the AI configuration writes.
LEMMA ConfigSteps ==
    ASSUME NEW form
    PROVE  StepsFit(ConfigWrites(form))
  <1> DEFINE first == << Write("ai_provider", form["ai_provider"]), Write("ai_model", form["ai_model"]) >>
             some(key) == IF form[key] = Unset THEN <<>> ELSE << Write(key, form[key]) >>
  <1>1. StepsFit(first)
    BY WritesFit, FewSteps
  <1>2. StepsFit(some("ai_base_url")) /\ StepsFit(some("ai_api_key_ref"))
    BY WritesFit, FewSteps
  <1>3. ConfigWrites(form) = first \o some("ai_base_url") \o some("ai_api_key_ref")
    BY DEF ConfigWrites
  <1> HIDE DEF first, some
  <1> QED BY <1>1, <1>2, <1>3, JoinSteps

\* The first call of a chain fits, whatever setting it writes.
LEMMA LinkFits ==
    ASSUME NEW hist, NEW n, NEW mount \in 0 .. n, NEW todo, IsSeq(todo), todo # <<>>,
           Head(todo)[1] \in ChainOps, StepsFit(Tail(todo))
    PROVE  /\ QueueFits(Chain(mount, todo), hist, n)
           /\ StepFits(Head(todo)) => AsideCalls(Chain(mount, todo))
           /\ Chain(mount, todo) # <<>>
  <1> DEFINE c == [op |-> Head(todo)[1], x |-> Head(todo)[2], k |-> "chain",
                   e |-> Tail(todo), on |-> mount]
  <1>1. Chain(mount, todo) = << c >>
    BY DEF Chain
  <1>2. /\ DOMAIN c = CallFields /\ c.op \in ChainOps /\ c.op = Head(todo)[1] /\ c.x = Head(todo)[2]
        /\ c.k = "chain" /\ c.e = Tail(todo) /\ c.on = mount
    BY DEF CallFields
  <1> HIDE DEF c
  <1>3. KindFits(c)
    BY <1>2 DEF KindFits, ChainOps, LoudKinds, AppKinds, LaunchKinds, ListKinds, ChangeKinds
  <1>4. c.op \in Operations \ {"saveMessage", "evaluateAndExecuteTool", "saveServer", "deleteServer"}
        /\ c.op \notin WindowOps
    BY <1>2 DEF ChainOps, Operations, WindowOps
  <1>5. c.k \notin TurnKinds /\ c.k \notin SubmitKinds /\ c.k # "load" /\ c.k \notin LoudKinds
    BY <1>2, Loudly DEF TurnKinds, SubmitKinds
  <1>6. CallFits(c, hist, n)
    BY <1>2, <1>3, <1>4, <1>5 DEF CallFits, CallFields
  <1>7. StepFits(Head(todo)) => Aside(c)
    BY <1>2, <1>4, <1>5 DEF StepFits, Aside, ModeWrite
  <1>8. << c >> # <<>>
    OBVIOUS
  <1> QED BY <1>1, <1>6, <1>7, <1>8, FewFit, FewAside

\* A chain that writes no permission mode disturbs nothing.
LEMMA ChainFits ==
    ASSUME NEW hist, NEW n, NEW mount \in 0 .. n, NEW todo, StepsFit(todo)
    PROVE  QueueFits(Chain(mount, todo), hist, n) /\ AsideCalls(Chain(mount, todo))
  <1>1. CASE todo = <<>>
    BY <1>1, FewFit, FewAside DEF Chain
  <1>2. CASE todo # <<>>
    <2>1. StepsFit(Tail(todo)) /\ StepFits(Head(todo)) /\ IsSeq(todo)
      BY <1>2, TailSteps DEF StepsFit
    <2> QED BY <1>2, <2>1, LinkFits DEF StepFits
  <1> QED BY <1>1, <1>2

LoadOps == {"getSetting", "getAlphaReadinessReport", "checkDatabaseIntegrity", "listCredentialRefs",
            "safetyGetFullAccessStatus"}

\* Loading the settings takes ten queries.
LEMMA LoadStepsAre ==
    ASSUME NEW mode
    PROVE  Len(LoadSteps(mode)) = 10 /\ \A i \in 1 .. 10 : LoadSteps(mode)[i][1] \in LoadOps
  <1> DEFINE p == [i \in 1 .. 4 |-> << "getSetting", AIKeys[i] >>]
             q == << << "getSetting", "ssh_host_key_checking" >>,
                     << "getSetting", "privacy_settings" >>,
                     << "getAlphaReadinessReport", 0 >>, << "checkDatabaseIntegrity", 0 >>,
                     << "listCredentialRefs", 0 >>, << "safetyGetFullAccessStatus", mode >> >>
  <1>1. IsSeq(p) /\ Len(p) = 4 /\ \A i \in DOMAIN p : p[i][1] = "getSetting"
    BY DEF IsSeq
  <1>2. IsSeq(q) /\ Len(q) = 6 /\ DOMAIN q = 1 .. 6
    BY DEF IsSeq
  <1>3. \A i \in DOMAIN q : q[i][1] \in LoadOps
    BY DEF LoadOps
  <1>4. LoadSteps(mode) = p \o q
    BY DEF LoadSteps
  <1> HIDE DEF p, q
  <1>50. /\ IsSeq(p \o q)
         /\ Len(p \o q) = Len(p) + Len(q)
         /\ \A i \in DOMAIN (p \o q) :
               \/ i \in DOMAIN p /\ (p \o q)[i] = p[i]
               \/ i - Len(p) \in DOMAIN q /\ (p \o q)[i] = q[i - Len(p)]
    BY <1>1, <1>2, JoinSeq
  <1>5. IsSeq(p \o q) /\ Len(p \o q) = 10
    BY <1>1, <1>2, <1>50
  <1>6. \A i \in DOMAIN (p \o q) : (p \o q)[i][1] \in LoadOps
    BY <1>1, <1>2, <1>3, <1>50 DEF LoadOps
  <1>7. DOMAIN (p \o q) = 1 .. 10
    BY <1>5, SeqOfOwn
  <1> QED BY <1>4, <1>5, <1>6, <1>7

\* Each of them fits.
LEMMA LoadFits ==
    ASSUME NEW hist, NEW n, NEW mount \in 0 .. n, NEW mode, NEW i \in 1 .. 10, NEW config
    PROVE  /\ QueueFits(<< LoadStep(mount, mode, i, config) >>, hist, n)
           /\ AsideCalls(<< LoadStep(mount, mode, i, config) >>)
  <1> DEFINE c == LoadStep(mount, mode, i, config)
  <1>1. LoadSteps(mode)[i][1] \in LoadOps
    BY LoadStepsAre
  <1>2. /\ DOMAIN c = CallFields /\ c.op \in LoadOps
        /\ c.k = "load" /\ c.e.i = i /\ c.on = mount
    BY <1>1 DEF CallFields, LoadStep
  <1> HIDE DEF c
  <1>3. KindFits(c)
    BY <1>2 DEF KindFits, LoadOps, LoudKinds, AppKinds, LaunchKinds, ListKinds, ChangeKinds
  <1>4. /\ c.op \in Operations \ {"saveMessage", "evaluateAndExecuteTool", "saveServer", "deleteServer"}
        /\ c.op \notin WindowOps /\ c.op # "setSetting"
    BY <1>2 DEF LoadOps, Operations, WindowOps
  <1>5. c.k \notin TurnKinds /\ c.k \notin SubmitKinds /\ c.k # "chain" /\ c.k \notin LoudKinds
    BY <1>2, Loudly DEF TurnKinds, SubmitKinds
  <1>6. CallFits(c, hist, n)
    BY <1>2, <1>3, <1>4, <1>5 DEF CallFits, CallFields
  <1>7. Aside(c)
    BY <1>2, <1>4, <1>5 DEF Aside, ModeWrite
  <1> QED BY <1>6, <1>7, FewFit, FewAside DEF c

SettingsOps ==
  { "safetySetFullAccessExpiry", "safetyGetFullAccessStatus", "getSecret", "saveSecret",
    "deleteSecret", "listCredentialRefs", "pruneAuditEvents", "checkForUpdates", "installUpdate",
    "getAlphaReadinessReport", "checkDatabaseIntegrity" }
SettingsKinds == {"expiry set", "key saved", "key listed", "secrets", "references", "update", "-"}
\* The operations and the continuations of the settings are plain.
LEMMA SettingsNames == SettingsOps \subseteq PlainOps /\ SettingsKinds \subseteq QuietNames
  BY DEF SettingsOps, SettingsKinds, PlainOps, Operations, WindowOps, QuietNames

\* A step of the operator whose calls disturb nothing.
LEMMA DoingAside ==
    ASSUME Base, NEW t \in TabNames \ {"Files", "Servers"}, NEW new, NEW calls,
           Does(t, new, calls), Keeps(t, new), QueueFits(calls, sent, app.mounts), AsideCalls(calls),
           UNCHANGED << sent, away >>
    PROVE  Base' /\ AsideStep
  BY Doing

\* All but those that change or store the permission mode.
LEMMA SettingsActs ==
    ASSUME Base, UNCHANGED chatVars,
           \/ \E minutes \in {0, 15} : ChooseExpiry(minutes) \/ PruneAudit(minutes)
           \/ \E p \in Offers : ChooseProvider(p)
           \/ \E v \in Offers \cup {Unset} : EditField("ai_base_url", v)
           \/ \E v \in Settings.refs \cup {Unset} : EditField("ai_api_key_ref", v)
           \/ \E value \in Offers : SaveInlineKey(value) \/ AddSecret(value)
           \/ \E ref \in Settings.refs : DeleteSecret(ref)
           \/ SaveAIConfig \/ TestProvider
           \/ SwitchHostKeys \/ EditPrivacy \/ CheckForUpdate \/ InstallUpdate
           \/ RunReadinessCheck \/ CheckIntegrity \/ VacuumDatabase
    PROVE  Base' /\ AsideStep
  <1>0. /\ "mount" \in DOMAIN Settings /\ Settings.mount = tabs["Settings"].mount
        /\ Keeps("Settings", Settings) /\ Settings.mount \in 0 .. app.mounts
        /\ "Settings" \in TabNames \ {"Files", "Servers"}
    BY Mounted DEF Settings, Keeps, TabNames
  <1>00. UNCHANGED << sent, away >>
    BY DEF chatVars
  <1>1. ASSUME NEW op \in SettingsOps, NEW x, NEW k \in SettingsKinds, NEW e, NEW new,
               Keeps("Settings", new), SettingsDoes(new, << SettingsCall(op, x, k, e) >>)
        PROVE  Base' /\ AsideStep
    <2>1. Plain(SettingsCall(op, x, k, e), app.mounts)
      BY <1>0, <1>1, CallPlain, SettingsNames DEF SettingsCall
    <2> QED BY <1>0, <1>00, <1>1, <2>1, FewPlain, DoingPlain DEF SettingsDoes
  <1>2. ASSUME NEW new, Keeps("Settings", new), SettingsDoes(new, <<>>)
        PROVE  Base' /\ AsideStep
    BY <1>0, <1>00, <1>2, FewPlain, DoingPlain DEF SettingsDoes
  <1>3. ASSUME NEW todo, StepsFit(todo), SettingsDoes(Settings, Chain(Settings.mount, todo))
        PROVE  Base' /\ AsideStep
    <2>1. /\ QueueFits(Chain(Settings.mount, todo), sent, app.mounts)
          /\ AsideCalls(Chain(Settings.mount, todo))
      BY <1>0, <1>3, ChainFits
    <2> QED BY <1>0, <1>00, <1>3, <2>1, DoingAside DEF SettingsDoes
  <1>4. ASSUME NEW minutes, ChooseExpiry(minutes)
        PROVE  Base' /\ AsideStep
    <2> DEFINE new == [Settings EXCEPT !.minutes = minutes]
    <2>1. Keeps("Settings", new)
      BY <1>0 DEF Keeps
    <2>2. SettingsDoes(new, << ExpiryCall(minutes) >>) \/ SettingsDoes(new, <<>>)
      BY <1>4 DEF ChooseExpiry
    <2> HIDE DEF new
    <2> QED BY <1>1, <1>2, <2>1, <2>2 DEF ExpiryCall, SettingsOps, SettingsKinds
  <1>5. ASSUME NEW days, PruneAudit(days)
        PROVE  Base' /\ AsideStep
    BY <1>0, <1>1, <1>5 DEF PruneAudit, SettingsOps, SettingsKinds
  <1>6. ASSUME NEW p, ChooseProvider(p)
        PROVE  Base' /\ AsideStep
    <2> DEFINE form == [Settings.form EXCEPT !["ai_provider"] = p, !["ai_model"] = p,
                            !["ai_base_url"] = p]
               new == [Settings EXCEPT !.form = form]
    <2>1. SettingsDoes(new, <<>>)
      BY <1>6 DEF ChooseProvider
    <2> HIDE DEF form
    <2>2. Keeps("Settings", new)
      BY <1>0 DEF Keeps
    <2> HIDE DEF new
    <2> QED BY <1>2, <2>1, <2>2
  <1>7. ASSUME NEW key, NEW v, EditField(key, v)
        PROVE  Base' /\ AsideStep
    <2>1. SettingsDoes([Settings EXCEPT !.form[key] = v], <<>>)
      BY <1>7 DEF EditField
    <2>2. Keeps("Settings", [Settings EXCEPT !.form[key] = v])
      BY <1>0 DEF Keeps
    <2> QED BY <1>2, <2>1, <2>2
  <1>8. ASSUME NEW value, SaveInlineKey(value) \/ AddSecret(value)
        PROVE  Base' /\ AsideStep
    BY <1>0, <1>1, <1>8 DEF SaveInlineKey, AddSecret, SettingsOps, SettingsKinds
  <1>9. ASSUME NEW ref, DeleteSecret(ref)
        PROVE  Base' /\ AsideStep
    BY <1>0, <1>1, <1>9 DEF DeleteSecret, SettingsOps, SettingsKinds
  <1>10. CASE SaveAIConfig
    BY <1>3, <1>10, ConfigSteps DEF SaveAIConfig
  <1>11. CASE TestProvider \/ CheckForUpdate \/ InstallUpdate \/ RunReadinessCheck \/ CheckIntegrity
    BY <1>0, <1>1, <1>11 DEF TestProvider, CheckForUpdate, InstallUpdate, RunReadinessCheck,
       CheckIntegrity, SettingsOps, SettingsKinds
  <1>12. CASE SwitchHostKeys
    <2>1. Keeps("Settings", [Settings EXCEPT !.hostKeys = ~@])
      BY <1>0 DEF Keeps
    <2> QED BY <1>2, <1>12, <2>1 DEF SwitchHostKeys
  <1>13. CASE EditPrivacy
    <2>1. Keeps("Settings", [Settings EXCEPT !.privacy = "edited"])
      BY <1>0 DEF Keeps
    <2> QED BY <1>2, <1>13, <2>1 DEF EditPrivacy
  <1>14. CASE VacuumDatabase
    <2> DEFINE a == << "vacuumDatabase", 0 >>
               b == << "checkDatabaseIntegrity", 0 >>
    <2>1. StepFits(a) /\ StepFits(b)
      BY DEF StepFits, ChainOps
    <2>2. SettingsDoes(Settings, Chain(Settings.mount, << a, b >>))
      BY <1>14 DEF VacuumDatabase
    <2> HIDE DEF a, b
    <2>3. StepsFit(<< a, b >>)
      BY <2>1, FewSteps
    <2> QED BY <1>3, <2>2, <2>3
  <1> QED BY <1>4, <1>5, <1>6, <1>7, <1>8, <1>9, <1>10, <1>11, <1>12, <1>13, <1>14

\* An answer whose handler goes on with such calls.
LEMMA ShowingAside ==
    ASSUME Base, NEW k, k \notin LoudKinds, Awaited(k), NEW r \in Answers(Head(queue)),
           NEW calls, Take(r, calls), QueueFits(calls, sent, app.mounts), AsideCalls(calls),
           NEW t \in TabNames \ {"Files", "Servers"}, NEW new, Keeps(t, new),
           Shows(Head(queue), t, new) \/ UNCHANGED tabs, UNCHANGED << app, sent, away >>
    PROVE  Base' /\ AsideStep
  <1>1. TabsFit(tabs', app.mounts) /\ tabs'["Files"] = tabs["Files"] /\ tabs'["Servers"] = tabs["Servers"]
    BY Showing DEF Base
  <1>2. \A turn \in away' : TurnFits(turn, sent, app.mounts)
    BY DEF Base
  <1> QED BY <1>1, <1>2, AnsweringTurn

\* Answers to the settings.
LEMMA SettingsAnswers ==
    ASSUME Base, SettingsAnswer, UNCHANGED chatVars
    PROVE  Base' /\ AsideStep
  <1> DEFINE c == Head(queue)
  <1>0. /\ "mount" \in DOMAIN Settings /\ Settings.mount = tabs["Settings"].mount
        /\ Keeps("Settings", Settings)
        /\ "Settings" \in TabNames \ {"Files", "Servers"}
    BY Mounted DEF Settings, Keeps, TabNames
  <1>00. UNCHANGED << app, sent, away >>
    BY DEF chatVars, SettingsAnswer, ChainGoesOn, Loaded, ExpirySet, InlineKeySaved, InlineKeyListed,
           SecretsChanged, ReferencesListed, UpdateChecked
  <1>1. CASE ChainGoesOn
    <2>1. Awaited("chain") /\ UNCHANGED tabs
      BY <1>1 DEF ChainGoesOn
    <2>2. PICK r \in Answers(c) : Take(r, Chain(c.on, c.e))
      BY <1>1 DEF ChainGoesOn
    <2>3. c.on \in 0 .. app.mounts /\ StepsFit(c.e)
      BY <2>1, Headed DEF CallFits
    <2>4. QueueFits(Chain(c.on, c.e), sent, app.mounts) /\ AsideCalls(Chain(c.on, c.e))
      BY <2>3, ChainFits
    <2> QED BY <1>0, <1>00, <2>1, <2>2, <2>4, ShowingAside, Loudly
  <1>2. CASE Loaded
    <2> DEFINE i == c.e.i
    <2>1. Awaited("load")
      BY <1>2 DEF Loaded
    <2>2. i \in 1 .. 10 /\ c.on \in 0 .. app.mounts
      BY <2>1, Headed DEF CallFits
    <2>3. Len(LoadSteps(c.e.mode)) = 10
      BY LoadStepsAre
    <2>4. PICK r \in Answers(c) : \E config :
            /\ Take(r, IF i = 10 THEN <<>> ELSE << LoadStep(c.on, c.e.mode, i + 1, config) >>)
            /\ \E form : Shows(c, "Settings",
                  CASE i = 4 -> [Settings EXCEPT !.form = form]
                    [] i = 5 -> [Settings EXCEPT !.hostKeys = r.val]
                    [] i = 6 -> [Settings EXCEPT !.privacy = r.val]
                    [] i = 9 -> [Settings EXCEPT !.refs = r.val]
                    [] i = 10 -> [Settings EXCEPT !.session = r.val.active]
                    [] OTHER -> Settings)
      BY <1>2, <2>3 DEF Loaded
    <2>5. PICK config :
            /\ Take(r, IF i = 10 THEN <<>> ELSE << LoadStep(c.on, c.e.mode, i + 1, config) >>)
            /\ \E form : Shows(c, "Settings",
                  CASE i = 4 -> [Settings EXCEPT !.form = form]
                    [] i = 5 -> [Settings EXCEPT !.hostKeys = r.val]
                    [] i = 6 -> [Settings EXCEPT !.privacy = r.val]
                    [] i = 9 -> [Settings EXCEPT !.refs = r.val]
                    [] i = 10 -> [Settings EXCEPT !.session = r.val.active]
                    [] OTHER -> Settings)
      BY <2>4
    <2>6. PICK form : Shows(c, "Settings",
                  CASE i = 4 -> [Settings EXCEPT !.form = form]
                    [] i = 5 -> [Settings EXCEPT !.hostKeys = r.val]
                    [] i = 6 -> [Settings EXCEPT !.privacy = r.val]
                    [] i = 9 -> [Settings EXCEPT !.refs = r.val]
                    [] i = 10 -> [Settings EXCEPT !.session = r.val.active]
                    [] OTHER -> Settings)
      BY <2>5
    <2> DEFINE new ==
                  CASE i = 4 -> [Settings EXCEPT !.form = form]
                    [] i = 5 -> [Settings EXCEPT !.hostKeys = r.val]
                    [] i = 6 -> [Settings EXCEPT !.privacy = r.val]
                    [] i = 9 -> [Settings EXCEPT !.refs = r.val]
                    [] i = 10 -> [Settings EXCEPT !.session = r.val.active]
                    [] OTHER -> Settings
               calls == IF i = 10 THEN <<>> ELSE << LoadStep(c.on, c.e.mode, i + 1, config) >>
    <2>7. Keeps("Settings", new)
      <3>1. /\ Keeps("Settings", [Settings EXCEPT !.form = form])
            /\ Keeps("Settings", [Settings EXCEPT !.hostKeys = r.val])
            /\ Keeps("Settings", [Settings EXCEPT !.privacy = r.val])
            /\ Keeps("Settings", [Settings EXCEPT !.refs = r.val])
            /\ Keeps("Settings", [Settings EXCEPT !.session = r.val.active])
        BY <1>0 DEF Keeps
      <3> QED BY <1>0, <3>1
    <2>8. QueueFits(calls, sent, app.mounts) /\ AsideCalls(calls)
      <3>1. i # 10 => i + 1 \in 1 .. 10
        BY <2>2
      <3> HIDE DEF i
      <3> QED BY <2>2, <3>1, LoadFits, FewFit, FewAside
    <2>9. Take(r, calls) /\ Shows(c, "Settings", new)
      BY <2>5, <2>6
    <2> HIDE DEF new, calls
    <2> QED BY <1>0, <1>00, <2>1, <2>7, <2>8, <2>9, ShowingAside, Loudly
  <1>3. CASE ExpirySet
    <2>1. Awaited("expiry set")
      BY <1>3 DEF ExpirySet
    <2>2. PICK r \in Answers(c) :
            Take(r, <<>>) /\ Shows(c, "Settings", [Settings EXCEPT !.session = r.val.active])
      BY <1>3 DEF ExpirySet
    <2>3. Keeps("Settings", [Settings EXCEPT !.session = r.val.active])
      BY <1>0 DEF Keeps
    <2> QED BY <1>0, <1>00, <2>1, <2>2, <2>3, FewPlain, ShowingPlain, SettingsNames DEF SettingsKinds
  <1>4. CASE InlineKeySaved
    <2>1. Awaited("key saved") /\ UNCHANGED tabs
      BY <1>4 DEF InlineKeySaved
    <2>2. PICK r \in Answers(c) :
            Take(r, << [c EXCEPT !.op = "listCredentialRefs", !.x = 0,
                            !.k = "key listed",
                            !.e = [@ EXCEPT !["ai_api_key_ref"] = r.val]] >>)
      BY <1>4 DEF InlineKeySaved
    <2> DEFINE form == [c.e EXCEPT !["ai_api_key_ref"] = r.val]
               call == [c EXCEPT !.op = "listCredentialRefs", !.x = 0, !.k = "key listed", !.e = form]
    <2>3. Take(r, << call >>)
      BY <2>2
    <2> HIDE DEF form
    <2>4. DOMAIN c = CallFields
      BY <2>1, Headed DEF CallFits, CallFields
    <2>5. DOMAIN call = CallFields /\ call.op = "listCredentialRefs" /\ call.k = "key listed" /\ call.on = c.on
      BY <2>4 DEF CallFields
    <2> HIDE DEF call
    <2>6. PlainCalls(<< call >>, app.mounts)
      BY <2>1, <2>5, SettingsNames, NextPlain DEF SettingsOps, SettingsKinds
    <2> QED BY <1>00, <2>1, <2>3, <2>6, StayingPlain, SettingsNames DEF SettingsKinds
  <1>5. CASE InlineKeyListed
    <2>1. Awaited("key listed")
      BY <1>5 DEF InlineKeyListed
    <2>2. PICK r \in Answers(c) :
            /\ Take(r, Chain(c.on, ConfigWrites(c.e)))
            /\ Shows(c, "Settings",
                 [Settings EXCEPT !.refs = r.val, !.form["ai_api_key_ref"] = c.e["ai_api_key_ref"]])
      BY <1>5 DEF InlineKeyListed
    <2>3. Keeps("Settings", [Settings EXCEPT !.refs = r.val, !.form["ai_api_key_ref"] = c.e["ai_api_key_ref"]])
      BY <1>0 DEF Keeps
    <2>4. c.on \in 0 .. app.mounts
      BY <2>1, Headed DEF CallFits
    <2>5. /\ QueueFits(Chain(c.on, ConfigWrites(c.e)), sent, app.mounts)
          /\ AsideCalls(Chain(c.on, ConfigWrites(c.e)))
      BY <2>4, ConfigSteps, ChainFits
    <2>6. "key listed" \notin LoudKinds
      BY Quiets DEF QuietNames
    <2> QED BY <1>0, <1>00, <2>1, <2>2, <2>3, <2>5, <2>6, ShowingAside
  <1>6. CASE SecretsChanged
    <2> DEFINE call == [c EXCEPT !.op = "listCredentialRefs", !.x = 0, !.k = "references"]
    <2>1. Awaited("secrets") /\ UNCHANGED tabs
      BY <1>6 DEF SecretsChanged
    <2>2. PICK r \in Answers(c) : Take(r, << call >>)
      BY <1>6 DEF SecretsChanged
    <2>4. DOMAIN c = CallFields
      BY <2>1, Headed DEF CallFits, CallFields
    <2>5. DOMAIN call = CallFields /\ call.op = "listCredentialRefs" /\ call.k = "references" /\ call.on = c.on
      BY <2>4 DEF CallFields
    <2> HIDE DEF call
    <2>6. PlainCalls(<< call >>, app.mounts)
      BY <2>1, <2>5, SettingsNames, NextPlain DEF SettingsOps, SettingsKinds
    <2> QED BY <1>00, <2>1, <2>2, <2>6, StayingPlain, SettingsNames DEF SettingsKinds
  <1>7. CASE ReferencesListed
    <2>1. Awaited("references")
      BY <1>7 DEF ReferencesListed
    <2>2. PICK r \in Answers(c) :
            Take(r, <<>>) /\ Shows(c, "Settings", [Settings EXCEPT !.refs = r.val])
      BY <1>7 DEF ReferencesListed
    <2>3. Keeps("Settings", [Settings EXCEPT !.refs = r.val])
      BY <1>0 DEF Keeps
    <2> QED BY <1>0, <1>00, <2>1, <2>2, <2>3, FewPlain, ShowingPlain, SettingsNames DEF SettingsKinds
  <1>8. CASE UpdateChecked
    <2>1. Awaited("update")
      BY <1>8 DEF UpdateChecked
    <2>2. PICK r \in Answers(c) : \E offered :
            Take(r, <<>>) /\ Shows(c, "Settings", [Settings EXCEPT !.update = offered])
      BY <1>8 DEF UpdateChecked
    <2>3. PICK offered : Take(r, <<>>) /\ Shows(c, "Settings", [Settings EXCEPT !.update = offered])
      BY <2>2
    <2>4. Keeps("Settings", [Settings EXCEPT !.update = offered])
      BY <1>0 DEF Keeps
    <2> QED BY <1>0, <1>00, <2>1, <2>3, <2>4, FewPlain, ShowingPlain, SettingsNames DEF SettingsKinds
  <1> QED BY <1>1, <1>2, <1>3, <1>4, <1>5, <1>6, <1>7, <1>8 DEF SettingsAnswer

\* The interval refreshes the session, and the session expires.
LEMMA SettingsMoves ==
    ASSUME Base, SettingsProgress, UNCHANGED chatVars
    PROVE  Base' /\ AsideStep
  <1>0. UNCHANGED << sent, away >> /\ IsSeq(queue)
    BY DEF chatVars, Base, QueueFits
  <1>1. CASE RefreshSession
    <2> DEFINE call == SettingsCall("safetyGetFullAccessStatus", app.mode, "expiry set", 0)
    <2>1. UNCHANGED << tauri, store, faults, app, tabs, acts >> /\ queue' = Append(queue, call)
      BY <1>1 DEF RefreshSession
    <2>2. queue' = queue \o << call >>
      BY <1>0, <2>1, OneMore
    <2>3. Plain(call, app.mounts)
      BY CallPlain, SettingsNames DEF SettingsCall, SettingsOps, SettingsKinds, TabNames
    <2> HIDE DEF call
    <2>4. QueueFits(<< call >>, sent, app.mounts) /\ AsideCalls(<< call >>)
      BY <2>3, FewPlain, PlainQueue
    <2>5. acts' \in 0 .. MaxActs /\ TabsFit(tabs', app.mounts) /\ \A turn \in away' : TurnFits(turn, sent, app.mounts)
      BY <1>0, <2>1 DEF Base
    <2>6. Base'
      BY <1>0, <2>1, <2>2, <2>4, <2>5, Acting
    <2>7. AsideStep
      BY <2>1, <2>2, <2>4 DEF AsideStep
    <2> QED BY <2>6, <2>7
  <1>2. CASE SessionExpires
    <2> DEFINE b == [store.core EXCEPT !.timer = "over"]
    <2>1. /\ store' = [store EXCEPT !.core = b]
          /\ UNCHANGED << tauri, faults, queue, app, tabs, acts >>
      BY <1>2 DEF SessionExpires
    <2>2. DOMAIN store.core = BackendFields
      BY DEF Base, StoreFits, BackendFits
    <2>3. Same(store.core, b)
      BY <2>2 DEF Same, BackendFields
    <2> HIDE DEF b
    <2> QED BY <1>0, <2>1, <2>3, CoreMoves
  <1> QED BY <1>1, <1>2 DEF SettingsProgress

-----------------------------------------------------------------------------
(* The activity *)

\* The operations and the continuations of the activity view are plain.
LEMMA ActivityNames ==
    /\ {"safetyListBackups", "exportAuditLog", "safetyRestoreBackup"} \subseteq PlainOps
    /\ {"activity", "restored", "-"} \subseteq QuietNames
  BY DEF PlainOps, Operations, WindowOps, QuietNames

\* What the operator does in the activity view.
LEMMA ActivityActs ==
    ASSUME Base, ActivityOperator, UNCHANGED chatVars
    PROVE  Base' /\ AsideStep
  <1>0. /\ "mount" \in DOMAIN Activity /\ Activity.mount = tabs["Activity"].mount
        /\ Keeps("Activity", Activity) /\ "Activity" \in TabNames \ {"Files", "Servers"}
    BY Mounted DEF Activity, Keeps, TabNames
  <1>00. UNCHANGED << sent, away >>
    BY DEF chatVars
  <1>1. CASE Reload
    <2> DEFINE call == [op |-> "safetyListBackups", x |-> NoServer, k |-> "activity", e |-> FALSE,
                        on |-> tabs["Activity"].mount]
    <2>1. Does("Activity", Activity, << call >>)
      BY <1>0, <1>1 DEF Reload, ActivityEffect
    <2>2. Plain(call, app.mounts)
      BY <1>0, CallPlain, ActivityNames
    <2> HIDE DEF call
    <2> QED BY <1>0, <1>00, <2>1, <2>2, FewPlain, DoingPlain
  <1>2. ASSUME NEW format, ExportAudit(format)
        PROVE  Base' /\ AsideStep
    <2>1. Plain(ActivityCall("exportAuditLog", format, "-", 0), app.mounts)
      BY <1>0, CallPlain, ActivityNames DEF ActivityCall
    <2> QED BY <1>0, <1>00, <1>2, <2>1, FewPlain, DoingPlain DEF ExportAudit
  <1>3. ASSUME NEW snapshot, Restore(snapshot)
        PROVE  Base' /\ AsideStep
    <2> DEFINE new == [Activity EXCEPT !.restoring = {snapshot}]
    <2>1. Does("Activity", new, << ActivityCall("safetyRestoreBackup", snapshot, "restored", 0) >>)
      BY <1>3 DEF Restore
    <2>2. Keeps("Activity", new)
      BY <1>0 DEF Keeps
    <2>3. Plain(ActivityCall("safetyRestoreBackup", snapshot, "restored", 0), app.mounts)
      BY <1>0, CallPlain, ActivityNames DEF ActivityCall
    <2> HIDE DEF new
    <2> QED BY <1>0, <1>00, <2>1, <2>2, <2>3, FewPlain, DoingPlain
  <1> QED BY <1>1, <1>2, <1>3 DEF ActivityOperator

\* Answers to the activity view.
LEMMA ActivityAnswers ==
    ASSUME Base, ActivityAnswer, UNCHANGED chatVars
    PROVE  Base' /\ AsideStep
  <1> DEFINE c == Head(queue)
  <1>0. /\ "mount" \in DOMAIN Activity /\ Activity.mount = tabs["Activity"].mount
        /\ Keeps("Activity", Activity) /\ "Activity" \in TabNames \ {"Files", "Servers"}
    BY Mounted DEF Activity, Keeps, TabNames
  <1>00. UNCHANGED << app, sent, away >>
    BY DEF chatVars, ActivityAnswer, DataLoaded, Restored
  <1>1. CASE DataLoaded
    <2>1. Awaited("activity")
      BY <1>1 DEF DataLoaded
    <2>2. PICK r \in Answers(c) : \E list : \E busy :
            Take(r, <<>>) /\ Shows(c, "Activity", [Activity EXCEPT !.backups = list, !.restoring = busy])
      BY <1>1 DEF DataLoaded
    <2>3. PICK list : \E busy :
            Take(r, <<>>) /\ Shows(c, "Activity", [Activity EXCEPT !.backups = list, !.restoring = busy])
      BY <2>2
    <2>4. PICK busy :
            Take(r, <<>>) /\ Shows(c, "Activity", [Activity EXCEPT !.backups = list, !.restoring = busy])
      BY <2>3
    <2>5. Keeps("Activity", [Activity EXCEPT !.backups = list, !.restoring = busy])
      BY <1>0 DEF Keeps
    <2> QED BY <1>0, <1>00, <2>1, <2>4, <2>5, FewPlain, ShowingPlain, ActivityNames
  <1>2. CASE Restored
    <2> DEFINE call == [c EXCEPT !.op = "safetyListBackups", !.x = NoServer,
                            !.k = "activity", !.e = TRUE]
    <2>1. Awaited("restored") /\ UNCHANGED tabs
      BY <1>2 DEF Restored
    <2>2. PICK r \in Answers(c) : Take(r, << call >>)
      BY <1>2 DEF Restored
    <2>4. DOMAIN c = CallFields
      BY <2>1, Headed DEF CallFits, CallFields
    <2>5. DOMAIN call = CallFields /\ call.op = "safetyListBackups" /\ call.k = "activity" /\ call.on = c.on
      BY <2>4 DEF CallFields
    <2> HIDE DEF call
    <2>6. PlainCalls(<< call >>, app.mounts)
      BY <2>1, <2>5, ActivityNames, NextPlain
    <2> QED BY <1>00, <2>1, <2>2, <2>6, StayingPlain, ActivityNames
  <1> QED BY <1>1, <1>2 DEF ActivityAnswer

-----------------------------------------------------------------------------
(* The files *)

\* What the files view and the server inventory ask of a backend, but for App's changes.
ViewOps ==
    Operations \ {"saveServer", "deleteServer", "setSetting", "saveMessage", "evaluateAndExecuteTool"}
ViewKinds == QuietNames \cup FileKinds \cup WindowKinds

\* Any call of the files view and of the two windows.
LEMMA ViewCall ==
    ASSUME NEW hist, NEW n, NEW c, DOMAIN c = CallFields, c.op \in ViewOps, c.k \in ViewKinds,
           c.k = "directory" => c.op = "sftpListDirectory" /\ c.e \in Closings,
           c.k = "written" => c.e.closes \in Closings,
           c.k = "diagnosed" => c.op = "serverReadings",
           c.k = "panel read" => c.op = "panelReadings",
           c.on \in 0 .. n
    PROVE  CallFits(c, hist, n)
  <1>1. c.k \notin TurnKinds /\ c.k \notin SubmitKinds /\ c.k \notin AppKinds
        /\ c.k # "chain" /\ c.k # "load"
    <2>1. CASE c.k \in QuietNames
      BY <2>1, Quiets DEF QuietKind, LoudKinds
    <2>2. CASE c.k \in FileKinds \cup WindowKinds
      BY <2>2 DEF FileKinds, WindowKinds, TurnKinds, SubmitKinds, AppKinds, LaunchKinds, ListKinds, ChangeKinds
    <2> QED BY <2>1, <2>2 DEF ViewKinds
  <1>2. KindFits(c)
    BY <1>1 DEF KindFits, TurnKinds, SubmitKinds, AppKinds, LaunchKinds, ListKinds, ViewOps
  <1> QED BY <1>1, <1>2 DEF CallFits, CallFields, ViewOps

FilesOps == {"sftpListDirectory", "sftpReadFile", "sftpWriteFile", "sftpDeleteFile", "sftpCreateDirectory"}
FilesKinds == {"directory", "opened", "written", "downloaded"}
\* The operations and the continuations of the files view.
LEMMA FilesNames == FilesOps \subseteq ViewOps /\ FilesKinds \subseteq ViewKinds
  BY DEF FilesOps, FilesKinds, ViewOps, ViewKinds, Operations, FileKinds, QuietNames

\* What it asks of the core, listings aside.
LEMMA FilesCallFits ==
    ASSUME Base, NEW op \in FilesOps, NEW x, NEW k \in FilesKinds, k # "directory", NEW e,
           k = "written" => e.closes \in Closings
    PROVE  CallFits(FilesCall(op, x, k, e), sent, app.mounts)
  <1> DEFINE c == FilesCall(op, x, k, e)
  <1>1. DOMAIN c = CallFields /\ c.op = op /\ c.k = k /\ c.e = e /\ c.on = tabs["Files"].mount
    BY DEF FilesCall, Call, CallFields
  <1>2. c.on \in 0 .. app.mounts
    BY <1>1, Mounted DEF TabNames
  <1> HIDE DEF c
  <1>3. c.op \in ViewOps /\ c.k \in ViewKinds /\ c.k \notin {"directory", "diagnosed", "panel read"}
    BY <1>1, FilesNames DEF FilesKinds
  <1>4. CallFits(c, sent, app.mounts)
    BY <1>1, <1>2, <1>3, ViewCall
  <1> QED BY <1>4 DEF c

\* A listing it asks for.
LEMMA ListingFits ==
    ASSUME NEW hist, NEW n, NEW mount \in 0 .. n, NEW server, NEW dir, NEW closes \in Closings
    PROVE  CallFits(ListingCall(mount, server, dir, closes), hist, n)
  <1> DEFINE c == ListingCall(mount, server, dir, closes)
  <1>1. DOMAIN c = CallFields /\ c.op = "sftpListDirectory" /\ c.k = "directory" /\ c.on = mount
        /\ c.e = closes
    BY DEF ListingCall, CallFields
  <1> HIDE DEF c
  <1>2. CallFits(c, hist, n)
    BY <1>1, FilesNames, ViewCall DEF FilesOps, FilesKinds
  <1> QED BY <1>2 DEF c

FilesCalls(q) == IsSeq(q) /\ \A i \in DOMAIN q : q[i].op \in FilesOps /\ q[i].k \in FilesKinds

\* A step in the files view, or an answer to it.
FilesStep ==
    /\ UNCHANGED << tauri, app >> /\ tabs'["Servers"] = tabs["Servers"]
    /\ \E calls : FilesCalls(calls) /\ (Pushes(calls) \/ Pops(FilesKinds, calls))

\* Queues of at most one of its calls.
LEMMA FewFiles ==
    /\ FilesCalls(<<>>)
    /\ \A c : c.op \in FilesOps /\ c.k \in FilesKinds => FilesCalls(<< c >>)
  <1>1. FilesCalls(<<>>)
    BY FewSeq DEF FilesCalls
  <1>2. ASSUME NEW c, c.op \in FilesOps, c.k \in FilesKinds
        PROVE  FilesCalls(<< c >>)
    BY <1>2, FewSeq DEF FilesCalls
  <1> QED BY <1>1, <1>2

\* A step of the operator in the files view.
LEMMA FilesDoing ==
    ASSUME Base, NEW new, NEW calls, FilesDoes(new, calls), Keeps("Files", new),
           QueueFits(calls, sent, app.mounts), UNCHANGED << sent, away >>, FilesCalls(calls)
    PROVE  Base' /\ FilesStep
  <1>1. Does("Files", [new EXCEPT !.rush = Rushed], calls)
    BY DEF FilesDoes
  <1>2. Keeps("Files", [new EXCEPT !.rush = Rushed])
    BY DEF Keeps
  <1>3. Base'
    BY <1>1, <1>2, Doing DEF TabNames
  <1>4. FilesStep
    <2>1. TabsFit(tabs, app.mounts) /\ tabs' = [tabs EXCEPT !["Files"] = [new EXCEPT !.rush = Rushed]]
      BY <1>1 DEF Base, Does
    <2>2. tabs'["Servers"] = tabs["Servers"]
      BY <1>2, <2>1, KeptTabs DEF TabNames
    <2> QED BY <1>1, <2>2 DEF FilesStep, Does, Pushes
  <1> QED BY <1>3, <1>4

\* What the operator does in the files view.
LEMMA FilesBase ==
    ASSUME Base, FilesOperator, UNCHANGED chatVars
    PROVE  Base' /\ FilesStep
  <1>0. /\ "mount" \in DOMAIN Files /\ Files.mount = tabs["Files"].mount /\ Keeps("Files", Files)
        /\ Files.mount \in 0 .. app.mounts
    BY Mounted DEF Files, Keeps, TabNames
  <1>00. UNCHANGED << sent, away >>
    BY DEF chatVars
  <1>1. ASSUME NEW new, Keeps("Files", new), FilesDoes(new, <<>>)
        PROVE  Base' /\ FilesStep
    BY <1>00, <1>1, FilesDoing, FewFit, FewFiles
  <1>2. ASSUME NEW new, Keeps("Files", new), NEW op \in FilesOps, NEW x,
               NEW k \in {"opened", "written", "downloaded"}, NEW e, k = "written" => e.closes \in Closings,
               FilesDoes(new, << FilesCall(op, x, k, e) >>)
        PROVE  Base' /\ FilesStep
    <2>1. CallFits(FilesCall(op, x, k, e), sent, app.mounts)
      BY <1>2, FilesCallFits DEF FilesKinds
    <2>2. QueueFits(<< FilesCall(op, x, k, e) >>, sent, app.mounts)
      BY <2>1, FewFit
    <2>3. FilesCalls(<< FilesCall(op, x, k, e) >>)
      BY <1>2, FewFiles DEF FilesCall, Call, FilesKinds
    <2> QED BY <1>00, <1>2, <2>2, <2>3, FilesDoing
  <1>20. \A shown, closes : closes \in Closings => Rest(shown, closes).closes \in Closings
    BY DEF Rest
  <1>21. {"none", "editor", "dialog", "folder"} \subseteq Closings
    BY DEF Closings
  <1>3. ASSUME NEW d, Navigate(d)
        PROVE  Base' /\ FilesStep
    <2> DEFINE new == [Files EXCEPT !.dir = d]
               call == ListingCall(Files.mount, ActiveServer, d, "none")
    <2>1. FilesDoes(new, << call >>)
      BY <1>3 DEF Navigate, FilesEffect
    <2>2. Keeps("Files", new)
      BY <1>0 DEF Keeps
    <2>3. CallFits(call, sent, app.mounts)
      BY <1>0, ListingFits DEF Closings
    <2>5. call.op = "sftpListDirectory" /\ call.k = "directory"
      BY DEF ListingCall
    <2> HIDE DEF new, call
    <2>4. QueueFits(<< call >>, sent, app.mounts) /\ FilesCalls(<< call >>)
      BY <2>3, <2>5, FewFit, FewFiles DEF FilesOps, FilesKinds
    <2> QED BY <1>00, <2>1, <2>2, <2>4, FilesDoing
  <1>4. ASSUME NEW name, SelectRemote(name) \/ SelectLocal(name)
        PROVE  Base' /\ FilesStep
    <2>1. /\ \A e : Keeps("Files", [Files EXCEPT !.sel = e])
          /\ Keeps("Files", [Files EXCEPT !.localSel = name])
      BY <1>0 DEF Keeps
    <2>2. \/ FilesDoes([Files EXCEPT !.sel = [path |-> << Files.list.dir, name >>,
                                      of |-> Files.list.of]], <<>>)
          \/ FilesDoes([Files EXCEPT !.localSel = name], <<>>)
      BY <1>4 DEF SelectRemote, SelectLocal
    <2> QED BY <1>1, <2>1, <2>2
  <1>5. ASSUME NEW name, OpenFile(name)
        PROVE  Base' /\ FilesStep
    <2> DEFINE entry == [path |-> << Files.list.dir, name >>, of |-> Files.list.of]
               new == [Files EXCEPT !.sel = entry]
    <2>1. FilesDoes(new, << FilesCall("sftpReadFile", [server |-> ActiveServer, path |-> entry.path],
                                      "opened", entry) >>)
      BY <1>5 DEF OpenFile
    <2>2. Keeps("Files", new)
      BY <1>0 DEF Keeps
    <2> HIDE DEF entry, new
    <2> QED BY <1>2, <2>1, <2>2 DEF FilesOps
  <1>6. CASE EditText \/ SwitchBackup \/ CloseEditor
    <2> DEFINE text == [Files EXCEPT !.edit.text = "edited"]
               backup == [Files EXCEPT !.edit.backup = ~@]
               closed == [Files EXCEPT !.edit = ClosedEditor]
    <2>1. Keeps("Files", text) /\ Keeps("Files", backup) /\ Keeps("Files", closed)
      BY <1>0 DEF Keeps
    <2>2. FilesDoes(text, <<>>) \/ FilesDoes(backup, <<>>) \/ FilesDoes(closed, <<>>)
      BY <1>6 DEF EditText, SwitchBackup, CloseEditor
    <2> HIDE DEF text, backup, closed
    <2> QED BY <1>1, <2>1, <2>2
  <1>7. CASE SuggestPatch \/ ApplyPatch
    <2> DEFINE asked == [Files EXCEPT !.ai = "thinking"]
               patched == [Files EXCEPT !.edit.text = "patched", !.ai = "closed"]
    <2>1. Keeps("Files", asked) /\ Keeps("Files", patched)
      BY <1>0 DEF Keeps
    <2>2. FilesDoes(asked, <<>>) \/ FilesDoes(patched, <<>>)
      BY <1>7 DEF SuggestPatch, ApplyPatch
    <2> HIDE DEF asked, patched
    <2> QED BY <1>1, <2>1, <2>2
  <1>8. CASE SaveFile
    <2> DEFINE new == [Files EXCEPT !.saving = TRUE]
    <2>1. Keeps("Files", new)
      BY <1>0 DEF Keeps
    <2>2. FilesDoes(new,
       << FilesCall("sftpWriteFile",
            [server |-> ActiveServer, path |-> Files.edit.path,
             text |-> Files.edit.text, backup |-> Files.edit.backup],
            "written", Rest([of |-> Files.edit.of, path |-> Files.edit.path],
                            "editor")) >>)
      BY <1>8 DEF SaveFile
    <2> HIDE DEF new
    <2> QED BY <1>2, <1>20, <1>21, <2>1, <2>2 DEF FilesOps
  <1>9. CASE Upload
    BY <1>0, <1>2, <1>20, <1>21, <1>9 DEF Upload, FilesOps
  <1>10. CASE Download
    BY <1>0, <1>2, <1>10 DEF Download, FilesOps
  <1>11. CASE ConfirmDelete
    BY <1>0, <1>2, <1>20, <1>21, <1>11 DEF ConfirmDelete, FilesOps
  <1>12. CASE CreateFolder
    BY <1>0, <1>2, <1>20, <1>21, <1>12 DEF CreateFolder, FilesOps
  <1>13. CASE AskDelete \/ CancelDelete \/ AskFolder
    <2> DEFINE asked == [Files EXCEPT !.del = Files.sel]
               gone == [Files EXCEPT !.del = NoEntry]
               folder == [Files EXCEPT !.folder = TRUE]
    <2>1. Keeps("Files", asked) /\ Keeps("Files", gone) /\ Keeps("Files", folder)
      BY <1>0 DEF Keeps
    <2>2. FilesDoes(asked, <<>>) \/ FilesDoes(gone, <<>>) \/ FilesDoes(folder, <<>>)
      BY <1>13 DEF AskDelete, CancelDelete, AskFolder
    <2> HIDE DEF asked, gone, folder
    <2> QED BY <1>1, <2>1, <2>2
  <1> QED BY <1>3, <1>4, <1>5, <1>6, <1>7, <1>8, <1>9, <1>10, <1>11, <1>12, <1>13 DEF FilesOperator

\* A step that answers a call of a view, and leaves App and the chat alone.
LEMMA ViewAnswers ==
    ASSUME Base, NEW k, Awaited(k), NEW r \in Answers(Head(queue)), NEW calls, Take(r, calls),
           QueueFits(calls, sent, app.mounts), NEW t \in TabNames, NEW new, Keeps(t, new),
           Shows(Head(queue), t, new) \/ UNCHANGED tabs, UNCHANGED << app, sent, away >>
    PROVE  /\ Base' /\ tauri' = tauri /\ Pops({k}, calls)
           /\ t # "Files" => tabs'["Files"] = tabs["Files"]
           /\ t # "Servers" => tabs'["Servers"] = tabs["Servers"]
  <1>1. TabsFit(tabs', app.mounts)
    BY Showing DEF Base
  <1>2. queue # <<>> /\ \A turn \in away' : TurnFits(turn, sent, app.mounts)
    BY DEF Base, Awaited
  <1>3. Base'
    BY <1>1, <1>2, Answering
  <1>4. tauri' = tauri /\ Pops({k}, calls)
    BY DEF Take, Pops, Awaited
  <1>5. /\ t # "Files" => tabs'["Files"] = tabs["Files"]
        /\ t # "Servers" => tabs'["Servers"] = tabs["Servers"]
    BY Showing
  <1> QED BY <1>3, <1>4, <1>5

\* Answers to the files view.
LEMMA FilesAnswersBase ==
    ASSUME Base, FilesAnswer, UNCHANGED chatVars
    PROVE  Base' /\ FilesStep
  <1> DEFINE c == Head(queue)
  <1>0. /\ "mount" \in DOMAIN Files /\ Files.mount = tabs["Files"].mount /\ Keeps("Files", Files)
        /\ "Files" \in TabNames
    BY Mounted DEF Files, Keeps, TabNames
  <1>00. UNCHANGED << app, sent, away >>
    BY DEF chatVars, FilesAnswer, DirectoryListed, FileOpened, Written, Downloaded, PatchSuggested
  <1>01. ASSUME NEW k \in FilesKinds, Awaited(k), NEW r \in Answers(c), NEW calls, Take(r, calls),
                QueueFits(calls, sent, app.mounts), FilesCalls(calls), NEW new, Keeps("Files", new),
                Shows(c, "Files", new) \/ UNCHANGED tabs
         PROVE  Base' /\ FilesStep
    <2>1. /\ Base' /\ tauri' = tauri /\ Pops({k}, calls)
          /\ tabs'["Servers"] = tabs["Servers"]
      BY <1>0, <1>00, <1>01, ViewAnswers
    <2>2. Pops(FilesKinds, calls)
      BY <1>01, <2>1 DEF Pops
    <2> QED BY <1>00, <1>01, <2>1, <2>2 DEF FilesStep
  <1>1. CASE DirectoryListed
    <2> DEFINE new(r) ==
                  LET shown == [Files EXCEPT !.list = r.val, !.sel = NoEntry]
                  IN CASE c.e = "none" -> shown
                    [] c.e = "editor" ->
                         [shown EXCEPT !.edit = ClosedEditor, !.saving = FALSE]
                    [] c.e = "dialog" -> [shown EXCEPT !.del = NoEntry]
                    [] c.e = "folder" -> [shown EXCEPT !.folder = FALSE]
    <2>1. Awaited("directory")
      BY <1>1 DEF DirectoryListed
    <2>2. PICK r \in Answers(c) :
            /\ Take(r, <<>>)
            /\ tabs' = IF Live(c, "Files") THEN [tabs EXCEPT !["Files"] = new(r)] ELSE tabs
      BY <1>1 DEF DirectoryListed
    <2>20. c.e \in Closings
      BY <2>1, Headed DEF CallFits, KindFits
    <2>3. Keeps("Files", new(r))
      <3> DEFINE shown == [Files EXCEPT !.list = r.val, !.sel = NoEntry]
      <3>1. "mount" \in DOMAIN shown /\ shown.mount = Files.mount
        BY <1>0
      <3>2. /\ Keeps("Files", shown)
            /\ Keeps("Files", [shown EXCEPT !.edit = ClosedEditor, !.saving = FALSE])
            /\ Keeps("Files", [shown EXCEPT !.del = NoEntry])
            /\ Keeps("Files", [shown EXCEPT !.folder = FALSE])
        BY <1>0, <3>1 DEF Keeps
      <3> HIDE DEF shown
      <3>3. new(r) = CASE c.e = "none" -> shown
                    [] c.e = "editor" -> [shown EXCEPT !.edit = ClosedEditor, !.saving = FALSE]
                    [] c.e = "dialog" -> [shown EXCEPT !.del = NoEntry]
                    [] c.e = "folder" -> [shown EXCEPT !.folder = FALSE]
        BY DEF shown
      <3> HIDE DEF new
      <3> QED BY <2>20, <3>2, <3>3 DEF Closings
    <2>5. Shows(c, "Files", new(r))
      BY <2>2 DEF Shows, Live
    <2> HIDE DEF new
    <2> QED BY <1>01, <2>1, <2>2, <2>3, <2>5, FewFit, FewFiles DEF FilesKinds
  <1>2. CASE FileOpened
    <2> DEFINE new(r) == [Files EXCEPT !.edit =
                  [on |-> TRUE, path |-> c.e.path, of |-> c.e.of, text |-> r.val.text,
                   cut |-> r.val.cut, backup |-> TRUE]]
    <2>1. Awaited("opened")
      BY <1>2 DEF FileOpened
    <2>2. PICK r \in Answers(c) :
            /\ Take(r, <<>>)
            /\ \/ Live(c, "Files") /\ tabs' = [tabs EXCEPT !["Files"] = new(r)]
               \/ UNCHANGED tabs
      BY <1>2 DEF FileOpened, Files
    <2>3. Keeps("Files", new(r))
      BY <1>0 DEF Keeps
    <2>4. Shows(c, "Files", new(r)) \/ UNCHANGED tabs
      BY <2>2 DEF Shows, Live
    <2> HIDE DEF new
    <2> QED BY <1>01, <2>1, <2>2, <2>3, <2>4, FewFit, FewFiles DEF FilesKinds
  <1>3. CASE Written
    <2> DEFINE call == ListingCall(c.on, c.e.server, c.e.dir, c.e.closes)
    <2>1. Awaited("written") /\ UNCHANGED tabs
      BY <1>3 DEF Written
    <2>2. PICK r \in Answers(c) : Take(r, << call >>)
      BY <1>3 DEF Written
    <2>3. c.on \in 0 .. app.mounts /\ c.e.closes \in Closings
      BY <2>1, Headed DEF CallFits, KindFits
    <2>4. CallFits(call, sent, app.mounts)
      BY <2>3, ListingFits
    <2>6. call.op = "sftpListDirectory" /\ call.k = "directory"
      BY DEF ListingCall
    <2> HIDE DEF call
    <2>5. QueueFits(<< call >>, sent, app.mounts) /\ FilesCalls(<< call >>)
      BY <2>4, <2>6, FewFit, FewFiles DEF FilesOps, FilesKinds
    <2> QED BY <1>0, <1>01, <2>1, <2>2, <2>5 DEF FilesKinds
  <1>4. CASE Downloaded
    <2>1. Awaited("downloaded") /\ UNCHANGED tabs
      BY <1>4 DEF Downloaded
    <2>2. PICK r \in Answers(c) : Take(r, <<>>)
      BY <1>4 DEF Downloaded
    <2> QED BY <1>0, <1>01, <2>1, <2>2, FewFit, FewFiles DEF FilesKinds
  <1>5. CASE PatchSuggested
    <2> DEFINE new == [Files EXCEPT !.ai = "patch"]
    <2>1. tabs' = [tabs EXCEPT !["Files"] = new] /\ UNCHANGED << tauri, store, faults, queue, app, acts >>
      BY <1>5 DEF PatchSuggested, Files
    <2>2. Keeps("Files", new)
      BY <1>0 DEF Keeps
    <2>3. TabsFit(tabs, app.mounts)
      BY DEF Base
    <2> HIDE DEF new
    <2>4. TabsFit(tabs', app.mounts)
      BY <1>0, <2>1, <2>2, <2>3, KeptTabs
    <2>5. tabs'["Servers"] = tabs["Servers"]
      BY <1>0, <2>1, <2>2, <2>3, KeptTabs
    <2>6. Pushes(<<>>)
      BY <2>1, ByItself DEF Pushes, Base, QueueFits
    <2>7. FilesStep
      BY <1>00, <2>1, <2>5, <2>6, FewFiles DEF FilesStep
    <2>8. Base'
      BY <1>00, <2>1, <2>4 DEF Base, AppFits
    <2> QED BY <2>7, <2>8
  <1> QED BY <1>1, <1>2, <1>3, <1>4, <1>5 DEF FilesAnswer

-----------------------------------------------------------------------------
(* The server inventory *)

ServersOps == { "testServerConnection", "acceptServerHostKey", "serverReadings", "serverServiceStatus",
                "serverServiceAction", "panelReadings", "accountReadings", "cpanelRestartService",
                "cpanelSuspendAccount", "cpanelUnsuspendAccount" }
ServersKinds == {"tested", "accepted", "diagnosed", "serviced", "panel read", "suspended", "-"}
\* The operations and the continuations of the windows.
LEMMA ServersNames == ServersOps \subseteq ViewOps /\ ServersKinds \subseteq ViewKinds
  BY DEF ServersOps, ServersKinds, ViewOps, ViewKinds, Operations, WindowKinds, QuietNames

\* What the inventory and its windows ask of the core.
LEMMA ServersCallFits ==
    ASSUME Base, NEW op \in ServersOps, NEW x, NEW k \in ServersKinds, NEW e,
           k = "diagnosed" => op = "serverReadings", k = "panel read" => op = "panelReadings"
    PROVE  CallFits(ServersCall(op, x, k, e), sent, app.mounts)
  <1> DEFINE c == ServersCall(op, x, k, e)
  <1>1. DOMAIN c = CallFields /\ c.op = op /\ c.k = k /\ c.on = tabs["Servers"].mount
    BY DEF ServersCall, Call, CallFields
  <1>2. c.on \in 0 .. app.mounts
    BY <1>1, Mounted DEF TabNames
  <1> HIDE DEF c
  <1>3. c.op \in ViewOps /\ c.k \in ViewKinds /\ c.k \notin {"directory", "written"}
    BY <1>1, ServersNames DEF ServersKinds
  <1>4. CallFits(c, sent, app.mounts)
    BY <1>1, <1>2, <1>3, ViewCall
  <1> QED BY <1>4 DEF c

\* The one element of a set, or the alternative.
LEMMA TheOneIs ==
    ASSUME NEW S, NEW otherwise
    PROVE  TheOne(S, otherwise) \in S \/ TheOne(S, otherwise) = otherwise
  BY DEF TheOne

\* A submitted form makes a profile whose reference is for its server.
LEMMA SubmittedFits ==
    ASSUME NEW s, SubmissionFits(s), NEW whm
    PROVE  ProfileFits(s.id, Submitted(s.form, s.id, s.old, s.cred, whm))
  <1> DEFINE p == Submitted(s.form, s.id, s.old, s.cred, whm)
             known == {q.cred : q \in s.old} \ {NoRef}
             one == TheOne(known, Vault(s.id))
  <1>1. NoRef \notin {PasswordRef(s.id), Vault(s.id)}
    BY ReferencesAssumption DEF SubmissionFits
  <1>2. \A ref \in known : ref # NoRef /\ ref \in {Profiles[s.id].cred, NoRef, Vault(s.id), PasswordRef(s.id)}
    BY DEF SubmissionFits, ProfileFits
  <1>3. one # NoRef /\ one \in {Profiles[s.id].cred, NoRef, Vault(s.id), PasswordRef(s.id)}
    BY <1>1, <1>2, TheOneIs
  <1>4. /\ p.auth = s.form.auth
        /\ p.cred = IF s.cred # NoRef THEN s.cred
                    ELSE IF s.form.auth # "password" THEN NoRef ELSE one
    BY DEF Submitted
  <1> HIDE DEF p, one
  <1>5. s.cred \in {NoRef, PasswordRef(s.id)}
    BY DEF SubmissionFits
  <1> QED BY <1>3, <1>4, <1>5 DEF ProfileFits, p

\* App's continuations that follow a change of the servers.
LEMMA AppNames == {"server saved", "server deleted"} \subseteq ChangeKinds /\ ChangeKinds \subseteq AppKinds
  BY DEF ChangeKinds, AppKinds

\* Adding a server whose profile fits.
LEMMA AddFits ==
    ASSUME NEW hist, NEW n \in Nat, NEW id \in ServerIds, NEW profile, ProfileFits(id, profile)
    PROVE  QueueFits(AddServer(id, profile), hist, n)
  <1> DEFINE x == [id |-> id, profile |-> profile]
             c == [op |-> "saveServer", x |-> x, k |-> "server saved", e |-> id, on |-> AppMount]
  <1>1. /\ DOMAIN c = CallFields /\ c.op = "saveServer" /\ c.x.id = id /\ c.x.profile = profile
        /\ c.k = "server saved" /\ c.on = 0
    BY DEF CallFields, AppMount
  <1>2. AddServer(id, profile) = << c >>
    BY DEF AddServer
  <1> HIDE DEF c, x
  <1>3. KindFits(c)
    BY <1>1 DEF KindFits, AppMount, ListKinds
  <1>30. c.op \in Operations /\ c.k \notin TurnKinds \cup SubmitKinds \cup {"chain", "load"}
    BY <1>1 DEF Operations, TurnKinds, SubmitKinds
  <1>31. c.on \in 0 .. n
    <2>1. 0 \in 0 .. n
      OBVIOUS
    <2> QED BY <1>1, <2>1
  <1>4. CallFits(c, hist, n)
    BY <1>1, <1>3, <1>30, <1>31 DEF CallFits, CallFields
  <1> QED BY <1>2, <1>4, FewFit

\* Storing a secret on behalf of a submission that fits.
LEMMA SecretFits ==
    ASSUME NEW hist, NEW n, NEW c, DOMAIN c = CallFields, c.op = "saveSecret", c.k \in SubmitKinds,
           SubmissionFits(c.e), c.k = "password saved" => c.x = PasswordRef(c.e.id), c.on \in 0 .. n
    PROVE  CallFits(c, hist, n)
  <1>1. KindFits(c)
    BY DEF KindFits, SubmitKinds, AppKinds, LaunchKinds, ListKinds, ChangeKinds
  <1> QED BY <1>1 DEF CallFits, CallFields, Operations, TurnKinds, SubmitKinds

\* What follows the password: the token, or the profile itself.
LEMMA TokenFits ==
    ASSUME NEW hist, NEW n \in Nat, NEW mount \in 0 .. n, NEW s, SubmissionFits(s)
    PROVE  QueueFits(StoreToken(mount, s), hist, n)
  <1>1. CASE s.form.panel /\ s.form.token
    <2> DEFINE c == [op |-> "saveSecret", x |-> TokenRef(s.id), k |-> "token saved", e |-> s, on |-> mount]
    <2>1. StoreToken(mount, s) = << c >>
      BY <1>1 DEF StoreToken
    <2>2. DOMAIN c = CallFields /\ c.op = "saveSecret" /\ c.k = "token saved" /\ c.e = s /\ c.on = mount
      BY DEF CallFields
    <2> HIDE DEF c
    <2>3. CallFits(c, hist, n)
      BY <2>2, SecretFits DEF SubmitKinds
    <2> QED BY <2>1, <2>3, FewFit
  <1>2. CASE ~(s.form.panel /\ s.form.token)
    <2>1. StoreToken(mount, s) = AddServer(s.id, Submitted(s.form, s.id, s.old, s.cred, s.whm))
      BY <1>2 DEF StoreToken
    <2>2. s.id \in ServerIds
      BY DEF SubmissionFits
    <2> QED BY <2>1, <2>2, SubmittedFits, AddFits
  <1> QED BY <1>1, <1>2

InventoryKinds == ServersKinds \cup {"tokens"}
InventoryCalls(q, kinds) ==
    IsSeq(q) /\ \A i \in DOMAIN q : q[i].k \in kinds /\ q[i].op # "setSetting"
SubmissionKinds == InventoryKinds \cup SubmitKinds \cup {"server saved", "server deleted"}

\* A step in the inventory, or an answer to it.
ServersStep ==
    /\ UNCHANGED << tauri, app >> /\ tabs'["Files"] = tabs["Files"]
    /\ tabs'["Servers"].mount = tabs["Servers"].mount
    /\ \E calls :
         \/ InventoryCalls(calls, SubmissionKinds) /\ Open("Servers") /\ Pushes(calls)
         \/ InventoryCalls(calls, SubmissionKinds) /\ Pops(SubmitKinds, calls)
         \/ InventoryCalls(calls, InventoryKinds) /\ Pops(InventoryKinds, calls)

\* Queues of at most one call of the inventory.
LEMMA FewInventory ==
    ASSUME NEW kinds
    PROVE  /\ InventoryCalls(<<>>, kinds)
           /\ \A c : c.k \in kinds /\ c.op # "setSetting" => InventoryCalls(<< c >>, kinds)
  <1>1. InventoryCalls(<<>>, kinds)
    BY FewSeq DEF InventoryCalls
  <1>2. ASSUME NEW c, c.k \in kinds, c.op # "setSetting"
        PROVE  InventoryCalls(<< c >>, kinds)
    BY <1>2, FewSeq DEF InventoryCalls
  <1> QED BY <1>1, <1>2

\* What a submission goes on with.
LEMMA SubmissionCalls ==
    ASSUME NEW mount, NEW s, NEW id, NEW profile
    PROVE  /\ InventoryCalls(AddServer(id, profile), SubmissionKinds)
           /\ InventoryCalls(StoreToken(mount, s), SubmissionKinds)
  <1>1. \A i, p : InventoryCalls(AddServer(i, p), SubmissionKinds)
    <2> TAKE i, p
    <2> DEFINE c == [op |-> "saveServer", x |-> [id |-> i, profile |-> p],
                     k |-> "server saved", e |-> i, on |-> AppMount]
    <2>1. c.k \in SubmissionKinds /\ c.op # "setSetting"
      BY DEF SubmissionKinds
    <2> HIDE DEF c
    <2>2. InventoryCalls(<< c >>, SubmissionKinds)
      BY <2>1, FewInventory
    <2> QED BY <2>2 DEF c, AddServer
  <1>2. CASE s.form.panel /\ s.form.token
    <2> DEFINE c == [op |-> "saveSecret", x |-> TokenRef(s.id), k |-> "token saved", e |-> s, on |-> mount]
    <2>1. c.k \in SubmissionKinds /\ c.op # "setSetting" /\ StoreToken(mount, s) = << c >>
      BY <1>2 DEF SubmissionKinds, SubmitKinds, StoreToken
    <2> HIDE DEF c
    <2> QED BY <1>1, <2>1, FewInventory
  <1>3. CASE ~(s.form.panel /\ s.form.token)
    BY <1>1, <1>3 DEF StoreToken
  <1> QED BY <1>1, <1>2, <1>3

\* A step of the operator in the inventory.
LEMMA ServersDoing ==
    ASSUME Base, NEW new, NEW calls, ServersDoes(new, calls), Keeps("Servers", new),
           QueueFits(calls, sent, app.mounts), UNCHANGED << sent, away >>,
           InventoryCalls(calls, SubmissionKinds)
    PROVE  Base' /\ ServersStep
  <1>1. Does("Servers", [new EXCEPT !.rush = Hurried], calls)
    BY DEF ServersDoes
  <1>2. Keeps("Servers", [new EXCEPT !.rush = Hurried])
    BY DEF Keeps
  <1>3. Base'
    BY <1>1, <1>2, Doing DEF TabNames
  <1>4. ServersStep
    <2> DEFINE me == [new EXCEPT !.rush = Hurried]
    <2>1. TabsFit(tabs, app.mounts) /\ tabs' = [tabs EXCEPT !["Servers"] = me]
      BY <1>1 DEF Base, Does
    <2>2. me.mount = tabs["Servers"].mount
      BY <1>2 DEF Keeps
    <2> HIDE DEF me
    <2>3. tabs'["Files"] = tabs["Files"] /\ tabs'["Servers"].mount = tabs["Servers"].mount
      BY <2>1, <2>2 DEF TabsFit, TabNames
    <2> QED BY <1>1, <2>3 DEF ServersStep, Does, Pushes
  <1> QED BY <1>3, <1>4

\* What the operator does at the table and in the form.
LEMMA FormBase ==
    ASSUME Base, UNCHANGED chatVars,
           \/ ToggleAdd \/ CancelEdit \/ FetchDiscovered
           \/ \E s \in ServerIds : EditServer(s) \/ Submit(s) \/ ImportDiscovered(s) \/ RemoveServer(s)
           \/ \E auth, pw, panel, token, whm, production : FillForm(auth, pw, panel, token, whm, production)
    PROVE  Base' /\ ServersStep
  <1>0. /\ "mount" \in DOMAIN Servers /\ Servers.mount = tabs["Servers"].mount /\ Keeps("Servers", Servers)
        /\ Servers.mount \in 0 .. app.mounts
    BY Mounted DEF Servers, Keeps, TabNames
  <1>00. UNCHANGED << sent, away >> /\ app.mounts \in Nat /\ ListFits(app.servers)
    BY DEF chatVars, Base, AppFits
  <1>1. ASSUME NEW new, Keeps("Servers", new), ServersDoes(new, <<>>)
        PROVE  Base' /\ ServersStep
    BY <1>00, <1>1, ServersDoing, FewFit, FewInventory
  <1>2. \A form : Keeps("Servers", [Servers EXCEPT !.form = form])
    BY <1>0 DEF Keeps
  <1>3. CASE ToggleAdd
    <2>1. ServersDoes([Servers EXCEPT !.form.open = ~@], <<>>)
      BY <1>3 DEF ToggleAdd
    <2>2. Keeps("Servers", [Servers EXCEPT !.form.open = ~@])
      BY <1>0 DEF Keeps
    <2> QED BY <1>1, <2>1, <2>2
  <1>4. CASE CancelEdit
    <2>1. \E form : ServersDoes([Servers EXCEPT !.form = form], <<>>)
      BY <1>4 DEF CancelEdit
    <2> QED BY <1>1, <1>2, <2>1
  <1>5. CASE FetchDiscovered
    <2>1. ServersDoes([Servers EXCEPT !.found = TRUE], <<>>)
      BY <1>5 DEF FetchDiscovered
    <2>2. Keeps("Servers", [Servers EXCEPT !.found = TRUE])
      BY <1>0 DEF Keeps
    <2> QED BY <1>1, <2>1, <2>2
  <1>6. ASSUME NEW s, EditServer(s)
        PROVE  Base' /\ ServersStep
    <2>1. \E form : ServersDoes([Servers EXCEPT !.form = form], <<>>)
      BY <1>6 DEF EditServer
    <2> QED BY <1>1, <1>2, <2>1
  <1>7. ASSUME NEW auth, NEW pw, NEW panel, NEW token, NEW whm, NEW production,
               FillForm(auth, pw, panel, token, whm, production)
        PROVE  Base' /\ ServersStep
    <2>1. \E form : ServersDoes([Servers EXCEPT !.form = form], <<>>)
      BY <1>7 DEF FillForm
    <2> QED BY <1>1, <1>2, <2>1
  <1>8. ASSUME NEW id \in ServerIds, Submit(id)
        PROVE  Base' /\ ServersStep
    <2> DEFINE f == Servers.form
               old == IF f.editing \in DOMAIN app.servers THEN {app.servers[f.editing]} ELSE {}
               s == [form |-> f, id |-> id, old |-> old, cred |-> NoRef, whm |-> NoRef]
               saving == [Servers EXCEPT !.saving = TRUE]
               call == ServersCall("saveSecret", PasswordRef(id), "password saved", s)
    <2>1. \/ ServersDoes(saving, << call >>)
          \/ ServersDoes(AfterToken(saving, s), StoreToken(Servers.mount, s))
      BY <1>8 DEF Submit
    <2>2. f.editing # NoServer => id = f.editing
      BY <1>8 DEF Submit
    <2>3. NoServer \notin DOMAIN app.servers
      BY <1>00, DesktopAssumption DEF ListFits
    <2>4. \A p \in old : ProfileFits(id, p)
      BY <1>00, <2>2, <2>3 DEF ListFits
    <2> HIDE DEF f, old
    <2>5. SubmissionFits(s)
      BY <2>4 DEF SubmissionFits
    <2>50. s.id = id
      OBVIOUS
    <2> HIDE DEF s
    <2>6. Keeps("Servers", saving)
      BY <1>0 DEF Keeps
    <2>7. Keeps("Servers", AfterToken(saving, s))
      BY <1>0 DEF Keeps, AfterToken, Finished
    <2>8. QueueFits(StoreToken(Servers.mount, s), sent, app.mounts)
      BY <1>0, <1>00, <2>5, TokenFits
    <2>9. CallFits(call, sent, app.mounts)
      <3>1. /\ DOMAIN call = CallFields /\ call.op = "saveSecret" /\ call.k = "password saved"
            /\ call.x = PasswordRef(id) /\ call.e = s /\ call.on = Servers.mount
        BY DEF ServersCall, Call, CallFields, Servers
      <3> HIDE DEF call
      <3> QED BY <1>0, <2>5, <2>50, <3>1, SecretFits DEF SubmitKinds
    <2>11. call.k \in SubmissionKinds /\ call.op # "setSetting"
      BY DEF ServersCall, Call, SubmissionKinds, SubmitKinds
    <2> HIDE DEF call, saving
    <2>10. QueueFits(<< call >>, sent, app.mounts) /\ InventoryCalls(<< call >>, SubmissionKinds)
      BY <2>9, <2>11, FewFit, FewInventory
    <2>12. InventoryCalls(StoreToken(Servers.mount, s), SubmissionKinds)
      BY SubmissionCalls
    <2> QED BY <1>00, <2>1, <2>6, <2>7, <2>8, <2>10, <2>12, ServersDoing
  <1>9. ASSUME NEW id \in ServerIds, ImportDiscovered(id)
        PROVE  Base' /\ ServersStep
    <2> DEFINE p == [auth |-> "key", cred |-> Vault(id), whm |-> NoRef, panel |-> FALSE,
                     production |-> FALSE]
    <2>1. ServersDoes(Servers, AddServer(id, p))
      BY <1>9 DEF ImportDiscovered
    <2>2. ProfileFits(id, p)
      BY DEF ProfileFits
    <2> HIDE DEF p
    <2>3. QueueFits(AddServer(id, p), sent, app.mounts) /\ InventoryCalls(AddServer(id, p), SubmissionKinds)
      BY <1>00, <2>2, AddFits, SubmissionCalls
    <2> QED BY <1>0, <1>00, <2>1, <2>3, ServersDoing
  <1>10. ASSUME NEW s, RemoveServer(s)
        PROVE  Base' /\ ServersStep
    <2> DEFINE c == [op |-> "deleteServer", x |-> s, k |-> "server deleted",
                     e |-> [id |-> s, active |-> app.active], on |-> AppMount]
    <2>1. ServersDoes(Servers, << c >>)
      BY <1>10 DEF RemoveServer
    <2>2. DOMAIN c = CallFields /\ c.op = "deleteServer" /\ c.k = "server deleted" /\ c.on = 0
      BY DEF CallFields, AppMount
    <2> HIDE DEF c
    <2>3. KindFits(c)
      BY <2>2 DEF KindFits, AppMount, ListKinds
    <2>30. c.op \in Operations /\ c.k \notin TurnKinds \cup SubmitKinds \cup {"chain", "load"}
      BY <2>2 DEF Operations, TurnKinds, SubmitKinds
    <2>31. c.on \in 0 .. app.mounts
      <3>1. 0 \in 0 .. app.mounts
        BY <1>00
      <3> QED BY <2>2, <3>1
    <2>4. CallFits(c, sent, app.mounts)
      BY <2>2, <2>3, <2>30, <2>31 DEF CallFits, CallFields
    <2>50. c.k \in SubmissionKinds /\ c.op # "setSetting"
      BY <2>2 DEF SubmissionKinds
    <2>5. QueueFits(<< c >>, sent, app.mounts) /\ InventoryCalls(<< c >>, SubmissionKinds)
      BY <2>4, <2>50, FewFit, FewInventory
    <2> QED BY <1>0, <1>00, <2>1, <2>5, ServersDoing
  <1> QED BY <1>3, <1>4, <1>5, <1>6, <1>7, <1>8, <1>9, <1>10

\* What the operator does in the alert and in the two windows.
LEMMA WindowsBase ==
    ASSUME Base, UNCHANGED chatVars,
           \/ KeepBlocked
           \/ \E s \in ServerIds : TestConnection(s) \/ AcceptHostKey(s) \/ OpenDiagnostics(s) \/ OpenPanel(s)
           \/ RefreshDiagnostics \/ CloseDiagnostics
           \/ \E action \in {"restart", "stop"} : ServiceAct(action)
           \/ RefreshPanel \/ ClosePanel \/ SelectAccount \/ AskSuspend
           \/ TypeAccount \/ CancelSuspend \/ ConfirmSuspend \/ UnsuspendAccount
           \/ RestartPanelService
    PROVE  Base' /\ ServersStep
  <1>0. /\ "mount" \in DOMAIN Servers /\ Servers.mount = tabs["Servers"].mount /\ Keeps("Servers", Servers)
    BY Mounted DEF Servers, Keeps, TabNames
  <1>00. UNCHANGED << sent, away >>
    BY DEF chatVars
  <1>1. ASSUME NEW new, Keeps("Servers", new), ServersDoes(new, <<>>)
        PROVE  Base' /\ ServersStep
    BY <1>00, <1>1, ServersDoing, FewFit, FewInventory
  <1>2. ASSUME NEW new, Keeps("Servers", new), NEW op \in ServersOps, NEW x, NEW k \in ServersKinds, NEW e,
               k = "diagnosed" => op = "serverReadings", k = "panel read" => op = "panelReadings",
               ServersDoes(new, << ServersCall(op, x, k, e) >>)
        PROVE  Base' /\ ServersStep
    <2>1. CallFits(ServersCall(op, x, k, e), sent, app.mounts)
      BY <1>2, ServersCallFits
    <2>2. QueueFits(<< ServersCall(op, x, k, e) >>, sent, app.mounts)
      BY <2>1, FewFit
    <2>3. InventoryCalls(<< ServersCall(op, x, k, e) >>, SubmissionKinds)
      BY <1>2, FewInventory DEF ServersCall, Call, SubmissionKinds, InventoryKinds, ServersOps
    <2> QED BY <1>00, <1>2, <2>2, <2>3, ServersDoing
  <1>3. CASE KeepBlocked
    <2>1. Keeps("Servers", [Servers EXCEPT !.alert = NoServer])
      BY <1>0 DEF Keeps
    <2> QED BY <1>1, <1>3, <2>1 DEF KeepBlocked
  <1>4. ASSUME NEW s, TestConnection(s)
        PROVE  Base' /\ ServersStep
    <2>1. ServersDoes(Servers, << ServersCall("testServerConnection", s, "tested", s) >>)
      BY <1>4 DEF TestConnection, TestCall, ServersCall, Call, Servers
    <2> QED BY <1>0, <1>2, <2>1 DEF ServersOps, ServersKinds
  <1>5. ASSUME NEW s, AcceptHostKey(s)
        PROVE  Base' /\ ServersStep
    BY <1>0, <1>2, <1>5 DEF AcceptHostKey, ServersOps, ServersKinds
  <1>6. ASSUME NEW s, OpenDiagnostics(s)
        PROVE  Base' /\ ServersStep
    <2>1. Keeps("Servers", [Servers EXCEPT !.diag = s])
      BY <1>0 DEF Keeps
    <2>2. ServersDoes([Servers EXCEPT !.diag = s], << ServersCall("serverReadings", s, "diagnosed", s) >>)
      BY <1>6 DEF OpenDiagnostics, LoadDiagnostics
    <2> QED BY <1>2, <2>1, <2>2 DEF ServersOps, ServersKinds
  <1>7. CASE RefreshDiagnostics
    <2>1. ServersDoes(Servers, << ServersCall("serverReadings", Servers.diag, "diagnosed", Servers.diag) >>)
      BY <1>7 DEF RefreshDiagnostics, LoadDiagnostics
    <2> QED BY <1>0, <1>2, <2>1 DEF ServersOps, ServersKinds
  <1>8. CASE CloseDiagnostics \/ ClosePanel
    <2>1. Keeps("Servers", [Servers EXCEPT !.diag = NoServer]) /\ Keeps("Servers", [Servers EXCEPT !.panel = NoServer])
      BY <1>0 DEF Keeps
    <2> QED BY <1>1, <1>8, <2>1 DEF CloseDiagnostics, ClosePanel
  <1>9. ASSUME NEW action, ServiceAct(action)
        PROVE  Base' /\ ServersStep
    BY <1>0, <1>2, <1>9 DEF ServiceAct, ServersOps, ServersKinds
  <1>10. ASSUME NEW s, OpenPanel(s)
        PROVE  Base' /\ ServersStep
    <2>1. Keeps("Servers", [Servers EXCEPT !.panel = s])
      BY <1>0 DEF Keeps
    <2>2. ServersDoes([Servers EXCEPT !.panel = s], << ServersCall("panelReadings", s, "panel read", s) >>)
      BY <1>10 DEF OpenPanel, LoadPanel
    <2> QED BY <1>2, <2>1, <2>2 DEF ServersOps, ServersKinds
  <1>11. CASE RefreshPanel
    <2>1. ServersDoes(Servers, << ServersCall("panelReadings", Servers.panel, "panel read", Servers.panel) >>)
      BY <1>11 DEF RefreshPanel, LoadPanel
    <2> QED BY <1>0, <1>2, <2>1 DEF ServersOps, ServersKinds
  <1>12. CASE SelectAccount
    BY <1>0, <1>2, <1>12 DEF SelectAccount, ServersOps, ServersKinds
  <1>13. CASE AskSuspend \/ CancelSuspend \/ TypeAccount
    <2> DEFINE asked == [Servers EXCEPT !.target = Servers.panelOf, !.typed = FALSE]
               gone == [Servers EXCEPT !.target = NoServer, !.typed = FALSE]
               typed == [Servers EXCEPT !.typed = TRUE]
    <2>1. Keeps("Servers", asked) /\ Keeps("Servers", gone) /\ Keeps("Servers", typed)
      BY <1>0 DEF Keeps
    <2>2. ServersDoes(asked, <<>>) \/ ServersDoes(gone, <<>>) \/ ServersDoes(typed, <<>>)
      BY <1>13 DEF AskSuspend, CancelSuspend, TypeAccount
    <2> HIDE DEF asked, gone, typed
    <2> QED BY <1>1, <2>1, <2>2
  <1>14. CASE ConfirmSuspend
    BY <1>0, <1>2, <1>14 DEF ConfirmSuspend, ServersOps, ServersKinds
  <1>15. CASE UnsuspendAccount \/ RestartPanelService
    BY <1>0, <1>2, <1>15 DEF UnsuspendAccount, RestartPanelService, PanelCall, ServersOps, ServersKinds
  <1> QED BY <1>3, <1>4, <1>5, <1>6, <1>7, <1>8, <1>9, <1>10, <1>11, <1>12, <1>13, <1>14, <1>15

\* Either of them.
LEMMA ServersBase ==
    ASSUME Base, ServersOperator, UNCHANGED chatVars
    PROVE  Base' /\ ServersStep
  <1>1. \/ ToggleAdd \/ CancelEdit \/ FetchDiscovered
        \/ \E s \in ServerIds : EditServer(s) \/ Submit(s) \/ ImportDiscovered(s) \/ RemoveServer(s)
        \/ \E auth, pw, panel, token, whm, production : FillForm(auth, pw, panel, token, whm, production)
        \/ KeepBlocked
        \/ \E s \in ServerIds : TestConnection(s) \/ AcceptHostKey(s) \/ OpenDiagnostics(s) \/ OpenPanel(s)
        \/ RefreshDiagnostics \/ CloseDiagnostics
        \/ \E action \in {"restart", "stop"} : ServiceAct(action)
        \/ RefreshPanel \/ ClosePanel \/ SelectAccount \/ AskSuspend
        \/ TypeAccount \/ CancelSuspend \/ ConfirmSuspend \/ UnsuspendAccount
        \/ RestartPanelService
    BY DEF ServersOperator
  <1> QED BY <1>1, FormBase, WindowsBase

\* Answers to the inventory and its windows.
LEMMA ServersAnswersBase ==
    ASSUME Base, ServersAnswer, UNCHANGED chatVars
    PROVE  Base' /\ ServersStep
  <1> DEFINE c == Head(queue)
  <1>0. /\ "mount" \in DOMAIN Servers /\ Servers.mount = tabs["Servers"].mount /\ Keeps("Servers", Servers)
        /\ "Servers" \in TabNames /\ app.mounts \in Nat
    BY Mounted DEF Servers, Keeps, TabNames, Base, AppFits
  <1>00. UNCHANGED << app, sent, away >>
    BY DEF chatVars, ServersAnswer, TokensListed, PasswordSaved, TokenSaved, ConnectionTested,
           TestGoesOn, HostKeyAccepted, Diagnosed, Serviced, PanelRead, Suspended
  <1>1. ASSUME NEW k, Awaited(k), NEW r \in Answers(c), NEW calls, Take(r, calls),
               QueueFits(calls, sent, app.mounts), NEW new, Keeps("Servers", new),
               Shows(c, "Servers", new) \/ UNCHANGED tabs,
               \/ k \in SubmitKinds /\ InventoryCalls(calls, SubmissionKinds)
               \/ k \in InventoryKinds /\ InventoryCalls(calls, InventoryKinds)
        PROVE  Base' /\ ServersStep
    <2>1. /\ Base' /\ tauri' = tauri /\ Pops({k}, calls)
          /\ tabs'["Files"] = tabs["Files"]
      BY <1>0, <1>00, <1>1, ViewAnswers
    <2>2. \A kinds : k \in kinds => Pops(kinds, calls)
      BY <2>1 DEF Pops
    <2>3. tabs'["Servers"].mount = tabs["Servers"].mount
      <3>1. DOMAIN tabs = TabNames
        BY DEF Base, TabsFit
      <3> QED BY <1>0, <1>1, <3>1 DEF Shows, Keeps
    <2> QED BY <1>00, <1>1, <2>1, <2>2, <2>3 DEF ServersStep
  <1>10. /\ {"tokens", "tested", "accepted", "diagnosed", "serviced", "panel read", "suspended", "-"}
                \subseteq InventoryKinds
         /\ {"password saved", "token saved"} \subseteq SubmitKinds
    BY DEF InventoryKinds, ServersKinds, SubmitKinds
  <1>2. \A me, s : "mount" \in DOMAIN me /\ me.mount = Servers.mount => Keeps("Servers", AfterToken(me, s))
    BY <1>0 DEF Keeps, AfterToken, Finished
  <1>3. CASE TokensListed
    <2>1. Awaited("tokens")
      BY <1>3 DEF TokensListed
    <2>2. PICK r \in Answers(c) : \E refs :
            Take(r, <<>>) /\ Shows(c, "Servers", [Servers EXCEPT !.refs = refs])
      BY <1>3 DEF TokensListed
    <2>3. PICK refs : Take(r, <<>>) /\ Shows(c, "Servers", [Servers EXCEPT !.refs = refs])
      BY <2>2
    <2>4. Keeps("Servers", [Servers EXCEPT !.refs = refs])
      BY <1>0 DEF Keeps
    <2> QED BY <1>1, <1>10, <2>1, <2>3, <2>4, FewFit, FewInventory
  <1>4. CASE PasswordSaved
    <2>1. Awaited("password saved")
      BY <1>4 DEF PasswordSaved
    <2> DEFINE s(r) == [c.e EXCEPT !.cred = r.val]
    <2>2. PICK r \in Answers(c) :
            Take(r, StoreToken(c.on, s(r))) /\ Shows(c, "Servers", AfterToken(Servers, s(r)))
      BY <1>4 DEF PasswordSaved
    <2>3. CallFits(c, sent, app.mounts) /\ c.k = "password saved"
      BY <2>1, Headed
    <2>4. c.op = "saveSecret" /\ c.x = PasswordRef(c.e.id) /\ SubmissionFits(c.e) /\ c.on \in 0 .. app.mounts
      BY <2>3 DEF CallFits, KindFits, SubmitKinds
    <2>5. Reflects(c, r)
      BY <2>3, Answered
    <2>6. r.val = PasswordRef(c.e.id)
      BY <2>4, <2>5 DEF Reflects, AnswerFits, ToolCalls
    <2>7. SubmissionFits(s(r))
      BY <2>4, <2>6 DEF SubmissionFits
    <2> HIDE DEF s
    <2>8. QueueFits(StoreToken(c.on, s(r)), sent, app.mounts)
      BY <1>0, <2>4, <2>7, TokenFits
    <2>9. Keeps("Servers", AfterToken(Servers, s(r)))
      BY <1>0, <1>2
    <2> QED BY <1>1, <1>10, <2>1, <2>2, <2>8, <2>9, SubmissionCalls
  <1>5. CASE TokenSaved
    <2>1. Awaited("token saved")
      BY <1>5 DEF TokenSaved
    <2> DEFINE s == c.e
    <2>2. PICK r \in Answers(c) :
            /\ Take(r, AddServer(s.id, Submitted(s.form, s.id, s.old, s.cred, r.val)))
            /\ Shows(c, "Servers", Finished(Servers))
      BY <1>5 DEF TokenSaved
    <2>3. SubmissionFits(s)
      BY <2>1, Headed DEF CallFits, SubmitKinds
    <2>4. s.id \in ServerIds
      BY <2>3 DEF SubmissionFits
    <2>5. ProfileFits(s.id, Submitted(s.form, s.id, s.old, s.cred, r.val))
      BY <2>3, SubmittedFits
    <2>6. QueueFits(AddServer(s.id, Submitted(s.form, s.id, s.old, s.cred, r.val)), sent, app.mounts)
      BY <1>0, <2>4, <2>5, AddFits
    <2>7. Keeps("Servers", Finished(Servers))
      BY <1>0 DEF Keeps, Finished
    <2> QED BY <1>1, <1>10, <2>1, <2>2, <2>6, <2>7, SubmissionCalls
  <1>6. CASE ConnectionTested
    <2>1. Awaited("tested")
      BY <1>6 DEF ConnectionTested
    <2>2. PICK r \in Answers(c) : \E alert, unknown :
            Take(r, <<>>) /\ Shows(c, "Servers", [Servers EXCEPT !.alert = alert, !.unknown = unknown])
      BY <1>6 DEF ConnectionTested
    <2>3. PICK alert, unknown :
            Take(r, <<>>) /\ Shows(c, "Servers", [Servers EXCEPT !.alert = alert, !.unknown = unknown])
      BY <2>2
    <2>4. Keeps("Servers", [Servers EXCEPT !.alert = alert, !.unknown = unknown])
      BY <1>0 DEF Keeps
    <2> QED BY <1>1, <1>10, <2>1, <2>3, <2>4, FewFit, FewInventory
  <1>60. CASE TestGoesOn
    <2>1. Awaited("tested") /\ c.op = "testServerConnection" /\ UNCHANGED tabs
      BY <1>60 DEF TestGoesOn
    <2>2. PICK r \in Answers(c) : Take(r, << c >>)
      BY <1>60 DEF TestGoesOn, Answers
    <2>3. CallFits(c, sent, app.mounts) /\ c.k = "tested"
      BY <2>1, Headed
    <2>4. QueueFits(<< c >>, sent, app.mounts) /\ InventoryCalls(<< c >>, InventoryKinds)
      BY <1>10, <2>1, <2>3, FewFit, FewInventory
    <2> QED BY <1>0, <1>1, <1>10, <2>1, <2>2, <2>4
  <1>7. CASE HostKeyAccepted
    <2> DEFINE call == TestCall(c.on, c.e.id)
    <2>1. Awaited("accepted")
      BY <1>7 DEF HostKeyAccepted
    <2>2. PICK r \in Answers(c) :
            /\ Take(r, << call >>) \/ Take(r, <<>>)
            /\ Shows(c, "Servers", [Servers EXCEPT !.alert = NoServer])
      BY <1>7 DEF HostKeyAccepted
    <2>3. Keeps("Servers", [Servers EXCEPT !.alert = NoServer])
      BY <1>0 DEF Keeps
    <2>4. c.on \in 0 .. app.mounts
      BY <2>1, Headed DEF CallFits
    <2>5. DOMAIN call = CallFields /\ call.op = "testServerConnection" /\ call.k = "tested" /\ call.on = c.on
      BY DEF TestCall, CallFields
    <2> HIDE DEF call
    <2>6. CallFits(call, sent, app.mounts)
      BY <2>4, <2>5, ServersNames, ViewCall DEF ServersOps, ServersKinds
    <2>7. QueueFits(<< call >>, sent, app.mounts) /\ InventoryCalls(<< call >>, InventoryKinds)
      BY <1>10, <2>5, <2>6, FewFit, FewInventory
    <2> QED BY <1>1, <1>10, <2>1, <2>2, <2>3, <2>7, FewFit, FewInventory
  <1>8. CASE Diagnosed \/ PanelRead
    <2>1. PICK k \in InventoryKinds : Awaited(k)
      BY <1>8, <1>10 DEF Diagnosed, PanelRead
    <2>2. PICK r \in Answers(c) :
            /\ Take(r, <<>>)
            /\ \/ Shows(c, "Servers", [Servers EXCEPT !.diagOf = r.val.of])
               \/ Shows(c, "Servers", [Servers EXCEPT !.panelOf = r.val.of])
      BY <1>8 DEF Diagnosed, PanelRead
    <2>3. /\ Keeps("Servers", [Servers EXCEPT !.diagOf = r.val.of])
          /\ Keeps("Servers", [Servers EXCEPT !.panelOf = r.val.of])
      BY <1>0 DEF Keeps
    <2> QED BY <1>1, <1>10, <2>1, <2>2, <2>3, FewFit, FewInventory
  <1>9. CASE Serviced
    <2> DEFINE call == [c EXCEPT !.op = "serverServiceStatus", !.x = c.x.server, !.k = "-", !.e = 0]
    <2>1. Awaited("serviced") /\ UNCHANGED tabs
      BY <1>9 DEF Serviced
    <2>2. PICK r \in Answers(c) : Take(r, << call >>)
      BY <1>9 DEF Serviced
    <2>3. DOMAIN c = CallFields /\ c.on \in 0 .. app.mounts
      BY <2>1, Headed DEF CallFits, CallFields
    <2>5. DOMAIN call = CallFields /\ call.op = "serverServiceStatus" /\ call.k = "-" /\ call.on = c.on
      BY <2>3 DEF CallFields
    <2> HIDE DEF call
    <2>6. CallFits(call, sent, app.mounts)
      BY <2>3, <2>5, ServersNames, ViewCall DEF ServersOps, ServersKinds
    <2>7. QueueFits(<< call >>, sent, app.mounts) /\ InventoryCalls(<< call >>, InventoryKinds)
      BY <1>10, <2>5, <2>6, FewFit, FewInventory
    <2> QED BY <1>0, <1>1, <1>10, <2>1, <2>2, <2>7
  <1>11. CASE Suspended
    <2>1. Awaited("suspended")
      BY <1>11 DEF Suspended
    <2>2. PICK r \in Answers(c) :
            Take(r, <<>>) /\ Shows(c, "Servers", [Servers EXCEPT !.target = NoServer, !.typed = FALSE])
      BY <1>11 DEF Suspended
    <2>3. Keeps("Servers", [Servers EXCEPT !.target = NoServer, !.typed = FALSE])
      BY <1>0 DEF Keeps
    <2> QED BY <1>1, <1>10, <2>1, <2>2, <2>3, FewFit, FewInventory
  <1> QED BY <1>3, <1>4, <1>5, <1>6, <1>60, <1>7, <1>8, <1>9, <1>11 DEF ServersAnswer

-----------------------------------------------------------------------------
(* App *)

\* What the views do when they are mounted, and when App changes.
LEMMA EffectsFit ==
    ASSUME NEW hist, NEW n, NEW mount \in 0 .. n, NEW server, NEW dir, NEW cur, NEW mode
    PROVE  /\ QueueFits(ChatEffect(mount, server), hist, n)
           /\ QueueFits(FilesEffect(mount, server, dir), hist, n)
           /\ QueueFits(TerminalEffect(mount, server), hist, n)
           /\ QueueFits(<< SessionsCall(mount, server, cur) >>, hist, n)
           /\ QueueFits(SettingsEffect(mount, mode), hist, n)
           /\ QueueFits(ServersEffect(mount), hist, n)
           /\ QueueFits(ActivityEffect(mount), hist, n)
  <1>1. ASSUME NEW op \in PlainOps, NEW x, NEW k \in QuietNames, NEW e
        PROVE  Plain([op |-> op, x |-> x, k |-> k, e |-> e, on |-> mount], n)
    BY Quiets DEF Plain
  <1>2. /\ {"listPendingApprovals", "listConversations", "listServers", "listTerminalSessions",
            "listCredentialRefs", "safetyListBackups"} \subseteq PlainOps
        /\ {"pending", "listed", "available", "sessions", "tokens", "activity"} \subseteq QuietNames
    BY DEF PlainOps, Operations, WindowOps, QuietNames
  <1>3. QueueFits(ChatEffect(mount, server), hist, n)
    <2> DEFINE a == [op |-> "listPendingApprovals", x |-> 0, k |-> "pending", e |-> 0, on |-> mount]
               b == [op |-> "listConversations", x |-> server, k |-> "listed", e |-> 0, on |-> mount]
    <2>1. Plain(a, n) /\ Plain(b, n)
      BY <1>1, <1>2
    <2>2. ChatEffect(mount, server) = << a, b >>
      BY DEF ChatEffect
    <2> HIDE DEF a, b
    <2> QED BY <2>1, <2>2, FewPlain, PlainQueue
  <1>4. QueueFits(FilesEffect(mount, server, dir), hist, n)
    <2>1. CallFits(ListingCall(mount, server, dir, "none"), hist, n)
      BY ListingFits DEF Closings
    <2> QED BY <2>1, FewFit DEF FilesEffect
  <1>5. Plain(SessionsCall(mount, server, cur), n) /\ Plain(SessionsCall(mount, server, NoTerm), n)
    BY <1>1, <1>2 DEF SessionsCall
  <1>6. QueueFits(TerminalEffect(mount, server), hist, n)
    <2> DEFINE a == [op |-> "listServers", x |-> 0, k |-> "available", e |-> 0, on |-> mount]
    <2>1. Plain(a, n)
      BY <1>1, <1>2
    <2>2. TerminalEffect(mount, server) = << a, SessionsCall(mount, server, NoTerm) >>
      BY DEF TerminalEffect
    <2> HIDE DEF a
    <2> QED BY <1>5, <2>1, <2>2, FewPlain, PlainQueue
  <1>7. QueueFits(<< SessionsCall(mount, server, cur) >>, hist, n)
    BY <1>5, FewPlain, PlainQueue
  <1>8. QueueFits(SettingsEffect(mount, mode), hist, n)
    <2>1. 1 \in 1 .. 10
      OBVIOUS
    <2>2. QueueFits(<< LoadStep(mount, mode, 1, <<>>) >>, hist, n)
      BY <2>1, LoadFits
    <2> QED BY <2>2 DEF SettingsEffect
  <1>9. QueueFits(ServersEffect(mount), hist, n)
    <2> DEFINE a == [op |-> "listCredentialRefs", x |-> 0, k |-> "tokens", e |-> 0, on |-> mount]
    <2>1. Plain(a, n)
      BY <1>1, <1>2
    <2>2. ServersEffect(mount) = << a >>
      BY DEF ServersEffect
    <2> HIDE DEF a
    <2> QED BY <2>1, <2>2, FewPlain, PlainQueue
  <1>10. QueueFits(ActivityEffect(mount), hist, n)
    <2> DEFINE a == [op |-> "safetyListBackups", x |-> NoServer, k |-> "activity", e |-> FALSE, on |-> mount]
    <2>1. Plain(a, n)
      BY <1>1, <1>2
    <2>2. ActivityEffect(mount) = << a >>
      BY DEF ActivityEffect
    <2> HIDE DEF a
    <2> QED BY <2>1, <2>2, FewPlain, PlainQueue
  <1> QED BY <1>3, <1>4, <1>6, <1>7, <1>8, <1>9, <1>10

\* What the mounted views ask for when App changes.
LEMMA FollowsFit ==
    ASSUME Base, NEW a
    PROVE  QueueFits(Effects(a), sent, app.mounts)
  <1>1. /\ Chat.mount \in 0 .. app.mounts /\ Files.mount \in 0 .. app.mounts
        /\ Terminal.mount \in 0 .. app.mounts
    BY Mounted DEF Chat, Files, Terminal, TabNames
  <1>2. QueueFits(ChatFollows(a), sent, app.mounts)
    BY <1>1, EffectsFit, FewFit DEF ChatFollows
  <1>3. QueueFits(FilesFollow(a), sent, app.mounts)
    BY <1>1, EffectsFit, FewFit DEF FilesFollow
  <1>4. QueueFits(TerminalFollows(a), sent, app.mounts)
    BY <1>1, EffectsFit, FewFit DEF TerminalFollows
  <1> QED BY <1>2, <1>3, <1>4, JoinFits DEF Effects

\* The settings are loaded anew when the mode changes.
LEMMA ReloadFits ==
    ASSUME Base, NEW mode
    PROVE  QueueFits(ReloadFor(mode), sent, app.mounts) /\ AsideCalls(ReloadFor(mode))
  <1>1. Settings.mount \in 0 .. app.mounts
    BY Mounted DEF Settings, TabNames
  <1>2. ReloadFor(mode) \in {<<>>, << LoadStep(Settings.mount, mode, 1, <<>>) >>}
    BY DEF ReloadFor, SettingsEffect
  <1>3. /\ QueueFits(<< LoadStep(Settings.mount, mode, 1, <<>>) >>, sent, app.mounts)
        /\ AsideCalls(<< LoadStep(Settings.mount, mode, 1, <<>>) >>)
    <2>1. 1 \in 1 .. 10
      OBVIOUS
    <2> QED BY <1>1, <2>1, LoadFits
  <1> QED BY <1>2, <1>3, FewFit, FewAside

\* The write of the permission mode.
LEMMA ModeFits ==
    ASSUME Base, NEW mode
    PROVE  QueueFits(ModeCalls(mode), sent, app.mounts)
  <1> DEFINE x == [key |-> "permission_mode", value |-> mode]
             c == [op |-> "setSetting", x |-> x, k |-> "-", e |-> 0, on |-> AppMount]
  <1>1. ModeCalls(mode) = << c >>
    BY DEF ModeCalls
  <1>2. DOMAIN c = CallFields /\ c.op = "setSetting" /\ c.k = "-" /\ c.on = 0
    BY DEF CallFields, AppMount
  <1> HIDE DEF c
  <1>3. QuietKind(c.k)
    BY <1>2, Quiets DEF QuietNames
  <1>4. KindFits(c)
    BY <1>2, <1>3 DEF KindFits, QuietKind, LoudKinds, SubmitKinds, AppKinds, LaunchKinds, ListKinds,
       ChangeKinds, FileKinds, WindowKinds, TurnKinds
  <1>5. c.on \in 0 .. app.mounts
    <2>1. 0 \in 0 .. app.mounts
      BY DEF Base, AppFits
    <2> QED BY <1>2, <2>1
  <1>6. CallFits(c, sent, app.mounts)
    BY <1>2, <1>3, <1>4, <1>5 DEF CallFits, CallFields, Operations, QuietKind, LoudKinds
  <1> QED BY <1>1, <1>6, FewFit

\* App's own calls carry no mount of a view.
LEMMA ZeroMount == ASSUME Base PROVE 0 \in 0 .. app.mounts
  BY DEF Base, AppFits

\* App changes in an answer.
LEMMA AppAnswering ==
    ASSUME Base, NEW k, Awaited(k), NEW r \in Answers(Head(queue)), NEW calls, Take(r, calls),
           QueueFits(calls, sent, app.mounts), UNCHANGED << tabs, chatVars >>,
           DOMAIN app' = AppFields, app'.mounts = app.mounts, ListFits(app'.servers),
           app'.view = app.view
    PROVE  Base'
  <1>1. queue # <<>>
    BY DEF Awaited
  <1>2. QueueFits(Tail(queue), sent, app.mounts) /\ CallFits(Head(queue), sent, app.mounts)
    BY <1>1, TailFits DEF Base
  <1>3. Reflects(Head(queue), r)
    BY <1>2, Answered
  <1>4. /\ store' = r.store /\ faults' = r.faults /\ queue' = Tail(queue) \o calls
        /\ UNCHANGED << tauri, acts >>
    BY DEF Take
  <1>5. QueueFits(queue', sent', app'.mounts)
    BY <1>2, <1>4, JoinFits DEF chatVars
  <1>6. StoreFits(store', sent') /\ faults' \in 0 .. MaxFaults
    BY <1>3, <1>4 DEF Reflects, chatVars
  <1>7. AppFits'
    BY DEF Base, AppFits
  <1> QED BY <1>4, <1>5, <1>6, <1>7 DEF Base, chatVars

\* Answers to App.
LEMMA AppAnswersBase ==
    ASSUME Base, LaunchServers \/ LaunchMode \/ ServerSaved \/ ServerListed \/ ServerDeleted \/ ServerGone
    PROVE  Base'
  <1> DEFINE c == Head(queue)
  <1>0. DOMAIN app = AppFields /\ app.mounts \in Nat /\ ListFits(app.servers) /\ UNCHANGED << tabs, chatVars >>
    BY DEF Base, AppFits, LaunchServers, LaunchMode, ServerSaved, ServerListed, ServerDeleted, ServerGone
  <1>1. ASSUME NEW k \in ListKinds, Awaited(k), NEW r \in Answers(c)
        PROVE  ListFits(r.val)
    <2>1. CallFits(c, sent, app.mounts) /\ c.k = k
      BY <1>1, Headed
    <2>2. c.op = "listServers"
      BY <1>1, <2>1 DEF CallFits, KindFits
    <2>3. Reflects(c, r)
      BY <1>1, <2>1, Answered
    <2>4. r.val \in {store.core.servers, store.page.servers}
      BY <2>2, <2>3 DEF Reflects, AnswerFits, ToolCalls
    <2> QED BY <2>4 DEF Base, StoreFits, BackendFits
  <1>2. \A servers, active : /\ DOMAIN [app EXCEPT !.servers = servers, !.active = active] = AppFields
                             /\ [app EXCEPT !.servers = servers, !.active = active].mounts = app.mounts
                             /\ [app EXCEPT !.servers = servers, !.active = active].servers = servers
    BY <1>0 DEF AppFields
  <1>3. CASE LaunchServers
    <2>1. Awaited("launch servers")
      BY <1>3 DEF LaunchServers
    <2> DEFINE a(r) == [app EXCEPT !.servers = r.val, !.active = FirstListed(r.val)]
               call == [c EXCEPT !.op = "getSetting", !.x = "permission_mode", !.k = "launch mode"]
    <2>2. PICK r \in Answers(c) : app' = a(r) /\ Take(r, Effects(a(r)) \o << call >>)
      BY <1>3 DEF LaunchServers
    <2>3. ListFits(r.val)
      BY <1>1, <2>1 DEF ListKinds
    <2>4. DOMAIN app' = AppFields /\ app'.mounts = app.mounts /\ app'.view = app.view /\ ListFits(app'.servers)
      BY <1>2, <2>2, <2>3
    <2> HIDE DEF a
    <2>5. DOMAIN c = CallFields /\ c.on = 0
      <3>1. CallFits(c, sent, app.mounts) /\ c.k \in AppKinds
        BY <2>1, Headed DEF AppKinds, LaunchKinds
      <3> QED BY <3>1 DEF CallFits, KindFits, CallFields, AppMount
    <2>6. /\ DOMAIN call = CallFields /\ call.op = "getSetting" /\ call.x = "permission_mode"
          /\ call.k = "launch mode" /\ call.on = 0
      BY <2>5 DEF CallFields
    <2> HIDE DEF call
    <2>7. KindFits(call)
      BY <2>6 DEF KindFits, ListKinds, AppMount
    <2>8. call.op \in Operations /\ call.k \notin TurnKinds \cup SubmitKinds \cup {"chain", "load"}
      BY <2>6 DEF Operations, TurnKinds, SubmitKinds
    <2>9. call.on \in 0 .. app.mounts
      <3>0. app.mounts \in Nat
        BY DEF Base, AppFits
      <3>1. 0 \in 0 .. app.mounts
        BY <3>0
      <3> QED BY <2>6, <3>1
    <2>10. CallFits(call, sent, app.mounts)
      BY <2>6, <2>7, <2>8, <2>9 DEF CallFits, CallFields
    <2>11. QueueFits(Effects(a(r)) \o << call >>, sent, app.mounts)
      BY <2>10, FewFit, FollowsFit, JoinFits
    <2> QED BY <1>0, <2>1, <2>2, <2>4, <2>11, AppAnswering
  <1>4. CASE LaunchMode
    <2>1. Awaited("launch mode")
      BY <1>4 DEF LaunchMode
    <2>2. PICK r \in Answers(c) :
            Take(r, ReloadFor(r.val)) /\ app' = [app EXCEPT !.mode = r.val, !.launched = TRUE]
      BY <1>4 DEF LaunchMode
    <2>3. DOMAIN app' = AppFields /\ app'.mounts = app.mounts /\ app'.view = app.view /\ app'.servers = app.servers
      BY <1>0, <2>2 DEF AppFields
    <2> QED BY <1>0, <2>1, <2>2, <2>3, ReloadFits, AppAnswering
  <1>5. CASE ServerSaved \/ ServerDeleted
    <2>1. PICK k : Awaited(k)
      BY <1>5 DEF ServerSaved, ServerDeleted
    <2>2. PICK kind \in {"server listed", "server gone"} :
            \E r \in Answers(c) : Take(r, << AppCall("listServers", 0, kind, c.e) >>)
      BY <1>5 DEF ServerSaved, ServerDeleted
    <2> DEFINE call == AppCall("listServers", 0, kind, c.e)
    <2>3. PICK r \in Answers(c) : Take(r, << call >>)
      BY <2>2
    <2>4. DOMAIN call = CallFields /\ call.op = "listServers" /\ call.k = kind /\ call.on = 0
      BY DEF AppCall, CallFields, AppMount
    <2> HIDE DEF call
    <2>5. KindFits(call)
      BY <2>2, <2>4 DEF KindFits, ListKinds, AppMount
    <2>6. call.op \in Operations /\ call.k \notin TurnKinds \cup SubmitKinds \cup {"chain", "load"}
      BY <2>2, <2>4 DEF Operations, TurnKinds, SubmitKinds
    <2>7. call.on \in 0 .. app.mounts
      BY <2>4, ZeroMount
    <2>8. CallFits(call, sent, app.mounts)
      BY <2>4, <2>5, <2>6, <2>7 DEF CallFits, CallFields
    <2>9. QueueFits(<< call >>, sent, app.mounts)
      BY <2>8, FewFit
    <2>10. UNCHANGED app
      BY <1>5 DEF ServerSaved, ServerDeleted
    <2> QED BY <1>0, <2>1, <2>3, <2>9, <2>10, AppAnswering
  <1>6. CASE ServerListed
    <2>1. Awaited("server listed")
      BY <1>6 DEF ServerListed
    <2> DEFINE a(r) == [app EXCEPT !.servers = r.val, !.active = c.e]
    <2>2. PICK r \in Answers(c) : app' = a(r) /\ Take(r, Effects(a(r)))
      BY <1>6 DEF ServerListed
    <2>3. ListFits(r.val)
      BY <1>1, <2>1 DEF ListKinds
    <2>4. DOMAIN app' = AppFields /\ app'.mounts = app.mounts /\ app'.view = app.view /\ ListFits(app'.servers)
      BY <1>2, <2>2, <2>3
    <2> HIDE DEF a
    <2> QED BY <1>0, <2>1, <2>2, <2>4, FollowsFit, AppAnswering
  <1>7. CASE ServerGone
    <2>1. Awaited("server gone")
      BY <1>7 DEF ServerGone
    <2> DEFINE a(r) == [app EXCEPT !.servers = r.val,
                   !.active = IF c.e.active = c.e.id THEN FirstListed(r.val) ELSE @]
    <2>2. PICK r \in Answers(c) : app' = a(r) /\ Take(r, Effects(a(r)))
      BY <1>7 DEF ServerGone
    <2>3. ListFits(r.val)
      BY <1>1, <2>1 DEF ListKinds
    <2>4. DOMAIN app' = AppFields /\ app'.mounts = app.mounts /\ app'.view = app.view /\ ListFits(app'.servers)
      BY <1>0, <2>2, <2>3 DEF AppFields
    <2> HIDE DEF a
    <2> QED BY <1>0, <2>1, <2>2, <2>4, FollowsFit, AppAnswering
  <1> QED BY <1>3, <1>4, <1>5, <1>6, <1>7


\* Joining queues is associative.
LEMMA JoinTwo ==
    ASSUME NEW q, NEW a, NEW b, IsSeq(q), IsSeq(a), IsSeq(b)
    PROVE  q \o a \o b = q \o (a \o b)
  <1> DEFINE S == ToSet(q) \cup ToSet(a) \cup ToSet(b)
  <1>1. q \in Seq(S) /\ a \in Seq(S) /\ b \in Seq(S)
    BY SeqOfOwn
  <1> HIDE DEF S
  <1> QED BY <1>1

\* App's mode is written, and the settings follow it.
LEMMA AppActing ==
    ASSUME Base, Act, UNCHANGED << tauri, store, faults, chatVars >>,
           DOMAIN app' = AppFields, app'.mounts = app.mounts, ListFits(app'.servers),
           app'.view = app.view,
           NEW calls, QueueFits(calls, sent, app.mounts), queue' = queue \o calls,
           TabsFit(tabs', app.mounts)
    PROVE  Base'
  <1>1. acts' \in 0 .. MaxActs
    BY DesktopAssumption DEF Base, Act
  <1>2. QueueFits(queue', sent', app'.mounts)
    BY JoinFits DEF Base, chatVars
  <1>3. AppFits'
    BY DEF Base, AppFits
  <1>4. StoreFits(store', sent') /\ IsSeq(sent') /\ tauri' \in BOOLEAN /\ faults' \in 0 .. MaxFaults
    BY DEF Base, chatVars
  <1>5. \A turn \in away' : TurnFits(turn, sent', app'.mounts)
    BY DEF Base, chatVars
  <1> QED BY <1>1, <1>2, <1>3, <1>4, <1>5 DEF Base

\* A change of the mode changes nothing else of App the invariant sees.
LEMMA WithModeFits ==
    ASSUME Base, NEW mode, app' = WithMode(mode)
    PROVE  DOMAIN app' = AppFields /\ app'.mounts = app.mounts /\ app'.servers = app.servers
           /\ app'.active = app.active /\ app'.mode = mode /\ app'.view = app.view /\ ListFits(app'.servers)
  BY DEF Base, AppFits, AppFields, WithMode

\* Calls of which the first writes the mode, and no other does.
ModeQueue(q, mode) ==
    /\ IsSeq(q) /\ 1 \in DOMAIN q /\ ModeWrite(q[1]) /\ q[1].x.value = mode
    /\ \A i \in DOMAIN q : q[i].k \notin LoudKinds /\ q[i].op \notin WindowOps
    /\ \A i \in DOMAIN q : i # 1 => ~ModeWrite(q[i])

\* A step that writes the mode App shows.
ModeStep ==
    /\ UNCHANGED << tauri, store, faults >>
    /\ tabs'["Files"] = tabs["Files"] /\ tabs'["Servers"] = tabs["Servers"]
    /\ app' = WithMode(app'.mode) \/ app' = app
    /\ \E calls : ModeQueue(calls, app'.mode) /\ queue' = queue \o calls

\* Handlers that write the mode go on with calls that do not.
LEMMA ModeJoins ==
    ASSUME NEW q, NEW mode, ModeQueue(q, mode), NEW a, AsideCalls(a)
    PROVE  ModeQueue(q \o a, mode)
  <1>1. IsSeq(q) /\ IsSeq(a)
    BY DEF ModeQueue, AsideCalls
  <1> DEFINE new == q \o a
  <1>2. /\ IsSeq(new) /\ Len(new) = Len(q) + Len(a)
        /\ \A i \in DOMAIN new : \/ i \in DOMAIN q /\ new[i] = q[i]
                                 \/ i - Len(q) \in DOMAIN a /\ new[i] = a[i - Len(q)]
    BY <1>1, JoinSeq
  <1> HIDE DEF new
  <1>3. /\ Len(q) \in Nat /\ Len(a) \in Nat /\ DOMAIN q = 1 .. Len(q) /\ DOMAIN a = 1 .. Len(a)
        /\ DOMAIN new = 1 .. Len(new)
    BY <1>1, <1>2, SeqOfOwn DEF IsSeq
  <1>4. 1 \in DOMAIN q
    BY DEF ModeQueue
  <1>5. 1 \in DOMAIN new /\ 1 - Len(q) \notin DOMAIN a
    BY <1>2, <1>3, <1>4
  <1>6. new[1] = q[1]
    BY <1>2, <1>5
  <1>7. ModeQueue(new, mode)
    BY <1>2, <1>5, <1>6 DEF ModeQueue, AsideCalls, Aside
  <1> QED BY <1>7 DEF new

\* The write itself.
LEMMA ModeCallsAre ==
    ASSUME NEW mode
    PROVE  ModeQueue(ModeCalls(mode), mode)
  <1> DEFINE x == [key |-> "permission_mode", value |-> mode]
             c == [op |-> "setSetting", x |-> x, k |-> "-", e |-> 0, on |-> AppMount]
  <1>1. ModeCalls(mode) = << c >>
    BY DEF ModeCalls
  <1>2. ModeWrite(c) /\ c.x.value = mode /\ c.k \notin LoudKinds /\ c.op \notin WindowOps
    BY Quiets DEF ModeWrite, WindowOps, QuietNames
  <1> HIDE DEF c
  <1>3. ModeQueue(<< c >>, mode)
    BY <1>2, FewSeq DEF ModeQueue
  <1> QED BY <1>1, <1>3

\* Changing the mode, in the header and in the settings.
LEMMA ModesBase ==
    ASSUME Base, UNCHANGED chatVars,
           \/ \E mode \in Modes : ChangeMode(mode) \/ SwitchMode(mode)
           \/ RevokeFullAccess
    PROVE  Base' /\ ModeStep
  <1>0. Settings.mount \in 0 .. app.mounts /\ TabsFit(tabs, app.mounts)
    BY Mounted DEF Settings, TabNames, Base
  <1>1. ASSUME NEW mode, NEW after, QueueFits(after, sent, app.mounts), AsideCalls(after), SettingsMode(mode, after)
        PROVE  Base' /\ ModeStep
    <2>1. QueueFits(ModeCalls(mode) \o after \o ReloadFor(mode), sent, app.mounts)
      BY <1>1, ModeFits, ReloadFits, JoinFits
    <2> DEFINE m == ModeCalls(mode)
               load == ReloadFor(mode)
    <2>2. IsSeq(queue) /\ IsSeq(m) /\ IsSeq(after) /\ IsSeq(load)
      BY <1>1, ModeFits, ReloadFits DEF Base, QueueFits
    <2>3. queue' = queue \o m \o after \o load
      BY <1>1 DEF SettingsMode
    <2> HIDE DEF m, load
    <2>4. queue' = queue \o (m \o after \o load)
      <3> DEFINE S == ToSet(queue) \cup ToSet(m) \cup ToSet(after) \cup ToSet(load)
      <3>1. queue \in Seq(S) /\ m \in Seq(S) /\ after \in Seq(S) /\ load \in Seq(S)
        BY <2>2, SeqOfOwn
      <3> HIDE DEF S
      <3>2. queue \o m \o after \o load = queue \o (m \o after \o load)
        BY <3>1
      <3> QED BY <2>3, <3>2
    <2>5. queue' = queue \o (ModeCalls(mode) \o after \o ReloadFor(mode))
      BY <2>4 DEF m, load
    <2>6. ModeQueue(ModeCalls(mode) \o after \o ReloadFor(mode), mode)
      BY <1>1, ReloadFits, ModeCallsAre, ModeJoins
    <2>7. app' = WithMode(mode) /\ UNCHANGED << tauri, store, faults, tabs >>
      BY <1>1 DEF SettingsMode
    <2>8. ModeStep
      BY <2>5, <2>6, <2>7, WithModeFits DEF ModeStep
    <2>9. Base'
      BY <1>0, <1>1, <2>1, <2>5, WithModeFits, AppActing DEF SettingsMode
    <2> QED BY <2>8, <2>9
  <1>2. ASSUME NEW mode, ChangeMode(mode)
        PROVE  Base' /\ ModeStep
    <2>1. QueueFits(ModeCalls(mode) \o ReloadFor(mode), sent, app.mounts)
      BY ModeFits, ReloadFits, JoinFits
    <2>2. queue' = queue \o (ModeCalls(mode) \o ReloadFor(mode))
      <3>1. IsSeq(queue) /\ IsSeq(ModeCalls(mode)) /\ IsSeq(ReloadFor(mode))
        BY ModeFits, ReloadFits DEF Base, QueueFits
      <3>2. queue' = queue \o ModeCalls(mode) \o ReloadFor(mode)
        BY <1>2 DEF ChangeMode
      <3> QED BY <3>1, <3>2, JoinTwo
    <2>3. ModeQueue(ModeCalls(mode) \o ReloadFor(mode), mode)
      BY ReloadFits, ModeCallsAre, ModeJoins
    <2>4. app' = WithMode(mode) /\ UNCHANGED << tauri, store, faults, tabs >>
      BY <1>2 DEF ChangeMode
    <2>5. ModeStep
      BY <2>2, <2>3, <2>4, WithModeFits DEF ModeStep
    <2>6. Base'
      BY <1>0, <1>2, <2>1, <2>2, WithModeFits, AppActing DEF ChangeMode
    <2> QED BY <2>5, <2>6
  <1>3. ASSUME NEW mode, SwitchMode(mode)
        PROVE  Base' /\ ModeStep
    <2> DEFINE c == ExpiryCall(Expires(mode, Settings.minutes))
    <2>1. Plain(c, app.mounts)
      BY SettingsNames, CallPlain DEF ExpiryCall, SettingsCall, SettingsOps, SettingsKinds, TabNames
    <2>2. QueueFits(<< c >>, sent, app.mounts) /\ AsideCalls(<< c >>)
      BY <2>1, PlainFits, FewFit, FewAside
    <2> QED BY <1>1, <1>3, <2>2 DEF SwitchMode
  <1>4. ASSUME RevokeFullAccess
        PROVE  Base' /\ ModeStep
    <2> DEFINE todo == << << "safetySetFullAccessExpiry", 0 >>,
                          << "safetyGetFullAccessStatus", app.mode >> >>
    <2>1. StepsFit(todo)
      <3>1. StepFits(<< "safetySetFullAccessExpiry", 0 >>)
        BY DEF StepFits, ChainOps
      <3>2. StepFits(<< "safetyGetFullAccessStatus", app.mode >>)
        BY DEF StepFits, ChainOps
      <3> QED BY <3>1, <3>2, FewSteps
    <2> HIDE DEF todo
    <2>2. QueueFits(Chain(Settings.mount, todo), sent, app.mounts) /\ AsideCalls(Chain(Settings.mount, todo))
      BY <1>0, <2>1, ChainFits
    <2>3. SettingsMode("SAFE_AUTOMATION", Chain(Settings.mount, todo))
      BY <1>4 DEF RevokeFullAccess, todo
    <2> QED BY <1>1, <2>2, <2>3
  <1> QED BY <1>2, <1>3, <1>4


\* The Save button of the settings, which also writes the mode.
LEMMA SaveAllBase ==
    ASSUME Base, SaveAll, UNCHANGED chatVars
    PROVE  Base' /\ ModeStep
  <1> DEFINE later == ConfigWrites(Settings.form) \o
                      << << "getSetting", "privacy_settings" >>,
                         Write("privacy_settings", Settings.privacy),
                         Write("ssh_host_key_checking", Settings.hostKeys) >>
             first == Write("permission_mode", app.mode)
  <1>1. Settings.mount \in 0 .. app.mounts
    BY Mounted DEF Settings, TabNames
  <1>2. StepsFit(later)
    <2>1. StepFits(<< "getSetting", "privacy_settings" >>)
      BY DEF StepFits, ChainOps
    <2>2. /\ StepFits(Write("privacy_settings", Settings.privacy))
          /\ StepFits(Write("ssh_host_key_checking", Settings.hostKeys))
      BY WritesFit
    <2> QED BY <2>1, <2>2, FewSteps, JoinSteps, ConfigSteps
  <1>3. first[1] \in ChainOps
    BY DEF Write, ChainOps
  <1>4. Does("Settings", Settings, Chain(Settings.mount, << first >> \o later))
    <2>1. IsSeq(<< first >>) /\ IsSeq(ConfigWrites(Settings.form))
      BY FewSeq, ConfigSteps DEF StepsFit
    <2> DEFINE last == << << "getSetting", "privacy_settings" >>,
                          Write("privacy_settings", Settings.privacy),
                          Write("ssh_host_key_checking", Settings.hostKeys) >>
               form == ConfigWrites(Settings.form)
    <2>2. IsSeq(last)
      BY FewSeq
    <2>3. Does("Settings", Settings, Chain(Settings.mount, << first >> \o form \o last))
      BY DEF SaveAll, SettingsDoes
    <2> HIDE DEF last, form, first
    <2>4. << first >> \o form \o last = << first >> \o (form \o last)
      BY <2>1, <2>2, JoinTwo DEF form
    <2> QED BY <2>3, <2>4 DEF last, form
  <1> HIDE DEF first, later
  <1>5. /\ IsSeq(<< first >> \o later) /\ << first >> \o later # <<>>
        /\ Head(<< first >> \o later) = first /\ Tail(<< first >> \o later) = later
    <2> DEFINE S == {first} \cup ToSet(later)
    <2>1. << first >> \in Seq(S) /\ later \in Seq(S)
      BY <1>2, SeqOfOwn DEF StepsFit
    <2> HIDE DEF S
    <2>2. << first >> \o later \in Seq(S)
      BY <2>1
    <2>3. IsSeq(<< first >> \o later)
      BY <2>2, OwnSeq
    <2>4. Len(<< first >> \o later) = 1 + Len(later) /\ Len(later) \in Nat
      BY <2>1
    <2>5. << first >> \o later # <<>>
      BY <2>4
    <2>6. Head(<< first >> \o later) = first
      BY <2>1
    <2>7. Tail(<< first >> \o later) = later
      BY <2>1
    <2> QED BY <2>3, <2>5, <2>6, <2>7
  <1>6. QueueFits(Chain(Settings.mount, << first >> \o later), sent, app.mounts)
    BY <1>1, <1>2, <1>3, <1>5, LinkFits
  <1>7. Keeps("Settings", Settings)
    BY Mounted DEF Keeps, Settings, TabNames
  <1>8. Base'
    BY <1>4, <1>6, <1>7, Doing DEF TabNames, chatVars
  <1>9. ModeQueue(Chain(Settings.mount, << first >> \o later), app.mode)
    <2> DEFINE c == [op |-> first[1], x |-> first[2], k |-> "chain", e |-> later, on |-> Settings.mount]
    <2>1. Chain(Settings.mount, << first >> \o later) = << c >>
      BY <1>5 DEF Chain
    <2>2. ModeWrite(c) /\ c.x.value = app.mode /\ c.k \notin LoudKinds /\ c.op \notin WindowOps
      BY Loudly DEF ModeWrite, WindowOps, Write, first
    <2> HIDE DEF c
    <2>3. ModeQueue(<< c >>, app.mode)
      BY <2>2, FewSeq DEF ModeQueue
    <2> QED BY <2>1, <2>3
  <1>10. ModeStep
    <2>1. /\ UNCHANGED << tauri, store, faults, app >>
          /\ queue' = queue \o Chain(Settings.mount, << first >> \o later)
          /\ tabs' = [tabs EXCEPT !["Settings"] = Settings]
      BY <1>4 DEF Does
    <2>2. tabs'["Files"] = tabs["Files"] /\ tabs'["Servers"] = tabs["Servers"]
      BY <2>1, Mounted DEF Base, TabsFit, TabNames
    <2> QED BY <1>9, <2>1, <2>2 DEF ModeStep
  <1> QED BY <1>8, <1>10

\* Another server is made active in the header.
LEMMA SelectServerBase ==
    ASSUME Base, NEW s, SelectServer(s)
    PROVE  Base'
  <1>1. /\ Act /\ app' = [app EXCEPT !.active = s] /\ UNCHANGED << tauri, store, faults, chatVars >>
        /\ queue' = queue \o Effects([app EXCEPT !.active = s])
        /\ tabs' = IF Open("Files") THEN [tabs EXCEPT !["Files"].rush = Rushed] ELSE tabs
    BY DEF SelectServer
  <1>2. /\ DOMAIN app' = AppFields /\ app'.mounts = app.mounts /\ ListFits(app'.servers)
        /\ app'.view = app.view
    BY <1>1 DEF Base, AppFits, AppFields
  <1>3. QueueFits(Effects([app EXCEPT !.active = s]), sent, app.mounts)
    BY FollowsFit
  <1>4. TabsFit(tabs', app.mounts)
    <2> DEFINE new == [Files EXCEPT !.rush = Rushed]
    <2>1. TabsFit(tabs, app.mounts) /\ Keeps("Files", new)
      BY Mounted DEF Base, Keeps, Files, TabNames
    <2>2. tabs' = [tabs EXCEPT !["Files"] = new] \/ tabs' = tabs
      BY <1>1 DEF Files
    <2> QED BY <2>1, <2>2, KeptTabs DEF TabNames
  <1> QED BY <1>1, <1>2, <1>3, <1>4, AppActing

-----------------------------------------------------------------------------
(* Mounting *)

\* A view just mounted has its number.
LEMMA FreshFits ==
    ASSUME NEW v \in TabNames, NEW n
    PROVE  "mount" \in DOMAIN Fresh(v, n) /\ Fresh(v, n).mount = n
  BY DEF Fresh, TabNames, FreshChat, FreshFiles, FreshTerminal, FreshSettings, FreshServers, FreshActivity

\* What a view asks for when it is mounted.
LEMMA EffectFits ==
    ASSUME NEW v \in TabNames, NEW hist, NEW n, NEW mount \in 0 .. n
    PROVE  QueueFits(Effect(v, mount), hist, n)
  BY EffectsFit DEF Effect, TabNames

\* The page is laid out anew with numbers counted so far.
LEMMA MountingFits ==
    ASSUME NEW number, NEW effects, Mounting(number, effects), NEW n \in Nat,
           \A v \in DOMAIN number : number[v] \in 0 .. n
    PROVE  TabsFit(tabs', n) /\ queue' = queue \o effects
  <1>1. 0 \in 0 .. n
    OBVIOUS
  <1>2. tabs' = [v \in TabNames |-> IF v \in DOMAIN number THEN Fresh(v, number[v]) ELSE NotMounted]
    BY DEF Mounting
  <1>3. ASSUME NEW v \in TabNames
        PROVE  TabFits(tabs'[v], n)
    <2>1. CASE v \in DOMAIN number
      BY <1>2, <2>1, FreshFits DEF TabFits
    <2>2. CASE v \notin DOMAIN number
      BY <1>1, <1>2, <2>2 DEF TabFits, NotMounted
    <2> QED BY <2>1, <2>2
  <1> QED BY <1>2, <1>3 DEF TabsFit, Mounting

\* The page is laid out anew, with more mounts counted.
LEMMA Remounting ==
    ASSUME Base, NEW n \in Nat, app.mounts <= n, DOMAIN app' = AppFields, app'.view \in TabNames, app'.mounts = n,
           app'.servers = app.servers, UNCHANGED << tauri, store, faults, chatVars >>,
           acts' \in 0 .. MaxActs, NEW calls, QueueFits(calls, sent, n), queue' = queue \o calls,
           TabsFit(tabs', n)
    PROVE  Base'
  <1>1. app.mounts \in Nat /\ Extends(sent, sent)
    BY DEF Base, AppFits, Extends
  <1>2. QueueFits(queue, sent, n)
    BY <1>1, QueueGrows DEF Base
  <1>3. QueueFits(queue', sent', app'.mounts)
    BY <1>2, JoinFits DEF chatVars
  <1>4. ASSUME NEW turn \in away'
        PROVE  TurnFits(turn, sent', app'.mounts)
    <2>1. TurnFits(turn, sent, app.mounts)
      BY <1>4 DEF Base, chatVars
    <2>2. turn.mount \in 0 .. app.mounts => turn.mount \in 0 .. n
      BY <1>1
    <2> QED BY <2>1, <2>2 DEF TurnFits, chatVars
  <1>5. AppFits'
    BY DEF Base, AppFits
  <1> QED BY <1>3, <1>4, <1>5 DEF Base, chatVars

\* One view alone.
LEMMA AloneFits ==
    ASSUME Base, NEW v \in TabNames, Alone(v)
    PROVE  /\ app.mounts + 1 \in Nat /\ TabsFit(tabs', app.mounts + 1)
           /\ QueueFits(Effect(v, app.mounts + 1), sent, app.mounts + 1)
           /\ queue' = queue \o Effect(v, app.mounts + 1)
  <1>1. app.mounts \in Nat
    BY DEF Base, AppFits
  <1>2. app.mounts + 1 \in Nat /\ app.mounts + 1 \in 0 .. app.mounts + 1
    BY <1>1
  <1>3. Mounting([u \in {v} |-> app.mounts + 1], Effect(v, app.mounts + 1))
    BY DEF Alone
  <1> DEFINE n == app.mounts + 1
  <1>4. \A w \in DOMAIN [u \in {v} |-> n] : [u \in {v} |-> n][w] = n
    OBVIOUS
  <1> HIDE DEF n
  <1>5. n \in Nat /\ n \in 0 .. n
    BY <1>2 DEF n
  <1>6. Mounting([u \in {v} |-> n], Effect(v, n))
    BY <1>3 DEF n
  <1>7. TabsFit(tabs', n) /\ queue' = queue \o Effect(v, n)
    BY <1>4, <1>5, <1>6, MountingFits
  <1>8. QueueFits(Effect(v, n), sent, n)
    BY <1>5, EffectFits
  <1> QED BY <1>5, <1>7, <1>8 DEF n

\* The chat beside the terminal.
LEMMA BesideFits ==
    ASSUME Base, Beside
    PROVE  \E calls : /\ QueueFits(calls, sent, app.mounts + 2) /\ queue' = queue \o calls
                      /\ TabsFit(tabs', app.mounts + 2)
  <1>1. app.mounts \in Nat
    BY DEF Base, AppFits
  <1> DEFINE m == app.mounts + 1
             n == m + 1
             number == [u \in {"Chat", "Terminal"} |-> IF u = "Chat" THEN m ELSE n]
             calls == Effect("Chat", m) \o Effect("Terminal", n)
  <1>2. Mounting(number, calls)
    BY DEF Beside
  <1>3. n = app.mounts + 2 /\ n \in Nat /\ m \in 0 .. n /\ n \in 0 .. n
    BY <1>1
  <1>4. \A v \in DOMAIN number : number[v] \in {m, n}
    OBVIOUS
  <1> HIDE DEF m, n, number
  <1>5. QueueFits(Effect("Chat", m), sent, n) /\ QueueFits(Effect("Terminal", n), sent, n)
    BY <1>3, EffectFits DEF TabNames
  <1>6. QueueFits(calls, sent, n)
    BY <1>5, JoinFits
  <1> HIDE DEF calls
  <1>7. TabsFit(tabs', n) /\ queue' = queue \o calls
    BY <1>2, <1>3, <1>4, MountingFits
  <1> QED BY <1>3, <1>6, <1>7


\* Navigation, and the button that splits the page.
LEMMA MountsBase ==
    ASSUME Base, ToggleSplit \/ \E v \in TabNames : SelectView(v)
    PROVE  Base'
  <1>0. app.mounts \in Nat /\ DOMAIN app = AppFields /\ app.view \in TabNames
    BY DEF Base, AppFits
  <1>1. ASSUME NEW v \in TabNames, SelectView(v)
        PROVE  Base'
    <2>1. UNCHANGED << tauri, store, faults, chatVars >>
      BY <1>1 DEF SelectView
    <2>2. CASE app.split
      <3>1. app' = [app EXCEPT !.view = v] /\ UNCHANGED << tabs, queue, acts >>
        BY <1>1, <2>2 DEF SelectView
      <3>2. AppFits' /\ app'.mounts = app.mounts
        BY <3>1 DEF Base, AppFits, AppFields
      <3> QED BY <2>1, <3>1, <3>2 DEF Base, chatVars
    <2>3. CASE ~app.split
      <3>1. /\ app' = [app EXCEPT !.view = v, !.mounts = @ + 1]
            /\ acts' = Min({acts, Patience[v]}) /\ Alone(v)
        BY <1>1, <2>3 DEF SelectView
      <3>2. acts' \in 0 .. MaxActs
        <4>1. acts \in Nat /\ acts <= MaxActs /\ Patience[v] \in Nat /\ MaxActs \in Nat
          BY DesktopAssumption, DesktopViews DEF Base
        <4>2. acts' = CHOOSE x \in {acts, Patience[v]} : \A y \in {acts, Patience[v]} : x <= y
          BY <3>1 DEF Min
        <4>3. \E x \in {acts, Patience[v]} : \A y \in {acts, Patience[v]} : x <= y
          BY <4>1
        <4>4. acts' \in {acts, Patience[v]} /\ acts' <= acts
          BY <4>2, <4>3
        <4> QED BY <4>1, <4>4
      <3>3. /\ DOMAIN app' = AppFields /\ app'.mounts = app.mounts + 1
            /\ app'.servers = app.servers /\ app'.view \in TabNames
        BY <1>0, <3>1 DEF AppFields
      <3>4. app.mounts <= app.mounts + 1
        BY <1>0
      <3> HIDE <2>3
      <3> QED BY <2>1, <3>1, <3>2, <3>3, <3>4, AloneFits, Remounting
    <2> QED BY <2>2, <2>3
  <1>2. ASSUME ToggleSplit
        PROVE  Base'
    <2>1. /\ UNCHANGED << tauri, store, faults, chatVars >> /\ Act
          /\ app' = [app EXCEPT !.split = ~@, !.mounts = @ + IF app.split THEN 1 ELSE 2]
          /\ IF app.split THEN Alone(app.view) ELSE Beside
      BY <1>2 DEF ToggleSplit
    <2>2. acts' \in 0 .. MaxActs
      BY <2>1, DesktopAssumption DEF Base, Act
    <2>3. CASE app.split
      <3>1. /\ DOMAIN app' = AppFields /\ app'.mounts = app.mounts + 1
            /\ app'.servers = app.servers /\ app'.view \in TabNames
        BY <1>0, <2>1, <2>3 DEF AppFields
      <3>2. app.view \in TabNames
        BY DEF Base, AppFits
      <3>3. app.mounts <= app.mounts + 1
        BY <1>0
      <3> QED BY <2>1, <2>2, <2>3, <3>1, <3>2, <3>3, AloneFits, Remounting
    <2>4. CASE ~app.split
      <3>1. /\ DOMAIN app' = AppFields /\ app'.mounts = app.mounts + 2
            /\ app'.servers = app.servers /\ app'.view \in TabNames
        BY <1>0, <2>1, <2>4 DEF AppFields
      <3>2. PICK calls : /\ QueueFits(calls, sent, app.mounts + 2) /\ queue' = queue \o calls
                         /\ TabsFit(tabs', app.mounts + 2)
        BY <2>1, <2>4, BesideFits
      <3>3. app.mounts <= app.mounts + 2 /\ app.mounts + 2 \in Nat
        BY <1>0
      <3> QED BY <2>1, <2>2, <3>1, <3>2, <3>3, Remounting
    <2> QED BY <2>3, <2>4
  <1> QED BY <1>1, <1>2


-----------------------------------------------------------------------------
(* The invariant *)

\* What is stored at launch fits.
LEMMA StoredFit ==
    ListFits([s \in Stored |-> Profiles[s]]) /\ "permission_mode" \in DOMAIN InitialSettings
  <1>1. ListFits([s \in Stored |-> Profiles[s]])
    BY DesktopAssumption, ReferencesAssumption DEF ListFits, ProfileFits
  <1>2. "permission_mode" \in DOMAIN InitialSettings
    BY DEF InitialSettings
  <1> QED BY <1>1, <1>2

\* The invariant holds at launch.
LEMMA BaseInit == Init => Base
  <1> SUFFICES ASSUME Init PROVE Base
    OBVIOUS
  <1>1. /\ tauri \in BOOLEAN /\ store = StoreInit /\ faults = MaxFaults /\ app = App
        /\ tabs = [v \in TabNames |-> IF v = "Chat" THEN FreshChat(1) ELSE NotMounted]
        /\ queue = ChatEffect(1, NoServer) \o << AppCall("listServers", 0, "launch servers", 0) >>
        /\ acts = MaxActs /\ sent = <<>> /\ away = {}
    BY DEF Init, ChatInit
  <1>2. faults \in 0 .. MaxFaults /\ acts \in 0 .. MaxActs
    <2>1. MaxFaults \in Nat /\ MaxActs \in Nat
      BY DesktopAssumption
    <2>2. faults = MaxFaults /\ acts = MaxActs
      BY <1>1
    <2>3. MaxFaults \in 0 .. MaxFaults /\ MaxActs \in 0 .. MaxActs
      BY <2>1
    <2> QED BY <2>2, <2>3
  <1>3. IsSeq(sent)
    BY <1>1, FewSeq
  <1>4. StoreFits(store, sent)
    <2>1. store = StoreInit
      BY <1>1
    <2>2. DOMAIN StoreInit = {"core", "page", "faked"} /\ StoreInit.faked = {}
      BY DEF StoreInit
    <2>3. ASSUME NEW b \in {StoreInit.core, StoreInit.page}
          PROVE  BackendFits(b, <<>>)
      <3>1. /\ DOMAIN b = BackendFields /\ b.servers = [s \in Stored |-> Profiles[s]]
            /\ b.settings = InitialSettings /\ b.msgs = {}
        BY <2>3 DEF StoreInit, Backend, BackendFields
      <3> QED BY <3>1, StoredFit DEF BackendFits
    <2>4. StoreFits(StoreInit, <<>>)
      BY <2>2, <2>3 DEF StoreFits
    <2> QED BY <1>1, <2>1, <2>4
  <1>5. AppFits /\ app.mounts = 1
    <2>1. DOMAIN <<>> = {}
      BY FewSeq
    <2>2. ListFits(<<>>)
      BY <2>1 DEF ListFits
    <2> QED BY <1>1, <2>2 DEF App, AppFits, AppFields, TabNames
  <1>6. TabsFit(tabs, app.mounts)
    <2>1. 0 \in 0 .. 1 /\ 1 \in 0 .. 1
      OBVIOUS
    <2> QED BY <1>1, <1>5, <2>1 DEF TabsFit, TabFits, FreshChat, NotMounted
  <1>7. QueueFits(queue, sent, app.mounts)
    <2> DEFINE call == AppCall("listServers", 0, "launch servers", 0)
    <2>1. 1 \in 0 .. 1 /\ 0 \in 0 .. 1
      OBVIOUS
    <2>2. QueueFits(ChatEffect(1, NoServer), sent, 1)
      BY <2>1, EffectsFit
    <2>3. DOMAIN call = CallFields /\ call.op = "listServers" /\ call.k = "launch servers" /\ call.on = 0
      BY DEF AppCall, CallFields, AppMount
    <2> HIDE DEF call
    <2>4. KindFits(call)
      BY <2>3 DEF KindFits, ListKinds, AppMount
    <2>5. call.op \in Operations /\ call.k \notin TurnKinds \cup SubmitKinds \cup {"chain", "load"}
      BY <2>3 DEF Operations, TurnKinds, SubmitKinds
    <2>6. CallFits(call, sent, 1)
      BY <2>1, <2>3, <2>4, <2>5 DEF CallFits, CallFields
    <2>7. QueueFits(<< call >>, sent, 1)
      BY <2>6, FewFit
    <2>8. queue = ChatEffect(1, NoServer) \o << call >>
      BY <1>1 DEF call
    <2> QED BY <1>5, <2>2, <2>7, <2>8, JoinFits
  <1> QED BY <1>1, <1>2, <1>3, <1>4, <1>5, <1>6, <1>7 DEF Base

\* Every step of the operator, of the bridge and of the environment keeps it.
LEMMA BaseStep == Base /\ [Next]_vars => Base'
  <1> SUFFICES ASSUME Base, [Next]_vars PROVE Base'
    OBVIOUS
  <1>1. CASE Operator
    <2>1. CASE \E s \in ServerIds : SelectServer(s)
      BY <2>1, SelectServerBase
    <2>2. CASE \E mode \in Modes : ChangeMode(mode)
      <3>1. \E mode \in Modes : ChangeMode(mode)
        BY <2>2
      <3>2. UNCHANGED chatVars
        BY <2>2 DEF ChangeMode
      <3> QED BY <3>1, <3>2, ModesBase
    <2>3. CASE ChatOperator
      BY <2>3, ChatActs, SendActs DEF ChatOperator
    <2>4. CASE FilesOperator /\ UNCHANGED chatVars
      BY <2>4, FilesBase
    <2>5. CASE TerminalOperator /\ UNCHANGED chatVars
      BY <2>5, TerminalActs
    <2>6. CASE SettingsOperator /\ UNCHANGED chatVars
      BY <2>6, SettingsActs, ModesBase, SaveAllBase DEF SettingsOperator
    <2>7. CASE ServersOperator /\ UNCHANGED chatVars
      BY <2>7, ServersBase
    <2>8. CASE ActivityOperator /\ UNCHANGED chatVars
      BY <2>8, ActivityActs
    <2>9. CASE ToggleSplit \/ \E v \in TabNames : SelectView(v)
      BY <2>9, MountsBase
    <2> QED BY <1>1, <2>1, <2>2, <2>3, <2>4, <2>5, <2>6, <2>7, <2>8, <2>9 DEF Operator
  <1>2. CASE Answer
    <2>1. CASE LaunchServers \/ LaunchMode \/ ServerSaved \/ ServerListed \/ ServerDeleted \/ ServerGone
      BY <2>1, AppAnswersBase
    <2>2. CASE ChatAnswer
      <3>1. CASE PendingShown \/ ConversationsListed \/ ConversationLoaded \/ ConversationDeleted
        BY <3>1, ChatAnswers
      <3>2. CASE Configured \/ PrivacyRead \/ KeyResolved \/ ToolAnswered
        BY <3>2, TurnSteps
      <3>3. CASE WordsStored
        BY <3>3, WordsKept
      <3>4. CASE Approved \/ Rejected
        BY <3>4, DecisionSteps
      <3> QED BY <2>2, <3>1, <3>2, <3>3, <3>4 DEF ChatAnswer
    <2>3. CASE SettingsAnswer /\ UNCHANGED chatVars
      BY <2>3, SettingsAnswers
    <2>4. CASE Unwatched /\ UNCHANGED chatVars
      BY <2>4, WordsKept
    <2>5. CASE FilesAnswer /\ UNCHANGED chatVars
      BY <2>5, FilesAnswersBase
    <2>6. CASE TerminalAnswer /\ UNCHANGED chatVars
      BY <2>6, TerminalAnswers
    <2>7. CASE ServersAnswer /\ UNCHANGED chatVars
      BY <2>7, ServersAnswersBase
    <2>8. CASE ActivityAnswer /\ UNCHANGED chatVars
      BY <2>8, ActivityAnswers
    <2> QED BY <1>2, <2>1, <2>2, <2>3, <2>4, <2>5, <2>6, <2>7, <2>8 DEF Answer
  <1>3. CASE Environment
    BY <1>3, ProviderSteps, TerminalMoves, SettingsMoves DEF Environment
  <1>4. CASE UNCHANGED vars
    <2>1. UNCHANGED << tauri, store, faults, queue, app, tabs, acts, sent, away >>
      BY <1>4 DEF vars, coreVars, chatVars
    <2> QED BY <2>1 DEF Base, AppFits
  <1> QED BY <1>1, <1>2, <1>3, <1>4 DEF Next

\* In every behaviour each closure, whatever happens while its call is under
\* way, holds what its handler relies on, and so do the two backends.
THEOREM DesktopInvariance == Spec => []Base
  BY BaseInit, BaseStep, PTL DEF Spec

\* Type correctness of the desktop interface: the calls in flight, the views
\* and App (TypeOK).
THEOREM TypesHold == Spec => []TypeOK
  <1>1. Base => TypeOK
    <2> SUFFICES ASSUME Base PROVE TypeOK
      OBVIOUS
    <2>1. \A i \in DOMAIN queue : CallFits(queue[i], sent, app.mounts)
      BY DEF Base, QueueFits
    <2>2. \A i \in DOMAIN queue : DOMAIN queue[i] = {"op", "x", "k", "e", "on"} /\ queue[i].on \in 0 .. app.mounts
      BY <2>1 DEF CallFits
    <2>3. \A turn \in away : turn.n \in DOMAIN sent
      BY DEF Base, TurnFits
    <2>4. DOMAIN tabs = TabNames /\ \A v \in TabNames : tabs[v].mount \in 0 .. app.mounts
      BY DEF Base, TabsFit, TabFits
    <2>5. DOMAIN app.servers \subseteq ServerIds
      BY DEF Base, AppFits, ListFits
    <2> QED BY <2>2, <2>3, <2>4, <2>5 DEF Base, TypeOK
  <1> QED BY <1>1, DesktopInvariance, PTL

\* What the assistant says is stored in the conversation its prompt was sent
\* in, in the core and in the page's own store (runAiToolLoop).
THEOREM AnswersGoHome == Spec => []RepliesGoHome
  <1>1. Base => RepliesGoHome
    BY DEF Base, StoreFits, BackendFits, MessageFits, RepliesGoHome
  <1> QED BY <1>1, DesktopInvariance, PTL

\* A tool called without a server acts on the one that was active when the
\* prompt was sent (the executor of a turn).
THEOREM ToolsAreOnChosen == Spec => []ToolsOnChosenServer
  <1>1. Base => ToolsOnChosenServer
    BY DEF Base, QueueFits, CallFits, RequestFits, ToolsOnChosenServer
  <1> QED BY <1>1, DesktopInvariance, PTL

\* A stored profile refers to its own server's password or to what was stored
\* at launch, and one that logs in by password refers to something
\* (handleSubmit).
THEOREM CredentialsFollow == Spec => []CredentialFollowsForm
  <1>1. Base => CredentialFollowsForm
    BY DEF Base, StoreFits, BackendFits, ListFits, ProfileFits, CredentialFollowsForm
  <1> QED BY <1>1, DesktopInvariance, PTL

=============================================================================
