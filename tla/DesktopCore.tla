---------------------------- MODULE DesktopCore ----------------------------
(***************************************************************************)
(* What the views of the desktop interface share: the state of App.tsx,    *)
(* the mounted views, and the calls the bridge has in flight.              *)
(*                                                                         *)
(* The page is single-threaded.  A handler runs to its next "await", which *)
(* leaves a call in "queue"; the commands it invokes are synchronous       *)
(* functions of the core, served one at a time in the order invoked, but   *)
(* for the connection test, which lets later calls overtake it (TestGoesOn *)
(* in ServersTab).  An answer carries out the call at the head and the     *)
(* rest of its handler up to the following await, which is how the         *)
(* continuation of a promise runs.  A call names its continuation "k", the *)
(* values "e" its closure captured, and the mount "on" of the view that    *)
(* made it: state set by a handler whose view has been unmounted is        *)
(* dropped.                                                                *)
(***************************************************************************)
EXTENDS MockTools, FiniteSetsExt

CONSTANTS
  ServerOrder,   \* the servers there may be, in the order lists show them
  Stored,        \* the servers stored at launch
  Profiles,      \* what is stored of each
  RemotePaths,   \* the remote files, << directory, name >>
  LongFiles,     \* the files longer than the limit of a read
  MaxActs,       \* operator actions in a behaviour
  MaxFaults,     \* invocations of the core that fail for no fault of theirs
  Failing,       \* the functions of the bridge whose invocations may
  MaxInFlight    \* the operator acts only while no more calls are in flight

ServerIds == ToSet(ServerOrder)

ASSUME DesktopAssumption ==
  /\ Stored \subseteq ServerIds /\ Stored # {}
  /\ DOMAIN Profiles = ServerIds
  /\ LongFiles \subseteq RemotePaths
  /\ {MaxActs, MaxFaults, MaxInFlight} \subseteq Nat
  /\ NoServer \notin ServerIds

VARIABLES
  tauri,    \* is the page running inside the desktop application?
  store,    \* the core, the page's stores, and the functions of the bridge
            \* these have answered for inside the application
  faults,   \* invocations that may still fail
  queue,    \* bridge calls in flight, in the order made
  app,      \* state of the App component
  tabs,     \* state of the mounted views
  acts      \* operator actions left

coreVars == << tauri, store, faults, queue, app, tabs, acts >>

TabNames == {"Chat", "Servers", "Terminal", "Files", "Activity", "Settings"}

\* Calls App makes itself carry no mount of a view.
AppMount == 0

\* A view that is not mounted.
NotMounted == [mount |-> 0]
Open(t) == tabs[t].mount # 0

InitialSettings ==
  [permission_mode |-> "SAFE_AUTOMATION", ai_provider |-> "p1",
   ai_model |-> "m1", ai_base_url |-> "u1", ai_api_key_ref |-> "k1",
   privacy_settings |-> "strict", ssh_host_key_checking |-> TRUE]

StoreInit ==
  LET servers == [s \in Stored |-> Profiles[s]]
      remote  == [q \in {<< s, p >> : s \in Stored, p \in RemotePaths} |-> "v0"]
      inPage  == [q \in {<< NoServer, p >> : p \in RemotePaths} |-> "v0"]
  IN [core |-> Backend(FALSE, servers, InitialSettings, remote),
      page |-> Backend(TRUE, servers, InitialSettings, inPage),
      faked |-> {}]

\* The server the header shows: the selected one, else the first listed.
FirstListed(servers) ==
  IF DOMAIN servers = {} THEN NoServer
  ELSE ServerOrder[Min({i \in DOMAIN ServerOrder :
                          ServerOrder[i] \in DOMAIN servers})]

Target(a) ==
  IF a.active \in DOMAIN a.servers THEN a.active ELSE FirstListed(a.servers)

ActiveServer == Target(app)

-----------------------------------------------------------------------------
(* Calls and their answers *)

\* Mutant: on behalf of the mount to come.
CallOfNext(op, x, k, e, t) ==
  [op |-> op, x |-> x, k |-> k, e |-> e, on |-> tabs[t].mount + 1]

Call(op, x, k, e, t) ==
  [op |-> op, x |-> x, k |-> k, e |-> e, on |-> tabs[t].mount]

\* What the core decides on a tool call is the policy engine's and the
\* executors' business; the interface must cope with each answer.
coreTool(b, r) ==
  { Executed([b EXCEPT !.ran = @ \cup {<< r.tool >>}], TRUE),
    Executed(b, FALSE), Ask(b, r, NoWord), Ask(b, r, r.server), Denied(b) }

\* A decision on a request that is still pending is final; the execution it
\* allows may fail.  Any other decision is refused.
coreSubmit(b, x) ==
  LET mine == {i \in DOMAIN b.pend : b.pend[i].id = x.id}
      rest == [b EXCEPT !.pend = Without(@, x.id)]
  IN IF mine = {} THEN {Reply(b, [ok |-> FALSE])}
     ELSE {Reply(rest, [ok |-> FALSE])} \cup
          IF x.approved
          THEN {Reply([rest EXCEPT !.ran = @ \cup {<< "approved", x.id >>}],
                      [ok |-> TRUE])}
          ELSE {}

\* The answers a backend may give to a call.
Serve(b, c) ==
  LET x == c.x IN
  CASE c.op = "getSetting" -> {getSetting(b, x)}
    [] c.op = "setSetting" -> {setSetting(b, x.key, x.value)}
    [] c.op = "listServers" -> {listServers(b)}
    [] c.op = "saveServer" -> {saveServer(b, x.id, x.profile)}
    [] c.op = "deleteServer" -> {deleteServer(b, x)}
    [] c.op = "saveSecret" -> {saveSecret(b, x)}
    [] c.op = "listCredentialRefs" -> {listCredentialRefs(b)}
    [] c.op = "deleteSecret" -> {deleteSecret(b, x)}
    [] c.op = "getSecret" -> {getSecret(b, x)}
    [] c.op = "testServerConnection" ->
         {testServerConnection(b, x, s) :
            s \in {"TRUSTED", "UNVERIFIED", "CHANGED_WARNING"}}
    [] c.op = "acceptServerHostKey" -> {acceptServerHostKey(b, x)}
    [] c.op = "pruneAuditEvents" ->
         {pruneAuditEvents(b, x, n) : n \in 0 .. b.audit}
    [] c.op = "startTerminalSession" ->
         {startTerminalSession(b, x)}
    [] c.op = "sendTerminalInput" -> {sendTerminalInput(b, x.id, x.line)}
    [] c.op = "readTerminalOutput" -> {readTerminalOutput(b, x.id, x.lastSeq)}
    [] c.op = "interruptTerminal" -> {interruptTerminal(b, x)}
    [] c.op = "terminateTerminalSession" -> {terminateTerminalSession(b, x)}
    [] c.op = "listTerminalSessions" -> {listTerminalSessions(b)}
    [] c.op = "sftpListDirectory" -> {sftpListDirectory(b, x.server, x.dir)}
    [] c.op = "sftpReadFile" -> {sftpReadFile(b, x.server, x.path, LongFiles)}
    [] c.op = "sftpWriteFile" ->
         {sftpWriteFile(b, x.server, x.path, x.text, x.backup)}
    [] c.op = "sftpDeleteFile" -> {sftpDeleteFile(b, x.server, x.path)}
    [] c.op = "sftpCreateDirectory" ->
         {sftpCreateDirectory(b, x.server, x.path)}
    [] c.op = "safetyRestoreBackup" -> {safetyRestoreBackup(b, x)}
    [] c.op = "safetyListBackups" -> {safetyListBackups(b, x)}
    [] c.op = "safetySetFullAccessExpiry" -> {safetySetFullAccessExpiry(b, x)}
    [] c.op = "safetyGetFullAccessStatus" -> {safetyGetFullAccessStatus(b, x)}
    [] c.op = "serverReadings" -> {serverReadings(b, x), serverTailLog(b, x)}
    [] c.op = "serverServiceStatus" -> {serverServiceStatus(b, x)}
    [] c.op = "serverServiceAction" ->
         {serverServiceAction(b, x.server, x.service, x.action)}
    [] c.op = "panelReadings" ->
         {panelReadings(b, x), panelServices(b, x), panelExtras(b, x)}
    [] c.op = "accountReadings" -> {accountReadings(b, x.server, x.user)}
    [] c.op = "cpanelRestartService" ->
         {cpanelRestartService(b, x.server, x.service)}
    [] c.op = "cpanelSuspendAccount" ->
         {cpanelSuspendAccount(b, x.server, x.user)}
    [] c.op = "cpanelUnsuspendAccount" ->
         {cpanelUnsuspendAccount(b, x.server, x.user)}
    [] c.op = "evaluateAndExecuteTool" ->
         IF b.inPage THEN {mockTool(b, x)} ELSE coreTool(b, x)
    [] c.op = "submitApproval" ->
         IF b.inPage THEN {mockSubmit(b, x.id, x.approved)}
         ELSE coreSubmit(b, x)
    [] c.op = "listPendingApprovals" -> {listPendingApprovals(b)}
    [] c.op = "saveConversation" -> {saveConversation(b, x.id, x.server)}
    [] c.op = "listConversations" -> {listConversations(b, x)}
    [] c.op = "deleteConversation" -> {deleteConversation(b, x)}
    [] c.op = "saveMessage" -> {saveMessage(b, x)}
    [] c.op = "listMessages" -> {listMessages(b, x)}
    [] c.op = "checkForUpdates" ->
         {checkForUpdates(b, u) : u \in {"UP_TO_DATE", "UPDATE_AVAILABLE"}}
    [] c.op = "installUpdate" -> {installUpdate(b)}
    [] c.op = "exportAuditLog" -> {exportAuditLog(b, x)}
    [] c.op = "getAlphaReadinessReport" ->
         {getAlphaReadinessReport(b, p) : p \in BOOLEAN}
    [] c.op = "checkDatabaseIntegrity" ->
         {checkDatabaseIntegrity(b, p) : p \in BOOLEAN}
    [] c.op = "vacuumDatabase" -> {vacuumDatabase(b)}

\* Calls the core refuses however healthy it is: a message of a conversation
\* that is gone (a foreign key) and a file that is not there.  A snapshot is
\* restored from the core's own list, which only grows, so it is there.
Refused(c) ==
  CASE c.op = "saveMessage" -> c.x.conv \notin DOMAIN store.core.convs
    [] c.op = "sftpReadFile" ->
         Held(store.core, c.x.server, c.x.path) = Missing
    [] OTHER -> FALSE

\* When the invocation throws the page answers from its own stores, except
\* that inside the application the two functions that run tools report the
\* error instead of pretending.
ToolCalls == {"evaluateAndExecuteTool", "submitApproval"}
Pretends(c) == ~(tauri /\ c.op \in ToolCalls)

Fallback(c) ==
  IF Pretends(c) THEN Serve(store.page, c)
  ELSE {Reply(store.page, [type |-> "denied", ok |-> FALSE])}

\* An invocation reaches the core inside the application, unless it fails;
\* in a plain browser it always throws.
ByCore(c) ==
  IF ~tauri \/ Refused(c) THEN {}
  ELSE { [store |-> [store EXCEPT !.core = r.b], faults |-> faults,
          val |-> r.val] : r \in Serve(store.core, c) }

ByPage(c) ==
  IF tauri /\ ~Refused(c) /\ (faults = 0 \/ c.op \notin Failing) THEN {}
  ELSE { [store |-> [store EXCEPT !.page = r.b,
                                  !.faked = IF tauri /\ Pretends(c)
                                            THEN @ \cup {c.op} ELSE @],
          faults |-> IF tauri /\ ~Refused(c) THEN faults - 1 ELSE faults,
          val |-> r.val] : r \in Fallback(c) }

Answers(c) == ByCore(c) \cup ByPage(c)

\* Is an answer to this mount of a view outstanding?
Outstanding(mount) == \E i \in DOMAIN queue : queue[i].on = mount

\* Is App still to change its servers?  It waits for an answer itself, or a
\* submitted profile waits for its secrets to be stored.
AppUnsettled ==
  \/ Outstanding(AppMount)
  \/ \E i \in DOMAIN queue : queue[i].k \in {"password saved", "token saved"}

\* The call at the head of the queue continues in "k".
Awaited(k) == queue # <<>> /\ Head(queue).k = k

\* It is answered by r, and its handler goes on with further calls.
Take(r, calls) ==
  /\ store' = r.store
  /\ faults' = r.faults
  /\ queue' = Tail(queue) \o calls
  /\ UNCHANGED << tauri, acts >>

\* The view t shows "new", if it is still the one that made the call.
Shows(c, t, new) ==
  tabs' = IF tabs[t].mount = c.on THEN [tabs EXCEPT ![t] = new] ELSE tabs

Live(c, t) == tabs[t].mount = c.on

\* A call nothing waits for, and calls whose continuation shows nothing.
Unwatched ==
  /\ Awaited("-")
  /\ \E r \in Answers(Head(queue)) : Take(r, <<>>)
  /\ UNCHANGED << app, tabs >>

-----------------------------------------------------------------------------
\* The operator does something to the mounted view t.
Act == acts > 0 /\ Len(queue) <= MaxInFlight /\ acts' = acts - 1

Does(t, new, calls) ==
  /\ Open(t)
  /\ Act
  /\ tabs' = [tabs EXCEPT ![t] = new]
  /\ queue' = queue \o calls
  /\ UNCHANGED << tauri, store, faults, app >>
=============================================================================
