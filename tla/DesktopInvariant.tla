-------------------------- MODULE DesktopInvariant --------------------------
(***************************************************************************)
(* The inductive invariant of the desktop interface.  Nothing in the page  *)
(* owns a value: it lives in App, in a view, in the closures of the calls  *)
(* in flight and in the two backends, and each of them must hold what the  *)
(* handler that reads it next relies on (Base).  On top of that, what the  *)
(* operator goes by is true, or an answer that makes it so is on its way:  *)
(* in the windows of the inventory (Windows), in the files (Entries) and   *)
(* in App (AppTrue).  Each of the three is inductive together with Base.   *)
(***************************************************************************)
EXTENDS Desktop

IsSeq(q) == Len(q) \in Nat /\ q = [i \in 1 .. Len(q) |-> q[i]]

\* What a backend answers.
Operations ==
  { "getSetting", "setSetting", "listServers", "saveServer", "deleteServer",
    "saveSecret", "listCredentialRefs", "deleteSecret", "getSecret",
    "testServerConnection", "acceptServerHostKey", "pruneAuditEvents",
    "startTerminalSession", "sendTerminalInput", "readTerminalOutput",
    "interruptTerminal", "terminateTerminalSession", "listTerminalSessions",
    "sftpListDirectory", "sftpReadFile", "sftpWriteFile", "sftpDeleteFile",
    "sftpCreateDirectory", "safetyRestoreBackup", "safetyListBackups",
    "safetySetFullAccessExpiry", "safetyGetFullAccessStatus",
    "serverReadings", "serverServiceStatus", "serverServiceAction",
    "panelReadings", "accountReadings", "cpanelRestartService",
    "cpanelSuspendAccount", "cpanelUnsuspendAccount",
    "evaluateAndExecuteTool", "submitApproval", "listPendingApprovals",
    "saveConversation", "listConversations", "deleteConversation",
    "saveMessage", "listMessages", "checkForUpdates", "installUpdate",
    "exportAuditLog", "getAlphaReadinessReport", "checkDatabaseIntegrity",
    "vacuumDatabase" }

\* Continuations that change App, or will once their secrets are stored, and
\* those that change what the files view and the two windows show.
TurnKinds   == {"configured", "private", "keyed", "evaluated"}
SubmitKinds == {"password saved", "token saved"}
LaunchKinds == {"launch servers", "launch mode"}
ListKinds   == {"launch servers", "server listed", "server gone"}
ChangeKinds == {"server saved", "server deleted"}
AppKinds    == LaunchKinds \cup ListKinds \cup ChangeKinds
FileKinds   == {"directory", "opened", "written"}
WindowKinds == {"diagnosed", "panel read"}
WindowOps   == {"serverServiceAction", "cpanelSuspendAccount",
                "cpanelUnsuspendAccount", "cpanelRestartService"}

ModeWrite(c) == c.op = "setSetting" /\ c.x.key = "permission_mode"

-----------------------------------------------------------------------------
(* What a closure holds, given the prompts sent and the mounts so far *)

TurnFits(turn, hist, n) ==
  /\ DOMAIN turn = {"n", "conv", "server", "mount", "config", "rounds",
                   "left"}
  /\ turn.n \in DOMAIN hist
  /\ turn.conv = hist[turn.n].conv /\ turn.server = hist[turn.n].server
  /\ turn.mount \in 0 .. n

MessageFits(m, hist) ==
  m.role = "assistant" =>
    m.turn \in DOMAIN hist /\ m.conv = hist[m.turn].conv

RequestFits(x, hist) ==
  x.id \in DOMAIN hist /\ (~x.named => x.server = hist[x.id].server)

ProfileFits(s, p) ==
  /\ p.cred \in {Profiles[s].cred, NoRef, Vault(s), PasswordRef(s)}
  /\ p.auth = "password" => p.cred # NoRef

ListFits(servers) ==
  /\ DOMAIN servers \subseteq ServerIds
  /\ \A s \in DOMAIN servers : ProfileFits(s, servers[s])

SubmissionFits(s) ==
  /\ DOMAIN s = {"form", "id", "old", "cred", "whm"}
  /\ s.id \in ServerIds /\ s.cred \in {NoRef, PasswordRef(s.id)}
  /\ \A p \in s.old : ProfileFits(s.id, p)

\* Steps that wait in a chain write no permission mode.
ChainOps == {"getSetting", "setSetting", "safetySetFullAccessExpiry",
             "safetyGetFullAccessStatus", "vacuumDatabase",
             "checkDatabaseIntegrity"}
StepFits(step) ==
  /\ step[1] \in ChainOps
  /\ step[1] = "setSetting" => step[2].key # "permission_mode"
StepsFit(todo) == IsSeq(todo) /\ \A i \in DOMAIN todo : StepFits(todo[i])

\* What a new listing ends.
Closings == {"none", "editor", "dialog", "folder"}

\* The operations some continuations are for.
KindFits(c) ==
  /\ c.k = "configured" => c.op = "getSetting"
  /\ c.k = "evaluated" => c.op = "evaluateAndExecuteTool"
  /\ c.k \in ListKinds => c.op = "listServers"
  /\ c.k = "launch mode" => c.op = "getSetting" /\ c.x = "permission_mode"
  /\ c.k = "password saved" => c.op = "saveSecret" /\ c.x = PasswordRef(c.e.id)
  /\ c.k = "directory" => c.op = "sftpListDirectory" /\ c.e \in Closings
  /\ c.k = "written" => c.e.closes \in Closings
  /\ c.k = "diagnosed" => c.op = "serverReadings"
  /\ c.k = "panel read" => c.op = "panelReadings"
  /\ c.k \in AppKinds => c.on = AppMount
  /\ c.op = "saveServer" => c.k = "server saved"
  /\ c.op = "deleteServer" => c.k = "server deleted"

CallFits(c, hist, n) ==
  /\ DOMAIN c = {"op", "x", "k", "e", "on"}
  /\ c.op \in Operations /\ c.on \in 0 .. n
  /\ KindFits(c)
  /\ c.k \in TurnKinds => TurnFits(c.e, hist, n)
  /\ c.op = "saveMessage" => MessageFits(c.x, hist)
  /\ c.op = "evaluateAndExecuteTool" => RequestFits(c.x, hist)
  /\ c.op = "saveServer" =>
       c.x.id \in ServerIds /\ ProfileFits(c.x.id, c.x.profile)
  /\ c.k \in SubmitKinds => SubmissionFits(c.e)
  /\ c.k = "chain" => StepsFit(c.e)
  /\ c.k = "load" => c.e.i \in 1 .. 10

QueueFits(q, hist, n) ==
  IsSeq(q) /\ \A i \in DOMAIN q : CallFits(q[i], hist, n)

-----------------------------------------------------------------------------
(* What the backends, App and the views hold *)

BackendFields ==
  {"inPage", "servers", "settings", "secrets", "files", "convs", "msgs",
   "pend", "ran", "audit", "backups", "terms", "timer"}

BackendFits(b, hist) ==
  /\ DOMAIN b = BackendFields
  /\ ListFits(b.servers)
  /\ "permission_mode" \in DOMAIN b.settings
  /\ \A m \in b.msgs : MessageFits(m, hist)

StoreFits(st, hist) ==
  /\ DOMAIN st = {"core", "page", "faked"}
  /\ BackendFits(st.core, hist) /\ BackendFits(st.page, hist)

AppFields ==
  {"view", "split", "servers", "active", "mode", "mounts", "launched", "early"}
AppFits ==
  /\ DOMAIN app = AppFields /\ app.view \in TabNames /\ app.mounts \in Nat
  /\ ListFits(app.servers)

TabFits(me, n) == "mount" \in DOMAIN me /\ me.mount \in 0 .. n
TabsFit(ts, n) == DOMAIN ts = TabNames /\ \A v \in TabNames : TabFits(ts[v], n)

Base ==
  /\ tauri \in BOOLEAN /\ faults \in 0 .. MaxFaults /\ acts \in 0 .. MaxActs
  /\ IsSeq(sent)
  /\ StoreFits(store, sent)
  /\ AppFits
  /\ TabsFit(tabs, app.mounts)
  /\ QueueFits(queue, sent, app.mounts)
  /\ \A turn \in away : TurnFits(turn, sent, app.mounts)

-----------------------------------------------------------------------------
(* The two windows of the inventory *)

WindowKeys ==
  {"mount", "form", "saving", "refs", "found", "alert", "unknown", "diag",
   "diagOf", "panel", "panelOf", "target", "typed", "rush"}

\* An action in a window, unless hurried, is on the server it showed.
ActsOnShown(c) == c.op \in WindowOps /\ ~c.e.rush => c.x.server = c.e.shown

\* Of a window that is for the server s and shows the facts of another: those
\* of s are being read, or they have been.
WindowFits(s, of, kind, mount, q) ==
  /\ \A i \in DOMAIN q : q[i].on = mount /\ q[i].k = kind => q[i].x = s
  /\ \/ \E i \in DOMAIN q : q[i].on = mount /\ q[i].k = kind
     \/ s = NoServer \/ of \in {NoServer, s}

\* Both windows, and the dialog on top of the panel, unless an operator in a
\* hurry has gone on without waiting.
WindowsFit(me, q) ==
  /\ DOMAIN me = WindowKeys
  /\ me.rush \/ /\ WindowFits(me.diag, me.diagOf, "diagnosed", me.mount, q)
                /\ WindowFits(me.panel, me.panelOf, "panel read", me.mount, q)
                /\ me.target \in {NoServer, me.panel}

\* The invariant behind WindowsActOnShown.
Windows ==
  /\ \A i \in DOMAIN queue : ActsOnShown(queue[i])
  /\ Open("Servers") => WindowsFit(Servers, queue)

-----------------------------------------------------------------------------
(* The files *)

FilesKeys ==
  {"mount", "dir", "list", "sel", "localSel", "edit", "del", "folder",
   "saving", "ai", "rush"}

\* A change to the files, unless hurried, is where the listing shown was.
WritesShown(c) ==
  c.k = "written" /\ ~c.e.rush =>
    c.x.server = c.e.shown.of /\ c.x.path[1] = c.e.shown.path[1]

\* The call is one of the view's for a listing.
Lists(c, me) == c.k = "directory" /\ c.on = me.mount

\* The listing is that of the directory shown, or the last of those asked for
\* will be.
ListingTrue(me, server, q) ==
  \/ /\ me.list.of = server /\ me.list.dir = me.dir
     /\ me.sel = NoEntry \/ me.sel.of = server
     /\ \A i \in DOMAIN q : ~Lists(q[i], me)
  \/ \E i \in DOMAIN q :
       /\ Lists(q[i], me) /\ q[i].x.server = server /\ q[i].x.dir = me.dir
       /\ \A j \in DOMAIN q : Lists(q[j], me) => j <= i

\* Something is under way that goes by an entry of the listing.
UnderWay(me, q) ==
  \/ me.sel # NoEntry \/ me.edit.on \/ me.del # NoEntry
  \/ \E i \in DOMAIN q : q[i].on = me.mount /\ q[i].k \in {"opened", "written"}

\* App's servers are about to change.
Changing(q) ==
  \E i \in DOMAIN q : q[i].k \in SubmitKinds \cup ListKinds \cup ChangeKinds

\* What is under way concerns the active server and the directory shown.
EntriesTrue(me, server, q) ==
  /\ me.edit.on => me.edit.of = server
  /\ me.del # NoEntry => me.del.of = server
  /\ \A i \in DOMAIN q :
       q[i].on = me.mount =>
         /\ q[i].k = "opened" => q[i].e.of = server
         /\ q[i].k = "written" => q[i].e.server = server /\ q[i].e.dir = me.dir

\* The editor is closed, or knows the server of its text.
EditFits(edit) ==
  /\ "on" \in DOMAIN edit /\ edit.on \in BOOLEAN
  /\ edit.on => "of" \in DOMAIN edit

\* The view of the files, in front of the server: the operator who waits never
\* has an entry in hand while the server may change.
FilesFit(me, server, q) ==
  /\ DOMAIN me = FilesKeys /\ EditFits(me.edit)
  /\ me.rush \/ /\ ListingTrue(me, server, q)
                /\ EntriesTrue(me, server, q)
                /\ UnderWay(me, q) => ~Changing(q)

\* The invariant behind FilesActOnShown.  The form that changes servers is not
\* on screen beside the files.
Entries ==
  /\ \A i \in DOMAIN queue : WritesShown(queue[i])
  /\ ~(Open("Files") /\ Open("Servers"))
  /\ Open("Files") => FilesFit(Files, ActiveServer, queue)

-----------------------------------------------------------------------------
(* What App shows *)

\* Unless App reads the servers again, it shows those of the core.
ServersTrue ==
  \/ app.servers = store.core.servers
  \/ \E i \in DOMAIN queue : queue[i].k \in ListKinds

\* The last write of the mode on its way to the core is of the one shown, or
\* the core has it.
ModeTrue(mode, stored, q) ==
  \/ mode = stored /\ \A i \in DOMAIN q : ~ModeWrite(q[i])
  \/ \E i \in DOMAIN q :
       /\ ModeWrite(q[i]) /\ q[i].x.value = mode
       /\ \A j \in DOMAIN q : ModeWrite(q[j]) => j <= i

\* Before the stored mode has been read nothing else is shown, nor written.
Unread(mode, stored, q) ==
  /\ mode = InitialSettings.permission_mode /\ stored = mode
  /\ \A i \in DOMAIN q : ModeWrite(q[i]) => q[i].x.value = mode

\* It is read once.
LaunchOnce(launched, q) ==
  /\ \A i, j \in DOMAIN q :
       q[i].k \in LaunchKinds /\ q[j].k \in LaunchKinds => i = j
  /\ launched => \A i \in DOMAIN q : q[i].k \notin LaunchKinds

\* The invariant behind AppShowsStore: in the application, unless the page has
\* stood in for what App goes by, App shows what is stored or will read it;
\* and the mode is read but once.
AppTrue ==
  /\ LaunchOnce(app.launched, queue)
  /\ tauri /\ store.faked \cap AppReads = {} =>
       LET stored == store.core.settings.permission_mode IN
       /\ ServersTrue
       /\ ~app.early => ModeTrue(app.mode, stored, queue)
       /\ ~app.early /\ ~app.launched => Unread(app.mode, stored, queue)
=============================================================================
