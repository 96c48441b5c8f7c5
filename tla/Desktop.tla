------------------------------- MODULE Desktop -------------------------------
(***************************************************************************)
(* The desktop interface: App.tsx, its header and its navigation, composed *)
(* with the six views.  App keeps the servers, the active one and the      *)
(* permission mode; changing any of them runs the effects of the views     *)
(* that are mounted, and leaving a view unmounts it while its calls are    *)
(* still in flight.                                                        *)
(***************************************************************************)
EXTENDS ChatTab, FilesTab, TerminalTab, SettingsTab, ServersTab, ActivityTab

CONSTANTS
  Views,     \* the views the operator opens and uses
  Patience,  \* operator actions that may be left when a view is opened
  MaxMounts  \* mounts of views in a behaviour, by navigation

ASSUME DesktopViews ==
  /\ Views \subseteq TabNames
  /\ Patience \in [TabNames -> Nat]
  /\ MaxMounts \in Nat

vars == << coreVars, chatVars, refreshes >>

App ==
  [view |-> "Chat", split |-> FALSE, servers |-> <<>>, active |-> NoServer,
   mode |-> "SAFE_AUTOMATION", mounts |-> 1, launched |-> FALSE,
   early |-> FALSE]

AppCall(op, x, k, e) == [op |-> op, x |-> x, k |-> k, e |-> e, on |-> AppMount]

Fresh(v, mount) ==
  CASE v = "Chat" -> FreshChat(mount)
    [] v = "Files" -> FreshFiles(mount)
    [] v = "Terminal" -> FreshTerminal(mount)
    [] v = "Settings" -> FreshSettings(mount)
    [] v = "Servers" -> FreshServers(mount)
    [] v = "Activity" -> FreshActivity(mount)

Effect(v, mount) ==
  CASE v = "Chat" -> ChatEffect(mount, ActiveServer)
    [] v = "Files" -> FilesEffect(mount, ActiveServer, FreshFiles(mount).dir)
    [] v = "Terminal" -> TerminalEffect(mount, ActiveServer)
    [] v = "Settings" -> SettingsEffect(mount, app.mode)
    [] v = "Servers" -> ServersEffect(mount)
    [] v = "Activity" -> ActivityEffect(mount)

\* The chat is mounted; the servers and the stored mode are being read.
Init ==
  /\ tauri \in BOOLEAN
  /\ store = StoreInit
  /\ faults = MaxFaults
  /\ app = App
  /\ tabs = [v \in TabNames |-> IF v = "Chat" THEN FreshChat(1) ELSE NotMounted]
  /\ queue = ChatEffect(1, NoServer) \o
             << AppCall("listServers", 0, "launch servers", 0) >>
  /\ acts = MaxActs
  /\ refreshes = 0
  /\ ChatInit

\* What the mounted views do when App becomes a: the chat and the files
\* follow the identity of the active server, the terminal the object.
ChatFollows(a) ==
  IF Open("Chat") /\ Target(a) # ActiveServer
  THEN ChatEffect(Chat.mount, Target(a)) ELSE <<>>

\* Mutant: the files do not.
FilesStay(a) == <<>>
FilesFollow(a) ==
  IF Open("Files") /\ Target(a) # ActiveServer
  THEN FilesEffect(Files.mount, Target(a), Files.dir) ELSE <<>>

TerminalFollows(a) ==
  IF Open("Terminal") /\ (Target(a) # ActiveServer \/ a.servers # app.servers)
  THEN << SessionsCall(Terminal.mount, Target(a), Terminal.cur) >> ELSE <<>>

Effects(a) == ChatFollows(a) \o FilesFollow(a) \o TerminalFollows(a)

-----------------------------------------------------------------------------
(* Launch, and the answers to App's own calls *)

\* The first server becomes the active one.
LaunchServers ==
  /\ Awaited("launch servers")
  /\ LET c == Head(queue) IN
     \E r \in Answers(c) :
       LET a == [app EXCEPT !.servers = r.val, !.active = FirstListed(r.val)]
       IN /\ app' = a
          /\ Take(r, Effects(a) \o
                     << [c EXCEPT !.op = "getSetting", !.x = "permission_mode",
                                  !.k = "launch mode"] >>)
  /\ UNCHANGED << tabs, chatVars, refreshes >>

LaunchMode ==
  /\ Awaited("launch mode")
  /\ \E r \in Answers(Head(queue)) :
       /\ Take(r, ReloadFor(r.val))
       /\ app' = [app EXCEPT !.mode = r.val, !.launched = TRUE]
  /\ UNCHANGED << tabs, chatVars, refreshes >>

\* Mutant: the list shown gets the profile submitted, once it is acknowledged.
SavedShown ==
  /\ Awaited("server saved")
  /\ LET c == Head(queue)
         a == [app EXCEPT !.servers = (c.x.id :> c.x.profile) @@ @,
                          !.active = c.e]
     IN /\ \E r \in Answers(c) : Take(r, Effects(a))
        /\ app' = a
  /\ UNCHANGED << tabs, chatVars, refreshes >>

\* The list is read again and shown, and the new server made active.
ServerSaved ==
  /\ Awaited("server saved")
  /\ LET c == Head(queue) IN
     \E r \in Answers(c) :
       Take(r, << AppCall("listServers", 0, "server listed", c.e) >>)
  /\ UNCHANGED << app, tabs, chatVars, refreshes >>

ServerListed ==
  /\ Awaited("server listed")
  /\ LET c == Head(queue) IN
     \E r \in Answers(c) :
       LET a == [app EXCEPT !.servers = r.val, !.active = c.e]
       IN app' = a /\ Take(r, Effects(a))
  /\ UNCHANGED << tabs, chatVars, refreshes >>

ServerDeleted ==
  /\ Awaited("server deleted")
  /\ LET c == Head(queue) IN
     \E r \in Answers(c) :
       Take(r, << AppCall("listServers", 0, "server gone", c.e) >>)
  /\ UNCHANGED << app, tabs, chatVars, refreshes >>

\* Another server becomes active if the deleted one was, at the click.
ServerGone ==
  /\ Awaited("server gone")
  /\ LET c == Head(queue) IN
     \E r \in Answers(c) :
       LET a == [app EXCEPT !.servers = r.val,
                   !.active = IF c.e.active = c.e.id THEN FirstListed(r.val)
                              ELSE @]
       IN app' = a /\ Take(r, Effects(a))
  /\ UNCHANGED << tabs, chatVars, refreshes >>

-----------------------------------------------------------------------------
(* Header and navigation *)

Uncovered ==
  /\ Open("Files") => ~Covered
  /\ Open("Servers") => ~ServersCovered

SelectServer(s) ==
  LET a == [app EXCEPT !.active = s]
  IN /\ Uncovered /\ s \in DOMAIN app.servers /\ s # ActiveServer
     /\ Act
     /\ app' = a
     /\ queue' = queue \o Effects(a)
     /\ tabs' = IF Open("Files") THEN [tabs EXCEPT !["Files"].rush = Rushed]
                ELSE tabs
     /\ UNCHANGED << tauri, store, faults, chatVars, refreshes >>

ChangeMode(mode) ==
  /\ Uncovered /\ mode # app.mode
  /\ Act
  /\ app' = WithMode(mode)
  /\ queue' = queue \o ModeCalls(mode) \o ReloadFor(mode)
  /\ UNCHANGED << tauri, store, faults, tabs, chatVars, refreshes >>

\* The views in "number" are mounted anew, each with its number, and run
\* their effects; the others are gone.
Mounting(number, effects) ==
  /\ Len(queue) <= MaxInFlight
  /\ tabs' = [v \in TabNames |-> IF v \in DOMAIN number THEN Fresh(v, number[v])
                                 ELSE NotMounted]
  /\ queue' = queue \o effects

\* One view alone, or the chat beside the terminal, in the order of the page.
Alone(v) ==
  LET n == app.mounts + 1 IN Mounting([u \in {v} |-> n], Effect(v, n))
Beside ==
  LET n == app.mounts + 1
  IN Mounting([u \in {"Chat", "Terminal"} |-> IF u = "Chat" THEN n ELSE n + 1],
              Effect("Chat", n) \o Effect("Terminal", n + 1))

SelectView(v) ==
  /\ Uncovered /\ v \in Views /\ v # app.view
  /\ app.split \/ app.mounts < MaxMounts
  /\ IF app.split
     THEN app' = [app EXCEPT !.view = v] /\ UNCHANGED << tabs, queue, acts >>
     ELSE /\ app' = [app EXCEPT !.view = v, !.mounts = @ + 1]
          /\ acts' = Min({acts, Patience[v]})
          /\ Alone(v)
  /\ UNCHANGED << tauri, store, faults, chatVars, refreshes >>

\* The button of the terminal puts the chat beside it, and takes it away.
ToggleSplit ==
  /\ Open("Terminal")
  /\ Act
  /\ app' = [app EXCEPT !.split = ~@, !.mounts = @ + IF app.split THEN 1 ELSE 2]
  /\ IF app.split THEN Alone(app.view) ELSE Beside
  /\ UNCHANGED << tauri, store, faults, chatVars, refreshes >>

-----------------------------------------------------------------------------
Operator ==
  \/ \E s \in ServerIds : SelectServer(s)
  \/ \E mode \in Modes : ChangeMode(mode)
  \/ "Chat" \in Views /\ ChatOperator /\ UNCHANGED refreshes
  \/ FilesOperator /\ UNCHANGED << chatVars, refreshes >>
  \/ TerminalOperator /\ UNCHANGED << chatVars, refreshes >>
  \/ SettingsOperator /\ UNCHANGED chatVars
  \/ ServersOperator /\ UNCHANGED << chatVars, refreshes >>
  \/ ActivityOperator /\ UNCHANGED << chatVars, refreshes >>
  \/ \E v \in TabNames : SelectView(v)
  \/ ToggleSplit

Answer ==
  \/ LaunchServers \/ LaunchMode \/ ServerSaved \/ ServerListed
  \/ ServerDeleted \/ ServerGone
  \/ ChatAnswer /\ UNCHANGED refreshes
  \/ SettingsAnswer /\ UNCHANGED chatVars
  \/ /\ Unwatched \/ FilesAnswer \/ TerminalAnswer \/ ServersAnswer
        \/ ActivityAnswer
     /\ UNCHANGED << chatVars, refreshes >>

Environment ==
  \/ Provider /\ UNCHANGED refreshes
  \/ TerminalProgress /\ UNCHANGED << chatVars, refreshes >>
  \/ SettingsProgress /\ UNCHANGED chatVars

Next == Operator \/ Answer \/ Environment

Spec == Init /\ [][Next]_vars

\* What waits for something outside the program: commands that run ssh, whose
\* process has no timeout, and a turn whose provider may stay silent.
RemoteOps ==
  ToolCalls \cup
  { "testServerConnection", "sftpListDirectory", "sftpReadFile",
    "sftpWriteFile", "sftpDeleteFile", "sftpCreateDirectory",
    "safetyRestoreBackup", "serverReadings", "serverServiceStatus",
    "serverServiceAction", "panelReadings", "accountReadings",
    "cpanelRestartService", "cpanelSuspendAccount", "cpanelUnsuspendAccount" }

SshRuns == tauri /\ queue # <<>> /\ Head(queue).op \in RemoteOps
ProviderSilent == \E turn \in away : turn.n \notin aborted

\* A command that waits for nobody is answered, and the request of a turn
\* that was cancelled ends, since it was given the signal.
FairSpec ==
  /\ Spec
  /\ WF_vars(~SshRuns /\ Answer)
  /\ WF_vars(\E turn \in away : turn.n \in aborted /\ ProviderEnds(turn)
                                /\ UNCHANGED refreshes)

-----------------------------------------------------------------------------
(* What should hold *)

\* The type invariant: every call in flight, every view and App's state have
\* the shape the handlers rely on, and mounts are numbered from the past.
TypeOK ==
  /\ tauri \in BOOLEAN /\ faults \in 0 .. MaxFaults /\ acts \in 0 .. MaxActs
  /\ DOMAIN tabs = TabNames
  /\ \A v \in TabNames : tabs[v].mount \in 0 .. app.mounts
  /\ \A i \in DOMAIN queue :
       /\ DOMAIN queue[i] = {"op", "x", "k", "e", "on"}
       /\ queue[i].on \in 0 .. app.mounts
  /\ \A turn \in away : turn.n \in DOMAIN sent
  /\ DOMAIN app.servers \subseteq ServerIds

\* What the assistant says is stored in the conversation its prompt was sent
\* in, whatever the operator opens, deletes or starts meanwhile, and whether
\* or not the view is still there (ChatView.tsx, runAiToolLoop).
RepliesGoHome ==
  \A m \in store.core.msgs \cup store.page.msgs :
    m.role = "assistant" => m.conv = sent[m.turn].conv

\* A tool the provider calls without naming a server acts on the one that
\* was active when the prompt was sent, not on the one the header shows by
\* the time the call is made (ChatView.tsx, the executor of a turn).
ToolsOnChosenServer ==
  \A i \in DOMAIN queue :
    queue[i].op = "evaluateAndExecuteTool" /\ ~queue[i].x.named =>
      queue[i].x.server = sent[queue[i].x.id].server

\* Saving, deleting, uploading and creating act on the server, and in the
\* directory, whose files were on screen, provided the operator has not gone
\* on while an answer was outstanding (FilesView.tsx).
FilesActOnShown ==
  \A i \in DOMAIN queue :
    LET c == queue[i] IN
    c.k = "written" /\ ~c.e.rush =>
      /\ c.x.server = c.e.shown.of
      /\ c.x.path[1] = c.e.shown.path[1]

\* The chat takes input again: unless somebody outside the program keeps it
\* waiting for ever, a turn or a verdict in progress comes to an end, though
\* the turn may have been cancelled, its conversation deleted or the core
\* refuse the call (ChatView.tsx, setIsProcessing).
ChatSettles ==
  []<>(~SshRuns) /\ []<>(~ProviderSilent) =>
    ((Open("Chat") /\ Chat.busy) ~> (~Open("Chat") \/ ~Chat.busy))

\* A stored profile never refers to the password typed for another server,
\* although the form may show another server by the time the password is
\* stored, and one that logs in by password refers to some secret
\* (ServersView.tsx, handleSubmit).
CredentialFollowsForm ==
  \A s \in DOMAIN store.core.servers :
    LET p == store.core.servers[s] IN
    /\ p.cred \in {Profiles[s].cred, NoRef, Vault(s), PasswordRef(s)}
    /\ p.auth = "password" => p.cred # NoRef

\* The functions of the bridge by which App learns the servers and the mode,
\* and writes the mode.
AppReads == {"listServers", "getSetting", "setSetting"}

\* Once every call is answered App shows the servers and the permission mode
\* the core has stored, also when the core failed to store or to delete a
\* server and the page's stand-ins acknowledged it; unless these stood in for
\* a read of App's or for a write of a setting, or the mode was changed before
\* the stored one had been read at launch (App.tsx, bridge.ts).
AppShowsStore ==
  queue = <<>> /\ tauri /\ store.faked \cap AppReads = {} =>
    /\ app.servers = store.core.servers
    /\ app.early \/ app.mode = store.core.settings.permission_mode

\* Operating a service, a panel service or an account acts on the server
\* whose facts were on screen, provided the operator has not gone on while an
\* answer was outstanding (ServersView.tsx, the two windows).
WindowsActOnShown ==
  \A i \in DOMAIN queue :
    LET c == queue[i] IN
    c.op \in {"serverServiceAction", "cpanelSuspendAccount",
              "cpanelUnsuspendAccount", "cpanelRestartService"} /\ ~c.e.rush =>
      c.x.server = c.e.shown

\* What is on the terminal's screen is a piece of what the selected session
\* has put out, each line once and in order (TerminalView.tsx, the poll).
ScreenInStep ==
  Open("Terminal") =>
    \A id \in {Terminal.cur} \cap DOMAIN store.core.terms :
      LET out == store.core.terms[id].out
      IN \E i \in 1 .. Len(out) + 1, j \in 0 .. Len(out) :
           Terminal.screen = SubSeq(out, i, j)

=============================================================================
