----------------------------- MODULE ServersTab -----------------------------
(***************************************************************************)
(* The server inventory of the desktop interface (views/ServersView.tsx):  *)
(* the profile form and its secrets, the connection test and the verdict   *)
(* on a host key, the diagnostics window and the hosting-panel window.     *)
(* The multi-server console is the subject of module BatchExecution.       *)
(*                                                                         *)
(* The list of servers belongs to App, which this view asks to add and to  *)
(* delete.  A secret is named for the server it was typed for; the calls   *)
(* of one Promise.all are one call.                                        *)
(***************************************************************************)
EXTENDS DesktopCore

NoRef == "none"

\* State of the component: the form, the secrets it offers, the mismatch
\* alert, the servers whose test offers to trust a key, the two windows with
\* the server whose facts each shows, and the suspension being confirmed.
\* "rush": the operator went on while an answer to this view was outstanding.
ClosedForm ==
  [open |-> FALSE, editing |-> NoServer, auth |-> "key", pw |-> FALSE,
   panel |-> FALSE, production |-> FALSE, token |-> FALSE, whm |-> NoRef]

FreshServers(mount) ==
  [mount |-> mount, form |-> ClosedForm, saving |-> FALSE, refs |-> {},
   found |-> FALSE, alert |-> NoServer, unknown |-> {}, diag |-> NoServer,
   diagOf |-> NoServer, panel |-> NoServer, panelOf |-> NoServer,
   target |-> NoServer, typed |-> FALSE, rush |-> FALSE]

Servers == tabs["Servers"]
ServersCall(op, x, k, e) == Call(op, x, k, e, "Servers")
Hurried == Servers.rush \/ Outstanding(Servers.mount)
ServersDoes(new, calls) == Does("Servers", [new EXCEPT !.rush = Hurried], calls)

\* History kept with an operation: the server whose facts were on screen.
Shown(of) == [shown |-> of, rush |-> Hurried]

\* The two windows and the alert cover the page.
ServersCovered ==
  \/ Servers.alert # NoServer \/ Servers.diag # NoServer
  \/ Servers.panel # NoServer

\* The table and the form can be used.
AtTable == Open("Servers") /\ ~ServersCovered

ServersEffect(mount) ==
  << [op |-> "listCredentialRefs", x |-> 0, k |-> "tokens", e |-> 0,
      on |-> mount] >>

PasswordRef(id) == "password of " \o id
TokenRef(id) == "token of " \o id
Vault(id) == "vault:ssh:" \o id

\* A reference is never taken for none, and a stored profile that logs in by
\* password has one.
ASSUME ReferencesAssumption ==
  /\ \A s \in ServerIds : NoRef \notin {PasswordRef(s), Vault(s)}
  /\ \A s \in Stored : Profiles[s].auth = "password" => Profiles[s].cred # NoRef

\* The secrets that are WHM tokens are offered in the form.
Tokens == {TokenRef(s) : s \in ServerIds} \cup {Profiles[s].whm : s \in ServerIds}

TokensListed ==
  /\ Awaited("tokens")
  /\ LET c == Head(queue) IN
     \E r \in Answers(c) :
       /\ Take(r, <<>>)
       /\ Shows(c, "Servers", [Servers EXCEPT !.refs = r.val \cap Tokens])
  /\ UNCHANGED app

-----------------------------------------------------------------------------
(* The profile form *)

\* Saving and cancelling both reset the form, but for two of its fields.
Reset(form) ==
  [ClosedForm EXCEPT !.panel = form.panel, !.production = form.production]

ToggleAdd ==
  AtTable /\ ServersDoes([Servers EXCEPT !.form.open = ~@], <<>>)

\* The fields of a stored profile, but its secrets are entered anew.
EditServer(s) ==
  /\ AtTable /\ s \in DOMAIN app.servers
  /\ ServersDoes([Servers EXCEPT !.form =
                    [open |-> TRUE, editing |-> s,
                     auth |-> app.servers[s].auth, pw |-> FALSE,
                     panel |-> app.servers[s].panel,
                     production |-> app.servers[s].production,
                     token |-> FALSE, whm |-> app.servers[s].whm]], <<>>)

CancelEdit ==
  /\ AtTable /\ Servers.form.open
  /\ ServersDoes([Servers EXCEPT !.form = Reset(@)], <<>>)

\* The operator fills in the form: a method, a password or none, a panel
\* with a token, a saved token or neither, and the environment.
FillForm(auth, pw, panel, token, whm, production) ==
  /\ AtTable /\ Servers.form.open
  /\ whm \in Servers.refs \cup {NoRef}
  /\ ServersDoes([Servers EXCEPT !.form =
                    [@ EXCEPT !.auth = auth, !.pw = pw, !.panel = panel,
                              !.token = token, !.whm = whm,
                              !.production = production]], <<>>)

TheOne(S, otherwise) == IF S = {} THEN otherwise ELSE CHOOSE x \in S : TRUE

\* The profile a submission amounts to: f is the form at the click, old the
\* profile edited, cred and whm the references of secrets just stored.
Submitted(f, id, old, cred, whm) ==
  LET chosen == IF whm # NoRef THEN whm ELSE f.whm
  IN [auth |-> f.auth, panel |-> f.panel, production |-> f.production,
      cred |-> IF cred # NoRef THEN cred
               ELSE IF f.auth # "password" THEN NoRef
               ELSE TheOne({p.cred : p \in old} \ {NoRef}, Vault(id)),
      whm |-> IF chosen # NoRef THEN chosen
              ELSE TheOne({p.whm : p \in old}, NoRef)]

\* App's handleAddServer stores the profile, then lists the servers again.
AddServer(id, profile) ==
  << [op |-> "saveServer", x |-> [id |-> id, profile |-> profile],
      k |-> "server saved", e |-> id, on |-> AppMount] >>

SecretCall(value, k, e) == ServersCall("saveSecret", value, k, e)

\* The rest of a submission: a closure s = [form, id, old, cred, whm].
StoreToken(mount, s) ==
  IF s.form.panel /\ s.form.token
  THEN << [op |-> "saveSecret", x |-> TokenRef(s.id), k |-> "token saved",
           e |-> s, on |-> mount] >>
  ELSE AddServer(s.id, Submitted(s.form, s.id, s.old, s.cred, s.whm))

Finished(me) == [me EXCEPT !.saving = FALSE, !.form = Reset(@)]
AfterToken(me, s) == IF s.form.panel /\ s.form.token THEN me ELSE Finished(me)

\* A new profile has an identifier of its own.
Submit(id) ==
  LET f == Servers.form
      old == IF f.editing \in DOMAIN app.servers
             THEN {app.servers[f.editing]} ELSE {}
      s == [form |-> f, id |-> id, old |-> old, cred |-> NoRef, whm |-> NoRef]
  IN /\ AtTable /\ f.open /\ ~Servers.saving
     /\ IF f.editing # NoServer THEN id = f.editing
        ELSE id \in ServerIds \ (DOMAIN store.core.servers \cup DOMAIN app.servers)
     /\ IF f.auth = "password" /\ f.pw
        THEN ServersDoes([Servers EXCEPT !.saving = TRUE],
               << ServersCall("saveSecret", PasswordRef(id), "password saved", s) >>)
        ELSE ServersDoes(AfterToken([Servers EXCEPT !.saving = TRUE], s),
               StoreToken(Servers.mount, s))

\* Mutant: the rest of the submission goes by the form shown by then.
PasswordSavedLate ==
  /\ Awaited("password saved")
  /\ LET c == Head(queue) IN
     \E r \in Answers(c) :
       LET s == [c.e EXCEPT !.cred = r.val,
                   !.id = IF Live(c, "Servers") /\ Servers.form.editing # NoServer
                          THEN Servers.form.editing ELSE @]
       IN /\ Take(r, StoreToken(c.on, s))
          /\ Shows(c, "Servers", AfterToken(Servers, s))
  /\ UNCHANGED app

PasswordSaved ==
  /\ Awaited("password saved")
  /\ LET c == Head(queue) IN
     \E r \in Answers(c) :
       LET s == [c.e EXCEPT !.cred = r.val]
       IN /\ Take(r, StoreToken(c.on, s))
          /\ Shows(c, "Servers", AfterToken(Servers, s))
  /\ UNCHANGED app

TokenSaved ==
  /\ Awaited("token saved")
  /\ LET c == Head(queue)
         s == c.e
     IN \E r \in Answers(c) :
          /\ Take(r, AddServer(s.id, Submitted(s.form, s.id, s.old, s.cred, r.val)))
          /\ Shows(c, "Servers", Finished(Servers))
  /\ UNCHANGED app

\* Hosts of ~/.ssh/config, listed by the core, are added as they are.
FetchDiscovered ==
  AtTable /\ ServersDoes([Servers EXCEPT !.found = TRUE], <<>>)

ImportDiscovered(id) ==
  /\ AtTable /\ Servers.found
  /\ id \in ServerIds \ (DOMAIN store.core.servers \cup DOMAIN app.servers)
  /\ ServersDoes(Servers, AddServer(id,
       [auth |-> "key", cred |-> Vault(id), whm |-> NoRef, panel |-> FALSE,
        production |-> FALSE]))

\* App's handleDeleteServer; nothing is asked first.
RemoveServer(s) ==
  /\ AtTable /\ s \in DOMAIN app.servers
  /\ ServersDoes(Servers,
       << [op |-> "deleteServer", x |-> s, k |-> "server deleted",
           e |-> [id |-> s, active |-> app.active], on |-> AppMount] >>)

-----------------------------------------------------------------------------
(* Connection test and host key *)

TestCall(mount, s) ==
  [op |-> "testServerConnection", x |-> s, k |-> "tested", e |-> s, on |-> mount]

TestConnection(s) ==
  /\ AtTable /\ s \in DOMAIN app.servers
  /\ ServersDoes(Servers, << TestCall(Servers.mount, s) >>)

\* A changed key raises the alert, an unknown one an offer in its row.
ConnectionTested ==
  /\ Awaited("tested")
  /\ LET c == Head(queue) IN
     \E r \in Answers(c) :
       /\ Take(r, <<>>)
       /\ Shows(c, "Servers",
            [Servers EXCEPT
               !.alert = IF r.val.status = "CHANGED_WARNING" THEN c.e ELSE @,
               !.unknown = IF r.val.status = "UNVERIFIED" THEN @ \cup {c.e}
                           ELSE @ \ {c.e}])
  /\ UNCHANGED app

\* The one command of the core that waits beside the others: it goes on, and
\* what was called after it is answered first.
TestGoesOn ==
  /\ Awaited("tested") /\ Head(queue).op = "testServerConnection"
  /\ Len(queue) > 1
  /\ \E r \in ByCore(Head(queue)) : Take(r, << Head(queue) >>)
  /\ UNCHANGED << app, tabs >>

KeepBlocked ==
  /\ Open("Servers") /\ Servers.alert # NoServer
  /\ ServersDoes([Servers EXCEPT !.alert = NoServer], <<>>)

\* The key that was shown is accepted, and the server tested again if it is
\* still listed.
AcceptHostKey(s) ==
  /\ Open("Servers")
  /\ s = Servers.alert \/ (AtTable /\ s \in Servers.unknown)
  /\ ServersDoes(Servers,
       << ServersCall("acceptServerHostKey", s, "accepted",
                      [id |-> s, listed |-> s \in DOMAIN app.servers]) >>)

HostKeyAccepted ==
  /\ Awaited("accepted")
  /\ LET c == Head(queue) IN
     \E r \in Answers(c) :
       /\ Take(r, IF c.e.listed THEN << TestCall(c.on, c.e.id) >> ELSE <<>>)
       /\ Shows(c, "Servers", [Servers EXCEPT !.alert = NoServer])
  /\ UNCHANGED app

-----------------------------------------------------------------------------
(* The diagnostics window *)

\* What a window shows is kept when it is closed, and shown in it, for
\* whichever server, until new facts arrive.
\* Mutant: the facts of the server that is active are loaded.
LoadActive(s) == << ServersCall("serverReadings", ActiveServer, "diagnosed", s) >>
LoadDiagnostics(s) == << ServersCall("serverReadings", s, "diagnosed", s) >>

OpenDiagnostics(s) ==
  /\ AtTable /\ s \in DOMAIN app.servers
  /\ ServersDoes([Servers EXCEPT !.diag = s], LoadDiagnostics(s))

RefreshDiagnostics ==
  /\ Open("Servers") /\ Servers.diag # NoServer
  /\ ServersDoes(Servers, LoadDiagnostics(Servers.diag))

Diagnosed ==
  /\ Awaited("diagnosed")
  /\ LET c == Head(queue) IN
     \E r \in Answers(c) :
       /\ Take(r, <<>>)
       /\ Shows(c, "Servers", [Servers EXCEPT !.diagOf = r.val.of])
  /\ UNCHANGED app

CloseDiagnostics ==
  /\ Open("Servers") /\ Servers.diag # NoServer
  /\ ServersDoes([Servers EXCEPT !.diag = NoServer], <<>>)

ServiceAct(action) ==
  /\ Open("Servers") /\ Servers.diag # NoServer /\ Servers.diagOf # NoServer
  /\ ServersDoes(Servers,
       << ServersCall("serverServiceAction",
            [server |-> Servers.diag, service |-> "httpd", action |-> action],
            "serviced", Shown(Servers.diagOf)) >>)

\* The row is replaced by the service's status on the server acted on.
Serviced ==
  /\ Awaited("serviced")
  /\ LET c == Head(queue) IN
     \E r \in Answers(c) :
       Take(r, << [c EXCEPT !.op = "serverServiceStatus", !.x = c.x.server,
                            !.k = "-", !.e = 0] >>)
  /\ UNCHANGED << app, tabs >>

-----------------------------------------------------------------------------
(* The hosting-panel window *)

LoadPanel(s) == << ServersCall("panelReadings", s, "panel read", s) >>

OpenPanel(s) ==
  /\ AtTable /\ s \in DOMAIN app.servers /\ app.servers[s].panel
  /\ ServersDoes([Servers EXCEPT !.panel = s], LoadPanel(s))

RefreshPanel ==
  /\ Open("Servers") /\ Servers.panel # NoServer /\ Servers.target = NoServer
  /\ ServersDoes(Servers, LoadPanel(Servers.panel))

PanelRead ==
  /\ Awaited("panel read")
  /\ LET c == Head(queue) IN
     \E r \in Answers(c) :
       /\ Take(r, <<>>)
       /\ Shows(c, "Servers", [Servers EXCEPT !.panelOf = r.val.of])
  /\ UNCHANGED app

ClosePanel ==
  /\ Open("Servers") /\ Servers.panel # NoServer /\ Servers.target = NoServer
  /\ ServersDoes([Servers EXCEPT !.panel = NoServer], <<>>)

\* A row of the account list can be used.
AtAccounts ==
  /\ Open("Servers") /\ Servers.panel # NoServer
  /\ Servers.panelOf # NoServer /\ Servers.target = NoServer

PanelCall(op, x, of) == << ServersCall(op, x, "-", Shown(of)) >>

SelectAccount ==
  /\ AtAccounts
  /\ ServersDoes(Servers, << ServersCall("accountReadings",
       [server |-> Servers.panel, user |-> "account"], "-", 0) >>)

\* The suspension dialog wants the account's name typed.
AskSuspend ==
  /\ AtAccounts
  /\ ServersDoes([Servers EXCEPT !.target = Servers.panelOf, !.typed = FALSE],
                 <<>>)

TypeAccount ==
  /\ Open("Servers") /\ Servers.target # NoServer
  /\ ServersDoes([Servers EXCEPT !.typed = TRUE], <<>>)

CancelSuspend ==
  /\ Open("Servers") /\ Servers.target # NoServer
  /\ ServersDoes([Servers EXCEPT !.target = NoServer, !.typed = FALSE], <<>>)

ConfirmSuspend ==
  /\ Open("Servers") /\ Servers.target # NoServer /\ Servers.typed
  /\ ServersDoes(Servers, << ServersCall("cpanelSuspendAccount",
       [server |-> Servers.panel, user |-> "account"], "suspended",
       Shown(Servers.target)) >>)

Suspended ==
  /\ Awaited("suspended")
  /\ LET c == Head(queue) IN
     \E r \in Answers(c) :
       /\ Take(r, <<>>)
       /\ Shows(c, "Servers",
                [Servers EXCEPT !.target = NoServer, !.typed = FALSE])
  /\ UNCHANGED app

UnsuspendAccount ==
  /\ AtAccounts
  /\ ServersDoes(Servers, PanelCall("cpanelUnsuspendAccount",
       [server |-> Servers.panel, user |-> "account"], Servers.panelOf))

RestartPanelService ==
  /\ AtAccounts
  /\ ServersDoes(Servers, PanelCall("cpanelRestartService",
       [server |-> Servers.panel, service |-> "exim"], Servers.panelOf))

-----------------------------------------------------------------------------
ServersOperator ==
  /\ Open("Servers")
  /\ \/ ToggleAdd \/ CancelEdit \/ FetchDiscovered \/ KeepBlocked
     \/ \E s \in ServerIds :
          \/ EditServer(s) \/ Submit(s) \/ ImportDiscovered(s)
          \/ RemoveServer(s) \/ TestConnection(s) \/ AcceptHostKey(s)
          \/ OpenDiagnostics(s) \/ OpenPanel(s)
     \/ FillForm("password", TRUE, FALSE, FALSE, NoRef, FALSE)
     \/ \E pw \in BOOLEAN, whm \in Servers.refs \cup {NoRef} :
          FillForm("password", pw, TRUE, whm = NoRef, whm, TRUE)
     \/ FillForm("key", FALSE, TRUE, FALSE, NoRef, FALSE)
     \/ RefreshDiagnostics \/ CloseDiagnostics
     \/ \E action \in {"restart", "stop"} : ServiceAct(action)
     \/ RefreshPanel \/ ClosePanel \/ SelectAccount \/ AskSuspend
     \/ TypeAccount \/ CancelSuspend \/ ConfirmSuspend \/ UnsuspendAccount
     \/ RestartPanelService

ServersAnswer ==
  \/ TokensListed \/ PasswordSaved \/ TokenSaved \/ ConnectionTested
  \/ TestGoesOn \/ HostKeyAccepted \/ Diagnosed \/ Serviced \/ PanelRead \/ Suspended
=============================================================================
