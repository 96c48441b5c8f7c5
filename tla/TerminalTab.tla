----------------------------- MODULE TerminalTab -----------------------------
(***************************************************************************)
(* The terminal view of the desktop interface (views/TerminalView.tsx).    *)
(* Sessions live in the backend and outlast the view.  The view polls the  *)
(* selected one every 150 ms and appends what it is answered to a screen;  *)
(* a poll remembers the session it was made for, but what it compares and  *)
(* writes to is whatever the view shows when the answer comes.             *)
(***************************************************************************)
EXTENDS DesktopCore

CONSTANTS
  Lines,      \* what the operator may type
  MaxOutput,  \* lines a shell writes of its own accord
  MaxPolls    \* polls in flight

ASSUME TerminalAssumption == {MaxOutput, MaxPolls} \subseteq Nat

NoTerm == 0

\* State of the component: the sessions on its tab bar, the selected one,
\* the last sequence number seen of it and what has been written to the
\* screen since it was selected.
FreshTerminal(mount) ==
  [mount |-> mount, sessions |-> <<>>, cur |-> NoTerm, lastSeq |-> 0,
   screen |-> <<>>, servers |-> {}]

Terminal == tabs["Terminal"]
TermCall(op, x, k, e) == Call(op, x, k, e, "Terminal")

\* The sessions are loaded on mount and whenever another server or another
\* session becomes the active one.
SessionsCall(mount, server, cur) ==
  [op |-> "listTerminalSessions", x |-> 0, k |-> "sessions",
   e |-> [cur |-> cur, server |-> server], on |-> mount]

TerminalEffect(mount, server) ==
  << [op |-> "listServers", x |-> 0, k |-> "available", e |-> 0, on |-> mount],
     SessionsCall(mount, server, NoTerm) >>

PollCall(mount, id, seen) ==
  [op |-> "readTerminalOutput", x |-> [id |-> id, lastSeq |-> seen],
   k |-> "polled", e |-> id, on |-> mount]

\* Selecting another session empties the screen, polls at once, and loads
\* the sessions again.
Selected(me, id) ==
  IF id = me.cur THEN me
  ELSE [me EXCEPT !.cur = id, !.lastSeq = 0, !.screen = <<>>]

SelectionEffect(me, id) ==
  IF id = me.cur THEN <<>>
  ELSE << SessionsCall(me.mount, ActiveServer, id), PollCall(me.mount, id, 0) >>

\* The first live session of a list, else its first: the core lists the
\* newest first, the page the oldest.
FirstShown(list) ==
  LET live == {id \in DOMAIN list : list[id].live}
      from == IF live = {} THEN DOMAIN list ELSE live
  IN IF Min(from) > 100 THEN Min(from) ELSE Max(from)

\* A step of an answer: show "new", then select "id".
ShowsSession(c, r, new, id) ==
  IF Live(c, "Terminal")
  THEN /\ Take(r, SelectionEffect(new, id))
       /\ tabs' = [tabs EXCEPT !["Terminal"] = Selected(new, id)]
  ELSE Take(r, <<>>) /\ UNCHANGED tabs

ServersAvailable ==
  /\ Awaited("available")
  /\ LET c == Head(queue) IN
     \E r \in Answers(c) :
       /\ Take(r, <<>>)
       /\ Shows(c, "Terminal", [Terminal EXCEPT !.servers = DOMAIN r.val])
  /\ UNCHANGED app

\* An empty list starts the first session, on the active server; a selection
\* that is not listed is replaced.  Both go by the values of the render that
\* asked.
SessionsListed ==
  /\ Awaited("sessions")
  /\ LET c == Head(queue) IN
     \E r \in Answers(c) :
       IF r.val = <<>>
       THEN /\ Take(r, << [c EXCEPT !.op = "startTerminalSession",
                                    !.x = c.e.server, !.k = "started",
                                    !.e = "only"] >>)
            /\ UNCHANGED tabs
       ELSE ShowsSession(c, r, [Terminal EXCEPT !.sessions = r.val],
              IF c.e.cur \in DOMAIN r.val THEN Terminal.cur
              ELSE FirstShown(r.val))
  /\ UNCHANGED app

\* A new session is selected.
SessionStarted ==
  /\ Awaited("started")
  /\ LET c == Head(queue) IN
     \E r \in Answers(c) : \E id \in DOMAIN r.val :
       ShowsSession(c, r,
         [Terminal EXCEPT !.sessions = IF c.e = "only" THEN r.val
                                       ELSE Bind(@, id, r.val[id])], id)
  /\ UNCHANGED app

-----------------------------------------------------------------------------
(* Output *)

\* The shell of a session of the core writes.
ShellWrites(id) ==
  /\ id \in DOMAIN store.core.terms /\ store.core.terms[id].live
  /\ store.core.terms[id].seq <= MaxOutput
  /\ store' = [store EXCEPT !.core.terms[id] = Output(@, "line")]
  /\ UNCHANGED << tauri, faults, queue, app, tabs, acts >>

Polling == Cardinality({i \in DOMAIN queue : queue[i].k = "polled"})

Poll ==
  /\ Open("Terminal") /\ Terminal.cur # NoTerm /\ Polling < MaxPolls
  /\ queue' = Append(queue,
                PollCall(Terminal.mount, Terminal.cur, Terminal.lastSeq))
  /\ UNCHANGED << tauri, store, faults, app, tabs, acts >>

\* An answer that is newer than what was last seen is appended, whole.
OutputRead ==
  /\ Awaited("polled")
  /\ LET c == Head(queue) IN
     \E r \in Answers(c) :
       /\ Take(r, <<>>)
       /\ Shows(c, "Terminal",
            IF r.val.seq > Terminal.lastSeq /\ r.val.data # <<>>
            THEN [Terminal EXCEPT !.lastSeq = r.val.seq,
                                  !.screen = @ \o r.val.data]
            ELSE Terminal)
  /\ UNCHANGED app

-----------------------------------------------------------------------------
(* The operator *)

SelectSession(id) ==
  /\ Open("Terminal") /\ id \in DOMAIN Terminal.sessions /\ id # Terminal.cur
  /\ Does("Terminal", Selected(Terminal, id), SelectionEffect(Terminal, id))

\* The dialog offers the servers and the workstation.
CreateSession(server) ==
  /\ Open("Terminal") /\ server \in Terminal.servers \cup {NoServer}
  /\ Does("Terminal", Terminal,
          << TermCall("startTerminalSession", server, "started", "added") >>)

Reconnect ==
  /\ Open("Terminal") /\ Terminal.cur \in DOMAIN Terminal.sessions
  /\ Does("Terminal", Terminal,
          << TermCall("startTerminalSession",
                      Terminal.sessions[Terminal.cur].server,
                      "started", "added") >>)

TypeLine(line) ==
  /\ Open("Terminal") /\ Terminal.cur # NoTerm
  /\ Does("Terminal", Terminal,
          << TermCall("sendTerminalInput",
                      [id |-> Terminal.cur, line |-> line], "-", 0) >>)

Interrupt ==
  /\ Open("Terminal") /\ Terminal.cur # NoTerm
  /\ Does("Terminal", Terminal,
          << TermCall("interruptTerminal", Terminal.cur, "-", 0) >>)

ClearScreen == Does("Terminal", [Terminal EXCEPT !.screen = <<>>], <<>>)

Terminate(id) ==
  /\ Open("Terminal") /\ id \in DOMAIN Terminal.sessions
  /\ Does("Terminal", Terminal,
          << TermCall("terminateTerminalSession", id, "terminated",
                      [id |-> id, cur |-> Terminal.cur]) >>)

\* The list is read again, and if the session was the selected one at the
\* click, another is selected.
Terminated ==
  /\ Awaited("terminated")
  /\ LET c == Head(queue) IN
     \E r \in Answers(c) :
       Take(r, << [c EXCEPT !.op = "listTerminalSessions", !.x = 0,
                            !.k = "relisted"] >>)
  /\ UNCHANGED << app, tabs >>

SessionsRelisted ==
  /\ Awaited("relisted")
  /\ LET c == Head(queue) IN
     \E r \in Answers(c) :
       ShowsSession(c, r, [Terminal EXCEPT !.sessions = r.val],
         IF c.e.id = c.e.cur /\ r.val # <<>> THEN FirstShown(r.val)
         ELSE Terminal.cur)
  /\ UNCHANGED app

-----------------------------------------------------------------------------
TerminalOperator ==
  /\ Open("Terminal")
  /\ \/ \E id \in DOMAIN Terminal.sessions : SelectSession(id) \/ Terminate(id)
     \/ \E s \in ServerIds \cup {NoServer} : CreateSession(s)
     \/ \E line \in Lines : TypeLine(line)
     \/ Reconnect \/ Interrupt \/ ClearScreen

TerminalAnswer ==
  \/ ServersAvailable \/ SessionsListed \/ SessionStarted \/ OutputRead
  \/ Terminated \/ SessionsRelisted

TerminalProgress ==
  Poll \/ \E id \in DOMAIN store.core.terms : ShellWrites(id)
=============================================================================
