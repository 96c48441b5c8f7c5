------------------------------ MODULE WebChat ------------------------------
(***************************************************************************)
(* The chat of the web edition, both ends of it: the ChatView of the       *)
(* browser (apps/web/src/client/views/ChatView.tsx), the session routes and*)
(* the streaming route of the server (server/index.ts) over the store of   *)
(* WebSessions, and the agent loop behind the stream (server/chat.ts).     *)
(* A turn is a user message with the assistant message that answers it:    *)
(* ChatView always appends the two together.  Requests of the browser are  *)
(* answered in any order, and what comes back is applied to whatever state *)
(* the view has by then.                                                   *)
(***************************************************************************)
EXTENDS Naturals, Sequences, SequencesExt, FiniteSets, WebSessions

CONSTANTS MaxCalls,   \* tool calls in one answer of the provider; ids in order of appearance
          MaxWire,    \* events the server may be ahead of the browser
          NoReader,   \* no handleSend is running
          NoAnswer,   \* a request that was not answered with data
          MaxTurns,   \* messages the user sends
          MaxOps,     \* what may happen in all: send, new, select, delete, refresh, leave,
                      \* a broken stream, a failed request, a failing file, a crash
          MaxEvents,  \* text deltas the provider sends in one turn
          MaxLoops    \* maxLoops of runWebChat (6 in the code)

ASSUME WebChatBounds == MaxTurns \in Nat \ {0} /\ MaxOps \in Nat /\ MaxEvents \in Nat
                        /\ MaxLoops \in Nat \ {0} /\ MaxCalls \in Nat
ASSUME SessionsNonempty == Sessions # {}
ASSUME NoReaderAssumption == NoReader \notin [turn : 1..MaxTurns, half : BOOLEAN]

VARIABLES local,    \* the view's sessions: id -> [turns, loaded]
          active,   \* activeId
          reader,   \* the running handleSend: its turn and the SSE buffer
          timers,   \* 150 ms timers of finished sends
          requests, \* requests under way and answers not yet applied
          store,    \* the server's files and index
          agent,    \* runWebChat per turn, with the events still on the wire
          ops,      \* bound: operations and faults so far
          home, calm, \* history: the session a turn was sent in; turns nobody disturbed
          torn      \* history: sessions whose last save or delete went wrong, or that a rebuild missed

view == <<local, active, reader, timers>>
history == <<home, calm>>
vars == <<local, active, reader, timers, requests, store, agent, ops, home, calm, torn>>

Turns == 1..MaxTurns
isThinking == reader # NoReader
NewSession == [turns |-> <<>>, loaded |-> TRUE]   \* createDefaultSession: the welcome message
Summary == [turns |-> <<>>, loaded |-> FALSE]     \* { ...s, messages: [] }
Fresh == {s \in Sessions : s \notin DOMAIN local /\ s \notin DOMAIN store.files
                           /\ s \notin ListChatSessions(store)
                           /\ \A r \in requests : r.s # s}
Turn(t) == [id |-> t, shown |-> <<>>, streaming |-> TRUE]
Idle == [phase |-> "none", loop |-> 0, calls |-> <<>>, ran |-> 0, said |-> FALSE,
         convo |-> <<>>, sent |-> 0, wire |-> <<>>]
\* A turn nobody follows any more: its request is over, or its browser has gone.  In the second
\* case runWebChat goes on to its end with the same rounds, but what it says reaches nobody, so
\* the model stops following it too.
Over == [Idle EXCEPT !.phase = "over"]
Abandon == agent' = IF isThinking THEN [agent EXCEPT ![reader.turn] = Over] ELSE agent
Request(op, s, body) == [op |-> op, s |-> s, stage |-> "sent", body |-> body]

\* An SSE event goes out; a delta is the next in number.
Emit(a, event) == [a EXCEPT !.wire = Append(@, event)]
Say(a) == [Emit(a, a.sent + 1) EXCEPT !.sent = @ + 1]
\* The next round asks the provider with the conversation so far.
Ask(a) == [a EXCEPT !.phase = "stream", !.loop = @ + 1, !.calls = <<>>, !.ran = 0, !.said = FALSE]

\* loadInitialSessions: one default session, or what an earlier visit left in localStorage
\* and on the server, here an empty session and one with an answered turn.
PastTurn == [id |-> 1, shown |-> <<1>>, streaming |-> FALSE]
FirstVisit == /\ active = CHOOSE s \in Sessions : TRUE
              /\ local = [x \in {active} |-> NewSession]
              /\ store = EmptyStore
              /\ agent = [t \in Turns |-> Idle]
              /\ home = [t \in Turns |-> NoAnswer]
ReturnVisit ==
    /\ active = CHOOSE s \in Sessions : TRUE
    /\ \E past \in Sessions \ {active} :
         /\ local = [x \in {active, past} |->
                       IF x = past THEN [turns |-> <<PastTurn>>, loaded |-> TRUE] ELSE NewSession]
         /\ store = [files |-> local, index |-> DOMAIN local]
         /\ agent = [t \in Turns |-> IF t = 1 THEN Over ELSE Idle]
         /\ home = [t \in Turns |-> IF t = 1 THEN past ELSE NoAnswer]
Init == /\ FirstVisit \/ ReturnVisit
        /\ reader = NoReader /\ timers = 0 /\ requests = {}
        /\ ops = 0 /\ torn = {} /\ calm = {}

-----------------------------------------------------------------------------
\* The view.  setMessages works on the session that is active when it runs: no session
\* changes when activeId is not (or no longer) one of them.
Has(session, t) == \E i \in DOMAIN session.turns : session.turns[i].id = t
setMessages(Op(_)) == IF active \in DOMAIN local
                      THEN [local EXCEPT ![active] = [turns |-> Op(@.turns), loaded |-> TRUE]]
                      ELSE local
\* Mutant: the update goes to the newest answer on screen, whichever it is.
IsNewest(turns, i, t) == i = Len(turns)
\* prev.map(m => m.id === assistantMsgId ? ... : m)
IsTarget(turns, i, t) == turns[i].id = t
Patch(turns, t, Op(_)) ==
    [i \in DOMAIN turns |-> IF IsTarget(turns, i, t) THEN Op(turns[i]) ELSE turns[i]]
\* The updates for a turn leave a session without it as it is (and without messages if it
\* had none).
UpdateTurn(t, Op(_)) ==
    IF active \in DOMAIN local /\ local[active].turns # <<>>
    THEN [local EXCEPT ![active].turns = Patch(@, t, Op)]
    ELSE local

\* An operation or a fault that disturbs a turn under way.
Extra == ops < MaxOps /\ ops' = ops + 1 /\ calm' = {}

\* The input form is disabled while a send is running.
FormEnabled == ~isThinking
\* The answers whose choices can be clicked: the last one on the screen, when it is complete.
\* The screen shows the first session of the list when activeId is not one of them.
OnScreen == IF active \in DOMAIN local THEN {active} ELSE DOMAIN local
Offered == {t \in {Last(local[s].turns) : s \in {x \in OnScreen : local[x].turns # <<>>}} :
              ~t.streaming /\ ~isThinking}
\* handleSend, up to its fetch, from the form or from a choice.
Send == LET sent == {u \in Turns : agent[u].phase # "none"}
            t == Cardinality(sent) + 1
            Push(turns) == Append(turns, Turn(t))
        IN /\ t \in Turns /\ ops < MaxOps /\ ops' = ops + 1
           /\ FormEnabled \/ Offered # {}
           /\ local' = setMessages(Push)
           /\ reader' = [turn |-> t, half |-> FALSE]
           /\ agent' = [agent EXCEPT ![t] = Ask(@)]
           /\ home' = [home EXCEPT ![t] = IF active \in DOMAIN local THEN active ELSE NoAnswer]
           /\ calm' = IF active \in DOMAIN local /\ \A r \in requests : r.op = "save"
                      THEN {t} ELSE {}
           /\ UNCHANGED <<active, timers, requests, store, torn>>

\* One SSE event, complete in the buffer, applied by handleSend.
Closing == 0   \* the done or the error event; the deltas are numbered from 1
Show(event, turn) == IF event = Closing
                     THEN [turn EXCEPT !.streaming = FALSE]
                     ELSE [turn EXCEPT !.shown = Append(@, event)]
Take(t) == agent' = [agent EXCEPT ![t].wire = Tail(@)]
\* reader.read() returns bytes up to any point of the stream: a half-read event waits in
\* the buffer (lines.pop()) until the rest of it comes.
Read == /\ isThinking /\ agent[reader.turn].wire # <<>>
        /\ LET t == reader.turn
               Op(turn) == Show(Head(agent[t].wire), turn)
           IN \/ ~reader.half /\ reader' = [reader EXCEPT !.half = TRUE] /\ UNCHANGED <<local, agent>>
              \/ /\ local' = UpdateTurn(t, Op)
                 /\ reader' = [reader EXCEPT !.half = FALSE]
                 /\ Take(t)
        /\ UNCHANGED <<active, timers, requests, store, ops, torn, history>>

\* The finally block of handleSend: after the end of the stream, or an error of the fetch
\* or of the read.
Settle == LET Op(turn) == [turn EXCEPT !.streaming = FALSE]
          IN local' = UpdateTurn(reader.turn, Op) /\ reader' = NoReader /\ timers' = timers + 1
\* Mutant: the reader waits for a done event, which a dead server never sends.
FinishOnDone ==
    /\ isThinking /\ agent[reader.turn].phase = "ended" /\ agent[reader.turn].wire = <<>>
    /\ Settle /\ Abandon
    /\ UNCHANGED <<active, requests, store, ops, torn, history>>
\* Mutant: the read loop ends with blocks still unread.
FinishEarly ==
    /\ isThinking /\ agent[reader.turn].phase \in {"ended", "dead"} /\ Settle /\ Abandon
    /\ UNCHANGED <<active, requests, store, ops, torn, history>>
Finish == /\ isThinking
          /\ LET a == agent[reader.turn] IN a.phase \in {"ended", "dead"} /\ a.wire = <<>>
          /\ Settle /\ Abandon
          /\ UNCHANGED <<active, requests, store, ops, torn, history>>
\* fetch rejects, answers with an error status, or the connection breaks.
Break == /\ isThinking /\ Extra /\ Settle /\ Abandon
         /\ UNCHANGED <<active, requests, store, torn, home>>

\* syncSessionToServer of the session that is active when the timer fires.
SyncTimer == /\ timers > 0 /\ timers' = timers - 1
             /\ requests' = requests \cup (IF active \in DOMAIN local
                                           THEN {Request("save", active, local[active])} ELSE {})
             /\ UNCHANGED <<local, active, reader, store, agent, ops, torn, history>>

\* handleNewChat; nothing of it is disabled while an answer streams.
NewChat == /\ Extra
           /\ \E s \in Fresh : /\ local' = [x \in DOMAIN local \cup {s} |->
                                              IF x = s THEN NewSession ELSE local[x]]
                               /\ active' = s
                               /\ requests' = requests \cup {Request("save", s, NewSession)}
           /\ UNCHANGED <<reader, timers, store, agent, torn, home>>

\* handleSelectSession: a session whose messages are not here is asked for first.
SelectSession ==
    /\ Extra
    /\ \E s \in DOMAIN local :
         IF local[s].loaded THEN active' = s /\ UNCHANGED requests
         ELSE requests' = requests \cup {Request("select", s, NoAnswer)} /\ UNCHANGED active
    /\ UNCHANGED <<local, reader, timers, store, agent, torn, home>>

\* handleDeleteSession: the button is there while more than one session is listed.
DeleteSession == /\ Extra
                 /\ Cardinality(DOMAIN local) > 1
                 /\ \E s \in DOMAIN local : requests' = requests \cup {Request("delete", s, NoAnswer)}
                 /\ UNCHANGED <<local, active, reader, timers, store, agent, torn, home>>

\* refreshSessionsFromServer with the activeId of the render that was clicked.
Refresh == /\ Extra
           /\ requests' = requests \cup {Request("refresh", active, NoAnswer)}
           /\ UNCHANGED <<view, store, agent, torn, home>>

\* Another tab of the app and back: the view is unmounted and mounted again, its sessions
\* come back from localStorage, never none of them, answers under way are dropped, and it
\* refreshes.  An active session that is not one of them gives way to one that is.
Remount == /\ Extra
           /\ active' \in IF active \in DOMAIN local THEN {active} ELSE DOMAIN local
           /\ reader' = NoReader /\ timers' = 0
           /\ requests' = {r \in requests : r.op = "save"}
                          \cup {Request("refresh", active', NoAnswer)}
           /\ Abandon
           /\ UNCHANGED <<local, store, torn, home>>

-----------------------------------------------------------------------------
\* The server answers a request; saves and deletes change the store in one step.  One that
\* is complete puts right what an earlier one left behind, and so does a rebuild, of all.
Answer(r, body) == requests' = (requests \ {r}) \cup {[r EXCEPT !.stage = "answered", !.body = body]}
Mended(sessions) == torn' = IF store.index = NoIndex THEN {} ELSE torn \ sessions
ServeSave == \E r \in requests :
    /\ r.op = "save"
    /\ requests' = requests \ {r}
    /\ store' = SaveChatSession(store, r.s, r.body) /\ Mended({r.s})
    /\ UNCHANGED <<view, agent, ops, history>>
ServeDelete == \E r \in requests :
    /\ r.op = "delete" /\ r.stage = "sent"
    /\ Answer(r, NoAnswer)
    /\ store' = DeleteChatSession(store, r.s) /\ Mended({r.s})
    /\ UNCHANGED <<view, agent, ops, history>>
\* A call of the file system fails on the way; a delete is answered all the same, and nobody
\* reads the answer of a save.
Tear(o, sessions) == store' = o.store /\ torn' = torn \cup sessions \cup o.missed
ServeWrongly == \E r \in requests :
    /\ Extra
    /\ \/ /\ r.op = "save" /\ requests' = requests \ {r}
          /\ \E o \in SaveGoesWrong(store, r.s, r.body) : Tear(o, {r.s})
       \/ /\ r.op = "delete" /\ r.stage = "sent" /\ Answer(r, NoAnswer)
          /\ \E o \in DeleteGoesWrong(store, r.s) : Tear(o, {r.s})
    /\ UNCHANGED <<view, agent, home>>
ServeGet == \E r \in requests :
    /\ r.op = "select" /\ r.stage = "sent"
    /\ Answer(r, IF HasSession(store, r.s) THEN GetChatSession(store, r.s) ELSE NoAnswer)
    /\ UNCHANGED <<view, store, agent, ops, torn, history>>
\* The two GETs of a refresh: the list, from which the view takes its target ...
Listed(r, list) ==
    IF list = {}
    THEN requests' = (requests \ {r}) \cup {Request("save", s, local[s]) : s \in DOMAIN local}
    ELSE \E target \in (IF r.s \in list THEN {r.s} ELSE list) :
           requests' = (requests \ {r})
                       \cup {[op |-> "refresh", s |-> target, stage |-> "listed",
                          body |-> [list |-> list, detail |-> NoAnswer]]}
ServeList == \E r \in requests :
    /\ r.op = "refresh" /\ r.stage = "sent"
    /\ store' = AfterListing(store) /\ Mended({})
    /\ Listed(r, ListChatSessions(store))
    /\ UNCHANGED <<view, agent, ops, history>>
ListWrongly == \E r \in requests :
    /\ Extra
    /\ r.op = "refresh" /\ r.stage = "sent"
    /\ \E o \in ListGoesWrong(store) : Tear(o.after, {}) /\ Listed(r, o.list)
    /\ UNCHANGED <<view, agent, home>>
\* ... and the target's messages.  A session without a file is a 404: nothing is refreshed.
ServeDetail == \E r \in requests :
    /\ r.op = "refresh" /\ r.stage = "listed"
    /\ requests' = (requests \ {r}) \cup
         (IF HasSession(store, r.s)
          THEN {[r EXCEPT !.stage = "answered", !.body.detail = GetChatSession(store, r.s)]}
          ELSE {})
    /\ UNCHANGED <<view, store, agent, ops, torn, history>>
\* A request is lost, refused or times out; for a select and a delete the view goes on.
Failed(r) == IF r.op \in {"select", "delete"}
             THEN {[r EXCEPT !.stage = "answered", !.body = NoAnswer]} ELSE {}
Fail == \E r \in requests :
    /\ Extra
    /\ r.stage # "answered"
    /\ requests' = (requests \ {r}) \cup Failed(r)
    /\ UNCHANGED <<view, store, agent, torn, home>>

\* The view applies an answer.
ApplySelect == \E r \in requests :
    /\ r.op = "select" /\ r.stage = "answered"
    /\ local' = IF r.body # NoAnswer /\ r.s \in DOMAIN local
                THEN [local EXCEPT ![r.s] = r.body] ELSE local
    /\ active' = r.s
    /\ requests' = requests \ {r} /\ calm' = {}
    /\ UNCHANGED <<reader, timers, store, agent, ops, torn, home>>
ApplyDelete == \E r \in requests :
    /\ r.op = "delete" /\ r.stage = "answered"
    /\ LET left == DOMAIN local \ {r.s} IN
       IF left # {}
       THEN /\ local' = Restrict(local, left)
            /\ IF active = r.s THEN active' \in left ELSE UNCHANGED active
       ELSE \E s \in Fresh : /\ local' = [x \in {s} |-> NewSession]
                             /\ active' = IF active = r.s THEN s ELSE active
    /\ requests' = requests \ {r} /\ calm' = {}
    /\ UNCHANGED <<reader, timers, store, agent, ops, torn, home>>
ApplyRefresh == \E r \in requests :
    /\ r.op = "refresh" /\ r.stage = "answered"
    /\ local' = [s \in r.body.list |-> IF s = r.s THEN r.body.detail ELSE Summary]
    /\ active' = r.s
    /\ requests' = requests \ {r} /\ calm' = {}
    /\ UNCHANGED <<reader, timers, store, agent, ops, torn, home>>

-----------------------------------------------------------------------------
\* The streaming route and runWebChat.
\* An empty answer is replaced by a fixed text; then the route sends done and ends.
Conclude(a, answered) ==
    [Emit(IF answered THEN a ELSE Say(a), Closing) EXCEPT !.phase = "ended"]
\* Mutant: the rounds are not counted against maxLoops.
NextRound(a) == IF a.loop < MaxLoops THEN Ask(a) ELSE Conclude(a, FALSE)

AgentStep(t, a) == agent' = [agent EXCEPT ![t] = a]
                   /\ UNCHANGED <<view, requests, store, ops, torn, history>>

Ready(t, phase) == agent[t].phase = phase /\ Len(agent[t].wire) < MaxWire
TextDelta(t) == LET a == agent[t] IN
    Ready(t, "stream") /\ a.sent < MaxEvents /\ AgentStep(t, [Say(a) EXCEPT !.said = TRUE])
\* Mutant: every delta of a call starts a new call.
CallPerDelta(a, c) == [a EXCEPT !.calls = Append(@, c)]
\* Deltas of one call are merged by its id.
MergeDelta(a, c) == IF Contains(a.calls, c) THEN a ELSE [a EXCEPT !.calls = Append(@, c)]
CallDelta(t) == LET a == agent[t] IN
    /\ Ready(t, "stream") /\ Len(a.calls) <= MaxCalls
    /\ \E c \in 1..MaxCalls : c <= Len(a.calls) + 1 /\ AgentStep(t, MergeDelta(a, c))
\* The stream ends: without calls that was the answer; with calls the assistant's turn joins
\* the conversation and the calls are run.
StreamEnds(t) == LET a == agent[t] IN
    /\ Ready(t, "stream")
    /\ AgentStep(t, IF a.calls = <<>> THEN Conclude(a, a.said)
                    ELSE [a EXCEPT !.phase = "tools", !.convo = Append(@, [calls |-> a.calls])])
\* One call: its tool event, and its result or its error as the tool's message.
RunCall(a) == [Say(a) EXCEPT !.ran = @ + 1, !.convo = Append(@, [result |-> a.calls[a.ran + 1]])]
RunTool(t) == LET a == RunCall(agent[t]) IN
    Ready(t, "tools") /\ AgentStep(t, IF a.ran = Len(a.calls) THEN NextRound(a) ELSE a)
ProviderFails(t) == LET a == agent[t] IN
    Ready(t, "stream") /\ AgentStep(t, [Emit(a, Closing) EXCEPT !.phase = "ended"])

\* The process dies while it saves or deletes: the rest of it is not done.  Streams break, and
\* so do the other requests.
CrashWhileSaving ==
    /\ Extra
    /\ \E r \in requests :
         /\ \/ r.op = "save" /\ store' \in SaveCutShort(store, r.s, r.body)
            \/ r.op = "delete" /\ r.stage = "sent" /\ store' \in DeleteCutShort(store, r.s)
         /\ torn' = torn \cup {r.s}
    /\ requests' = UNION {IF q.stage = "answered" THEN {q} ELSE Failed(q) : q \in requests}
    /\ agent' = [t \in Turns |-> IF agent[t].phase \in {"stream", "tools"}
                                 THEN [Idle EXCEPT !.phase = "dead", !.wire = agent[t].wire]
                                 ELSE agent[t]]
    /\ UNCHANGED <<view, home>>

Agent(t) == TextDelta(t) \/ CallDelta(t) \/ StreamEnds(t) \/ RunTool(t) \/ ProviderFails(t)
Next == \/ Send \/ Read \/ Finish \/ Break \/ SyncTimer
        \/ NewChat \/ SelectSession \/ DeleteSession \/ Refresh \/ Remount
        \/ ServeSave \/ ServeDelete \/ ServeGet \/ ServeList \/ ServeDetail \/ Fail
        \/ ServeWrongly \/ ListWrongly
        \/ ApplySelect \/ ApplyDelete \/ ApplyRefresh
        \/ \E t \in Turns : Agent(t)
        \/ CrashWhileSaving

\* The event loops of the browser and the server run what is ready, and the provider's stream
\* comes to an end (Node's fetch gives up a response that is silent for minutes).  Nothing is
\* assumed of the tools: some of them have no time limit (system.ts:47, files.ts:273).
Fairness == /\ WF_vars(Read \/ Finish)
            /\ WF_vars(\E t \in Turns : StreamEnds(t))
Spec == Init /\ [][Next]_vars /\ Fairness
-----------------------------------------------------------------------------
TypeOK == /\ DOMAIN local \subseteq Sessions /\ active \in Sessions
          /\ DOMAIN store.files \subseteq Sessions
          /\ store.index = NoIndex \/ store.index \subseteq Sessions
          /\ isThinking => reader.turn \in Turns /\ reader.half \in BOOLEAN
          /\ timers \in 0..MaxTurns /\ ops \in 0..MaxOps /\ torn \subseteq Sessions
          /\ calm \subseteq Turns /\ home \in [Turns -> Sessions \cup {NoAnswer}]
          /\ \A t \in Turns : Range(agent[t].calls) \subseteq 1..MaxCalls /\ agent[t].loop \in 0..MaxLoops

\* An answer never shows up in another conversation than the one it was asked in, on the
\* screen or in the server's file, however the user switches, creates, deletes and refreshes
\* sessions while it streams (ChatView.tsx handleSend and its setMessages updaters).
TurnsOf(session) == {session.turns[i].id : i \in DOMAIN session.turns}
AnswersStayHome ==
    /\ \A s \in DOMAIN local : \A t \in TurnsOf(local[s]) : home[t] = s
    /\ \A s \in DOMAIN store.files : \A t \in TurnsOf(store.files[s]) : home[t] = s
    /\ \A s \in DOMAIN local : \A t \in TurnsOf(local[s]) :
         \A i \in DOMAIN local[s].turns : local[s].turns[i].id = t =>
            \A j, k \in DOMAIN local[s].turns[i].shown :
               j < k => local[s].turns[i].shown[j] < local[s].turns[i].shown[k]

\* An answer the user waited for, without another operation and without a fault, is on the
\* screen whole and finished when the spinner goes, however the stream was cut into reads.
CalmAnswerWhole ==
    [][\A t \in calm \cap calm' :
         isThinking /\ ~isThinking' /\ agent[t].phase = "ended" =>
            \E i \in DOMAIN local'[home[t]].turns :
               local'[home[t]].turns[i] = [id |-> t, shown |-> [k \in 1..agent[t].sent |-> k],
                                           streaming |-> FALSE]]_vars

\* Whatever the tools do and however the provider cuts its call deltas, each request to the
\* provider carries every assistant turn with its calls, each call once, and the result of
\* every call in order (runWebChat's conversation).
ConversationComplete ==
    \A t \in Turns : agent[t].phase = "stream" =>
        LET c == agent[t].convo
        IN \A i \in DOMAIN c : "calls" \in DOMAIN c[i] =>
             /\ IsInjective(c[i].calls)
             /\ i + Len(c[i].calls) <= Len(c)
             /\ \A k \in DOMAIN c[i].calls : c[i + k] = [result |-> c[i].calls[k]]

\* The list the drawer shows and the sessions on disk differ at most in those whose last save
\* or delete was cut short by an error or a crash, or whose file a rebuild could not read: no
\* complete save, delete or listing loses a session, keeps one, or takes another's fault over
\* (sessions.ts, whose errors are passed over).
OnlyTornDiffer ==
    \A s \in Sessions \ torn : s \in ListChatSessions(store) <=> HasSession(store, s)

\* If no tool runs for ever, the send button comes back: the server's rounds, the end of the
\* stream or its break all end the send, even when the server died without a done event.
ThinkingEnds ==
    []<>(\A t \in Turns : agent[t].phase # "tools") => (isThinking ~> ~isThinking)
=============================================================================
