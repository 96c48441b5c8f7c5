---------------------------- MODULE WebChatInvariant ----------------------------
(***************************************************************************)
(* The inductive invariant of the web chat.  A session's messages are in    *)
(* many places at once: in the view, in the server's file, in a save on its *)
(* way, in an answer not yet applied; none of them holds a turn that was    *)
(* sent in another session, or a delta that the stream has yet to bring.    *)
(***************************************************************************)
EXTENDS WebChat

\* What the variables hold.
TurnRecord == [id : Turns, shown : Seq(Nat), streaming : BOOLEAN]
Content == [turns : Seq(TurnRecord), loaded : BOOLEAN]
Held(f) == DOMAIN f \subseteq Sessions /\ f \in [DOMAIN f -> Content]
ReaderState == [turn : Turns, half : BOOLEAN]

SaveRequest == [op : {"save"}, s : Sessions, stage : {"sent"}, body : Content]
SelectRequest == [op : {"select"}, s : Sessions, stage : {"sent", "answered"},
                  body : Content \cup {NoAnswer}]
DeleteRequest == [op : {"delete"}, s : Sessions, stage : {"sent", "answered"}, body : {NoAnswer}]
RefreshRequest ==
    [op : {"refresh"}, s : Sessions, stage : {"sent"}, body : {NoAnswer}] \cup
    [op : {"refresh"}, s : Sessions, stage : {"listed"},
     body : [list : SUBSET Sessions, detail : {NoAnswer}]] \cup
    [op : {"refresh"}, s : Sessions, stage : {"answered"},
     body : [list : SUBSET Sessions, detail : Content]]
RequestRecord == SaveRequest \cup SelectRequest \cup DeleteRequest \cup RefreshRequest

Message == [calls : Seq(1..MaxCalls)] \cup [result : 1..MaxCalls]
AgentState == [phase : {"none", "stream", "tools", "ended", "dead", "over"}, loop : 0..MaxLoops,
               calls : Seq(1..MaxCalls), ran : Nat, said : BOOLEAN,
               convo : Seq(Message), sent : Nat, wire : Seq(Nat)]

TypesFit ==
    /\ Held(local) /\ active \in Sessions
    /\ reader \in ReaderState \cup {NoReader}
    /\ timers \in Nat /\ ops \in 0..MaxOps /\ torn \subseteq Sessions
    /\ requests \subseteq RequestRecord
    /\ store = [files |-> store.files, index |-> store.index]
    /\ Held(store.files) /\ store.index \in (SUBSET Sessions) \cup {NoIndex}
    /\ agent \in [Turns -> AgentState]
    /\ home \in [Turns -> Sessions \cup {NoAnswer}]
    /\ calm \subseteq Turns

\* Turns are sent in order, and every one that was sent accounts for one send or timer at most.
SentFit ==
    \E k \in 0..MaxTurns :
        /\ \A t \in Turns : agent[t].phase # "none" <=> t <= k
        /\ timers + (IF isThinking THEN 1 ELSE 0) <= k
ReaderFit == isThinking => agent[reader.turn].phase \notin {"none", "over"}

Live(a) == a.phase \in {"stream", "tools"}

\* The wire of an agent: deltas in order, the closing event last.
WireFit(a) ==
    /\ \A j, k \in DOMAIN a.wire :
         j < k => a.wire[j] # Closing /\ (a.wire[k] # Closing => a.wire[j] < a.wire[k])
    /\ Live(a) => \A k \in DOMAIN a.wire : a.wire[k] # Closing /\ a.wire[k] <= a.sent

\* The first n messages of a conversation: every call has its result.
Answered(c, n) ==
    \A i \in 1..n : "calls" \in DOMAIN c[i] =>
        /\ IsInjective(c[i].calls)
        /\ i + Len(c[i].calls) <= n
        /\ \A k \in DOMAIN c[i].calls : c[i + k] = [result |-> c[i].calls[k]]

\* While the calls of a round run, the results so far follow their assistant's turn.
ConvoFit(a) ==
    /\ Live(a) => IsInjective(a.calls)
    /\ a.phase = "stream" => a.ran = 0 /\ Answered(a.convo, Len(a.convo))
    /\ a.phase = "tools" =>
         LET n == Len(a.convo) - a.ran IN
         /\ n > 0 /\ a.ran < Len(a.calls)
         /\ Answered(a.convo, n - 1)
         /\ a.convo[n] = [calls |-> a.calls]
         /\ \A k \in 1..a.ran : a.convo[n + k] = [result |-> a.calls[k]]

AgentsFit ==
    \A t \in Turns : /\ WireFit(agent[t]) /\ ConvoFit(agent[t])
                     /\ agent[t].phase = "none" => agent[t] = Idle

\* But for the torn sessions, the index is there for the files.
StoreFit ==
    store.index = NoIndex \/ \A s \in Sessions \ torn : s \in store.index <=> s \in DOMAIN store.files

Rising(shown) == \A j, k \in DOMAIN shown : j < k => shown[j] < shown[k]

\* What is shown of a turn came before what its stream has yet to bring.
Behind(turn, a) ==
    \A j \in DOMAIN turn.shown :
        /\ \A k \in DOMAIN a.wire : a.wire[k] # Closing => turn.shown[j] < a.wire[k]
        /\ Live(a) => turn.shown[j] <= a.sent

TurnFit(s, turn) ==
    /\ home[turn.id] = s
    /\ agent[turn.id].phase # "none"
    /\ Rising(turn.shown)
    /\ isThinking /\ reader.turn = turn.id => Behind(turn, agent[turn.id])

\* Every copy of a session's messages, with the session it is taken for.
Fits(s, content) == \A i \in DOMAIN content.turns : TurnFit(s, content.turns[i])
RequestFits(r) ==
    /\ r.op = "save" => Fits(r.s, r.body)
    /\ r.op = "select" /\ r.body # NoAnswer => Fits(r.s, r.body)
    /\ r.op = "refresh" /\ r.stage = "answered" => Fits(r.s, r.body.detail)
CopiesFit ==
    /\ \A s \in DOMAIN local : Fits(s, local[s])
    /\ \A s \in DOMAIN store.files : Fits(s, store.files[s])
    /\ \A r \in requests : RequestFits(r)

\* An undisturbed answer: what is shown and what is on the wire are what was sent, in order.
Whole(turn, a) ==
    LET n == Len(turn.shown)
        m == Len(a.wire)
    IN /\ \A k \in 1..n : turn.shown[k] = k
       /\ Live(a) =>
            n + m = a.sent /\ turn.streaming /\ \A k \in 1..m : a.wire[k] = n + k
       /\ a.phase = "ended" =>
            \/ m = 0 /\ n = a.sent /\ ~turn.streaming
            \/ /\ m > 0 /\ n + m = a.sent + 1 /\ turn.streaming
               /\ a.wire[m] = Closing /\ \A k \in 1..(m - 1) : a.wire[k] = n + k
CalmFit ==
    /\ calm # {} => \A r \in requests : r.op = "save"
    /\ calm # {} /\ isThinking =>
         LET t == reader.turn IN
         /\ calm = {t} /\ agent[t].phase # "dead"
         /\ active \in DOMAIN local /\ home[t] = active
         /\ \E i \in DOMAIN local[active].turns : local[active].turns[i].id = t
         /\ \A i \in DOMAIN local[active].turns :
              local[active].turns[i].id = t => Whole(local[active].turns[i], agent[t])

WebInv == TypesFit /\ SentFit /\ ReaderFit /\ AgentsFit /\ StoreFit /\ CopiesFit /\ CalmFit
=============================================================================
