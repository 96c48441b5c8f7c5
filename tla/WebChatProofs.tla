----------------------------- MODULE WebChatProofs -----------------------------
(* Proofs about the chat of the web edition, for every value of its constants. *)
EXTENDS WebChatInvariant, FiniteSetTheorems, TLAPS

(* What the view does to the session it shows *)

\* An event applied to the turn t of a session.
ShownIn(turns, t, e) ==
    [i \in DOMAIN turns |-> IF turns[i].id = t THEN Show(e, turns[i]) ELSE turns[i]]
Applied(t, e) ==
    IF active \in DOMAIN local /\ local[active].turns # <<>>
    THEN [local EXCEPT ![active].turns = ShownIn(@, t, e)]
    ELSE local

\* Reading an event applies it; the end of a send applies the closing one.
LEMMA ReadApplies ==
    ASSUME Read
    PROVE  LET t == reader.turn IN
           \/ ~reader.half /\ reader' = [reader EXCEPT !.half = TRUE] /\ UNCHANGED <<local, agent>>
           \/ /\ local' = Applied(t, Head(agent[t].wire))
              /\ reader' = [reader EXCEPT !.half = FALSE]
              /\ agent' = [agent EXCEPT ![t].wire = Tail(@)]
  BY DEF Read, UpdateTurn, Patch, IsTarget, Applied, ShownIn, Take

\* The end of a send applies the closing event.
LEMMA SettleApplies ==
    ASSUME Settle
    PROVE  local' = Applied(reader.turn, Closing)
  BY DEF Settle, UpdateTurn, Patch, IsTarget, Applied, ShownIn, Show

\* A send adds its turn to the session on screen and asks the provider.
LEMMA SendPushes ==
    ASSUME Send
    PROVE  LET t == Cardinality({u \in Turns : agent[u].phase # "none"}) + 1 IN
           /\ t \in Turns
           /\ local' = IF active \in DOMAIN local
                       THEN [local EXCEPT ![active] =
                               [turns |-> Append(@.turns, Turn(t)), loaded |-> TRUE]]
                       ELSE local
           /\ reader' = [turn |-> t, half |-> FALSE]
           /\ agent' = [agent EXCEPT ![t] = Ask(@)]
           /\ home' = [home EXCEPT ![t] = IF active \in DOMAIN local THEN active ELSE NoAnswer]
           /\ calm' = IF active \in DOMAIN local /\ \A r \in requests : r.op = "save"
                      THEN {t} ELSE {}
  BY DEF Send, setMessages

\* A turn to which an event is applied is a turn.
LEMMA ShowType ==
    ASSUME NEW turn \in TurnRecord, NEW e \in Nat
    PROVE  /\ Show(e, turn) \in TurnRecord
           /\ Show(e, turn).id = turn.id
           /\ e = Closing => Show(e, turn).shown = turn.shown /\ ~Show(e, turn).streaming
           /\ e # Closing => /\ Show(e, turn).shown = Append(turn.shown, e)
                             /\ Show(e, turn).streaming = turn.streaming
  <1>1. CASE e = Closing
    BY <1>1 DEF Show, TurnRecord
  <1>2. CASE e # Closing
    <2>1. Append(turn.shown, e) \in Seq(Nat)
      BY DEF TurnRecord
    <2> QED BY <1>2, <2>1 DEF Show, TurnRecord
  <1> QED BY <1>1, <1>2

\* The turns of a session after an event: as many, one of them changed.
LEMMA ShownInType ==
    ASSUME NEW turns \in Seq(TurnRecord), NEW t, NEW e \in Nat
    PROVE  /\ ShownIn(turns, t, e) \in Seq(TurnRecord)
           /\ DOMAIN ShownIn(turns, t, e) = DOMAIN turns
           /\ \A i \in DOMAIN turns :
                /\ turns[i] \in TurnRecord
                /\ ShownIn(turns, t, e)[i] = IF turns[i].id = t THEN Show(e, turns[i]) ELSE turns[i]
  <1>1. \A i \in DOMAIN turns : turns[i] \in TurnRecord
    OBVIOUS
  <1>2. \A i \in DOMAIN turns : Show(e, turns[i]) \in TurnRecord
    BY <1>1, ShowType
  <1>3. /\ DOMAIN ShownIn(turns, t, e) = DOMAIN turns
        /\ \A i \in DOMAIN turns :
             ShownIn(turns, t, e)[i] = IF turns[i].id = t THEN Show(e, turns[i]) ELSE turns[i]
    BY DEF ShownIn
  <1>4. DOMAIN turns = 1 .. Len(turns) /\ Len(turns) \in Nat
    OBVIOUS
  <1>5. ShownIn(turns, t, e) = [i \in 1 .. Len(turns) |-> ShownIn(turns, t, e)[i]]
    BY <1>4 DEF ShownIn
  <1>6. \A i \in 1 .. Len(turns) : ShownIn(turns, t, e)[i] \in TurnRecord
    BY <1>1, <1>2, <1>3, <1>4
  <1>7. ShownIn(turns, t, e) \in Seq(TurnRecord)
    BY <1>4, <1>5, <1>6, SMT
  <1> QED BY <1>1, <1>3, <1>7

\* The view after an event: the same sessions, the active one with the event applied.
LEMMA AppliedType ==
    ASSUME TypesFit, NEW t, NEW e \in Nat
    PROVE  /\ Held(Applied(t, e))
           /\ DOMAIN Applied(t, e) = DOMAIN local
           /\ \A s \in DOMAIN local : s # active => Applied(t, e)[s] = local[s]
           /\ active \in DOMAIN local =>
                /\ Applied(t, e)[active].turns = ShownIn(local[active].turns, t, e)
                /\ local[active].turns \in Seq(TurnRecord)
  <1>1. CASE active \in DOMAIN local /\ local[active].turns # <<>>
    <2>1. local[active] \in Content /\ local[active].turns \in Seq(TurnRecord)
      BY <1>1 DEF TypesFit, Held, Content
    <2>2. ShownIn(local[active].turns, t, e) \in Seq(TurnRecord)
      BY <2>1, ShownInType
    <2> DEFINE new == [local[active] EXCEPT !.turns = ShownIn(@, t, e)]
    <2>3. new \in Content /\ new.turns = ShownIn(local[active].turns, t, e)
      BY <2>1, <2>2 DEF Content
    <2>4. Applied(t, e) = [local EXCEPT ![active] = new]
      BY <1>1 DEF Applied
    <2> HIDE DEF new
    <2> QED BY <1>1, <2>1, <2>3, <2>4 DEF TypesFit, Held
  <1>2. CASE active \in DOMAIN local /\ local[active].turns = <<>>
    <2>1. Applied(t, e) = local
      BY <1>2 DEF Applied
    <2>2. ShownIn(<<>>, t, e) = <<>>
      <3>1. ShownIn(<<>>, t, e) \in Seq(TurnRecord) /\ DOMAIN ShownIn(<<>>, t, e) = DOMAIN <<>>
        <4>1. <<>> \in Seq(TurnRecord)
          OBVIOUS
        <4> QED BY <4>1, ShownInType
      <3> QED BY <3>1
    <2> QED BY <1>2, <2>1, <2>2 DEF TypesFit, Held
  <1>3. CASE active \notin DOMAIN local
    BY <1>3 DEF Applied, TypesFit
  <1> QED BY <1>1, <1>2, <1>3

-----------------------------------------------------------------------------
(* What the agent's operators do to its state *)

\* A sequence holds elements of its set.
LEMMA ElementOf ==
    ASSUME NEW S, NEW q \in Seq(S), NEW i \in DOMAIN q
    PROVE  q[i] \in S
  OBVIOUS

\* An event on the wire is all that Emit adds.
LEMMA EmitType ==
    ASSUME NEW a \in AgentState, NEW e \in Nat
    PROVE  /\ Emit(a, e) \in AgentState
           /\ Emit(a, e).wire = Append(a.wire, e)
           /\ Emit(a, e).phase = a.phase /\ Emit(a, e).loop = a.loop
           /\ Emit(a, e).calls = a.calls /\ Emit(a, e).ran = a.ran
           /\ Emit(a, e).said = a.said /\ Emit(a, e).convo = a.convo
           /\ Emit(a, e).sent = a.sent
  <1>1. Append(a.wire, e) \in Seq(Nat)
    BY DEF AgentState
  <1> QED BY <1>1 DEF Emit, AgentState

\* Say adds the next delta.
LEMMA SayType ==
    ASSUME NEW a \in AgentState
    PROVE  /\ Say(a) \in AgentState
           /\ Say(a).wire = Append(a.wire, a.sent + 1)
           /\ Say(a).sent = a.sent + 1
           /\ Say(a).phase = a.phase /\ Say(a).loop = a.loop
           /\ Say(a).calls = a.calls /\ Say(a).ran = a.ran
           /\ Say(a).said = a.said /\ Say(a).convo = a.convo
  <1>1. a.sent + 1 \in Nat
    BY DEF AgentState
  <1> DEFINE b == Emit(a, a.sent + 1)
  <1>2. /\ b \in AgentState /\ b.wire = Append(a.wire, a.sent + 1)
        /\ b.phase = a.phase /\ b.loop = a.loop /\ b.calls = a.calls /\ b.ran = a.ran
        /\ b.said = a.said /\ b.convo = a.convo /\ b.sent = a.sent
    BY <1>1, EmitType
  <1>3. Say(a) = [b EXCEPT !.sent = @ + 1]
    BY DEF Say
  <1> HIDE DEF b
  <1>4. Say(a) \in AgentState
    <2>1. b \in AgentState /\ b.sent + 1 \in Nat
      BY <1>1, <1>2
    <2>2. Say(a) = [b EXCEPT !.sent = b.sent + 1]
      BY <1>3
    <2> QED BY <2>1, <2>2 DEF AgentState
  <1>5. /\ Say(a).wire = b.wire /\ Say(a).sent = b.sent + 1
        /\ Say(a).phase = b.phase /\ Say(a).loop = b.loop
        /\ Say(a).calls = b.calls /\ Say(a).ran = b.ran
        /\ Say(a).said = b.said /\ Say(a).convo = b.convo
    BY <1>2, <1>3 DEF AgentState
  <1> QED BY <1>2, <1>3, <1>4, <1>5

\* The next round starts without calls, and goes on with the conversation.
LEMMA AskType ==
    ASSUME NEW a \in AgentState, a.loop < MaxLoops
    PROVE  /\ Ask(a) \in AgentState
           /\ Ask(a).phase = "stream" /\ Ask(a).loop = a.loop + 1
           /\ Ask(a).calls = <<>> /\ Ask(a).ran = 0
           /\ Ask(a).convo = a.convo /\ Ask(a).sent = a.sent /\ Ask(a).wire = a.wire
  <1>1. a.loop + 1 \in 0..MaxLoops
    BY WebChatBounds DEF AgentState
  <1>2. <<>> \in Seq(1..MaxCalls) /\ 0 \in Nat
    OBVIOUS
  <1>3. Ask(a) = [a EXCEPT !.phase = "stream", !.loop = a.loop + 1, !.calls = <<>>, !.ran = 0,
                          !.said = FALSE]
    BY DEF Ask
  <1>4. Ask(a) \in AgentState
    BY <1>1, <1>2, <1>3 DEF AgentState
  <1>5. /\ Ask(a).phase = "stream" /\ Ask(a).loop = a.loop + 1
        /\ Ask(a).calls = <<>> /\ Ask(a).ran = 0
    BY <1>3 DEF AgentState
  <1>6. Ask(a).convo = a.convo /\ Ask(a).sent = a.sent /\ Ask(a).wire = a.wire
    BY <1>3 DEF AgentState
  <1> QED BY <1>4, <1>5, <1>6

\* The end of an answer: the closing event, after a text when there was none.
LEMMA ConcludeType ==
    ASSUME NEW a \in AgentState, NEW answered
    PROVE  /\ Conclude(a, answered) \in AgentState
           /\ Conclude(a, answered).phase = "ended"
           /\ Conclude(a, answered).convo = a.convo
           /\ answered => /\ Conclude(a, answered).wire = Append(a.wire, Closing)
                          /\ Conclude(a, answered).sent = a.sent
           /\ ~answered => /\ Conclude(a, answered).wire = Append(Append(a.wire, a.sent + 1), Closing)
                           /\ Conclude(a, answered).sent = a.sent + 1
  <1>1. PICK b \in {a, Say(a)} : b = IF answered THEN a ELSE Say(a)
    OBVIOUS
  <1>2. /\ b \in AgentState /\ b.convo = a.convo
        /\ answered => b.wire = a.wire /\ b.sent = a.sent
        /\ ~answered => b.wire = Append(a.wire, a.sent + 1) /\ b.sent = a.sent + 1
    BY <1>1, SayType
  <1>3. /\ Emit(b, Closing) \in AgentState /\ Emit(b, Closing).wire = Append(b.wire, Closing)
        /\ Emit(b, Closing).convo = b.convo /\ Emit(b, Closing).sent = b.sent
    BY <1>2, EmitType DEF Closing
  <1> DEFINE d == Emit(b, Closing)
  <1>4. Conclude(a, answered) = [d EXCEPT !.phase = "ended"]
    BY <1>1 DEF Conclude
  <1> HIDE DEF d
  <1>5. /\ [d EXCEPT !.phase = "ended"] \in AgentState
        /\ [d EXCEPT !.phase = "ended"].phase = "ended"
        /\ [d EXCEPT !.phase = "ended"].convo = d.convo
        /\ [d EXCEPT !.phase = "ended"].wire = d.wire
        /\ [d EXCEPT !.phase = "ended"].sent = d.sent
    BY <1>3 DEF d, AgentState
  <1> QED BY <1>2, <1>3, <1>4, <1>5 DEF d

\* A call's result joins the conversation.
LEMMA RunCallType ==
    ASSUME NEW a \in AgentState, a.ran < Len(a.calls)
    PROVE  /\ RunCall(a) \in AgentState
           /\ RunCall(a).phase = a.phase /\ RunCall(a).loop = a.loop /\ RunCall(a).calls = a.calls
           /\ RunCall(a).ran = a.ran + 1
           /\ RunCall(a).convo = Append(a.convo, [result |-> a.calls[a.ran + 1]])
           /\ RunCall(a).wire = Append(a.wire, a.sent + 1) /\ RunCall(a).sent = a.sent + 1
  <1> DEFINE b == Say(a)
             m == [result |-> a.calls[a.ran + 1]]
  <1>1. /\ b \in AgentState /\ b.wire = Append(a.wire, a.sent + 1) /\ b.sent = a.sent + 1
        /\ b.phase = a.phase /\ b.loop = a.loop /\ b.calls = a.calls /\ b.ran = a.ran
        /\ b.convo = a.convo
    BY SayType
  <1>2. a.ran + 1 \in DOMAIN a.calls /\ a.calls \in Seq(1..MaxCalls) /\ a.ran + 1 \in Nat
    BY DEF AgentState
  <1>3. m \in Message
    <2>1. a.calls[a.ran + 1] \in 1..MaxCalls
      BY <1>2, ElementOf
    <2> QED BY <2>1 DEF Message
  <1>4. RunCall(a) = [b EXCEPT !.ran = @ + 1, !.convo = Append(@, m)]
    BY DEF RunCall
  <1> HIDE DEF b, m
  <1>5. Append(b.convo, m) \in Seq(Message)
    BY <1>1, <1>3 DEF AgentState
  <1>6. [b EXCEPT !.ran = @ + 1, !.convo = Append(@, m)] \in AgentState
    BY <1>1, <1>2, <1>5 DEF AgentState
  <1>7. /\ [b EXCEPT !.ran = @ + 1, !.convo = Append(@, m)].ran = b.ran + 1
        /\ [b EXCEPT !.ran = @ + 1, !.convo = Append(@, m)].convo = Append(b.convo, m)
        /\ [b EXCEPT !.ran = @ + 1, !.convo = Append(@, m)].wire = b.wire
        /\ [b EXCEPT !.ran = @ + 1, !.convo = Append(@, m)].sent = b.sent
        /\ [b EXCEPT !.ran = @ + 1, !.convo = Append(@, m)].phase = b.phase
        /\ [b EXCEPT !.ran = @ + 1, !.convo = Append(@, m)].loop = b.loop
        /\ [b EXCEPT !.ran = @ + 1, !.convo = Append(@, m)].calls = b.calls
    BY <1>1 DEF AgentState
  <1> QED BY <1>1, <1>4, <1>6, <1>7 DEF m


\* A sequence with one more element.
LEMMA Appended ==
    ASSUME NEW S, NEW q \in Seq(S), NEW e \in S
    PROVE  /\ Append(q, e) \in Seq(S) /\ Len(q) \in Nat /\ DOMAIN q = 1..Len(q)
           /\ Len(Append(q, e)) = Len(q) + 1 /\ DOMAIN Append(q, e) = 1..(Len(q) + 1)
           /\ Append(q, e)[Len(q) + 1] = e
           /\ \A k \in 1..Len(q) : Append(q, e)[k] = q[k] /\ q[k] \in S
  OBVIOUS

-----------------------------------------------------------------------------
(* What an agent adds to its wire *)

\* Nothing; one more delta; the closing event.
Waits(a, b) == Live(a) /\ Live(b) /\ b.wire = a.wire /\ b.sent = a.sent
Grows(a, b) == Live(a) /\ Live(b) /\ b.wire = Append(a.wire, a.sent + 1) /\ b.sent = a.sent + 1
Closes(a, b) == Live(a) /\ b.phase = "ended" /\ b.wire = Append(a.wire, Closing) /\ b.sent = a.sent

\* Whatever fits the wire before fits it after.
Sound(a, b) ==
    /\ WireFit(a) => WireFit(b)
    /\ \A turn \in TurnRecord : /\ Behind(turn, a) => Behind(turn, b)
                                /\ Whole(turn, a) => Whole(turn, b)

\* What adds nothing to the wire is sound.
LEMMA WaitsSound ==
    ASSUME NEW a \in AgentState, NEW b \in AgentState, Waits(a, b)
    PROVE  Sound(a, b)
  BY DEF Waits, Sound, WireFit, Behind, Whole, Live

\* The next delta is sound: it is later than everything shown or on the wire.
LEMMA GrowsSound ==
    ASSUME NEW a \in AgentState, NEW b \in AgentState, Grows(a, b)
    PROVE  Sound(a, b)
  <1> DEFINE m == Len(a.wire)
             last == a.sent + 1
  <1>1. a.wire \in Seq(Nat) /\ a.sent \in Nat /\ last \in Nat /\ last # Closing /\ a.sent < last
    BY DEF AgentState, Closing
  <1>2. b.wire = Append(a.wire, last) /\ b.sent = last
    BY DEF Grows
  <1>3. /\ m \in Nat /\ m + 1 \in Nat /\ DOMAIN a.wire = 1..m
        /\ DOMAIN b.wire = 1..(m + 1) /\ Len(b.wire) = m + 1 /\ b.wire[m + 1] = last
    BY <1>1, <1>2, Appended
  <1>4. \A k \in 1..m : b.wire[k] = a.wire[k] /\ a.wire[k] \in Nat
    BY <1>1, <1>2, Appended
  <1>5. Live(a) /\ Live(b) /\ b.phase # "ended"
    BY DEF Grows, Live
  <1> HIDE DEF m, last
  <1>6. ASSUME NEW k \in 1..(m + 1) PROVE k = m + 1 \/ k \in 1..m
    BY <1>3
  <1>7. ASSUME WireFit(a) PROVE WireFit(b)
    <2>1. \A k \in 1..m : a.wire[k] # Closing /\ a.wire[k] <= a.sent
      BY <1>3, <1>5, <1>7 DEF WireFit
    <2>2. \A k \in 1..m : a.wire[k] < last
      BY <1>1, <1>4, <2>1 DEF last
    <2>3. \A k \in 1..(m + 1) : b.wire[k] # Closing
      BY <1>1, <1>3, <1>4, <1>6, <2>1
    <2>4. \A k \in 1..(m + 1) : b.wire[k] <= last
      BY <1>1, <1>3, <1>4, <1>6, <2>2
    <2>5. ASSUME NEW j \in 1..(m + 1), NEW k \in 1..(m + 1), j < k PROVE b.wire[j] < b.wire[k]
      <3>1. j \in 1..m
        BY <1>3, <2>5
      <3>2. CASE k = m + 1
        BY <1>3, <1>4, <2>2, <3>1, <3>2
      <3>3. CASE k \in 1..m
        <4>1. a.wire[j] < a.wire[k]
          BY <1>3, <1>7, <2>1, <2>5, <3>1, <3>3 DEF WireFit
        <4> QED BY <1>4, <3>1, <3>3, <4>1
      <3> QED BY <1>6, <3>2, <3>3
    <2> QED BY <1>2, <1>3, <2>3, <2>4, <2>5 DEF WireFit
  <1>8. ASSUME NEW turn \in TurnRecord, Behind(turn, a) PROVE Behind(turn, b)
    <2> SUFFICES ASSUME NEW j \in DOMAIN turn.shown
                 PROVE  /\ \A k \in 1..(m + 1) : turn.shown[j] < b.wire[k] \/ b.wire[k] = Closing
                        /\ turn.shown[j] <= last
      BY <1>2, <1>3 DEF Behind
    <2>1. turn.shown[j] \in Nat
      BY DEF TurnRecord
    <2>2. turn.shown[j] <= a.sent /\ \A k \in 1..m : a.wire[k] # Closing => turn.shown[j] < a.wire[k]
      BY <1>3, <1>5, <1>8 DEF Behind
    <2>3. turn.shown[j] < last /\ turn.shown[j] <= last
      BY <1>1, <2>1, <2>2
    <2>4. ASSUME NEW k \in 1..(m + 1) PROVE turn.shown[j] < b.wire[k] \/ b.wire[k] = Closing
      <3>1. CASE k = m + 1
        BY <1>3, <2>3, <3>1
      <3>2. CASE k \in 1..m
        BY <1>4, <2>2, <3>2
      <3> QED BY <1>6, <3>1, <3>2
    <2> QED BY <2>3, <2>4
  <1>9. ASSUME NEW turn \in TurnRecord, Whole(turn, a) PROVE Whole(turn, b)
    <2> DEFINE n == Len(turn.shown)
    <2>1. /\ \A k \in 1..n : turn.shown[k] = k
          /\ n + m = a.sent /\ turn.streaming
          /\ \A k \in 1..m : a.wire[k] = n + k
      BY <1>5, <1>9 DEF Whole, m
    <2>2. n \in Nat
      BY DEF TurnRecord
    <2>3. n + (m + 1) = last
      <3>1. \A x, y, z \in Nat : x + y = z => x + (y + 1) = z + 1
        OBVIOUS
      <3>2. n + m = a.sent /\ m \in Nat
        BY <1>3, <2>1
      <3> HIDE DEF n
      <3> QED BY <1>1, <2>2, <3>1, <3>2 DEF last
    <2>4. ASSUME NEW k \in 1..(m + 1) PROVE b.wire[k] = n + k
      BY <1>3, <1>4, <1>6, <2>1, <2>3
    <2> HIDE DEF n
    <2> QED BY <1>2, <1>3, <1>5, <2>1, <2>3, <2>4 DEF Whole, n
  <1> QED BY <1>7, <1>8, <1>9 DEF Sound

\* The closing event is sound.
LEMMA ClosesSound ==
    ASSUME NEW a \in AgentState, NEW b \in AgentState, Closes(a, b)
    PROVE  Sound(a, b)
  <1> DEFINE m == Len(a.wire)
  <1>1. a.wire \in Seq(Nat) /\ a.sent \in Nat /\ Closing \in Nat
    BY DEF AgentState, Closing
  <1>2. b.wire = Append(a.wire, Closing) /\ b.sent = a.sent
    BY DEF Closes
  <1>3. /\ m \in Nat /\ m + 1 \in Nat /\ (m + 1) - 1 = m /\ m + 1 > 0 /\ DOMAIN a.wire = 1..m
        /\ DOMAIN b.wire = 1..(m + 1) /\ Len(b.wire) = m + 1 /\ b.wire[m + 1] = Closing
    BY <1>1, <1>2, Appended
  <1>4. \A k \in 1..m : b.wire[k] = a.wire[k] /\ a.wire[k] \in Nat
    BY <1>1, <1>2, Appended
  <1>5. Live(a) /\ ~Live(b) /\ b.phase = "ended"
    BY DEF Closes, Live
  <1> HIDE DEF m
  <1>6. ASSUME NEW k \in 1..(m + 1) PROVE k = m + 1 \/ k \in 1..m
    BY <1>3
  <1>7. ASSUME WireFit(a) PROVE WireFit(b)
    <2>1. \A k \in 1..m : a.wire[k] # Closing
      BY <1>3, <1>5, <1>7 DEF WireFit
    <2>2. ASSUME NEW j \in 1..(m + 1), NEW k \in 1..(m + 1), j < k
          PROVE  b.wire[j] # Closing /\ (b.wire[k] # Closing => b.wire[j] < b.wire[k])
      <3>1. j \in 1..m
        BY <1>3, <2>2
      <3>2. CASE k = m + 1
        BY <1>3, <1>4, <2>1, <3>1, <3>2
      <3>3. CASE k \in 1..m
        <4>1. a.wire[j] < a.wire[k]
          BY <1>3, <1>7, <2>1, <2>2, <3>1, <3>3 DEF WireFit
        <4> QED BY <1>4, <2>1, <3>1, <3>3, <4>1
      <3> QED BY <1>6, <3>2, <3>3
    <2> QED BY <1>3, <1>5, <2>2 DEF WireFit
  <1>8. ASSUME NEW turn \in TurnRecord, Behind(turn, a) PROVE Behind(turn, b)
    <2> SUFFICES ASSUME NEW j \in DOMAIN turn.shown, NEW k \in 1..(m + 1), b.wire[k] # Closing
                 PROVE  turn.shown[j] < b.wire[k]
      BY <1>3, <1>5 DEF Behind
    <2>1. k \in 1..m
      BY <1>3, <1>6
    <2> QED BY <1>3, <1>4, <1>8, <2>1 DEF Behind
  <1>9. ASSUME NEW turn \in TurnRecord, Whole(turn, a) PROVE Whole(turn, b)
    <2> DEFINE n == Len(turn.shown)
    <2>1. /\ \A k \in 1..n : turn.shown[k] = k
          /\ n + m = a.sent /\ turn.streaming
          /\ \A k \in 1..m : a.wire[k] = n + k
      BY <1>5, <1>9 DEF Whole, m
    <2>2. n \in Nat
      BY DEF TurnRecord
    <2>3. n + (m + 1) = a.sent + 1
      <3>1. \A x, y, z \in Nat : x + y = z => x + (y + 1) = z + 1
        OBVIOUS
      <3>2. n + m = a.sent /\ m \in Nat
        BY <1>3, <2>1
      <3> HIDE DEF n
      <3> QED BY <1>1, <2>2, <3>1, <3>2
    <2>4. \A k \in 1..m : b.wire[k] = n + k
      BY <1>4, <2>1
    <2> HIDE DEF n
    <2> QED BY <1>2, <1>3, <1>5, <2>1, <2>3, <2>4 DEF Whole, n
  <1> QED BY <1>7, <1>8, <1>9 DEF Sound

\* One sound step after another.
LEMMA SoundTwice ==
    ASSUME NEW a, NEW b, NEW d, Sound(a, b), Sound(b, d)
    PROVE  Sound(a, d)
  BY DEF Sound

-----------------------------------------------------------------------------
(* The conversation with the provider *)

\* The fields of a message.
LEMMA Messages ==
    /\ \A q : DOMAIN [calls |-> q] = {"calls"} /\ [calls |-> q].calls = q
    /\ \A x : "calls" \notin DOMAIN [result |-> x]
  OBVIOUS

\* What is answered stays so when the conversation grows.
LEMMA AnsweredStays ==
    ASSUME NEW c, NEW d, NEW n \in Nat, Answered(c, n),
           \A i \in 1..n : d[i] = c[i] /\ ("calls" \in DOMAIN c[i] => c[i].calls \in Seq(1..MaxCalls))
    PROVE  Answered(d, n)
  <1> SUFFICES ASSUME NEW i \in 1..n, "calls" \in DOMAIN d[i]
               PROVE  /\ IsInjective(d[i].calls)
                      /\ i + Len(d[i].calls) <= n
                      /\ \A k \in DOMAIN d[i].calls : d[i + k] = [result |-> d[i].calls[k]]
    BY DEF Answered
  <1>1. d[i] = c[i] /\ IsInjective(c[i].calls) /\ i + Len(c[i].calls) <= n
        /\ \A k \in DOMAIN c[i].calls : c[i + k] = [result |-> c[i].calls[k]]
    BY DEF Answered
  <1>2. Len(c[i].calls) \in Nat /\ DOMAIN c[i].calls = 1..Len(c[i].calls)
    BY <1>1
  <1>3. \A k \in DOMAIN c[i].calls : i + k \in 1..n
    BY <1>1, <1>2
  <1> QED BY <1>1, <1>3

\* A conversation answered up to a turn whose results all follow is answered.
LEMMA AnsweredRound ==
    ASSUME NEW c \in Seq(Message), NEW q \in Seq(1..MaxCalls), NEW n \in Nat, n > 0,
           Len(c) = n + Len(q), Answered(c, n - 1), IsInjective(q),
           c[n] = [calls |-> q], \A k \in 1..Len(q) : c[n + k] = [result |-> q[k]]
    PROVE  Answered(c, Len(c))
  <1> SUFFICES ASSUME NEW i \in 1..Len(c), "calls" \in DOMAIN c[i]
               PROVE  /\ IsInjective(c[i].calls)
                      /\ i + Len(c[i].calls) <= Len(c)
                      /\ \A k \in DOMAIN c[i].calls : c[i + k] = [result |-> c[i].calls[k]]
    BY DEF Answered
  <1>1. Len(q) \in Nat /\ DOMAIN q = 1..Len(q) /\ i \in Nat
    OBVIOUS
  <1>2. CASE i < n
    <2>1. i \in 1..(n - 1)
      BY <1>1, <1>2
    <2>2. /\ IsInjective(c[i].calls) /\ i + Len(c[i].calls) <= n - 1
          /\ \A k \in DOMAIN c[i].calls : c[i + k] = [result |-> c[i].calls[k]]
      BY <2>1 DEF Answered
    <2>3. c[i] \in Message
      BY ElementOf
    <2>4. Len(c[i].calls) \in Nat
      BY <2>3 DEF Message
    <2> QED BY <1>1, <2>2, <2>4
  <1>3. CASE i = n
    BY <1>1, <1>3, Messages
  <1>4. CASE i > n
    <2>1. i - n \in 1..Len(q) /\ n + (i - n) = i
      BY <1>1, <1>4
    <2>2. c[i] = [result |-> q[i - n]]
      BY <2>1
    <2> QED BY <2>2, Messages
  <1> QED BY <1>1, <1>2, <1>3, <1>4


-----------------------------------------------------------------------------
(* One step of the agent *)

\* What a step leaves: an agent whose wire and conversation fit.
Steps(a, b) ==
    /\ b \in AgentState /\ b.phase \in {"stream", "tools", "ended"}
    /\ Live(a) /\ Sound(a, b) /\ ConvoFit(b)

\* The end of the answer, with the text that stands for an empty one.
LEMMA ConcludeSound ==
    ASSUME NEW a \in AgentState, Live(a), NEW answered
    PROVE  /\ Conclude(a, answered) \in AgentState /\ Conclude(a, answered).phase = "ended"
           /\ Sound(a, Conclude(a, answered)) /\ ConvoFit(Conclude(a, answered))
  <1> DEFINE b == Conclude(a, answered)
  <1>1. /\ b \in AgentState /\ b.phase = "ended"
        /\ answered => b.wire = Append(a.wire, Closing) /\ b.sent = a.sent
        /\ ~answered => /\ b.wire = Append(Append(a.wire, a.sent + 1), Closing)
                        /\ b.sent = a.sent + 1
    BY ConcludeType
  <1>2. ConvoFit(b)
    BY <1>1 DEF ConvoFit, Live
  <1> HIDE DEF b
  <1>3. CASE answered
    <2>1. Closes(a, b)
      BY <1>1, <1>3 DEF Closes
    <2> QED BY <1>1, <1>2, <2>1, ClosesSound DEF b
  <1>4. CASE ~answered
    <2> DEFINE m == Say(a)
    <2>1. /\ m \in AgentState /\ m.wire = Append(a.wire, a.sent + 1)
          /\ m.sent = a.sent + 1 /\ m.phase = a.phase
      BY SayType
    <2> HIDE DEF m
    <2>2. Grows(a, m)
      BY <2>1 DEF Grows, Live
    <2>3. Closes(m, b)
      BY <1>1, <1>4, <2>1 DEF Closes, Live
    <2>4. Sound(a, m) /\ Sound(m, b)
      BY <1>1, <2>1, <2>2, <2>3, GrowsSound, ClosesSound
    <2>5. Sound(a, b)
      BY <2>4, SoundTwice
    <2> QED BY <1>1, <1>2, <2>5 DEF b
  <1> QED BY <1>3, <1>4

\* A text delta.
LEMMA TextDeltaSteps ==
    ASSUME NEW a \in AgentState, a.phase = "stream", ConvoFit(a)
    PROVE  Steps(a, [Say(a) EXCEPT !.said = TRUE])
  <1> DEFINE m == Say(a)
             b == [m EXCEPT !.said = TRUE]
  <1>1. /\ m \in AgentState /\ m.wire = Append(a.wire, a.sent + 1) /\ m.sent = a.sent + 1
        /\ m.phase = a.phase /\ m.calls = a.calls /\ m.ran = a.ran /\ m.convo = a.convo
    BY SayType
  <1> HIDE DEF m
  <1>2. /\ b \in AgentState /\ b.wire = m.wire /\ b.sent = m.sent /\ b.phase = m.phase
        /\ b.calls = m.calls /\ b.ran = m.ran /\ b.convo = m.convo
    BY <1>1 DEF AgentState
  <1> HIDE DEF b
  <1>3. Grows(a, b)
    BY <1>1, <1>2 DEF Grows, Live
  <1>4. ConvoFit(b)
    BY <1>1, <1>2 DEF ConvoFit, Live
  <1>5. Sound(a, b)
    BY <1>2, <1>3, GrowsSound
  <1>6. Steps(a, b)
    BY <1>1, <1>2, <1>4, <1>5 DEF Steps, Live
  <1> QED BY <1>6 DEF b, m

\* Call deltas keep the calls of a round distinct.
LEMMA CallDeltaSteps ==
    ASSUME NEW a \in AgentState, a.phase = "stream", ConvoFit(a), NEW c \in 1..MaxCalls
    PROVE  Steps(a, MergeDelta(a, c))
  <1>1. CASE Contains(a.calls, c)
    <2>1. Waits(a, a)
      BY DEF Waits, Live
    <2>2. Sound(a, a)
      BY <2>1, WaitsSound
    <2> QED BY <1>1, <2>2 DEF MergeDelta, Steps, Live
  <1>2. CASE ~Contains(a.calls, c)
    <2> DEFINE q == Append(a.calls, c)
               b == [a EXCEPT !.calls = q]
    <2>1. a.calls \in Seq(1..MaxCalls)
      BY DEF AgentState
    <2>2. /\ q \in Seq(1..MaxCalls) /\ DOMAIN q = 1..(Len(a.calls) + 1) /\ Len(a.calls) \in Nat
          /\ DOMAIN a.calls = 1..Len(a.calls)
          /\ q[Len(a.calls) + 1] = c
          /\ \A k \in 1..Len(a.calls) : q[k] = a.calls[k]
      BY <2>1, Appended
    <2>3. \A k \in 1..Len(a.calls) : a.calls[k] # c
      BY <1>2 DEF Contains
    <2>4. IsInjective(a.calls)
      BY DEF ConvoFit, Live
    <2> HIDE DEF q
    <2>5. IsInjective(q)
      BY <2>2, <2>3, <2>4 DEF IsInjective
    <2>6. /\ b \in AgentState /\ b.phase = a.phase /\ b.wire = a.wire /\ b.sent = a.sent
          /\ b.convo = a.convo /\ b.ran = a.ran /\ b.calls = q
      BY <2>2 DEF AgentState
    <2> HIDE DEF b
    <2>7. Waits(a, b)
      BY <2>6 DEF Waits, Live
    <2>8. Sound(a, b)
      BY <2>6, <2>7, WaitsSound
    <2>9. ConvoFit(b)
      BY <2>5, <2>6 DEF ConvoFit, Live
    <2>10. MergeDelta(a, c) = b
      BY <1>2 DEF MergeDelta, b, q
    <2> QED BY <2>6, <2>8, <2>9, <2>10 DEF Steps, Live
  <1> QED BY <1>1, <1>2

\* The stream ends with calls: the assistant's turn joins the conversation.
LEMMA RoundSteps ==
    ASSUME NEW a \in AgentState, a.phase = "stream", ConvoFit(a), a.calls # <<>>
    PROVE  Steps(a, [a EXCEPT !.phase = "tools", !.convo = Append(@, [calls |-> a.calls])])
  <1> DEFINE m == [calls |-> a.calls]
             b == [a EXCEPT !.phase = "tools", !.convo = Append(@, m)]
             n == Len(a.convo)
  <1>1. m \in Message /\ a.convo \in Seq(Message) /\ a.calls \in Seq(1..MaxCalls)
    BY DEF AgentState, Message
  <1> HIDE DEF m
  <1>2. /\ Append(a.convo, m) \in Seq(Message) /\ n \in Nat /\ Len(Append(a.convo, m)) = n + 1
        /\ Append(a.convo, m)[n + 1] = m
        /\ \A i \in 1..n : Append(a.convo, m)[i] = a.convo[i] /\ a.convo[i] \in Message
    BY <1>1, Appended
  <1>3. /\ b \in AgentState /\ b.phase = "tools" /\ b.wire = a.wire /\ b.sent = a.sent
        /\ b.ran = a.ran /\ b.calls = a.calls /\ b.convo = Append(a.convo, m)
    BY <1>2 DEF AgentState
  <1> HIDE DEF b
  <1>4. Waits(a, b)
    BY <1>3 DEF Waits, Live
  <1>5. Sound(a, b)
    BY <1>3, <1>4, WaitsSound
  <1>6. /\ IsInjective(a.calls) /\ a.ran = 0 /\ Answered(a.convo, n)
        /\ Len(a.calls) > 0
    BY <1>1 DEF ConvoFit, Live
  <1>7. Answered(b.convo, n)
    <2>1. \A i \in 1..n : "calls" \in DOMAIN a.convo[i] => a.convo[i].calls \in Seq(1..MaxCalls)
      BY <1>2 DEF Message
    <2>2. \A i \in 1..n : b.convo[i] = a.convo[i]
      BY <1>2, <1>3
    <2>3. n \in Nat /\ Answered(a.convo, n)
      BY <1>2, <1>6
    <2> HIDE DEF n
    <2> QED BY <2>1, <2>2, <2>3, AnsweredStays
  <1>8. ConvoFit(b)
    <2>1. Len(b.convo) - b.ran = n + 1 /\ (n + 1) - 1 = n /\ n + 1 > 0
      BY <1>2, <1>3, <1>6
    <2>2. \A k \in 1..b.ran : FALSE
      BY <1>3, <1>6
    <2>3. b.convo[n + 1] = [calls |-> b.calls]
      BY <1>2, <1>3 DEF m
    <2> HIDE DEF n
    <2> QED BY <1>3, <1>6, <1>7, <2>1, <2>2, <2>3 DEF ConvoFit, Live
  <1> QED BY <1>3, <1>5, <1>8 DEF Steps, Live, b, m

\* One call is run; after the last of them the next round asks, or the loop ends.
LEMMA RunToolSteps ==
    ASSUME NEW a \in AgentState, a.phase = "tools", ConvoFit(a)
    PROVE  Steps(a, IF RunCall(a).ran = Len(RunCall(a).calls) THEN NextRound(RunCall(a)) ELSE RunCall(a))
  <1> DEFINE n == Len(a.convo) - a.ran
             m == [result |-> a.calls[a.ran + 1]]
             b == RunCall(a)
  <1>1. /\ a.convo \in Seq(Message) /\ a.calls \in Seq(1..MaxCalls) /\ a.ran \in Nat
        /\ Len(a.convo) \in Nat /\ Len(a.calls) \in Nat
    BY DEF AgentState
  <1>2. /\ n > 0 /\ a.ran < Len(a.calls) /\ Answered(a.convo, n - 1)
        /\ a.convo[n] = [calls |-> a.calls] /\ IsInjective(a.calls)
        /\ \A k \in 1..a.ran : a.convo[n + k] = [result |-> a.calls[k]]
    BY DEF ConvoFit, Live
  <1>3. /\ b \in AgentState /\ b.phase = "tools" /\ b.calls = a.calls /\ b.ran = a.ran + 1
        /\ b.convo = Append(a.convo, m) /\ b.wire = Append(a.wire, a.sent + 1)
        /\ b.sent = a.sent + 1
    BY <1>2, RunCallType
  <1>4. m \in Message
    <2>1. a.ran + 1 \in DOMAIN a.calls
      BY <1>1, <1>2
    <2>2. a.calls[a.ran + 1] \in 1..MaxCalls
      BY <1>1, <2>1, ElementOf
    <2> QED BY <2>2 DEF Message
  <1> HIDE DEF b
  <1>5. /\ b.convo \in Seq(Message) /\ Len(b.convo) = Len(a.convo) + 1
        /\ b.convo[Len(a.convo) + 1] = m
        /\ \A i \in 1..Len(a.convo) : b.convo[i] = a.convo[i] /\ a.convo[i] \in Message
    <2> HIDE DEF m, n
    <2> QED BY <1>1, <1>3, <1>4, Appended
  <1>6. /\ n \in Nat /\ n - 1 \in Nat /\ n + a.ran = Len(a.convo)
        /\ n + (a.ran + 1) = Len(a.convo) + 1 /\ n \in 1..Len(a.convo)
        /\ Len(a.convo) + 1 - (a.ran + 1) = n
    <2>1. \A x, y \in Nat : x - y > 0 =>
            /\ x - y \in Nat /\ (x - y) - 1 \in Nat /\ (x - y) + y = x
            /\ (x - y) + (y + 1) = x + 1 /\ x - y \in 1..x /\ x + 1 - (y + 1) = x - y
      OBVIOUS
    <2>2. n > 0
      BY <1>2
    <2> QED BY <1>1, <2>1, <2>2
  <1> HIDE DEF n
  <1>7. Answered(b.convo, n - 1)
    <2>1. \A i \in 1..(n - 1) : i \in 1..Len(a.convo)
      BY <1>1, <1>6
    <2>2. \A i \in 1..(n - 1) : "calls" \in DOMAIN a.convo[i] => a.convo[i].calls \in Seq(1..MaxCalls)
      <3> HIDE DEF m
      <3> QED BY <1>5, <2>1 DEF Message
    <2> HIDE DEF m
    <2> QED BY <1>2, <1>5, <1>6, <2>1, <2>2, AnsweredStays
  <1>8. b.convo[n] = [calls |-> a.calls]
    <2> HIDE DEF m
    <2> QED BY <1>2, <1>5, <1>6
  <1>9. ASSUME NEW k \in 1..(a.ran + 1) PROVE b.convo[n + k] = [result |-> a.calls[k]]
    <2>1. CASE k = a.ran + 1
      BY <1>5, <1>6, <2>1
    <2>2. CASE k # a.ran + 1
      <3>1. k \in 1..a.ran
        BY <1>1, <2>2
      <3>2. n + k \in 1..Len(a.convo)
        BY <1>1, <1>6, <3>1
      <3>3. a.convo[n + k] = [result |-> a.calls[k]]
        BY <1>2, <3>1
      <3> QED BY <1>5, <3>2, <3>3
    <2> QED BY <2>1, <2>2
  <1> HIDE DEF m
  <1>10. Grows(a, b) /\ Sound(a, b)
    <2>1. Grows(a, b)
      BY <1>3 DEF Grows, Live
    <2> QED BY <1>3, <2>1, GrowsSound
  <1>11. CASE b.ran # Len(b.calls)
    <2>1. Len(b.convo) - b.ran = n
      <3>1. Len(b.convo) = Len(a.convo) + 1 /\ b.ran = a.ran + 1
        BY <1>3, <1>5
      <3>2. \A x, y \in Nat : (x + 1) - (y + 1) = x - y
        OBVIOUS
      <3>3. (Len(a.convo) + 1) - (a.ran + 1) = Len(a.convo) - a.ran
        BY <1>1, <3>2
      <3>4. Len(b.convo) - b.ran = Len(a.convo) - a.ran
        BY <3>1, <3>3, Zenon
      <3> QED BY <3>4 DEF n
    <2>10. b.ran < Len(b.calls)
      <3>1. \A x, y \in Nat : x < y /\ x + 1 # y => x + 1 < y
        OBVIOUS
      <3>2. a.ran < Len(a.calls) /\ b.ran = a.ran + 1 /\ b.calls = a.calls
        BY <1>2, <1>3
      <3> QED BY <1>1, <1>11, <3>1, <3>2
    <2>2. ConvoFit(b)
      BY <1>2, <1>3, <1>7, <1>8, <1>9, <2>1, <2>10 DEF ConvoFit, Live
    <2>3. Steps(a, b)
      BY <1>3, <1>10, <2>2 DEF Steps, Live
    <2> QED BY <1>11, <2>3 DEF b
  <1>12. CASE b.ran = Len(b.calls)
    <2> DEFINE d == NextRound(b)
    <2>1. Len(b.convo) = n + Len(a.calls)
      BY <1>1, <1>3, <1>5, <1>6, <1>12
    <2>2. Answered(b.convo, Len(b.convo))
      <3>1. b.convo \in Seq(Message) /\ a.calls \in Seq(1..MaxCalls) /\ n \in Nat /\ n > 0
        BY <1>1, <1>2, <1>5, <1>6
      <3>2. \A k \in 1..Len(a.calls) : b.convo[n + k] = [result |-> a.calls[k]]
        BY <1>3, <1>9, <1>12
      <3>3. IsInjective(a.calls)
        BY <1>2
      <3> QED BY <1>7, <1>8, <2>1, <3>1, <3>2, <3>3, AnsweredRound
    <2>3. Live(b)
      BY <1>3 DEF Live
    <2>4. CASE b.loop < MaxLoops
      <3>1. /\ d \in AgentState /\ d.phase = "stream" /\ d.calls = <<>> /\ d.ran = 0
            /\ d.convo = b.convo /\ d.wire = b.wire /\ d.sent = b.sent
        BY <1>3, <2>4, AskType DEF NextRound
      <3> HIDE DEF d
      <3>2. Waits(b, d)
        BY <2>3, <3>1 DEF Waits, Live
      <3>3. Sound(b, d)
        BY <1>3, <3>1, <3>2, WaitsSound
      <3>4. IsInjective(<<>>)
        BY DEF IsInjective
      <3>5. ConvoFit(d)
        BY <2>2, <3>1, <3>4 DEF ConvoFit, Live
      <3>6. Sound(a, d)
        BY <1>10, <3>3, SoundTwice
      <3>7. Steps(a, d)
        BY <3>1, <3>5, <3>6 DEF Steps, Live
      <3> QED BY <1>12, <3>7 DEF b, d
    <2>5. CASE ~(b.loop < MaxLoops)
      <3>1. d = Conclude(b, FALSE)
        BY <2>5 DEF NextRound
      <3>2. d \in AgentState /\ d.phase = "ended" /\ Sound(b, d) /\ ConvoFit(d)
        BY <1>3, <2>3, <3>1, ConcludeSound
      <3> HIDE DEF d
      <3>3. Sound(a, d)
        BY <1>10, <3>2, SoundTwice
      <3>4. Steps(a, d)
        BY <3>2, <3>3 DEF Steps, Live
      <3> QED BY <1>12, <3>4 DEF b, d
    <2> QED BY <2>4, <2>5
  <1> QED BY <1>11, <1>12

\* Every action of the agent is such a step of one agent, and of nothing else.
LEMMA AgentSteps ==
    ASSUME TypesFit, AgentsFit, NEW t \in Turns, Agent(t)
    PROVE  /\ Live(agent[t])
           /\ \E b \in AgentState : Steps(agent[t], b) /\ agent' = [agent EXCEPT ![t] = b]
           /\ UNCHANGED <<view, requests, store, ops, torn, history>>
  <1> DEFINE a == agent[t]
  <1>1. a \in AgentState /\ ConvoFit(a)
    <2>1. a \in AgentState
      BY DEF TypesFit
    <2>2. ConvoFit(a)
      BY DEF AgentsFit
    <2> QED BY <2>1, <2>2
  <1> SUFFICES \E b : Steps(a, b) /\ AgentStep(t, b)
    BY DEF AgentStep, Steps
  <1>2. CASE TextDelta(t)
    BY <1>1, <1>2, TextDeltaSteps DEF TextDelta, Ready
  <1>3. CASE CallDelta(t)
    <2>1. PICK c \in 1..MaxCalls : AgentStep(t, MergeDelta(a, c))
      BY <1>3 DEF CallDelta
    <2>2. Steps(a, MergeDelta(a, c))
      BY <1>1, <1>3, CallDeltaSteps DEF CallDelta, Ready
    <2> QED BY <2>1, <2>2
  <1>4. CASE StreamEnds(t)
    <2>1. CASE a.calls = <<>>
      <3>1. Steps(a, Conclude(a, a.said))
        BY <1>1, <1>4, ConcludeSound DEF StreamEnds, Ready, Steps, Live
      <3> QED BY <1>4, <2>1, <3>1 DEF StreamEnds
    <2>2. CASE a.calls # <<>>
      <3> DEFINE b == [a EXCEPT !.phase = "tools", !.convo = Append(@, [calls |-> a.calls])]
      <3>1. Steps(a, b)
        BY <1>1, <1>4, <2>2, RoundSteps DEF StreamEnds, Ready
      <3>2. AgentStep(t, b)
        BY <1>4, <2>2 DEF StreamEnds
      <3> QED BY <1>1, <3>1, <3>2
    <2> QED BY <2>1, <2>2
  <1>5. CASE RunTool(t)
    <2> DEFINE b == IF RunCall(a).ran = Len(RunCall(a).calls) THEN NextRound(RunCall(a)) ELSE RunCall(a)
    <2>1. Steps(a, b)
      BY <1>1, <1>5, RunToolSteps DEF RunTool, Ready
    <2>2. AgentStep(t, b)
      BY <1>5 DEF RunTool
    <2> QED BY <2>1, <2>2
  <1>6. CASE ProviderFails(t)
    <2> DEFINE b == [Emit(a, Closing) EXCEPT !.phase = "ended"]
    <2>1. b = Conclude(a, TRUE)
      BY DEF Conclude
    <2>2. Steps(a, Conclude(a, TRUE))
      BY <1>1, <1>6, ConcludeSound DEF ProviderFails, Ready, Steps, Live
    <2>3. AgentStep(t, b)
      BY <1>6 DEF ProviderFails
    <2> QED BY <2>1, <2>2, <2>3
  <1> QED BY <1>2, <1>3, <1>4, <1>5, <1>6 DEF Agent

-----------------------------------------------------------------------------
(* The steps that leave the answers and their readers alone *)

\* What a request of each kind is.
LEMMA Kinds ==
    ASSUME NEW r \in RequestRecord
    PROVE  /\ r.s \in Sessions
           /\ r.op = "save" => r.stage = "sent" /\ r.body \in Content
           /\ r.op = "select" => r.body \in Content \cup {NoAnswer}
           /\ r.op = "refresh" /\ r.stage = "listed" =>
                r = [op |-> "refresh", s |-> r.s, stage |-> "listed", body |-> r.body]
                /\ r.body = [list |-> r.body.list, detail |-> NoAnswer] /\ r.body.list \subseteq Sessions
           /\ r.op = "refresh" /\ r.stage = "answered" =>
                r.body.list \subseteq Sessions /\ r.body.detail \in Content
  BY DEF RequestRecord, SaveRequest, SelectRequest, DeleteRequest, RefreshRequest

\* Requests as the view makes them.
LEMMA Sent ==
    ASSUME NEW s \in Sessions
    PROVE  /\ \A c \in Content :
                /\ Request("save", s, c) \in RequestRecord
                /\ Request("save", s, c).op = "save" /\ Request("save", s, c).s = s
                /\ Request("save", s, c).body = c
           /\ \A op \in {"select", "delete", "refresh"} :
                /\ Request(op, s, NoAnswer) \in RequestRecord
                /\ Request(op, s, NoAnswer).op = op /\ Request(op, s, NoAnswer).stage = "sent"
                /\ Request(op, s, NoAnswer).body = NoAnswer
  BY DEF Request, RequestRecord, SaveRequest, SelectRequest, DeleteRequest, RefreshRequest

\* A request without messages fits.
LEMMA SentFits ==
    ASSUME NEW s \in Sessions, NEW op \in {"select", "delete", "refresh"}
    PROVE  RequestFits(Request(op, s, NoAnswer))
  BY DEF Request, RequestFits

\* An answered or failed select or delete.
LEMMA Returned ==
    ASSUME NEW r \in RequestRecord, r.stage # "answered",
           NEW b \in Content \cup {NoAnswer},
           r.op = "select" \/ (r.op = "delete" /\ b = NoAnswer)
    PROVE  LET q == [r EXCEPT !.stage = "answered", !.body = b] IN
           /\ q \in RequestRecord /\ q.op = r.op /\ q.s = r.s /\ q.body = b
           /\ q.stage = "answered"
  <1>1. CASE r.op = "select"
    <2>1. r \in SelectRequest
      BY <1>1 DEF RequestRecord, SaveRequest, SelectRequest, DeleteRequest, RefreshRequest
    <2> QED BY <1>1, <2>1 DEF RequestRecord, SelectRequest
  <1>2. CASE r.op = "delete" /\ b = NoAnswer
    <2>1. r \in DeleteRequest
      BY <1>2 DEF RequestRecord, SaveRequest, SelectRequest, DeleteRequest, RefreshRequest
    <2> QED BY <1>2, <2>1 DEF RequestRecord, DeleteRequest
  <1> QED BY <1>1, <1>2

\* What is left of a failed request.
LEMMA FailedFits ==
    ASSUME NEW r \in RequestRecord, r.stage # "answered", NEW q \in Failed(r)
    PROVE  q \in RequestRecord /\ RequestFits(q) /\ q.op # "save"
  <1>1. r.op \in {"select", "delete"} /\ q = [r EXCEPT !.stage = "answered", !.body = NoAnswer]
    BY DEF Failed
  <1>2. q \in RequestRecord /\ q.op = r.op /\ q.body = NoAnswer
    BY <1>1, Returned
  <1> QED BY <1>1, <1>2 DEF RequestFits

\* What the store's operators do.
LEMMA StoreOps ==
    ASSUME TypesFit, NEW s \in Sessions, NEW c \in Content
    PROVE  LET f == FileWritten(store, s, c)
               v == SaveChatSession(store, s, c)
               d == FileRemoved(store, s)
               x == DeleteChatSession(store, s)
               files == [y \in DOMAIN store.files \cup {s} |-> IF y = s THEN c ELSE store.files[y]]
               rest == [y \in DOMAIN store.files \ {s} |-> store.files[y]]
           IN /\ f = [files |-> files, index |-> store.index]
              /\ v = [files |-> files, index |-> IF store.index = NoIndex THEN DOMAIN files
                                                 ELSE store.index \cup {s}]
              /\ d = [files |-> rest, index |-> store.index]
              /\ x = [files |-> rest, index |-> (IF store.index = NoIndex THEN DOMAIN rest
                                                 ELSE store.index) \ {s}]
              /\ Held(files) /\ Held(rest)
              /\ DOMAIN files = DOMAIN store.files \cup {s}
              /\ DOMAIN rest = DOMAIN store.files \ {s}
  <1> DEFINE files == [y \in DOMAIN store.files \cup {s} |-> IF y = s THEN c ELSE store.files[y]]
             rest == [y \in DOMAIN store.files \ {s} |-> store.files[y]]
             f == FileWritten(store, s, c)
             d == FileRemoved(store, s)
  <1>1. PICK fs, ix : store = [files |-> fs, index |-> ix] /\ fs = store.files /\ ix = store.index
    BY DEF TypesFit
  <1>2. f = [files |-> files, index |-> store.index]
    BY <1>1 DEF FileWritten
  <1>3. d = [files |-> rest, index |-> store.index]
    BY <1>1 DEF FileRemoved, Restrict
  <1>4. /\ DOMAIN files = DOMAIN store.files \cup {s} /\ DOMAIN rest = DOMAIN store.files \ {s}
    OBVIOUS
  <1>5. Held(files) /\ Held(rest)
    BY DEF TypesFit, Held
  <1> HIDE DEF files, rest
  <1>6. SaveChatSession(store, s, c) =
          [files |-> files, index |-> IF store.index = NoIndex THEN DOMAIN files
                                      ELSE store.index \cup {s}]
    <2>1. SaveChatSession(store, s, c) = [f EXCEPT !.index = ListChatSessions(f) \cup {s}]
      BY DEF SaveChatSession
    <2>2. ListChatSessions(f) = IF store.index = NoIndex THEN DOMAIN files ELSE store.index
      BY <1>2 DEF ListChatSessions, AfterListing, RebuildIndex
    <2>3. s \in DOMAIN files
      BY <1>4
    <2> HIDE DEF f
    <2>4. ListChatSessions(f) \cup {s} =
            IF store.index = NoIndex THEN DOMAIN files ELSE store.index \cup {s}
      BY <2>2, <2>3
    <2> QED BY <1>2, <2>1, <2>4
  <1>7. DeleteChatSession(store, s) =
          [files |-> rest, index |-> (IF store.index = NoIndex THEN DOMAIN rest
                                      ELSE store.index) \ {s}]
    <2>1. DeleteChatSession(store, s) = [d EXCEPT !.index = ListChatSessions(d) \ {s}]
      BY DEF DeleteChatSession
    <2>2. ListChatSessions(d) = IF store.index = NoIndex THEN DOMAIN rest ELSE store.index
      BY <1>3 DEF ListChatSessions, AfterListing, RebuildIndex
    <2> HIDE DEF d
    <2> QED BY <1>3, <2>1, <2>2
  <1> QED BY <1>2, <1>3, <1>4, <1>5, <1>6, <1>7 DEF files, rest


\* The view, the requests or the store change; no answer does, and none is read.
Traffic ==
    /\ UNCHANGED <<agent, reader, home>> /\ timers' \in Nat /\ timers' <= timers
    /\ Held(local') /\ active' \in Sessions
    /\ ops' \in 0..MaxOps /\ torn' \subseteq Sessions
    /\ requests' \subseteq RequestRecord
    /\ store' = [files |-> store'.files, index |-> store'.index]
    /\ Held(store'.files) /\ store'.index \in (SUBSET Sessions) \cup {NoIndex}
    /\ StoreFit' /\ CopiesFit'
    /\ \/ calm' = {}
       \/ /\ UNCHANGED <<local, active, calm>>
          /\ (\A r \in requests : r.op = "save") => \A r \in requests' : r.op = "save"

\* Traffic keeps the invariant.
LEMMA TrafficKeeps ==
    ASSUME WebInv, Traffic
    PROVE  WebInv'
  <1>1. TypesFit'
    BY DEF WebInv, TypesFit, Traffic
  <1>2. SentFit' /\ ReaderFit'
    <2>1. PICK k \in 0..MaxTurns :
            /\ \A t \in Turns : agent[t].phase # "none" <=> t <= k
            /\ timers + (IF isThinking THEN 1 ELSE 0) <= k
      BY DEF WebInv, SentFit
    <2>2. timers' + (IF isThinking THEN 1 ELSE 0) <= k
      BY <2>1, WebChatBounds DEF WebInv, TypesFit, Traffic
    <2>3. isThinking' = isThinking /\ agent' = agent /\ reader' = reader
      BY DEF Traffic, isThinking
    <2>4. SentFit'
      BY <2>1, <2>2, <2>3 DEF SentFit
    <2>5. ReaderFit'
      BY <2>3 DEF WebInv, ReaderFit
    <2> QED BY <2>4, <2>5
  <1>3. AgentsFit'
    BY DEF WebInv, AgentsFit, Traffic
  <1>4. CalmFit'
    BY DEF WebInv, CalmFit, Traffic, isThinking
  <1> QED BY <1>1, <1>2, <1>3, <1>4 DEF WebInv, Traffic

\* What Traffic asks of a step that leaves a variable alone.
LEMMA Still ==
    ASSUME WebInv, UNCHANGED <<agent, reader, home>>
    PROVE  /\ \A s, turn : TurnFit(s, turn)' <=> TurnFit(s, turn)
           /\ \A s, c : Fits(s, c)' <=> Fits(s, c)
           /\ \A r : RequestFits(r)' <=> RequestFits(r)
           /\ timers \in Nat /\ timers <= timers
           /\ Held(local) /\ active \in Sessions /\ ops \in 0..MaxOps /\ torn \subseteq Sessions
           /\ requests \subseteq RequestRecord
           /\ store = [files |-> store.files, index |-> store.index]
           /\ Held(store.files) /\ store.index \in (SUBSET Sessions) \cup {NoIndex}
           /\ StoreFit
           /\ \A s \in DOMAIN local : s \in Sessions /\ local[s] \in Content /\ Fits(s, local[s])
           /\ \A s \in DOMAIN store.files :
                s \in Sessions /\ store.files[s] \in Content /\ Fits(s, store.files[s])
           /\ \A r \in requests : RequestFits(r)
  <1>1. \A s, turn : TurnFit(s, turn)' <=> TurnFit(s, turn)
    BY DEF TurnFit, isThinking
  <1>2. \A s, c : Fits(s, c)' <=> Fits(s, c)
    BY <1>1 DEF Fits
  <1>3. \A r : RequestFits(r)' <=> RequestFits(r)
    BY <1>2 DEF RequestFits
  <1>4. timers \in Nat /\ timers <= timers
    BY DEF WebInv, TypesFit
  <1>5. /\ Held(local) /\ active \in Sessions /\ ops \in 0..MaxOps /\ torn \subseteq Sessions
        /\ requests \subseteq RequestRecord
        /\ store = [files |-> store.files, index |-> store.index]
        /\ Held(store.files) /\ store.index \in (SUBSET Sessions) \cup {NoIndex}
    BY DEF WebInv, TypesFit
  <1>6. StoreFit /\ CopiesFit
    BY DEF WebInv
  <1>7. /\ \A s \in DOMAIN local : s \in Sessions /\ local[s] \in Content
        /\ \A s \in DOMAIN store.files : s \in Sessions /\ store.files[s] \in Content
    BY <1>5 DEF Held
  <1> QED BY <1>1, <1>2, <1>3, <1>4, <1>5, <1>6, <1>7 DEF CopiesFit

\* CopiesFit after a step, from the parts that it is made of.
LEMMA Placed ==
    ASSUME NEW l, NEW f, NEW q, l = local', f = store'.files, q = requests',
           \A s \in DOMAIN l : Fits(s, l[s])',
           \A s \in DOMAIN f : Fits(s, f[s])',
           \A r \in q : RequestFits(r)'
    PROVE  CopiesFit'
  BY DEF CopiesFit

\* A timer saves the session that is active when it fires.
LEMMA SyncTimerIsTraffic ==
    ASSUME WebInv, SyncTimer
    PROVE  Traffic
  <1> USE DEF SyncTimer, view, history
  <1>1. UNCHANGED <<agent, reader, home>>
    OBVIOUS
  <1> DEFINE new == IF active \in DOMAIN local THEN {Request("save", active, local[active])} ELSE {}
  <1>2. \A r \in new : r \in RequestRecord /\ RequestFits(r) /\ r.op = "save"
    <2> SUFFICES ASSUME active \in DOMAIN local
                 PROVE  LET r == Request("save", active, local[active]) IN
                        r \in RequestRecord /\ RequestFits(r) /\ r.op = "save"
      OBVIOUS
    <2>1. local[active] \in Content /\ Fits(active, local[active]) /\ active \in Sessions
      BY <1>1, Still
    <2> QED BY <2>1, Sent DEF RequestFits
  <1>3. requests' = requests \cup new
    OBVIOUS
  <1> HIDE DEF new
  <1>4. CopiesFit'
    <2>1. \A s \in DOMAIN local : Fits(s, local[s])'
      BY <1>1, Still
    <2>2. \A s \in DOMAIN store.files : Fits(s, store.files[s])'
      BY <1>1, Still
    <2>3. \A r \in requests' : RequestFits(r)'
      BY <1>1, <1>2, <1>3, Still
    <2> QED BY <2>1, <2>2, <2>3, Placed
  <1>5. timers' \in Nat /\ timers' <= timers
    BY <1>1, Still
  <1> QED BY <1>1, <1>2, <1>3, <1>4, <1>5, Still DEF Traffic, StoreFit

\* A new session has no turns yet.
LEMMA NewChatIsTraffic ==
    ASSUME WebInv, NewChat
    PROVE  Traffic
  <1> USE DEF NewChat
  <1>1. UNCHANGED <<agent, reader, home, timers, store, torn>> /\ calm' = {} /\ ops' \in 0..MaxOps
    BY WebChatBounds DEF Extra, WebInv, TypesFit
  <1>2. PICK s \in Fresh : /\ local' = [x \in DOMAIN local \cup {s} |->
                                          IF x = s THEN NewSession ELSE local[x]]
                           /\ active' = s
                           /\ requests' = requests \cup {Request("save", s, NewSession)}
    OBVIOUS
  <1>3. s \in Sessions /\ NewSession \in Content /\ Fits(s, NewSession)
    BY DEF Fresh, NewSession, Content, Fits
  <1> DEFINE r == Request("save", s, NewSession)
  <1>4. r \in RequestRecord /\ RequestFits(r)
    BY <1>3, Sent DEF RequestFits
  <1> HIDE DEF r, NewSession
  <1>5. Held(local')
    BY <1>1, <1>2, <1>3, Still DEF Held
  <1>6. CopiesFit'
    <2>1. \A x \in DOMAIN local' : Fits(x, local'[x])
      BY <1>1, <1>2, <1>3, Still
    <2>2. PICK l : l = local'
      OBVIOUS
    <2>3. \A x \in DOMAIN l : Fits(x, l[x])'
      BY <1>1, <2>1, <2>2, Still
    <2>4. \A x \in DOMAIN store.files : Fits(x, store.files[x])'
      BY <1>1, Still
    <2>5. \A q \in requests' : RequestFits(q)'
      BY <1>1, <1>2, <1>4, Still DEF r
    <2> QED BY <1>1, <2>2, <2>3, <2>4, <2>5, Placed
  <1>7. requests' \subseteq RequestRecord
    BY <1>1, <1>2, <1>4, Still DEF r
  <1> QED BY <1>1, <1>2, <1>3, <1>5, <1>6, <1>7, Still DEF Traffic, StoreFit

\* A select, a delete or a refresh that is asked for.
LEMMA AskingIsTraffic ==
    ASSUME WebInv, SelectSession \/ DeleteSession \/ Refresh
    PROVE  Traffic
  <1>1. /\ UNCHANGED <<agent, reader, home, timers, store, torn, local>> /\ calm' = {}
        /\ ops' \in 0..MaxOps
    BY WebChatBounds DEF Extra, WebInv, TypesFit, SelectSession, DeleteSession, Refresh, view
  <1>2. /\ active' \in Sessions
        /\ \/ requests' = requests
           \/ \E op \in {"select", "delete", "refresh"}, s \in Sessions :
                requests' = requests \cup {Request(op, s, NoAnswer)}
    BY <1>1, Still DEF SelectSession, DeleteSession, Refresh, view
  <1>3. \A q \in requests' : q \in RequestRecord /\ RequestFits(q)
    BY <1>1, <1>2, Still, Sent, SentFits
  <1>4. CopiesFit'
    <2>1. \A x \in DOMAIN local : Fits(x, local[x])'
      BY <1>1, Still
    <2>2. \A x \in DOMAIN store.files : Fits(x, store.files[x])'
      BY <1>1, Still
    <2>3. \A q \in requests' : RequestFits(q)'
      BY <1>1, <1>3, Still
    <2> QED BY <1>1, <2>1, <2>2, <2>3, Placed
  <1> QED BY <1>1, <1>2, <1>3, <1>4, Still DEF Traffic, StoreFit

(* What the server does to its files *)

\* The files and the index of a store, or of an outcome that goes wrong, in which the contents C
\* may have come to the sessions S: everything else is as it was, and but for the sessions that
\* are torn the index is there for the files.
Kept(st, t, S, C) ==
    /\ st = [files |-> st.files, index |-> st.index]
    /\ Held(st.files) /\ st.index \in (SUBSET Sessions) \cup {NoIndex}
    /\ t \subseteq Sessions
    /\ \A y \in DOMAIN st.files : \/ y \in DOMAIN store.files /\ st.files[y] = store.files[y]
                                  \/ y \in S /\ st.files[y] \in C
    /\ st.index = NoIndex \/ \A y \in Sessions \ t : y \in st.index <=> y \in DOMAIN st.files

\* Files that differ from the stored ones in S, with an index that lists them, with the old one,
\* with the old list but for S, or with none.
LEMMA KeptFor ==
    ASSUME WebInv, NEW S \in SUBSET Sessions, NEW C, NEW t \in SUBSET Sessions,
           NEW F, Held(F), NEW I,
           \A y \in DOMAIN F : \/ y \in DOMAIN store.files /\ F[y] = store.files[y]
                               \/ y \in S /\ F[y] \in C,
           \A y \in Sessions \ S : y \in DOMAIN F <=> y \in DOMAIN store.files,
           \/ I = NoIndex
           \/ I = DOMAIN F
           \/ I \subseteq DOMAIN F /\ DOMAIN F \ I \subseteq t
           \/ /\ (torn \ S) \subseteq t
              /\ store.index # NoIndex
              /\ \/ I = store.index /\ S \subseteq t
                 \/ I = store.index \cup S /\ S \subseteq DOMAIN F
                 \/ I = store.index \ S /\ (S \subseteq t \/ S \cap DOMAIN F = {})
           \/ I = DOMAIN store.files \ S /\ S \subseteq t
    PROVE  Kept([files |-> F, index |-> I], t, S, C)
  <1>1. /\ store.index \in (SUBSET Sessions) \cup {NoIndex}
        /\ DOMAIN store.files \subseteq Sessions /\ DOMAIN F \subseteq Sessions
        /\ store.index = NoIndex \/ \A y \in Sessions \ torn : y \in store.index <=> y \in DOMAIN store.files
    BY DEF WebInv, TypesFit, StoreFit, Held
  <1>2. I \in (SUBSET Sessions) \cup {NoIndex}
    BY <1>1
  <1>3. I = NoIndex \/ \A y \in Sessions \ t : y \in I <=> y \in DOMAIN F
    BY <1>1
  <1> DEFINE st == [files |-> F, index |-> I]
  <1>4. st.files = F /\ st.index = I /\ st = [files |-> st.files, index |-> st.index]
    OBVIOUS
  <1> HIDE DEF st
  <1>5. Kept(st, t, S, C)
    BY <1>2, <1>3, <1>4 DEF Kept
  <1> QED BY <1>5 DEF st

\* A save and a delete that are complete, and a listing.
LEMMA ServedKept ==
    ASSUME WebInv, NEW s \in Sessions, NEW c \in Content
    PROVE  LET t == IF store.index = NoIndex THEN {} ELSE torn \ {s}
               u == IF store.index = NoIndex THEN {} ELSE torn
           IN /\ Kept(SaveChatSession(store, s, c), t, {s}, {c})
              /\ Kept(DeleteChatSession(store, s), t, {s}, {})
              /\ Kept(AfterListing(store), u, {}, {})
              /\ AfterListing(store).index \in SUBSET Sessions
              /\ ListChatSessions(store) = AfterListing(store).index
  <1> DEFINE t == IF store.index = NoIndex THEN {} ELSE torn \ {s}
             u == IF store.index = NoIndex THEN {} ELSE torn
             files == [y \in DOMAIN store.files \cup {s} |-> IF y = s THEN c ELSE store.files[y]]
             rest == [y \in DOMAIN store.files \ {s} |-> store.files[y]]
  <1>1. /\ TypesFit /\ Held(store.files) /\ torn \subseteq Sessions
        /\ store = [files |-> store.files, index |-> store.index]
        /\ store.index \in (SUBSET Sessions) \cup {NoIndex}
    BY DEF WebInv, TypesFit
  <1>2. /\ SaveChatSession(store, s, c) =
             [files |-> files, index |-> IF store.index = NoIndex THEN DOMAIN files
                                         ELSE store.index \cup {s}]
        /\ DeleteChatSession(store, s) =
             [files |-> rest, index |-> (IF store.index = NoIndex THEN DOMAIN rest
                                         ELSE store.index) \ {s}]
        /\ Held(files) /\ Held(rest)
        /\ DOMAIN files = DOMAIN store.files \cup {s} /\ DOMAIN rest = DOMAIN store.files \ {s}
    BY <1>1, StoreOps
  <1>3. \A y \in DOMAIN files : \/ y \in DOMAIN store.files /\ files[y] = store.files[y]
                                \/ y \in {s} /\ files[y] \in {c}
    OBVIOUS
  <1>4. \A y \in DOMAIN rest : y \in DOMAIN store.files /\ rest[y] = store.files[y]
    OBVIOUS
  <1> HIDE DEF files, rest
  <1>5. t \in SUBSET Sessions /\ u \in SUBSET Sessions /\ {s} \in SUBSET Sessions
    BY <1>1
  <1>6. Kept(SaveChatSession(store, s, c), t, {s}, {c})
    <2> DEFINE I == IF store.index = NoIndex THEN DOMAIN files ELSE store.index \cup {s}
    <2>1. Kept([files |-> files, index |-> I], t, {s}, {c})
      <3>1. \A y \in Sessions \ {s} : y \in DOMAIN files <=> y \in DOMAIN store.files
        BY <1>2
      <3>2. \/ I = DOMAIN files
            \/ /\ store.index # NoIndex /\ I = store.index \cup {s} /\ {s} \subseteq DOMAIN files
               /\ (torn \ {s}) \subseteq t
        BY <1>2
      <3> HIDE DEF I, t
      <3> QED BY <1>2, <1>3, <1>5, <3>1, <3>2, KeptFor
    <2> QED BY <1>2, <2>1
  <1>7. Kept(DeleteChatSession(store, s), t, {s}, {})
    <2> DEFINE I == (IF store.index = NoIndex THEN DOMAIN rest ELSE store.index) \ {s}
    <2>1. Kept([files |-> rest, index |-> I], t, {s}, {})
      <3>1. \A y \in Sessions \ {s} : y \in DOMAIN rest <=> y \in DOMAIN store.files
        BY <1>2
      <3>2. \/ I = DOMAIN rest
            \/ /\ store.index # NoIndex /\ I = store.index \ {s} /\ {s} \cap DOMAIN rest = {}
               /\ (torn \ {s}) \subseteq t
        BY <1>2
      <3> HIDE DEF I, t
      <3> QED BY <1>2, <1>4, <1>5, <3>1, <3>2, KeptFor
    <2> QED BY <1>2, <2>1
  <1>8. /\ Kept(AfterListing(store), u, {}, {})
        /\ AfterListing(store).index \in SUBSET Sessions
    <2> DEFINE I == IF store.index = NoIndex THEN DOMAIN store.files ELSE store.index
    <2>1. AfterListing(store) = [files |-> store.files, index |-> I]
      <3> PICK fs, ix : store = [files |-> fs, index |-> ix] /\ fs = store.files /\ ix = store.index
        BY <1>1
      <3> QED BY DEF AfterListing, RebuildIndex
    <2>2. \/ I = DOMAIN store.files
          \/ store.index # NoIndex /\ I = store.index \ {} /\ {} \subseteq u /\ (torn \ {}) \subseteq u
      OBVIOUS
    <2>3. I \in SUBSET Sessions
      BY <1>1 DEF Held
    <2> HIDE DEF I, u
    <2>4. Kept([files |-> store.files, index |-> I], u, {}, {})
      BY <1>1, <1>5, <2>2, KeptFor
    <2> QED BY <2>1, <2>3, <2>4
  <1>9. ListChatSessions(store) = AfterListing(store).index
    BY DEF ListChatSessions
  <1> QED BY <1>6, <1>7, <1>8, <1>9

\* A step that changes no content needs only requests that fit.
LEMMA OnlyRequests ==
    ASSUME WebInv, UNCHANGED <<agent, reader, home, local>>, store'.files = store.files,
           \A r \in requests' : RequestFits(r)
    PROVE  CopiesFit'
  <1>1. \A x \in DOMAIN local : Fits(x, local[x])'
    BY Still
  <1> PICK f : f = store.files
    OBVIOUS
  <1>2. \A x \in DOMAIN f : Fits(x, f[x])'
    BY Still
  <1>3. \A r \in requests' : RequestFits(r)'
    BY Still
  <1> QED BY <1>1, <1>2, <1>3, Placed


\* A step in which the server changes its files and answers a request.
LEMMA KeptIsTraffic ==
    ASSUME WebInv, UNCHANGED <<agent, reader, home, timers, local, active>>, ops' \in 0..MaxOps,
           NEW S \in SUBSET Sessions, NEW C \in SUBSET Content, Kept(store', torn', S, C),
           \A y \in S : \A c \in C : Fits(y, c),
           \A q \in requests' : q \in RequestRecord /\ RequestFits(q),
           calm' = {} \/ (UNCHANGED calm /\ ~\A q \in requests : q.op = "save")
                      \/ (UNCHANGED calm /\ requests' \subseteq requests)
    PROVE  Traffic
  <1> PICK st : st = store'
    OBVIOUS
  <1>1. /\ st = [files |-> st.files, index |-> st.index]
        /\ Held(st.files) /\ st.index \in (SUBSET Sessions) \cup {NoIndex}
        /\ torn' \subseteq Sessions
        /\ st.index = NoIndex \/ \A y \in Sessions \ torn' : y \in st.index <=> y \in DOMAIN st.files
    BY DEF Kept
  <1>2. StoreFit'
    BY <1>1 DEF StoreFit
  <1>3. \A y \in DOMAIN st.files : Fits(y, st.files[y])
    <2>1. \A y \in DOMAIN st.files : \/ y \in DOMAIN store.files /\ st.files[y] = store.files[y]
                                     \/ y \in S /\ st.files[y] \in C
      BY DEF Kept
    <2> QED BY <2>1, Still
  <1>4. CopiesFit'
    <2>1. \A x \in DOMAIN local : Fits(x, local[x])'
      BY Still
    <2> PICK f : f = st.files
      OBVIOUS
    <2>2. \A x \in DOMAIN f : Fits(x, f[x])'
      BY <1>3, Still
    <2>3. \A q \in requests' : RequestFits(q)'
      BY Still
    <2> QED BY <2>1, <2>2, <2>3, Placed
  <1>5. timers' \in Nat /\ timers' <= timers /\ Held(local') /\ active' \in Sessions
    BY Still
  <1> QED BY <1>1, <1>2, <1>4, <1>5 DEF Traffic

\* The server saves a session: its file and its place in the index.
LEMMA ServeSaveIsTraffic ==
    ASSUME WebInv, ServeSave
    PROVE  Traffic
  <1> USE DEF ServeSave, view, history
  <1>1. UNCHANGED <<agent, reader, home, timers, local, active, calm, ops>>
    OBVIOUS
  <1>2. PICK r \in requests : /\ r.op = "save" /\ requests' = requests \ {r}
                              /\ store' = SaveChatSession(store, r.s, r.body) /\ Mended({r.s})
    OBVIOUS
  <1>3. r \in RequestRecord /\ r.s \in Sessions /\ r.body \in Content /\ Fits(r.s, r.body)
    BY <1>1, <1>2, Still, Kinds DEF RequestFits
  <1>4. Kept(store', torn', {r.s}, {r.body})
    BY <1>2, <1>3, ServedKept DEF Mended
  <1>5. \A q \in requests' : q \in RequestRecord /\ RequestFits(q)
    BY <1>1, <1>2, Still
  <1>6. {r.s} \in SUBSET Sessions /\ {r.body} \in SUBSET Content
        /\ (\A y \in {r.s} : \A c \in {r.body} : Fits(y, c)) /\ requests' \subseteq requests
    BY <1>2, <1>3
  <1>7. ops' \in 0..MaxOps
    BY <1>1, Still
  <1> QED BY <1>1, <1>4, <1>5, <1>6, <1>7, KeptIsTraffic

\* The answer to a request to delete.
LEMMA DeleteAnswered ==
    ASSUME WebInv, NEW r \in requests, r.op = "delete", r.stage = "sent", Answer(r, NoAnswer),
           UNCHANGED <<agent, reader, home>>
    PROVE  r.s \in Sessions /\ \A q \in requests' : q \in RequestRecord /\ RequestFits(q)
  <1> DEFINE q == [r EXCEPT !.stage = "answered", !.body = NoAnswer]
  <1>1. r \in RequestRecord /\ r.s \in Sessions
    BY Still, Kinds
  <1>2. q \in RequestRecord /\ q.op = "delete" /\ requests' = (requests \ {r}) \cup {q}
    BY <1>1, Returned DEF Answer
  <1> HIDE DEF q
  <1>3. RequestFits(q)
    BY <1>2 DEF RequestFits
  <1> QED BY <1>1, <1>2, <1>3, Still

\* The server deletes a session from both.
LEMMA ServeDeleteIsTraffic ==
    ASSUME WebInv, ServeDelete
    PROVE  Traffic
  <1> USE DEF ServeDelete, view, history
  <1>1. UNCHANGED <<agent, reader, home, timers, local, active, calm, ops>>
    OBVIOUS
  <1>2. PICK r \in requests : /\ r.op = "delete" /\ r.stage = "sent" /\ Answer(r, NoAnswer)
                              /\ store' = DeleteChatSession(store, r.s) /\ Mended({r.s})
    OBVIOUS
  <1>3. r.s \in Sessions /\ \A q \in requests' : q \in RequestRecord /\ RequestFits(q)
    BY <1>1, <1>2, DeleteAnswered
  <1>4. Kept(store', torn', {r.s}, {})
    <2>1. NewSession \in Content
      BY DEF NewSession, Content
    <2> QED BY <1>2, <1>3, <2>1, ServedKept DEF Mended
  <1>5. {r.s} \in SUBSET Sessions /\ {} \in SUBSET Content /\ ~\A q \in requests : q.op = "save"
    BY <1>2, <1>3
  <1>6. ops' \in 0..MaxOps
    BY <1>1, Still
  <1> QED BY <1>1, <1>3, <1>4, <1>5, <1>6, KeptIsTraffic

\* What a save, a delete or a listing leaves behind that goes wrong.
LEMMA WrongKept ==
    ASSUME WebInv, NEW s \in Sessions, NEW c \in Content
    PROVE  /\ \A st \in SaveCutShort(store, s, c) : Kept(st, torn \cup {s}, {s}, {c})
           /\ \A st \in DeleteCutShort(store, s) : Kept(st, torn \cup {s}, {s}, {})
           /\ \A o \in SaveGoesWrong(store, s, c) :
                Kept(o.store, torn \cup {s} \cup o.missed, {s}, {c})
           /\ \A o \in DeleteGoesWrong(store, s) :
                Kept(o.store, torn \cup {s} \cup o.missed, {s}, {})
  <1> DEFINE t == torn \cup {s}
             files == [y \in DOMAIN store.files \cup {s} |-> IF y = s THEN c ELSE store.files[y]]
             rest == [y \in DOMAIN store.files \ {s} |-> store.files[y]]
             old == store.files
  <1>1. /\ TypesFit /\ Held(old) /\ torn \subseteq Sessions
        /\ store = [files |-> old, index |-> store.index]
    BY DEF WebInv, TypesFit
  <1>2. /\ FileWritten(store, s, c) = [files |-> files, index |-> store.index]
        /\ FileRemoved(store, s) = [files |-> rest, index |-> store.index]
        /\ Held(files) /\ Held(rest)
        /\ DOMAIN files = DOMAIN old \cup {s} /\ DOMAIN rest = DOMAIN old \ {s}
    BY <1>1, StoreOps
  <1>3. \A y \in DOMAIN files : \/ y \in DOMAIN old /\ files[y] = old[y]
                                \/ y \in {s} /\ files[y] \in {c}
    OBVIOUS
  <1>4. \A y \in DOMAIN rest : y \in DOMAIN old /\ rest[y] = old[y]
    OBVIOUS
  <1> HIDE DEF files, rest, old
  <1>5. t \in SUBSET Sessions /\ {s} \in SUBSET Sessions /\ {s} \subseteq t /\ (torn \ {s}) \subseteq t
    BY <1>1
  <1>6. ASSUME NEW F, NEW C, (F = files /\ C = {c}) \/ F = rest \/ F = old,
               NEW I, \/ I = NoIndex \/ I = store.index \/ I = ListChatSessions(store) \ {s}
        PROVE  Kept([files |-> F, index |-> I], t, {s}, C)
    <2>1. Held(F) /\ \A y \in Sessions \ {s} : y \in DOMAIN F <=> y \in DOMAIN store.files
      BY <1>1, <1>2, <1>6 DEF old
    <2>2. \A y \in DOMAIN F : \/ y \in DOMAIN store.files /\ F[y] = store.files[y]
                              \/ y \in {s} /\ F[y] \in C
      BY <1>3, <1>4, <1>6 DEF old
    <2>3. ListChatSessions(store) = IF store.index = NoIndex THEN DOMAIN old ELSE store.index
      <3> PICK fs, ix : store = [files |-> fs, index |-> ix] /\ fs = old /\ ix = store.index
        BY <1>1
      <3> QED BY DEF ListChatSessions, AfterListing, RebuildIndex
    <2>4. \/ I = NoIndex
          \/ /\ (torn \ {s}) \subseteq t /\ store.index # NoIndex
             /\ (I = store.index /\ {s} \subseteq t) \/ (I = store.index \ {s} /\ {s} \subseteq t)
          \/ I = DOMAIN store.files \ {s} /\ {s} \subseteq t
      BY <1>5, <1>6, <2>3 DEF old
    <2> HIDE DEF t
    <2> QED BY <1>5, <2>1, <2>2, <2>4, KeptFor
  <1>7. ASSUME NEW F, NEW C, (F = files /\ C = {c}) \/ F = rest \/ F = old, NEW ix,
               NEW o \in Rebuilt([files |-> F, index |-> ix])
        PROVE  Kept(o.store, t \cup o.missed, {s}, C)
    <2>1. PICK seen \in SUBSET DOMAIN F :
             o.store = [files |-> F, index |-> seen] /\ o.missed = DOMAIN F \ seen
      BY <1>7 DEF Rebuilt
    <2>2. Held(F) /\ \A y \in Sessions \ {s} : y \in DOMAIN F <=> y \in DOMAIN store.files
      BY <1>1, <1>2, <1>7 DEF old
    <2>3. \A y \in DOMAIN F : \/ y \in DOMAIN store.files /\ F[y] = store.files[y]
                              \/ y \in {s} /\ F[y] \in C
      BY <1>3, <1>4, <1>7 DEF old
    <2>4. (t \cup o.missed) \in SUBSET Sessions
      BY <1>5, <2>1, <2>2 DEF Held
    <2>5. seen \subseteq DOMAIN F /\ DOMAIN F \ seen \subseteq t \cup o.missed
      BY <2>1
    <2>6. Kept([files |-> F, index |-> seen], t \cup o.missed, {s}, C)
      BY <1>5, <2>2, <2>3, <2>4, <2>5, KeptFor
    <2> QED BY <2>1, <2>6
  <1>8. \A st \in SaveCutShort(store, s, c) : Kept(st, t, {s}, {c})
    <2>1. ASSUME NEW st \in SaveCutShort(store, s, c) PROVE Kept(st, t, {s}, {c})
      <3>1. \/ st = [files |-> rest, index |-> store.index]
            \/ st = [files |-> files, index |-> store.index]
            \/ st = [files |-> files, index |-> NoIndex]
        BY <1>2 DEF SaveCutShort
      <3> QED BY <1>6, <3>1
    <2> QED BY <2>1
  <1>9. \A st \in DeleteCutShort(store, s) : Kept(st, t, {s}, {})
    <2>1. ASSUME NEW st \in DeleteCutShort(store, s) PROVE Kept(st, t, {s}, {})
      <3>1. \/ st = [files |-> rest, index |-> store.index]
            \/ st = [files |-> rest, index |-> NoIndex]
        BY <1>2 DEF DeleteCutShort
      <3> QED BY <1>6, <3>1
    <2> QED BY <2>1
  <1>10. /\ Kept(store, t, {s}, {c}) /\ Kept(store, t, {s}, {})
         /\ Kept([store EXCEPT !.index = NoIndex], t, {s}, {})
         /\ Kept([store EXCEPT !.index = ListChatSessions(store) \ {s}], t, {s}, {})
    <2>1. /\ [store EXCEPT !.index = NoIndex] = [files |-> old, index |-> NoIndex]
          /\ [store EXCEPT !.index = ListChatSessions(store) \ {s}] =
               [files |-> old, index |-> ListChatSessions(store) \ {s}]
      BY <1>1
    <2> QED BY <1>1, <1>6, <2>1
  <1>11. ASSUME NEW o \in SaveGoesWrong(store, s, c)
         PROVE  Kept(o.store, t \cup o.missed, {s}, {c})
    <2>1. CASE o \in Rebuilt(FileWritten(store, s, c))
      BY <1>2, <1>7, <2>1
    <2>2. CASE o \in Plain({store} \cup SaveCutShort(store, s, c))
      <3>1. PICK st \in {store} \cup SaveCutShort(store, s, c) : o = [store |-> st, missed |-> {}]
        BY <2>2 DEF Plain
      <3>2. Kept(st, t, {s}, {c})
        BY <1>8, <1>10
      <3>3. o.store = st /\ t \cup o.missed = t
        BY <3>1
      <3> QED BY <3>2, <3>3
    <2> QED BY <1>11, <2>1, <2>2 DEF SaveGoesWrong
  <1>12. ASSUME NEW o \in DeleteGoesWrong(store, s)
         PROVE  Kept(o.store, t \cup o.missed, {s}, {})
    <2>1. CASE o \in Rebuilt(store) \cup Rebuilt(FileRemoved(store, s))
      BY <1>1, <1>2, <1>7, <2>1
    <2>2. CASE o \in Plain({store, [store EXCEPT !.index = NoIndex],
                           [store EXCEPT !.index = ListChatSessions(store) \ {s}]}
                          \cup DeleteCutShort(store, s))
      <3>1. PICK st \in {store, [store EXCEPT !.index = NoIndex],
                         [store EXCEPT !.index = ListChatSessions(store) \ {s}]}
                        \cup DeleteCutShort(store, s) : o = [store |-> st, missed |-> {}]
        BY <2>2 DEF Plain
      <3>2. Kept(st, t, {s}, {})
        BY <1>9, <1>10
      <3>3. o.store = st /\ t \cup o.missed = t
        BY <3>1
      <3> QED BY <3>2, <3>3
    <2> QED BY <1>12, <2>1, <2>2 DEF DeleteGoesWrong
  <1> HIDE DEF t
  <1>13. \A o \in SaveGoesWrong(store, s, c) : Kept(o.store, t \cup o.missed, {s}, {c})
    BY <1>11
  <1>14. \A o \in DeleteGoesWrong(store, s) : Kept(o.store, t \cup o.missed, {s}, {})
    BY <1>12
  <1> QED BY <1>8, <1>9, <1>13, <1>14 DEF t

\* A listing of what a rebuild has seen.
LEMMA WrongListing ==
    ASSUME WebInv, NEW o \in ListGoesWrong(store)
    PROVE  o.list \subseteq Sessions /\ Kept(o.after.store, torn \cup o.after.missed, {}, {})
  <1> DEFINE old == store.files
  <1>1. /\ Held(old) /\ torn \subseteq Sessions
        /\ store = [files |-> old, index |-> store.index]
        /\ DOMAIN old \subseteq Sessions
    BY DEF WebInv, TypesFit, Held
  <1> HIDE DEF old
  <1>2. PICK p \in Rebuilt(store) :
          /\ o.list = p.store.index
          /\ o.after \in {p} \cup Plain({store, [store EXCEPT !.index = NoIndex]})
    BY DEF ListGoesWrong
  <1>3. PICK seen \in SUBSET DOMAIN old :
          p = [store |-> [files |-> old, index |-> seen], missed |-> DOMAIN old \ seen]
    BY <1>1, <1>2 DEF Rebuilt
  <1>4. o.list \subseteq Sessions
    BY <1>1, <1>2, <1>3
  <1>5. \A y \in DOMAIN old : y \in DOMAIN store.files /\ old[y] = store.files[y]
    BY DEF old
  <1>6. \A y \in Sessions : y \in DOMAIN old <=> y \in DOMAIN store.files
    BY DEF old
  <1>7. CASE o.after = p
    <2>1. o.after.store = [files |-> old, index |-> seen] /\ o.after.missed = DOMAIN old \ seen
      BY <1>3, <1>7
    <2>2. /\ (torn \cup o.after.missed) \in SUBSET Sessions /\ seen \subseteq DOMAIN old
          /\ DOMAIN old \ seen \subseteq torn \cup o.after.missed
      BY <1>1, <2>1
    <2>3. Kept([files |-> old, index |-> seen], torn \cup o.after.missed, {}, {})
      BY <1>1, <1>5, <1>6, <2>2, KeptFor
    <2> QED BY <1>4, <2>1, <2>3
  <1>8. CASE o.after # p
    <2>1. PICK st \in {store, [store EXCEPT !.index = NoIndex]} : o.after = [store |-> st, missed |-> {}]
      BY <1>2, <1>8 DEF Plain
    <2>2. PICK I : (I = NoIndex \/ I = store.index) /\ st = [files |-> old, index |-> I]
      BY <1>1, <2>1
    <2>3. o.after.store = st /\ torn \cup o.after.missed = torn
      BY <2>1
    <2>4. \/ I = NoIndex
          \/ store.index # NoIndex /\ I = store.index /\ (torn \ {}) \subseteq torn /\ {} \subseteq torn
      BY <2>2
    <2>5. Kept([files |-> old, index |-> I], torn, {}, {})
      BY <1>1, <1>5, <1>6, <2>4, KeptFor
    <2> QED BY <1>4, <2>2, <2>3, <2>5
  <1> QED BY <1>7, <1>8

\* A save or a delete in which a call of the file system fails.
LEMMA ServeWronglyIsTraffic ==
    ASSUME WebInv, ServeWrongly
    PROVE  Traffic
  <1>1. UNCHANGED <<agent, reader, home, timers, local, active>> /\ calm' = {} /\ ops' \in 0..MaxOps
    BY WebChatBounds DEF ServeWrongly, view, Extra, WebInv, TypesFit
  <1>2. PICK r \in requests :
          \/ /\ r.op = "save" /\ requests' = requests \ {r}
             /\ \E o \in SaveGoesWrong(store, r.s, r.body) : Tear(o, {r.s})
          \/ /\ r.op = "delete" /\ r.stage = "sent" /\ Answer(r, NoAnswer)
             /\ \E o \in DeleteGoesWrong(store, r.s) : Tear(o, {r.s})
    BY DEF ServeWrongly
  <1>3. CASE /\ r.op = "save" /\ requests' = requests \ {r}
             /\ \E o \in SaveGoesWrong(store, r.s, r.body) : Tear(o, {r.s})
    <2>1. r \in RequestRecord /\ r.s \in Sessions /\ r.body \in Content /\ Fits(r.s, r.body)
      BY <1>1, <1>3, Still, Kinds DEF RequestFits
    <2>2. Kept(store', torn', {r.s}, {r.body})
      BY <1>3, <2>1, WrongKept DEF Tear
    <2>3. \A q \in requests' : q \in RequestRecord /\ RequestFits(q)
      BY <1>1, <1>3, Still
    <2>4. {r.s} \in SUBSET Sessions /\ {r.body} \in SUBSET Content
          /\ \A y \in {r.s} : \A c \in {r.body} : Fits(y, c)
      BY <2>1
    <2> QED BY <1>1, <2>2, <2>3, <2>4, KeptIsTraffic
  <1>4. CASE /\ r.op = "delete" /\ r.stage = "sent" /\ Answer(r, NoAnswer)
             /\ \E o \in DeleteGoesWrong(store, r.s) : Tear(o, {r.s})
    <2>1. r.s \in Sessions /\ \A q \in requests' : q \in RequestRecord /\ RequestFits(q)
      BY <1>1, <1>4, DeleteAnswered
    <2>2. Kept(store', torn', {r.s}, {})
      <3>1. NewSession \in Content
        BY DEF NewSession, Content
      <3> QED BY <1>4, <2>1, <3>1, WrongKept DEF Tear
    <2>3. {r.s} \in SUBSET Sessions /\ {} \in SUBSET Content
      BY <2>1
    <2> QED BY <1>1, <2>1, <2>2, <2>3, KeptIsTraffic
  <1> QED BY <1>2, <1>3, <1>4

\* The server answers with a session's file.
LEMMA ServeGetIsTraffic ==
    ASSUME WebInv, ServeGet
    PROVE  Traffic
  <1> USE DEF ServeGet, view, history
  <1>1. UNCHANGED <<agent, reader, home, timers, torn, local, active, calm, ops, store>>
    OBVIOUS
  <1>2. PICK r \in requests :
          /\ r.op = "select" /\ r.stage = "sent"
          /\ Answer(r, IF HasSession(store, r.s) THEN GetChatSession(store, r.s) ELSE NoAnswer)
    OBVIOUS
  <1>3. r \in RequestRecord /\ r.s \in Sessions
    BY <1>1, <1>2, Still, Kinds
  <1>4. PICK body \in Content \cup {NoAnswer} :
          /\ body = IF HasSession(store, r.s) THEN GetChatSession(store, r.s) ELSE NoAnswer
          /\ body # NoAnswer => Fits(r.s, body)
    BY <1>1, Still DEF HasSession, GetChatSession
  <1> DEFINE q == [r EXCEPT !.stage = "answered", !.body = body]
  <1>5. /\ q \in RequestRecord /\ q.op = "select" /\ q.s = r.s /\ q.body = body
        /\ requests' = (requests \ {r}) \cup {q}
    <2>1. requests' = (requests \ {r}) \cup {q}
      BY <1>2, <1>4 DEF Answer
    <2>2. r.op = "select" /\ r.stage # "answered"
      BY <1>2
    <2>3. q \in RequestRecord /\ q.op = r.op /\ q.s = r.s /\ q.body = body
      <3>1. r \in RequestRecord /\ body \in Content \cup {NoAnswer}
        BY <1>3, <1>4
      <3> QED BY <2>2, <3>1, Returned
    <2> HIDE DEF q
    <2> QED BY <2>1, <2>2, <2>3
  <1> HIDE DEF q
  <1>6. RequestFits(q)
    BY <1>4, <1>5 DEF RequestFits
  <1>7. CopiesFit'
    BY <1>1, <1>5, <1>6, Still, OnlyRequests
  <1>8. requests' \subseteq RequestRecord
    BY <1>1, <1>5, Still
  <1>9. ~\A p \in requests : p.op = "save"
    BY <1>2
  <1> QED BY <1>1, <1>7, <1>8, <1>9, Still DEF Traffic, StoreFit

\* What becomes of a refresh when the list is there: a view without any session on the server
\* saves its own.
LEMMA ListedFits ==
    ASSUME WebInv, NEW r \in requests, NEW list \in SUBSET Sessions, Listed(r, list),
           UNCHANGED <<agent, reader, home>>
    PROVE  \A q \in requests' : q \in RequestRecord /\ RequestFits(q)
  <1>1. CASE list = {}
    <2>1. \A s \in DOMAIN local : s \in Sessions /\ local[s] \in Content /\ Fits(s, local[s])
      BY Still
    <2>2. ASSUME NEW s \in DOMAIN local
          PROVE  LET q == Request("save", s, local[s]) IN q \in RequestRecord /\ RequestFits(q)
      BY <2>1, Sent DEF RequestFits
    <2> QED BY <1>1, <2>2, Still DEF Listed
  <1>2. CASE list # {}
    <2>1. PICK target \in (IF r.s \in list THEN {r.s} ELSE list) :
            requests' = (requests \ {r})
                        \cup {[op |-> "refresh", s |-> target, stage |-> "listed",
                               body |-> [list |-> list, detail |-> NoAnswer]]}
      BY <1>2 DEF Listed
    <2>2. target \in Sessions
      OBVIOUS
    <2> DEFINE q == [op |-> "refresh", s |-> target, stage |-> "listed",
                     body |-> [list |-> list, detail |-> NoAnswer]]
    <2>3. q \in RequestRecord
      BY <2>2 DEF RequestRecord, RefreshRequest
    <2>4. RequestFits(q)
      BY DEF RequestFits
    <2> QED BY <2>1, <2>3, <2>4, Still
  <1> QED BY <1>1, <1>2

\* The server lists the sessions.
LEMMA ServeListIsTraffic ==
    ASSUME WebInv, ServeList
    PROVE  Traffic
  <1> USE DEF ServeList, view, history
  <1>1. UNCHANGED <<agent, reader, home, timers, local, active, calm, ops>>
    OBVIOUS
  <1>2. PICK r \in requests :
          /\ r.op = "refresh" /\ r.stage = "sent"
          /\ store' = AfterListing(store) /\ Mended({}) /\ Listed(r, ListChatSessions(store))
    OBVIOUS
  <1>3. Kept(store', torn', {}, {}) /\ ListChatSessions(store) \in SUBSET Sessions
    <2>1. NewSession \in Content
      BY DEF NewSession, Content
    <2>2. PICK s : s \in Sessions
      BY SessionsNonempty
    <2>3. torn' = IF store.index = NoIndex THEN {} ELSE torn
      BY <1>2 DEF Mended
    <2> QED BY <1>2, <2>1, <2>2, <2>3, ServedKept
  <1>4. \A q \in requests' : q \in RequestRecord /\ RequestFits(q)
    BY <1>1, <1>2, <1>3, ListedFits
  <1>5. {} \in SUBSET Sessions /\ {} \in SUBSET Content /\ ~\A q \in requests : q.op = "save"
    BY <1>2
  <1>6. ops' \in 0..MaxOps
    BY <1>1, Still
  <1> QED BY <1>1, <1>3, <1>4, <1>5, <1>6, KeptIsTraffic

\* A listing in which a call of the file system fails.
LEMMA ListWronglyIsTraffic ==
    ASSUME WebInv, ListWrongly
    PROVE  Traffic
  <1>1. UNCHANGED <<agent, reader, home, timers, local, active>> /\ calm' = {} /\ ops' \in 0..MaxOps
    BY WebChatBounds DEF ListWrongly, view, Extra, WebInv, TypesFit
  <1>2. PICK r \in requests, o \in ListGoesWrong(store) : Tear(o.after, {}) /\ Listed(r, o.list)
    BY DEF ListWrongly
  <1>3. o.list \in SUBSET Sessions /\ Kept(store', torn', {}, {})
    <2>1. store' = o.after.store /\ torn' = torn \cup o.after.missed
      BY <1>2 DEF Tear
    <2> QED BY <2>1, WrongListing
  <1>4. \A q \in requests' : q \in RequestRecord /\ RequestFits(q)
    BY <1>1, <1>2, <1>3, ListedFits
  <1>5. {} \in SUBSET Sessions /\ {} \in SUBSET Content
    OBVIOUS
  <1> QED BY <1>1, <1>3, <1>4, <1>5, KeptIsTraffic

\* The server answers a refresh with the session it is for.
LEMMA ServeDetailIsTraffic ==
    ASSUME WebInv, ServeDetail
    PROVE  Traffic
  <1> USE DEF ServeDetail, view, history
  <1>1. UNCHANGED <<agent, reader, home, timers, torn, local, active, calm, ops, store>>
    OBVIOUS
  <1>2. PICK r \in requests :
          /\ r.op = "refresh" /\ r.stage = "listed"
          /\ requests' = (requests \ {r}) \cup
               (IF HasSession(store, r.s)
                THEN {[r EXCEPT !.stage = "answered", !.body.detail = GetChatSession(store, r.s)]}
                ELSE {})
    OBVIOUS
  <1>3. /\ r.s \in Sessions /\ r.body.list \subseteq Sessions
        /\ r = [op |-> "refresh", s |-> r.s, stage |-> "listed", body |-> r.body]
        /\ r.body = [list |-> r.body.list, detail |-> NoAnswer]
    BY <1>1, <1>2, Still, Kinds
  <1>4. ASSUME NEW q \in requests', q \notin requests PROVE q \in RequestRecord /\ RequestFits(q)
    <2>1. HasSession(store, r.s) /\ q = [r EXCEPT !.stage = "answered", !.body.detail = GetChatSession(store, r.s)]
      BY <1>2, <1>4
    <2>2. PICK c \in Content : c = GetChatSession(store, r.s) /\ Fits(r.s, c)
      BY <1>1, <2>1, Still DEF HasSession, GetChatSession
    <2>3. /\ r \in [op : {"refresh"}, s : Sessions, stage : {"listed"},
                   body : [list : SUBSET Sessions, detail : {NoAnswer}]]
          /\ r.body \in [list : SUBSET Sessions, detail : {NoAnswer}]
      BY <1>1, <1>2, Still
         DEF RequestRecord, SaveRequest, SelectRequest, DeleteRequest, RefreshRequest
    <2> DEFINE answer == [r.body EXCEPT !.detail = c]
    <2>4. answer \in [list : SUBSET Sessions, detail : Content] /\ answer.detail = c
      BY <2>3
    <2>7. q = [r EXCEPT !.stage = "answered", !.body = answer]
      BY <2>1, <2>2
    <2> HIDE DEF answer
    <2>8. /\ q \in [op : {"refresh"}, s : Sessions, stage : {"answered"},
                   body : [list : SUBSET Sessions, detail : Content]]
          /\ q.op = "refresh" /\ q.s = r.s /\ q.body = answer
      BY <2>3, <2>4, <2>7
    <2>5. q \in RequestRecord
      BY <2>8 DEF RequestRecord, RefreshRequest
    <2>6. RequestFits(q)
      BY <2>2, <2>4, <2>8 DEF RequestFits
    <2> QED BY <2>5, <2>6
  <1>5. requests' \subseteq RequestRecord /\ \A q \in requests' : RequestFits(q)
    BY <1>1, <1>4, Still
  <1>6. CopiesFit'
    BY <1>1, <1>5, OnlyRequests
  <1>7. ~\A p \in requests : p.op = "save"
    BY <1>2
  <1> QED BY <1>1, <1>5, <1>6, <1>7, Still DEF Traffic, StoreFit

\* A request is lost.
LEMMA FailIsTraffic ==
    ASSUME WebInv, Fail
    PROVE  Traffic
  <1>1. /\ UNCHANGED <<agent, reader, home, timers, torn, local, active, store>> /\ calm' = {}
        /\ ops' \in 0..MaxOps
    BY WebChatBounds DEF Fail, view, Extra, WebInv, TypesFit
  <1>2. PICK r \in requests : r.stage # "answered" /\ requests' = (requests \ {r}) \cup Failed(r)
    BY DEF Fail
  <1>3. r \in RequestRecord
    BY <1>1, Still
  <1>4. requests' \subseteq RequestRecord /\ \A q \in requests' : RequestFits(q)
    BY <1>1, <1>2, <1>3, Still, FailedFits
  <1>5. CopiesFit'
    BY <1>1, <1>4, OnlyRequests
  <1> QED BY <1>1, <1>4, <1>5, Still DEF Traffic, StoreFit


\* A step that changes what the view holds needs only sessions that fit.
LEMMA OnlyShown ==
    ASSUME WebInv, UNCHANGED <<agent, reader, home, store>>, requests' \subseteq requests,
           \A s \in DOMAIN local' : Fits(s, local'[s])
    PROVE  CopiesFit'
  <1> PICK l : l = local'
    OBVIOUS
  <1>1. \A x \in DOMAIN l : Fits(x, l[x])'
    BY Still
  <1>2. \A x \in DOMAIN store.files : Fits(x, store.files[x])'
    BY Still
  <1>3. \A r \in requests' : RequestFits(r)'
    BY Still
  <1> QED BY <1>1, <1>2, <1>3, Placed

\* The view takes a selected session.
LEMMA ApplySelectIsTraffic ==
    ASSUME WebInv, ApplySelect
    PROVE  Traffic
  <1>1. /\ UNCHANGED <<agent, reader, home, timers, torn, store, ops>> /\ calm' = {}
    BY DEF ApplySelect
  <1>2. PICK r \in requests :
          /\ r.op = "select"
          /\ local' = IF r.body # NoAnswer /\ r.s \in DOMAIN local
                      THEN [local EXCEPT ![r.s] = r.body] ELSE local
          /\ active' = r.s /\ requests' = requests \ {r}
    BY DEF ApplySelect
  <1>3. /\ r.s \in Sessions
        /\ r.body # NoAnswer => r.body \in Content /\ Fits(r.s, r.body)
    BY <1>1, <1>2, Still, Kinds DEF RequestFits
  <1>4. Held(local')
    BY <1>1, <1>2, <1>3, Still DEF Held
  <1>5. \A s \in DOMAIN local' : Fits(s, local'[s])
    BY <1>1, <1>2, <1>3, Still
  <1>6. CopiesFit'
    BY <1>1, <1>2, <1>5, OnlyShown
  <1> QED BY <1>1, <1>2, <1>3, <1>4, <1>6, Still DEF Traffic, StoreFit

\* The view drops a deleted session.
LEMMA ApplyDeleteIsTraffic ==
    ASSUME WebInv, ApplyDelete
    PROVE  Traffic
  <1>1. /\ UNCHANGED <<agent, reader, home, timers, torn, store, ops>> /\ calm' = {}
    BY DEF ApplyDelete
  <1>2. PICK r \in requests :
          /\ LET left == DOMAIN local \ {r.s} IN
             IF left # {}
             THEN /\ local' = Restrict(local, left)
                  /\ IF active = r.s THEN active' \in left ELSE UNCHANGED active
             ELSE \E s \in Fresh : /\ local' = [x \in {s} |-> NewSession]
                                   /\ active' = IF active = r.s THEN s ELSE active
          /\ requests' = requests \ {r}
    BY DEF ApplyDelete
  <1> DEFINE left == DOMAIN local \ {r.s}
  <1>3. Held(local') /\ active' \in Sessions /\ \A s \in DOMAIN local' : Fits(s, local'[s])
    <2>1. CASE left # {}
      <3>1. local' = [x \in left |-> local[x]]
        BY <1>2, <2>1 DEF Restrict
      <3>2. IF active = r.s THEN active' \in left ELSE UNCHANGED active
        BY <1>2, <2>1
      <3>3. \A s \in left : s \in Sessions /\ local[s] \in Content /\ Fits(s, local[s])
        BY <1>1, Still
      <3>4. Held(local')
        BY <3>1, <3>3 DEF Held
      <3>5. active' \in Sessions
        BY <1>1, <3>2, <3>3, Still
      <3> QED BY <3>1, <3>3, <3>4, <3>5
    <2>2. CASE left = {}
      <3>1. PICK s \in Fresh : /\ local' = [x \in {s} |-> NewSession]
                               /\ active' = IF active = r.s THEN s ELSE active
        BY <1>2, <2>2
      <3>2. s \in Sessions /\ NewSession \in Content /\ Fits(s, NewSession)
        BY DEF Fresh, NewSession, Content, Fits
      <3> QED BY <1>1, <3>1, <3>2, Still DEF Held
    <2> QED BY <2>1, <2>2
  <1>4. CopiesFit'
    BY <1>1, <1>2, <1>3, OnlyShown
  <1> QED BY <1>1, <1>2, <1>3, <1>4, Still DEF Traffic, StoreFit

\* The view takes the sessions of a refresh.
LEMMA ApplyRefreshIsTraffic ==
    ASSUME WebInv, ApplyRefresh
    PROVE  Traffic
  <1>1. /\ UNCHANGED <<agent, reader, home, timers, torn, store, ops>> /\ calm' = {}
    BY DEF ApplyRefresh
  <1>2. PICK r \in requests :
          /\ r.op = "refresh" /\ r.stage = "answered"
          /\ local' = [s \in r.body.list |-> IF s = r.s THEN r.body.detail ELSE Summary]
          /\ active' = r.s /\ requests' = requests \ {r}
    BY DEF ApplyRefresh
  <1>3. /\ r.s \in Sessions /\ r.body.list \subseteq Sessions /\ r.body.detail \in Content
        /\ Fits(r.s, r.body.detail)
    BY <1>1, <1>2, Still, Kinds DEF RequestFits
  <1>4. Summary \in Content /\ \A s : Fits(s, Summary)
    BY DEF Summary, Content, Fits
  <1>5. Held(local') /\ \A s \in DOMAIN local' : Fits(s, local'[s])
    BY <1>2, <1>3, <1>4 DEF Held
  <1>6. CopiesFit'
    BY <1>1, <1>2, <1>5, OnlyShown
  <1> QED BY <1>1, <1>2, <1>3, <1>5, <1>6, Still DEF Traffic, StoreFit

\* The steps of the view and of the server's routes that are traffic.
Routes == \/ SyncTimer \/ NewChat \/ SelectSession \/ DeleteSession \/ Refresh
          \/ ServeSave \/ ServeDelete \/ ServeGet \/ ServeList \/ ServeDetail \/ Fail
          \/ ServeWrongly \/ ListWrongly
          \/ ApplySelect \/ ApplyDelete \/ ApplyRefresh
\* All of them.
LEMMA RoutesAreTraffic ==
    ASSUME WebInv, Routes
    PROVE  Traffic
  BY SyncTimerIsTraffic, NewChatIsTraffic, AskingIsTraffic, ServeSaveIsTraffic,
     ServeDeleteIsTraffic, ServeGetIsTraffic, ServeListIsTraffic, ServeDetailIsTraffic,
     ServeWronglyIsTraffic, ListWronglyIsTraffic,
     FailIsTraffic, ApplySelectIsTraffic, ApplyDeleteIsTraffic, ApplyRefreshIsTraffic
     DEF Routes


-----------------------------------------------------------------------------
(* The steps that end a send *)

\* When the turns that fit still fit, so do sessions and requests.
LEMMA FitsKept ==
    ASSUME \A s, turn : turn \in TurnRecord /\ TurnFit(s, turn) => TurnFit(s, turn)'
    PROVE  /\ \A s, c : c \in Content /\ Fits(s, c) => Fits(s, c)'
           /\ \A r : r \in RequestRecord /\ RequestFits(r) => RequestFits(r)'
  <1>1. ASSUME NEW s, NEW c \in Content, Fits(s, c) PROVE Fits(s, c)'
    <2>1. \A i \in DOMAIN c.turns : c.turns[i] \in TurnRecord
      BY DEF Content
    <2> QED BY <1>1, <2>1 DEF Fits
  <1>2. ASSUME NEW r \in RequestRecord, RequestFits(r) PROVE RequestFits(r)'
    <2>1. /\ r.op = "save" => r.body \in Content
          /\ r.op = "select" /\ r.body # NoAnswer => r.body \in Content
          /\ r.op = "refresh" /\ r.stage = "answered" => r.body.detail \in Content
      BY Kinds
    <2> QED BY <1>1, <1>2, <2>1 DEF RequestFits
  <1> QED BY <1>1, <1>2

\* A state of the agents that nobody follows.
LEMMA OverType ==
    /\ Idle \in AgentState /\ Idle.phase = "none" /\ Idle.loop = 0 /\ Idle.wire = <<>> /\ Idle.sent = 0
    /\ Idle.convo = <<>>
    /\ Over \in AgentState /\ Over.phase = "over" /\ WireFit(Over) /\ ConvoFit(Over)
    /\ \A w \in Seq(Nat) : LET a == [Idle EXCEPT !.phase = "dead", !.wire = w] IN
         a \in AgentState /\ a.phase = "dead" /\ a.wire = w /\ ConvoFit(a)
  <1>1. Idle \in AgentState
    BY WebChatBounds DEF Idle, AgentState
  <1>2. /\ Idle.phase = "none" /\ Idle.loop = 0 /\ Idle.wire = <<>> /\ Idle.sent = 0
        /\ Idle.convo = <<>>
    BY DEF Idle
  <1>3. Over \in AgentState /\ Over.phase = "over" /\ Over.wire = <<>>
    BY <1>1, <1>2 DEF Over, AgentState
  <1>4. WireFit(Over) /\ ConvoFit(Over)
    BY <1>3 DEF WireFit, ConvoFit, Live
  <1>5. ASSUME NEW w \in Seq(Nat)
        PROVE  LET a == [Idle EXCEPT !.phase = "dead", !.wire = w] IN
               a \in AgentState /\ a.phase = "dead" /\ a.wire = w /\ ConvoFit(a)
    <2> DEFINE a == [Idle EXCEPT !.phase = "dead", !.wire = w]
    <2>1. a \in AgentState /\ a.phase = "dead" /\ a.wire = w
      BY <1>1 DEF AgentState
    <2> HIDE DEF a
    <2>2. ConvoFit(a)
      BY <2>1 DEF ConvoFit, Live
    <2> QED BY <2>1, <2>2 DEF a
  <1> QED BY <1>1, <1>2, <1>3, <1>4, <1>5

\* What giving up the running send leaves of the agents.
LEMMA Abandoned ==
    ASSUME WebInv, Abandon
    PROVE  /\ agent' \in [Turns -> AgentState] /\ AgentsFit'
           /\ \A t \in Turns : agent'[t].phase # "none" <=> agent[t].phase # "none"
  <1>1. agent \in [Turns -> AgentState] /\ AgentsFit /\ ReaderFit
    BY DEF WebInv, TypesFit
  <1>2. CASE ~isThinking
    <2>1. agent' = agent
      BY <1>2 DEF Abandon
    <2> QED BY <1>1, <2>1 DEF AgentsFit
  <1>3. CASE isThinking
    <2>1. agent' = [agent EXCEPT ![reader.turn] = Over]
      BY <1>3 DEF Abandon
    <2>2. reader.turn \in Turns /\ agent[reader.turn].phase # "none"
      BY <1>1, <1>3 DEF WebInv, TypesFit, ReaderState, ReaderFit, isThinking
    <2>3. \A t \in Turns : agent'[t] = IF t = reader.turn THEN Over ELSE agent[t]
      BY <1>1, <2>1, <2>2
    <2>4. agent' \in [Turns -> AgentState]
      BY <1>1, <2>1, OverType
    <2>5. \A t \in Turns : agent'[t].phase # "none" <=> agent[t].phase # "none"
      BY <2>2, <2>3, OverType
    <2>6. ASSUME NEW t \in Turns
          PROVE  /\ WireFit(agent'[t]) /\ ConvoFit(agent'[t])
                 /\ agent'[t].phase = "none" => agent'[t] = Idle
      <3>1. CASE t = reader.turn
        BY <2>3, <3>1, OverType
      <3>2. CASE t # reader.turn
        <4>1. agent'[t] = agent[t]
          BY <2>3, <3>2
        <4> QED BY <1>1, <4>1 DEF AgentsFit
      <3> QED BY <3>1, <3>2
    <2>7. AgentsFit'
      BY <2>6 DEF AgentsFit
    <2> QED BY <2>4, <2>5, <2>7
  <1> QED BY <1>2, <1>3

\* A turn fits still when its send has ended, and so it does with the closing event applied.
LEMMA EndFits ==
    ASSUME WebInv, Abandon, reader' = NoReader, UNCHANGED home
    PROVE  /\ \A s, turn : turn \in TurnRecord /\ TurnFit(s, turn) =>
                TurnFit(s, turn)' /\ TurnFit(s, Show(Closing, turn))'
           /\ ~isThinking'
  <1>1. ~isThinking'
    BY DEF isThinking
  <1>2. ASSUME NEW s, NEW turn \in TurnRecord, TurnFit(s, turn)
        PROVE  TurnFit(s, turn)' /\ TurnFit(s, Show(Closing, turn))'
    <2>1. agent'[turn.id].phase # "none" /\ home'[turn.id] = s /\ Rising(turn.shown)
      <3>1. turn.id \in Turns
        BY DEF TurnRecord
      <3> QED BY <1>2, <3>1, Abandoned DEF TurnFit
    <2>2. PICK u : u = Show(Closing, turn) /\ u.id = turn.id /\ u.shown = turn.shown
      BY ShowType DEF Closing
    <2> QED BY <1>1, <2>1, <2>2 DEF TurnFit
  <1> QED BY <1>1, <1>2


\* The end of a send, whichever way it comes.
Ends ==
    /\ Abandon /\ reader' = NoReader /\ UNCHANGED <<home, torn, store>> /\ active' \in Sessions
    /\ ops' \in 0..MaxOps
    /\ timers' \in Nat /\ timers' <= timers + (IF isThinking THEN 1 ELSE 0)
    /\ local' = local \/ local' = Applied(reader.turn, Closing)
    /\ requests' \subseteq RequestRecord /\ \A r \in requests' : RequestFits(r)
    /\ calm' = {} \/ UNCHANGED <<calm, requests>>

\* The end of a send keeps the invariant.
LEMMA EndKeeps ==
    ASSUME WebInv, Ends
    PROVE  WebInv'
  <1>1. /\ Abandon /\ reader' = NoReader /\ UNCHANGED <<home, torn, store>> /\ active' \in Sessions
        /\ ops' \in 0..MaxOps /\ timers' \in Nat
        /\ requests' \subseteq RequestRecord /\ \A r \in requests' : RequestFits(r)
    BY DEF Ends
  <1>2. /\ TypesFit /\ SentFit /\ ReaderFit /\ AgentsFit /\ StoreFit /\ CopiesFit /\ CalmFit
    BY DEF WebInv
  <1>3. /\ agent' \in [Turns -> AgentState] /\ AgentsFit'
        /\ \A t \in Turns : agent'[t].phase # "none" <=> agent[t].phase # "none"
    BY <1>1, Abandoned
  <1>4. /\ \A s, turn : turn \in TurnRecord /\ TurnFit(s, turn) => TurnFit(s, turn)'
        /\ \A s, turn : turn \in TurnRecord /\ TurnFit(s, turn) => TurnFit(s, Show(Closing, turn))'
        /\ ~isThinking'
    BY <1>1, EndFits
  <1>5. /\ \A s, c : c \in Content /\ Fits(s, c) => Fits(s, c)'
        /\ \A r : r \in RequestRecord /\ RequestFits(r) => RequestFits(r)'
    BY <1>4, FitsKept
  <1>6. Held(local') /\ \E l : l = local' /\ \A s \in DOMAIN l : Fits(s, l[s])'
    <2>1. \A s \in DOMAIN local : s \in Sessions /\ local[s] \in Content /\ Fits(s, local[s])
      BY <1>2 DEF TypesFit, Held, CopiesFit
    <2>2. CASE local' = local
      <3>1. Held(local')
        BY <1>2, <2>2 DEF TypesFit
      <3>2. \A s \in DOMAIN local : Fits(s, local[s])'
        BY <1>5, <2>1, <2>2
      <3> QED BY <2>2, <3>1, <3>2
    <2>3. CASE local' = Applied(reader.turn, Closing)
      <3> PICK t, l : t = reader.turn /\ l = Applied(t, Closing)
        OBVIOUS
      <3>1. /\ Held(l) /\ DOMAIN l = DOMAIN local
            /\ \A s \in DOMAIN local : s # active => l[s] = local[s]
            /\ active \in DOMAIN local =>
                 /\ l[active].turns = ShownIn(local[active].turns, t, Closing)
                 /\ local[active].turns \in Seq(TurnRecord)
        BY <1>2, AppliedType DEF Closing
      <3>2. ASSUME NEW s \in DOMAIN l PROVE Fits(s, l[s])'
        <4>1. CASE s # active
          <5> PICK c \in Content : c = local[s] /\ c = l[s] /\ Fits(s, c)
            BY <2>1, <3>1, <4>1
          <5> QED BY <1>5
        <4>2. CASE s = active
          <5> PICK turns : turns = local[s].turns
            OBVIOUS
          <5>1. /\ turns \in Seq(TurnRecord) /\ \A i \in DOMAIN turns : TurnFit(s, turns[i])
                /\ l[s].turns = ShownIn(turns, t, Closing)
            BY <2>1, <3>1, <4>2 DEF Fits
          <5>2. ASSUME NEW i \in DOMAIN l[s].turns PROVE TurnFit(s, l[s].turns[i])'
            <6>1. /\ i \in DOMAIN turns /\ turns[i] \in TurnRecord
                  /\ l[s].turns[i] = turns[i] \/ l[s].turns[i] = Show(Closing, turns[i])
              BY <5>1, ShownInType DEF Closing
            <6> PICK u \in TurnRecord : u = turns[i] /\ TurnFit(s, u)
              BY <5>1, <6>1
            <6>2. TurnFit(s, u)' /\ TurnFit(s, Show(Closing, u))'
              BY <1>4
            <6> QED BY <6>1, <6>2
          <5> QED BY <5>2 DEF Fits
        <4> QED BY <4>1, <4>2
      <3> QED BY <2>3, <3>1, <3>2
    <2> QED BY <2>2, <2>3 DEF Ends
  <1>7. CopiesFit'
    <2>1. \A s \in DOMAIN store.files : Fits(s, store.files[s])'
      <3>1. \A s \in DOMAIN store.files : store.files[s] \in Content /\ Fits(s, store.files[s])
        BY <1>2 DEF TypesFit, Held, CopiesFit
      <3> QED BY <1>1, <1>5, <3>1
    <2>2. \A r \in requests' : RequestFits(r)'
      BY <1>1, <1>5
    <2> QED BY <1>1, <1>6, <2>1, <2>2, Placed
  <1>8. calm' \subseteq Turns
    BY <1>2 DEF Ends, TypesFit
  <1>9. TypesFit'
    BY <1>1, <1>2, <1>3, <1>6, <1>8 DEF TypesFit
  <1>10. SentFit'
    <2>1. PICK k \in 0..MaxTurns :
            /\ \A t \in Turns : agent[t].phase # "none" <=> t <= k
            /\ timers + (IF isThinking THEN 1 ELSE 0) <= k
      BY <1>2 DEF SentFit
    <2>2. timers' <= k
      BY <1>2, <2>1, WebChatBounds DEF Ends, TypesFit
    <2>3. timers' + (IF isThinking' THEN 1 ELSE 0) <= k
      <3>1. (IF isThinking' THEN 1 ELSE 0) = 0
        BY <1>4
      <3>2. timers' + 0 = timers'
        <4>1. timers' \in Nat
          BY <1>1
        <4>2. \A x \in Nat : x + 0 = x
          OBVIOUS
        <4> QED BY <4>1, <4>2, Zenon
      <3> QED BY <2>2, <3>1, <3>2
    <2>4. \A t \in Turns : agent'[t].phase # "none" <=> t <= k
      BY <1>3, <2>1
    <2> QED BY <2>3, <2>4 DEF SentFit
  <1>11. ReaderFit' /\ StoreFit'
    BY <1>1, <1>2, <1>4 DEF ReaderFit, StoreFit
  <1>12. CalmFit'
    BY <1>2, <1>4 DEF CalmFit, Ends
  <1> QED BY <1>3, <1>7, <1>9, <1>10, <1>11, <1>12 DEF WebInv

\* The stream that ends, the break and the remount are such ends.
LEMMA EndingsEnd ==
    ASSUME WebInv, Finish \/ Break \/ Remount
    PROVE  Ends
  <1>1. /\ TypesFit /\ CopiesFit
    BY DEF WebInv
  <1>2. /\ requests \subseteq RequestRecord /\ \A r \in requests : RequestFits(r)
        /\ active \in Sessions /\ ops \in 0..MaxOps /\ timers \in Nat
    BY <1>1 DEF TypesFit, CopiesFit
  <1>3. CASE Finish \/ Break
    <2>1. /\ isThinking /\ Abandon /\ Settle
          /\ UNCHANGED <<active, requests, store, torn, home>>
          /\ calm' = {} \/ UNCHANGED calm
          /\ ops' = ops \/ (ops < MaxOps /\ ops' = ops + 1)
      BY <1>3 DEF Finish, Break, Extra, history
    <2>2. reader' = NoReader /\ timers' = timers + 1 /\ local' = Applied(reader.turn, Closing)
      BY <2>1, SettleApplies DEF Settle
    <2>3. ops' \in 0..MaxOps /\ timers' \in Nat /\ timers' <= timers + (IF isThinking THEN 1 ELSE 0)
      BY <1>2, <2>1, <2>2, WebChatBounds
    <2> QED BY <1>2, <2>1, <2>2, <2>3 DEF Ends
  <1>4. CASE Remount
    <2>1. /\ Abandon /\ reader' = NoReader /\ timers' = 0 /\ calm' = {} /\ ops' \in 0..MaxOps
          /\ active' \in (IF active \in DOMAIN local THEN {active} ELSE DOMAIN local)
          /\ requests' = {r \in requests : r.op = "save"} \cup {Request("refresh", active', NoAnswer)}
          /\ UNCHANGED <<local, store, torn, home>>
      BY <1>2, <1>4, WebChatBounds DEF Remount, Extra
    <2>2. active' \in Sessions
      BY <1>1, <1>2, <2>1 DEF TypesFit, Held
    <2>3. \A r \in requests' : r \in RequestRecord /\ RequestFits(r)
      <3> PICK s \in Sessions : s = active'
        BY <2>2
      <3>1. requests' = {r \in requests : r.op = "save"} \cup {Request("refresh", s, NoAnswer)}
        BY <2>1
      <3> QED BY <1>2, <3>1, Sent, SentFits
    <2>4. 0 \in Nat /\ 0 <= timers + (IF isThinking THEN 1 ELSE 0)
      BY <1>2
    <2> QED BY <2>1, <2>2, <2>3, <2>4 DEF Ends
  <1> QED BY <1>3, <1>4


-----------------------------------------------------------------------------
(* The death of the server *)

\* The death of the server between a file and the index keeps the invariant.
LEMMA CrashKeeps ==
    ASSUME WebInv, CrashWhileSaving
    PROVE  WebInv'
  <1>1. /\ TypesFit /\ SentFit /\ ReaderFit /\ AgentsFit /\ StoreFit /\ CopiesFit /\ CalmFit
    BY DEF WebInv
  <1>2. /\ requests \subseteq RequestRecord /\ agent \in [Turns -> AgentState]
        /\ \A r \in requests : RequestFits(r)
        /\ \A s \in DOMAIN local : local[s] \in Content /\ Fits(s, local[s])
        /\ \A s \in DOMAIN store.files : store.files[s] \in Content /\ Fits(s, store.files[s])
    BY <1>1 DEF TypesFit, CopiesFit, Held
  <1>3. /\ UNCHANGED <<local, active, reader, timers, home>> /\ calm' = {}
        /\ ops' \in 0..MaxOps
    <2>1. Extra /\ ops \in 0..MaxOps
      BY <1>1 DEF CrashWhileSaving, TypesFit
    <2>2. ops' \in 0..MaxOps /\ calm' = {}
      BY <2>1, WebChatBounds DEF Extra
    <2> QED BY <2>2 DEF CrashWhileSaving, view
  <1>4. PICK r \in requests :
          /\ \/ r.op = "save" /\ store' \in SaveCutShort(store, r.s, r.body)
             \/ r.op = "delete" /\ r.stage = "sent" /\ store' \in DeleteCutShort(store, r.s)
          /\ torn' = torn \cup {r.s}
    BY DEF CrashWhileSaving
  <1>5. requests' = UNION {IF q.stage = "answered" THEN {q} ELSE Failed(q) : q \in requests}
    BY DEF CrashWhileSaving
  <1>6. agent' = [t \in Turns |-> IF Live(agent[t])
                                  THEN [Idle EXCEPT !.phase = "dead", !.wire = agent[t].wire]
                                  ELSE agent[t]]
    BY DEF CrashWhileSaving, Live
  <1>7. \A t \in Turns :
          \/ /\ Live(agent[t])
             /\ agent'[t] \in AgentState /\ agent'[t].phase = "dead"
             /\ agent'[t].wire = agent[t].wire /\ ConvoFit(agent'[t])
          \/ ~Live(agent[t]) /\ agent'[t] = agent[t]
    <2> SUFFICES ASSUME NEW t \in Turns, Live(agent[t])
                 PROVE  /\ agent'[t] \in AgentState /\ agent'[t].phase = "dead"
                        /\ agent'[t].wire = agent[t].wire /\ ConvoFit(agent'[t])
      BY <1>6
    <2>1. agent[t].wire \in Seq(Nat)
      BY <1>2 DEF AgentState
    <2>2. agent'[t] = [Idle EXCEPT !.phase = "dead", !.wire = agent[t].wire]
      BY <1>6
    <2> QED BY <2>1, <2>2, OverType
  <1>8. agent' \in [Turns -> AgentState]
    BY <1>2, <1>6, <1>7
  <1>9. \A t \in Turns : agent'[t].phase # "none" <=> agent[t].phase # "none"
    BY <1>7 DEF Live
  <1>10. AgentsFit'
    <2>1. ASSUME NEW t \in Turns
          PROVE  /\ WireFit(agent'[t]) /\ ConvoFit(agent'[t])
                 /\ agent'[t].phase = "none" => agent'[t] = Idle
      <3>1. WireFit(agent[t]) /\ ConvoFit(agent[t]) /\ (agent[t].phase = "none" => agent[t] = Idle)
        BY <1>1 DEF AgentsFit
      <3>2. CASE Live(agent[t])
        <4>1. agent'[t].phase = "dead" /\ agent'[t].wire = agent[t].wire /\ ConvoFit(agent'[t])
          BY <1>7, <3>2
        <4>2. WireFit(agent'[t])
          BY <3>1, <4>1 DEF WireFit, Live
        <4> QED BY <4>1, <4>2
      <3>3. CASE ~Live(agent[t])
        <4>1. agent'[t] = agent[t]
          BY <1>7, <3>3
        <4> QED BY <3>1, <4>1
      <3> QED BY <3>2, <3>3
    <2> QED BY <2>1 DEF AgentsFit
  <1>11. \A s, turn : turn \in TurnRecord /\ TurnFit(s, turn) => TurnFit(s, turn)'
    <2> SUFFICES ASSUME NEW s, NEW turn \in TurnRecord, TurnFit(s, turn) PROVE TurnFit(s, turn)'
      OBVIOUS
    <2>1. turn.id \in Turns
      BY DEF TurnRecord
    <2>2. Behind(turn, agent[turn.id]) => Behind(turn, agent'[turn.id])
      BY <1>7, <2>1 DEF Behind, Live
    <2> QED BY <1>3, <1>9, <2>1, <2>2 DEF TurnFit, isThinking
  <1>12. /\ \A s, c : c \in Content /\ Fits(s, c) => Fits(s, c)'
         /\ \A q : q \in RequestRecord /\ RequestFits(q) => RequestFits(q)'
    BY <1>11, FitsKept
  <1>13. \A q \in requests' : q \in RequestRecord /\ RequestFits(q)
    <2> SUFFICES ASSUME NEW q \in requests' PROVE q \in RequestRecord /\ RequestFits(q)
      OBVIOUS
    <2>1. PICK p \in requests : q \in (IF p.stage = "answered" THEN {p} ELSE Failed(p))
      BY <1>5
    <2> QED BY <1>2, <2>1, FailedFits
  <1>14. PICK C \in SUBSET Content, S \in SUBSET Sessions :
             Kept(store', torn', S, C) /\ \A s \in S : \A c \in C : Fits(s, c)
    <2>1. r \in RequestRecord /\ r.s \in Sessions /\ {r.s} \in SUBSET Sessions
      BY <1>2, Kinds
    <2>2. CASE r.op = "save" /\ store' \in SaveCutShort(store, r.s, r.body)
      <3>1. r.body \in Content /\ Fits(r.s, r.body) /\ {r.body} \in SUBSET Content
        BY <1>2, <2>1, <2>2, Kinds DEF RequestFits
      <3>2. Kept(store', torn', {r.s}, {r.body})
        BY <1>4, <2>1, <2>2, <3>1, WrongKept
      <3>3. \A s \in {r.s} : \A c \in {r.body} : Fits(s, c)
        BY <3>1
      <3> QED BY <2>1, <3>1, <3>2, <3>3
    <2>3. CASE store' \in DeleteCutShort(store, r.s)
      <3>1. NewSession \in Content /\ {} \in SUBSET Content
        BY DEF NewSession, Content
      <3>2. Kept(store', torn', {r.s}, {})
        BY <1>4, <2>1, <2>3, <3>1, WrongKept
      <3>3. \A s \in {r.s} : \A c \in {} : Fits(s, c)
        OBVIOUS
      <3> QED BY <2>1, <3>1, <3>2, <3>3
    <2> QED BY <1>4, <2>2, <2>3
  <1>15. PICK st : st = store'
    OBVIOUS
  <1>16. /\ st = [files |-> st.files, index |-> st.index]
         /\ Held(st.files) /\ st.index \in (SUBSET Sessions) \cup {NoIndex}
         /\ torn' \subseteq Sessions
         /\ st.index = NoIndex \/ \A y \in Sessions \ torn' : y \in st.index <=> y \in DOMAIN st.files
         /\ \A s \in DOMAIN st.files : st.files[s] \in Content /\ Fits(s, st.files[s])
    BY <1>2, <1>14, <1>15 DEF Kept
  <1>17. CopiesFit'
    <2>1. \A s \in DOMAIN local : Fits(s, local[s])'
      BY <1>2, <1>3, <1>12
    <2> PICK f : f = st.files
      OBVIOUS
    <2>2. \A s \in DOMAIN f : Fits(s, f[s])'
      BY <1>12, <1>16
    <2>3. \A q \in requests' : RequestFits(q)'
      BY <1>12, <1>13
    <2> QED BY <1>3, <1>15, <2>1, <2>2, <2>3, Placed
  <1>18. TypesFit'
    BY <1>1, <1>3, <1>8, <1>13, <1>15, <1>16 DEF TypesFit
  <1>19. SentFit'
    BY <1>1, <1>3, <1>9 DEF SentFit, isThinking
  <1>20. ReaderFit'
    <2>1. isThinking => reader.turn \in Turns
      BY <1>1 DEF TypesFit, ReaderState, isThinking
    <2>2. isThinking => agent[reader.turn].phase \notin {"none", "over"}
      BY <1>1 DEF ReaderFit
    <2>3. isThinking => agent'[reader.turn].phase \notin {"none", "over"}
      BY <1>7, <2>1, <2>2
    <2> QED BY <1>3, <2>3 DEF ReaderFit, isThinking
  <1>21. StoreFit' /\ CalmFit'
    BY <1>3, <1>15, <1>16 DEF StoreFit, CalmFit
  <1> QED BY <1>10, <1>17, <1>18, <1>19, <1>20, <1>21 DEF WebInv


-----------------------------------------------------------------------------
(* A step of the agent *)

\* A step of the agent keeps the invariant.
LEMMA AgentKeeps ==
    ASSUME WebInv, NEW t \in Turns, Agent(t)
    PROVE  WebInv'
  <1>1. /\ TypesFit /\ SentFit /\ ReaderFit /\ AgentsFit /\ StoreFit /\ CopiesFit /\ CalmFit
    BY DEF WebInv
  <1>2. /\ Live(agent[t]) /\ UNCHANGED <<view, requests, store, ops, torn, history>>
        /\ \E b \in AgentState : Steps(agent[t], b) /\ agent' = [agent EXCEPT ![t] = b]
    BY <1>1, AgentSteps
  <1>3. PICK b \in AgentState : Steps(agent[t], b) /\ agent' = [agent EXCEPT ![t] = b]
    BY <1>2
  <1>4. /\ agent \in [Turns -> AgentState] /\ agent' \in [Turns -> AgentState]
        /\ \A u \in Turns : agent'[u] = IF u = t THEN b ELSE agent[u]
    BY <1>1, <1>3 DEF TypesFit
  <1>5. /\ b.phase \in {"stream", "tools", "ended"} /\ Sound(agent[t], b) /\ ConvoFit(b)
    BY <1>3 DEF Steps
  <1>6. UNCHANGED <<local, active, reader, timers, requests, store, ops, torn, home, calm>>
    BY <1>2 DEF view, history
  <1>7. \A u \in Turns : agent'[u].phase # "none" <=> agent[u].phase # "none"
    BY <1>2, <1>4, <1>5 DEF Live
  <1>8. AgentsFit'
    <2>1. ASSUME NEW u \in Turns
          PROVE  /\ WireFit(agent'[u]) /\ ConvoFit(agent'[u])
                 /\ agent'[u].phase = "none" => agent'[u] = Idle
      <3>1. WireFit(agent[u]) /\ ConvoFit(agent[u]) /\ (agent[u].phase = "none" => agent[u] = Idle)
        BY <1>1 DEF AgentsFit
      <3>2. CASE u = t
        BY <1>4, <1>5, <3>1, <3>2 DEF Sound
      <3>3. CASE u # t
        <4>1. agent'[u] = agent[u]
          BY <1>4, <3>3
        <4> QED BY <3>1, <4>1
      <3> QED BY <3>2, <3>3
    <2> QED BY <2>1 DEF AgentsFit
  <1>9. \A s, turn : turn \in TurnRecord /\ TurnFit(s, turn) => TurnFit(s, turn)'
    <2> SUFFICES ASSUME NEW s, NEW turn \in TurnRecord, TurnFit(s, turn) PROVE TurnFit(s, turn)'
      OBVIOUS
    <2>1. turn.id \in Turns
      BY DEF TurnRecord
    <2>2. Behind(turn, agent[turn.id]) => Behind(turn, agent'[turn.id])
      BY <1>4, <1>5, <2>1 DEF Sound
    <2> QED BY <1>6, <1>7, <2>1, <2>2 DEF TurnFit, isThinking
  <1>10. CopiesFit'
    <2>1. /\ \A s, c : c \in Content /\ Fits(s, c) => Fits(s, c)'
          /\ \A q : q \in RequestRecord /\ RequestFits(q) => RequestFits(q)'
      BY <1>9, FitsKept
    <2>2. /\ requests \subseteq RequestRecord /\ \A r \in requests : RequestFits(r)
          /\ \A s \in DOMAIN local : local[s] \in Content /\ Fits(s, local[s])
          /\ \A s \in DOMAIN store.files : store.files[s] \in Content /\ Fits(s, store.files[s])
      BY <1>1 DEF TypesFit, CopiesFit, Held
    <2>3. \A s \in DOMAIN local : Fits(s, local[s])'
      BY <1>6, <2>1, <2>2
    <2>4. \A s \in DOMAIN store.files : Fits(s, store.files[s])'
      BY <1>6, <2>1, <2>2
    <2>5. \A r \in requests : RequestFits(r)'
      BY <1>6, <2>1, <2>2
    <2> QED BY <1>6, <2>3, <2>4, <2>5, Placed
  <1>11. TypesFit'
    BY <1>1, <1>4, <1>6 DEF TypesFit
  <1>12. SentFit'
    BY <1>1, <1>6, <1>7 DEF SentFit, isThinking
  <1>13. isThinking => reader.turn \in Turns /\ agent[reader.turn].phase \notin {"none", "over"}
    BY <1>1 DEF TypesFit, ReaderState, isThinking, ReaderFit
  <1>14. isThinking => agent'[reader.turn].phase \notin {"none", "over"}
    BY <1>4, <1>5, <1>13
  <1>15. ReaderFit' /\ StoreFit'
    BY <1>1, <1>6, <1>14 DEF ReaderFit, isThinking, StoreFit
  <1>16. CalmFit'
    <2> SUFFICES ASSUME calm # {}, isThinking
                 PROVE  /\ agent'[reader.turn].phase # "dead"
                        /\ \A i \in DOMAIN local[active].turns :
                             local[active].turns[i].id = reader.turn =>
                               Whole(local[active].turns[i], agent'[reader.turn])
      BY <1>1, <1>6 DEF CalmFit, isThinking
    <2>1. /\ active \in DOMAIN local /\ agent[reader.turn].phase # "dead"
          /\ \A i \in DOMAIN local[active].turns :
               local[active].turns[i].id = reader.turn =>
                 Whole(local[active].turns[i], agent[reader.turn])
      BY <1>1 DEF CalmFit
    <2>2. local[active].turns \in Seq(TurnRecord)
      BY <1>1, <2>1 DEF TypesFit, Held, Content
    <2>3. \A i \in DOMAIN local[active].turns : local[active].turns[i] \in TurnRecord
      BY <2>2, ElementOf
    <2>4. agent'[reader.turn].phase # "dead"
      BY <1>4, <1>5, <1>13, <2>1
    <2>5. ASSUME NEW turn \in TurnRecord, Whole(turn, agent[reader.turn])
          PROVE  Whole(turn, agent'[reader.turn])
      BY <1>4, <1>5, <1>13, <2>5 DEF Sound
    <2> QED BY <2>1, <2>3, <2>4, <2>5
  <1> QED BY <1>8, <1>10, <1>11, <1>12, <1>15, <1>16 DEF WebInv


-----------------------------------------------------------------------------
(* A new send *)

\* The turn that is sent is the next one, and nobody has seen it before.
LEMMA SendNext ==
    ASSUME WebInv, Send
    PROVE  \E k \in 0..MaxTurns :
             /\ k + 1 \in Turns /\ \A u \in Turns : agent[u].phase # "none" <=> u <= k
             /\ timers <= k /\ ~isThinking
             /\ local' = IF active \in DOMAIN local
                         THEN [local EXCEPT ![active] =
                                 [turns |-> Append(@.turns, Turn(k + 1)), loaded |-> TRUE]]
                         ELSE local
             /\ reader' = [turn |-> k + 1, half |-> FALSE]
             /\ agent' = [agent EXCEPT ![k + 1] = Ask(@)]
             /\ home' = [home EXCEPT ![k + 1] = IF active \in DOMAIN local THEN active ELSE NoAnswer]
             /\ calm' = IF active \in DOMAIN local /\ \A r \in requests : r.op = "save"
                        THEN {k + 1} ELSE {}
  <1>1. ~isThinking
    BY DEF Send, FormEnabled, Offered
  <1>2. PICK k \in 0..MaxTurns :
          /\ \A u \in Turns : agent[u].phase # "none" <=> u <= k
          /\ timers + (IF isThinking THEN 1 ELSE 0) <= k
    BY DEF WebInv, SentFit
  <1> DEFINE sent == {u \in Turns : agent[u].phase # "none"}
  <1>3. sent = 1..k
    BY <1>2, WebChatBounds DEF Turns
  <1>4. Cardinality(1..k) = k
    BY <1>2, FS_Interval
  <1>5. Cardinality(sent) + 1 = k + 1
    BY <1>3, <1>4
  <1>6. timers <= k
    <2>1. timers \in Nat
      BY DEF WebInv, TypesFit
    <2> QED BY <1>1, <1>2, <2>1
  <1>7. LET t == Cardinality(sent) + 1 IN
           /\ t \in Turns
           /\ local' = IF active \in DOMAIN local
                       THEN [local EXCEPT ![active] =
                               [turns |-> Append(@.turns, Turn(t)), loaded |-> TRUE]]
                       ELSE local
           /\ reader' = [turn |-> t, half |-> FALSE]
           /\ agent' = [agent EXCEPT ![t] = Ask(@)]
           /\ home' = [home EXCEPT ![t] = IF active \in DOMAIN local THEN active ELSE NoAnswer]
           /\ calm' = IF active \in DOMAIN local /\ \A r \in requests : r.op = "save"
                      THEN {t} ELSE {}
    BY SendPushes
  <1> HIDE DEF sent
  <1> QED BY <1>1, <1>2, <1>5, <1>6, <1>7

\* A send keeps the invariant.
LEMMA SendKeeps ==
    ASSUME WebInv, Send
    PROVE  WebInv'
  <1>1. /\ TypesFit /\ SentFit /\ ReaderFit /\ AgentsFit /\ StoreFit /\ CopiesFit /\ CalmFit
    BY DEF WebInv
  <1>2. PICK k \in 0..MaxTurns :
             /\ k + 1 \in Turns /\ \A u \in Turns : agent[u].phase # "none" <=> u <= k
             /\ timers <= k /\ ~isThinking
             /\ local' = IF active \in DOMAIN local
                         THEN [local EXCEPT ![active] =
                                 [turns |-> Append(@.turns, Turn(k + 1)), loaded |-> TRUE]]
                         ELSE local
             /\ reader' = [turn |-> k + 1, half |-> FALSE]
             /\ agent' = [agent EXCEPT ![k + 1] = Ask(@)]
             /\ home' = [home EXCEPT ![k + 1] = IF active \in DOMAIN local THEN active ELSE NoAnswer]
             /\ calm' = IF active \in DOMAIN local /\ \A r \in requests : r.op = "save"
                        THEN {k + 1} ELSE {}
    BY SendNext
  <1>3. /\ UNCHANGED <<active, timers, requests, store, torn>> /\ ops' \in 0..MaxOps
    <2>1. ops \in 0..MaxOps
      BY <1>1 DEF TypesFit
    <2>2. ops < MaxOps /\ ops' = ops + 1
      BY DEF Send
    <2>3. ops' \in 0..MaxOps
      BY <2>1, <2>2, WebChatBounds
    <2> QED BY <2>3 DEF Send
  <1> PICK t \in Turns : t = k + 1
    BY <1>2
  <1>4. agent[t].phase = "none"
    BY <1>2 DEF Turns
  <1>5. agent[t] = Idle
    BY <1>1, <1>4 DEF AgentsFit
  <1> DEFINE a == Ask(Idle)
  <1>6. /\ a \in AgentState /\ a.phase = "stream" /\ a.wire = <<>> /\ a.sent = 0
        /\ a.calls = <<>> /\ a.ran = 0 /\ a.convo = <<>>
    <2>1. Idle \in AgentState /\ Idle.loop < MaxLoops
      <3>1. 0 < MaxLoops
        BY WebChatBounds
      <3>2. Idle \in AgentState /\ Idle.loop = 0
        BY OverType
      <3> QED BY <3>1, <3>2, Zenon
    <2> QED BY <2>1, OverType, AskType
  <1> HIDE DEF a
  <1>7. /\ agent \in [Turns -> AgentState] /\ agent' \in [Turns -> AgentState]
        /\ \A u \in Turns : agent'[u] = IF u = t THEN a ELSE agent[u]
    <2>1. agent \in [Turns -> AgentState]
      BY <1>1 DEF TypesFit
    <2>2. agent' = [agent EXCEPT ![t] = a]
      BY <1>2, <1>5 DEF a
    <2> QED BY <1>6, <2>1, <2>2
  <1>8. WireFit(a) /\ ConvoFit(a)
    <2>1. IsInjective(a.calls)
      BY <1>6 DEF IsInjective
    <2>2. Answered(a.convo, Len(a.convo))
      BY <1>6 DEF Answered
    <2> QED BY <1>6, <2>1, <2>2 DEF WireFit, ConvoFit, Live
  <1>9. AgentsFit'
    <2>1. ASSUME NEW u \in Turns
          PROVE  /\ WireFit(agent'[u]) /\ ConvoFit(agent'[u])
                 /\ agent'[u].phase = "none" => agent'[u] = Idle
      <3>1. WireFit(agent[u]) /\ ConvoFit(agent[u]) /\ (agent[u].phase = "none" => agent[u] = Idle)
        BY <1>1 DEF AgentsFit
      <3>2. CASE u = t
        <4>1. agent'[u] = a
          BY <1>7, <3>2
        <4> QED BY <1>6, <1>8, <4>1
      <3>3. CASE u # t
        <4>1. agent'[u] = agent[u]
          BY <1>7, <3>3
        <4> QED BY <3>1, <4>1
      <3> QED BY <3>2, <3>3
    <2> QED BY <2>1 DEF AgentsFit
  <1>10. /\ home' \in [Turns -> Sessions \cup {NoAnswer}]
         /\ \A u \in Turns : u # t => home'[u] = home[u]
         /\ active \in DOMAIN local => home'[t] = active
    <2>1. home \in [Turns -> Sessions \cup {NoAnswer}] /\ active \in Sessions
      BY <1>1 DEF TypesFit
    <2>2. home' = [home EXCEPT ![t] = IF active \in DOMAIN local THEN active ELSE NoAnswer]
      BY <1>2
    <2> QED BY <2>1, <2>2
  <1>11. reader' = [turn |-> t, half |-> FALSE] /\ reader' \in ReaderState /\ reader'.turn = t
    BY <1>2 DEF ReaderState
  \* The turns there are fit still.
  <1>12. \A s, turn : turn \in TurnRecord /\ TurnFit(s, turn) => TurnFit(s, turn)'
    <2> SUFFICES ASSUME NEW s, NEW turn \in TurnRecord, TurnFit(s, turn) PROVE TurnFit(s, turn)'
      OBVIOUS
    <2>1. turn.id \in Turns /\ turn.id # t
      BY <1>4 DEF TurnRecord, TurnFit
    <2>2. agent'[turn.id] = agent[turn.id] /\ home'[turn.id] = home[turn.id]
      BY <1>7, <1>10, <2>1
    <2> QED BY <1>11, <2>1, <2>2 DEF TurnFit
  \* And so does the new one.
  <1>13. /\ Turn(t) \in TurnRecord /\ Turn(t).id = t /\ Turn(t).shown = <<>> /\ Turn(t).streaming
    <2>1. <<>> \in Seq(Nat)
      OBVIOUS
    <2> QED BY <2>1 DEF Turn, TurnRecord
  <1>14. active \in DOMAIN local => \E s, u : s = active /\ u = Turn(t) /\ TurnFit(s, u)'
    <2> SUFFICES ASSUME active \in DOMAIN local, NEW s, NEW u, s = active, u = Turn(t)
                 PROVE  TurnFit(s, u)'
      OBVIOUS
    <2>1. u.id = t /\ u.shown = <<>>
      BY <1>13
    <2>2. Rising(u.shown) /\ Behind(u, agent'[u.id])
      BY <2>1 DEF Rising, Behind
    <2>3. home'[u.id] = s /\ agent'[u.id].phase # "none"
      BY <1>6, <1>7, <1>10, <2>1
    <2> QED BY <2>2, <2>3 DEF TurnFit
  <1>15. /\ \A s, c : c \in Content /\ Fits(s, c) => Fits(s, c)'
         /\ \A q : q \in RequestRecord /\ RequestFits(q) => RequestFits(q)'
    BY <1>12, FitsKept
  <1>16. /\ requests \subseteq RequestRecord /\ \A r \in requests : RequestFits(r)
         /\ \A s \in DOMAIN local : s \in Sessions /\ local[s] \in Content /\ Fits(s, local[s])
         /\ \A s \in DOMAIN store.files : store.files[s] \in Content /\ Fits(s, store.files[s])
    BY <1>1 DEF TypesFit, CopiesFit, Held
  <1>17. active \in DOMAIN local =>
           /\ DOMAIN local' = DOMAIN local /\ \A s \in DOMAIN local : s # active => local'[s] = local[s]
           /\ local'[active].turns = Append(local[active].turns, Turn(t))
           /\ local'[active] \in Content /\ local[active].turns \in Seq(TurnRecord)
    <2> SUFFICES ASSUME active \in DOMAIN local
                 PROVE  /\ DOMAIN local' = DOMAIN local
                        /\ \A s \in DOMAIN local : s # active => local'[s] = local[s]
                        /\ local'[active].turns = Append(local[active].turns, Turn(t))
                        /\ local'[active] \in Content /\ local[active].turns \in Seq(TurnRecord)
      OBVIOUS
    <2>1. local[active].turns \in Seq(TurnRecord)
      BY <1>16 DEF Content
    <2> PICK q \in Seq(TurnRecord) : q = Append(local[active].turns, Turn(t))
      BY <1>13, <2>1, Appended
    <2> DEFINE c == [turns |-> q, loaded |-> TRUE]
    <2>2. c \in Content /\ c.turns = q
      BY DEF Content
    <2>3. local' = [local EXCEPT ![active] = c]
      BY <1>2
    <2> HIDE DEF c
    <2> QED BY <2>1, <2>2, <2>3
  <1>18. Held(local') /\ \E l : l = local' /\ \A s \in DOMAIN l : Fits(s, l[s])'
    <2>1. CASE active \notin DOMAIN local
      <3>1. local' = local
        BY <1>2, <2>1
      <3>2. \A s \in DOMAIN local : Fits(s, local[s])'
        BY <1>15, <1>16, <3>1
      <3> QED BY <1>1, <3>1, <3>2 DEF TypesFit
    <2>2. CASE active \in DOMAIN local
      <3>1. Held(local')
        <4>1. local' = [local EXCEPT ![active] = local'[active]]
          BY <1>2, <2>2
        <4> QED BY <1>1, <1>17, <2>2, <4>1 DEF TypesFit, Held
      <3> PICK l, me : l = local' /\ me = active
        OBVIOUS
      <3>2. ASSUME NEW s \in DOMAIN l PROVE Fits(s, l[s])'
        <4>1. CASE s # me
          <5> PICK c \in Content : c = local[s] /\ c = l[s] /\ Fits(s, c)
            BY <1>16, <1>17, <2>2, <4>1
          <5> QED BY <1>15
        <4>2. CASE s = me
          <5> PICK turns \in Seq(TurnRecord), u \in TurnRecord :
                /\ turns = local[s].turns /\ u = Turn(t) /\ TurnFit(s, u)'
                /\ \A i \in DOMAIN turns : turns[i] \in TurnRecord /\ TurnFit(s, turns[i])
            BY <1>13, <1>14, <1>16, <1>17, <2>2, <4>2, ElementOf DEF Fits
          <5>1. /\ l[s].turns = Append(turns, u) /\ DOMAIN Append(turns, u) = 1..(Len(turns) + 1)
                /\ \A i \in 1..Len(turns) : Append(turns, u)[i] = turns[i]
                /\ Append(turns, u)[Len(turns) + 1] = u /\ DOMAIN turns = 1..Len(turns)
                /\ Len(turns) \in Nat
            BY <1>17, <2>2, <4>2, Appended
          <5>2. ASSUME NEW i \in DOMAIN l[s].turns PROVE TurnFit(s, l[s].turns[i])'
            <6>1. i \in 1..Len(turns) \/ i = Len(turns) + 1
              BY <5>1
            <6>2. CASE i \in 1..Len(turns)
              <7>1. l[s].turns[i] = turns[i]
                BY <5>1, <6>2
              <7>2. TurnFit(s, turns[i])'
                BY <1>12, <5>1, <6>2
              <7> QED BY <7>1, <7>2
            <6>3. CASE i = Len(turns) + 1
              <7>1. l[s].turns[i] = u
                BY <5>1, <6>3
              <7> QED BY <7>1
            <6> QED BY <6>1, <6>2, <6>3
          <5> QED BY <5>2 DEF Fits
        <4> QED BY <4>1, <4>2
      <3> QED BY <3>1, <3>2
    <2> QED BY <2>1, <2>2
  <1>19. CopiesFit'
    <2>1. \A s \in DOMAIN store.files : Fits(s, store.files[s])'
      BY <1>3, <1>15, <1>16
    <2>2. \A r \in requests : RequestFits(r)'
      BY <1>3, <1>15, <1>16
    <2> QED BY <1>3, <1>18, <2>1, <2>2, Placed
  <1>20. calm' \subseteq Turns
    BY <1>2
  <1>21. TypesFit'
    BY <1>1, <1>3, <1>7, <1>10, <1>11, <1>18, <1>20 DEF TypesFit
  <1>22. SentFit'
    <2>1. k + 1 \in 0..MaxTurns
      BY <1>2, WebChatBounds DEF Turns
    <2>2. ASSUME NEW u \in Turns PROVE agent'[u].phase # "none" <=> u <= k + 1
      BY <1>2, <1>6, <1>7 DEF Turns
    <2>3. timers' + (IF isThinking' THEN 1 ELSE 0) <= k + 1
      <3>1. timers' \in Nat /\ timers' <= k
        BY <1>1, <1>2, <1>3 DEF TypesFit
      <3>2. \A x, y \in Nat : x <= y => x + 1 <= y + 1 /\ x + 0 <= y + 1
        OBVIOUS
      <3>3. k \in Nat
        BY <1>2
      <3>4. (IF isThinking' THEN 1 ELSE 0) = 1 \/ (IF isThinking' THEN 1 ELSE 0) = 0
        OBVIOUS
      <3>5. timers' + 1 <= k + 1 /\ timers' + 0 <= k + 1
        BY <3>1, <3>2, <3>3, Zenon
      <3> QED BY <3>4, <3>5
    <2> QED BY <2>1, <2>2, <2>3 DEF SentFit
  <1>23. ReaderFit' /\ StoreFit'
    BY <1>1, <1>3, <1>6, <1>7, <1>11 DEF ReaderFit, StoreFit
  <1>24. CalmFit'
    <2> SUFFICES ASSUME active \in DOMAIN local, \A r \in requests : r.op = "save", calm' = {t}
                 PROVE  CalmFit'
      BY <1>2 DEF CalmFit
    <2> PICK turns \in Seq(TurnRecord), u \in TurnRecord :
          /\ turns = local[active].turns /\ u = Turn(t)
          /\ \A i \in DOMAIN turns : turns[i] \in TurnRecord /\ TurnFit(active, turns[i])
      BY <1>13, <1>16, <1>17, ElementOf DEF Fits
    <2>1. /\ local'[active].turns = Append(turns, u) /\ DOMAIN Append(turns, u) = 1..(Len(turns) + 1)
          /\ \A i \in 1..Len(turns) : Append(turns, u)[i] = turns[i]
          /\ Append(turns, u)[Len(turns) + 1] = u /\ DOMAIN turns = 1..Len(turns)
          /\ Len(turns) \in Nat
      BY <1>17, Appended
    <2>2. \A i \in 1..Len(turns) : turns[i].id # t
      BY <1>4, <2>1 DEF TurnFit
    <2>3. Whole(u, a)
      BY <1>6, <1>13 DEF Whole, Live
    <2>4. agent'[t] = a /\ u.id = t
      BY <1>7, <1>13
    <2>5. \A i \in 1..(Len(turns) + 1) : i \in 1..Len(turns) \/ i = Len(turns) + 1
      BY <2>1
    <2>6. ASSUME NEW i \in DOMAIN local'[active].turns, local'[active].turns[i].id = t
          PROVE  Whole(local'[active].turns[i], agent'[t])
      BY <2>1, <2>2, <2>3, <2>4, <2>5, <2>6
    <2>7. \E i \in DOMAIN local'[active].turns : local'[active].turns[i].id = t
      <3>1. Len(turns) + 1 \in DOMAIN local'[active].turns
        BY <2>1
      <3> QED BY <2>1, <2>4, <3>1
    <2>8. active' = active /\ active \in DOMAIN local' /\ home'[t] = active
      BY <1>3, <1>10, <1>17
    <2>9. agent'[t].phase # "dead" /\ \A r \in requests' : r.op = "save"
      BY <1>3, <1>6, <2>4
    <2> QED BY <1>11, <2>6, <2>7, <2>8, <2>9 DEF CalmFit
  <1> QED BY <1>9, <1>19, <1>21, <1>22, <1>23, <1>24 DEF WebInv


-----------------------------------------------------------------------------
(* An event is read *)

\* Sums of naturals.
LEMMA Numbers ==
    /\ \A x \in Nat : x > 0 => x - 1 \in Nat /\ x = (x - 1) + 1
    /\ \A x, y \in Nat : /\ x + (y + 1) = (x + 1) + y
                         /\ y \in 1..x => y + 1 \in 1..(x + 1)
                         /\ y \in 1..(x - 1) => y \in 1..x /\ y + 1 \in 1..x
    /\ \A x \in Nat : x # 0 => 1 \in 1..x /\ x \in 1..x /\ x > 0
    /\ \A x, z \in Nat : x + (0 + 1) = z + 1 => x = z
    /\ \A x \in Nat : x + 1 # 0 /\ x + 1 > 0 /\ 1 \in 1..(x + 1) /\ (x + 1) - 1 = x
  OBVIOUS

\* What reading an event leaves of the wire.
LEMMA Taken ==
    ASSUME NEW a \in AgentState, a.wire # <<>>
    PROVE  LET b == [a EXCEPT !.wire = Tail(@)]
               m == Len(a.wire) - 1
           IN /\ b \in AgentState /\ b.phase = a.phase /\ b.sent = a.sent /\ b.ran = a.ran
              /\ b.calls = a.calls /\ b.convo = a.convo /\ b.loop = a.loop
              /\ m \in Nat /\ Len(a.wire) = m + 1 /\ Len(b.wire) = m
              /\ DOMAIN a.wire = 1..(m + 1) /\ DOMAIN b.wire = 1..m
              /\ Head(a.wire) = a.wire[1] /\ Head(a.wire) \in Nat
              /\ \A k \in 1..m : b.wire[k] = a.wire[k + 1] /\ a.wire[k + 1] \in Nat
  <1> PICK w \in Seq(Nat) : w = a.wire /\ w # <<>>
    BY DEF AgentState
  <1>1. /\ Len(w) \in Nat /\ Len(w) > 0 /\ DOMAIN w = 1..Len(w) /\ Head(w) = w[1]
        /\ Tail(w) \in Seq(Nat) /\ Len(Tail(w)) = Len(w) - 1 /\ DOMAIN Tail(w) = 1..(Len(w) - 1)
        /\ \A k \in 1..(Len(w) - 1) : Tail(w)[k] = w[k + 1]
        /\ \A k \in 1..Len(w) : w[k] \in Nat
    OBVIOUS
  <1> PICK m \in Nat : m = Len(w) - 1
    <2>1. Len(w) \in Nat /\ Len(w) > 0
      BY <1>1
    <2> QED BY <2>1, Numbers
  <1>2. Len(w) = m + 1 /\ 1 \in 1..Len(w) /\ \A k \in 1..m : k + 1 \in 1..Len(w)
    BY <1>1
  <1> PICK v \in Seq(Nat) : v = Tail(w)
    BY <1>1
  <1> DEFINE b == [a EXCEPT !.wire = v]
  <1>3. /\ b \in AgentState /\ b.phase = a.phase /\ b.sent = a.sent /\ b.ran = a.ran
        /\ b.calls = a.calls /\ b.convo = a.convo /\ b.loop = a.loop /\ b.wire = v
    BY DEF AgentState
  <1>4. [a EXCEPT !.wire = Tail(@)] = b
    OBVIOUS
  <1> HIDE DEF b
  <1> QED BY <1>1, <1>2, <1>3, <1>4

\* An event is taken from the wire of a, which leaves b.
TakenFrom(a, b, e) == a.wire # <<>> /\ b = [a EXCEPT !.wire = Tail(@)] /\ e = Head(a.wire)

\* Taking an event, and applying it to a turn, keeps what fits fitting.
LEMMA TakenSound ==
    ASSUME NEW a \in AgentState, WireFit(a), ConvoFit(a), NEW b, NEW e, TakenFrom(a, b, e)
    PROVE  /\ b \in AgentState /\ e \in Nat /\ b.phase = a.phase
           /\ WireFit(b) /\ ConvoFit(b)
           /\ \A turn \in TurnRecord :
                Behind(turn, a) =>
                  /\ Behind(turn, b)
                  /\ Rising(turn.shown) => /\ Rising(Show(e, turn).shown)
                                           /\ Behind(Show(e, turn), b)
  <1>0. PICK m \in Nat : m = Len(a.wire) - 1
    BY Taken DEF TakenFrom
  <1>1. /\ b \in AgentState /\ b.phase = a.phase /\ b.sent = a.sent /\ b.ran = a.ran
        /\ b.calls = a.calls /\ b.convo = a.convo
        /\ Len(b.wire) = m /\ DOMAIN a.wire = 1..(m + 1) /\ DOMAIN b.wire = 1..m
        /\ e = a.wire[1] /\ e \in Nat
        /\ \A k \in 1..m : b.wire[k] = a.wire[k + 1] /\ b.wire[k] \in Nat
    BY <1>0, Taken DEF TakenFrom
  <1>2. /\ 1 \in 1..(m + 1) /\ \A k \in 1..m : k + 1 \in 1..(m + 1) /\ 1 < k + 1
        /\ \A j, k \in 1..m : j < k => j + 1 < k + 1
    OBVIOUS
  <1>3. Live(b) <=> Live(a)
    BY <1>1 DEF Live
  <1>4. ConvoFit(b)
    BY <1>1, <1>3 DEF ConvoFit
  <1>5. WireFit(b)
    <2>1. ASSUME NEW j \in 1..m, NEW k \in 1..m, j < k
          PROVE  b.wire[j] # Closing /\ (b.wire[k] # Closing => b.wire[j] < b.wire[k])
      <3>1. j + 1 \in DOMAIN a.wire /\ k + 1 \in DOMAIN a.wire /\ j + 1 < k + 1
        BY <1>1, <1>2, <2>1
      <3>2. a.wire[j + 1] # Closing /\ (a.wire[k + 1] # Closing => a.wire[j + 1] < a.wire[k + 1])
        BY <3>1 DEF WireFit
      <3> QED BY <1>1, <3>2
    <2>2. Live(b) => \A k \in 1..m : b.wire[k] # Closing /\ b.wire[k] <= b.sent
      <3> SUFFICES ASSUME Live(b), NEW k \in 1..m PROVE b.wire[k] # Closing /\ b.wire[k] <= b.sent
        OBVIOUS
      <3>1. k + 1 \in DOMAIN a.wire
        BY <1>1, <1>2
      <3>2. a.wire[k + 1] # Closing /\ a.wire[k + 1] <= a.sent
        BY <1>3, <3>1 DEF WireFit
      <3> QED BY <1>1, <3>2
    <2> QED BY <1>1, <2>1, <2>2 DEF WireFit
  <1>6. ASSUME NEW turn \in TurnRecord, Behind(turn, a)
        PROVE  Behind(turn, b)
    <2>1. \A j \in DOMAIN turn.shown : \A k \in 1..m : b.wire[k] # Closing => turn.shown[j] < b.wire[k]
      BY <1>1, <1>2, <1>6 DEF Behind
    <2>2. Live(b) => \A j \in DOMAIN turn.shown : turn.shown[j] <= b.sent
      BY <1>1, <1>3, <1>6 DEF Behind
    <2> QED BY <1>1, <2>1, <2>2 DEF Behind
  <1>7. ASSUME NEW turn \in TurnRecord, Behind(turn, a), Rising(turn.shown)
        PROVE  Rising(Show(e, turn).shown) /\ Behind(Show(e, turn), b)
    <2> PICK u \in TurnRecord : /\ u = Show(e, turn)
                                /\ e = Closing => u.shown = turn.shown
                                /\ e # Closing => u.shown = Append(turn.shown, e)
      BY <1>1, ShowType
    <2>1. CASE e = Closing
      <3>1. Behind(turn, b)
        BY <1>6, <1>7
      <3>2. Rising(u.shown) /\ Behind(u, b)
        BY <1>7, <2>1, <3>1 DEF Behind
      <3> QED BY <3>2
    <2>2. CASE e # Closing
      <3> PICK q \in Seq(Nat) : q = turn.shown
        BY DEF TurnRecord
      <3>0. Len(q) \in Nat
        OBVIOUS
      <3> PICK n \in Nat : n = Len(q)
        BY <3>0
      <3>1. /\ u.shown = Append(q, e) /\ DOMAIN u.shown = 1..(n + 1) /\ u.shown[n + 1] = e
            /\ DOMAIN q = 1..n /\ \A j \in 1..n : u.shown[j] = q[j] /\ q[j] \in Nat
        <4>1. e \in Nat /\ u.shown = Append(q, e)
          BY <1>1, <2>2
        <4>2. /\ DOMAIN Append(q, e) = 1..(n + 1) /\ Append(q, e)[n + 1] = e /\ DOMAIN q = 1..n
              /\ \A j \in 1..n : Append(q, e)[j] = q[j] /\ q[j] \in Nat
          BY <4>1, Appended
        <4> QED BY <4>1, <4>2
      <3>2. \A j \in 1..(n + 1) : j = n + 1 \/ j \in 1..n
        OBVIOUS
      <3>3. \A j \in 1..n : q[j] < e
        <4>1. a.wire[1] = e /\ 1 \in DOMAIN a.wire
          BY <1>1, <1>2
        <4>2. \A j \in DOMAIN turn.shown : turn.shown[j] < a.wire[1]
          BY <1>7, <2>2, <4>1 DEF Behind
        <4> QED BY <3>1, <4>1, <4>2
      <3>4. Rising(u.shown)
        <4> SUFFICES ASSUME NEW j \in 1..(n + 1), NEW k \in 1..(n + 1), j < k
                     PROVE  u.shown[j] < u.shown[k]
          BY <3>1 DEF Rising
        <4>1. j \in 1..n
          OBVIOUS
        <4>2. CASE k = n + 1
          BY <3>1, <3>3, <4>1, <4>2
        <4>3. CASE k \in 1..n
          <5>1. q[j] < q[k]
            BY <1>7, <3>1, <4>1, <4>3 DEF Rising
          <5> QED BY <3>1, <4>1, <4>3, <5>1
        <4> QED BY <3>2, <4>2, <4>3
      <3>5. \A k \in 1..m : b.wire[k] # Closing => e < b.wire[k]
        <4> SUFFICES ASSUME NEW k \in 1..m, b.wire[k] # Closing PROVE e < b.wire[k]
          OBVIOUS
        <4>1. 1 \in DOMAIN a.wire /\ k + 1 \in DOMAIN a.wire /\ 1 < k + 1
          BY <1>1, <1>2
        <4>2. a.wire[k + 1] # Closing => a.wire[1] < a.wire[k + 1]
          BY <4>1 DEF WireFit
        <4> QED BY <1>1, <4>2
      <3>6. Live(b) => e <= b.sent
        <4>1. 1 \in DOMAIN a.wire
          BY <1>1, <1>2
        <4> QED BY <1>1, <1>3, <4>1 DEF WireFit
      <3>7. Behind(turn, b)
        BY <1>6, <1>7
      <3>8. ASSUME NEW j \in 1..(n + 1)
            PROVE  /\ \A k \in DOMAIN b.wire : b.wire[k] # Closing => u.shown[j] < b.wire[k]
                   /\ Live(b) => u.shown[j] <= b.sent
        <4>1. CASE j = n + 1
          BY <1>1, <3>1, <3>5, <3>6, <4>1
        <4>2. CASE j \in 1..n
          <5>1. u.shown[j] = turn.shown[j] /\ j \in DOMAIN turn.shown
            BY <3>1, <4>2
          <5> QED BY <3>7, <5>1 DEF Behind
        <4> QED BY <3>2, <4>1, <4>2
      <3>9. Behind(u, b)
        BY <3>1, <3>8 DEF Behind
      <3> QED BY <3>4, <3>9
    <2> QED BY <2>1, <2>2
  <1> QED BY <1>1, <1>4, <1>5, <1>6, <1>7

\* A turn to which the events are applied in order stays whole.
LEMMA TakenWhole ==
    ASSUME NEW a \in AgentState, a.phase \in {"stream", "tools", "ended"}, NEW b, NEW e,
           TakenFrom(a, b, e), NEW turn \in TurnRecord, Whole(turn, a)
    PROVE  Whole(Show(e, turn), b)
  <1>0. PICK m \in Nat : m = Len(a.wire) - 1
    BY Taken DEF TakenFrom
  <1>1. /\ b \in AgentState /\ b.phase = a.phase /\ b.sent = a.sent
        /\ Len(a.wire) = m + 1 /\ Len(b.wire) = m
        /\ e = a.wire[1] /\ e \in Nat
        /\ \A k \in 1..m : b.wire[k] = a.wire[k + 1]
    BY <1>0, Taken DEF TakenFrom
  <1>10. PICK q \in Seq(Nat), n \in Nat : q = turn.shown /\ n = Len(q)
    <2>1. turn.shown \in Seq(Nat) /\ Len(turn.shown) \in Nat
      BY DEF TurnRecord
    <2> QED BY <2>1
  <1>11. PICK u \in TurnRecord : u = Show(e, turn)
    BY <1>1, ShowType
  <1>12. /\ e = Closing => u.shown = q /\ ~u.streaming
         /\ e # Closing => /\ u.shown = Append(q, e)
                           /\ u.streaming = turn.streaming
    BY <1>1, <1>10, <1>11, ShowType
  <1>2. \A k \in 1..n : q[k] = k
    BY <1>10 DEF Whole
  <1>3. ASSUME e # Closing, e = n + 1
        PROVE  Len(u.shown) = n + 1 /\ \A k \in 1..(n + 1) : u.shown[k] = k
    <2>1. /\ Len(u.shown) = n + 1 /\ u.shown[n + 1] = n + 1
          /\ \A k \in 1..n : u.shown[k] = q[k]
      <3>1. u.shown = Append(q, e) /\ e \in Nat
        BY <1>1, <1>3, <1>12
      <3>2. q \in Seq(Nat) /\ Len(q) = n
        BY <1>10
      <3> QED BY <1>3, <3>1, <3>2, Appended
    <2>2. \A k \in 1..(n + 1) : k \in 1..n \/ k = n + 1
      OBVIOUS
    <2> QED BY <1>2, <2>1, <2>2
  <1>4. n + 1 # Closing /\ 1 \in 1..(m + 1) /\ a.sent \in Nat
    BY DEF Closing, AgentState
  <1>5. CASE Live(a)
    <2>1. n + (m + 1) = a.sent /\ turn.streaming /\ \A k \in 1..(m + 1) : a.wire[k] = n + k
      BY <1>1, <1>5, <1>10 DEF Whole
    <2>2. e = n + 1
      BY <1>1, <1>4, <2>1
    <2>3. /\ Len(u.shown) = n + 1 /\ \A k \in 1..(n + 1) : u.shown[k] = k
          /\ u.streaming
      BY <1>3, <1>4, <1>12, <2>1, <2>2
    <2>4. (n + 1) + m = a.sent
      BY <2>1, Numbers
    <2>5. ASSUME NEW k \in 1..m PROVE b.wire[k] = (n + 1) + k
      <3>1. k + 1 \in 1..(m + 1) /\ n + (k + 1) = (n + 1) + k
        <4>1. k \in Nat
          OBVIOUS
        <4> QED BY <4>1, Numbers, Zenon
      <3> QED BY <1>1, <2>1, <3>1
    <2>6. b.phase # "ended"
      BY <1>1, <1>5 DEF Live
    <2>7. Whole(u, b)
      BY <1>1, <2>3, <2>4, <2>5, <2>6 DEF Whole
    <2> QED BY <1>11, <2>7
  <1>6. CASE ~Live(a)
    <2>1. a.phase = "ended" /\ ~Live(b) /\ b.phase = "ended"
      BY <1>1, <1>6 DEF Live
    <2>2. /\ n + (m + 1) = a.sent + 1 /\ turn.streaming /\ a.wire[m + 1] = Closing
          /\ \A k \in 1..m : a.wire[k] = n + k
      <3>1. \/ m + 1 = 0
            \/ /\ n + (m + 1) = a.sent + 1 /\ turn.streaming
               /\ a.wire[m + 1] = Closing /\ \A k \in 1..((m + 1) - 1) : a.wire[k] = n + k
        BY <1>1, <1>10, <2>1 DEF Whole
      <3> QED BY <3>1, Numbers
    <2>3. CASE m = 0
      <3>1. e = Closing
        BY <1>1, <2>2, <2>3
      <3>2. u.shown = q /\ ~u.streaming /\ n = a.sent
        BY <1>4, <1>12, <2>2, <2>3, <3>1, Numbers
      <3>3. Whole(u, b)
        BY <1>1, <1>2, <1>10, <2>1, <2>3, <3>2 DEF Whole
      <3> QED BY <1>11, <3>3
    <2>4. CASE m # 0
      <3>1. 1 \in 1..m /\ m \in 1..m
        BY <2>4, Numbers
      <3>2. e = n + 1
        BY <1>1, <2>2, <3>1
      <3>3. /\ Len(u.shown) = n + 1 /\ \A k \in 1..(n + 1) : u.shown[k] = k
            /\ u.streaming
        BY <1>3, <1>4, <1>12, <2>2, <3>2
      <3>4. (n + 1) + m = a.sent + 1 /\ m > 0
        BY <2>2, <2>4, Numbers
      <3>5. ASSUME NEW k \in 1..(m - 1) PROVE b.wire[k] = (n + 1) + k
        <4>1. k \in 1..m /\ k + 1 \in 1..m /\ n + (k + 1) = (n + 1) + k
          <5>1. k \in Nat
            OBVIOUS
          <5> QED BY <5>1, Numbers, Zenon
        <4> QED BY <1>1, <2>2, <4>1
      <3>6. b.wire[m] = Closing
        BY <1>1, <2>2, <3>1
      <3>7. Whole(u, b)
        BY <1>1, <2>1, <3>3, <3>4, <3>5, <3>6 DEF Whole
      <3> QED BY <1>11, <3>7
    <2> QED BY <2>3, <2>4
  <1> QED BY <1>5, <1>6


\* What a read does: it takes half an event, or applies one.
LEMMA ReadDoes ==
    ASSUME WebInv, Read
    PROVE  /\ isThinking /\ reader.turn \in Turns /\ agent[reader.turn].wire # <<>>
           /\ agent[reader.turn].phase \notin {"none", "over"}
           /\ reader' \in ReaderState /\ reader'.turn = reader.turn /\ isThinking'
           /\ UNCHANGED <<active, timers, requests, store, ops, torn, home, calm>>
           /\ \/ UNCHANGED <<local, agent>>
              \/ /\ local' = Applied(reader.turn, Head(agent[reader.turn].wire))
                 /\ agent' = [agent EXCEPT ![reader.turn].wire = Tail(@)]
  <1>1. isThinking /\ agent[reader.turn].wire # <<>>
        /\ UNCHANGED <<active, timers, requests, store, ops, torn, home, calm>>
    BY DEF Read, history
  <1>2. reader \in ReaderState
    BY <1>1 DEF WebInv, TypesFit, isThinking
  <1>3. reader.turn \in Turns /\ agent[reader.turn].phase \notin {"none", "over"}
    BY <1>1, <1>2 DEF WebInv, ReaderFit, ReaderState
  <1>4. reader' = [reader EXCEPT !.half = TRUE] \/ reader' = [reader EXCEPT !.half = FALSE]
    BY ReadApplies
  <1>5. reader' \in ReaderState /\ reader'.turn = reader.turn
    BY <1>2, <1>4 DEF ReaderState
  <1>6. isThinking'
    BY <1>5, NoReaderAssumption DEF isThinking, ReaderState, Turns
  <1>7. \/ UNCHANGED <<local, agent>>
        \/ /\ local' = Applied(reader.turn, Head(agent[reader.turn].wire))
           /\ agent' = [agent EXCEPT ![reader.turn].wire = Tail(@)]
    BY ReadApplies
  <1> QED BY <1>1, <1>3, <1>5, <1>6, <1>7

\* A read keeps the invariant.
LEMMA ReadKeeps ==
    ASSUME WebInv, Read
    PROVE  WebInv'
  <1>1. /\ TypesFit /\ SentFit /\ ReaderFit /\ AgentsFit /\ StoreFit /\ CopiesFit /\ CalmFit
    BY DEF WebInv
  <1> PICK t \in Turns : t = reader.turn
    BY ReadDoes
  <1>2. /\ isThinking /\ agent[t].wire # <<>> /\ agent[t].phase \notin {"none", "over"}
        /\ reader' \in ReaderState /\ reader'.turn = t /\ isThinking'
    BY ReadDoes
  <1>3. UNCHANGED <<active, timers, requests, store, ops, torn, home, calm>>
    BY ReadDoes
  <1>4. SentFit' /\ ReaderFit' /\ StoreFit' /\ AgentsFit' /\ CopiesFit' /\ CalmFit' /\ Held(local')
        /\ agent' \in [Turns -> AgentState]
    <2>1. CASE UNCHANGED <<local, agent>>
      <3>1. SentFit' /\ ReaderFit' /\ StoreFit' /\ AgentsFit'
        BY <1>1, <1>2, <1>3, <2>1 DEF SentFit, ReaderFit, StoreFit, AgentsFit
      <3>2. Held(local') /\ agent' \in [Turns -> AgentState]
        BY <1>1, <2>1 DEF TypesFit
      <3>3. \A s, turn : TurnFit(s, turn)' <=> TurnFit(s, turn)
        BY <1>2, <1>3, <2>1 DEF TurnFit
      <3>4. /\ \A s, c : Fits(s, c)' <=> Fits(s, c)
            /\ \A r : RequestFits(r)' <=> RequestFits(r)
        BY <3>3 DEF Fits, RequestFits
      <3>5. CopiesFit'
        <4>1. \A s \in DOMAIN local : Fits(s, local[s])'
          BY <1>1, <1>3, <2>1, <3>4 DEF CopiesFit
        <4>2. \A s \in DOMAIN store.files : Fits(s, store.files[s])'
          BY <1>1, <1>3, <2>1, <3>4 DEF CopiesFit
        <4>3. \A r \in requests : RequestFits(r)'
          BY <1>1, <1>3, <2>1, <3>4 DEF CopiesFit
        <4> QED BY <1>3, <2>1, <4>1, <4>2, <4>3, Placed
      <3>6. CalmFit'
        BY <1>1, <1>2, <1>3, <2>1 DEF CalmFit
      <3> QED BY <3>1, <3>2, <3>5, <3>6
    <2>2. CASE /\ local' = Applied(t, Head(agent[t].wire))
               /\ agent' = [agent EXCEPT ![t].wire = Tail(@)]
      <3>0. PICK a, b, e : a \in AgentState /\ a = agent[t] /\ TakenFrom(a, b, e)
        BY <1>1, <1>2 DEF TypesFit, TakenFrom
      <3>1. WireFit(a) /\ ConvoFit(a) /\ a.phase \notin {"none", "over"}
        BY <1>1, <1>2, <3>0 DEF AgentsFit
      <3>2. /\ b \in AgentState /\ e \in Nat /\ b.phase = a.phase /\ WireFit(b) /\ ConvoFit(b)
            /\ \A turn \in TurnRecord :
                 Behind(turn, a) =>
                   /\ Behind(turn, b)
                   /\ Rising(turn.shown) => /\ Rising(Show(e, turn).shown)
                                            /\ Behind(Show(e, turn), b)
        BY <3>0, <3>1, TakenSound
      <3>3. /\ agent' \in [Turns -> AgentState]
            /\ \A u \in Turns : agent'[u] = IF u = t THEN b ELSE agent[u]
        <4>1. agent \in [Turns -> AgentState] /\ agent' = [agent EXCEPT ![t] = b]
          BY <1>1, <2>2, <3>0 DEF TypesFit, TakenFrom
        <4> QED BY <3>2, <4>1
      <3>4. AgentsFit'
        <4>1. ASSUME NEW u \in Turns
              PROVE  /\ WireFit(agent'[u]) /\ ConvoFit(agent'[u])
                     /\ agent'[u].phase = "none" => agent'[u] = Idle
          <5>1. WireFit(agent[u]) /\ ConvoFit(agent[u]) /\ (agent[u].phase = "none" => agent[u] = Idle)
            BY <1>1 DEF AgentsFit
          <5>2. CASE u = t
            <6>1. agent'[u] = b
              BY <3>3, <5>2
            <6> QED BY <3>0, <3>1, <3>2, <6>1
          <5>3. CASE u # t
            <6>1. agent'[u] = agent[u]
              BY <3>3, <5>3
            <6> QED BY <5>1, <6>1
          <5> QED BY <5>2, <5>3
        <4> QED BY <4>1 DEF AgentsFit
      <3>5. \A u \in Turns : agent'[u].phase # "none" <=> agent[u].phase # "none"
        BY <3>0, <3>2, <3>3
      <3>6. \A s, turn : turn \in TurnRecord /\ TurnFit(s, turn) => TurnFit(s, turn)'
        <4> SUFFICES ASSUME NEW s, NEW turn \in TurnRecord, TurnFit(s, turn) PROVE TurnFit(s, turn)'
          OBVIOUS
        <4>1. turn.id \in Turns /\ home[turn.id] = s /\ agent[turn.id].phase # "none"
              /\ Rising(turn.shown) /\ (t = turn.id => Behind(turn, agent[turn.id]))
          BY <1>2 DEF TurnRecord, TurnFit
        <4>2. t = turn.id => Behind(turn, agent'[turn.id])
          BY <3>0, <3>2, <3>3, <4>1
        <4> QED BY <1>2, <1>3, <3>5, <4>1, <4>2 DEF TurnFit
      <3>7. \A s, turn : turn \in TurnRecord /\ TurnFit(s, turn) /\ turn.id = t =>
              TurnFit(s, Show(e, turn))'
        <4> SUFFICES ASSUME NEW s, NEW turn \in TurnRecord, TurnFit(s, turn), turn.id = t
                     PROVE  TurnFit(s, Show(e, turn))'
          OBVIOUS
        <4>1. home[t] = s /\ agent[t].phase # "none" /\ Rising(turn.shown) /\ Behind(turn, a)
          BY <1>2, <3>0 DEF TurnFit
        <4> PICK u : u = Show(e, turn) /\ u.id = t
          BY <3>2, ShowType
        <4>2. Rising(u.shown) /\ Behind(u, b)
          BY <3>2, <4>1
        <4>3. agent'[t] = b
          BY <3>3
        <4>4. home'[t] = s /\ agent'[t].phase # "none"
          BY <1>3, <3>5, <4>1
        <4> QED BY <4>2, <4>3, <4>4 DEF TurnFit
      <3>8. /\ \A s, c : c \in Content /\ Fits(s, c) => Fits(s, c)'
            /\ \A q : q \in RequestRecord /\ RequestFits(q) => RequestFits(q)'
        BY <3>6, FitsKept
      <3>9. /\ requests \subseteq RequestRecord /\ \A r \in requests : RequestFits(r)
            /\ \A s \in DOMAIN local : local[s] \in Content /\ Fits(s, local[s])
            /\ \A s \in DOMAIN store.files : store.files[s] \in Content /\ Fits(s, store.files[s])
        BY <1>1 DEF TypesFit, CopiesFit, Held
      <3>90. PICK l : l = Applied(t, e)
        OBVIOUS
      <3>10. l = local'
        BY <2>2, <3>0, <3>90 DEF TakenFrom
      <3>11. /\ Held(l) /\ DOMAIN l = DOMAIN local
             /\ \A s \in DOMAIN local : s # active => l[s] = local[s]
             /\ active \in DOMAIN local =>
                  /\ l[active].turns = ShownIn(local[active].turns, t, e)
                  /\ local[active].turns \in Seq(TurnRecord)
        BY <1>1, <3>2, <3>90, AppliedType
      <3>12. ASSUME NEW s \in DOMAIN l PROVE Fits(s, l[s])'
        <4>1. CASE s # active
          <5> PICK c \in Content : c = local[s] /\ c = l[s] /\ Fits(s, c)
            BY <3>9, <3>11, <4>1
          <5> QED BY <3>8
        <4>2. CASE s = active
          <5> PICK turns : turns = local[s].turns
            OBVIOUS
          <5>1. /\ turns \in Seq(TurnRecord) /\ \A i \in DOMAIN turns : TurnFit(s, turns[i])
                /\ l[s].turns = ShownIn(turns, t, e)
            BY <3>9, <3>11, <4>2 DEF Fits
          <5>2. ASSUME NEW i \in DOMAIN l[s].turns PROVE TurnFit(s, l[s].turns[i])'
            <6>1. /\ i \in DOMAIN turns /\ turns[i] \in TurnRecord
                  /\ l[s].turns[i] = IF turns[i].id = t THEN Show(e, turns[i]) ELSE turns[i]
              BY <3>2, <5>1, ShownInType
            <6> PICK u \in TurnRecord : u = turns[i] /\ TurnFit(s, u)
              BY <5>1, <6>1
            <6>2. TurnFit(s, u)' /\ (u.id = t => TurnFit(s, Show(e, u))')
              BY <3>6, <3>7
            <6> QED BY <6>1, <6>2
          <5> QED BY <5>2 DEF Fits
        <4> QED BY <4>1, <4>2
      <3>13. CopiesFit'
        <4>1. \A s \in DOMAIN store.files : Fits(s, store.files[s])'
          BY <1>3, <3>8, <3>9
        <4>2. \A r \in requests : RequestFits(r)'
          BY <1>3, <3>8, <3>9
        <4> QED BY <1>3, <3>10, <3>12, <4>1, <4>2, Placed
      <3>14. SentFit'
        BY <1>1, <1>2, <1>3, <3>5 DEF SentFit
      <3>15. ReaderFit' /\ StoreFit'
        <4>1. agent'[t].phase \notin {"none", "over"}
          BY <3>0, <3>1, <3>2, <3>3
        <4> QED BY <1>1, <1>2, <1>3, <4>1 DEF ReaderFit, StoreFit
      <3>16. CalmFit'
        <4> SUFFICES ASSUME calm # {}
                     PROVE  /\ agent'[t].phase # "dead" /\ active \in DOMAIN l
                            /\ \E i \in DOMAIN l[active].turns : l[active].turns[i].id = t
                            /\ \A i \in DOMAIN l[active].turns :
                                 l[active].turns[i].id = t => Whole(l[active].turns[i], agent'[t])
          BY <1>1, <1>2, <1>3, <3>10 DEF CalmFit
        <4>1. /\ agent[t].phase # "dead" /\ active \in DOMAIN local
              /\ \E i \in DOMAIN local[active].turns : local[active].turns[i].id = t
              /\ \A i \in DOMAIN local[active].turns :
                   local[active].turns[i].id = t => Whole(local[active].turns[i], agent[t])
          BY <1>1, <1>2 DEF CalmFit
        <4>0. PICK turns \in Seq(TurnRecord) : turns = local[active].turns
          BY <3>11, <4>1
        <4>2. /\ DOMAIN l[active].turns = DOMAIN turns
              /\ \A i \in DOMAIN turns :
                   /\ turns[i] \in TurnRecord
                   /\ l[active].turns[i] = IF turns[i].id = t THEN Show(e, turns[i]) ELSE turns[i]
          <5>1. l[active].turns = ShownIn(turns, t, e)
            BY <3>11, <4>0, <4>1
          <5> QED BY <3>2, <5>1, ShownInType
        <4>3. \A i \in DOMAIN turns : Show(e, turns[i]).id = turns[i].id
          BY <3>2, <4>2, ShowType
        <4>4. \A i \in DOMAIN turns : l[active].turns[i].id = turns[i].id
          BY <4>2, <4>3
        <4>5. a.phase \in {"stream", "tools", "ended"}
          BY <3>0, <3>1, <4>1 DEF AgentState
        <4>6. ASSUME NEW i \in DOMAIN turns, turns[i].id = t PROVE Whole(Show(e, turns[i]), b)
          <5>1. turns[i] \in TurnRecord /\ Whole(turns[i], a)
            BY <3>0, <4>0, <4>1, <4>2, <4>6
          <5> QED BY <3>0, <4>5, <5>1, TakenWhole
        <4>7. agent'[t] = b /\ b.phase # "dead"
          BY <3>0, <3>2, <3>3, <4>1
        <4>8. active \in DOMAIN l
          BY <3>11, <4>1
        <4>9. \E i \in DOMAIN l[active].turns : l[active].turns[i].id = t
          BY <4>0, <4>1, <4>2, <4>4
        <4>10. \A i \in DOMAIN l[active].turns :
                 l[active].turns[i].id = t => Whole(l[active].turns[i], agent'[t])
          <5> SUFFICES ASSUME NEW i \in DOMAIN turns, l[active].turns[i].id = t
                       PROVE  Whole(l[active].turns[i], agent'[t])
            BY <4>2
          <5>1. turns[i].id = t
            BY <4>4
          <5>2. Whole(Show(e, turns[i]), b)
            BY <4>6, <5>1
          <5>3. l[active].turns[i] = Show(e, turns[i])
            BY <4>2, <5>1
          <5>4. agent'[t] = b
            BY <4>7
          <5> QED BY <5>2, <5>3, <5>4, Zenon
        <4> QED BY <4>7, <4>8, <4>9, <4>10
      <3> QED BY <3>3, <3>4, <3>10, <3>11, <3>13, <3>14, <3>15, <3>16
    <2> QED BY <2>1, <2>2, ReadDoes
  <1>5. TypesFit'
    BY <1>1, <1>2, <1>3, <1>4 DEF TypesFit
  <1> QED BY <1>4, <1>5 DEF WebInv


-----------------------------------------------------------------------------
(* The invariant *)

\* A first visit and a return visit start in the invariant.
LEMMA InitInv ==
    ASSUME Init
    PROVE  WebInv
  <1>1. /\ reader = NoReader /\ timers = 0 /\ requests = {} /\ ops = 0 /\ torn = {} /\ calm = {}
        /\ ~isThinking
    BY DEF Init, isThinking
  <1>2. NewSession \in Content /\ \A s : Fits(s, NewSession)
    BY DEF NewSession, Content, Fits
  <1>3. /\ Idle \in AgentState /\ Idle.phase = "none" /\ WireFit(Idle) /\ ConvoFit(Idle)
        /\ Over \in AgentState /\ Over.phase = "over" /\ WireFit(Over) /\ ConvoFit(Over)
    <2>1. /\ Idle \in AgentState /\ Idle.phase = "none" /\ Idle.wire = <<>>
          /\ Over \in AgentState /\ Over.phase = "over" /\ WireFit(Over) /\ ConvoFit(Over)
      BY OverType
    <2>2. WireFit(Idle) /\ ConvoFit(Idle)
      BY <2>1 DEF WireFit, ConvoFit, Live
    <2> QED BY <2>1, <2>2
  <1>4. 0 \in 0..MaxOps /\ 0 \in Nat /\ 0 \in 0..MaxTurns /\ 1 \in 0..MaxTurns /\ 1 \in Turns
        /\ \A t \in Turns : ~(t <= 0) /\ (t <= 1 <=> t = 1)
    BY WebChatBounds DEF Turns
  <1>5. active \in Sessions
    <2>1. active = CHOOSE s \in Sessions : TRUE
      BY DEF Init, FirstVisit, ReturnVisit
    <2> QED BY <2>1, SessionsNonempty
  <1>6. ReaderFit /\ CalmFit
    BY <1>1 DEF ReaderFit, CalmFit
  <1>7. CASE FirstVisit
    <2>1. /\ local = [x \in {active} |-> NewSession] /\ agent = [t \in Turns |-> Idle]
          /\ home = [t \in Turns |-> NoAnswer] /\ store = EmptyStore
      BY <1>7 DEF FirstVisit
    <2>2. /\ store = [files |-> store.files, index |-> store.index]
          /\ store.files = <<>> /\ store.index = NoIndex
      BY <2>1 DEF EmptyStore
    <2>3. Held(local) /\ Held(store.files)
      <3>1. Held(local)
        BY <1>2, <1>5, <2>1 DEF Held
      <3>2. DOMAIN <<>> = {} /\ <<>> = [x \in {} |-> x]
        OBVIOUS
      <3>3. Held(<<>>)
        BY <3>2 DEF Held
      <3> QED BY <2>2, <3>1, <3>3
    <2>4. TypesFit
      BY <1>1, <1>3, <1>4, <1>5, <2>1, <2>2, <2>3 DEF TypesFit
    <2>5. SentFit
      <3>1. \A t \in Turns : agent[t].phase # "none" <=> t <= 0
        BY <1>3, <1>4, <2>1
      <3>2. timers + (IF isThinking THEN 1 ELSE 0) <= 0
        BY <1>1
      <3> QED BY <1>4, <3>1, <3>2 DEF SentFit
    <2>6. AgentsFit
      BY <1>3, <2>1 DEF AgentsFit
    <2>7. CopiesFit
      <3>1. DOMAIN store.files = {}
        BY <2>2
      <3> QED BY <1>1, <1>2, <2>1, <3>1 DEF CopiesFit
    <2>8. StoreFit
      BY <2>2 DEF StoreFit
    <2> QED BY <1>6, <2>4, <2>5, <2>6, <2>7, <2>8 DEF WebInv
  <1>8. CASE ReturnVisit
    <2>1. PICK past \in Sessions \ {active} :
             /\ local = [x \in {active, past} |->
                           IF x = past THEN [turns |-> <<PastTurn>>, loaded |-> TRUE] ELSE NewSession]
             /\ store = [files |-> local, index |-> DOMAIN local]
             /\ agent = [t \in Turns |-> IF t = 1 THEN Over ELSE Idle]
             /\ home = [t \in Turns |-> IF t = 1 THEN past ELSE NoAnswer]
      BY <1>8 DEF ReturnVisit
    <2> DEFINE old == [turns |-> <<PastTurn>>, loaded |-> TRUE]
    <2>2. PastTurn \in TurnRecord /\ PastTurn.id = 1 /\ PastTurn.shown = <<1>>
      <3>1. <<1>> \in Seq(Nat)
        OBVIOUS
      <3> QED BY <1>4, <3>1 DEF PastTurn, TurnRecord
    <2>3. old \in Content /\ old.turns = <<PastTurn>>
      <3> PICK u \in TurnRecord : u = PastTurn
        BY <2>2
      <3>1. <<u>> \in Seq(TurnRecord)
        OBVIOUS
      <3> QED BY <3>1 DEF Content
    <2>4. TurnFit(past, PastTurn)
      <3>1. Rising(<<1>>)
        BY DEF Rising
      <3>2. home[1] = past /\ agent[1].phase # "none"
        BY <1>3, <1>4, <2>1
      <3> QED BY <1>1, <2>2, <3>1, <3>2 DEF TurnFit
    <2>5. Fits(past, old)
      BY <2>3, <2>4 DEF Fits
    <2> HIDE DEF old
    <2>6. local = [x \in {active, past} |-> IF x = past THEN old ELSE NewSession]
      BY <2>1 DEF old
    <2>7. Held(local) /\ \A s \in DOMAIN local : Fits(s, local[s])
      BY <1>2, <1>5, <2>1, <2>3, <2>5, <2>6 DEF Held
    <2>8. /\ store = [files |-> store.files, index |-> store.index]
          /\ store.files = local /\ store.index = DOMAIN local /\ DOMAIN local \subseteq Sessions
      BY <2>1, <2>7 DEF Held
    <2>9. agent \in [Turns -> AgentState] /\ home \in [Turns -> Sessions \cup {NoAnswer}]
      BY <1>3, <2>1
    <2>10. TypesFit
      BY <1>1, <1>4, <1>5, <2>7, <2>8, <2>9 DEF TypesFit
    <2>11. SentFit
      <3>1. \A t \in Turns : agent[t].phase # "none" <=> t <= 1
        BY <1>3, <1>4, <2>1
      <3>2. timers + (IF isThinking THEN 1 ELSE 0) <= 1
        BY <1>1
      <3> QED BY <1>4, <3>1, <3>2 DEF SentFit
    <2>12. AgentsFit
      BY <1>3, <2>1 DEF AgentsFit
    <2>13. CopiesFit
      BY <1>1, <2>7, <2>8 DEF CopiesFit
    <2>14. StoreFit
      BY <2>8 DEF StoreFit
    <2> QED BY <1>6, <2>10, <2>11, <2>12, <2>13, <2>14 DEF WebInv
  <1> QED BY <1>7, <1>8 DEF Init

\* A step that changes nothing.
LEMMA StutterKeeps ==
    ASSUME WebInv, UNCHANGED vars
    PROVE  WebInv'
  <1>1. /\ UNCHANGED <<agent, reader, home, local, active, timers, requests>>
        /\ UNCHANGED <<store, ops, torn, calm>>
    BY DEF vars
  <1>2. CopiesFit'
    BY <1>1, Still, OnlyRequests
  <1>3. Traffic
    BY <1>1, <1>2, Still DEF Traffic, StoreFit
  <1> QED BY <1>3, TrafficKeeps

\* Every step keeps the invariant.
LEMMA StepKeeps ==
    ASSUME WebInv, [Next]_vars
    PROVE  WebInv'
  <1>1. CASE Routes
    BY <1>1, RoutesAreTraffic, TrafficKeeps
  <1>2. CASE Finish \/ Break \/ Remount
    BY <1>2, EndingsEnd, EndKeeps
  <1>3. CASE Send
    BY <1>3, SendKeeps
  <1>4. CASE Read
    BY <1>4, ReadKeeps
  <1>5. CASE \E t \in Turns : Agent(t)
    BY <1>5, AgentKeeps
  <1>6. CASE CrashWhileSaving
    BY <1>6, CrashKeeps
  <1>7. CASE UNCHANGED vars
    BY <1>7, StutterKeeps
  <1> QED BY <1>1, <1>2, <1>3, <1>4, <1>5, <1>6, <1>7 DEF Next, Routes

\* The invariant holds in every reachable state of the web chat.
THEOREM WebInvariant == Spec => []WebInv
  <1>1. Init => WebInv
    BY InitInv
  <1>2. WebInv /\ [Next]_vars => WebInv'
    BY StepKeeps
  <1> QED BY <1>1, <1>2, PTL DEF Spec


-----------------------------------------------------------------------------
(* What the invariant says of the chat *)

\* The variables hold what they should, and there is a timer for a finished send at most.
THEOREM TypesHold == Spec => []TypeOK
  <1>1. WebInv => TypeOK
    <2> SUFFICES ASSUME WebInv PROVE TypeOK
      OBVIOUS
    <2>1. TypesFit /\ SentFit
      BY DEF WebInv
    <2>2. timers \in 0..MaxTurns
      <3>1. timers \in Nat
        BY <2>1 DEF TypesFit
      <3>2. PICK k \in 0..MaxTurns : timers + (IF isThinking THEN 1 ELSE 0) <= k
        BY <2>1 DEF SentFit
      <3> QED BY <3>1, <3>2, WebChatBounds
    <2>3. isThinking => reader.turn \in Turns /\ reader.half \in BOOLEAN
      BY <2>1 DEF TypesFit, ReaderState, isThinking
    <2>4. ASSUME NEW t \in Turns
          PROVE  Range(agent[t].calls) \subseteq 1..MaxCalls /\ agent[t].loop \in 0..MaxLoops
      <3>1. agent[t] \in AgentState
        BY <2>1 DEF TypesFit
      <3>2. agent[t].calls \in Seq(1..MaxCalls) /\ agent[t].loop \in 0..MaxLoops
        BY <3>1 DEF AgentState
      <3>3. \A i \in DOMAIN agent[t].calls : agent[t].calls[i] \in 1..MaxCalls
        BY <3>2, ElementOf
      <3> QED BY <3>2, <3>3 DEF Range
    <2> QED BY <2>1, <2>2, <2>3, <2>4 DEF TypeOK, TypesFit, Held
  <1> QED BY <1>1, WebInvariant, PTL

\* An answer stays in the session it was asked in, in the view and in the server's files, and
\* what is shown of it is in the order in which it was sent.
THEOREM AnswersAtHome == Spec => []AnswersStayHome
  <1>1. WebInv => AnswersStayHome
    <2> SUFFICES ASSUME WebInv PROVE AnswersStayHome
      OBVIOUS
    <2>1. /\ \A s \in DOMAIN local : \A i \in DOMAIN local[s].turns :
               home[local[s].turns[i].id] = s /\ Rising(local[s].turns[i].shown)
          /\ \A s \in DOMAIN store.files : \A i \in DOMAIN store.files[s].turns :
               home[store.files[s].turns[i].id] = s
      BY DEF WebInv, CopiesFit, Fits, TurnFit
    <2> QED BY <2>1 DEF AnswersStayHome, TurnsOf, Rising
  <1> QED BY <1>1, WebInvariant, PTL

\* Whenever the provider is asked, every call of the conversation has its result.
THEOREM CallsHaveResults == Spec => []ConversationComplete
  <1>1. WebInv => ConversationComplete
    <2> SUFFICES ASSUME WebInv, NEW t \in Turns, agent[t].phase = "stream"
                 PROVE  LET c == agent[t].convo
                        IN \A i \in DOMAIN c : "calls" \in DOMAIN c[i] =>
                             /\ IsInjective(c[i].calls)
                             /\ i + Len(c[i].calls) <= Len(c)
                             /\ \A k \in DOMAIN c[i].calls : c[i + k] = [result |-> c[i].calls[k]]
      BY DEF ConversationComplete
    <2>1. Answered(agent[t].convo, Len(agent[t].convo))
      BY DEF WebInv, AgentsFit, ConvoFit
    <2>2. agent[t].convo \in Seq(Message)
      BY DEF WebInv, TypesFit, AgentState
    <2>3. DOMAIN agent[t].convo = 1..Len(agent[t].convo)
      BY <2>2
    <2> QED BY <2>1, <2>3 DEF Answered
  <1> QED BY <1>1, WebInvariant, PTL

\* But for the sessions that are torn, the drawer lists the sessions that are on disk.
THEOREM DrawerIsTrue == Spec => []OnlyTornDiffer
  <1>1. WebInv => OnlyTornDiffer
    <2> SUFFICES ASSUME WebInv, NEW s \in Sessions \ torn
                 PROVE  s \in ListChatSessions(store) <=> HasSession(store, s)
      BY DEF OnlyTornDiffer
    <2>1. store.index = NoIndex \/ (s \in store.index <=> s \in DOMAIN store.files)
      BY DEF WebInv, StoreFit
    <2> PICK fs, ix : store = [files |-> fs, index |-> ix]
      BY DEF WebInv, TypesFit
    <2> QED BY <2>1 DEF ListChatSessions, AfterListing, RebuildIndex, HasSession
  <1> QED BY <1>1, WebInvariant, PTL

\* A turn that is whole, with nothing left on the wire, and the closing event applied.
LEMMA WholeShown ==
    ASSUME NEW turn \in TurnRecord, NEW a \in AgentState, Whole(turn, a), a.phase = "ended", a.wire = <<>>
    PROVE  Show(Closing, turn) = [id |-> turn.id, shown |-> [k \in 1..a.sent |-> k], streaming |-> FALSE]
  <1>1. Len(turn.shown) = a.sent /\ \A k \in 1..a.sent : turn.shown[k] = k
    BY DEF Whole
  <1>2. turn.shown \in Seq(Nat)
    BY DEF TurnRecord
  <1>3. turn.shown = [k \in 1..Len(turn.shown) |-> turn.shown[k]]
    BY <1>2
  <1>4. turn.shown = [k \in 1..a.sent |-> k]
    BY <1>1, <1>3
  <1>5. /\ Show(Closing, turn) \in TurnRecord /\ Show(Closing, turn).id = turn.id
        /\ Show(Closing, turn).shown = turn.shown /\ ~Show(Closing, turn).streaming
    BY ShowType DEF Closing
  <1> PICK u \in TurnRecord : u = Show(Closing, turn)
    BY <1>5
  <1>6. u = [id |-> u.id, shown |-> u.shown, streaming |-> u.streaming] /\ u.streaming \in BOOLEAN
    BY DEF TurnRecord
  <1> QED BY <1>4, <1>5, <1>6

\* When the spinner goes from a send that nobody disturbed, its answer is on the screen whole.
THEOREM CalmAnswers == Spec => CalmAnswerWhole
  <1>1. ASSUME WebInv, [Next]_vars, NEW t \in calm \cap calm', isThinking, ~isThinking',
               agent[t].phase = "ended"
        PROVE  \E i \in DOMAIN local'[home[t]].turns :
                  local'[home[t]].turns[i] = [id |-> t, shown |-> [k \in 1..agent[t].sent |-> k],
                                              streaming |-> FALSE]
    <2>1. Finish
      <3>1. ~Routes
        BY <1>1, RoutesAreTraffic DEF Traffic, isThinking
      <3>2. ~Send
        BY <1>1 DEF Send, FormEnabled, Offered
      <3>3. ~Read
        BY <1>1, ReadDoes
      <3>4. ~(Break \/ Remount \/ CrashWhileSaving)
        BY <1>1 DEF Break, Remount, CrashWhileSaving, Extra
      <3>5. ~\E u \in Turns : Agent(u)
        <4>1. TypesFit /\ AgentsFit
          BY <1>1 DEF WebInv
        <4>2. ASSUME NEW u \in Turns, Agent(u) PROVE FALSE
          BY <1>1, <4>1, <4>2, AgentSteps DEF view, isThinking
        <4> QED BY <4>2
      <3>6. ~UNCHANGED vars
        BY <1>1 DEF vars, isThinking
      <3> QED BY <1>1, <3>1, <3>2, <3>3, <3>4, <3>5, <3>6 DEF Next, Routes
    <2>2. t = reader.turn /\ active \in DOMAIN local /\ home[t] = active
      BY <1>1 DEF WebInv, CalmFit
    <2>3. PICK i \in DOMAIN local[active].turns : local[active].turns[i].id = t
      BY <1>1, <2>2 DEF WebInv, CalmFit
    <2>4. Whole(local[active].turns[i], agent[t])
      BY <1>1, <2>2, <2>3 DEF WebInv, CalmFit
    <2>5. t \in Turns /\ agent[t] \in AgentState
      BY <1>1 DEF WebInv, TypesFit
    <2>6. agent[t].wire = <<>> /\ local' = Applied(t, Closing)
      BY <2>1, <2>2, SettleApplies DEF Finish
    <2>7. /\ DOMAIN local' = DOMAIN local /\ local'[active].turns = ShownIn(local[active].turns, t, Closing)
          /\ local[active].turns \in Seq(TurnRecord)
      BY <1>1, <2>2, <2>6, AppliedType DEF WebInv, Closing
    <2>8. /\ i \in DOMAIN local'[active].turns /\ local[active].turns[i] \in TurnRecord
          /\ local'[active].turns[i] = Show(Closing, local[active].turns[i])
      BY <2>3, <2>7, ShownInType DEF Closing
    <2>9. local'[active].turns[i] = [id |-> t, shown |-> [k \in 1..agent[t].sent |-> k],
                                     streaming |-> FALSE]
      BY <1>1, <2>3, <2>4, <2>5, <2>6, <2>8, WholeShown
    <2> QED BY <2>2, <2>8, <2>9
  <1>2. WebInv /\ [Next]_vars =>
          [\A t \in calm \cap calm' :
             isThinking /\ ~isThinking' /\ agent[t].phase = "ended" =>
               \E i \in DOMAIN local'[home[t]].turns :
                 local'[home[t]].turns[i] = [id |-> t, shown |-> [k \in 1..agent[t].sent |-> k],
                                             streaming |-> FALSE]]_vars
    BY <1>1
  <1> QED BY <1>2, WebInvariant, PTL DEF Spec, CalmAnswerWhole

=============================================================================
