--------------------------- MODULE OrchestratorProofs ---------------------------
(***************************************************************************)
(* What the loop sends and runs, for every number of providers, iterations  *)
(* and calls.                                                              *)
(*                                                                         *)
(* RequestsComplete is not inductive: while the calls of an answer run, the *)
(* answer has some of its results only.  Inv says which: the answer under   *)
(* way is the message `next` places before the end of the list, the results *)
(* of the calls before `next` stand behind it, and every other answer has   *)
(* all of its results.                                                     *)
(***************************************************************************)
EXTENDS Orchestrator, TLAPS

Distinct(requested) == \A k, l \in 1 .. Len(requested) : requested[k].id = requested[l].id => k = l

\* The answer at i of a list has its results, and nothing else stands behind them than
\* the next answer.
Complete(list, i) ==
    /\ i + Len(list[i].calls) \in 1 .. Len(list)
    /\ \A k \in 1 .. Len(list[i].calls) : list[i + k] = Tool(list[i].calls[k])
    /\ i + Len(list[i].calls) + 1 \in 1 .. Len(list)
           => list[i + Len(list[i].calls) + 1].role = "assistant"
    /\ Distinct(list[i].calls)

\* The place of the answer whose calls are being run.
Place == Len(messages) + 1 - next

Settled ==
    pc \in {"head", "stream"} =>
        \A i \in 1 .. Len(messages) : messages[i].role = "assistant" => Complete(messages, i)

UnderWay ==
    pc \in {"calls", "execute"} =>
        /\ Place \in 1 .. Len(messages)
        /\ messages[Place] = Assistant(calls)
        /\ \A k \in 1 .. next - 1 : messages[Place + k] = Tool(calls[k])
        /\ \A i \in 1 .. Len(messages) :
               messages[i].role = "assistant" /\ i # Place => Complete(messages, i)

OneProvider ==
    pc \in {"stream", "calls", "execute"} =>
        /\ Distinct(calls)
        /\ \A k \in 1 .. Len(calls) : calls[k].by = active

WithinCalls ==
    /\ pc = "stream" => next = 1
    /\ pc = "execute" => next <= Len(calls)

Fenced ==
    /\ ~aborted => fence = MaxIterations
    /\ pc # "over" => iteration <= fence
    /\ pc \in {"stream", "calls", "execute"} => iteration # 0
    /\ \A r \in ran : r.iteration <= iteration

Inv ==
    /\ TypeOK
    /\ Settled
    /\ UnderWay
    /\ OneProvider
    /\ WithinCalls
    /\ CallsOfOneAnswer
    /\ Fenced
    /\ AbortBounds

-----------------------------------------------------------------------------
(* Lists of messages *)

LEMMA MessageTypes ==
    /\ \A requested \in Seq(Call) : Assistant(requested) \in Message
    /\ \A call \in Call : Tool(call) \in Message
  <1>1. \A call \in Call : <<call>> \in Seq(Call)
    OBVIOUS
  <1> QED BY <1>1 DEF Message, Assistant, Tool

\* An answer stays complete when the list grows, unless what is added stands right
\* behind its results and is no answer.
LEMMA StaysComplete ==
    ASSUME NEW list \in Seq(Message), NEW message \in Message,
           NEW i \in 1 .. Len(list), Complete(list, i),
           \/ message.role = "assistant"
           \/ i + Len(list[i].calls) < Len(list)
    PROVE  Complete(Append(list, message), i)
  <1> DEFINE longer == Append(list, message)
  <1>1. /\ Len(longer) = Len(list) + 1
        /\ \A j \in 1 .. Len(list) : longer[j] = list[j]
        /\ longer[Len(list) + 1] = message
    OBVIOUS
  <1>2. list[i].calls \in Seq(Call)
    <2>1. list[i] \in Message
      OBVIOUS
    <2> QED BY <2>1 DEF Message
  <1>3. Len(list[i].calls) \in Nat /\ Len(list) \in Nat
    BY <1>2
  <1>4. ASSUME NEW k \in 1 .. Len(list[i].calls)
        PROVE  longer[i + k] = Tool(list[i].calls[k])
    <2>1. i + k \in 1 .. Len(list)
      BY <1>3 DEF Complete
    <2> QED BY <2>1, <1>1 DEF Complete
  <1>5. i + Len(list[i].calls) + 1 \in 1 .. Len(longer)
            => longer[i + Len(list[i].calls) + 1].role = "assistant"
    <2>1. CASE i + Len(list[i].calls) + 1 \in 1 .. Len(list)
      BY <2>1, <1>1 DEF Complete
    <2>2. CASE i + Len(list[i].calls) + 1 \notin 1 .. Len(list)
      <3>1. i + Len(list[i].calls) = Len(list)
        BY <2>2, <1>3 DEF Complete
      <3>2. message.role = "assistant"
        BY <3>1, <1>3
      <3> QED BY <3>1, <3>2, <1>1, <1>3
    <2> QED BY <2>1, <2>2
  <1> HIDE DEF longer
  <1>6. longer[i] = list[i]
    BY <1>1
  <1>7. i + Len(longer[i].calls) \in 1 .. Len(longer)
    BY <1>1, <1>3, <1>6 DEF Complete
  <1>8. Complete(longer, i)
    BY <1>4, <1>5, <1>6, <1>7 DEF Complete
  <1> QED BY <1>8 DEF longer

\* The calls that ran keep their answers when the list grows.
LEMMA KeepsAnswers ==
    ASSUME TypeOK, CallsOfOneAnswer, NEW message \in Message,
           messages' = Append(messages, message), ran' = ran
    PROVE  CallsOfOneAnswer'
  <1>1. /\ DOMAIN messages \subseteq DOMAIN messages'
        /\ \A i \in DOMAIN messages : messages'[i] = messages[i]
    BY DEF TypeOK
  <1>2. SUFFICES ASSUME NEW r \in ran
                 PROVE  \E i \in DOMAIN messages' :
                          /\ messages'[i].role = "assistant"
                          /\ \E k \in DOMAIN messages'[i].calls : messages'[i].calls[k] = r.call
                          /\ \A k \in DOMAIN messages'[i].calls :
                                messages'[i].calls[k].by = r.call.by
    BY DEF CallsOfOneAnswer
  <1>3. PICK i \in DOMAIN messages :
          /\ messages[i].role = "assistant"
          /\ \E k \in DOMAIN messages[i].calls : messages[i].calls[k] = r.call
          /\ \A k \in DOMAIN messages[i].calls : messages[i].calls[k].by = r.call.by
    BY DEF CallsOfOneAnswer
  <1>4. i \in DOMAIN messages' /\ messages'[i] = messages[i]
    BY <1>1
  <1> QED BY <1>3, <1>4

-----------------------------------------------------------------------------
(* The invariant *)

LEMMA InitInv == Init => Inv
  <1> SUFFICES ASSUME Init PROVE Inv
    OBVIOUS
  <1> USE OrchestratorAssumption
  <1>1. TypeOK
    <2>1. calls \in Seq(Call) /\ next \in 1 .. Len(calls) + 1 /\ messages \in Seq(Message)
      BY DEF Init
    <2>2. active \in Provider /\ iteration \in 0 .. MaxIterations /\ fence \in 0 .. MaxIterations
      BY DEF Init, Provider
    <2> QED BY <2>1, <2>2 DEF Init, TypeOK, Outcome
  <1>2. Settled /\ UnderWay /\ OneProvider /\ WithinCalls
    BY DEF Init, Settled, UnderWay, OneProvider, WithinCalls
  <1>3. CallsOfOneAnswer /\ Fenced /\ AbortBounds
    BY DEF Init, CallsOfOneAnswer, Fenced, AbortBounds
  <1> QED BY <1>1, <1>2, <1>3 DEF Inv

\* A step that leaves the messages and the calls that ran alone, and does not start to
\* run calls.
LEMMA ListKept ==
    ASSUME Inv, messages' = messages, ran' = ran,
           pc' \in {"head", "stream"} => pc \in {"head", "stream"},
           pc' \in {"calls", "execute"} =>
               pc \in {"calls", "execute"} /\ calls' = calls /\ next' = next
    PROVE  Settled' /\ UnderWay' /\ CallsOfOneAnswer'
  <1>1. CallsOfOneAnswer'
    BY DEF Inv, CallsOfOneAnswer
  <1>2. Settled'
    BY DEF Inv, Settled, Complete
  <1>3. UnderWay'
    <2>1. CASE pc' \in {"calls", "execute"}
      BY <2>1 DEF Inv, UnderWay, Place, Complete
    <2>2. CASE pc' \notin {"calls", "execute"}
      BY <2>2 DEF UnderWay
    <2> QED BY <2>1, <2>2
  <1> QED BY <1>1, <1>2, <1>3

LEMMA LimitInv ==
    ASSUME Inv, LimitReached
    PROVE  Inv'
  <1> USE DEF LimitReached, Return, stream, history
  <1>1. TypeOK'
    BY DEF Inv, TypeOK, Outcome
  <1>2. Settled' /\ UnderWay' /\ CallsOfOneAnswer'
    BY ListKept
  <1>3. OneProvider' /\ WithinCalls'
    BY DEF OneProvider, WithinCalls
  <1>4. Fenced' /\ AbortBounds'
    BY DEF Inv, TypeOK, Fenced, AbortBounds
  <1> QED BY <1>1, <1>2, <1>3, <1>4 DEF Inv

LEMMA AskInv ==
    ASSUME Inv, Ask
    PROVE  Inv'
  <1> USE OrchestratorAssumption
  <1>1. /\ pc = "head" /\ iteration < MaxIterations /\ iteration' = iteration + 1
        /\ \/ pc' = "over" /\ outcome' \in {"failed", "cancelled"}
           \/ pc' = "stream" /\ outcome' = outcome /\ ~aborted
        /\ calls' = <<>> /\ next' = 1
        /\ UNCHANGED <<active, messages, aborted, late, ran, fence>>
    BY DEF Ask, Return, history
  <1>2. TypeOK'
    <2>1. iteration' \in 0 .. MaxIterations
      BY <1>1 DEF Inv, TypeOK
    <2>2. calls' \in Seq(Call) /\ next' \in 1 .. Len(calls') + 1
      BY <1>1
    <2> QED BY <2>1, <2>2, <1>1 DEF Inv, TypeOK, Outcome
  <1>3. Settled' /\ UnderWay' /\ CallsOfOneAnswer'
    BY <1>1, ListKept
  <1>4. OneProvider' /\ WithinCalls'
    BY <1>1 DEF OneProvider, WithinCalls, Distinct
  <1>5. Fenced' /\ AbortBounds'
    BY <1>1 DEF Inv, TypeOK, Fenced, AbortBounds
  <1> QED BY <1>2, <1>3, <1>4, <1>5 DEF Inv

LEMMA DeltaInv ==
    ASSUME Inv, NEW id \in CallId, ToolCallDelta(id)
    PROVE  Inv'
  <1> DEFINE call == [id |-> id, by |-> active]
  <1>1. call \in Call
    BY DEF Inv, TypeOK, Call
  <1>2. /\ pc = "stream" /\ calls' = Append(calls, call) /\ calls \in Seq(Call)
        /\ UNCHANGED <<pc, iteration, active, next, messages, aborted, late, outcome, ran, fence>>
    BY DEF Inv, TypeOK, ToolCallDelta, history
  <1>3. /\ Len(calls') = Len(calls) + 1
        /\ \A k \in 1 .. Len(calls) : calls'[k] = calls[k]
        /\ calls'[Len(calls) + 1] = call
        /\ calls' \in Seq(Call)
    BY <1>1, <1>2
  <1>4. call.id = id /\ call.by = active
    OBVIOUS
  <1> HIDE DEF call
  <1>5. TypeOK'
    BY <1>2, <1>3 DEF Inv, TypeOK
  <1>6. OneProvider'
    <2>1. \A k \in 1 .. Len(calls) : calls[k].id # id
      BY <1>2 DEF ToolCallDelta, Asked
    <2>2. Distinct(calls) /\ \A k \in 1 .. Len(calls) : calls[k].by = active
      BY <1>2 DEF Inv, OneProvider
    <2>3. ASSUME NEW k \in 1 .. Len(calls')
          PROVE  \/ k \in 1 .. Len(calls) /\ calls'[k] = calls[k]
                 \/ k = Len(calls) + 1 /\ calls'[k] = call
      BY <1>2, <1>3
    <2>4. Distinct(calls')
      BY <2>1, <2>2, <2>3, <1>4 DEF Distinct
    <2>5. \A k \in 1 .. Len(calls') : calls'[k].by = active
      BY <2>2, <2>3, <1>4
    <2> QED BY <2>4, <2>5, <1>2 DEF OneProvider
  <1>7. Settled' /\ UnderWay' /\ WithinCalls' /\ CallsOfOneAnswer'
    BY <1>2, ListKept DEF Inv, WithinCalls
  <1>8. Fenced' /\ AbortBounds'
    BY <1>2 DEF Inv, Fenced, AbortBounds
  <1> QED BY <1>5, <1>6, <1>7, <1>8 DEF Inv

\* The turn ends without a final answer.
LEMMA EndInv ==
    ASSUME Inv, pc' = "over", outcome' \in Outcome \ {"none", "final"}, 
           UNCHANGED <<iteration, active, calls, next, messages, aborted, late, ran, fence>>
    PROVE  Inv'
  <1>1. TypeOK'
    BY DEF Inv, TypeOK
  <1>2. Settled' /\ UnderWay' /\ CallsOfOneAnswer'
    BY ListKept
  <1>3. OneProvider' /\ WithinCalls'
    BY DEF OneProvider, WithinCalls
  <1>4. Fenced' /\ AbortBounds'
    BY DEF Inv, Fenced, AbortBounds
  <1> QED BY <1>1, <1>2, <1>3, <1>4 DEF Inv

LEMMA FailInv ==
    ASSUME Inv, StreamFails
    PROVE  Inv'
  <1>1. CASE active < ChainLength
    <2>1. /\ pc = "stream" /\ active' = active + 1 /\ calls' = <<>>
          /\ UNCHANGED <<pc, iteration, next, messages, aborted, late, outcome, ran, fence>>
      BY <1>1 DEF StreamFails, history
    <2>2. TypeOK'
      <3>1. active' \in Provider
        BY <1>1, <2>1, OrchestratorAssumption DEF Inv, TypeOK, Provider
      <3>2. calls' \in Seq(Call)
        BY <2>1
      <3>3. next' \in 1 .. Len(calls') + 1
        BY <2>1 DEF Inv, WithinCalls
      <3> QED BY <3>1, <3>2, <3>3, <2>1 DEF Inv, TypeOK
    <2>3. Settled' /\ UnderWay' /\ CallsOfOneAnswer'
      BY <2>1, ListKept
    <2>4. OneProvider' /\ WithinCalls'
      BY <2>1 DEF Inv, OneProvider, WithinCalls, Distinct
    <2>5. Fenced' /\ AbortBounds'
      BY <2>1 DEF Inv, Fenced, AbortBounds
    <2> QED BY <2>2, <2>3, <2>4, <2>5 DEF Inv
  <1>2. CASE ~(active < ChainLength)
    BY <1>2, EndInv DEF StreamFails, Return, Outcome, stream, history
  <1> QED BY <1>1, <1>2

LEMMA EndsInv ==
    ASSUME Inv, StreamEnds
    PROVE  Inv'
  <1> USE OrchestratorAssumption
  <1> DEFINE answer == Assistant(calls)
  <1>1. /\ pc = "stream" /\ next = 1 /\ messages' = Append(messages, answer)
        /\ \/ calls = <<>> /\ pc' = "over" /\ outcome' = "final"
           \/ pc' = "calls" /\ outcome' = outcome
        /\ UNCHANGED <<iteration, active, calls, next, aborted, late, ran, fence>>
    BY DEF Inv, WithinCalls, StreamEnds, Return, stream, history
  <1>2. calls \in Seq(Call) /\ messages \in Seq(Message) /\ TypeOK /\ CallsOfOneAnswer
    BY DEF Inv, TypeOK
  <1>3. answer \in Message /\ answer.role = "assistant" /\ answer.calls = calls
    BY <1>2, MessageTypes DEF Assistant
  <1>4. /\ Len(messages') = Len(messages) + 1
        /\ \A i \in 1 .. Len(messages) : messages'[i] = messages[i]
        /\ messages'[Len(messages) + 1] = answer
        /\ messages' \in Seq(Message)
        /\ Len(messages) \in Nat
    BY <1>1, <1>2, <1>3
  <1>5. TypeOK'
    BY <1>1, <1>2, <1>4 DEF TypeOK, Outcome
  <1>6. CallsOfOneAnswer'
    BY <1>1, <1>2, <1>3, KeepsAnswers
  <1>7. Settled' /\ WithinCalls' /\ OneProvider'
    BY <1>1 DEF Inv, Settled, WithinCalls, OneProvider
  <1>8. UnderWay'
    <2>1. Place' = Len(messages) + 1 /\ messages'[Place'] = answer
      BY <1>1, <1>4 DEF Place
    <2>2. ASSUME NEW i \in 1 .. Len(messages'), messages'[i].role = "assistant", i # Place'
          PROVE  Complete(messages', i)
      <3>1. i \in 1 .. Len(messages) /\ messages[i].role = "assistant"
        BY <2>1, <2>2, <1>4
      <3>2. Complete(messages, i)
        BY <3>1, <1>1 DEF Inv, Settled
      <3> QED BY <3>1, <3>2, <1>1, <1>2, <1>3, StaysComplete
    <2> HIDE DEF answer
    <2>3. \A i \in 1 .. Len(messages') :
             messages'[i].role = "assistant" /\ i # Place' => Complete(messages', i)
      BY <2>2
    <2>4. Place' \in 1 .. Len(messages')
      BY <2>1, <1>4
    <2>5. answer = Assistant(calls') /\ next' = 1
      BY <1>1 DEF answer
    <2> QED BY <2>1, <2>3, <2>4, <2>5 DEF UnderWay
  <1>9. Fenced' /\ AbortBounds'
    BY <1>1 DEF Inv, TypeOK, Fenced, AbortBounds
  <1> QED BY <1>5, <1>6, <1>7, <1>8, <1>9 DEF Inv

LEMMA ExecuteInv ==
    ASSUME Inv, Execute
    PROVE  Inv'
  <1> USE OrchestratorAssumption
  <1> DEFINE new == [iteration |-> iteration, call |-> calls[next]]
  <1>1. /\ pc = "calls" /\ next <= Len(calls) /\ pc' = "execute"
        /\ ran' = ran \cup {new}
        /\ UNCHANGED <<iteration, active, calls, next, messages, aborted, late, outcome, fence>>
    BY DEF Execute, stream
  <1>2. next \in 1 .. Len(calls) /\ calls \in Seq(Call) /\ calls[next] \in Call
    BY <1>1 DEF Inv, TypeOK
  <1>3. iteration \in 1 .. MaxIterations
    BY <1>1 DEF Inv, TypeOK, Fenced
  <1>4. TypeOK'
    <2>1. new \in [iteration : 1 .. MaxIterations, call : Call]
      BY <1>2, <1>3
    <2> QED BY <2>1, <1>1 DEF Inv, TypeOK
  <1>5. Settled' /\ WithinCalls' /\ OneProvider' /\ UnderWay'
    <2>1. Settled' /\ WithinCalls' /\ OneProvider'
      BY <1>1 DEF Inv, Settled, WithinCalls, OneProvider, Distinct
    <2>2. UnderWay'
      BY <1>1 DEF Inv, UnderWay, Place, Complete
    <2> QED BY <2>1, <2>2
  <1>6. CallsOfOneAnswer'
    <2>1. /\ Place \in 1 .. Len(messages) /\ messages[Place] = Assistant(calls)
          /\ \A k \in 1 .. Len(calls) : calls[k].by = active
      BY <1>1 DEF Inv, UnderWay, OneProvider
    <2>2. DOMAIN messages = 1 .. Len(messages) /\ DOMAIN calls = 1 .. Len(calls)
      BY <1>2 DEF Inv, TypeOK
    <2>3. /\ messages[Place].role = "assistant" /\ messages[Place].calls = calls
          /\ new.call = calls[next]
      BY <2>1 DEF Assistant
    <2> HIDE DEF new
    <2>4. /\ Place \in DOMAIN messages
          /\ messages[Place].role = "assistant"
          /\ \E k \in DOMAIN messages[Place].calls : messages[Place].calls[k] = new.call
          /\ \A k \in DOMAIN messages[Place].calls : messages[Place].calls[k].by = new.call.by
      BY <2>1, <2>2, <2>3, <1>2
    <2>5. ASSUME NEW r \in ran
          PROVE  \E i \in DOMAIN messages :
                     /\ messages[i].role = "assistant"
                     /\ \E k \in DOMAIN messages[i].calls : messages[i].calls[k] = r.call
                     /\ \A k \in DOMAIN messages[i].calls : messages[i].calls[k].by = r.call.by
      BY DEF Inv, CallsOfOneAnswer
    <2>6. ASSUME NEW r \in ran'
          PROVE  \E i \in DOMAIN messages :
                     /\ messages[i].role = "assistant"
                     /\ \E k \in DOMAIN messages[i].calls : messages[i].calls[k] = r.call
                     /\ \A k \in DOMAIN messages[i].calls : messages[i].calls[k].by = r.call.by
      <3>1. CASE r = new
        BY <3>1, <2>4
      <3>2. CASE r \in ran
        BY <3>2, <2>5
      <3> QED BY <3>1, <3>2, <1>1
    <2>7. messages' = messages
      BY <1>1
    <2> QED BY <2>6, <2>7 DEF CallsOfOneAnswer
  <1>7. Fenced' /\ AbortBounds'
    <2>1. new.iteration <= iteration /\ new.iteration <= fence
      BY <1>1, <1>3 DEF Inv, TypeOK, Fenced
    <2> HIDE DEF new
    <2> QED BY <2>1, <1>1 DEF Inv, Fenced, AbortBounds
  <1> QED BY <1>4, <1>5, <1>6, <1>7 DEF Inv

LEMMA AnsweredInv ==
    ASSUME Inv, Answered
    PROVE  Inv'
  <1> USE OrchestratorAssumption
  <1> DEFINE result == Tool(calls[next])
  <1>1. /\ pc = "execute" /\ pc' = "calls" /\ next' = next + 1
        /\ messages' = Append(messages, result)
        /\ UNCHANGED <<iteration, active, calls, aborted, late, outcome, ran, fence>>
    BY DEF Answered, stream, history
  <1>2. /\ next \in 1 .. Len(calls) /\ calls \in Seq(Call) /\ calls[next] \in Call
        /\ messages \in Seq(Message) /\ Len(messages) \in Nat
    BY <1>1 DEF Inv, TypeOK, WithinCalls
  <1>3. result \in Message /\ result.role = "tool"
    BY <1>2, MessageTypes DEF Tool
  <1>4. /\ Len(messages') = Len(messages) + 1
        /\ \A i \in 1 .. Len(messages) : messages'[i] = messages[i]
        /\ messages'[Len(messages) + 1] = result
        /\ messages' \in Seq(Message)
    BY <1>1, <1>2, <1>3
  <1>5. TypeOK'
    BY <1>1, <1>2, <1>4 DEF Inv, TypeOK
  <1>6. CallsOfOneAnswer'
    BY <1>1, <1>3, KeepsAnswers DEF Inv
  <1>7. Settled' /\ WithinCalls' /\ OneProvider'
    BY <1>1 DEF Inv, Settled, WithinCalls, OneProvider, Distinct
  <1>8. UnderWay'
    <2>1. /\ Place \in 1 .. Len(messages) /\ messages[Place] = Assistant(calls)
          /\ \A k \in 1 .. next - 1 : messages[Place + k] = Tool(calls[k])
          /\ \A i \in 1 .. Len(messages) :
                 messages[i].role = "assistant" /\ i # Place => Complete(messages, i)
      BY <1>1 DEF Inv, UnderWay
    <2>2. Place' = Place /\ Place + next = Len(messages) + 1 /\ Place \in Nat
      BY <1>1, <1>2, <1>4, <2>1 DEF Place
    <2>3. Place' \in 1 .. Len(messages') /\ messages'[Place'] = Assistant(calls')
      BY <2>1, <2>2, <1>1, <1>4
    <2>4. ASSUME NEW k \in 1 .. next' - 1
          PROVE  messages'[Place' + k] = Tool(calls'[k])
      <3>1. CASE k = next
        BY <3>1, <2>2, <1>1, <1>4
      <3>2. CASE k # next
        <4>1. k \in 1 .. next - 1 /\ Place + k \in 1 .. Len(messages)
          BY <3>2, <2>2, <1>1, <1>2
        <4> QED BY <4>1, <2>1, <2>2, <1>1, <1>4
      <3> QED BY <3>1, <3>2
    <2>5. ASSUME NEW i \in 1 .. Len(messages'), messages'[i].role = "assistant", i # Place'
          PROVE  Complete(messages', i)
      <3>1. i \in 1 .. Len(messages) /\ messages[i].role = "assistant"
        <4>1. i # Len(messages) + 1
          BY <2>5, <1>3, <1>4
        <4> QED BY <4>1, <2>5, <1>2, <1>4
      <3>2. Complete(messages, i)
        BY <3>1, <2>1, <2>2, <2>5
      <3>3. i + Len(messages[i].calls) < Len(messages)
        <4>1. Len(messages[i].calls) \in Nat
          <5>1. messages[i] \in Message
            BY <3>1, <1>2
          <5> QED BY <5>1 DEF Message
        <4> DEFINE requested == messages[i].calls
        <4>t. \A k : Tool(requested[k]).role = "tool" /\ Tool(calls[k]).role = "tool"
          BY DEF Tool
        <4>2. \A k \in 1 .. Len(requested) : messages[i + k].role = "tool"
          BY <3>2, <4>t DEF Complete
        <4>3. messages[Place].role = "assistant"
          BY <2>1 DEF Assistant
        <4>4. CASE i < Place
          <5>1. ~(Place <= i + Len(messages[i].calls))
            <6> SUFFICES ASSUME Place <= i + Len(messages[i].calls) PROVE FALSE
              OBVIOUS
            <6>1. Place - i \in 1 .. Len(messages[i].calls) /\ i + (Place - i) = Place
              BY <4>4, <4>1, <2>2
            <6> QED BY <6>1, <4>2, <4>3
          <5>2. i \in Nat /\ Place <= Len(messages) /\ Len(messages) \in Nat
            BY <3>1, <2>1, <1>2
          <5> QED BY <5>1, <5>2, <4>1, <2>2
        <4>5. CASE i > Place
          <5>1. i - Place \in 1 .. next - 1 /\ Place + (i - Place) = i
            BY <4>5, <3>1, <2>2, <1>2
          <5>2. messages[i].role = "tool"
            BY <5>1, <2>1, <4>t
          <5> QED BY <5>2, <3>1
        <4> QED BY <4>4, <4>5, <2>2, <2>5
      <3> QED BY <3>1, <3>2, <3>3, <1>1, <1>2, <1>3, StaysComplete
    <2> HIDE DEF result
    <2> QED BY <2>3, <2>4, <2>5 DEF UnderWay
  <1>9. Fenced' /\ AbortBounds'
    BY <1>1 DEF Inv, Fenced, AbortBounds
  <1> QED BY <1>5, <1>6, <1>7, <1>8, <1>9 DEF Inv

LEMMA DoneInv ==
    ASSUME Inv, CallsDone
    PROVE  Inv'
  <1> USE OrchestratorAssumption
  <1>1. /\ pc = "calls" /\ next > Len(calls) /\ pc' = "head"
        /\ UNCHANGED <<iteration, active, calls, next, messages, aborted, late, outcome, ran, fence>>
    BY DEF CallsDone, stream, history
  <1>2. TypeOK' /\ CallsOfOneAnswer'
    BY <1>1 DEF Inv, TypeOK, CallsOfOneAnswer
  <1>3. UnderWay' /\ WithinCalls' /\ OneProvider'
    BY <1>1 DEF UnderWay, WithinCalls, OneProvider
  <1>4. Settled'
    <2>1. /\ next = Len(calls) + 1 /\ Len(calls) \in Nat /\ Len(messages) \in Nat
      BY <1>1 DEF Inv, TypeOK
    <2>2. /\ Place \in 1 .. Len(messages) /\ messages[Place] = Assistant(calls)
          /\ \A k \in 1 .. next - 1 : messages[Place + k] = Tool(calls[k])
          /\ \A i \in 1 .. Len(messages) :
                 messages[i].role = "assistant" /\ i # Place => Complete(messages, i)
      BY <1>1 DEF Inv, UnderWay
    <2>3. messages[Place].calls = calls /\ Place + Len(calls) = Len(messages)
      BY <2>1, <2>2 DEF Assistant, Place
    <2>4. Distinct(calls)
      BY <1>1 DEF Inv, OneProvider
    <2>5. Complete(messages, Place)
      <3>1. Place + Len(calls) \in 1 .. Len(messages)
        BY <2>1, <2>2, <2>3
      <3>2. Place + Len(calls) + 1 \notin 1 .. Len(messages)
        BY <2>1, <2>3
      <3>3. \A k \in 1 .. Len(calls) : messages[Place + k] = Tool(calls[k])
        BY <2>1, <2>2
      <3> QED BY <3>1, <3>2, <3>3, <2>3, <2>4 DEF Complete
    <2>6. \A i \in 1 .. Len(messages) : messages[i].role = "assistant" => Complete(messages, i)
      BY <2>2, <2>5
    <2>7. messages' = messages
      BY <1>1
    <2> QED BY <2>6, <2>7 DEF Settled, Complete
  <1>5. Fenced' /\ AbortBounds'
    BY <1>1 DEF Inv, Fenced, AbortBounds
  <1> QED BY <1>2, <1>3, <1>4, <1>5 DEF Inv

LEMMA ClockInv ==
    ASSUME Inv, Abort \/ TimeOver
    PROVE  Inv'
  <1>1. /\ pc # "over"
        /\ \/ aborted' = TRUE /\ fence' = iteration /\ late' = late
           \/ aborted' = aborted /\ fence' = fence /\ late' = TRUE
        /\ UNCHANGED <<pc, iteration, active, calls, next, messages, outcome, ran>>
    BY DEF Abort, TimeOver, stream, history
  <1>2. TypeOK'
    BY <1>1 DEF Inv, TypeOK
  <1>3. Settled' /\ UnderWay' /\ CallsOfOneAnswer'
    BY <1>1, ListKept
  <1>4. OneProvider' /\ WithinCalls'
    BY <1>1 DEF Inv, OneProvider, WithinCalls, Distinct
  <1>5. Fenced' /\ AbortBounds'
    BY <1>1 DEF Inv, TypeOK, Fenced, AbortBounds
  <1> QED BY <1>2, <1>3, <1>4, <1>5 DEF Inv

LEMMA NextInv ==
    ASSUME Inv, [Next]_vars
    PROVE  Inv'
  <1>1. CASE Loop
    BY <1>1, LimitInv, AskInv, DoneInv, ExecuteInv DEF Loop
  <1>2. CASE Chunk
    <2>1. CASE CancelledMidStream
      BY <2>1, EndInv DEF CancelledMidStream, Return, Outcome, stream, history
    <2> QED BY <2>1, <1>2, EndsInv, FailInv, DeltaInv DEF Chunk
  <1>3. CASE Executor
    <2>1. CASE ApprovalRequired \/ ExecutorThrows
      BY <2>1, EndInv DEF ApprovalRequired, ExecutorThrows, Return, Outcome, stream, history
    <2> QED BY <2>1, <1>3, AnsweredInv DEF Executor
  <1>4. CASE Abort \/ TimeOver
    BY <1>4, ClockInv
  <1>5. CASE UNCHANGED vars
    <2>1. UNCHANGED <<pc, iteration, active, calls, next, messages, aborted, late, outcome, ran, fence>>
      BY <1>5 DEF vars, history
    <2>2. Settled' /\ UnderWay' /\ CallsOfOneAnswer'
      BY <2>1, ListKept
    <2>3. TypeOK' /\ Fenced' /\ AbortBounds'
      BY <2>1 DEF Inv, TypeOK, Fenced, AbortBounds
    <2>4. OneProvider' /\ WithinCalls'
      BY <2>1 DEF Inv, OneProvider, WithinCalls, Distinct
    <2> QED BY <2>2, <2>3, <2>4 DEF Inv
  <1> QED BY <1>1, <1>2, <1>3, <1>4, <1>5 DEF Next

\* The invariant holds in every state of a turn.
THEOREM Invariance == Spec => []Inv
  BY InitInv, NextInv, PTL DEF Spec

-----------------------------------------------------------------------------
(* What follows *)

\* The variables hold what their types say, and a turn that is over has an outcome.
THEOREM TypeCorrect == Spec => []TypeOK
  <1>1. Inv => TypeOK
    BY DEF Inv
  <1> QED BY <1>1, Invariance, PTL

\* Whatever fell back, was denied or failed, no provider is asked with a list in which
\* a call lacks its result.
THEOREM RequestsSound == Spec => []RequestsComplete
  <1>1. Inv => RequestsComplete
    <2> SUFFICES ASSUME Inv, pc = "stream",
                        NEW i \in DOMAIN messages, messages[i].role = "assistant"
                 PROVE  LET requested == messages[i].calls IN
                        /\ i + Len(requested) \in DOMAIN messages
                        /\ \A k \in 1 .. Len(requested) : messages[i + k] = Tool(requested[k])
                        /\ i + Len(requested) + 1 \in DOMAIN messages
                               => messages[i + Len(requested) + 1].role = "assistant"
                        /\ \A k, l \in 1 .. Len(requested) :
                               requested[k].id = requested[l].id => k = l
      BY DEF RequestsComplete
    <2>1. DOMAIN messages = 1 .. Len(messages)
      BY DEF Inv, TypeOK
    <2>2. Complete(messages, i)
      BY <2>1 DEF Inv, Settled
    <2> QED BY <2>1, <2>2 DEF Complete, Distinct
  <1> QED BY <1>1, Invariance, PTL

\* No call of a stream that broke off, or of the provider that was replaced, runs.
THEOREM CallsTraced == Spec => []CallsOfOneAnswer
  <1>1. Inv => CallsOfOneAnswer
    BY DEF Inv
  <1> QED BY <1>1, Invariance, PTL

\* After the abort nothing of an answer that was not yet asked for has an effect.
THEOREM AbortFences == Spec => []AbortBounds
  <1>1. Inv => AbortBounds
    BY DEF Inv
  <1> QED BY <1>1, Invariance, PTL

=================================================================================
