------------------------------- MODULE BatchProofs -------------------------------
(***************************************************************************)
(* What a batch promises, for every number of servers, every limit and      *)
(* every way its threads end.                                              *)
(*                                                                         *)
(* EveryTargetAnswers speaks of the end of a batch only.  Parted says what  *)
(* holds on the way: the targets are those that wait, those that run, those *)
(* whose thread panicked, and those that have exactly one result.  For      *)
(* ReportedAsAsked, Captured says that the request under way is the one     *)
(* the policy let through.                                                 *)
(*                                                                         *)
(* The promise of a batch (BatchPromise) follows step by step: Parted tells *)
(* the fate of every server.                                               *)
(***************************************************************************)
EXTENDS BatchRefinement, FiniteSetTheorems, TLAPS

Answered == {nodes[i].server : i \in 1 .. Len(nodes)}

Parted ==
    /\ Answered = targets \ (waiting \cup running \cup panicked)
    /\ \A i, j \in 1 .. Len(nodes) : nodes[i].server = nodes[j].server => i = j
    /\ panicked \cap (waiting \cup running) = {}
    /\ stage = "idle" => targets = {} /\ nodes = <<>> /\ panicked = {}
    /\ stage = "audit" => waiting = {} /\ running = {} /\ auditing \subseteq Answered
    /\ stage # "audit" => auditing = {}

Captured ==
    /\ view # "idle" => clicks # 0
    /\ view = "execute" /\ request.tool = "restart" /\ ~app =>
           [click |-> clicks, tool |-> "restart", selector |-> request.selector, typed |-> TRUE] \in asked

Traced ==
    /\ stage # "idle" => batch # 0
    /\ \A server \in targets \ waiting : \E r \in ran : r.batch = batch /\ r.server = server
    /\ \A e \in audit : e.batch <= batch
    /\ stage = "chunks" => \A e \in audit : e.batch # batch

Inv ==
    /\ TypeOK
    /\ Parted
    /\ Captured
    /\ Traced
    /\ ReportedAsAsked
    /\ BoundedConcurrency
    /\ NodeEventsTrue

-----------------------------------------------------------------------------

LEMMA ClampedType == Clamped \in Nat /\ Clamped # 0
  BY BatchAssumption DEF Clamped

LEMMA InitInv == Init => Inv
  <1> SUFFICES ASSUME Init PROVE Inv
    OBVIOUS
  <1> USE BatchAssumption
  <1>1. TypeOK
    <2>1. nodes \in Seq(Node)
      BY DEF Init
    <2>2. tool \in Tool /\ choice \in Selector /\ request \in Request \cup {Nothing}
      BY DEF Init, Tool
    <2>3. table \in [Server -> Environment \cup {Absent}]
      BY DEF Init
    <2>4. /\ view = "idle" /\ request = Nothing /\ typed = FALSE /\ prompt = FALSE
          /\ stage = "idle" /\ targets = {} /\ waiting = {} /\ running = {} /\ auditing = {}
          /\ panicked = {} /\ audit = {} /\ ran = {} /\ batch = 0
          /\ asked = {} /\ reported = {} /\ clicks = 0
      BY DEF Init
    <2>5. /\ targets \subseteq Server /\ waiting \subseteq targets
          /\ running \subseteq targets \ waiting
          /\ auditing \subseteq targets /\ panicked \subseteq targets
      BY <2>4
    <2>6. /\ audit \subseteq [batch : 1 .. MaxBatches, server : Server]
          /\ ran \subseteq [batch : 1 .. MaxBatches, server : Server]
          /\ asked \subseteq [click : 1 .. MaxBatches, tool : Tool, selector : Selector, typed : BOOLEAN]
          /\ reported \subseteq [click : 1 .. MaxBatches, tool : Tool, server : Server]
      BY <2>4
    <2>7. clicks \in Nat /\ batch \in Nat /\ clicks + batch <= MaxBatches
      BY <2>4
    <2>8. typed \in BOOLEAN /\ prompt \in BOOLEAN /\ app \in BOOLEAN
      BY <2>4, Zenon DEF Init
    <2> QED BY <2>1, <2>2, <2>3, <2>4, <2>5, <2>6, <2>7, <2>8 DEF TypeOK
  <1>2. Parted
    BY DEF Init, Parted, Answered
  <1>3. Captured /\ Traced /\ ReportedAsAsked /\ NodeEventsTrue
    BY DEF Init, Captured, Traced, ReportedAsAsked, NodeEventsTrue
  <1>4. BoundedConcurrency
    BY FS_EmptySet, ClampedType DEF Init, BoundedConcurrency
  <1> QED BY <1>1, <1>2, <1>3, <1>4 DEF Inv

-----------------------------------------------------------------------------
(* The dialog: the engine is not concerned. *)

\* What the engine has under way stays as it is.
LEMMA EngineStays ==
    ASSUME Inv, UNCHANGED engine
    PROVE  Parted' /\ Traced' /\ BoundedConcurrency' /\ NodeEventsTrue'
  BY DEF Inv, engine, Parted, Answered, Traced, BoundedConcurrency, Clamped, NodeEventsTrue,
         Answering

\* The form and the table of servers are no part of a click under way.
LEMMA FormInv ==
    ASSUME Inv, table' \in [Server -> Environment \cup {Absent}], tool' \in Tool,
           choice' \in Selector, typed' \in BOOLEAN, prompt' \in BOOLEAN,
           UNCHANGED <<app, view, request, clicks, asked, reported, engine>>
    PROVE  Inv'
  <1>1. TypeOK'
    BY DEF Inv, TypeOK, engine
  <1>2. Captured' /\ ReportedAsAsked'
    BY DEF Inv, Captured, ReportedAsAsked
  <1> QED BY <1>1, <1>2, EngineStays DEF Inv

LEMMA UsersForm ==
    ASSUME Inv,
           \/ \E name \in Tool, selector \in Choices : EditForm(name, selector)
           \/ \E text \in BOOLEAN : TypeCode(text)
           \/ \E edit \in Edits : EditServer(edit.server, edit.environment)
    PROVE  Inv'
  <1> USE BatchAssumption
  <1>1. ASSUME NEW name \in Tool, NEW selector \in Choices, EditForm(name, selector)
        PROVE  Inv'
    <2>1. selector \in Selector
      OBVIOUS
    <2> QED BY <1>1, <2>1, FormInv DEF EditForm, Inv, TypeOK
  <1>2. ASSUME NEW text \in BOOLEAN, TypeCode(text)
        PROVE  Inv'
    BY <1>2, FormInv DEF TypeCode, Inv, TypeOK
  <1>3. ASSUME NEW edit \in Edits, EditServer(edit.server, edit.environment)
        PROVE  Inv'
    BY <1>3, FormInv DEF EditServer, Inv, TypeOK, form, page
  <1> QED BY <1>1, <1>2, <1>3

\* What a click captures is a request.
LEMMA ActiveType == TypeOK => ActiveSelector \in Selector
  <1>1. Known \in SUBSET Server
    BY DEF Known
  <1> QED BY <1>1 DEF TypeOK, ActiveSelector, Selector

LEMMA ClickInv ==
    ASSUME Inv, Click \/ RunDiagnostics
    PROVE  Inv'
  <1> USE BatchAssumption
  <1>1. /\ view = "idle" /\ clicks + batch < MaxBatches /\ clicks' = clicks + 1
        /\ \/ view' = "policy"
           \/ view' = "execute" /\ request'.tool = "diagnostic"
        /\ UNCHANGED <<app, table, tool, choice, typed, prompt, asked, reported, engine>>
    BY DEF Click, RunDiagnostics, form
  <1>2. request' \in Request
    <2>1. ActiveSelector \in Selector /\ tool \in Tool /\ typed \in BOOLEAN
      BY ActiveType DEF Inv, TypeOK
    <2>2. \A name \in Tool, selector \in Selector, code \in BOOLEAN, matrix \in BOOLEAN :
             [tool |-> name, selector |-> selector, typed |-> code, diagnostics |-> matrix] \in Request
      BY DEF Request
    <2>3. "diagnostic" \in Tool
      BY DEF Tool
    <2> QED BY <2>1, <2>2, <2>3 DEF Click, RunDiagnostics
  <1>3. TypeOK'
    BY <1>1, <1>2 DEF Inv, TypeOK, engine
  <1>4. Captured' /\ ReportedAsAsked'
    BY <1>1 DEF Inv, TypeOK, Captured, ReportedAsAsked
  <1> QED BY <1>1, <1>3, <1>4, EngineStays DEF Inv

\* Outside the application the stand-in answers: a restart without the code goes no further.
LEMMA PolicyInv ==
    ASSUME Inv, PolicyAnswers
    PROVE  Inv'
  <1> USE BatchAssumption
  <1> DEFINE pass == [click |-> clicks, tool |-> request.tool, selector |-> request.selector,
                      typed |-> request.typed]
             confirm == RequiresConfirmation(ResolveTargets(request.selector), BaseRisk(request.tool), FALSE)
  <1>1. /\ view = "policy"
        /\ \/ view' = "idle" /\ request' = Nothing /\ prompt' = TRUE /\ asked' = asked
           \/ /\ view' = "execute" /\ request' = request /\ prompt' = prompt
              /\ ~app => ~(confirm /\ ~request.typed)
              /\ asked' = asked \cup {pass}
        /\ UNCHANGED <<app, table, tool, choice, typed, clicks, reported, engine>>
    <2>1. PICK standIn \in {~app, TRUE} :
             IF standIn /\ ~request.typed /\ confirm
             THEN prompt' = TRUE /\ view' = "idle" /\ request' = Nothing /\ UNCHANGED asked
             ELSE /\ view' = "execute" /\ UNCHANGED <<prompt, request>>
                  /\ asked' = asked \cup {pass}
      BY Zenon DEF PolicyAnswers
    <2>2. ~app => standIn
      BY Zenon
    <2>3. view = "policy" /\ UNCHANGED <<app, table, tool, choice, typed, clicks, reported, engine>>
      BY DEF PolicyAnswers
    <2> HIDE DEF pass, confirm
    <2> QED BY <2>1, <2>2, <2>3
  <1>2. request \in Request /\ clicks \in 1 .. MaxBatches
    BY <1>1 DEF Inv, TypeOK, Captured
  <1>3. request.tool = "restart" => confirm
    BY DEF RequiresConfirmation, EffectiveRisk, BaseRisk
  <1>4. pass \in [click : 1 .. MaxBatches, tool : Tool, selector : Selector, typed : BOOLEAN]
    BY <1>2 DEF Request
  <1> HIDE DEF confirm
  <1>5. request.tool = "restart" /\ ~app /\ view' = "execute" =>
            [click |-> clicks, tool |-> "restart", selector |-> request.selector, typed |-> TRUE] \in asked'
    <2>1. request.typed \in BOOLEAN
      BY <1>2 DEF Request
    <2> QED BY <2>1, <1>1, <1>3
  <1>6. asked \subseteq asked'
    BY <1>1
  <1>7. TypeOK'
    BY <1>1, <1>2, <1>4 DEF Inv, TypeOK, engine
  <1>8. Captured'
    <2>1. clicks' = clicks /\ clicks # 0 /\ app' = app
      BY <1>1, <1>2
    <2>2. CASE view' = "idle"
      BY <2>1, <2>2 DEF Captured
    <2>3. CASE view' = "execute"
      <3>1. request' = request
        BY <1>1, <2>3
      <3> QED BY <2>1, <2>3, <3>1, <1>5 DEF Captured
    <2> QED BY <2>2, <2>3, <1>1
  <1>9. ReportedAsAsked'
    BY <1>1, <1>6 DEF Inv, ReportedAsAsked
  <1> QED BY <1>1, <1>7, <1>8, <1>9, EngineStays DEF Inv

\* What is shown is what was captured at the click, and the policy has let that through.
LEMMA StandInInv ==
    ASSUME Inv, StandInAnswers
    PROVE  Inv'
  <1> USE BatchAssumption
  <1> DEFINE shown == ResolveTargets(request.selector)
             new == [click : {clicks}, tool : {request.tool}, server : shown]
  <1>1. /\ view = "execute" /\ view' = "idle" /\ request' = Nothing
        /\ reported' = reported \cup new
        /\ typed' \in {typed, FALSE} /\ prompt' \in {prompt, FALSE}
        /\ UNCHANGED <<app, table, tool, choice, clicks, asked, engine>>
    BY DEF StandInAnswers, Simulate
  <1>2. request \in Request /\ clicks \in 1 .. MaxBatches
    BY <1>1 DEF Inv, TypeOK, Captured
  <1>3. /\ shown \subseteq Server
        /\ request.selector.type = "server_ids" => shown \subseteq request.selector.serverIds
    BY DEF ResolveTargets, Known
  <1>4. \A r \in new : /\ r.click = clicks /\ r.tool = request.tool /\ r.server \in shown
                       /\ r \in [click : 1 .. MaxBatches, tool : Tool, server : Server]
    BY <1>2, <1>3 DEF Request
  <1> HIDE DEF new, shown
  <1>5. TypeOK'
    <2>1. typed' \in BOOLEAN /\ prompt' \in BOOLEAN
      BY <1>1 DEF Inv, TypeOK
    <2> QED BY <1>1, <1>4, <2>1 DEF Inv, TypeOK, engine
  <1>6. Captured'
    BY <1>1 DEF Captured
  <1>7. ReportedAsAsked'
    <2>1. ASSUME ~app, NEW r \in new, r.tool = "restart"
          PROVE  \E a \in asked :
                     /\ a.click = r.click /\ a.tool = r.tool /\ a.typed
                     /\ a.selector.type = "server_ids" => r.server \in a.selector.serverIds
      <3> DEFINE a == [click |-> clicks, tool |-> "restart", selector |-> request.selector, typed |-> TRUE]
      <3>1. a \in asked
        BY <1>1, <1>4, <2>1 DEF Inv, Captured
      <3>2. a.click = r.click /\ a.tool = r.tool /\ a.typed
        BY <1>4, <2>1
      <3>3. a.selector.type = "server_ids" => r.server \in a.selector.serverIds
        BY <1>3, <1>4
      <3> QED BY <3>1, <3>2, <3>3
    <2> QED BY <2>1, <1>1 DEF Inv, ReportedAsAsked
  <1> QED BY <1>1, <1>5, <1>6, <1>7, EngineStays DEF Inv

-----------------------------------------------------------------------------
(* The engine: the dialog is not concerned. *)

\* What the dialog has under way stays as it is.
LEMMA PageStays ==
    ASSUME Inv, UNCHANGED <<app, page>>
    PROVE  Captured' /\ ReportedAsAsked'
  BY DEF Inv, page, form, Captured, ReportedAsAsked

LEMMA ExecuteInv ==
    ASSUME Inv, NEW selector \in Called, ExecuteBatch(selector)
    PROVE  Inv'
  <1> USE BatchAssumption
  <1>1. /\ app /\ stage = "idle" /\ stage' = "chunks" /\ clicks + batch < MaxBatches
        /\ batch' = batch + 1
        /\ targets' = ResolveTargets(selector) /\ waiting' = targets'
        /\ UNCHANGED <<app, table, page, running, nodes, auditing, audit, ran, panicked>>
    BY DEF ExecuteBatch
  <1>2. /\ targets = {} /\ nodes = <<>> /\ panicked = {} /\ running = {} /\ auditing = {}
    BY <1>1 DEF Inv, TypeOK, Parted
  <1>3. targets' \subseteq Server
    BY <1>1 DEF ResolveTargets, Known
  <1>4. TypeOK'
    BY <1>1, <1>2, <1>3 DEF Inv, TypeOK, page, form
  <1>5. Parted'
    BY <1>1, <1>2 DEF Inv, Parted, Answered
  <1>6. Traced'
    <2>1. \A e \in audit : e.batch \in Nat /\ e.batch <= batch
      BY DEF Inv, TypeOK, Traced
    <2>2. batch \in Nat
      BY DEF Inv, TypeOK
    <2> QED BY <1>1, <2>1, <2>2 DEF Traced
  <1>7. BoundedConcurrency' /\ NodeEventsTrue'
    BY <1>1 DEF Inv, BoundedConcurrency, Clamped, NodeEventsTrue
  <1> QED BY <1>1, <1>4, <1>5, <1>6, <1>7, PageStays DEF Inv

LEMMA ChunkInv ==
    ASSUME Inv, SpawnChunk
    PROVE  Inv'
  <1> USE BatchAssumption
  <1> PICK chunk \in SUBSET waiting :
         /\ Cardinality(chunk) = ChunkSize
         /\ running' = chunk
         /\ waiting' = waiting \ chunk
         /\ ran' = ran \cup [batch : {batch}, server : chunk]
    BY DEF SpawnChunk
  <1>1. /\ stage = "chunks" /\ running = {}
        /\ UNCHANGED <<app, table, page, stage, targets, nodes, auditing, audit, panicked, batch>>
    BY DEF SpawnChunk
  <1> DEFINE new == [batch : {batch}, server : chunk]
  <1>2. batch \in 1 .. MaxBatches
    BY <1>1 DEF Inv, TypeOK, Traced
  <1>3. chunk \subseteq targets /\ targets \subseteq Server
    BY DEF Inv, TypeOK
  <1>4. \A r \in new : r.batch = batch /\ r \in [batch : 1 .. MaxBatches, server : Server]
    BY <1>2, <1>3
  <1>5. \A server \in chunk : \E r \in new : r.batch = batch /\ r.server = server
    <2> TAKE server \in chunk
    <2> WITNESS [batch |-> batch, server |-> server] \in new
    <2> QED OBVIOUS
  <1>6. ran' = ran \cup new
    OBVIOUS
  <1> HIDE DEF new
  <1>7. TypeOK'
    BY <1>1, <1>3, <1>4, <1>6 DEF Inv, TypeOK, page, form
  <1>8. Parted'
    BY <1>1 DEF Inv, Parted, Answered
  <1>9. Traced'
    BY <1>1, <1>5, <1>6 DEF Inv, Traced
  <1>10. BoundedConcurrency'
    <2>1. Cardinality(waiting) \in Nat
      <3>1. waiting \in SUBSET Server
        BY <1>3 DEF Inv, TypeOK
      <3> QED BY <3>1, FS_Subset, FS_CardinalityType
    <2>2. ChunkSize <= Clamped
      BY <2>1, ClampedType DEF ChunkSize
    <2> QED BY <2>2 DEF BoundedConcurrency, Clamped
  <1>11. NodeEventsTrue'
    BY <1>1, <1>6 DEF Inv, NodeEventsTrue
  <1> QED BY <1>1, <1>7, <1>8, <1>9, <1>10, <1>11, PageStays DEF Inv

\* A server less that runs.
LEMMA FewerRun ==
    ASSUME Inv, NEW server \in Server, running' = running \ {server}
    PROVE  BoundedConcurrency'
  <1>1. running \in SUBSET Server
    BY DEF Inv, TypeOK
  <1>2. IsFiniteSet(running)
    BY <1>1, BatchAssumption, FS_Subset
  <1>3. Cardinality(running') <= Cardinality(running)
    <2>1. running' \in SUBSET running
      OBVIOUS
    <2> QED BY <2>1, <1>2, FS_Subset
  <1>4. Cardinality(running) \in Nat /\ Cardinality(running') \in Nat
    BY <1>2, FS_CardinalityType, FS_RemoveElement
  <1> QED BY <1>3, <1>4, ClampedType DEF Inv, BoundedConcurrency, Clamped

LEMMA AnswersInv ==
    ASSUME Inv, NEW server \in Server, NEW success \in BOOLEAN, NodeAnswers(server, success)
    PROVE  Inv'
  <1> USE BatchAssumption
  <1> DEFINE node == [server |-> server, success |-> success]
  <1>1. /\ server \in running /\ running' = running \ {server}
        /\ nodes' = Append(nodes, node)
        /\ UNCHANGED <<app, table, page, stage, targets, waiting, auditing, audit, ran, panicked,
                       batch>>
    BY DEF NodeAnswers
  <1>2. node \in Node /\ node.server = server
    BY DEF Node
  <1> HIDE DEF node
  <1>3. nodes \in Seq(Node) /\ stage = "chunks"
    BY <1>1 DEF Inv, TypeOK, Parted
  <1>4. /\ nodes' \in Seq(Node) /\ Len(nodes') = Len(nodes) + 1 /\ Len(nodes) \in Nat
        /\ \A i \in 1 .. Len(nodes) : nodes'[i] = nodes[i]
        /\ nodes'[Len(nodes) + 1] = node
    BY <1>1, <1>2, <1>3
  <1>5. TypeOK'
    BY <1>1, <1>4 DEF Inv, TypeOK, page, form
  <1>6. server \notin Answered
    BY <1>1 DEF Inv, Parted
  <1>7. Answered' = Answered \cup {server}
    <2>1. 1 .. Len(nodes') = (1 .. Len(nodes)) \cup {Len(nodes) + 1}
      BY <1>4
    <2> QED BY <2>1, <1>2, <1>4 DEF Answered
  <1>8. \A i, j \in 1 .. Len(nodes') : nodes'[i].server = nodes'[j].server => i = j
    <2>1. \A i \in 1 .. Len(nodes) : nodes[i].server # server
      BY <1>6 DEF Answered
    <2>2. \A i \in 1 .. Len(nodes') : i \in 1 .. Len(nodes) \/ i = Len(nodes) + 1
      BY <1>4
    <2> QED BY <2>1, <2>2, <1>2, <1>4 DEF Inv, Parted
  <1>9. Answered' = targets' \ (waiting' \cup running' \cup panicked')
    BY <1>1, <1>7 DEF Inv, TypeOK, Parted
  <1>10. Parted'
    BY <1>1, <1>3, <1>8, <1>9 DEF Inv, Parted
  <1>11. Traced'
    BY <1>1 DEF Inv, Traced
  <1>12. NodeEventsTrue'
    BY <1>1, <1>3 DEF Inv, NodeEventsTrue
  <1> QED BY <1>1, <1>5, <1>10, <1>11, <1>12, FewerRun, PageStays DEF Inv

LEMMA PanicsInv ==
    ASSUME Inv, NEW server \in Server, NodePanics(server)
    PROVE  Inv'
  <1>1. /\ server \in running /\ running' = running \ {server}
        /\ panicked' = panicked \cup {server}
        /\ UNCHANGED <<app, table, page, stage, targets, waiting, nodes, auditing, audit, ran, batch>>
    BY DEF NodePanics
  <1>2. stage = "chunks"
    BY <1>1 DEF Inv, TypeOK, Parted
  <1>3. TypeOK'
    BY <1>1 DEF Inv, TypeOK, page, form
  <1>4. Parted'
    <2>1. Answered' = Answered
      BY <1>1 DEF Answered
    <2> QED BY <2>1, <1>1, <1>2 DEF Inv, TypeOK, Parted
  <1>5. Traced'
    BY <1>1 DEF Inv, Traced
  <1>6. NodeEventsTrue'
    BY <1>1, <1>2 DEF Inv, NodeEventsTrue
  <1> QED BY <1>1, <1>3, <1>4, <1>5, <1>6, FewerRun, PageStays DEF Inv

\* A sort loses no result and doubles none.
LEMMA SortKeeps ==
    ASSUME Inv, SortById
    PROVE  /\ nodes' \in Seq(Node) /\ Len(nodes') = Len(nodes)
           /\ Answered' = Answered
           /\ \A i, j \in 1 .. Len(nodes') : nodes'[i].server = nodes'[j].server => i = j
  <1> DEFINE dom == 1 .. Len(nodes)
  <1>1. nodes \in Seq(Node) /\ DOMAIN nodes = dom /\ Len(nodes) \in Nat
    BY DEF Inv, TypeOK
  <1>2. PICK order \in Bijection(dom, dom) : nodes' = [i \in dom |-> nodes[order[i]]]
    BY <1>1 DEF SortById
  <1>3. /\ order \in [dom -> dom]
        /\ \A i, j \in dom : order[i] = order[j] => i = j
        /\ \A j \in dom : \E i \in dom : order[i] = j
    BY DEF Bijection, Injection, Surjection, IsInjective
  <1>4. \A i \in dom : nodes[i] \in Node
    BY <1>1
  <1>5. nodes' \in [dom -> Node]
    BY <1>2, <1>3, <1>4
  <1>6. nodes' \in Seq(Node) /\ Len(nodes') = Len(nodes)
    BY <1>1, <1>5
  <1>7. \A i \in dom : nodes'[i] = nodes[order[i]]
    BY <1>2
  <1>8. Answered' = Answered
    <2>1. ASSUME NEW i \in dom PROVE nodes'[i].server \in Answered
      BY <1>3, <1>7 DEF Answered
    <2>2. ASSUME NEW j \in dom PROVE nodes[j].server \in Answered'
      <3>1. PICK i \in dom : order[i] = j
        BY <1>3
      <3>2. nodes'[i].server = nodes[j].server
        BY <1>7, <3>1
      <3> QED BY <1>6, <3>2 DEF Answered
    <2>3. Answered' = {nodes'[i].server : i \in dom}
      BY <1>6 DEF Answered
    <2> QED BY <2>1, <2>2, <2>3 DEF Answered
  <1>9. \A i, j \in dom : nodes'[i].server = nodes'[j].server => i = j
    <2>1. \A i, j \in dom : nodes[i].server = nodes[j].server => i = j
      BY DEF Inv, Parted
    <2> SUFFICES ASSUME NEW i \in dom, NEW j \in dom, nodes'[i].server = nodes'[j].server
                 PROVE  i = j
      OBVIOUS
    <2>2. order[i] \in dom /\ order[j] \in dom /\ nodes[order[i]].server = nodes[order[j]].server
      BY <1>3, <1>7
    <2>3. order[i] = order[j]
      BY <2>1, <2>2
    <2> QED BY <1>3, <2>3
  <1> QED BY <1>6, <1>8, <1>9

LEMMA CollectInv ==
    ASSUME Inv, Collect
    PROVE  Inv'
  <1>1. /\ stage = "chunks" /\ waiting = {} /\ running = {} /\ stage' = "audit"
        /\ auditing' = {nodes[i].server : i \in DOMAIN nodes}
        /\ UNCHANGED <<app, table, page, targets, waiting, running, audit, ran, panicked, batch>>
    BY DEF Collect
  <1>2. nodes \in Seq(Node) /\ DOMAIN nodes = 1 .. Len(nodes)
    BY DEF Inv, TypeOK
  <1>3. auditing' = Answered /\ Answered \subseteq targets
    BY <1>1, <1>2 DEF Inv, Parted, Answered
  <1>4. /\ nodes' \in Seq(Node) /\ Answered' = Answered
        /\ \A i, j \in 1 .. Len(nodes') : nodes'[i].server = nodes'[j].server => i = j
    BY SortKeeps DEF Collect
  <1>5. TypeOK' /\ Parted'
    <2>1. TypeOK'
      BY <1>1, <1>3, <1>4 DEF Inv, TypeOK, page, form
    <2>2. Parted'
      BY <1>1, <1>3, <1>4 DEF Inv, Parted
    <2> QED BY <2>1, <2>2
  <1>6. Traced'
    BY <1>1 DEF Inv, Traced
  <1>7. BoundedConcurrency' /\ NodeEventsTrue'
    BY <1>1 DEF Inv, Traced, BoundedConcurrency, Clamped, NodeEventsTrue
  <1> QED BY <1>1, <1>5, <1>6, <1>7, PageStays DEF Inv

LEMMA AuditInv ==
    ASSUME Inv, NEW server \in Server, AuditNode(server)
    PROVE  Inv'
  <1> DEFINE event == [batch |-> batch, server |-> server]
  <1>1. /\ stage = "audit" /\ server \in auditing /\ auditing' = auditing \ {server}
        /\ audit' = audit \/ audit' = audit \cup {event}
        /\ UNCHANGED <<app, table, page, stage, targets, waiting, running, nodes, ran, panicked,
                       batch>>
    BY DEF AuditNode
  <1>2. /\ event \in [batch : 1 .. MaxBatches, server : Server]
        /\ event.batch = batch /\ event.server = server
    <2>1. batch \in 1 .. MaxBatches
      BY <1>1, BatchAssumption DEF Inv, TypeOK, Traced
    <2> QED BY <2>1
  <1> HIDE DEF event
  <1>3. TypeOK'
    BY <1>1, <1>2 DEF Inv, TypeOK, page, form
  <1>4. Parted'
    BY <1>1 DEF Inv, Parted, Answered
  <1>5. BoundedConcurrency'
    BY <1>1 DEF Inv, BoundedConcurrency, Clamped
  <1>6. Traced'
    <2>1. batch \in Nat
      BY BatchAssumption DEF Inv, TypeOK
    <2> QED BY <2>1, <1>1, <1>2 DEF Inv, Traced
  <1>7. NodeEventsTrue'
    <2>1. server \in Answered /\ server \in targets \ waiting
      BY <1>1 DEF Inv, Parted
    <2>2. Answering(server) # {}
      <3>1. PICK i \in 1 .. Len(nodes) : nodes[i].server = server
        BY <2>1 DEF Answered
      <3>2. DOMAIN nodes = 1 .. Len(nodes)
        BY DEF Inv, TypeOK
      <3> QED BY <3>1, <3>2 DEF Answering
    <2>3. \E r \in ran : r.batch = batch /\ r.server = server
      BY <2>1 DEF Inv, Traced
    <2> QED BY <2>2, <2>3, <1>1, <1>2 DEF Inv, NodeEventsTrue, Answering
  <1> QED BY <1>1, <1>3, <1>4, <1>5, <1>6, <1>7, PageStays DEF Inv

LEMMA ReturnInv ==
    ASSUME Inv, Return
    PROVE  Inv'
  <1>1. /\ stage = "audit" /\ stage' = "idle"
        /\ targets' = {} /\ nodes' = <<>> /\ panicked' = {} /\ auditing = {}
        /\ UNCHANGED <<app, table, page, waiting, running, auditing, audit, ran, batch>>
    BY DEF Return
  <1>2. waiting = {} /\ running = {} /\ nodes' \in Seq(Node)
    BY <1>1 DEF Inv, Parted
  <1>3. TypeOK'
    BY <1>1, <1>2 DEF Inv, TypeOK, page, form
  <1>4. Parted'
    BY <1>1, <1>2 DEF Parted, Answered
  <1>5. Traced'
    BY <1>1 DEF Inv, Traced
  <1>6. BoundedConcurrency' /\ NodeEventsTrue'
    BY <1>1 DEF Inv, BoundedConcurrency, Clamped, NodeEventsTrue
  <1> QED BY <1>1, <1>3, <1>4, <1>5, <1>6, PageStays DEF Inv

LEMMA NextInv ==
    ASSUME Inv, [Next]_vars
    PROVE  Inv'
  <1>1. CASE Users
    BY <1>1, UsersForm, ClickInv, ExecuteInv DEF Users
  <1>2. CASE Dialog
    BY <1>2, PolicyInv, StandInInv DEF Dialog
  <1>3. CASE Engine
    BY <1>3, ChunkInv, CollectInv, AuditInv, ReturnInv DEF Engine
  <1>4. CASE Tools
    BY <1>4, AnswersInv, PanicsInv DEF Tools
  <1>5. CASE UNCHANGED vars
    <2>1. UNCHANGED <<table, tool, choice, typed, prompt>> /\
          UNCHANGED <<app, view, request, clicks, asked, reported, engine>>
      BY <1>5 DEF vars, page, form
    <2> QED BY <2>1, FormInv DEF Inv, TypeOK
  <1> QED BY <1>1, <1>2, <1>3, <1>4, <1>5 DEF Next

\* The invariant holds in every state.
THEOREM Invariance == Spec => []Inv
  BY InitInv, NextInv, PTL DEF Spec

-----------------------------------------------------------------------------

\* The variables hold what their types say.
THEOREM TypeCorrect == Spec => []TypeOK
  <1>1. Inv => TypeOK
    BY DEF Inv
  <1> QED BY <1>1, Invariance, PTL

\* However the threads of the others end, every server whose thread did not panic has one
\* result at the end of its batch, and nobody else has one.
THEOREM EveryTargetOnce == Spec => []EveryTargetAnswers
  <1>1. Inv => EveryTargetAnswers
    <2> SUFFICES ASSUME Inv, stage = "audit", NEW server \in Server
                 PROVE  Cardinality(Answering(server)) =
                            IF server \in targets \ panicked THEN 1 ELSE 0
      BY DEF EveryTargetAnswers
    <2>1. DOMAIN nodes = 1 .. Len(nodes)
      BY DEF Inv, TypeOK
    <2>2. Answered = targets \ panicked
      BY DEF Inv, Parted
    <2>3. CASE server \in targets \ panicked
      <3>1. PICK i \in 1 .. Len(nodes) : nodes[i].server = server
        BY <2>2, <2>3 DEF Answered
      <3>2. Answering(server) = {i}
        BY <2>1, <3>1 DEF Answering, Inv, Parted
      <3> QED BY <2>3, <3>2, FS_Singleton
    <2>4. CASE server \notin targets \ panicked
      <3>1. Answering(server) = {}
        BY <2>1, <2>2, <2>4 DEF Answering, Answered
      <3> QED BY <2>4, <3>1, FS_EmptySet
    <2> QED BY <2>3, <2>4
  <1> QED BY <1>1, Invariance, PTL

\* Never more servers at once than the limit allows.
THEOREM Bounded == Spec => []BoundedConcurrency
  <1>1. Inv => BoundedConcurrency
    BY DEF Inv
  <1> QED BY <1>1, Invariance, PTL

\* Outside the application, where the page understands the answer of the policy, no restart
\* is shown as done without the code, nor for servers it was not asked for.
THEOREM Asked == Spec => []ReportedAsAsked
  <1>1. Inv => ReportedAsAsked
    BY DEF Inv
  <1> QED BY <1>1, Invariance, PTL

\* An event of a server says that the tool ran there and answered.
THEOREM EventsTrue == Spec => []NodeEventsTrue
  <1>1. Inv => NodeEventsTrue
    BY DEF Inv
  <1> QED BY <1>1, Invariance, PTL

-----------------------------------------------------------------------------
(* The promise *)

Fates == [server \in Server |-> FateOf(server)]
Opened == stage # "idle"

\* In a list without doubles, who has a result has exactly one.
LEMMA OneResult ==
    ASSUME NEW list \in Seq(Node), NEW server,
           \A i, j \in 1 .. Len(list) : list[i].server = list[j].server => i = j
    PROVE  (\E i \in DOMAIN list : {k \in DOMAIN list : list[k].server = server} = {i})
               <=> server \in {list[i].server : i \in 1 .. Len(list)}
  <1>1. DOMAIN list = 1 .. Len(list)
    OBVIOUS
  <1>2. ASSUME NEW i \in 1 .. Len(list), {k \in 1 .. Len(list) : list[k].server = server} = {i}
        PROVE  list[i].server = server
    BY <1>2
  <1>3. ASSUME NEW i \in 1 .. Len(list), list[i].server = server
        PROVE  {k \in 1 .. Len(list) : list[k].server = server} = {i}
    BY <1>3
  <1> QED BY <1>1, <1>2, <1>3

\* Where nobody's lists say otherwise, a target has answered.
LEMMA FateIs ==
    ASSUME Inv, NEW server \in Server
    PROVE  Fates[server] =
               IF server \notin targets THEN "out"
               ELSE IF server \in waiting THEN "waiting"
               ELSE IF server \in running THEN "running"
               ELSE IF server \in panicked THEN "lost" ELSE "answered"
  <1>1. (\E i \in DOMAIN nodes : Answering(server) = {i}) <=> server \in Answered
    <2>1. nodes \in Seq(Node)
      BY DEF Inv, TypeOK
    <2>2. \A i, j \in 1 .. Len(nodes) : nodes[i].server = nodes[j].server => i = j
      BY DEF Inv, Parted
    <2> QED BY <2>1, <2>2, OneResult DEF Answering, Answered
  <1>2. Answered = targets \ (waiting \cup running \cup panicked)
    BY DEF Inv, Parted
  <1> QED BY <1>1, <1>2 DEF Fates, FateOf

LEMMA FateIsNext ==
    ASSUME Inv', NEW server \in Server
    PROVE  Fates'[server] =
               IF server \notin targets' THEN "out"
               ELSE IF server \in waiting' THEN "waiting"
               ELSE IF server \in running' THEN "running"
               ELSE IF server \in panicked' THEN "lost" ELSE "answered"
  <1>1. (\E i \in DOMAIN nodes' : Answering(server)' = {i}) <=> server \in Answered'
    <2>1. nodes' \in Seq(Node)
      BY DEF Inv, TypeOK
    <2>2. \A i, j \in 1 .. Len(nodes') : nodes'[i].server = nodes'[j].server => i = j
      BY DEF Inv, Parted
    <2> QED BY <2>1, <2>2, OneResult DEF Answering, Answered
  <1>2. Answered' = targets' \ (waiting' \cup running' \cup panicked')
    BY DEF Inv, Parted
  <1> QED BY <1>1, <1>2 DEF Fates, FateOf

LEMMA InitPromise == Init => Promise!Init
  <1> SUFFICES ASSUME Init PROVE Promise!Init
    OBVIOUS
  <1>1. targets = {} /\ stage = "idle"
    BY DEF Init
  <1>2. Fates = [server \in Server |-> "out"]
    BY <1>1 DEF Fates, FateOf
  <1>3. Opened = FALSE
    BY <1>1 DEF Opened
  <1> QED BY <1>2, <1>3 DEF Promise!Init, Fates, Opened

\* A step that befalls the servers of a set and no other.
LEMMA StepBefalls ==
    ASSUME NEW servers \in SUBSET Server, NEW f,
           \A server \in servers : Fates'[server] = f,
           \A server \in Server \ servers : Fates'[server] = Fates[server]
    PROVE  Promise!Befalls(servers, f)
  <1>1. Fates' = [server \in Server |-> Fates'[server]]
    BY DEF Fates
  <1>2. Fates' = [server \in Server |-> IF server \in servers THEN f ELSE Fates[server]]
    BY <1>1
  <1> QED BY <1>2 DEF Promise!Befalls, Fates

\* The targets wait, all at once, and nobody else was in a batch.
LEMMA ExecuteOpens ==
    ASSUME Inv, Inv', NEW selector \in Called, ExecuteBatch(selector)
    PROVE  Promise!Open
  <1>1. stage = "idle" /\ stage' = "chunks" /\ waiting' = targets'
    BY DEF ExecuteBatch
  <1>2. targets = {} /\ targets' \in SUBSET Server
    BY <1>1 DEF Inv, TypeOK, Parted
  <1>3. Promise!Befalls(targets', "waiting")
    <2>1. \A server \in targets' : Fates'[server] = "waiting"
      BY <1>1, <1>2, FateIsNext
    <2>2. \A server \in Server \ targets' : Fates'[server] = Fates[server]
      BY <1>2, FateIs, FateIsNext
    <2> QED BY <1>2, <2>1, <2>2, StepBefalls
  <1>4. ~(stage # "idle") /\ (stage # "idle")' = TRUE
    BY <1>1
  <1> QED BY <1>2, <1>3, <1>4, Zenon DEF Promise!Open

\* A chunk starts, when the chunk before it is joined.
LEMMA ChunkStarts ==
    ASSUME Inv, Inv', SpawnChunk
    PROVE  Promise!Start
  <1>1. PICK chunk \in SUBSET waiting :
           Cardinality(chunk) = ChunkSize /\ running' = chunk /\ waiting' = waiting \ chunk
    BY DEF SpawnChunk
  <1>2. running = {} /\ UNCHANGED <<stage, targets, nodes, panicked>>
    BY DEF SpawnChunk
  <1>3. chunk \in SUBSET Server /\ chunk \subseteq targets /\ waiting \subseteq targets /\ waiting \in SUBSET Server
    BY <1>1 DEF Inv, TypeOK
  <1>4. Cardinality(chunk) <= Clamped
    <2>1. Cardinality(waiting) \in Nat
      BY <1>3, BatchAssumption, FS_Subset, FS_CardinalityType
    <2> QED BY <1>1, <2>1, ClampedType DEF ChunkSize
  <1>5. Promise!Befalls(chunk, "running")
    <2>1. \A server \in chunk : Fates'[server] = "running"
      BY <1>1, <1>2, <1>3, FateIsNext
    <2>2. \A server \in Server \ chunk : Fates'[server] = Fates[server]
      BY <1>1, <1>2, FateIs, FateIsNext
    <2> QED BY <1>3, <2>1, <2>2, StepBefalls
  <1>6. Promise!Having("running") = {}
    <2>1. \A server \in Server : Fates[server] # "running"
      BY <1>2, FateIs
    <2> QED BY <2>1 DEF Promise!Having, Fates
  <1>7. chunk \in SUBSET Promise!Having("waiting")
    <2>1. \A server \in chunk : Fates[server] = "waiting"
      BY <1>3, FateIs
    <2> QED BY <1>3, <2>1 DEF Promise!Having, Fates
  <1>8. (stage # "idle")' = (stage # "idle")
    BY <1>2
  <1>9. Promise!Cardinality(chunk) <= Clamped
    <2>1. Promise!Cardinality(chunk) = Cardinality(chunk)
      BY DEF Promise!Cardinality, Cardinality
    <2> QED BY <1>4, <2>1
  <1> QED BY <1>5, <1>6, <1>7, <1>8, <1>9 DEF Promise!Start

\* A thread that ends leaves the running for its one result, or for none.
LEMMA ThreadEnds ==
    ASSUME Inv, Inv', NEW server \in Server,
           NodePanics(server) \/ \E success \in BOOLEAN : NodeAnswers(server, success)
    PROVE  Promise!End
  <1>1. /\ server \in running /\ running' = running \ {server}
        /\ panicked' = panicked \/ panicked' = panicked \cup {server}
        /\ UNCHANGED <<stage, targets, waiting>>
    BY DEF NodePanics, NodeAnswers
  <1>2. PICK f \in {"answered", "lost"} : Fates'[server] = f
    <2>1. server \in targets' /\ server \notin waiting' /\ server \notin running'
      BY <1>1 DEF Inv, TypeOK
    <2> QED BY <2>1, FateIsNext
  <1>3. \A other \in Server \ {server} : Fates'[other] = Fates[other]
    BY <1>1, FateIs, FateIsNext
  <1>4. Promise!Befalls({server}, f)
    BY <1>2, <1>3, StepBefalls
  <1>5. server \in Promise!Having("running")
    <2>1. Fates[server] = "running"
      BY <1>1, FateIs DEF Inv, TypeOK
    <2> QED BY <2>1 DEF Promise!Having, Fates
  <1>6. (stage # "idle")' = (stage # "idle")
    BY <1>1
  <1> QED BY <1>4, <1>5, <1>6 DEF Promise!End

\* The batch comes back, and nobody is in it any longer.
LEMMA ReturnCloses ==
    ASSUME Inv, Inv', Return
    PROVE  Promise!Close
  <1>1. stage = "audit" /\ stage' = "idle" /\ targets' = {}
    BY DEF Return
  <1>2. waiting = {} /\ running = {}
    BY <1>1 DEF Inv, Parted
  <1>3. Promise!Having("waiting") \cup Promise!Having("running") = {}
    <2>1. \A server \in Server : Fates[server] \notin {"waiting", "running"}
      BY <1>2, FateIs
    <2> QED BY <2>1 DEF Promise!Having, Fates
  <1>4. Fates' = [server \in Server |-> "out"]
    BY <1>1 DEF Fates, FateOf
  <1>5. stage # "idle" /\ (stage # "idle")' = FALSE
    BY <1>1
  <1> QED BY <1>3, <1>4, <1>5, Zenon DEF Promise!Close, Fates

\* Where the targets, the threads and the results stay, so do the fates.
LEMMA FatesStay ==
    ASSUME UNCHANGED <<targets, waiting, running, nodes>>
    PROVE  UNCHANGED Fates
  BY DEF Fates, FateOf, Answering

\* The order of the results is nobody's fate.
LEMMA CollectStays ==
    ASSUME Inv, Inv', Collect
    PROVE  UNCHANGED <<Fates, Opened>>
  <1>1. UNCHANGED <<targets, waiting, running, panicked>> /\ stage = "chunks" /\ stage' = "audit"
    BY DEF Collect
  <1>2. \A server \in Server : Fates'[server] = Fates[server]
    BY <1>1, FateIs, FateIsNext
  <1>3. UNCHANGED Fates
    BY <1>2 DEF Fates
  <1>4. UNCHANGED Opened
    BY <1>1 DEF Opened
  <1> QED BY <1>3, <1>4

LEMMA StepPromise ==
    ASSUME Inv, Inv', [Next]_vars
    PROVE  [Promise!Next]_Promise!promiseVars
  <1>1. SUFFICES ASSUME UNCHANGED <<Fates, Opened>> \/ Promise!Next
                 PROVE  [Promise!Next]_Promise!promiseVars
    <2>1. CASE UNCHANGED engine
      <3>1. UNCHANGED <<targets, waiting, running, nodes>> /\ UNCHANGED stage
        BY <2>1 DEF engine
      <3> QED BY <3>1, FatesStay DEF Opened
    <2>2. CASE Users
      <3>1. UNCHANGED engine \/ \E selector \in Called : ExecuteBatch(selector)
        BY <2>2 DEF Users, EditForm, TypeCode, EditServer, Click, RunDiagnostics
      <3> QED BY <3>1, <2>1, ExecuteOpens DEF Promise!Next
    <2>3. CASE Dialog
      <3>1. UNCHANGED engine
        BY <2>3 DEF Dialog, PolicyAnswers, StandInAnswers, Simulate
      <3> QED BY <3>1, <2>1
    <2>4. CASE \E server \in Server : AuditNode(server)
      <3>1. UNCHANGED <<targets, waiting, running, nodes>> /\ UNCHANGED stage
        BY <2>4 DEF AuditNode
      <3> QED BY <3>1, FatesStay DEF Opened
    <2>5. CASE SpawnChunk
      BY <2>5, ChunkStarts DEF Promise!Next
    <2>6. CASE Collect
      BY <2>6, CollectStays
    <2>7. CASE Return
      BY <2>7, ReturnCloses DEF Promise!Next
    <2>8. CASE Tools
      BY <2>8, ThreadEnds DEF Tools, Promise!Next
    <2>9. CASE UNCHANGED vars
      BY <2>9, <2>1 DEF vars
    <2> QED BY <2>2, <2>3, <2>4, <2>5, <2>6, <2>7, <2>8, <2>9 DEF Next, Engine
  <1> QED BY <1>1 DEF Promise!promiseVars, Fates, Opened

\* What the engine does with its lists and threads is what a batch promises of each of
\* its servers: it runs once, within the limit and after the chunk before, ends once,
\* with one result or none, and before the batch is over.
THEOREM PromiseKept == Spec => KeepsPromise
  <1>1. Inv /\ Inv' /\ [Next]_vars => [Promise!Next]_Promise!promiseVars
    BY StepPromise
  <1> QED BY <1>1, InitPromise, Invariance, PTL DEF Spec, KeepsPromise, Promise!Spec

=================================================================================
