------------------------------ MODULE ChatTab ------------------------------
(***************************************************************************)
(* The chat view of the desktop interface (views/ChatView.tsx): turns run  *)
(* by the tool-loop orchestrator, the conversation they are stored in, and *)
(* the dialog that decides on a pending approval.                          *)
(*                                                                         *)
(* A turn is a closure: the conversation, the server and the mount it      *)
(* started with.  It waits in "away" for the model provider, which is not  *)
(* part of the program, and otherwise in the queue for the bridge.  What   *)
(* the orchestrator does inside is the subject of module Orchestrator.     *)
(***************************************************************************)
EXTENDS DesktopCore

CONSTANTS
  ChatTools,  \* the tools the provider may call in these behaviours
  MaxRounds,  \* tool rounds the orchestrator allows a turn
  MaxCalls    \* tool calls in an answer of the provider

ASSUME ChatAssumption == {MaxRounds, MaxCalls} \subseteq Nat

VARIABLES
  sent,     \* history: the conversation and the server of each prompt
  away,     \* turns waiting for the provider
  aborted   \* turns whose signal is set

chatVars == << sent, away, aborted >>

ChatInit == sent = <<>> /\ away = {} /\ aborted = {}

NoConv == 0
NoApproval == [id |-> 0, word |-> NoWord]

\* State of the component: current conversation, the assistant bubbles on
\* screen (and whether each still "thinks"), the turn that can be cancelled,
\* the dialog and the text in its box.
FreshChat(mount) ==
  [mount |-> mount, conv |-> NoConv, shown |-> {}, busy |-> FALSE,
   aborter |-> 0, pend |-> NoApproval, typed |-> NoWord,
   listed |-> {}]

Chat == tabs["Chat"]

ChatCall(op, x, k, e) == Call(op, x, k, e, "Chat")
Within(c, op, x, k) ==
  [op |-> op, x |-> x, k |-> k, e |-> c.e, on |-> c.on]

\* On mount, and whenever another server becomes active: the newest pending
\* approval and the server's conversations.
ChatEffect(mount, server) ==
  << [op |-> "listPendingApprovals", x |-> 0, k |-> "pending", e |-> 0,
      on |-> mount],
     [op |-> "listConversations", x |-> server, k |-> "listed", e |-> 0,
      on |-> mount] >>

PendingShown ==
  /\ Awaited("pending")
  /\ LET c == Head(queue) IN
     \E r \in Answers(c) :
       /\ Take(r, <<>>)
       /\ Shows(c, "Chat", [Chat EXCEPT !.pend =
                              IF r.val = <<>> THEN NoApproval ELSE r.val[1]])
  /\ UNCHANGED << app, chatVars >>

ConversationsListed ==
  /\ Awaited("listed")
  /\ LET c == Head(queue) IN
     \E r \in Answers(c) :
       /\ Take(r, <<>>)
       /\ Shows(c, "Chat", [Chat EXCEPT !.listed = r.val])
  /\ UNCHANGED << app, chatVars >>

-----------------------------------------------------------------------------
(* Conversations *)

\* The dialog is closed too; what is typed in it stays.
Blank(me) ==
  [me EXCEPT !.conv = NoConv, !.shown = {}, !.pend = NoApproval]

NewChat ==
  /\ Does("Chat", Blank(Chat), <<>>)
  /\ UNCHANGED chatVars

SelectConversation(conv) ==
  /\ Open("Chat") /\ conv \in Chat.listed
  /\ Does("Chat", [Chat EXCEPT !.conv = conv],
          << ChatCall("listMessages", conv, "loaded", conv) >>)
  /\ UNCHANGED chatVars

\* The stored messages replace what is on screen, whatever is there by then.
ConversationLoaded ==
  /\ Awaited("loaded")
  /\ LET c == Head(queue) IN
     \E r \in Answers(c) :
       /\ Take(r, <<>>)
       /\ Shows(c, "Chat",
                [Chat EXCEPT !.shown = {<< m.turn, "done" >> :
                    m \in {n \in r.val : n.role = "assistant"}}])
  /\ UNCHANGED << app, chatVars >>

DeleteConversation(conv) ==
  /\ Open("Chat") /\ conv \in Chat.listed
  /\ Does("Chat", Chat, << ChatCall("deleteConversation", conv, "deleted",
                                    [current |-> Chat.conv, conv |-> conv,
                                     server |-> ActiveServer]) >>)
  /\ UNCHANGED chatVars

ConversationDeleted ==
  /\ Awaited("deleted")
  /\ LET c == Head(queue) IN
     \E r \in Answers(c) :
       /\ Take(r, << Within(c, "listConversations", c.e.server, "listed") >>)
       /\ Shows(c, "Chat", IF c.e.current = c.e.conv THEN Blank(Chat) ELSE Chat)
  /\ UNCHANGED << app, chatVars >>

-----------------------------------------------------------------------------
(* A turn *)

ConfigKeys == << "ai_provider", "ai_model", "ai_base_url", "ai_api_key_ref" >>

\* The prompt goes to the current conversation, or starts one.
Send ==
  LET n    == Len(sent) + 1
      conv == IF Chat.conv = NoConv THEN n ELSE Chat.conv
      turn == [n |-> n, conv |-> conv, server |-> ActiveServer,
               mount |-> Chat.mount, config |-> <<>>, rounds |-> 0,
               left |-> 0]
  IN /\ Open("Chat") /\ ~Chat.busy
     /\ Does("Chat",
             [Chat EXCEPT !.conv = conv, !.busy = TRUE, !.aborter = n,
                          !.shown = @ \cup {<< n, "thinking" >>}],
             << ChatCall("saveConversation",
                         [id |-> conv, server |-> ActiveServer], "-", 0),
                ChatCall("saveMessage",
                         [conv |-> conv, turn |-> n, role |-> "user"], "-", 0),
                ChatCall("getSetting", ConfigKeys[1], "configured", turn) >>)
     /\ sent' = Append(sent, [conv |-> conv, server |-> ActiveServer])
     /\ UNCHANGED << away, aborted >>

\* getAIConfig reads four settings one after the other; the privacy settings
\* and the provider's key follow.
Configured ==
  /\ Awaited("configured")
  /\ LET c == Head(queue) IN
     \E r \in Answers(c) :
       LET turn == [c.e EXCEPT !.config = Append(@, r.val)]
           next == IF Len(turn.config) < Len(ConfigKeys)
                   THEN [c EXCEPT !.x = ConfigKeys[Len(turn.config) + 1]]
                   ELSE [c EXCEPT !.x = "privacy_settings", !.k = "private"]
       IN Take(r, << [next EXCEPT !.e = turn] >>)
  /\ UNCHANGED << app, tabs, chatVars >>

PrivacyRead ==
  /\ Awaited("private")
  /\ LET c == Head(queue) IN
     \E r \in Answers(c) :
       Take(r, << Within(c, "getSecret", c.e.config[4], "keyed") >>)
  /\ UNCHANGED << app, tabs, chatVars >>

KeyResolved ==
  /\ Awaited("keyed")
  /\ LET c == Head(queue) IN
     /\ \E r \in Answers(c) : Take(r, <<>>)
     /\ away' = away \cup {c.e}
  /\ UNCHANGED << app, tabs, sent, aborted >>

\* A tool acts on the server it names or, if it names none, on the turn's.
\* Mutant: on the one the header shows.
TargetShown(turn, named) == IF named = NoServer THEN ActiveServer ELSE named
TargetOf(turn, named) == IF named = NoServer THEN turn.server ELSE named

\* A call of a turn, of which turn.left more calls of the same answer follow.
ToolCall(turn, tool, named) ==
  [op |-> "evaluateAndExecuteTool", k |-> "evaluated", e |-> turn,
   on |-> turn.mount,
   x |-> [id |-> turn.n, tool |-> tool, server |-> TargetOf(turn, named),
          named |-> named # NoServer, mode |-> "unset",
          danger |-> tool = "ssh.execute", fails |-> FALSE,
          path |-> CHOOSE p \in RemotePaths : TRUE,
          content |-> "v1", keep |-> TRUE, user |-> "none"]]

\* The provider answers with tool calls, the first of which is made.
ProviderCalls(turn, tool, named, calls) ==
  /\ turn \in away /\ turn.n \notin aborted /\ turn.rounds < MaxRounds
  /\ queue' = Append(queue, ToolCall([turn EXCEPT !.rounds = @ + 1,
                                                 !.left = calls - 1],
                                    tool, named))
  /\ away' = away \ {turn}
  /\ UNCHANGED << tauri, store, faults, app, tabs, acts, sent, aborted >>

\* The last words of a turn: they are stored, its bubble stops thinking, if
\* it is still on screen, and the view takes input again.
\* Mutants: they go to the current conversation; the view stays busy.
LastWordsHere(turn) ==
  [op |-> "saveMessage",
   x |-> [conv |-> IF Open("Chat") THEN Chat.conv ELSE turn.conv,
          turn |-> turn.n, role |-> "assistant"],
   k |-> "stored", e |-> turn.server, on |-> turn.mount]

LastWords(turn) ==
  [op |-> "saveMessage",
   x |-> [conv |-> turn.conv, turn |-> turn.n, role |-> "assistant"],
   k |-> "stored", e |-> turn.server, on |-> turn.mount]

StillBusy(me, turn) == [me EXCEPT !.aborter = 0]

Settled(me, turn) ==
  [me EXCEPT !.busy = FALSE, !.aborter = 0,
             !.shown = {IF b[1] = turn.n THEN << b[1], "done" >> ELSE b : b \in @}]

Seen(turn, new) ==
  tabs' = IF Chat.mount = turn.mount THEN [tabs EXCEPT !["Chat"] = new] ELSE tabs

\* An answer, an error, or the abort: each ends the turn.
ProviderEnds(turn) ==
  /\ turn \in away
  /\ queue' = Append(queue, LastWords(turn))
  /\ Seen(turn, Settled(Chat, turn))
  /\ away' = away \ {turn}
  /\ UNCHANGED << tauri, store, faults, app, acts, sent, aborted >>

\* After a result or a refusal the next call of the answer is made, whether or
\* not the turn has been cancelled since; after the last one they go back to
\* the provider.  A request for approval opens the dialog and ends the turn,
\* and so does a rejected promise.
ToolAnswered ==
  /\ Awaited("evaluated")
  /\ LET c == Head(queue) IN
     \E r \in Answers(c) :
       \/ /\ r.val.type \in {"executed", "denied"} /\ c.e.left = 0
          /\ Take(r, <<>>)
          /\ away' = away \cup {c.e}
          /\ UNCHANGED tabs
       \/ /\ r.val.type \in {"executed", "denied"} /\ c.e.left > 0
          /\ \E tool \in ChatTools, named \in {NoServer} \cup ServerIds :
               Take(r, << ToolCall([c.e EXCEPT !.left = @ - 1], tool, named) >>)
          /\ UNCHANGED << tabs, away >>
       \/ /\ r.val.type = "approval_required"
          /\ Take(r, << LastWords(c.e) >>)
          /\ Seen(c.e, [Settled(Chat, c.e) EXCEPT !.pend = r.val.request])
          /\ UNCHANGED away
       \/ /\ r.val.type = "threw"
          /\ Take(r, << LastWords(c.e) >>)
          /\ Seen(c.e, Settled(Chat, c.e))
          /\ UNCHANGED away
  /\ UNCHANGED << app, sent, aborted >>

WordsStored ==
  /\ Awaited("stored")
  /\ LET c == Head(queue) IN
     \E r \in Answers(c) :
       Take(r, << [c EXCEPT !.op = "listConversations", !.x = c.e,
                            !.k = "listed", !.e = 0] >>)
  /\ UNCHANGED << app, tabs, chatVars >>

\* The button replaces Send while the view is busy.
Cancel ==
  /\ Open("Chat") /\ Chat.busy /\ Chat.aborter # 0
  /\ Does("Chat", Chat, <<>>)
  /\ aborted' = aborted \cup {Chat.aborter}
  /\ UNCHANGED << sent, away >>

-----------------------------------------------------------------------------
(* The approval dialog *)

\* The operator enters the word the dialog asks for.
TypeWord ==
  /\ Open("Chat") /\ Chat.pend.word # NoWord
  /\ Does("Chat", [Chat EXCEPT !.typed = Chat.pend.word], <<>>)
  /\ UNCHANGED chatVars

Submission(approved) ==
  ChatCall("submitApproval", [id |-> Chat.pend.id, approved |-> approved],
           IF approved THEN "approved" ELSE "rejected",
           [conv |-> Chat.conv, id |-> Chat.pend.id, server |-> ActiveServer])

Approve ==
  /\ Open("Chat") /\ Chat.pend.id # 0 /\ ~Chat.busy
  /\ Chat.pend.word \in {NoWord, Chat.typed}
  /\ Does("Chat", [Chat EXCEPT !.busy = TRUE], << Submission(TRUE) >>)
  /\ UNCHANGED chatVars

Reject ==
  /\ Open("Chat") /\ Chat.pend.id # 0 /\ ~Chat.busy
  /\ Does("Chat", [Chat EXCEPT !.busy = TRUE], << Submission(FALSE) >>)
  /\ UNCHANGED chatVars

\* The verdict is stored in the conversation that was current at the click.
Verdict(c) ==
  IF c.e.conv = NoConv THEN <<>>
  ELSE << Within([c EXCEPT !.e = c.e.server], "saveMessage",
            [conv |-> c.e.conv, turn |-> c.e.id, role |-> "verdict"],
            "stored") >>

\* A failed execution leaves the dialog open with the error.
Approved ==
  /\ Awaited("approved")
  /\ LET c == Head(queue) IN
     \E r \in Answers(c) :
       IF r.val.ok
       THEN /\ Take(r, Verdict(c))
            /\ Shows(c, "Chat", [Chat EXCEPT !.busy = FALSE, !.pend = NoApproval])
       ELSE /\ Take(r, <<>>)
            /\ Shows(c, "Chat", [Chat EXCEPT !.busy = FALSE])
  /\ UNCHANGED << app, chatVars >>

\* A rejection closes the dialog whatever the backend answers.
Rejected ==
  /\ Awaited("rejected")
  /\ LET c == Head(queue) IN
     \E r \in Answers(c) :
       /\ Take(r, Verdict(c))
       /\ Shows(c, "Chat", [Chat EXCEPT !.busy = FALSE, !.pend = NoApproval])
  /\ UNCHANGED << app, chatVars >>

-----------------------------------------------------------------------------
ChatOperator ==
  \/ NewChat \/ Send \/ Cancel \/ TypeWord \/ Approve \/ Reject
  \/ \E conv \in 1 .. Len(sent) :
       SelectConversation(conv) \/ DeleteConversation(conv)

ChatAnswer ==
  \/ PendingShown \/ ConversationsListed \/ ConversationLoaded
  \/ ConversationDeleted \/ Configured \/ PrivacyRead \/ KeyResolved
  \/ ToolAnswered \/ WordsStored \/ Approved \/ Rejected

Provider ==
  \E turn \in away :
    \/ ProviderEnds(turn)
    \/ \E tool \in ChatTools, named \in {NoServer} \cup ServerIds,
          calls \in 1 .. MaxCalls : ProviderCalls(turn, tool, named, calls)
=============================================================================
