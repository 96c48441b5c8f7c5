---------------------------- MODULE WebSessions ----------------------------
(***************************************************************************)
(* The session store of the web edition (apps/web/src/server/sessions.ts): *)
(* one JSON file per chat session and index.json with the summaries of     *)
(* all of them.  A store is a record [files, index]; the operators say     *)
(* what each exported function does to it.  The file system calls are      *)
(* synchronous, so no other request sees the store between the file and    *)
(* the index.  But any of the calls may fail, which most of the code       *)
(* passes over, and the process may die between two of them: the operators *)
(* of the second part say what that leaves behind.                         *)
(***************************************************************************)
EXTENDS Naturals, Functions

CONSTANTS Sessions,  \* session identifiers, already reduced to [a-zA-Z0-9_-]
          NoIndex    \* index.json is missing or is not a JSON array

\* What a session's file holds; a session without a file is not in DOMAIN files.
EmptyStore == [files |-> <<>>, index |-> NoIndex]

\* rebuildIndex: every readable session file gets a summary.
RebuildIndex(store) == [store EXCEPT !.index = DOMAIN store.files]

\* listChatSessions: the index as it stands; rebuilt when it cannot be read.
AfterListing(store) == IF store.index = NoIndex THEN RebuildIndex(store) ELSE store
ListChatSessions(store) == AfterListing(store).index

\* getChatSession returns null for a session without a file.
HasSession(store, s) == s \in DOMAIN store.files
GetChatSession(store, s) == store.files[s]

\* saveChatSession's first half: the session's file is overwritten ...
FileWritten(store, s, content) ==
    [store EXCEPT !.files = [x \in DOMAIN @ \cup {s} |-> IF x = s THEN content ELSE @[x]]]
\* ... and its second: the summary replaces the old one in the index or is added.
SaveChatSession(store, s, content) ==
    LET written == FileWritten(store, s, content)
    IN [written EXCEPT !.index = ListChatSessions(written) \cup {s}]

\* Mutant: the index keeps the summary of a deleted session.
DeleteFileOnly(store, s) == [store EXCEPT !.files = Restrict(@, DOMAIN @ \ {s})]
FileRemoved(store, s) == [store EXCEPT !.files = Restrict(@, DOMAIN @ \ {s})]
\* deleteChatSession: the file, then the summary.
DeleteChatSession(store, s) ==
    LET removed == FileRemoved(store, s)
    IN [removed EXCEPT !.index = ListChatSessions(removed) \ {s}]

-----------------------------------------------------------------------------
\* What failures leave behind.  A write that is cut short leaves a file that is not JSON:
\* a session's is as good as none, and so is the index.
SaveCutShort(store, s, content) ==
    LET written == FileWritten(store, s, content)
    IN {FileRemoved(store, s), written, [written EXCEPT !.index = NoIndex]}
DeleteCutShort(store, s) ==
    LET removed == FileRemoved(store, s)
    IN {removed, [removed EXCEPT !.index = NoIndex]}

\* An outcome names the sessions that a rebuild has passed over, since it skips the files
\* it cannot read, and the directory if it cannot read that.
Plain(stores) == {[store |-> after, missed |-> {}] : after \in stores}
Rebuilt(store) == {[store |-> [store EXCEPT !.index = seen], missed |-> DOMAIN store.files \ seen] :
                      seen \in SUBSET DOMAIN store.files}

\* The write of the session's file throws, and nothing else happens; or the index cannot be
\* read or written, and is rebuilt, unless that fails as well.
SaveGoesWrong(store, s, content) ==
    Plain({store} \cup SaveCutShort(store, s, content))
        \cup Rebuilt(FileWritten(store, s, content))

\* An unlink that fails is passed over: the summary goes, the file stays.
DeleteGoesWrong(store, s) ==
    Plain({store, [store EXCEPT !.index = NoIndex],
           [store EXCEPT !.index = ListChatSessions(store) \ {s}]} \cup DeleteCutShort(store, s))
        \cup Rebuilt(store) \cup Rebuilt(FileRemoved(store, s))

\* A listing of what a rebuild has seen, whether or not it could write it.
ListGoesWrong(store) ==
    UNION {{[list |-> o.store.index, after |-> after] :
               after \in {o} \cup Plain({store, [store EXCEPT !.index = NoIndex]})} :
              o \in Rebuilt(store)}
=============================================================================
