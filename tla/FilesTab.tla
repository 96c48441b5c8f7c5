------------------------------ MODULE FilesTab ------------------------------
(***************************************************************************)
(* The two-pane file manager of the desktop interface                      *)
(* (views/FilesView.tsx).  The remote pane lists a directory of the active *)
(* server; the local pane never leaves the page's own map of files, even   *)
(* inside the application.  Hidden-file filters and the layout switch are  *)
(* left out, and a file's content is a version.                            *)
(***************************************************************************)
EXTENDS DesktopCore

Dirs == {p[1] : p \in RemotePaths}
NoEntry == [path |-> << "", "" >>, of |-> NoServer]
NoListing == [of |-> NoServer, dir |-> "", names |-> {}]
ClosedEditor == [on |-> FALSE]

\* State of the component: directory, listing, selected entries, the editor
\* and the dialogs; "rush" records that the operator went on, here or in the
\* header, while an answer to this view was outstanding.
FreshFiles(mount) ==
  [mount |-> mount, dir |-> CHOOSE d \in Dirs : TRUE, list |-> NoListing,
   sel |-> NoEntry, localSel |-> "", edit |-> ClosedEditor, del |-> NoEntry,
   folder |-> FALSE, saving |-> FALSE, ai |-> "closed", rush |-> FALSE]

Files == tabs["Files"]

\* The editor and the dialogs cover the window, the header included.
Covered ==
  Files.edit.on \/ Files.del # NoEntry \/ Files.folder \/ Files.ai # "closed"

FilesCall(op, x, k, e) == Call(op, x, k, e, "Files")
ListingCall(mount, server, dir, closes) ==
  [op |-> "sftpListDirectory", x |-> [server |-> server, dir |-> dir],
   k |-> "directory", e |-> closes, on |-> mount]

\* Has the operator gone on while an answer to the view was outstanding, or
\* App's servers were about to change?
Rushed == Files.rush \/ Outstanding(Files.mount) \/ AppUnsettled

\* A step of the operator in this view.
FilesDoes(new, calls) == Does("Files", [new EXCEPT !.rush = Rushed], calls)

\* The rest of an operation on path, in the server and the directory the
\* handler started with.  "shown" is history: what was on screen.
Rest(shown, closes) ==
  [server |-> ActiveServer, dir |-> Files.dir, closes |-> closes,
   shown |-> shown, rush |-> Rushed]
ShownListing == [of |-> Files.list.of, path |-> << Files.list.dir, "" >>]

\* On mount, and whenever the server or the directory changes.
FilesEffect(mount, server, dir) == << ListingCall(mount, server, dir, "none") >>

\* What an answered listing shows; it also ends the operation that asked.
DirectoryListed ==
  /\ Awaited("directory")
  /\ LET c == Head(queue) IN
     \E r \in Answers(c) :
       LET shown == [Files EXCEPT !.list = r.val, !.sel = NoEntry]
           new == CASE c.e = "none" -> shown
                    [] c.e = "editor" ->
                         [shown EXCEPT !.edit = ClosedEditor, !.saving = FALSE]
                    [] c.e = "dialog" -> [shown EXCEPT !.del = NoEntry]
                    [] c.e = "folder" -> [shown EXCEPT !.folder = FALSE]
       IN /\ Take(r, <<>>)
          /\ tabs' = IF Live(c, "Files") THEN [tabs EXCEPT !["Files"] = new]
                     ELSE tabs
  /\ UNCHANGED app

-----------------------------------------------------------------------------
(* The panes *)

Navigate(dir) ==
  /\ Open("Files") /\ ~Covered /\ dir # Files.dir
  /\ FilesDoes([Files EXCEPT !.dir = dir],
               FilesEffect(Files.mount, ActiveServer, dir))

SelectRemote(name) ==
  /\ Open("Files") /\ ~Covered /\ name \in Files.list.names
  /\ FilesDoes([Files EXCEPT !.sel = [path |-> << Files.list.dir, name >>,
                                      of |-> Files.list.of]], <<>>)

SelectLocal(name) ==
  /\ Open("Files") /\ ~Covered
  /\ FilesDoes([Files EXCEPT !.localSel = name], <<>>)

\* A double click selects the row and reads the file in the background; the
\* editor opens over whatever is shown by then.
OpenFile(name) ==
  LET entry == [path |-> << Files.list.dir, name >>, of |-> Files.list.of]
  IN /\ Open("Files") /\ ~Covered /\ name \in Files.list.names
     /\ FilesDoes([Files EXCEPT !.sel = entry],
                  << FilesCall("sftpReadFile",
                       [server |-> ActiveServer, path |-> entry.path],
                       "opened", entry) >>)

FileOpened ==
  /\ Awaited("opened")
  /\ LET c == Head(queue) IN
     \E r \in Answers(c) :
       /\ Take(r, <<>>)
       /\ tabs' = IF Live(c, "Files") /\ r.val.text # Missing
                  THEN [tabs EXCEPT !["Files"].edit =
                          [on |-> TRUE, path |-> c.e.path, of |-> c.e.of,
                           text |-> r.val.text, cut |-> r.val.cut,
                           backup |-> TRUE]]
                  ELSE tabs
  /\ UNCHANGED app

-----------------------------------------------------------------------------
(* The editor *)

Editing == Open("Files") /\ Files.edit.on /\ ~Files.saving /\ Files.del = NoEntry

EditText ==
  /\ Editing /\ Files.ai = "closed"
  /\ FilesDoes([Files EXCEPT !.edit.text = "edited"], <<>>)

SwitchBackup ==
  /\ Editing /\ Files.ai = "closed"
  /\ FilesDoes([Files EXCEPT !.edit.backup = ~@], <<>>)

CloseEditor ==
  /\ Editing /\ Files.ai = "closed"
  /\ FilesDoes([Files EXCEPT !.edit = ClosedEditor], <<>>)

\* The assistant's suggestion arrives by a timer and can be appended.
SuggestPatch ==
  /\ Editing /\ Files.ai = "closed"
  /\ FilesDoes([Files EXCEPT !.ai = "thinking"], <<>>)

PatchSuggested ==
  /\ Open("Files") /\ Files.ai = "thinking"
  /\ tabs' = [tabs EXCEPT !["Files"].ai = "patch"]
  /\ UNCHANGED << tauri, store, faults, queue, app, acts >>

ApplyPatch ==
  /\ Editing /\ Files.ai = "patch"
  /\ FilesDoes([Files EXCEPT !.edit.text = "patched", !.ai = "closed"], <<>>)

\* Saving writes the editor's text to the file's path on the server that is
\* active now; the listing follows, then the editor closes.
SaveFile ==
  /\ Editing /\ Files.ai = "closed"
  /\ FilesDoes([Files EXCEPT !.saving = TRUE],
       << FilesCall("sftpWriteFile",
            [server |-> ActiveServer, path |-> Files.edit.path,
             text |-> Files.edit.text, backup |-> Files.edit.backup],
            "written", Rest([of |-> Files.edit.of, path |-> Files.edit.path],
                            "editor")) >>)

\* Any remote change is followed by a new listing, from the values the
\* handler started with.
Written ==
  /\ Awaited("written")
  /\ LET c == Head(queue) IN
     \E r \in Answers(c) :
       Take(r, << ListingCall(c.on, c.e.server, c.e.dir, c.e.closes) >>)
  /\ UNCHANGED << app, tabs >>

-----------------------------------------------------------------------------
(* Transfers, deletion and new folders *)

Upload ==
  /\ Open("Files") /\ ~Covered /\ Files.localSel # ""
  /\ FilesDoes(Files,
       << FilesCall("sftpWriteFile",
            [server |-> ActiveServer, path |-> << Files.dir, Files.localSel >>,
             text |-> "local", backup |-> TRUE],
            "written", Rest(ShownListing, "none")) >>)

\* The read has the default limit: a longer file arrives cut.
Download ==
  /\ Open("Files") /\ ~Covered /\ Files.sel # NoEntry
  /\ FilesDoes(Files,
       << FilesCall("sftpReadFile",
            [server |-> ActiveServer, path |-> Files.sel.path],
            "downloaded", 0) >>)

Downloaded ==
  /\ Awaited("downloaded")
  /\ \E r \in Answers(Head(queue)) : Take(r, <<>>)
  /\ UNCHANGED << app, tabs >>

AskDelete ==
  /\ Open("Files") /\ ~Covered /\ Files.sel # NoEntry
  /\ FilesDoes([Files EXCEPT !.del = Files.sel], <<>>)

CancelDelete ==
  /\ Open("Files") /\ Files.del # NoEntry
  /\ FilesDoes([Files EXCEPT !.del = NoEntry], <<>>)

ConfirmDelete ==
  /\ Open("Files") /\ Files.del # NoEntry
  /\ FilesDoes(Files,
       << FilesCall("sftpDeleteFile",
            [server |-> ActiveServer, path |-> Files.del.path],
            "written", Rest(Files.del, "dialog")) >>)

AskFolder ==
  /\ Open("Files") /\ ~Covered
  /\ FilesDoes([Files EXCEPT !.folder = TRUE], <<>>)

CreateFolder ==
  /\ Open("Files") /\ Files.folder
  /\ FilesDoes(Files,
       << FilesCall("sftpCreateDirectory",
            [server |-> ActiveServer, path |-> << Files.dir, "new" >>],
            "written", Rest(ShownListing, "folder")) >>)

-----------------------------------------------------------------------------
FilesOperator ==
  \/ \E d \in Dirs : Navigate(d)
  \/ \E p \in RemotePaths :
       SelectRemote(p[2]) \/ SelectLocal(p[2]) \/ OpenFile(p[2])
  \/ EditText \/ SwitchBackup \/ CloseEditor \/ SuggestPatch
  \/ ApplyPatch \/ SaveFile \/ Upload \/ Download \/ AskDelete
  \/ CancelDelete \/ ConfirmDelete \/ AskFolder \/ CreateFolder

FilesAnswer ==
  DirectoryListed \/ FileOpened \/ Written \/ Downloaded \/ PatchSuggested
=============================================================================
