------------------------------- MODULE FileSafety -------------------------------
(***************************************************************************)
(* The safety manager (safety/mod.rs) over the remote files of one server   *)
(* (sftp/mod.rs): backups, the safe patch with its rollback, restores, and  *)
(* the write with a backup that the file editor uses.                       *)
(*                                                                         *)
(* The commands are synchronous and run one at a time; each ssh command, or *)
(* use of the mock tree, is one step.  A restart of the application loses   *)
(* the list of backups and the command under way.  The files of a live      *)
(* server stay; the tree of a mock server is in memory and is seeded anew,  *)
(* its backups gone.                                                        *)
(***************************************************************************)
EXTENDS Naturals, Sequences

CONSTANTS
    File,         \* files the user works on
    Text,         \* texts they may hold
    Big,          \* texts above the 1,000,000 bytes a backup reads
    Invalid,      \* texts that a validation command would refuse
    Crashing,     \* texts with which the service would not reload
    Seeded,       \* text of each file in the tree a mock server is seeded with, or Nothing
    LiveChoices,  \* may the server be live (reached over ssh), a mock, or either?
    LinkFails,    \* may an ssh command that reads or writes a file fail?
    CopyFails,    \* may the copy of an existing file to its backup fail?
    SameSecond,   \* may two backups get the same second?
    OthersWrite,  \* may somebody else write on the server?
    CanRestart,   \* may the application restart?
    MaxTime,      \* bound of the clock, in seconds
    MaxCommands,  \* bound on the commands of a behaviour
    Nothing       \* no command, no text, no path

\* What is left in a file whose here document was cut off.
Garbled == "garbled"

ASSUME TextAssumption ==
    /\ Big \cup Invalid \cup Crashing \subseteq Text
    /\ Garbled \notin Text
    /\ Seeded \in [File -> Text \cup {Nothing}]

ASSUME SwitchAssumption ==
    /\ LiveChoices \subseteq BOOLEAN
    /\ {LinkFails, CopyFails, SameSecond, OthersWrite, CanRestart} \subseteq BOOLEAN
    /\ MaxTime \in Nat /\ MaxCommands \in Nat

\* A file, or a backup of it, named by the second of its creation.
BackupPath == File \X (0 .. MaxTime)
Path == File \cup BackupPath

ASSUME PathAssumption ==
    /\ File \cap BackupPath = {}
    /\ Nothing \notin BackupPath

\* What a path holds: a text, cut at the limit or not, and the newlines that
\* here documents have added.
Content == [text : Text \cup {Garbled}, cut : BOOLEAN, newlines : Nat]

Fresh(text) == [text |-> text, cut |-> FALSE, newlines |-> 0]

NoFile == [absent |-> TRUE]

\* The tree of a mock server when the application starts: files and no backups.
SeedTree == [p \in Path |-> IF p \in File /\ Seeded[p] \in Text THEN Fresh(Seeded[p]) ELSE NoFile]

VARIABLES
    live,       \* is the server live?  (from its id; never changes)
    fs,         \* files on the server (of a mock server: memory)
    records,    \* list of backups (memory), newest first
    command,    \* the command under way, or Nothing (memory)
    result,     \* what the last safe patch answered, or Nothing
    now,        \* clock
    snapshots,  \* history: backups completed in this tree, and what the file held
    begun       \* history: commands begun

vars == <<live, fs, records, command, result, now, snapshots, begun>>

Init ==
    /\ live \in LiveChoices
    /\ IF live
       THEN fs \in {f \in [Path -> {NoFile} \cup {Fresh(t) : t \in Text}] :
                      \A p \in BackupPath : f[p] = NoFile}
       ELSE fs = SeedTree
    /\ records = <<>>
    /\ command = Nothing
    /\ result = Nothing
    /\ now = 0
    /\ snapshots = {}
    /\ begun = 0

-----------------------------------------------------------------------------
(* Remote files *)

\* read_file cuts what is longer than the limit and appends a marker; the cut
\* text is longer than the limit again, so a second cut gives the same.
Cut(content) ==
    IF content.text \in Big THEN [content EXCEPT !.cut = TRUE, !.newlines = 0] ELSE content

\* The here document of a live write ends the text with a newline of its own.
Landed(content) == IF live THEN [content EXCEPT !.newlines = @ + 1] ELSE content

CanRead(p) == fs[p] # NoFile
ReadCanFail(p) == fs[p] = NoFile \/ (live /\ LinkFails)

\* What a write may leave behind and answer.  When ssh fails, the shell may have
\* done nothing, opened (and so emptied) the file, or finished.
Write(p, content, ok) ==
    \/ ok /\ fs' = [fs EXCEPT ![p] = Landed(content)]
    \/ /\ ~ok /\ live /\ LinkFails
       /\ \E left \in {fs[p], Fresh(Garbled), Landed(content)} : fs' = [fs EXCEPT ![p] = left]

-----------------------------------------------------------------------------
(* Commands *)

At(pc) == command # Nothing /\ command.pc = pc
Goto(pc) == command' = [command EXCEPT !.pc = pc]
Return == command' = Nothing

\* Mutant: no stamp.
PlainBackupOf(f) == <<f, 0>>

\* The stamp has a resolution of one second.
BackupOf(f) == <<f, now>>

Fits(f) == SameSecond \/ fs[<<f, now>>] = NoFile

Begin(kind, pc, f) ==
    /\ command = Nothing
    /\ begun < MaxCommands
    /\ begun' = begun + 1
    /\ \E text \in (IF kind \in {"patch", "save", "overwrite"} THEN Text ELSE {Nothing}),
          asked \in (IF kind = "patch" THEN [checked : BOOLEAN, reloads : BOOLEAN, rollback : BOOLEAN]
                     ELSE {[checked |-> FALSE, reloads |-> FALSE, rollback |-> FALSE]}) :
         command' = [kind |-> kind, pc |-> pc, file |-> f, text |-> text, asked |-> asked,
                     path |-> Nothing, was |-> Nothing, held |-> Nothing]
    /\ UNCHANGED <<live, fs, records, result, now, snapshots>>

CreateBackup(f) == Fits(f) /\ Begin("backup", "read", f)

ExecuteSafePatch(f) == Fits(f) /\ Begin("patch", "read", f)

\* sftp_write_file on a live server, with and without create_backup.
WriteFile(f) ==
    /\ live
    /\ \/ Fits(f) /\ Begin("save", "copy", f)
       \/ Begin("overwrite", "store", f)

\* On a mock server both writes are made under one lock.
WriteMockFile(f) ==
    /\ ~live
    /\ Fits(f)
    /\ command = Nothing
    /\ begun < MaxCommands
    /\ begun' = begun + 1
    /\ \E text \in Text :
         fs' = [fs EXCEPT ![BackupOf(f)] = IF CanRead(f) THEN fs[f] ELSE @,
                          ![f] = Fresh(text)]
    /\ snapshots' = snapshots \cup
         IF CanRead(f) THEN {[path |-> BackupOf(f), was |-> fs[f]]} ELSE {}
    /\ UNCHANGED <<live, records, command, result, now>>

\* The user restores a record of the list.
RestoreBackup(i) ==
    /\ command = Nothing
    /\ begun < MaxCommands
    /\ begun' = begun + 1
    /\ command' = [kind |-> "restore", pc |-> "restore_read", file |-> records[i].file,
                   text |-> Nothing,
                   asked |-> [checked |-> FALSE, reloads |-> FALSE, rollback |-> FALSE],
                   path |-> records[i].path, was |-> Nothing, held |-> Nothing]
    /\ UNCHANGED <<live, fs, records, result, now, snapshots>>

Answer(success, rolledBack) ==
    result' = [success |-> success, rolled_back |-> rolledBack, file |-> command.file,
               text |-> command.text, asked |-> command.asked, path |-> command.path]

-----------------------------------------------------------------------------
(* create_backup *)

ReadOriginal ==
    /\ At("read")
    /\ CanRead(command.file)
    /\ command' = [command EXCEPT !.pc = "write_backup", !.was = fs[command.file],
                                  !.held = Cut(fs[command.file]), !.path = BackupOf(command.file)]
    /\ UNCHANGED <<live, fs, records, result, now, snapshots, begun>>

ReadFailed ==
    /\ At("read")
    /\ ReadCanFail(command.file)
    /\ Return
    /\ UNCHANGED <<live, fs, records, result, now, snapshots, begun>>

\* Mutant: the record is inserted and the copy forgotten.
BackupUnwritten ==
    /\ At("write_backup")
    /\ records' = <<[file |-> command.file, path |-> command.path, restored |-> FALSE]>> \o records
    /\ snapshots' = snapshots \cup {[path |-> command.path, was |-> command.was]}
    /\ IF command.kind = "patch" THEN Goto("write") ELSE Return
    /\ UNCHANGED <<live, fs, result, now, begun>>

WriteBackup ==
    /\ At("write_backup")
    /\ Write(command.path, command.held, TRUE)
    /\ records' = <<[file |-> command.file, path |-> command.path, restored |-> FALSE]>> \o records
    /\ snapshots' = snapshots \cup {[path |-> command.path, was |-> command.was]}
    /\ IF command.kind = "patch" THEN Goto("write") ELSE Return
    /\ UNCHANGED <<live, result, now, begun>>

WriteBackupFailed ==
    /\ At("write_backup")
    /\ Write(command.path, command.held, FALSE)
    /\ Return
    /\ UNCHANGED <<live, records, result, now, snapshots, begun>>

-----------------------------------------------------------------------------
(* execute_safe_patch, from the second step on *)

WriteNew ==
    /\ At("write")
    /\ Write(command.file, Fresh(command.text), TRUE)
    /\ Goto("validate")
    /\ UNCHANGED <<live, records, result, now, snapshots, begun>>

WriteNewFailed ==
    /\ At("write")
    /\ Write(command.file, Fresh(command.text), FALSE)
    /\ Answer(FALSE, FALSE)
    /\ Return
    /\ UNCHANGED <<live, records, now, snapshots, begun>>

\* Validation and reload are simulated on a mock server; on a live one neither
\* command is sent and both succeed.
ValidationFails == ~live /\ command.asked.checked /\ command.text \in Invalid
ReloadFails == ~live /\ command.asked.reloads /\ command.text \in Crashing

Validate ==
    /\ At("validate")
    /\ ~ValidationFails
    /\ Goto("reload")
    /\ UNCHANGED <<live, fs, records, result, now, snapshots, begun>>

Reload ==
    /\ At("reload")
    /\ ~ReloadFails
    /\ Answer(TRUE, FALSE)
    /\ Return
    /\ UNCHANGED <<live, fs, records, now, snapshots, begun>>

GiveUp ==
    /\ (At("validate") /\ ValidationFails) \/ (At("reload") /\ ReloadFails)
    /\ IF command.asked.rollback
       THEN Goto("restore_read") /\ UNCHANGED result
       ELSE Return /\ Answer(FALSE, FALSE)
    /\ UNCHANGED <<live, fs, records, now, snapshots, begun>>

-----------------------------------------------------------------------------
(* restore_backup, called by the user or by the patch that gives up *)

\* Mutant: the file is read in place of its backup.
RestoreReadTarget ==
    /\ At("restore_read")
    /\ CanRead(command.file)
    /\ command' = [command EXCEPT !.pc = "restore_write", !.held = Cut(fs[command.file])]
    /\ UNCHANGED <<live, fs, records, result, now, snapshots, begun>>

RestoreRead ==
    /\ At("restore_read")
    /\ CanRead(command.path)
    /\ command' = [command EXCEPT !.pc = "restore_write", !.held = Cut(fs[command.path])]
    /\ UNCHANGED <<live, fs, records, result, now, snapshots, begun>>

\* The patch ignores the outcome: it reports a rollback because one was asked for.
AnswerRestore == IF command.kind = "patch" THEN Answer(FALSE, TRUE) ELSE UNCHANGED result

RestoreWrite ==
    /\ At("restore_write")
    /\ Write(command.file, command.held, TRUE)
    /\ records' = [i \in DOMAIN records |->
         IF records[i].path = command.path THEN [records[i] EXCEPT !.restored = TRUE] ELSE records[i]]
    /\ AnswerRestore
    /\ Return
    /\ UNCHANGED <<live, now, snapshots, begun>>

RestoreFailed ==
    /\ \/ At("restore_read") /\ ReadCanFail(command.path) /\ UNCHANGED fs
       \/ At("restore_write") /\ Write(command.file, command.held, FALSE)
    /\ AnswerRestore
    /\ Return
    /\ UNCHANGED <<live, records, now, snapshots, begun>>

-----------------------------------------------------------------------------
(* sftp_write_file on a live server *)

\* `test -f f && cp f f.bak.<second>` has succeeded.
Copy ==
    /\ At("copy")
    /\ CanRead(command.file)
    /\ fs' = [fs EXCEPT ![BackupOf(command.file)] = fs[command.file]]
    /\ snapshots' = snapshots \cup {[path |-> BackupOf(command.file), was |-> fs[command.file]]}
    /\ command' = [command EXCEPT !.pc = "store", !.path = BackupOf(command.file),
                                  !.was = fs[command.file]]
    /\ UNCHANGED <<live, records, result, now, begun>>

\* Any failure of the command counts as a file that does not exist yet.
CopyFailed ==
    /\ At("copy")
    /\ ~CanRead(command.file) \/ CopyFails
    /\ command' = [command EXCEPT !.pc = "store", !.was = fs[command.file]]
    /\ UNCHANGED <<live, fs, records, result, now, snapshots, begun>>

Store ==
    /\ At("store")
    /\ \E ok \in BOOLEAN : Write(command.file, Fresh(command.text), ok)
    /\ Return
    /\ UNCHANGED <<live, records, result, now, snapshots, begun>>

-----------------------------------------------------------------------------
(* Everything else *)

DeleteFile(f) ==
    /\ command = Nothing
    /\ begun < MaxCommands
    /\ begun' = begun + 1
    /\ CanRead(f)
    /\ fs' = [fs EXCEPT ![f] = NoFile]
    /\ UNCHANGED <<live, records, command, result, now, snapshots>>

\* An administrator, or a package manager, on the server itself.
OtherWrites(f, text) ==
    /\ OthersWrite /\ live
    /\ fs' = [fs EXCEPT ![f] = Fresh(text)]
    /\ UNCHANGED <<live, records, command, result, now, snapshots, begun>>

\* SftpManager::new seeds the mock trees and SafetyManager::new an empty list.
Restart ==
    /\ CanRestart
    /\ records' = <<>>
    /\ command' = Nothing
    /\ result' = Nothing
    /\ IF live
       THEN UNCHANGED <<fs, snapshots>>
       ELSE fs' = SeedTree /\ snapshots' = {}
    /\ UNCHANGED <<live, now, begun>>

Tick ==
    /\ now < MaxTime
    /\ now' = now + 1
    /\ UNCHANGED <<live, fs, records, command, result, snapshots, begun>>

BackupStep == ReadOriginal \/ ReadFailed \/ WriteBackup \/ WriteBackupFailed
PatchStep == WriteNew \/ WriteNewFailed \/ Validate \/ Reload \/ GiveUp
RestoreStep == RestoreRead \/ RestoreWrite \/ RestoreFailed
SaveStep == Copy \/ CopyFailed \/ Store

Next ==
    \/ \E f \in File : CreateBackup(f) \/ ExecuteSafePatch(f) \/ WriteFile(f)
                    \/ WriteMockFile(f) \/ DeleteFile(f)
    \/ \E i \in DOMAIN records : RestoreBackup(i)
    \/ BackupStep \/ PatchStep \/ RestoreStep \/ SaveStep
    \/ \E f \in File, text \in Text : OtherWrites(f, text)
    \/ Restart
    \/ Tick

Spec == Init /\ [][Next]_vars

-----------------------------------------------------------------------------
(* Properties *)

Asked == [checked : BOOLEAN, reloads : BOOLEAN, rollback : BOOLEAN]

Command == [kind : {"backup", "patch", "restore", "save", "overwrite"},
            pc : {"read", "write_backup", "write", "validate", "reload",
                  "restore_read", "restore_write", "copy", "store"},
            file : File, text : Text \cup {Nothing}, asked : Asked,
            path : BackupPath \cup {Nothing},
            was : Content \cup {NoFile, Nothing}, held : Content \cup {Nothing}]

Result == [success : BOOLEAN, rolled_back : BOOLEAN, file : File, text : Text,
           asked : Asked, path : BackupPath]

\* Files, records, the command and the histories hold what their types say.
TypeOK ==
    /\ live \in BOOLEAN
    /\ fs \in [Path -> Content \cup {NoFile}]
    /\ records \in Seq([file : File, path : BackupPath, restored : BOOLEAN])
    /\ command \in Command \cup {Nothing}
    /\ result \in Result \cup {Nothing}
    /\ now \in 0 .. MaxTime
    /\ snapshots \subseteq [path : BackupPath, was : Content]
    /\ begun \in 0 .. MaxCommands

\* The same text, and all of it unless it is above the limit: then at least what
\* the limit leaves of it.  Trailing newlines do not count.
Same(c, d) == c # NoFile /\ c.text = d.text /\ (c.cut = d.cut \/ d.text \in Big)

\* USER_MANUAL 5.2: a backup is a snapshot.  Once it is made it goes on holding
\* what the file held, up to the limit, whatever is written, restored, lost or
\* crashes later: on a live server over restarts too, on a mock server until the
\* application ends and its tree with it.
SnapshotsKept == \A s \in snapshots : Same(fs[s.path], s.was)

\* What a safe patch or a save with a backup overwrites is in its backup at that
\* moment, whether or not the write then succeeds.  What somebody else wrote since
\* the command read the file is not covered: the code does not look again.
OverwriteKeepsOld ==
    [][\A f \in File :
         /\ At("write") \/ (At("store") /\ command.kind = "save")
         /\ command' # command /\ f = command.file
         /\ fs[f] # NoFile /\ fs[f] = command.was /\ fs'[f] # fs[f]
         => command.path # Nothing /\ Same(fs[command.path], fs[f])]_vars

\* Restoring a listed backup brings back what its file held when it was made,
\* though others write, writes fail and backups are made in between.
RestoreBringsBack ==
    [][At("restore_write") /\ records' \notin {records, <<>>}
         => \E s \in snapshots : s.path = command.path /\ Same(fs'[command.file], s.was)]_vars

\* A safe patch that reports a rollback has put back what it found, whichever
\* step made it give up (the restore's own outcome is ignored by the code).
RolledBackRestored ==
    [][result' # result /\ result' # Nothing /\ result'.rolled_back
         => \E s \in snapshots : s.path = result'.path /\ Same(fs'[result'.file], s.was)]_vars

=============================================================================
