---------------------------- MODULE FileSafetyProofs ----------------------------
(* Proofs about backups, patches and restores, for every value of the constants. *)
EXTENDS FileSafety, TLAPS

\* What each step of a command may count on.
CommandFits ==
    command # Nothing =>
        /\ command.kind \in {"patch", "save", "overwrite"} => command.text \in Text
        /\ command.pc = "read" => command.kind \in {"backup", "patch"}
        /\ command.pc = "write_backup" =>
             /\ command.kind \in {"backup", "patch"}
             /\ command.path \in BackupPath
             /\ command.was \in Content /\ command.held = Cut(command.was)
        /\ command.pc \in {"write", "validate", "reload"} =>
             command.kind = "patch" /\ command.path \in BackupPath
        /\ command.pc = "write" => command.was \in Content
        /\ command.pc \in {"restore_read", "restore_write"} =>
             command.kind \in {"patch", "restore"} /\ command.path \in BackupPath
        /\ command.pc = "restore_write" => command.held \in Content
        /\ command.pc = "copy" => command.kind = "save"
        /\ command.pc = "store" => command.kind \in {"save", "overwrite"}

TypeInv == TypeOK /\ CommandFits

IsSnapshot(path) == \E s \in snapshots : s.path = path

\* The backups of the coming seconds do not exist yet.
FutureFree == \A f \in File, t \in 0 .. MaxTime : t > now => fs[<<f, t>>] = NoFile

\* The path a command is about to write a backup to is free, and what it will
\* overwrite, or put back, is in a snapshot.
CommandKeeps ==
    command # Nothing =>
        /\ command.pc \in {"read", "copy"} => fs[<<command.file, now>>] = NoFile
        /\ command.pc = "write_backup" =>
             /\ fs[command.path] = NoFile
             /\ \E t \in 0 .. now : command.path = <<command.file, t>>
        /\ command.pc = "write" => [path |-> command.path, was |-> command.was] \in snapshots
        /\ command.pc \in {"validate", "reload", "restore_read"} => IsSnapshot(command.path)
        /\ command.pc = "restore_write" =>
             \E s \in snapshots : s.path = command.path /\ Same(command.held, s.was)
        /\ command.pc \in {"restore_read", "restore_write"} /\ command.kind = "patch" => ~live

RecordsKeep == \A i \in DOMAIN records : IsSnapshot(records[i].path)

\* The inductive invariant of the backups.
KeepInv ==
    /\ SnapshotsKept
    /\ FutureFree
    /\ RecordsKeep
    /\ CommandKeeps

\* The save with a backup has one, unless there was no file.
SaveKeeps ==
    command # Nothing /\ command.pc = "store" /\ command.kind = "save" /\ command.was # NoFile
        => [path |-> command.path, was |-> command.was] \in snapshots

-----------------------------------------------------------------------------
(* What is read and written *)

\* A text that was just written, or what a broken write left, is a content.
LEMMA FreshContent == \A text \in Text \cup {Garbled} : Fresh(text) \in Content
  BY DEF Fresh, Content

\* Reading with the limit gives a content.
LEMMA CutContent == \A c \in Content : Cut(c) \in Content
  <1> SUFFICES ASSUME NEW c \in Content PROVE Cut(c) \in Content
    OBVIOUS
  <1>1. [c EXCEPT !.cut = TRUE, !.newlines = 0] \in Content
    BY DEF Content
  <1> QED BY <1>1 DEF Cut

\* A path that holds something holds a file.
LEMMA ContentIsFile == NoFile \notin Content
  <1> SUFFICES ASSUME NoFile \in Content PROVE FALSE
    OBVIOUS
  <1>1. DOMAIN NoFile = {"text", "cut", "newlines"}
    BY DEF Content
  <1>2. DOMAIN NoFile = {"absent"}
    BY DEF NoFile
  <1> QED BY <1>1, <1>2

\* What lands is the text that was written, and all of it.
LEMMA LandedContent ==
    \A c \in Content : Landed(c) \in Content /\ Same(Landed(c), c)
  <1> SUFFICES ASSUME NEW c \in Content PROVE Landed(c) \in Content /\ Same(Landed(c), c)
    OBVIOUS
  <1>1. [c EXCEPT !.newlines = @ + 1] \in Content
    BY DEF Content
  <1>2. c # NoFile /\ [c EXCEPT !.newlines = @ + 1] # NoFile
    BY <1>1, ContentIsFile
  <1> QED BY <1>1, <1>2 DEF Landed, Same, Content

\* The tree a mock server is seeded with holds files and no backups.
LEMMA SeedFits ==
    /\ SeedTree \in [Path -> Content \cup {NoFile}]
    /\ \A f \in File, t \in 0 .. MaxTime : SeedTree[<<f, t>>] = NoFile
  <1>1. SeedTree \in [Path -> Content \cup {NoFile}]
    <2>1. \A p \in Path : SeedTree[p] \in Content \cup {NoFile}
      BY FreshContent DEF SeedTree
    <2> QED BY <2>1 DEF SeedTree
  <1>2. ASSUME NEW f \in File, NEW t \in 0 .. MaxTime PROVE SeedTree[<<f, t>>] = NoFile
    <2>1. <<f, t>> \in BackupPath /\ <<f, t>> \in Path
      BY DEF BackupPath, Path
    <2> QED BY <2>1, PathAssumption DEF SeedTree
  <1> QED BY <1>1, <1>2

\* A write changes one path and, if it succeeds, leaves what was to land.
LEMMA Written ==
    ASSUME fs \in [Path -> Content \cup {NoFile}],
           NEW p \in Path, NEW c \in Content, NEW ok \in BOOLEAN, Write(p, c, ok)
    PROVE  /\ fs' \in [Path -> Content \cup {NoFile}]
           /\ \A q \in Path : q # p => fs'[q] = fs[q]
           /\ ok => fs'[p] = Landed(c)
           /\ ~ok => live
  <1>1. CASE ok /\ fs' = [fs EXCEPT ![p] = Landed(c)]
    BY <1>1, LandedContent
  <1>2. CASE /\ ~ok /\ live /\ LinkFails
             /\ \E left \in {fs[p], Fresh(Garbled), Landed(c)} : fs' = [fs EXCEPT ![p] = left]
    <2>1. fs[p] \in Content \cup {NoFile} /\ Fresh(Garbled) \in Content /\ Landed(c) \in Content
      BY LandedContent, FreshContent
    <2> QED BY <1>2, <2>1
  <1> QED BY <1>1, <1>2 DEF Write

-----------------------------------------------------------------------------
(* Types *)

\* The files found at launch, and nothing under way.
LEMMA TypeInit == Init => TypeInv
  <1> SUFFICES ASSUME Init PROVE TypeInv
    OBVIOUS
  <1>1. fs \in [Path -> Content \cup {NoFile}]
    BY FreshContent, SeedFits DEF Init
  <1>2. now \in 0 .. MaxTime /\ begun \in 0 .. MaxCommands /\ live \in BOOLEAN
    BY SwitchAssumption DEF Init
  <1> QED BY <1>1, <1>2 DEF Init, TypeInv, TypeOK, CommandFits

\* The stamp of a backup is within the clock.
LEMMA BackupOfPath == now \in 0 .. MaxTime => \A f \in File : BackupOf(f) \in BackupPath
  BY DEF BackupOf, BackupPath

\* A command that begins.
LEMMA TypeBegin ==
    ASSUME TypeInv, NEW f \in File,
           NEW kind \in {"backup", "patch", "save", "overwrite"},
           NEW pc \in {"read", "copy", "store"},
           kind \in {"backup", "patch"} <=> pc = "read",
           kind = "save" <=> pc = "copy",
           Begin(kind, pc, f)
    PROVE  TypeInv'
  <1>1. PICK text \in Text \cup {Nothing}, asked \in Asked :
          /\ kind \in {"patch", "save", "overwrite"} => text \in Text
          /\ command' = [kind |-> kind, pc |-> pc, file |-> f, text |-> text, asked |-> asked,
                         path |-> Nothing, was |-> Nothing, held |-> Nothing]
    BY DEF Begin, Asked
  <1>2. command' \in Command
    BY <1>1 DEF Command
  <1>3. begun' \in 0 .. MaxCommands
    BY SwitchAssumption DEF Begin, TypeInv, TypeOK
  <1>4. CommandFits'
    BY <1>1 DEF CommandFits
  <1> QED BY <1>2, <1>3, <1>4 DEF Begin, TypeInv, TypeOK

Record == [file : File, path : BackupPath, restored : BOOLEAN]

\* The list of backups holds records.
LEMMA RecordsFit ==
    ASSUME TypeOK PROVE \A i \in DOMAIN records : records[i] \in Record
  <1>1. records \in Seq(Record)
    BY DEF TypeOK, Record
  <1> QED BY <1>1

\* A command that the user begins, or one that is over at once.
LEMMA TypeUser ==
    ASSUME TypeInv,
           \/ \E f \in File : CreateBackup(f) \/ ExecuteSafePatch(f) \/ WriteFile(f)
                           \/ WriteMockFile(f) \/ DeleteFile(f)
           \/ \E i \in DOMAIN records : RestoreBackup(i)
    PROVE  TypeInv'
  <1>1. ASSUME NEW f \in File, CreateBackup(f) \/ ExecuteSafePatch(f) \/ WriteFile(f)
        PROVE  TypeInv'
    <2>1. Begin("backup", "read", f) \/ Begin("patch", "read", f)
            \/ Begin("save", "copy", f) \/ Begin("overwrite", "store", f)
      BY <1>1 DEF CreateBackup, ExecuteSafePatch, WriteFile
    <2> QED BY <2>1, TypeBegin
  <1>2. ASSUME NEW f \in File, WriteMockFile(f) PROVE TypeInv'
    <2> DEFINE b == BackupOf(f)
    <2>1. b \in BackupPath
      BY BackupOfPath DEF TypeInv, TypeOK
    <2>2. PICK text \in Text : fs' = [fs EXCEPT ![b] = IF CanRead(f) THEN fs[f] ELSE @,
                                                ![f] = Fresh(text)]
      BY <1>2 DEF WriteMockFile
    <2>3. f \in Path /\ b \in Path
      BY <2>1 DEF Path
    <2>4. fs' \in [Path -> Content \cup {NoFile}]
      <3> HIDE DEF b
      <3> QED BY <2>2, <2>3, FreshContent DEF TypeInv, TypeOK
    <2>5. snapshots' \subseteq [path : BackupPath, was : Content]
      <3>1. CanRead(f) => fs[f] \in Content
        BY <2>3 DEF CanRead, TypeInv, TypeOK
      <3> QED BY <1>2, <2>1, <3>1 DEF WriteMockFile, TypeInv, TypeOK
    <2>6. begun' \in 0 .. MaxCommands
      BY <1>2, SwitchAssumption DEF WriteMockFile, TypeInv, TypeOK
    <2> QED BY <1>2, <2>4, <2>5, <2>6 DEF WriteMockFile, TypeInv, TypeOK, CommandFits
  <1>3. ASSUME NEW f \in File, DeleteFile(f) PROVE TypeInv'
    <2>1. fs' \in [Path -> Content \cup {NoFile}]
      BY <1>3 DEF DeleteFile, TypeInv, TypeOK
    <2>2. begun' \in 0 .. MaxCommands
      BY <1>3, SwitchAssumption DEF DeleteFile, TypeInv, TypeOK
    <2> QED BY <1>3, <2>1, <2>2 DEF DeleteFile, TypeInv, TypeOK, CommandFits
  <1>4. ASSUME NEW i \in DOMAIN records, RestoreBackup(i) PROVE TypeInv'
    <2>1. records[i] \in Record
      BY RecordsFit DEF TypeInv
    <2>2. command' \in Command
      BY <1>4, <2>1 DEF RestoreBackup, Command, Asked, Record
    <2>3. CommandFits'
      BY <1>4, <2>1 DEF RestoreBackup, CommandFits, Record
    <2>4. begun' \in 0 .. MaxCommands
      BY <1>4, SwitchAssumption DEF RestoreBackup, TypeInv, TypeOK
    <2> QED BY <1>4, <2>2, <2>3, <2>4 DEF RestoreBackup, TypeInv, TypeOK
  <1> QED BY <1>1, <1>2, <1>3, <1>4

\* A command under way works on paths of the server.
LEMMA CommandPaths ==
    ASSUME TypeInv, command # Nothing
    PROVE  /\ command \in Command
           /\ command.file \in File /\ command.file \in Path
           /\ command.path \in BackupPath => command.path \in Path
  BY DEF TypeInv, TypeOK, Command, Path

\* The steps of create_backup keep the types.
LEMMA TypeBackup == ASSUME TypeInv, BackupStep PROVE TypeInv'
  <1>1. CASE ReadOriginal
    <2>1. command \in Command /\ command.pc = "read" /\ command.file \in Path
      BY <1>1, CommandPaths DEF ReadOriginal, At
    <2>2. fs[command.file] \in Content
      BY <1>1, <2>1 DEF ReadOriginal, CanRead, TypeInv, TypeOK
    <2>3. Cut(fs[command.file]) \in Content /\ BackupOf(command.file) \in BackupPath
      BY <2>1, <2>2, CutContent, BackupOfPath DEF TypeInv, TypeOK, Command
    <2>4. command' \in Command
      BY <1>1, <2>1, <2>2, <2>3 DEF ReadOriginal, Command
    <2>5. CommandFits'
      <3>1. command.kind \in {"backup", "patch"}
              /\ (command.kind = "patch" => command.text \in Text)
        BY <1>1, <2>1 DEF ReadOriginal, At, TypeInv, CommandFits
      <3>2. /\ command'.pc = "write_backup" /\ command'.kind = command.kind
            /\ command'.text = command.text /\ command'.path = BackupOf(command.file)
            /\ command'.was = fs[command.file] /\ command'.held = Cut(command'.was)
        BY <1>1, <2>1 DEF ReadOriginal, Command
      <3> QED BY <2>2, <2>3, <3>1, <3>2 DEF CommandFits, Cut
    <2> QED BY <1>1, <2>4, <2>5 DEF ReadOriginal, TypeInv, TypeOK
  <1>2. CASE ReadFailed
    BY <1>2 DEF ReadFailed, Return, TypeInv, TypeOK, CommandFits
  <1>3. CASE WriteBackup
    <2>1. /\ command \in Command /\ command.pc = "write_backup"
          /\ command.kind \in {"backup", "patch"} /\ command.path \in BackupPath
          /\ command.path \in Path
          /\ command.was \in Content /\ command.held \in Content
      BY <1>3, CommandPaths, CutContent DEF WriteBackup, At, TypeInv, CommandFits
    <2>2. fs' \in [Path -> Content \cup {NoFile}]
      BY <1>3, <2>1, Written DEF WriteBackup, TypeInv, TypeOK
    <2>3. records' \in Seq([file : File, path : BackupPath, restored : BOOLEAN])
      <3>1. [file |-> command.file, path |-> command.path, restored |-> FALSE] \in Record
        BY <2>1 DEF Record, Command
      <3>2. records \in Seq(Record)
        BY DEF TypeInv, TypeOK, Record
      <3>3. records' \in Seq(Record)
        BY <1>3, <3>1, <3>2 DEF WriteBackup
      <3> QED BY <3>3 DEF Record
    <2>4. snapshots' \subseteq [path : BackupPath, was : Content]
      BY <1>3, <2>1 DEF WriteBackup, TypeInv, TypeOK
    <2>5. command' \in Command \cup {Nothing} /\ CommandFits'
      <3>1. CASE command.kind = "patch"
        <4>1. command' = [command EXCEPT !.pc = "write"]
          BY <1>3, <3>1 DEF WriteBackup, Goto
        <4>2. command' \in Command
          BY <4>1, <2>1 DEF Command
        <4>3. command.text \in Text
          BY <1>3, <3>1 DEF WriteBackup, At, TypeInv, CommandFits
        <4> QED BY <3>1, <4>1, <4>2, <4>3, <2>1 DEF Command, CommandFits
      <3>2. CASE command.kind # "patch"
        BY <1>3, <3>2 DEF WriteBackup, Return, CommandFits
      <3> QED BY <3>1, <3>2
    <2> QED BY <1>3, <2>2, <2>3, <2>4, <2>5 DEF WriteBackup, TypeInv, TypeOK
  <1>4. CASE WriteBackupFailed
    <2>1. command.path \in Path /\ command.held \in Content
      BY <1>4, CommandPaths, CutContent DEF WriteBackupFailed, At, TypeInv, CommandFits
    <2>2. fs' \in [Path -> Content \cup {NoFile}]
      BY <1>4, <2>1, Written DEF WriteBackupFailed, TypeInv, TypeOK
    <2> QED BY <1>4, <2>2 DEF WriteBackupFailed, Return, TypeInv, TypeOK, CommandFits
  <1> QED BY <1>1, <1>2, <1>3, <1>4 DEF BackupStep

\* What a safe patch answers.
LEMMA TypeAnswer ==
    ASSUME TypeInv, command # Nothing, command.kind = "patch", command.path \in BackupPath,
           NEW success \in BOOLEAN, NEW rolledBack \in BOOLEAN, Answer(success, rolledBack)
    PROVE  result' \in Result \cup {Nothing}
  <1>1. command \in Command /\ command.text \in Text
    BY DEF TypeInv, TypeOK, CommandFits
  <1> QED BY <1>1 DEF Answer, Result, Command

\* The command under way goes on to another step of the same patch.
LEMMA TypeGoto ==
    ASSUME TypeInv, command # Nothing, command.kind = "patch", command.path \in BackupPath,
           NEW pc \in {"validate", "reload", "restore_read"}, Goto(pc)
    PROVE  command' \in Command /\ CommandFits'
  <1>1. command \in Command /\ command.text \in Text
    BY DEF TypeInv, TypeOK, CommandFits
  <1>2. /\ command'.pc = pc /\ command'.kind = "patch" /\ command'.text \in Text
        /\ command'.path \in BackupPath
    BY <1>1 DEF Goto, Command
  <1>3. command' \in Command
    BY <1>1 DEF Goto, Command
  <1> QED BY <1>2, <1>3 DEF CommandFits

\* The later steps of execute_safe_patch keep the types.
LEMMA TypePatch == ASSUME TypeInv, PatchStep PROVE TypeInv'
  <1>1. /\ command # Nothing /\ command \in Command /\ command.kind = "patch"
        /\ command.path \in BackupPath /\ command.text \in Text
    BY DEF PatchStep, WriteNew, WriteNewFailed, Validate, Reload, GiveUp, At,
           TypeInv, TypeOK, CommandFits
  <1>2. command.file \in Path /\ Fresh(command.text) \in Content
    BY <1>1, CommandPaths, FreshContent
  <1>3. CASE WriteNew
    <2>1. fs' \in [Path -> Content \cup {NoFile}]
      BY <1>2, <1>3, Written DEF WriteNew, TypeInv, TypeOK
    <2>2. command' \in Command /\ CommandFits'
      BY <1>1, <1>3, TypeGoto DEF WriteNew
    <2> QED BY <1>3, <2>1, <2>2 DEF WriteNew, TypeInv, TypeOK
  <1>4. CASE WriteNewFailed
    <2>1. fs' \in [Path -> Content \cup {NoFile}]
      BY <1>2, <1>4, Written DEF WriteNewFailed, TypeInv, TypeOK
    <2>2. result' \in Result \cup {Nothing}
      BY <1>1, <1>4, TypeAnswer DEF WriteNewFailed
    <2> QED BY <1>4, <2>1, <2>2 DEF WriteNewFailed, Return, TypeInv, TypeOK, CommandFits
  <1>5. CASE Validate
    <2>1. command' \in Command /\ CommandFits'
      BY <1>1, <1>5, TypeGoto DEF Validate
    <2> QED BY <1>5, <2>1 DEF Validate, TypeInv, TypeOK
  <1>6. CASE Reload
    <2>1. result' \in Result \cup {Nothing}
      BY <1>1, <1>6, TypeAnswer DEF Reload
    <2> QED BY <1>6, <2>1 DEF Reload, Return, TypeInv, TypeOK, CommandFits
  <1>7. CASE GiveUp
    <2>1. CASE Goto("restore_read") /\ UNCHANGED result
      <3>1. command' \in Command /\ CommandFits'
        BY <1>1, <2>1, TypeGoto
      <3> QED BY <1>7, <2>1, <3>1 DEF GiveUp, TypeInv, TypeOK
    <2>2. CASE Return /\ Answer(FALSE, FALSE)
      <3>1. result' \in Result \cup {Nothing}
        BY <1>1, <2>2, TypeAnswer
      <3> QED BY <1>7, <2>2, <3>1 DEF GiveUp, Return, TypeInv, TypeOK, CommandFits
    <2> QED BY <1>7, <2>1, <2>2 DEF GiveUp
  <1> QED BY <1>3, <1>4, <1>5, <1>6, <1>7 DEF PatchStep

\* Only the rollback of a patch answers.
LEMMA TypeAnswerRestore ==
    ASSUME TypeInv, command # Nothing, command.kind \in {"patch", "restore"},
           command.path \in BackupPath, AnswerRestore
    PROVE  result' \in Result \cup {Nothing}
  <1>1. CASE command.kind = "patch"
    BY <1>1, TypeAnswer DEF AnswerRestore
  <1>2. CASE command.kind # "patch"
    BY <1>2 DEF AnswerRestore, TypeInv, TypeOK
  <1> QED BY <1>1, <1>2

\* The steps of restore_backup keep the types.
LEMMA TypeRestore == ASSUME TypeInv, RestoreStep PROVE TypeInv'
  <1>1. /\ command # Nothing /\ command \in Command
        /\ command.kind \in {"patch", "restore"} /\ command.path \in BackupPath
    BY DEF RestoreStep, RestoreRead, RestoreWrite, RestoreFailed, At, TypeInv, TypeOK, CommandFits
  <1>2. command.file \in Path /\ command.path \in Path
    BY <1>1, CommandPaths
  <1>3. CASE RestoreRead
    <2>1. Cut(fs[command.path]) \in Content
      BY <1>2, <1>3, CutContent DEF RestoreRead, CanRead, TypeInv, TypeOK
    <2>2. command' \in Command
      BY <1>1, <1>3, <2>1 DEF RestoreRead, Command
    <2>3. CommandFits'
      <3>1. /\ command'.pc = "restore_write" /\ command'.held = Cut(fs[command.path])
            /\ command'.kind = command.kind /\ command'.path = command.path
            /\ command'.text = command.text
        BY <1>1, <1>3 DEF RestoreRead, Command
      <3>2. command.kind = "patch" => command.text \in Text
        BY <1>1 DEF TypeInv, CommandFits
      <3> QED BY <1>1, <2>1, <3>1, <3>2 DEF CommandFits
    <2> QED BY <1>3, <2>2, <2>3 DEF RestoreRead, TypeInv, TypeOK
  <1>4. CASE RestoreWrite
    <2>1. command.held \in Content
      BY <1>4 DEF RestoreWrite, At, TypeInv, CommandFits
    <2>2. fs' \in [Path -> Content \cup {NoFile}]
      BY <1>2, <1>4, <2>1, Written DEF RestoreWrite, TypeInv, TypeOK
    <2>3. records' \in Seq([file : File, path : BackupPath, restored : BOOLEAN])
      <3>1. \A i \in DOMAIN records : records'[i] \in Record
        BY <1>4, RecordsFit DEF RestoreWrite, Record, TypeInv
      <3>2. records \in Seq(Record)
        BY DEF TypeInv, TypeOK, Record
      <3>3. DOMAIN records = 1 .. Len(records) /\ Len(records) \in Nat
        BY <3>2
      <3>4. records' = [i \in 1 .. Len(records) |-> records'[i]]
        BY <1>4, <3>3 DEF RestoreWrite
      <3>5. records' \in Seq(Record)
        BY <3>1, <3>3, <3>4
      <3> QED BY <3>5 DEF Record
    <2>4. result' \in Result \cup {Nothing}
      BY <1>1, <1>4, TypeAnswerRestore DEF RestoreWrite
    <2> QED BY <1>4, <2>2, <2>3, <2>4 DEF RestoreWrite, Return, TypeInv, TypeOK, CommandFits
  <1>5. CASE RestoreFailed
    <2>1. fs' \in [Path -> Content \cup {NoFile}]
      <3>1. At("restore_write") => command.held \in Content
        BY DEF At, TypeInv, CommandFits
      <3> QED BY <1>2, <1>5, <3>1, Written DEF RestoreFailed, TypeInv, TypeOK
    <2>2. result' \in Result \cup {Nothing}
      BY <1>1, <1>5, TypeAnswerRestore DEF RestoreFailed
    <2> QED BY <1>5, <2>1, <2>2 DEF RestoreFailed, Return, TypeInv, TypeOK, CommandFits
  <1> QED BY <1>3, <1>4, <1>5 DEF RestoreStep

\* The steps of write_file keep the types.
LEMMA TypeSave == ASSUME TypeInv, SaveStep PROVE TypeInv'
  <1>1. /\ command # Nothing /\ command \in Command /\ command.kind \in {"save", "overwrite"}
        /\ command.text \in Text
    BY DEF SaveStep, Copy, CopyFailed, Store, At, TypeInv, TypeOK, CommandFits
  <1>2. command.file \in File /\ command.file \in Path
    BY <1>1, CommandPaths
  <1>3. CASE Copy
    <2> DEFINE b == BackupOf(command.file)
               was == fs[command.file]
    <2>1. b \in BackupPath /\ b \in Path
      BY <1>2, BackupOfPath DEF TypeInv, TypeOK, Path
    <2>2. was \in Content
      BY <1>2, <1>3 DEF Copy, CanRead, TypeInv, TypeOK
    <2>3. fs' = [fs EXCEPT ![b] = was]
            /\ snapshots' = snapshots \cup {[path |-> b, was |-> was]}
            /\ command' = [command EXCEPT !.pc = "store", !.path = b, !.was = was]
      BY <1>3 DEF Copy
    <2> HIDE DEF b, was
    <2>4. fs' \in [Path -> Content \cup {NoFile}]
      BY <2>1, <2>2, <2>3 DEF TypeInv, TypeOK
    <2>5. snapshots' \subseteq [path : BackupPath, was : Content]
      BY <2>1, <2>2, <2>3 DEF TypeInv, TypeOK
    <2>6. command' \in Command
      BY <1>1, <2>1, <2>2, <2>3 DEF Command
    <2>7. CommandFits'
      <3>1. command'.pc = "store" /\ command'.kind = command.kind /\ command'.text = command.text
        BY <1>1, <2>3 DEF Command
      <3> QED BY <1>1, <3>1 DEF CommandFits
    <2> QED BY <1>3, <2>4, <2>5, <2>6, <2>7 DEF Copy, TypeInv, TypeOK
  <1>4. CASE CopyFailed
    <2>1. fs[command.file] \in Content \cup {NoFile}
      BY <1>2 DEF TypeInv, TypeOK
    <2>2. command' \in Command
      BY <1>1, <1>4, <2>1 DEF CopyFailed, Command
    <2>3. CommandFits'
      <3>1. command'.pc = "store" /\ command'.kind = command.kind /\ command'.text = command.text
        BY <1>1, <1>4 DEF CopyFailed, Command
      <3> QED BY <1>1, <3>1 DEF CommandFits
    <2> QED BY <1>4, <2>2, <2>3 DEF CopyFailed, TypeInv, TypeOK
  <1>5. CASE Store
    <2>1. fs' \in [Path -> Content \cup {NoFile}]
      BY <1>1, <1>2, <1>5, Written, FreshContent DEF Store, TypeInv, TypeOK
    <2> QED BY <1>5, <2>1 DEF Store, Return, TypeInv, TypeOK, CommandFits
  <1> QED BY <1>3, <1>4, <1>5 DEF SaveStep

\* Others, restarts and the clock.
LEMMA TypeRest ==
    ASSUME TypeInv,
           (\E f \in File, text \in Text : OtherWrites(f, text)) \/ Restart \/ Tick
             \/ UNCHANGED vars
    PROVE  TypeInv'
  <1>1. ASSUME NEW f \in File, NEW text \in Text, OtherWrites(f, text) PROVE TypeInv'
    <2>1. fs' \in [Path -> Content \cup {NoFile}]
      BY <1>1, FreshContent DEF OtherWrites, TypeInv, TypeOK
    <2> QED BY <1>1, <2>1 DEF OtherWrites, TypeInv, TypeOK, CommandFits
  <1>2. CASE Restart
    <2>1. fs' \in [Path -> Content \cup {NoFile}]
      BY <1>2, SeedFits DEF Restart, TypeInv, TypeOK
    <2>2. snapshots' \subseteq [path : BackupPath, was : Content]
      BY <1>2 DEF Restart, TypeInv, TypeOK
    <2> QED BY <1>2, <2>1, <2>2 DEF Restart, TypeInv, TypeOK, CommandFits
  <1>3. CASE Tick
    <2>1. now' \in 0 .. MaxTime
      BY <1>3, SwitchAssumption DEF Tick, TypeInv, TypeOK
    <2> QED BY <1>3, <2>1 DEF Tick, TypeInv, TypeOK, CommandFits
  <1>4. CASE UNCHANGED vars
    BY <1>4 DEF vars, TypeInv, TypeOK, CommandFits
  <1> QED BY <1>1, <1>2, <1>3, <1>4

\* Every step keeps the types.
LEMMA TypeStep == TypeInv /\ [Next]_vars => TypeInv'
  <1> SUFFICES ASSUME TypeInv, [Next]_vars PROVE TypeInv'
    OBVIOUS
  <1> QED BY TypeUser, TypeBackup, TypePatch, TypeRestore, TypeSave, TypeRest DEF Next

\* The types of the state, for commands that fail at any step.
THEOREM TypeCorrect == Spec => []TypeOK
  <1>1. TypeInv => TypeOK
    BY DEF TypeInv
  <1> QED BY TypeInit, TypeStep, <1>1, PTL DEF Spec

-----------------------------------------------------------------------------
(* Backups go on holding what they were made of, when no two are made in one *)
(* second and none is cut                                                    *)

\* At launch there are no backups.
LEMMA KeepInit == Init => KeepInv
  <1> SUFFICES ASSUME Init PROVE KeepInv
    OBVIOUS
  <1>1. \A f \in File, t \in 0 .. MaxTime : fs[<<f, t>>] = NoFile
    BY SeedFits DEF Init, BackupPath
  <1> QED BY <1>1 DEF Init, KeepInv, SnapshotsKept, FutureFree, RecordsKeep, CommandKeeps

\* A change of files that are no backups.
LEMMA FilesOnly ==
    ASSUME TypeInv, KeepInv, \A p \in BackupPath : fs'[p] = fs[p],
           snapshots' = snapshots, now' = now
    PROVE  SnapshotsKept' /\ FutureFree'
  <1>1. \A s \in snapshots : s.path \in BackupPath
    BY DEF TypeInv, TypeOK
  <1>2. SnapshotsKept'
    BY <1>1 DEF KeepInv, SnapshotsKept, Same
  <1>3. FutureFree'
    BY DEF KeepInv, FutureFree, BackupPath
  <1> QED BY <1>2, <1>3

\* A write to a free path of the present, or the past, and perhaps a snapshot of
\* what landed there.
LEMMA FreePath ==
    ASSUME TypeInv, KeepInv, NEW f \in File, NEW t \in 0 .. now,
           fs[<<f, t>>] = NoFile,
           \A p \in BackupPath : p # <<f, t>> => fs'[p] = fs[p],
           \A s \in snapshots' \ snapshots : s.path = <<f, t>> /\ Same(fs'[<<f, t>>], s.was),
           now' = now
    PROVE  SnapshotsKept' /\ FutureFree'
  <1>1. \A s \in snapshots : s.path \in BackupPath /\ s.path # <<f, t>>
    BY DEF TypeInv, TypeOK, KeepInv, SnapshotsKept, Same
  <1>2. SnapshotsKept'
    BY <1>1 DEF KeepInv, SnapshotsKept, Same
  <1>3. \A g \in File, u \in 0 .. MaxTime : u > now => <<g, u>> \in BackupPath /\ <<g, u>> # <<f, t>>
    BY DEF BackupPath, TypeInv, TypeOK
  <1>4. FutureFree'
    BY <1>3 DEF KeepInv, FutureFree
  <1> QED BY <1>2, <1>4

\* What is a snapshot stays one.
LEMMA SnapshotsStay ==
    ASSUME KeepInv, snapshots \subseteq snapshots', records' = records
    PROVE  RecordsKeep'
  BY DEF KeepInv, RecordsKeep, IsSnapshot

\* Reading with the limit loses nothing but what is above it.
LEMMA CutSame == \A c \in Content : Same(Cut(c), c)
  <1> SUFFICES ASSUME NEW c \in Content PROVE Same(Cut(c), c)
    OBVIOUS
  <1>1. Cut(c) # NoFile
    BY CutContent, ContentIsFile
  <1>2. Cut(c).text = c.text /\ (Cut(c).cut = c.cut \/ c.text \in Big)
    BY DEF Cut, Content
  <1> QED BY <1>1, <1>2 DEF Same

\* What is the same as a part is the same as the whole.
LEMMA SameChain ==
    ASSUME NEW c, NEW d, NEW e, Same(c, d), Same(d, e)
    PROVE  Same(c, e)
  BY DEF Same

\* A command begins only where the current second is free for its file.
LEMMA KeepBegin ==
    ASSUME ~SameSecond, TypeInv, KeepInv, NEW f \in File,
           NEW kind \in {"backup", "patch", "save", "overwrite"},
           NEW pc \in {"read", "copy", "store"},
           pc \in {"read", "copy"} => Fits(f),
           Begin(kind, pc, f)
    PROVE  KeepInv'
  <1>1. command'.pc = pc /\ command'.file = f
    BY DEF Begin
  <1>2. SnapshotsKept' /\ FutureFree'
    BY FilesOnly DEF Begin
  <1>3. RecordsKeep'
    BY SnapshotsStay DEF Begin
  <1>4. CommandKeeps'
    BY <1>1 DEF Begin, Fits, CommandKeeps
  <1> QED BY <1>2, <1>3, <1>4 DEF KeepInv

\* What the user begins, or does at once, leaves every backup alone.
LEMMA KeepUser ==
    ASSUME ~SameSecond, TypeInv, KeepInv,
           \/ \E f \in File : CreateBackup(f) \/ ExecuteSafePatch(f) \/ WriteFile(f)
                           \/ WriteMockFile(f) \/ DeleteFile(f)
           \/ \E i \in DOMAIN records : RestoreBackup(i)
    PROVE  KeepInv'
  <1>1. ASSUME NEW f \in File, CreateBackup(f) \/ ExecuteSafePatch(f) \/ WriteFile(f)
        PROVE  KeepInv'
    <2>1. \/ Fits(f) /\ (Begin("backup", "read", f) \/ Begin("patch", "read", f)
                           \/ Begin("save", "copy", f))
          \/ Begin("overwrite", "store", f)
      BY <1>1 DEF CreateBackup, ExecuteSafePatch, WriteFile
    <2> QED BY <2>1, KeepBegin
  <1>2. ASSUME NEW f \in File, WriteMockFile(f) PROVE KeepInv'
    <2> DEFINE b == <<f, now>>
    <2>1. /\ b \in BackupPath /\ b \in Path /\ f \in Path /\ f \notin BackupPath /\ now \in 0 .. now
          /\ BackupOf(f) = b
      BY PathAssumption DEF BackupPath, Path, BackupOf, TypeInv, TypeOK
    <2>2. fs[b] = NoFile
      BY <1>2 DEF WriteMockFile, Fits
    <2>3. PICK text \in Text : fs' = [fs EXCEPT ![b] = IF CanRead(f) THEN fs[f] ELSE @,
                                                ![f] = Fresh(text)]
      BY <1>2, <2>1 DEF WriteMockFile
    <2>4. fs \in [Path -> Content \cup {NoFile}]
      BY DEF TypeInv, TypeOK
    <2>5. /\ \A p \in BackupPath : p # b => fs'[p] = fs[p]
          /\ CanRead(f) => fs'[b] = fs[f]
      <3> HIDE DEF b
      <3> QED BY <2>1, <2>3, <2>4 DEF Path
    <2>6. \A s \in snapshots' \ snapshots : s.path = b /\ Same(fs'[b], s.was)
      BY <1>2, <2>1, <2>5 DEF WriteMockFile, Same, CanRead
    <2>7. SnapshotsKept' /\ FutureFree'
      BY <1>2, <2>1, <2>2, <2>5, <2>6, FreePath DEF WriteMockFile
    <2>8. RecordsKeep'
      BY <1>2, SnapshotsStay DEF WriteMockFile
    <2> QED BY <1>2, <2>7, <2>8 DEF WriteMockFile, KeepInv, CommandKeeps
  <1>3. ASSUME NEW f \in File, DeleteFile(f) PROVE KeepInv'
    <2>1. \A p \in BackupPath : fs'[p] = fs[p]
      BY <1>3, PathAssumption DEF DeleteFile, Path, TypeInv, TypeOK
    <2>2. SnapshotsKept' /\ FutureFree' /\ RecordsKeep'
      BY <1>3, <2>1, FilesOnly, SnapshotsStay DEF DeleteFile
    <2> QED BY <1>3, <2>2 DEF DeleteFile, KeepInv, CommandKeeps
  <1>4. ASSUME NEW i \in DOMAIN records, RestoreBackup(i) PROVE KeepInv'
    <2>1. SnapshotsKept' /\ FutureFree' /\ RecordsKeep'
      BY <1>4, FilesOnly, SnapshotsStay DEF RestoreBackup
    <2>2. command'.pc = "restore_read" /\ command'.kind = "restore" /\ command'.path = records[i].path
      BY <1>4 DEF RestoreBackup
    <2>3. IsSnapshot(records[i].path) /\ snapshots' = snapshots
      BY <1>4 DEF KeepInv, RecordsKeep, RestoreBackup
    <2>4. CommandKeeps'
      BY <2>2, <2>3 DEF CommandKeeps, IsSnapshot
    <2> QED BY <2>1, <2>4 DEF KeepInv
  <1> QED BY <1>1, <1>2, <1>3, <1>4

\* create_backup stamps a free path and, if its write succeeds, makes a snapshot.
LEMMA KeepBackup ==
    ASSUME TypeInv, KeepInv, BackupStep
    PROVE  KeepInv'
  <1>1. command # Nothing /\ command \in Command
    BY DEF BackupStep, ReadOriginal, ReadFailed, WriteBackup, WriteBackupFailed, At, TypeInv, TypeOK
  <1>2. CASE ReadOriginal
    <2>1. SnapshotsKept' /\ FutureFree' /\ RecordsKeep'
      BY <1>2, FilesOnly, SnapshotsStay DEF ReadOriginal
    <2>2. /\ command'.pc = "write_backup" /\ command'.file = command.file
          /\ command'.path = <<command.file, now>>
      BY <1>1, <1>2 DEF ReadOriginal, Command, BackupOf
    <2>3. fs[<<command.file, now>>] = NoFile /\ fs' = fs /\ now' = now /\ now \in 0 .. now
      BY <1>2 DEF ReadOriginal, At, KeepInv, CommandKeeps, TypeInv, TypeOK
    <2>4. CommandKeeps'
      BY <2>2, <2>3 DEF CommandKeeps
    <2> QED BY <2>1, <2>4 DEF KeepInv
  <1>3. CASE ReadFailed
    <2>1. SnapshotsKept' /\ FutureFree' /\ RecordsKeep'
      BY <1>3, FilesOnly, SnapshotsStay DEF ReadFailed
    <2> QED BY <1>3, <2>1 DEF ReadFailed, Return, KeepInv, CommandKeeps
  <1>4. CASE WriteBackup
    <2>1. /\ command.path \in BackupPath /\ command.path \in Path
          /\ command.was \in Content /\ command.held = Cut(command.was)
          /\ command.held \in Content /\ command.kind \in {"backup", "patch"}
      BY <1>1, <1>4, CommandPaths, CutContent DEF WriteBackup, At, TypeInv, CommandFits
    <2>2. PICK t \in 0 .. now : command.path = <<command.file, t>>
      BY <1>1, <1>4 DEF WriteBackup, At, KeepInv, CommandKeeps
    <2>3. fs[command.path] = NoFile
      BY <1>4 DEF WriteBackup, At, KeepInv, CommandKeeps
    <2>4. /\ \A q \in BackupPath : q # command.path => fs'[q] = fs[q]
          /\ Same(fs'[command.path], command.was)
      <3>1. /\ \A q \in Path : q # command.path => fs'[q] = fs[q]
            /\ fs'[command.path] = Landed(command.held)
        BY <1>4, <2>1, Written DEF WriteBackup, TypeInv, TypeOK
      <3>2. Same(fs'[command.path], command.held) /\ Same(command.held, command.was)
        BY <2>1, <3>1, LandedContent, CutSame
      <3>3. Same(fs'[command.path], command.was)
        BY <3>2, SameChain
      <3> QED BY <3>1, <3>3 DEF Path
    <2>5. \A s \in snapshots' \ snapshots :
            s.path = command.path /\ Same(fs'[command.path], s.was)
      BY <1>4, <2>4 DEF WriteBackup
    <2>6. SnapshotsKept' /\ FutureFree'
      BY <1>1, <1>4, <2>2, <2>3, <2>4, <2>5, FreePath DEF WriteBackup, Command
    <2>7. RecordsKeep'
      <3>1. \A i \in DOMAIN records' :
              records'[i].path = command.path
                \/ \E j \in DOMAIN records : records'[i] = records[j]
        <4> DEFINE r == [file |-> command.file, path |-> command.path, restored |-> FALSE]
        <4>1. records \in Seq(Record) /\ <<r>> \in Seq(Record) /\ records' = <<r>> \o records
          BY <1>1, <1>4, <2>1 DEF WriteBackup, TypeInv, TypeOK, Record, Command
        <4>2. r.path = command.path
          OBVIOUS
        <4> HIDE DEF r
        <4> QED BY <4>1, <4>2
      <3>2. \E s \in snapshots' : s.path = command.path
        <4>1. [path |-> command.path, was |-> command.was] \in snapshots'
          BY <1>4 DEF WriteBackup
        <4> QED BY <4>1
      <3>3. snapshots \subseteq snapshots'
        BY <1>4 DEF WriteBackup
      <3> QED BY <3>1, <3>2, <3>3 DEF KeepInv, RecordsKeep, IsSnapshot
    <2>8. CommandKeeps'
      <3>1. CASE command.kind = "patch"
        <4>1. /\ command'.pc = "write" /\ command'.path = command.path
              /\ command'.was = command.was
          BY <1>1, <1>4, <3>1 DEF WriteBackup, Goto, Command
        <4>2. [path |-> command.path, was |-> command.was] \in snapshots'
          BY <1>4 DEF WriteBackup
        <4> QED BY <4>1, <4>2 DEF CommandKeeps
      <3>2. CASE command.kind # "patch"
        BY <1>4, <3>2 DEF WriteBackup, Return, CommandKeeps
      <3> QED BY <3>1, <3>2
    <2> QED BY <2>6, <2>7, <2>8 DEF KeepInv
  <1>5. CASE WriteBackupFailed
    <2>1. command.path \in Path /\ command.held \in Content
      BY <1>1, <1>5, CommandPaths, CutContent DEF WriteBackupFailed, At, TypeInv, CommandFits
    <2>2. PICK t \in 0 .. now : command.path = <<command.file, t>>
      BY <1>1, <1>5 DEF WriteBackupFailed, At, KeepInv, CommandKeeps
    <2>3. fs[command.path] = NoFile
      BY <1>5 DEF WriteBackupFailed, At, KeepInv, CommandKeeps
    <2>4. \A q \in BackupPath : q # command.path => fs'[q] = fs[q]
      BY <1>5, <2>1, Written DEF WriteBackupFailed, TypeInv, TypeOK, Path
    <2>5. SnapshotsKept' /\ FutureFree'
      BY <1>1, <1>5, <2>2, <2>3, <2>4, FreePath DEF WriteBackupFailed, Command
    <2>6. RecordsKeep'
      BY <1>5, SnapshotsStay DEF WriteBackupFailed
    <2> QED BY <1>5, <2>5, <2>6 DEF WriteBackupFailed, Return, KeepInv, CommandKeeps
  <1> QED BY <1>2, <1>3, <1>4, <1>5 DEF BackupStep

\* The command under way goes on to a step that counts on its snapshot.
LEMMA KeepGoto ==
    ASSUME TypeInv, command # Nothing, IsSnapshot(command.path), snapshots' = snapshots,
           NEW pc \in {"validate", "reload", "restore_read"}, Goto(pc),
           pc = "restore_read" => ~live, live' = live
    PROVE  CommandKeeps'
  <1>1. command'.pc = pc /\ command'.path = command.path
    BY DEF Goto, TypeInv, TypeOK, Command
  <1>2. IsSnapshot(command.path)'
    BY <1>1 DEF IsSnapshot
  <1> QED BY <1>1, <1>2 DEF CommandKeeps

\* A patch writes its file only, with a snapshot of what it found.
LEMMA KeepPatch ==
    ASSUME TypeInv, KeepInv, PatchStep
    PROVE  KeepInv'
  <1>1. /\ command # Nothing /\ command \in Command /\ command.kind = "patch"
        /\ command.text \in Text
    BY DEF PatchStep, WriteNew, WriteNewFailed, Validate, Reload, GiveUp, At,
           TypeInv, TypeOK, CommandFits
  <1>2. IsSnapshot(command.path)
    <2>1. command.pc \in {"write", "validate", "reload"}
      BY DEF PatchStep, WriteNew, WriteNewFailed, Validate, Reload, GiveUp, At
    <2>2. command.pc = "write" => [path |-> command.path, was |-> command.was] \in snapshots
      BY <1>1 DEF KeepInv, CommandKeeps
    <2> QED BY <1>1, <2>1, <2>2 DEF KeepInv, CommandKeeps, IsSnapshot
  <1>3. \A p \in BackupPath : fs'[p] = fs[p]
    <2>1. command.file \in Path /\ command.file \notin BackupPath /\ Fresh(command.text) \in Content
      BY <1>1, CommandPaths, PathAssumption, FreshContent DEF Command
    <2>2. ASSUME NEW ok \in BOOLEAN, Write(command.file, Fresh(command.text), ok)
          PROVE  \A p \in BackupPath : fs'[p] = fs[p]
      BY <2>1, <2>2, Written DEF TypeInv, TypeOK, Path
    <2>3. \/ UNCHANGED fs
          \/ \E ok \in BOOLEAN : Write(command.file, Fresh(command.text), ok)
      BY DEF PatchStep, WriteNew, WriteNewFailed, Validate, Reload, GiveUp
    <2> QED BY <2>2, <2>3
  <1>4. snapshots' = snapshots /\ now' = now /\ records' = records /\ live' = live
    BY DEF PatchStep, WriteNew, WriteNewFailed, Validate, Reload, GiveUp
  <1>5. SnapshotsKept' /\ FutureFree' /\ RecordsKeep'
    BY <1>3, <1>4, FilesOnly, SnapshotsStay
  <1>6. CommandKeeps'
    <2>1. \/ Return
          \/ Goto("validate") \/ Goto("reload")
          \/ Goto("restore_read") /\ (ValidationFails \/ ReloadFails)
      BY DEF PatchStep, WriteNew, WriteNewFailed, Validate, Reload, GiveUp
    <2>2. CASE Return
      BY <2>2 DEF Return, CommandKeeps
    <2>3. CASE Goto("validate") \/ Goto("reload")
      BY <1>1, <1>2, <1>4, <2>3, KeepGoto
    <2>4. CASE Goto("restore_read") /\ (ValidationFails \/ ReloadFails)
      BY <1>1, <1>2, <1>4, <2>4, KeepGoto DEF ValidationFails, ReloadFails
    <2> QED BY <2>1, <2>2, <2>3, <2>4
  <1> QED BY <1>5, <1>6 DEF KeepInv

\* What a restore is about to write is what its backup was made of.
LEMMA HeldIsSnapshot ==
    ASSUME TypeInv, KeepInv, At("restore_write")
    PROVE  /\ command.held \in Content
           /\ \E s \in snapshots : s.path = command.path /\ Same(Landed(command.held), s.was)
  <1>1. command.held \in Content
    BY DEF At, TypeInv, CommandFits
  <1>2. PICK s \in snapshots : s.path = command.path /\ Same(command.held, s.was)
    BY DEF At, KeepInv, CommandKeeps
  <1>3. Same(Landed(command.held), s.was)
    BY <1>1, <1>2, LandedContent, SameChain
  <1> QED BY <1>1, <1>2, <1>3

\* A restore writes its file only, and what it read from the backup.
LEMMA KeepRestore ==
    ASSUME TypeInv, KeepInv, RestoreStep
    PROVE  KeepInv'
  <1>1. /\ command # Nothing /\ command \in Command /\ command.file \in Path
        /\ command.file \notin BackupPath /\ command.path \in BackupPath /\ command.path \in Path
    BY CommandPaths, PathAssumption
       DEF RestoreStep, RestoreRead, RestoreWrite, RestoreFailed, At, TypeInv, TypeOK,
           CommandFits, Command
  <1>2. \A p \in BackupPath : fs'[p] = fs[p]
    <2>1. ASSUME At("restore_write"), NEW ok \in BOOLEAN, Write(command.file, command.held, ok)
          PROVE  \A p \in BackupPath : fs'[p] = fs[p]
      BY <1>1, <2>1, HeldIsSnapshot, Written DEF TypeInv, TypeOK, Path
    <2>2. \/ UNCHANGED fs
          \/ At("restore_write") /\ \E ok \in BOOLEAN : Write(command.file, command.held, ok)
      BY DEF RestoreStep, RestoreRead, RestoreWrite, RestoreFailed
    <2> QED BY <2>1, <2>2
  <1>3. snapshots' = snapshots /\ now' = now /\ live' = live
    BY DEF RestoreStep, RestoreRead, RestoreWrite, RestoreFailed
  <1>4. SnapshotsKept' /\ FutureFree'
    BY <1>2, <1>3, FilesOnly
  <1>5. CASE RestoreRead
    <2>1. RecordsKeep'
      BY <1>3, <1>5, SnapshotsStay DEF RestoreRead
    <2>2. PICK s \in snapshots : s.path = command.path /\ Same(fs[command.path], s.was)
      BY <1>5 DEF RestoreRead, At, KeepInv, CommandKeeps, IsSnapshot, SnapshotsKept
    <2>3. fs[command.path] \in Content
      BY <1>1, <1>5 DEF RestoreRead, CanRead, TypeInv, TypeOK
    <2>4. /\ command'.pc = "restore_write" /\ command'.held = Cut(fs[command.path])
          /\ command'.kind = command.kind /\ command'.path = command.path
      BY <1>1, <1>5, <2>3 DEF RestoreRead, Command
    <2>5. command.kind = "patch" => ~live
      BY <1>5 DEF RestoreRead, At, KeepInv, CommandKeeps
    <2>6. Same(command'.held, s.was)
      BY <2>2, <2>3, <2>4, CutSame, SameChain
    <2>7. CommandKeeps'
      BY <1>3, <2>2, <2>4, <2>5, <2>6 DEF CommandKeeps
    <2> QED BY <1>4, <2>1, <2>7 DEF KeepInv
  <1>6. CASE RestoreWrite
    <2>1. \A i \in DOMAIN records' : i \in DOMAIN records /\ records'[i].path = records[i].path
      <3>1. \A i \in DOMAIN records : records[i] \in Record
        BY RecordsFit DEF TypeInv
      <3> QED BY <1>6, <3>1 DEF RestoreWrite, Record
    <2>2. RecordsKeep'
      BY <1>3, <2>1 DEF KeepInv, RecordsKeep, IsSnapshot
    <2> QED BY <1>4, <1>6, <2>2 DEF RestoreWrite, Return, KeepInv, CommandKeeps
  <1>7. CASE RestoreFailed
    <2>1. RecordsKeep'
      BY <1>3, <1>7, SnapshotsStay DEF RestoreFailed
    <2> QED BY <1>4, <1>7, <2>1 DEF RestoreFailed, Return, KeepInv, CommandKeeps
  <1> QED BY <1>5, <1>6, <1>7 DEF RestoreStep

\* A save copies to a free path and writes its file only.
LEMMA KeepSave ==
    ASSUME TypeInv, KeepInv, SaveStep
    PROVE  KeepInv'
  <1>1. /\ command # Nothing /\ command \in Command /\ command.file \in File
        /\ command.file \in Path /\ command.file \notin BackupPath /\ command.text \in Text
    BY CommandPaths, PathAssumption
       DEF SaveStep, Copy, CopyFailed, Store, At, TypeInv, TypeOK, CommandFits, Command
  <1>2. RecordsKeep'
    BY SnapshotsStay DEF SaveStep, Copy, CopyFailed, Store
  <1>3. CASE Copy
    <2> DEFINE b == <<command.file, now>>
    <2>1. /\ b \in BackupPath /\ b \in Path /\ now \in 0 .. now
          /\ BackupOf(command.file) = b
      BY <1>1 DEF BackupPath, Path, BackupOf, TypeInv, TypeOK
    <2>2. fs[b] = NoFile
      BY <1>3 DEF Copy, At, KeepInv, CommandKeeps
    <2>3. /\ \A p \in BackupPath : p # b => fs'[p] = fs[p]
          /\ fs'[b] = fs[command.file]
      BY <1>3, <2>1 DEF Copy, Path, TypeInv, TypeOK
    <2>4. \A s \in snapshots' \ snapshots : s.path = b /\ Same(fs'[b], s.was)
      BY <1>3, <2>1, <2>3 DEF Copy, Same, CanRead
    <2>5. SnapshotsKept' /\ FutureFree'
      BY <1>1, <1>3, <2>1, <2>2, <2>3, <2>4, FreePath DEF Copy
    <2>6. command'.pc = "store"
      BY <1>1, <1>3 DEF Copy, Command
    <2> QED BY <1>2, <2>5, <2>6 DEF KeepInv, CommandKeeps
  <1>4. CASE CopyFailed
    <2>1. SnapshotsKept' /\ FutureFree'
      BY <1>4, FilesOnly DEF CopyFailed
    <2>2. command'.pc = "store"
      BY <1>1, <1>4 DEF CopyFailed, Command
    <2> QED BY <1>2, <2>1, <2>2 DEF KeepInv, CommandKeeps
  <1>5. CASE Store
    <2>1. \A p \in BackupPath : fs'[p] = fs[p]
      BY <1>1, <1>5, Written, FreshContent DEF Store, TypeInv, TypeOK, Path
    <2>2. SnapshotsKept' /\ FutureFree'
      BY <1>5, <2>1, FilesOnly DEF Store
    <2> QED BY <1>2, <1>5, <2>2 DEF Store, Return, KeepInv, CommandKeeps
  <1> QED BY <1>3, <1>4, <1>5 DEF SaveStep

\* Others write no backups, a restart loses none of a live server and all of a mock
\* one, with what was remembered of them, and the clock moves on to free paths.
LEMMA KeepRest ==
    ASSUME TypeInv, KeepInv,
           (\E f \in File, text \in Text : OtherWrites(f, text)) \/ Restart \/ Tick
             \/ UNCHANGED vars
    PROVE  KeepInv'
  <1>1. command # Nothing => command.file \in File /\ command \in Command
    BY DEF TypeInv, TypeOK, Command
  <1>2. now \in 0 .. MaxTime /\ MaxTime \in Nat
    BY SwitchAssumption DEF TypeInv, TypeOK
  <1>3. ASSUME NEW f \in File, NEW text \in Text, OtherWrites(f, text) PROVE KeepInv'
    <2>1. \A p \in BackupPath : fs'[p] = fs[p]
      BY <1>3, PathAssumption DEF OtherWrites, Path, TypeInv, TypeOK
    <2>2. SnapshotsKept' /\ FutureFree' /\ RecordsKeep'
      BY <1>3, <2>1, FilesOnly, SnapshotsStay DEF OtherWrites
    <2>3. command # Nothing => <<command.file, now>> \in BackupPath
      BY <1>1, <1>2 DEF BackupPath
    <2>4. command # Nothing /\ command.pc = "write_backup" => command.path \in BackupPath
      BY DEF TypeInv, CommandFits
    <2>5. CommandKeeps'
      BY <1>3, <2>1, <2>3, <2>4 DEF OtherWrites, KeepInv, CommandKeeps, IsSnapshot, Same
    <2> QED BY <2>2, <2>5 DEF KeepInv
  <1>4. CASE Restart
    <2>1. SnapshotsKept' /\ FutureFree'
      <3>1. CASE live
        BY <1>4, <3>1, FilesOnly DEF Restart
      <3>2. CASE ~live
        BY <1>4, <3>2, SeedFits DEF Restart, SnapshotsKept, FutureFree
      <3> QED BY <3>1, <3>2
    <2> QED BY <1>4, <2>1 DEF Restart, KeepInv, RecordsKeep, CommandKeeps
  <1>5. CASE Tick
    <2>1. SnapshotsKept' /\ RecordsKeep'
      BY <1>5, SnapshotsStay DEF Tick, KeepInv, SnapshotsKept, Same
    <2>2. FutureFree'
      BY <1>2, <1>5 DEF Tick, KeepInv, FutureFree
    <2>3. \A f \in File : fs[<<f, now + 1>>] = NoFile
      BY <1>2, <1>5 DEF Tick, KeepInv, FutureFree
    <2>4. 0 .. now \subseteq 0 .. now + 1
      BY <1>2
    <2>5. CommandKeeps'
      BY <1>1, <1>5, <2>3, <2>4 DEF Tick, KeepInv, CommandKeeps, IsSnapshot, Same
    <2> QED BY <2>1, <2>2, <2>5 DEF KeepInv
  <1>6. CASE UNCHANGED vars
    BY <1>6 DEF vars, KeepInv, SnapshotsKept, FutureFree, RecordsKeep, CommandKeeps,
           IsSnapshot, Same
  <1> QED BY <1>3, <1>4, <1>5, <1>6

\* Every step keeps the backups.
LEMMA KeepStep ==
    ASSUME ~SameSecond, TypeInv, KeepInv, [Next]_vars
    PROVE  KeepInv'
  BY KeepUser, KeepBackup, KeepPatch, KeepRestore, KeepSave, KeepRest DEF Next

\* Backups go on holding what they were made of, up to the limit of what is read,
\* when no two of them share a second: on a live server whatever is written,
\* restored, lost or crashes later, on a mock one until the application ends.
THEOREM Snapshots == ASSUME ~SameSecond PROVE Spec => []SnapshotsKept
  <1>1. TypeInv /\ KeepInv /\ [Next]_vars => KeepInv'
    BY KeepStep
  <1>2. KeepInv => SnapshotsKept
    BY DEF KeepInv
  <1> QED BY TypeInit, TypeStep, KeepInit, <1>1, <1>2, PTL DEF Spec

\* A restore of a listed backup brings back what its file held when it was made.
THEOREM Restores == ASSUME ~SameSecond PROVE Spec => RestoreBringsBack
  <1>1. TypeInv /\ KeepInv /\ [Next]_vars => KeepInv'
    BY KeepStep
  <1>2. ASSUME TypeInv, KeepInv, [Next]_vars, At("restore_write"), records' \notin {records, <<>>}
        PROVE  \E s \in snapshots : s.path = command.path /\ Same(fs'[command.file], s.was)
    <2>1. RestoreWrite
      BY <1>2 DEF Next, CreateBackup, ExecuteSafePatch, WriteFile, WriteMockFile, DeleteFile,
         RestoreBackup, Begin, BackupStep, ReadOriginal, ReadFailed, WriteBackup,
         WriteBackupFailed, PatchStep, WriteNew, WriteNewFailed, Validate, Reload, GiveUp,
         RestoreStep, RestoreRead, RestoreFailed, SaveStep, Copy, CopyFailed, Store,
         OtherWrites, Restart, Tick, At, vars
    <2>2. command.file \in Path
      BY <1>2, CommandPaths DEF At
    <2>3. fs'[command.file] = Landed(command.held)
      BY <1>2, <2>1, <2>2, HeldIsSnapshot, Written DEF RestoreWrite, TypeInv, TypeOK
    <2> QED BY <1>2, <2>3, HeldIsSnapshot
  <1> QED BY TypeInit, TypeStep, KeepInit, <1>1, <1>2, PTL DEF Spec, RestoreBringsBack

\* A safe patch that reports a rollback has put back what it found: the restore
\* whose outcome the code ignores cannot fail where a patch is rolled back.
THEOREM Rollbacks == ASSUME ~SameSecond PROVE Spec => RolledBackRestored
  <1>1. TypeInv /\ KeepInv /\ [Next]_vars => KeepInv'
    BY KeepStep
  <1>2. ASSUME TypeInv, KeepInv, [Next]_vars,
               result' # result, result' # Nothing, result'.rolled_back
        PROVE  \E s \in snapshots : s.path = result'.path /\ Same(fs'[result'.file], s.was)
    <2>1. /\ RestoreWrite \/ RestoreFailed
          /\ command.kind = "patch" /\ Answer(FALSE, TRUE)
      <3>1. ~Answer(TRUE, FALSE) /\ ~Answer(FALSE, FALSE)
        BY <1>2 DEF Answer
      <3>2. \/ Answer(TRUE, FALSE) \/ Answer(FALSE, FALSE)
            \/ (RestoreWrite \/ RestoreFailed) /\ AnswerRestore
        BY <1>2 DEF Next, CreateBackup, ExecuteSafePatch, WriteFile, WriteMockFile, DeleteFile,
           RestoreBackup, Begin, BackupStep, ReadOriginal, ReadFailed, WriteBackup,
           WriteBackupFailed, PatchStep, WriteNew, WriteNewFailed, Validate, Reload, GiveUp,
           RestoreStep, RestoreRead, RestoreWrite, RestoreFailed, SaveStep,
           Copy, CopyFailed, Store, OtherWrites, Restart, Tick, vars
      <3> QED BY <1>2, <3>1, <3>2 DEF AnswerRestore
    <2>2. result'.file = command.file /\ result'.path = command.path
      BY <2>1 DEF Answer
    <2>3. ~live /\ command # Nothing /\ command.file \in Path
      BY <1>2, <2>1, CommandPaths
         DEF RestoreWrite, RestoreFailed, At, KeepInv, CommandKeeps
    <2>4. ~RestoreFailed
      <3>1. At("restore_read") => fs[command.path] # NoFile
        BY <1>2 DEF At, KeepInv, CommandKeeps, IsSnapshot, SnapshotsKept, Same
      <3> QED BY <2>3, <3>1 DEF RestoreFailed, ReadCanFail, Write
    <2>5. fs'[command.file] = Landed(command.held)
      BY <1>2, <2>1, <2>3, <2>4, HeldIsSnapshot, Written DEF RestoreWrite, TypeInv, TypeOK
    <2> QED BY <1>2, <2>1, <2>2, <2>4, <2>5, HeldIsSnapshot DEF RestoreWrite
  <1> QED BY TypeInit, TypeStep, KeepInit, <1>1, <1>2, PTL DEF Spec, RolledBackRestored


\* A save that goes on to its write has copied what was there.
LEMMA SaveStays ==
    ASSUME ~CopyFails, TypeInv, SaveKeeps, [Next]_vars
    PROVE  SaveKeeps'
  <1>1. command # Nothing => command \in Command
    BY DEF TypeInv, TypeOK
  <1>2. CASE Copy
    <2>1. /\ command'.path = BackupOf(command.file) /\ command'.was = fs[command.file]
      BY <1>1, <1>2 DEF Copy, At, Command
    <2>2. [path |-> BackupOf(command.file), was |-> fs[command.file]] \in snapshots'
      BY <1>2 DEF Copy
    <2> QED BY <2>1, <2>2 DEF SaveKeeps
  <1>3. CASE CopyFailed
    <2>1. command'.was = NoFile
      BY <1>1, <1>3 DEF CopyFailed, At, CanRead, Command
    <2> QED BY <2>1 DEF SaveKeeps
  <1>4. CASE command' = command /\ snapshots \subseteq snapshots'
    BY <1>4 DEF SaveKeeps
  <1>5. CASE command' = Nothing \/ command'.pc # "store" \/ command'.kind # "save"
    BY <1>5 DEF SaveKeeps
  <1>6. \/ Copy \/ CopyFailed
        \/ command' = command /\ snapshots \subseteq snapshots'
        \/ command' = Nothing \/ command'.pc # "store" \/ command'.kind # "save"
    <2>1. CASE \E f \in File : CreateBackup(f) \/ ExecuteSafePatch(f) \/ WriteFile(f)
      BY <2>1 DEF CreateBackup, ExecuteSafePatch, WriteFile, Begin
    <2>2. CASE \/ \E f \in File : WriteMockFile(f) \/ DeleteFile(f)
               \/ \E f \in File, text \in Text : OtherWrites(f, text)
               \/ Tick \/ UNCHANGED vars
      BY <2>2 DEF WriteMockFile, DeleteFile, OtherWrites, Tick, vars
    <2>3. CASE \E i \in DOMAIN records : RestoreBackup(i)
      BY <2>3 DEF RestoreBackup
    <2>4. CASE BackupStep \/ PatchStep \/ RestoreStep \/ SaveStep
      BY <1>1, <2>4 DEF BackupStep, ReadOriginal, ReadFailed, WriteBackup, WriteBackupFailed,
         PatchStep, WriteNew, WriteNewFailed, Validate, Reload, GiveUp, RestoreStep, RestoreRead,
         RestoreWrite, RestoreFailed, SaveStep, Store, At, Goto, Return, Command
    <2>5. CASE Restart
      BY <2>5 DEF Restart
    <2> QED BY <2>1, <2>2, <2>3, <2>4, <2>5 DEF Next
  <1> QED BY <1>2, <1>3, <1>4, <1>5, <1>6

\* What a safe patch or a save with a backup overwrites is in its backup, when
\* the copy of a file that exists does not fail.
THEOREM Overwrites ==
    ASSUME ~SameSecond, ~CopyFails
    PROVE  Spec => OverwriteKeepsOld
  <1>1. TypeInv /\ KeepInv /\ [Next]_vars => KeepInv'
    BY KeepStep
  <1>2. Init => SaveKeeps
    BY DEF Init, SaveKeeps
  <1>3. TypeInv /\ KeepInv /\ SaveKeeps /\ [Next]_vars => SaveKeeps'
    BY SaveStays
  <1>4. ASSUME TypeInv, KeepInv, SaveKeeps, NEW f \in File,
               At("write") \/ (At("store") /\ command.kind = "save"), f = command.file,
               fs[f] # NoFile, fs[f] = command.was
        PROVE  command.path # Nothing /\ Same(fs[command.path], fs[f])
    <2>1. PICK s \in snapshots : s.path = command.path /\ s.was = command.was
      <3>1. [path |-> command.path, was |-> command.was] \in snapshots
        BY <1>4 DEF At, KeepInv, CommandKeeps, SaveKeeps
      <3> QED BY <3>1
    <2>2. command.path \in BackupPath
      BY <1>4, <2>1 DEF TypeInv, TypeOK
    <2>3. Same(fs[command.path], command.was)
      BY <1>4, <2>1 DEF KeepInv, SnapshotsKept
    <2> QED BY <1>4, <2>2, <2>3, PathAssumption
  <1>5. TypeInv /\ KeepInv /\ SaveKeeps /\ [Next]_vars =>
          \A f \in File :
            /\ At("write") \/ (At("store") /\ command.kind = "save")
            /\ command' # command /\ f = command.file
            /\ fs[f] # NoFile /\ fs[f] = command.was /\ fs'[f] # fs[f]
            => command.path # Nothing /\ Same(fs[command.path], fs[f])
    BY <1>4
  <1> QED BY TypeInit, TypeStep, KeepInit, <1>1, <1>2, <1>3, <1>5, PTL DEF Spec, OverwriteKeepsOld

=============================================================================
