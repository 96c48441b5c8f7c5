----------------------------- MODULE ActivityTab -----------------------------
(***************************************************************************)
(* The activity view of the desktop interface (views/ActivityView.tsx):    *)
(* the audit trail, the tool calls and the snapshots, read together on     *)
(* mount; export of the trail and restoring of a snapshot.  The tables     *)
(* only display, so the snapshots stand for what was read.                 *)
(***************************************************************************)
EXTENDS DesktopCore

FreshActivity(mount) == [mount |-> mount, backups |-> <<>>, restoring |-> {}]

Activity == tabs["Activity"]
ActivityCall(op, x, k, e) == Call(op, x, k, e, "Activity")

ActivityEffect(mount) ==
  << [op |-> "safetyListBackups", x |-> NoServer, k |-> "activity", e |-> FALSE,
      on |-> mount] >>

\* The reload that follows a restore also ends it.
DataLoaded ==
  /\ Awaited("activity")
  /\ LET c == Head(queue) IN
     \E r \in Answers(c) :
       /\ Take(r, <<>>)
       /\ Shows(c, "Activity",
            [Activity EXCEPT !.backups = r.val, !.restoring = IF c.e THEN {} ELSE @])
  /\ UNCHANGED app

Reload == Open("Activity") /\ Does("Activity", Activity,
                             ActivityEffect(Activity.mount))

ExportAudit(format) ==
  Does("Activity", Activity,
       << ActivityCall("exportAuditLog", format, "-", 0) >>)

\* The operator confirms; the snapshot restored is the one of the row.
Restore(snapshot) ==
  /\ Open("Activity")
  /\ snapshot \in ToSet(Activity.backups) \ Activity.restoring
  /\ Does("Activity", [Activity EXCEPT !.restoring = {snapshot}],
          << ActivityCall("safetyRestoreBackup", snapshot, "restored", 0) >>)

Restored ==
  /\ Awaited("restored")
  /\ LET c == Head(queue) IN
     \E r \in Answers(c) :
       Take(r, << [c EXCEPT !.op = "safetyListBackups", !.x = NoServer,
                            !.k = "activity", !.e = TRUE] >>)
  /\ UNCHANGED << app, tabs >>

ActivityOperator ==
  /\ Open("Activity")
  /\ \/ Reload \/ ExportAudit("json")
     \/ \E snapshot \in ToSet(Activity.backups) : Restore(snapshot)

ActivityAnswer == DataLoaded \/ Restored
=============================================================================
