-------------------------------- MODULE HostKeys --------------------------------
(***************************************************************************)
(* Host keys of one server record: the probe (ssh/transport.rs), the reader *)
(* of ~/.ssh/known_hosts (ssh/known_hosts.rs), the two commands around them *)
(* (commands.rs) and the dialogs that show a result and accept its key      *)
(* (ServersView.tsx).                                                       *)
(*                                                                         *)
(* Probes are asynchronous: several may be under way, and an acceptance,    *)
(* the user's own ssh and the administrator of the server may come between  *)
(* any two steps of one.  Each subprocess, file access or statement is one  *)
(* step.  The file and the tables survive a restart of the application.     *)
(***************************************************************************)
EXTENDS Naturals, Sequences

CONSTANTS
    Key,         \* host keys (a fingerprint identifies its key)
    TypeOf,      \* the type of each key
    Host,        \* names a line of the file may be about
    Hostname,    \* the hostname of the server record
    Targets,     \* what its ssh_config alias resolves to; {Hostname} without one
    Probe,       \* probes that may be under way at once
    Foreign,     \* lines that the user's own ssh may add to the file
    Rekeys,      \* may the server get other keys?
    Forgets,     \* may the user remove a host from the file (ssh-keygen -R)?
    FileFails,   \* may the file be unreadable, or unwritable?
    DbCanFail,   \* may a statement on the database fail?
    CanRestart,  \* may the application restart?
    MaxLines,    \* bound on the lines of the file
    Nothing      \* no name, no key, no result

\* A line: OpenSSH may hash the name (HashKnownHosts) or list several, which only
\* ssh can match.
Line == [host : Host \cup {Nothing}, key : Key, hashed : BOOLEAN]

ASSUME HostKeysAssumption ==
    /\ Targets \subseteq Host /\ Hostname \in Host
    /\ Foreign \subseteq [host : Host, key : Key, hashed : BOOLEAN]
    /\ {Rekeys, Forgets, FileFails, DbCanFail, CanRestart} \subseteq BOOLEAN
    /\ MaxLines \in Nat
    /\ Nothing \notin Host \cup Key

HostKeyStatus == {"TRUSTED", "NEW_HOST", "CHANGED_WARNING", "UNVERIFIED"}

ConnectionTestResult ==
    [status : HostKeyStatus, host : Host, key : Key \cup {Nothing}, success : BOOLEAN]

VARIABLES
    file,       \* lines of ~/.ssh/known_hosts
    cache,      \* table known_hosts_cache: key of each (hostname, type), or Nothing
    audit,      \* keys of the SSH_HOST_KEY_ACCEPTED events (nothing reads those of tests)
    server,     \* keys the server holds, one of a type
    probes,     \* the probes under way (memory)
    shown,      \* the last result of a probe (memory)
    accepting,  \* the key an acceptance under way has yet to save, or Nothing (memory)
    trusted,    \* history: what the user, or the user's ssh, trusts now
    once        \* history: what they have ever trusted

history == <<trusted, once>>
vars == <<file, cache, audit, server, probes, shown, accepting, history>>

NoProbe == [pc |-> "idle", host |-> Nothing, lines |-> <<>>, result |-> Nothing]

KeySets == {keys \in SUBSET Key : keys # {} /\ \A k, l \in keys : TypeOf[k] = TypeOf[l] => k = l}

Pair(line) == [host |-> line.host, key |-> line.key]

Init ==
    /\ file \in {<<>>} \cup {<<line>> : line \in Foreign}
    /\ cache = [c \in Host \X {TypeOf[k] : k \in Key} |-> Nothing]
    /\ audit = {}
    /\ server \in KeySets
    /\ probes = [p \in Probe |-> NoProbe]
    /\ shown = Nothing
    /\ accepting = Nothing
    /\ trusted = {Pair(file[i]) : i \in DOMAIN file}
    /\ once = trusted

-----------------------------------------------------------------------------
(* The file *)

\* The lines about a host; a hashed name parses as a host of its own.
About(lines, host) == {i \in DOMAIN lines : lines[i].host = host /\ ~lines[i].hashed}

\* Mutant: another type is a new key, not a changed one.
VerifyByType(lines, host, key) ==
    LET same == {i \in About(lines, host) : TypeOf[lines[i].key] = TypeOf[key]} IN
    IF same = {} THEN "NEW_HOST"
    ELSE IF \E i \in same : lines[i].key = key THEN "TRUSTED" ELSE "CHANGED_WARNING"

\* Mutant: the first line of the type is not compared.
VerifyAnyKey(lines, host, key) ==
    IF About(lines, host) = {} THEN "NEW_HOST"
    ELSE IF \E i \in About(lines, host) : TypeOf[lines[i].key] = TypeOf[key]
         THEN "TRUSTED" ELSE "CHANGED_WARNING"

\* The first line of the offered key's type decides.
VerifyHostKey(lines, host, key) ==
    IF About(lines, host) = {} THEN "NEW_HOST"
    ELSE IF \E i \in About(lines, host) :
              /\ lines[i].key = key
              /\ \A j \in About(lines, host) : j < i => TypeOf[lines[j].key] # TypeOf[key]
         THEN "TRUSTED"
    ELSE "CHANGED_WARNING"

\* Mutant: ssh takes the key of a host it has no line for.
SshAcceptsNew(host, key) ==
    \A i \in DOMAIN file : file[i].host = host => \E j \in DOMAIN file : file[j].key = key

\* ssh itself, with StrictHostKeyChecking=yes, hashed lines included.
SshKnows(host, key) == \E i \in DOMAIN file : file[i].host = host /\ file[i].key = key

-----------------------------------------------------------------------------
(* test_server_connection *)

At(p, pc) == probes[p].pc = pc

Answer(p, status, key, success) ==
    probes' = [probes EXCEPT ![p].pc = "answer", ![p].result =
        [status |-> status, host |-> probes[p].host, key |-> key, success |-> success]]

\* The file is read, an unreadable one as empty; then the alias is resolved.
TestConnection(p) ==
    /\ At(p, "idle")
    /\ \E host \in Targets, lines \in {file} \cup (IF FileFails THEN {<<>>} ELSE {}) :
         probes' = [probes EXCEPT ![p] = [pc |-> "keyscan", host |-> host, lines |-> lines,
                                          result |-> Nothing]]
    /\ UNCHANGED <<file, cache, audit, server, shown, accepting, history>>

\* ssh-keyscan asks for every type; the first line it prints is taken.
FetchHostKey(p) ==
    /\ At(p, "keyscan")
    /\ \E key \in server :
         LET status == VerifyHostKey(probes[p].lines, probes[p].host, key) IN
         IF status = "TRUSTED"
         THEN probes' = [probes EXCEPT ![p].pc = "login", ![p].result =
                [status |-> status, host |-> probes[p].host, key |-> key, success |-> FALSE]]
         ELSE Answer(p, status, key, status = "NEW_HOST")
    /\ UNCHANGED <<file, cache, audit, server, shown, accepting, history>>

KeyscanFails(p) ==
    /\ At(p, "keyscan")
    /\ Answer(p, "UNVERIFIED", Nothing, FALSE)
    /\ UNCHANGED <<file, cache, audit, server, shown, accepting, history>>

\* ssh negotiates a type of its own; the result still names the scanned key.
Login(p) ==
    /\ At(p, "login")
    /\ \E key \in server : SshKnows(probes[p].host, key)
    /\ Answer(p, "TRUSTED", probes[p].result.key, TRUE)
    /\ UNCHANGED <<file, cache, audit, server, shown, accepting, history>>

\* No key of the host is known any more, or the user's key is refused.
LoginFails(p) ==
    /\ At(p, "login")
    /\ Answer(p, "TRUSTED", probes[p].result.key, FALSE)
    /\ UNCHANGED <<file, cache, audit, server, shown, accepting, history>>

Save(host, key) == cache' = [cache EXCEPT ![<<host, TypeOf[key]>>] = key]

\* The event, then the cache for a trusted key; errors of both are ignored.
RecordTest(p) ==
    /\ At(p, "answer")
    /\ IF probes[p].result.status = "TRUSTED"
       THEN Save(probes[p].host, probes[p].result.key) \/ (DbCanFail /\ cache' = cache)
       ELSE cache' = cache
    /\ shown' = probes[p].result
    /\ probes' = [probes EXCEPT ![p] = NoProbe]
    /\ UNCHANGED <<file, audit, server, accepting, history>>

-----------------------------------------------------------------------------
(* accept_server_host_key, for the result on the screen *)

CanAccept ==
    /\ accepting = Nothing
    /\ shown # Nothing
    /\ shown.status \in {"NEW_HOST", "CHANGED_WARNING"}

Trust(pair) == trusted' = trusted \cup {pair} /\ once' = once \cup {pair}

\* The user trusts the key; it is appended under the hostname of the record,
\* whatever name was probed.
AcceptAndSave ==
    /\ CanAccept
    /\ Len(file) < MaxLines
    /\ file' = Append(file, [host |-> Hostname, key |-> shown.key, hashed |-> FALSE])
    /\ Trust([host |-> Hostname, key |-> shown.key])
    /\ accepting' = shown.key
    /\ UNCHANGED <<cache, audit, server, probes, shown>>

AcceptFails ==
    /\ CanAccept
    /\ FileFails
    /\ UNCHANGED vars

\* The cache, whose error is returned, then the event, whose error is not.  Then
\* the view tests again.
RecordAcceptance ==
    /\ accepting # Nothing
    /\ Save(Hostname, accepting)
    /\ audit' = audit \cup {accepting} \/ (DbCanFail /\ audit' = audit)
    /\ accepting' = Nothing
    /\ UNCHANGED <<file, server, probes, shown, history>>

SaveFails ==
    /\ accepting # Nothing
    /\ DbCanFail
    /\ accepting' = Nothing
    /\ UNCHANGED <<file, cache, audit, server, probes, shown, history>>

-----------------------------------------------------------------------------
(* Everything else *)

\* The user's own ssh meets a host and writes its line.
OwnSsh(line) ==
    /\ Len(file) < MaxLines
    /\ file' = Append(file, line)
    /\ Trust(Pair(line))
    /\ UNCHANGED <<cache, audit, server, probes, shown, accepting>>

\* ssh-keygen -R; the line is gone, here an empty one.
Forget(host) ==
    /\ Forgets
    /\ file' = [i \in DOMAIN file |-> IF file[i].host = host THEN [file[i] EXCEPT !.host = Nothing]
                                      ELSE file[i]]
    /\ trusted' = {pair \in trusted : pair.host # host}
    /\ UNCHANGED <<cache, audit, server, probes, shown, accepting, once>>

\* A re-installation, a key rotation, or another machine at the address.
Rekey ==
    /\ Rekeys
    /\ server' \in KeySets
    /\ UNCHANGED <<file, cache, audit, probes, shown, accepting, history>>

Restart ==
    /\ CanRestart
    /\ probes' = [p \in Probe |-> NoProbe]
    /\ shown' = Nothing
    /\ accepting' = Nothing
    /\ UNCHANGED <<file, cache, audit, server, history>>

Next ==
    \/ \E p \in Probe :
         \/ TestConnection(p) \/ FetchHostKey(p) \/ KeyscanFails(p)
         \/ Login(p) \/ LoginFails(p) \/ RecordTest(p)
    \/ AcceptAndSave \/ AcceptFails \/ RecordAcceptance \/ SaveFails
    \/ \E line \in Foreign : OwnSsh(line)
    \/ \E host \in Host : Forget(host)
    \/ Rekey
    \/ Restart

Spec == Init /\ [][Next]_vars

-----------------------------------------------------------------------------
(* Properties *)

ProbeState == [pc : {"idle", "keyscan", "login", "answer"}, host : Host \cup {Nothing},
               lines : Seq(Line), result : ConnectionTestResult \cup {Nothing}]

Trusts == [host : Host \cup {Nothing}, key : Key]

\* The file, the tables, the probes and the dialogs hold what their types say.
TypeOK ==
    /\ file \in Seq(Line)
    /\ cache \in [Host \X {TypeOf[k] : k \in Key} -> Key \cup {Nothing}]
    /\ audit \subseteq Key
    /\ server \in KeySets
    /\ probes \in [Probe -> ProbeState]
    /\ shown \in ConnectionTestResult \cup {Nothing}
    /\ accepting \in Key \cup {Nothing}
    /\ trusted \subseteq Trusts
    /\ once \subseteq Trusts

\* What is shown, or cached, as trusted is a key that the user did trust at some
\* time under that very name, however the server's keys, the file and other probes
\* change while the probe is under way.
TrustFollowsUser ==
    /\ \A result \in {shown} \cup {probes[p].result : p \in Probe} :
         result # Nothing /\ result.status = "TRUSTED"
             => [host |-> result.host, key |-> result.key] \in once
    /\ \A c \in DOMAIN cache :
         cache[c] # Nothing => [host |-> c[1], key |-> cache[c]] \in once

\* Gate E: a login succeeds only at a server that holds, at that moment, a key the
\* user trusts at that moment.  The verdict of the scan is old by then: the server
\* may have been replaced, the host removed from the file.
LoginBehindTrustedKey ==
    [][\A p \in Probe :
         At(p, "login") /\ At(p, "answer")' /\ probes'[p].result.success
             => \E key \in server : [host |-> probes[p].host, key |-> key] \in trusted]_vars

\* A key the user never trusted, at a host with a key the user accepted here and
\* has not removed, and the probe has read, is a change, never a new host: the
\* one-click "Trust Key" is not offered for it, whatever its type.
ReplacedKeyWarned ==
    \A p \in Probe : LET result == probes[p].result IN
        /\ result # Nothing /\ result.key # Nothing
        /\ [host |-> result.host, key |-> result.key] \notin once
        /\ \E i \in About(probes[p].lines, result.host) : Pair(probes[p].lines[i]) \in trusted
        => result.status = "CHANGED_WARNING"

\* The event of an acceptance stands for a key that went into the file: a command
\* that fails half-way leaves the file ahead of the audit trail, never behind.
AcceptedEventTrue ==
    \A key \in audit : [host |-> Hostname, key |-> key] \in once

\* "Override & Trust New Key": what the user accepted, and has not removed, is
\* trusted by the next probe.
AcceptedIsTrusted ==
    \A pair \in trusted : VerifyHostKey(file, pair.host, pair.key) = "TRUSTED"
=============================================================================
