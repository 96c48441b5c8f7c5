----------------------------- MODULE HostKeysProofs -----------------------------
(* Proofs about the host keys of a server, for every value of the constants. *)
EXTENDS HostKeys, SequenceTheorems, TLAPS

Known(host, key) == [host |-> host, key |-> key] \in once

\* Every line of the file that is still about a host is trusted now, and every
\* line a probe has read was trusted once.
LinesFit ==
    /\ \A i \in DOMAIN file : file[i].host # Nothing => Pair(file[i]) \in trusted
    /\ \A p \in Probe : \A i \in DOMAIN probes[p].lines :
         probes[p].lines[i].host # Nothing => Pair(probes[p].lines[i]) \in once
    /\ trusted \subseteq once

\* What a probe has found out fits the lines it has read.
ResultFits(probe, result) ==
    /\ result \in ConnectionTestResult
    /\ result.host = probe.host
    /\ result.status = "TRUSTED" => result.key \in Key /\ Known(result.host, result.key)
    /\ result.status = "UNVERIFIED" <=> result.key = Nothing
    /\ result.status = "NEW_HOST" => About(probe.lines, result.host) = {}

ProbeFits(probe) ==
    /\ probe.pc # "idle" => probe.host \in Host
    /\ probe.pc \in {"idle", "keyscan"} => probe.result = Nothing
    /\ probe.pc \in {"login", "answer"} => ResultFits(probe, probe.result)
    /\ probe.pc = "login" => probe.result.status = "TRUSTED"

ShownFits ==
    shown # Nothing =>
        /\ shown.status = "TRUSTED" => shown.key \in Key /\ Known(shown.host, shown.key)
        /\ shown.status # "UNVERIFIED" => shown.key \in Key

\* The inductive invariant: whatever says trusted can be traced to the user.
Inv ==
    /\ TypeOK
    /\ LinesFit
    /\ \A p \in Probe : ProbeFits(probes[p])
    /\ ShownFits
    /\ accepting # Nothing => Known(Hostname, accepting)
    /\ \A c \in DOMAIN cache : cache[c] # Nothing => Known(c[1], cache[c])
    /\ \A key \in audit : Known(Hostname, key)

-----------------------------------------------------------------------------

LEMMA InitInv == Init => Inv
  <1> SUFFICES ASSUME Init PROVE Inv
    OBVIOUS
  <1> USE HostKeysAssumption
  <1>1. Foreign \subseteq Line
    BY DEF Line
  <1>2. file \in Seq(Line)
    <2>1. <<>> \in Seq(Line) /\ \A line \in Line : <<line>> \in Seq(Line)
      OBVIOUS
    <2> QED BY <1>1, <2>1 DEF Init
  <1>3. \A i \in DOMAIN file : file[i] \in Line /\ Pair(file[i]) \in trusted
    BY <1>2 DEF Init
  <1>4. trusted \subseteq Trusts /\ once = trusted
    BY <1>3 DEF Init, Trusts, Pair, Line
  <1>5. NoProbe \in ProbeState
    BY DEF NoProbe, ProbeState
  <1>6. TypeOK
    BY <1>2, <1>4, <1>5 DEF Init, TypeOK
  <1>7. LinesFit
    BY <1>3, <1>4 DEF Init, LinesFit, NoProbe
  <1>8. \A p \in Probe : ProbeFits(probes[p])
    BY DEF Init, ProbeFits, NoProbe
  <1>9. ShownFits
    BY DEF Init, ShownFits
  <1> QED BY <1>6, <1>7, <1>8, <1>9 DEF Init, Inv

\* A probe that changes leaves the others as they are.
LEMMA OneProbe ==
    ASSUME Inv, NEW p \in Probe, NEW state \in ProbeState,
           probes' = [probes EXCEPT ![p] = state]
    PROVE  /\ probes' \in [Probe -> ProbeState]
           /\ probes'[p] = state
           /\ \A q \in Probe : q # p => probes'[q] = probes[q]
  BY DEF Inv, TypeOK

\* A step of a probe that changes neither file, nor tables, nor what is shown keeps
\* the invariant if its new state fits, and the lines it holds are known.
LEMMA ProbeStep ==
    ASSUME Inv, NEW p \in Probe, NEW state \in ProbeState, ProbeFits(state),
           \A i \in DOMAIN state.lines :
             state.lines[i].host # Nothing => Pair(state.lines[i]) \in once,
           probes' = [probes EXCEPT ![p] = state],
           UNCHANGED <<file, cache, audit, server, shown, accepting, history>>
    PROVE  Inv'
  <1>1. /\ probes' \in [Probe -> ProbeState]
        /\ probes'[p] = state
        /\ \A q \in Probe : q # p => probes'[q] = probes[q]
    BY OneProbe
  <1>2. TypeOK'
    BY <1>1 DEF Inv, TypeOK, history
  <1>3. LinesFit'
    BY <1>1 DEF Inv, LinesFit, history
  <1>4. ProbeFits(probes[p])'
    BY <1>1 DEF ProbeFits, ResultFits, About, Known, history
  <1>5. ASSUME NEW q \in Probe, q # p PROVE ProbeFits(probes[q])'
    BY <1>1, <1>5 DEF Inv, ProbeFits, ResultFits, About, Known, history
  <1>6. ShownFits'
    BY DEF Inv, ShownFits, Known, history
  <1> QED BY <1>2, <1>3, <1>4, <1>5, <1>6 DEF Inv, Known, history

\* A probe that has found out something goes on with it.
LEMMA QuietProbe ==
    ASSUME Inv, NEW p \in Probe, NEW pc \in {"login", "answer"},
           NEW result, ResultFits(probes[p], result), ~At(p, "idle"),
           pc = "login" => result.status = "TRUSTED",
           probes' = [probes EXCEPT ![p].pc = pc, ![p].result = result],
           UNCHANGED <<file, cache, audit, server, shown, accepting, history>>
    PROVE  Inv'
  <1> DEFINE state == [probes[p] EXCEPT !.pc = pc, !.result = result]
  <1>1. probes[p] \in ProbeState
    BY DEF Inv, TypeOK
  <1>2. /\ state \in ProbeState
        /\ state.pc = pc /\ state.result = result
        /\ state.host = probes[p].host /\ state.lines = probes[p].lines
    BY <1>1 DEF ProbeState, ResultFits
  <1>3. probes' = [probes EXCEPT ![p] = state]
    BY <1>1, <1>2 DEF ProbeState, Inv, TypeOK
  <1> HIDE DEF state
  <1>4. probes[p].host \in Host
    BY DEF Inv, ProbeFits, At
  <1>5. ProbeFits(state)
    BY <1>2, <1>4 DEF ProbeFits, ResultFits
  <1> QED BY <1>2, <1>3, <1>5, ProbeStep DEF Inv, LinesFit

\* What the scan finds out.
LEMMA FetchInv ==
    ASSUME Inv, NEW p \in Probe, FetchHostKey(p)
    PROVE  Inv'
  <1>1. PICK key \in server :
          LET status == VerifyHostKey(probes[p].lines, probes[p].host, key) IN
          IF status = "TRUSTED"
          THEN probes' = [probes EXCEPT ![p].pc = "login", ![p].result =
                 [status |-> status, host |-> probes[p].host, key |-> key, success |-> FALSE]]
          ELSE Answer(p, status, key, status = "NEW_HOST")
    BY DEF FetchHostKey
  <1> DEFINE status == VerifyHostKey(probes[p].lines, probes[p].host, key)
             result == [status |-> status, host |-> probes[p].host, key |-> key,
                        success |-> status = "NEW_HOST"]
  <1>2. /\ probes[p].host \in Host /\ probes[p].host # Nothing
        /\ key \in Key /\ key # Nothing
    BY HostKeysAssumption DEF FetchHostKey, At, Inv, ProbeFits, TypeOK, KeySets
  <1>3. /\ status \in {"TRUSTED", "NEW_HOST", "CHANGED_WARNING"}
        /\ status = "NEW_HOST" => About(probes[p].lines, probes[p].host) = {}
    BY DEF VerifyHostKey
  <1>4. status = "TRUSTED" => Known(probes[p].host, key)
    <2> SUFFICES ASSUME status = "TRUSTED" PROVE Known(probes[p].host, key)
      OBVIOUS
    <2>1. PICK i \in About(probes[p].lines, probes[p].host) : probes[p].lines[i].key = key
      BY DEF VerifyHostKey
    <2>2. i \in DOMAIN probes[p].lines /\ probes[p].lines[i].host = probes[p].host
      BY DEF About
    <2> QED BY <1>2, <2>1, <2>2 DEF Inv, LinesFit, Pair, Known
  <1>5. ResultFits(probes[p], result)
    BY <1>2, <1>3, <1>4 DEF ResultFits, ConnectionTestResult, HostKeyStatus
  <1>6. CASE status = "TRUSTED"
    <2>1. probes' = [probes EXCEPT ![p].pc = "login", ![p].result = result]
      BY <1>1, <1>6
    <2> QED BY <1>5, <1>6, <2>1, QuietProbe DEF FetchHostKey, At
  <1>7. CASE status # "TRUSTED"
    <2>1. probes' = [probes EXCEPT ![p].pc = "answer", ![p].result = result]
      BY <1>1, <1>7 DEF Answer
    <2> QED BY <1>5, <2>1, QuietProbe DEF FetchHostKey, At
  <1> QED BY <1>6, <1>7

\* An answer without a key, or with the outcome of the login.
LEMMA AnswerInv ==
    ASSUME Inv, NEW p \in Probe, KeyscanFails(p) \/ Login(p) \/ LoginFails(p)
    PROVE  Inv'
  <1>1. CASE KeyscanFails(p)
    <2> DEFINE result == [status |-> "UNVERIFIED", host |-> probes[p].host, key |-> Nothing,
                          success |-> FALSE]
    <2>1. ResultFits(probes[p], result)
      BY <1>1 DEF KeyscanFails, At, Inv, ProbeFits, ResultFits, ConnectionTestResult, HostKeyStatus
    <2> QED BY <1>1, <2>1, QuietProbe DEF KeyscanFails, Answer, At
  <1>2. ASSUME Login(p) \/ LoginFails(p) PROVE Inv'
    <2>1. PICK success \in BOOLEAN : Answer(p, "TRUSTED", probes[p].result.key, success)
      BY <1>2 DEF Login, LoginFails
    <2> DEFINE result == [status |-> "TRUSTED", host |-> probes[p].host,
                          key |-> probes[p].result.key, success |-> success]
    <2>2. At(p, "login")
      BY <1>2 DEF Login, LoginFails
    <2>3. ResultFits(probes[p], probes[p].result) /\ probes[p].result.status = "TRUSTED"
          /\ probes[p].host \in Host
      BY <2>2 DEF At, Inv, ProbeFits
    <2>4. ResultFits(probes[p], result)
      BY <2>3, HostKeysAssumption DEF ResultFits, ConnectionTestResult, HostKeyStatus
    <2>5. probes' = [probes EXCEPT ![p].pc = "answer", ![p].result = result]
      BY <2>1 DEF Answer
    <2> QED BY <1>2, <2>2, <2>4, <2>5, QuietProbe DEF Login, LoginFails, At
  <1> QED BY <1>1, <1>2

\* A new probe reads the file, or nothing.
LEMMA TestInv ==
    ASSUME Inv, NEW p \in Probe, TestConnection(p)
    PROVE  Inv'
  <1>1. PICK host \in Targets, lines \in {file, <<>>} :
          probes' = [probes EXCEPT ![p] = [pc |-> "keyscan", host |-> host, lines |-> lines,
                                           result |-> Nothing]]
    BY DEF TestConnection
  <1> DEFINE state == [pc |-> "keyscan", host |-> host, lines |-> lines, result |-> Nothing]
  <1>2. state \in ProbeState
    <2>1. <<>> \in Seq(Line) /\ file \in Seq(Line)
      BY DEF Inv, TypeOK
    <2>2. host \in Host /\ lines \in Seq(Line)
      BY <2>1, HostKeysAssumption
    <2> QED BY <2>2 DEF ProbeState
  <1>3. ProbeFits(state)
    BY HostKeysAssumption DEF ProbeFits
  <1>4. \A i \in DOMAIN lines : lines[i].host # Nothing => Pair(lines[i]) \in once
    BY DEF Inv, LinesFit
  <1> QED BY <1>1, <1>2, <1>3, <1>4, ProbeStep DEF TestConnection

\* A key is saved only where the user knows it.
LEMMA SaveFits ==
    ASSUME Inv, NEW host \in Host, NEW key \in Key, Known(host, key), Save(host, key)
    PROVE  /\ cache' \in [Host \X {TypeOf[k] : k \in Key} -> Key \cup {Nothing}]
           /\ \A c \in DOMAIN cache' : cache'[c] # Nothing => Known(c[1], cache'[c])
  <1>1. cache \in [Host \X {TypeOf[k] : k \in Key} -> Key \cup {Nothing}]
    BY DEF Inv, TypeOK
  <1>2. <<host, TypeOf[key]>> \in DOMAIN cache
    BY <1>1
  <1>3. cache' = [cache EXCEPT ![<<host, TypeOf[key]>>] = key]
    BY DEF Save
  <1>4. ASSUME NEW c \in DOMAIN cache', cache'[c] # Nothing PROVE Known(c[1], cache'[c])
    <2>1. CASE c = <<host, TypeOf[key]>>
      BY <1>2, <1>3, <2>1
    <2>2. CASE c # <<host, TypeOf[key]>>
      BY <1>3, <1>4, <2>2 DEF Inv
    <2> QED BY <2>1, <2>2
  <1> QED BY <1>1, <1>3, <1>4

\* The result goes on the screen and, trusted, into the cache.
LEMMA RecordInv ==
    ASSUME Inv, NEW p \in Probe, RecordTest(p)
    PROVE  Inv'
  <1> DEFINE result == probes[p].result
  <1>1. ResultFits(probes[p], result) /\ probes[p].host \in Host
    BY DEF RecordTest, At, Inv, ProbeFits
  <1>2. /\ shown' = result
        /\ UNCHANGED <<file, audit, server, accepting, trusted, once>>
    BY DEF RecordTest, history
  <1>3. NoProbe \in ProbeState /\ NoProbe.lines = <<>> /\ ProbeFits(NoProbe)
    BY DEF NoProbe, ProbeState, ProbeFits
  <1>4. /\ probes' \in [Probe -> ProbeState]
        /\ \A q \in Probe : probes'[q] = probes[q] \/ probes'[q] = NoProbe
    BY <1>3 DEF RecordTest, Inv, TypeOK
  <1>5. /\ cache' \in [Host \X {TypeOf[k] : k \in Key} -> Key \cup {Nothing}]
        /\ \A c \in DOMAIN cache' : cache'[c] # Nothing => Known(c[1], cache'[c])
    <2>1. CASE result.status = "TRUSTED" /\ Save(probes[p].host, result.key)
      BY <1>1, <2>1, SaveFits DEF ResultFits
    <2>2. CASE cache' = cache
      BY <2>2 DEF Inv, TypeOK
    <2> QED BY <2>1, <2>2 DEF RecordTest
  <1>6. TypeOK'
    BY <1>1, <1>2, <1>4, <1>5 DEF Inv, TypeOK, ResultFits
  <1>7. LinesFit'
    BY <1>2, <1>3, <1>4 DEF Inv, LinesFit
  <1>8. ASSUME NEW q \in Probe PROVE ProbeFits(probes[q])'
    <2>1. CASE probes'[q] = probes[q]
      BY <1>2, <2>1 DEF Inv, ProbeFits, ResultFits, About, Known
    <2>2. CASE probes'[q] = NoProbe
      BY <2>2 DEF NoProbe, ProbeFits
    <2> QED BY <1>4, <2>1, <2>2
  <1>9. ShownFits'
    <2>1. result.status # "UNVERIFIED" => result.key \in Key
      BY <1>1 DEF ResultFits, ConnectionTestResult
    <2>2. result.status = "TRUSTED" => Known(result.host, result.key)
      BY <1>1 DEF ResultFits
    <2> HIDE DEF result
    <2> QED BY <1>2, <2>1, <2>2 DEF ShownFits, Known
  <1>10. \A c \in DOMAIN cache' : cache'[c] # Nothing => Known(c[1], cache[c])'
    BY <1>2, <1>5 DEF Known
  <1>11. (accepting # Nothing => Known(Hostname, accepting))'
    BY <1>2 DEF Inv, Known
  <1>12. (\A key \in audit : Known(Hostname, key))'
    BY <1>2 DEF Inv, Known
  <1> QED BY <1>6, <1>7, <1>8, <1>9, <1>10, <1>11, <1>12 DEF Inv

\* A step outside the probes that gives the user's trust to what it writes.  What was
\* known stays known.
LEMMA TrustInv ==
    ASSUME Inv, NEW line \in Line, line.host # Nothing,
           file' = Append(file, line), Trust(Pair(line)),
           UNCHANGED <<cache, audit, server, probes, shown>>,
           accepting' = accepting \/ (line.host = Hostname /\ accepting' = line.key)
    PROVE  Inv'
  <1>1. /\ trusted' = trusted \cup {Pair(line)} /\ once' = once \cup {Pair(line)}
        /\ Pair(line) \in Trusts
    BY DEF Trust, Pair, Line, Trusts
  <1>2. \A host, key : Known(host, key) => Known(host, key)'
    BY <1>1 DEF Known
  <1>3. /\ file' \in Seq(Line)
        /\ \A i \in DOMAIN file' : file'[i] = line \/ (i \in DOMAIN file /\ file'[i] = file[i])
    BY DEF Inv, TypeOK
  <1>4. accepting' = accepting \/ (accepting' \in Key /\ Known(Hostname, accepting)')
    BY <1>1 DEF Pair, Line, Known
  <1>5. TypeOK'
    BY <1>1, <1>3, <1>4 DEF Inv, TypeOK
  <1>6. LinesFit'
    BY <1>1, <1>3 DEF Inv, LinesFit
  <1>7. ASSUME NEW q \in Probe PROVE ProbeFits(probes[q])'
    BY <1>2 DEF Inv, ProbeFits, ResultFits, About
  <1>8. ShownFits'
    BY <1>2 DEF Inv, ShownFits
  <1>9. (accepting # Nothing => Known(Hostname, accepting))'
    BY <1>2, <1>4 DEF Inv
  <1>10. /\ (\A c \in DOMAIN cache : cache[c] # Nothing => Known(c[1], cache[c]))'
         /\ (\A key \in audit : Known(Hostname, key))'
    BY <1>2 DEF Inv
  <1> QED BY <1>5, <1>6, <1>7, <1>8, <1>9, <1>10 DEF Inv

\* The acceptance and its records.
LEMMA AcceptInv ==
    ASSUME Inv, AcceptAndSave \/ RecordAcceptance \/ SaveFails
    PROVE  Inv'
  <1> USE HostKeysAssumption
  <1>1. CASE AcceptAndSave
    <2> DEFINE line == [host |-> Hostname, key |-> shown.key, hashed |-> FALSE]
    <2>1. shown.key \in Key
      BY <1>1 DEF AcceptAndSave, CanAccept, Inv, ShownFits
    <2>2. line \in Line /\ line.host # Nothing /\ line.key = shown.key /\ line.host = Hostname
          /\ Pair(line) = [host |-> Hostname, key |-> shown.key]
      BY <2>1 DEF Line, Pair
    <2> QED BY <1>1, <2>2, TrustInv DEF AcceptAndSave
  <1>2. CASE RecordAcceptance
    <2>1. accepting \in Key /\ Known(Hostname, accepting)
      BY <1>2 DEF RecordAcceptance, Inv, TypeOK
    <2>2. /\ UNCHANGED <<file, server, probes, shown, trusted, once>>
          /\ accepting' = Nothing /\ audit' \subseteq audit \cup {accepting}
      BY <1>2 DEF RecordAcceptance, history
    <2>3. /\ cache' \in [Host \X {TypeOf[k] : k \in Key} -> Key \cup {Nothing}]
          /\ \A c \in DOMAIN cache' : cache'[c] # Nothing => Known(c[1], cache'[c])
      BY <1>2, <2>1, SaveFits DEF RecordAcceptance
    <2>4. TypeOK'
      BY <2>1, <2>2, <2>3 DEF Inv, TypeOK
    <2>5. LinesFit' /\ ShownFits'
      BY <2>2 DEF Inv, LinesFit, ShownFits, Known
    <2>6. ASSUME NEW q \in Probe PROVE ProbeFits(probes[q])'
      BY <2>2 DEF Inv, ProbeFits, ResultFits, About, Known
    <2>7. (\A c \in DOMAIN cache : cache[c] # Nothing => Known(c[1], cache[c]))'
      BY <2>2, <2>3 DEF Known
    <2>8. (\A key \in audit : Known(Hostname, key))'
      BY <2>1, <2>2 DEF Inv, Known
    <2> QED BY <2>2, <2>4, <2>5, <2>6, <2>7, <2>8 DEF Inv
  <1>3. CASE SaveFails
    <2>1. UNCHANGED <<file, cache, audit, server, probes, shown, trusted, once>>
          /\ accepting' = Nothing
      BY <1>3 DEF SaveFails, history
    <2> QED BY <2>1 DEF Inv, TypeOK, LinesFit, ShownFits, ProbeFits, ResultFits, About, Known
  <1> QED BY <1>1, <1>2, <1>3

\* The user removes a host: its lines stay as empty ones, and its keys are no longer
\* trusted, though they were.
LEMMA ForgetInv ==
    ASSUME Inv, NEW host \in Host, Forget(host)
    PROVE  Inv'
  <1>1. /\ trusted' = {pair \in trusted : pair.host # host}
        /\ UNCHANGED <<cache, audit, server, probes, shown, accepting, once>>
        /\ file' = [i \in DOMAIN file |-> IF file[i].host = host
                                          THEN [file[i] EXCEPT !.host = Nothing] ELSE file[i]]
    BY DEF Forget
  <1>2. file \in Seq(Line) /\ \A i \in DOMAIN file : file[i] \in Line
    BY DEF Inv, TypeOK
  <1>3. \A i \in DOMAIN file : file'[i] \in Line /\ (file'[i] = file[i] \/ file'[i].host = Nothing)
    BY <1>1, <1>2 DEF Line
  <1>4. DOMAIN file' = DOMAIN file /\ DOMAIN file = 1 .. Len(file) /\ Len(file) \in Nat
    BY <1>1, <1>2
  <1>5. file' \in Seq(Line)
    <2>1. file' = [i \in 1 .. Len(file) |-> file'[i]]
      BY <1>1, <1>4
    <2> QED BY <1>3, <1>4, <2>1
  <1>6. \A i \in DOMAIN file' : file'[i].host # Nothing => Pair(file'[i]) \in trusted'
    <2> SUFFICES ASSUME NEW i \in DOMAIN file, file'[i].host # Nothing
                 PROVE  Pair(file'[i]) \in trusted'
      BY <1>4
    <2>1. file[i].host # host
      BY <1>1
    <2>2. file'[i] = file[i]
      BY <1>3
    <2>3. Pair(file[i]) \in trusted /\ Pair(file[i]).host = file[i].host
      BY <2>2 DEF Inv, LinesFit, Pair
    <2> QED BY <1>1, <2>1, <2>2, <2>3
  <1>7. TypeOK'
    BY <1>1, <1>5 DEF Inv, TypeOK
  <1>8. LinesFit'
    BY <1>1, <1>6 DEF Inv, LinesFit
  <1>9. ASSUME NEW q \in Probe PROVE ProbeFits(probes[q])'
    BY <1>1 DEF Inv, ProbeFits, ResultFits, About, Known
  <1>10. ShownFits'
    BY <1>1 DEF Inv, ShownFits, Known
  <1> QED BY <1>1, <1>7, <1>8, <1>9, <1>10 DEF Inv, Known

\* The server gets other keys; the application starts anew.
LEMMA RestInv ==
    ASSUME Inv, Rekey \/ Restart \/ UNCHANGED vars
    PROVE  Inv'
  <1>1. CASE Rekey \/ UNCHANGED vars
    <2>1. UNCHANGED <<file, cache, audit, probes, shown, accepting, trusted, once>>
      BY <1>1 DEF Rekey, vars, history
    <2>2. TypeOK'
      BY <1>1, <2>1 DEF Inv, TypeOK, Rekey, vars
    <2> QED BY <2>1, <2>2 DEF Inv, LinesFit, ShownFits, ProbeFits, ResultFits, About, Known
  <1>2. CASE Restart
    <2>1. /\ UNCHANGED <<file, cache, audit, server, trusted, once>>
          /\ probes' = [p \in Probe |-> NoProbe] /\ shown' = Nothing /\ accepting' = Nothing
      BY <1>2 DEF Restart, history
    <2>2. NoProbe \in ProbeState
      BY DEF NoProbe, ProbeState
    <2>3. TypeOK'
      BY <2>1, <2>2 DEF Inv, TypeOK
    <2>4. LinesFit' /\ ShownFits'
      BY <2>1 DEF Inv, LinesFit, ShownFits, NoProbe
    <2>5. ASSUME NEW q \in Probe PROVE ProbeFits(probes[q])'
      BY <2>1 DEF NoProbe, ProbeFits
    <2> QED BY <2>1, <2>3, <2>4, <2>5 DEF Inv, Known
  <1> QED BY <1>1, <1>2

\* Every step keeps the invariant.
LEMMA NextInv == Inv /\ [Next]_vars => Inv'
  <1> SUFFICES ASSUME Inv, [Next]_vars PROVE Inv'
    OBVIOUS
  <1> USE HostKeysAssumption
  <1>1. ASSUME NEW p \in Probe, TestConnection(p) PROVE Inv'
    BY <1>1, TestInv
  <1>2. ASSUME NEW p \in Probe, FetchHostKey(p) PROVE Inv'
    BY <1>2, FetchInv
  <1>3. ASSUME NEW p \in Probe, KeyscanFails(p) \/ Login(p) \/ LoginFails(p) PROVE Inv'
    BY <1>3, AnswerInv
  <1>4. ASSUME NEW p \in Probe, RecordTest(p) PROVE Inv'
    BY <1>4, RecordInv
  <1>5. CASE AcceptAndSave \/ RecordAcceptance \/ SaveFails
    BY <1>5, AcceptInv
  <1>6. CASE AcceptFails
    BY <1>6, RestInv DEF AcceptFails
  <1>7. ASSUME NEW line \in Foreign, OwnSsh(line) PROVE Inv'
    <2>1. line \in Line /\ line.host # Nothing
      BY DEF Line
    <2> QED BY <1>7, <2>1, TrustInv DEF OwnSsh
  <1>8. ASSUME NEW host \in Host, Forget(host) PROVE Inv'
    BY <1>8, ForgetInv
  <1>9. CASE Rekey \/ Restart \/ UNCHANGED vars
    BY <1>9, RestInv
  <1> QED BY <1>1, <1>2, <1>3, <1>4, <1>5, <1>6, <1>7, <1>8, <1>9 DEF Next

-----------------------------------------------------------------------------

\* Whatever says trusted can be traced to the user, in every state.
THEOREM Invariance == Spec => []Inv
  <1> QED BY InitInv, NextInv, PTL DEF Spec

\* Type correctness: the file, the tables, the probes and the dialogs.
THEOREM TypeCorrect == Spec => []TypeOK
  <1>1. Inv => TypeOK
    BY DEF Inv
  <1> QED BY <1>1, Invariance, PTL

\* What is shown or cached as trusted the user did trust under that very name.
THEOREM TrustTraced == Spec => []TrustFollowsUser
  <1>1. Inv => TrustFollowsUser
    <2> SUFFICES ASSUME Inv PROVE TrustFollowsUser
      OBVIOUS
    <2>1. shown # Nothing /\ shown.status = "TRUSTED" => Known(shown.host, shown.key)
      BY DEF Inv, ShownFits
    <2>2. ASSUME NEW p \in Probe, probes[p].result # Nothing, probes[p].result.status = "TRUSTED"
          PROVE  Known(probes[p].result.host, probes[p].result.key)
      BY <2>2 DEF Inv, TypeOK, ProbeState, ProbeFits, ResultFits
    <2> QED BY <2>1, <2>2 DEF Inv, TrustFollowsUser, Known
  <1> QED BY <1>1, Invariance, PTL

\* A key that replaces one the user accepted is a change, never a new host.
THEOREM ChangeWarned == Spec => []ReplacedKeyWarned
  <1>1. Inv => ReplacedKeyWarned
    <2> SUFFICES ASSUME Inv, NEW p \in Probe, probes[p].result # Nothing,
                        probes[p].result.key # Nothing,
                        ~Known(probes[p].result.host, probes[p].result.key),
                        About(probes[p].lines, probes[p].result.host) # {}
                 PROVE  probes[p].result.status = "CHANGED_WARNING"
      BY DEF ReplacedKeyWarned, Known
    <2>1. ResultFits(probes[p], probes[p].result)
      BY DEF Inv, TypeOK, ProbeState, ProbeFits
    <2> QED BY <2>1 DEF ResultFits, ConnectionTestResult, HostKeyStatus
  <1> QED BY <1>1, Invariance, PTL

\* No acceptance is on record whose key did not go into the file.
THEOREM AcceptanceTrue == Spec => []AcceptedEventTrue
  <1>1. Inv => AcceptedEventTrue
    BY DEF Inv, AcceptedEventTrue, Known
  <1> QED BY <1>1, Invariance, PTL

\* A successful login finds a line that the user trusts now.
LEMMA LoginTrusted ==
    ASSUME Inv, NEW p \in Probe, Login(p)
    PROVE  \E key \in server : [host |-> probes[p].host, key |-> key] \in trusted
  <1>1. PICK key \in server : SshKnows(probes[p].host, key)
    BY DEF Login
  <1>2. PICK i \in DOMAIN file : file[i].host = probes[p].host /\ file[i].key = key
    BY <1>1 DEF SshKnows
  <1>3. probes[p].host \in Host /\ probes[p].host # Nothing
    BY HostKeysAssumption DEF Login, At, Inv, ProbeFits
  <1>4. Pair(file[i]) \in trusted
    BY <1>2, <1>3 DEF Inv, LinesFit
  <1> QED BY <1>2, <1>4 DEF Pair

\* Only Login leads a probe from the login to a success.
LEMMA OnlyLogin ==
    ASSUME Inv, [Next]_vars, NEW p \in Probe, probes[p].pc = "login",
           probes'[p].pc = "answer", probes'[p].result.success
    PROVE  Login(p)
  <1>1. probes \in [Probe -> ProbeState]
    BY DEF Inv, TypeOK
  <1>2. probes' # probes
    <2>1. probes[p].pc # probes'[p].pc
      OBVIOUS
    <2> QED BY <2>1
  <1>3. PICK q \in Probe : TestConnection(q) \/ FetchHostKey(q) \/ KeyscanFails(q)
                           \/ Login(q) \/ LoginFails(q) \/ RecordTest(q)
    <2>1. ~Restart
      BY DEF Restart, NoProbe
    <2> QED BY <1>2, <2>1 DEF Next, vars, AcceptAndSave, AcceptFails, RecordAcceptance, SaveFails,
                              OwnSsh, Forget, Rekey
  <1>4. q = p
    <2>1. ASSUME q # p PROVE probes'[p] = probes[p]
      BY <1>1, <1>3, <2>1 DEF TestConnection, FetchHostKey, KeyscanFails, Login, LoginFails,
                              RecordTest, Answer
    <2> QED BY <2>1
  <1>5. ~LoginFails(p)
    BY <1>1 DEF LoginFails, Answer, ProbeState
  <1> QED BY <1>3, <1>4, <1>5 DEF TestConnection, FetchHostKey, KeyscanFails, RecordTest, At

\* No login succeeds at a server that holds no key the user trusts at that moment.
THEOREM LoginSafe == Spec => LoginBehindTrustedKey
  <1> DEFINE Safe == \A p \in Probe :
               At(p, "login") /\ At(p, "answer")' /\ probes'[p].result.success
                 => \E key \in server : [host |-> probes[p].host, key |-> key] \in trusted
  <1>1. Inv /\ [Next]_vars => [Safe]_vars
    BY LoginTrusted, OnlyLogin DEF At
  <1> QED BY <1>1, Invariance, PTL DEF Spec, LoginBehindTrustedKey
=================================================================================
