------------------------- MODULE DesktopShownProofs -------------------------
(***************************************************************************)
(* Proofs that what the desktop interface acts on is what it shows, and    *)
(* that what it shows is what is stored, for every value of its constants: *)
(* the windows of the inventory, App, and the files.  Each part goes by    *)
(* how the queue of calls moves: a step takes at most the first call and   *)
(* adds some, and most steps neither take nor add a call that matters.     *)
(***************************************************************************)
EXTENDS DesktopProofs

-----------------------------------------------------------------------------
(* Queues that move *)

\* A queue from which the first d calls have been taken and to which others
\* have been added.
Moved(q, d, calls, new) ==
    /\ d \in {0, 1} /\ IsSeq(new) /\ Len(q) - d \in Nat /\ DOMAIN q = 1 .. Len(q)
    /\ \A i \in DOMAIN new :
          \/ i <= Len(q) - d /\ i + d \in DOMAIN q /\ new[i] = q[i + d]
          \/ i > Len(q) - d /\ \E j \in DOMAIN calls : i = Len(q) - d + j /\ new[i] = calls[j]
    /\ \A i \in DOMAIN q : i > d => i - d \in DOMAIN new /\ new[i - d] = q[i]
    /\ \A j \in DOMAIN calls : Len(q) - d + j \in DOMAIN new /\ new[Len(q) - d + j] = calls[j]

\* Added to.
LEMMA PushMoves ==
    ASSUME NEW q, NEW calls, IsSeq(q), IsSeq(calls)
    PROVE  Moved(q, 0, calls, q \o calls)
  <1> DEFINE S == ToSet(q) \cup ToSet(calls)
  <1>1. q \in Seq(ToSet(q)) /\ calls \in Seq(ToSet(calls))
    BY SeqOfOwn
  <1>2. q \in Seq(S) /\ calls \in Seq(S)
    BY <1>1
  <1> HIDE DEF S
  <1> DEFINE new == q \o calls
  <1>3. new \in Seq(S) /\ Len(new) = Len(q) + Len(calls) /\ Len(q) \in Nat /\ Len(calls) \in Nat
    BY <1>2
  <1>4. /\ \A i \in 1 .. Len(q) : new[i] = q[i]
        /\ \A j \in 1 .. Len(calls) : new[Len(q) + j] = calls[j]
    BY <1>2
  <1>5. DOMAIN q = 1 .. Len(q) /\ DOMAIN calls = 1 .. Len(calls) /\ DOMAIN new = 1 .. Len(q) + Len(calls)
    BY <1>2, <1>3
  <1>6. IsSeq(new)
    BY <1>3, OwnSeq
  <1> HIDE DEF new
  <1>7. \A i \in DOMAIN new :
          \/ i <= Len(q) /\ i \in DOMAIN q /\ new[i] = q[i]
          \/ i > Len(q) /\ \E j \in DOMAIN calls : i = Len(q) + j /\ new[i] = calls[j]
    <2> SUFFICES ASSUME NEW i \in DOMAIN new, i > Len(q)
                 PROVE  \E j \in DOMAIN calls : i = Len(q) + j /\ new[i] = calls[j]
      BY <1>3, <1>4, <1>5
    <2>1. i - Len(q) \in DOMAIN calls /\ i = Len(q) + (i - Len(q))
      BY <1>3, <1>5
    <2> QED BY <1>4, <1>5, <2>1
  <1>8. Moved(q, 0, calls, new)
    <2>1. Len(q) - 0 = Len(q) /\ \A i \in DOMAIN new : i + 0 = i
      BY <1>3, <1>5
    <2>2. \A i \in DOMAIN q : i - 0 = i /\ i \in DOMAIN new /\ new[i] = q[i]
      BY <1>3, <1>4, <1>5
    <2>3. \A j \in DOMAIN calls : Len(q) + j \in DOMAIN new /\ new[Len(q) + j] = calls[j]
      BY <1>3, <1>4, <1>5
    <2>4. Len(q) - 0 \in Nat
      BY <1>3
    <2> QED BY <1>5, <1>6, <1>7, <2>1, <2>2, <2>3, <2>4 DEF Moved
  <1> QED BY <1>8 DEF new

\* Taken from, and added to.
LEMMA PopMoves ==
    ASSUME NEW q, NEW calls, IsSeq(q), IsSeq(calls), q # <<>>
    PROVE  Moved(q, 1, calls, Tail(q) \o calls)
  <1> DEFINE S == ToSet(q) \cup ToSet(calls)
  <1>1. q \in Seq(ToSet(q)) /\ calls \in Seq(ToSet(calls))
    BY SeqOfOwn
  <1>2. q \in Seq(S) /\ calls \in Seq(S)
    BY <1>1
  <1> HIDE DEF S
  <1> DEFINE t == Tail(q)
             m == Len(q) - 1
  <1>20. /\ t \in Seq(S) /\ Len(t) = m /\ m \in Nat /\ Len(q) \in Nat
         /\ \A i \in 1 .. m : t[i] = q[i + 1]
    BY <1>2
  <1>200. m = Len(q) - 1
    OBVIOUS
  <1> HIDE DEF t, m
  <1>21. \A i \in 1 .. m : i + 1 \in 1 .. Len(q)
    BY <1>20, <1>200
  <1>22. \A i \in 1 .. Len(q) : i > 1 => i - 1 \in 1 .. m /\ (i - 1) + 1 = i
    BY <1>20, <1>200
  <1> DEFINE new == t \o calls
  <1>3. new \in Seq(S) /\ Len(new) = m + Len(calls) /\ Len(calls) \in Nat
    <2>0. t \in Seq(S) /\ calls \in Seq(S)
      BY <1>2, <1>20
    <2>1. new \in Seq(S)
      BY <2>0
    <2>2. Len(new) = Len(t) + Len(calls)
      BY <2>0
    <2>3. Len(calls) \in Nat
      BY <2>0
    <2> QED BY <1>20, <2>1, <2>2, <2>3
  <1>4. /\ \A i \in 1 .. m : new[i] = t[i]
        /\ \A j \in 1 .. Len(calls) : new[m + j] = calls[j]
    BY <1>2, <1>20
  <1>5. DOMAIN q = 1 .. Len(q) /\ DOMAIN calls = 1 .. Len(calls) /\ DOMAIN new = 1 .. m + Len(calls)
    BY <1>2, <1>3
  <1>6. IsSeq(new)
    BY <1>3, OwnSeq
  <1>40. \A i \in 1 .. m : new[i] = q[i + 1]
    BY <1>4, <1>20
  <1> HIDE DEF new
  <1>7. \A i \in DOMAIN new :
          \/ i <= m /\ i + 1 \in DOMAIN q /\ new[i] = q[i + 1]
          \/ i > m /\ \E j \in DOMAIN calls : i = m + j /\ new[i] = calls[j]
    <2> SUFFICES ASSUME NEW i \in DOMAIN new
                 PROVE  \/ i <= m /\ i + 1 \in DOMAIN q /\ new[i] = q[i + 1]
                        \/ i > m /\ \E j \in DOMAIN calls : i = m + j /\ new[i] = calls[j]
      OBVIOUS
    <2>1. CASE i <= m
      <3>1. i \in 1 .. m
        BY <1>3, <1>5, <1>20, <2>1
      <3> QED BY <1>5, <1>21, <1>40, <2>1, <3>1
    <2>2. CASE i > m
      <3>1. i - m \in DOMAIN calls /\ i = m + (i - m)
        BY <1>3, <1>5, <1>20, <2>2
      <3> QED BY <1>4, <1>5, <2>2, <3>1
    <2> QED BY <1>3, <1>5, <1>20, <2>1, <2>2
  <1>8. \A i \in DOMAIN q : i > 1 => i - 1 \in DOMAIN new /\ new[i - 1] = q[i]
    <2> SUFFICES ASSUME NEW i \in DOMAIN q, i > 1
                 PROVE  i - 1 \in DOMAIN new /\ new[i - 1] = q[i]
      OBVIOUS
    <2>1. i - 1 \in 1 .. m /\ (i - 1) + 1 = i
      BY <1>5, <1>22
    <2>2. i - 1 \in DOMAIN new
      BY <1>3, <1>5, <1>20, <2>1
    <2> QED BY <1>40, <2>1, <2>2
  <1>9. \A j \in DOMAIN calls : m + j \in DOMAIN new /\ new[m + j] = calls[j]
    <2> SUFFICES ASSUME NEW j \in DOMAIN calls
                 PROVE  m + j \in DOMAIN new /\ new[m + j] = calls[j]
      OBVIOUS
    <2>1. j \in 1 .. Len(calls)
      BY <1>5
    <2>2. m + j \in 1 .. m + Len(calls)
      BY <1>3, <1>20, <2>1
    <2> QED BY <1>4, <1>5, <2>1, <2>2
  <1>10. Moved(q, 1, calls, new)
    BY <1>5, <1>6, <1>7, <1>8, <1>9, <1>20, <1>200 DEF Moved
  <1> QED BY <1>10 DEF new, t

\* What the windows rely on is not disturbed by other calls.
LEMMA WindowKeeps ==
    ASSUME NEW s, NEW of, NEW kind, NEW mount, NEW q, WindowFits(s, of, kind, mount, q),
           NEW d, NEW calls, NEW new, Moved(q, d, calls, new),
           \A i \in DOMAIN calls : calls[i].k # kind,
           d = 1 => q[1].k # kind \/ q[1].on # mount
    PROVE  WindowFits(s, of, kind, mount, new)
  <1>1. \A i \in DOMAIN new : new[i].on = mount /\ new[i].k = kind => new[i].x = s
    BY DEF Moved, WindowFits
  <1>2. ASSUME NEW i \in DOMAIN q, q[i].on = mount /\ q[i].k = kind
        PROVE  \E j \in DOMAIN new : new[j].on = mount /\ new[j].k = kind
    <2>1. i > d
      BY <1>2 DEF Moved
    <2>2. i - d \in DOMAIN new /\ new[i - d] = q[i]
      BY <2>1 DEF Moved
    <2> QED BY <1>2, <2>2
  <1> QED BY <1>1, <1>2 DEF WindowFits

-----------------------------------------------------------------------------
(* The two windows *)

\* A call that neither reads for a window nor operates in one.
Calm(c) == c.op \notin WindowOps /\ c.k \notin WindowKinds

\* It is one of the two kinds of move.
LEMMA AnyMove ==
    ASSUME Base, NEW calls, IsSeq(calls)
    PROVE  /\ queue' = queue \o calls => Moved(queue, 0, calls, queue')
           /\ queue # <<>> /\ queue' = Tail(queue) \o calls =>
                Moved(queue, 1, calls, queue') /\ Head(queue) = queue[1] /\ 1 \in DOMAIN queue
  <1>1. IsSeq(queue)
    BY DEF Base, QueueFits
  <1> QED BY <1>1, PushMoves, PopMoves, TailSeq

\* Each call in flight is an old one or a new one.
LEMMA ActsKept ==
    ASSUME \A i \in DOMAIN queue : ActsOnShown(queue[i]),
           NEW d, NEW calls, Moved(queue, d, calls, queue'),
           \A i \in DOMAIN calls : ActsOnShown(calls[i])
    PROVE  \A i \in DOMAIN queue' : ActsOnShown(queue'[i])
  BY DEF Moved

\* So with the windows.
LEMMA WindowsKept ==
    ASSUME NEW me, WindowsFit(me, queue),
           NEW d, NEW calls, Moved(queue, d, calls, queue'),
           \A i \in DOMAIN calls : calls[i].k \notin WindowKinds,
           d = 1 => queue[1].k \notin WindowKinds \/ queue[1].on # me.mount
    PROVE  WindowsFit(me, queue')
  <1>1. "diagnosed" \in WindowKinds /\ "panel read" \in WindowKinds
    BY DEF WindowKinds
  <1> QED BY <1>1, WindowKeeps DEF WindowsFit

\* A step that leaves the inventory alone and concerns no window.
LEMMA WindowsCalm ==
    ASSUME Base, Windows, tabs'["Servers"] = tabs["Servers"],
           NEW calls, IsSeq(calls), \A i \in DOMAIN calls : Calm(calls[i]),
           \/ queue' = queue \o calls
           \/ queue # <<>> /\ Head(queue).k \notin WindowKinds /\ queue' = Tail(queue) \o calls
    PROVE  Windows'
  <1>1. PICK d : Moved(queue, d, calls, queue') /\ (d = 1 => queue[1].k \notin WindowKinds)
    <2>1. CASE queue' = queue \o calls
      BY <2>1, AnyMove
    <2>2. CASE queue # <<>> /\ Head(queue).k \notin WindowKinds /\ queue' = Tail(queue) \o calls
      BY <2>2, AnyMove
    <2> QED BY <2>1, <2>2
  <1>2. \A i \in DOMAIN queue' : ActsOnShown(queue'[i])
    BY <1>1, ActsKept DEF Calm, ActsOnShown, Windows
  <1>3. Open("Servers")' => WindowsFit(Servers', queue')
    BY <1>1, WindowsKept DEF Windows, Open, Servers, Calm
  <1> QED BY <1>2, <1>3 DEF Windows

\* With nothing outstanding the windows show the facts of their servers.
LEMMA WindowsSettled ==
    ASSUME Windows, Open("Servers"), ~Hurried
    PROVE  /\ Servers.diag = NoServer \/ Servers.diagOf \in {NoServer, Servers.diag}
           /\ Servers.panel = NoServer \/ Servers.panelOf \in {NoServer, Servers.panel}
           /\ Servers.target \in {NoServer, Servers.panel}
  BY DEF Windows, WindowsFit, WindowFits, Hurried, Outstanding

\* What a window shows after a step of the operator, with nothing outstanding before.
LEMMA WindowAnew ==
    ASSUME Base, NEW mount, \A i \in DOMAIN queue : queue[i].on # mount,
           NEW calls, Moved(queue, 0, calls, queue'), NEW s, NEW of, NEW kind,
           WindowFits(s, of, kind, mount, calls)
    PROVE  WindowFits(s, of, kind, mount, queue')
  <1>1. \A i \in DOMAIN queue' : queue'[i].on = mount /\ queue'[i].k = kind => queue'[i].x = s
    BY DEF Moved, WindowFits
  <1>2. (\E i \in DOMAIN calls : calls[i].on = mount /\ calls[i].k = kind) =>
           \E i \in DOMAIN queue' : queue'[i].on = mount /\ queue'[i].k = kind
    BY DEF Moved
  <1> QED BY <1>1, <1>2 DEF WindowFits

\* A step of the operator in the inventory.
LEMMA WindowsDoing ==
    ASSUME Base, Windows, NEW new, NEW calls, ServersDoes(new, calls),
           DOMAIN new = WindowKeys, new.mount = Servers.mount, IsSeq(calls),
           \A i \in DOMAIN calls : ActsOnShown(calls[i]),
           ~Hurried =>
             /\ WindowFits(new.diag, new.diagOf, "diagnosed", new.mount, calls)
             /\ WindowFits(new.panel, new.panelOf, "panel read", new.mount, calls)
             /\ new.target \in {NoServer, new.panel}
    PROVE  Windows'
  <1> DEFINE me == [new EXCEPT !.rush = Hurried]
  <1>1. /\ tabs' = [tabs EXCEPT !["Servers"] = me] /\ queue' = queue \o calls /\ Open("Servers")
        /\ "Servers" \in DOMAIN tabs
    BY DEF ServersDoes, Does, Base, TabsFit, TabNames
  <1>2. /\ DOMAIN me = WindowKeys /\ me.mount = new.mount /\ me.rush = Hurried
        /\ me.diag = new.diag /\ me.diagOf = new.diagOf /\ me.panel = new.panel
        /\ me.panelOf = new.panelOf /\ me.target = new.target
    BY DEF WindowKeys
  <1> HIDE DEF me
  <1>3. Servers' = me
    BY <1>1 DEF Servers
  <1>4. Moved(queue, 0, calls, queue')
    BY <1>1, AnyMove
  <1>5. \A i \in DOMAIN queue' : ActsOnShown(queue'[i])
    BY <1>4, ActsKept DEF Windows
  <1>6. WindowsFit(me, queue')
    <2>1. CASE Hurried
      BY <1>2, <2>1 DEF WindowsFit
    <2>2. CASE ~Hurried
      <3>1. \A i \in DOMAIN queue : queue[i].on # new.mount
        BY <2>2 DEF Hurried, Outstanding
      <3>2. /\ WindowFits(me.diag, me.diagOf, "diagnosed", me.mount, queue')
            /\ WindowFits(me.panel, me.panelOf, "panel read", me.mount, queue')
        BY <1>2, <1>4, <2>2, <3>1, WindowAnew
      <3> QED BY <1>2, <2>2, <3>2 DEF WindowsFit
    <2> QED BY <2>1, <2>2
  <1> QED BY <1>3, <1>5, <1>6 DEF Windows

\* What is kept of the windows by a step that is not about them.
SameWindows(new) ==
    /\ DOMAIN new = WindowKeys /\ new.mount = Servers.mount
    /\ new.diag = Servers.diag /\ new.diagOf = Servers.diagOf
    /\ new.panel = Servers.panel /\ new.panelOf = Servers.panelOf
    /\ new.target \in {NoServer, Servers.target}

\* Other calls leave a window that is true as it is.
LEMMA WindowBeside ==
    ASSUME NEW s, NEW of, s = NoServer \/ of \in {NoServer, s}, NEW kind, NEW mount, NEW calls,
           \A i \in DOMAIN calls : calls[i].k # kind
    PROVE  WindowFits(s, of, kind, mount, calls)
  BY DEF WindowFits

\* A step of the operator in the inventory that is not about the windows.
LEMMA WindowsBeside ==
    ASSUME Base, Windows, Open("Servers"), NEW new, NEW calls, ServersDoes(new, calls), SameWindows(new),
           IsSeq(calls), \A i \in DOMAIN calls : ActsOnShown(calls[i]) /\ calls[i].k \notin WindowKinds
    PROVE  Windows'
  <1>1. \A i \in DOMAIN calls : calls[i].k # "diagnosed" /\ calls[i].k # "panel read"
    BY DEF WindowKinds
  <1>2. ~Hurried =>
             /\ WindowFits(new.diag, new.diagOf, "diagnosed", new.mount, calls)
             /\ WindowFits(new.panel, new.panelOf, "panel read", new.mount, calls)
             /\ new.target \in {NoServer, new.panel}
    BY <1>1, WindowsSettled, WindowBeside DEF SameWindows
  <1> QED BY <1>2, WindowsDoing DEF SameWindows

\* Queues of at most one call that concerns no window.
LEMMA FewCalm ==
    /\ IsSeq(<<>>) /\ \A i \in DOMAIN <<>> : Calm(<<>>[i])
    /\ \A c : Calm(c) => IsSeq(<< c >>) /\ \A i \in DOMAIN << c >> : Calm(<< c >>[i])
  BY FewSeq

-----------------------------------------------------------------------------
(* What the views ask for when App changes *)

FollowKinds == {"pending", "listed", "directory", "sessions"}
FollowOps   == {"listPendingApprovals", "listConversations", "sftpListDirectory", "listTerminalSessions"}
Follows(q) == IsSeq(q) /\ \A i \in DOMAIN q : q[i].k \in FollowKinds /\ q[i].op \in FollowOps

\* Queues of at most two such calls, and queues of them joined.
LEMMA FewFollow ==
    /\ Follows(<<>>)
    /\ \A a : a.k \in FollowKinds /\ a.op \in FollowOps => Follows(<< a >>)
    /\ \A p, q : Follows(p) /\ Follows(q) => Follows(p \o q)
  <1>1. Follows(<<>>)
    BY FewSeq DEF Follows
  <1>2. ASSUME NEW a, a.k \in FollowKinds, a.op \in FollowOps
        PROVE  Follows(<< a >>)
    BY <1>2, FewSeq DEF Follows
  <1>3. ASSUME NEW p, NEW q, Follows(p), Follows(q)
        PROVE  Follows(p \o q)
    <2> DEFINE new == p \o q
    <2>1. /\ IsSeq(new)
          /\ \A i \in DOMAIN new : \/ i \in DOMAIN p /\ new[i] = p[i]
                                   \/ i - Len(p) \in DOMAIN q /\ new[i] = q[i - Len(p)]
      BY <1>3, JoinSeq DEF Follows
    <2> HIDE DEF new
    <2>2. Follows(new)
      BY <1>3, <2>1 DEF Follows
    <2> QED BY <2>2 DEF new
  <1> QED BY <1>1, <1>2, <1>3

\* The effects of the mounted views only list.
LEMMA EffectsAre ==
    ASSUME NEW a
    PROVE  Follows(Effects(a))
  <1>1. Follows(ChatFollows(a))
    <2> DEFINE c == [op |-> "listPendingApprovals", x |-> 0, k |-> "pending", e |-> 0, on |-> Chat.mount]
               d == [op |-> "listConversations", x |-> Target(a), k |-> "listed", e |-> 0, on |-> Chat.mount]
    <2>1. ChatFollows(a) \in {<<>>, << c, d >>}
      BY DEF ChatFollows, ChatEffect
    <2>2. c.k \in FollowKinds /\ c.op \in FollowOps /\ d.k \in FollowKinds /\ d.op \in FollowOps
      BY DEF FollowKinds, FollowOps
    <2> DEFINE q == << c, d >>
    <2>3. IsSeq(q) /\ DOMAIN q = {1, 2} /\ q[1] = c /\ q[2] = d
      BY FewSeq
    <2> HIDE DEF c, d, q
    <2>4. Follows(q)
      BY <2>2, <2>3 DEF Follows
    <2> QED BY <2>1, <2>4, FewFollow DEF q
  <1>2. Follows(FilesFollow(a))
    <2> DEFINE c == ListingCall(Files.mount, Target(a), Files.dir, "none")
    <2>1. FilesFollow(a) \in {<<>>, << c >>}
      BY DEF FilesFollow, FilesEffect
    <2>2. c.k \in FollowKinds /\ c.op \in FollowOps
      BY DEF FollowKinds, FollowOps, ListingCall
    <2> HIDE DEF c
    <2> QED BY <2>1, <2>2, FewFollow
  <1>3. Follows(TerminalFollows(a))
    <2> DEFINE c == SessionsCall(Terminal.mount, Target(a), Terminal.cur)
    <2>1. TerminalFollows(a) \in {<<>>, << c >>}
      BY DEF TerminalFollows
    <2>2. c.k \in FollowKinds /\ c.op \in FollowOps
      BY DEF FollowKinds, FollowOps, SessionsCall
    <2> HIDE DEF c
    <2> QED BY <2>1, <2>2, FewFollow
  <1> QED BY <1>1, <1>2, <1>3, FewFollow DEF Effects

-----------------------------------------------------------------------------
(* Steps that are not about the windows *)

\* Calls of the other views and of App are calm.
LEMMA CalmCalls ==
    /\ \A q : AsideCalls(q) => \A i \in DOMAIN q : Calm(q[i])
    /\ \A q : FilesCalls(q) => \A i \in DOMAIN q : Calm(q[i])
    /\ \A q : Follows(q) => \A i \in DOMAIN q : Calm(q[i])
    /\ \A q, mode : ModeQueue(q, mode) => \A i \in DOMAIN q : Calm(q[i])
    /\ \A k \in FilesKinds \cup AppKinds : k \notin WindowKinds
    /\ \A k : k \notin LoudKinds => k \notin WindowKinds
  <1>1. WindowKinds \subseteq LoudKinds
    BY DEF LoudKinds
  <1>2. \A q : AsideCalls(q) => \A i \in DOMAIN q : Calm(q[i])
    BY <1>1 DEF AsideCalls, Aside, Calm
  <1>3. \A op \in FilesOps \cup FollowOps : op \notin WindowOps
    BY DEF FilesOps, FollowOps, WindowOps
  <1>4. \A k \in FilesKinds \cup AppKinds \cup FollowKinds : k \notin WindowKinds
    BY DEF FilesKinds, AppKinds, LaunchKinds, ListKinds, ChangeKinds, FollowKinds, WindowKinds
  <1>5. \A q : FilesCalls(q) => \A i \in DOMAIN q : Calm(q[i])
    BY <1>3, <1>4 DEF FilesCalls, Calm
  <1>6. \A q : Follows(q) => \A i \in DOMAIN q : Calm(q[i])
    BY <1>3, <1>4 DEF Follows, Calm
  <1>7. \A q, mode : ModeQueue(q, mode) => \A i \in DOMAIN q : Calm(q[i])
    BY <1>1 DEF ModeQueue, Calm
  <1> QED BY <1>1, <1>2, <1>4, <1>5, <1>6, <1>7

\* Steps of the chat, the terminal, the settings and the activity.
LEMMA WindowsAside ==
    ASSUME Base, Windows, AsideStep
    PROVE  Windows'
  <1>1. PICK calls : /\ AsideCalls(calls)
                     /\ \/ queue' = queue \o calls
                        \/ queue # <<>> /\ Head(queue).k \notin LoudKinds /\ queue' = Tail(queue) \o calls
    BY DEF AsideStep
  <1>2. tabs'["Servers"] = tabs["Servers"] /\ IsSeq(calls)
    BY <1>1 DEF AsideStep, AsideCalls
  <1> QED BY <1>1, <1>2, CalmCalls, WindowsCalm

\* Steps of the files view.
LEMMA WindowsFiles ==
    ASSUME Base, Windows, FilesStep
    PROVE  Windows'
  <1>1. PICK calls : FilesCalls(calls) /\ (Pushes(calls) \/ Pops(FilesKinds, calls))
    BY DEF FilesStep
  <1>2. tabs'["Servers"] = tabs["Servers"] /\ IsSeq(calls)
    BY <1>1 DEF FilesStep, FilesCalls
  <1>3. \A i \in DOMAIN calls : Calm(calls[i])
    BY <1>1, CalmCalls
  <1>4. \/ queue' = queue \o calls
        \/ queue # <<>> /\ Head(queue).k \notin WindowKinds /\ queue' = Tail(queue) \o calls
    BY <1>1, CalmCalls DEF Pushes, Pops
  <1> QED BY <1>2, <1>3, <1>4, WindowsCalm

\* Changes of the mode and of the active server.
LEMMA WindowsHeader ==
    ASSUME Base, Windows, ModeStep \/ \E s : SelectServer(s)
    PROVE  Windows'
  <1>1. CASE ModeStep
    <2>1. PICK calls : ModeQueue(calls, app'.mode) /\ queue' = queue \o calls
      BY <1>1 DEF ModeStep
    <2>2. tabs'["Servers"] = tabs["Servers"] /\ IsSeq(calls)
      BY <1>1, <2>1 DEF ModeStep, ModeQueue
    <2>3. \A i \in DOMAIN calls : Calm(calls[i])
      BY <2>1, CalmCalls
    <2> QED BY <2>1, <2>2, <2>3, WindowsCalm
  <1>2. ASSUME NEW s, SelectServer(s)
        PROVE  Windows'
    <2> DEFINE a == [app EXCEPT !.active = s]
    <2>1. queue' = queue \o Effects(a) /\ tabs'["Servers"] = tabs["Servers"]
      BY <1>2 DEF SelectServer
    <2> HIDE DEF a
    <2>2. IsSeq(Effects(a)) /\ \A i \in DOMAIN Effects(a) : Calm(Effects(a)[i])
      BY EffectsAre, CalmCalls DEF Follows
    <2> QED BY <2>1, <2>2, WindowsCalm
  <1> QED BY <1>1, <1>2

\* Answers to App.
LEMMA WindowsApp ==
    ASSUME Base, Windows, LaunchServers \/ LaunchMode \/ ServerSaved \/ ServerListed \/ ServerDeleted \/ ServerGone
    PROVE  Windows'
  <1>1. ASSUME NEW k \in AppKinds, Awaited(k), UNCHANGED tabs, NEW calls, IsSeq(calls),
               \A i \in DOMAIN calls : Calm(calls[i]), queue' = Tail(queue) \o calls
        PROVE  Windows'
    <2>1. queue # <<>> /\ Head(queue).k \notin WindowKinds
      BY <1>1, CalmCalls DEF Awaited
    <2> QED BY <1>1, <2>1, WindowsCalm
  <1>2. UNCHANGED tabs
    BY DEF LaunchServers, LaunchMode, ServerSaved, ServerListed, ServerDeleted, ServerGone
  <1>3. /\ {"launch servers", "launch mode", "server saved", "server listed", "server deleted", "server gone"}
              \subseteq AppKinds
    BY DEF AppKinds, LaunchKinds, ListKinds, ChangeKinds
  <1>4. \A a : IsSeq(Effects(a)) /\ \A i \in DOMAIN Effects(a) : Calm(Effects(a)[i])
    BY EffectsAre, CalmCalls DEF Follows
  <1>5. CASE LaunchServers
    <2> DEFINE call == [Head(queue) EXCEPT !.op = "getSetting", !.x = "permission_mode", !.k = "launch mode"]
    <2>1. Awaited("launch servers") /\ \E a : queue' = Tail(queue) \o (Effects(a) \o << call >>)
      BY <1>5 DEF LaunchServers, Take
    <2>2. PICK a : queue' = Tail(queue) \o (Effects(a) \o << call >>)
      BY <2>1
    <2>3. DOMAIN Head(queue) = CallFields
      BY <2>1, Headed DEF CallFits, CallFields
    <2>4. call.k = "launch mode" /\ call.op = "getSetting"
      BY <2>3 DEF CallFields
    <2> HIDE DEF call
    <2>5. IsSeq(<< call >>) /\ \A i \in DOMAIN << call >> : Calm(<< call >>[i])
      BY <2>4, FewCalm DEF Calm, WindowOps, WindowKinds
    <2> DEFINE calls == Effects(a) \o << call >>
    <2>6. IsSeq(calls) /\ \A i \in DOMAIN calls : Calm(calls[i])
      BY <1>4, <2>5, JoinSeq
    <2> HIDE DEF calls
    <2> QED BY <1>1, <1>2, <1>3, <2>1, <2>2, <2>6 DEF calls
  <1>6. CASE LaunchMode
    <2>1. Awaited("launch mode") /\ \E mode : queue' = Tail(queue) \o ReloadFor(mode)
      BY <1>6 DEF LaunchMode, Take
    <2>2. PICK mode : queue' = Tail(queue) \o ReloadFor(mode)
      BY <2>1
    <2>3. IsSeq(ReloadFor(mode)) /\ \A i \in DOMAIN ReloadFor(mode) : Calm(ReloadFor(mode)[i])
      BY ReloadFits, CalmCalls DEF AsideCalls
    <2> QED BY <1>1, <1>2, <1>3, <2>1, <2>2, <2>3
  <1>7. CASE ServerSaved \/ ServerDeleted
    <2>1. \E k \in AppKinds : Awaited(k)
      BY <1>3, <1>7 DEF ServerSaved, ServerDeleted
    <2>2. PICK k \in AppKinds : Awaited(k)
      BY <2>1
    <2>3. PICK kind \in {"server listed", "server gone"} :
            queue' = Tail(queue) \o << AppCall("listServers", 0, kind, Head(queue).e) >>
      BY <1>7 DEF ServerSaved, ServerDeleted, Take
    <2> DEFINE call == AppCall("listServers", 0, kind, Head(queue).e)
    <2>4. Calm(call)
      BY <2>3 DEF AppCall, Calm, WindowOps, WindowKinds
    <2> HIDE DEF call
    <2>5. IsSeq(<< call >>) /\ \A i \in DOMAIN << call >> : Calm(<< call >>[i])
      BY <2>4, FewCalm
    <2> QED BY <1>1, <1>2, <2>2, <2>3, <2>5 DEF call
  <1>8. CASE ServerListed \/ ServerGone
    <2>1. \E k \in AppKinds : Awaited(k)
      BY <1>3, <1>8 DEF ServerListed, ServerGone
    <2>2. PICK k \in AppKinds : Awaited(k)
      BY <2>1
    <2>3. PICK a : queue' = Tail(queue) \o Effects(a)
      BY <1>8 DEF ServerListed, ServerGone, Take
    <2> QED BY <1>1, <1>2, <1>4, <2>2, <2>3
  <1> QED BY <1>5, <1>6, <1>7, <1>8

\* What a submission goes on with.
LEMMA SubmissionCalm ==
    /\ \A id, profile : \A i \in DOMAIN AddServer(id, profile) : Calm(AddServer(id, profile)[i])
    /\ \A mount, s : \A i \in DOMAIN StoreToken(mount, s) : Calm(StoreToken(mount, s)[i])
    /\ \A id, profile, mount, s : IsSeq(AddServer(id, profile)) /\ IsSeq(StoreToken(mount, s))
  <1>1. ASSUME NEW id, NEW profile
        PROVE  IsSeq(AddServer(id, profile)) /\ \A i \in DOMAIN AddServer(id, profile) : Calm(AddServer(id, profile)[i])
    <2> DEFINE c == [op |-> "saveServer", x |-> [id |-> id, profile |-> profile],
                     k |-> "server saved", e |-> id, on |-> AppMount]
    <2>1. Calm(c) /\ AddServer(id, profile) = << c >>
      BY DEF Calm, WindowOps, WindowKinds, AddServer
    <2> HIDE DEF c
    <2> QED BY <2>1, FewCalm
  <1>2. ASSUME NEW mount, NEW s
        PROVE  IsSeq(StoreToken(mount, s)) /\ \A i \in DOMAIN StoreToken(mount, s) : Calm(StoreToken(mount, s)[i])
    <2>1. CASE s.form.panel /\ s.form.token
      <3> DEFINE c == [op |-> "saveSecret", x |-> TokenRef(s.id), k |-> "token saved", e |-> s, on |-> mount]
      <3>1. Calm(c) /\ StoreToken(mount, s) = << c >>
        BY <2>1 DEF Calm, WindowOps, WindowKinds, StoreToken
      <3> HIDE DEF c
      <3> QED BY <3>1, FewCalm
    <2>2. CASE ~(s.form.panel /\ s.form.token)
      BY <1>1, <2>2 DEF StoreToken
    <2> QED BY <2>1, <2>2
  <1> QED BY <1>1, <1>2

\* Calm calls and calls in a window that shows its server.
LEMMA FewShown ==
    /\ \A c : Calm(c) => ActsOnShown(c) /\ c.k \notin WindowKinds
    /\ \A i \in DOMAIN <<>> : ActsOnShown(<<>>[i]) /\ <<>>[i].k \notin WindowKinds
    /\ \A c : ActsOnShown(c) /\ c.k \notin WindowKinds =>
         \A i \in DOMAIN << c >> : ActsOnShown(<< c >>[i]) /\ << c >>[i].k \notin WindowKinds
  BY FewSeq DEF Calm, ActsOnShown

\* What the operator does at the table and in the form.
LEMMA WindowsForm ==
    ASSUME Base, Windows,
           \/ ToggleAdd \/ CancelEdit \/ FetchDiscovered \/ KeepBlocked
           \/ \E s \in ServerIds : \/ EditServer(s) \/ Submit(s) \/ ImportDiscovered(s) \/ RemoveServer(s)
                                 \/ TestConnection(s) \/ AcceptHostKey(s)
           \/ \E auth, pw, panel, token, whm, production : FillForm(auth, pw, panel, token, whm, production)
           \/ SelectAccount \/ TypeAccount \/ CancelSuspend
    PROVE  Windows'
  <1>0. Open("Servers")
    BY DEF ToggleAdd, CancelEdit, FetchDiscovered, KeepBlocked, EditServer, Submit, ImportDiscovered,
           RemoveServer, TestConnection, AcceptHostKey, FillForm, SelectAccount, TypeAccount, CancelSuspend,
           AtTable, AtAccounts
  <1>00. DOMAIN Servers = WindowKeys
    BY <1>0 DEF Windows, WindowsFit
  <1>1. ASSUME NEW new, SameWindows(new), ServersDoes(new, <<>>)
        PROVE  Windows'
    BY <1>0, <1>1, FewShown, FewSeq, WindowsBeside
  <1>2. ASSUME NEW new, SameWindows(new), NEW c, Calm(c), ServersDoes(new, << c >>)
        PROVE  Windows'
    <2>1. IsSeq(<< c >>) /\ \A i \in DOMAIN << c >> : ActsOnShown(<< c >>[i]) /\ << c >>[i].k \notin WindowKinds
      BY <1>2, FewShown, FewSeq
    <2> QED BY <1>0, <1>2, <2>1, WindowsBeside
  <1>3. ASSUME NEW new, SameWindows(new), NEW calls, IsSeq(calls), \A i \in DOMAIN calls : Calm(calls[i]),
               ServersDoes(new, calls)
        PROVE  Windows'
    BY <1>0, <1>3, FewShown, WindowsBeside
  <1>4. /\ SameWindows(Servers)
        /\ \A v : SameWindows([Servers EXCEPT !.form = v]) /\ SameWindows([Servers EXCEPT !.found = v])
                 /\ SameWindows([Servers EXCEPT !.alert = v]) /\ SameWindows([Servers EXCEPT !.saving = v])
                 /\ SameWindows([Servers EXCEPT !.form.open = v]) /\ SameWindows([Servers EXCEPT !.typed = v])
        /\ \A v, w : SameWindows([Servers EXCEPT !.saving = v, !.form = w])
        /\ SameWindows([Servers EXCEPT !.target = NoServer, !.typed = FALSE])
    BY <1>00 DEF SameWindows, WindowKeys
  <1>5. CASE ToggleAdd \/ CancelEdit \/ FetchDiscovered \/ KeepBlocked
    <2>1. CASE ToggleAdd
      <3>1. ServersDoes([Servers EXCEPT !.form.open = ~@], <<>>)
        BY <2>1 DEF ToggleAdd
      <3>2. SameWindows([Servers EXCEPT !.form.open = ~@])
        BY <1>4
      <3> QED BY <1>1, <3>1, <3>2
    <2>2. CASE CancelEdit
      <3>1. \E v : ServersDoes([Servers EXCEPT !.form = v], <<>>)
        BY <2>2 DEF CancelEdit
      <3> QED BY <1>1, <1>4, <3>1
    <2>3. CASE FetchDiscovered
      <3>1. \E v : ServersDoes([Servers EXCEPT !.found = v], <<>>)
        BY <2>3 DEF FetchDiscovered
      <3> QED BY <1>1, <1>4, <3>1
    <2>4. CASE KeepBlocked
      <3>1. \E v : ServersDoes([Servers EXCEPT !.alert = v], <<>>)
        BY <2>4 DEF KeepBlocked
      <3> QED BY <1>1, <1>4, <3>1
    <2> QED BY <1>5, <2>1, <2>2, <2>3, <2>4
  <1>6. ASSUME NEW s, EditServer(s)
        PROVE  Windows'
    <2>1. \E v : ServersDoes([Servers EXCEPT !.form = v], <<>>)
      BY <1>6 DEF EditServer
    <2> QED BY <1>1, <1>4, <2>1
  <1>7. ASSUME NEW auth, NEW pw, NEW panel, NEW token, NEW whm, NEW production,
               FillForm(auth, pw, panel, token, whm, production)
        PROVE  Windows'
    <2>1. \E v : ServersDoes([Servers EXCEPT !.form = v], <<>>)
      BY <1>7 DEF FillForm
    <2> QED BY <1>1, <1>4, <2>1
  <1>8. ASSUME NEW id, Submit(id)
        PROVE  Windows'
    <2> DEFINE saving == [Servers EXCEPT !.saving = TRUE]
    <2>1. \/ \E s : ServersDoes(saving, << ServersCall("saveSecret", PasswordRef(id), "password saved", s) >>)
          \/ \E s : ServersDoes(AfterToken(saving, s), StoreToken(Servers.mount, s))
      BY <1>8 DEF Submit
    <2>2. CASE \E s : ServersDoes(saving, << ServersCall("saveSecret", PasswordRef(id), "password saved", s) >>)
      <3>1. PICK s : ServersDoes(saving, << ServersCall("saveSecret", PasswordRef(id), "password saved", s) >>)
        BY <2>2
      <3>2. Calm(ServersCall("saveSecret", PasswordRef(id), "password saved", s))
        BY DEF ServersCall, Call, Calm, WindowOps, WindowKinds
      <3> HIDE DEF saving
      <3>3. SameWindows(saving)
        BY <1>4 DEF saving
      <3> QED BY <1>2, <3>1, <3>2, <3>3
    <2>3. CASE \E s : ServersDoes(AfterToken(saving, s), StoreToken(Servers.mount, s))
      <3>1. PICK s : ServersDoes(AfterToken(saving, s), StoreToken(Servers.mount, s))
        BY <2>3
      <3>2. AfterToken(saving, s) = saving \/ \E v : AfterToken(saving, s) = [saving EXCEPT !.saving = FALSE, !.form = v]
        BY DEF AfterToken, Finished
      <3>3. DOMAIN saving = WindowKeys /\ SameWindows(saving)
        BY <1>00, <1>4
      <3> HIDE DEF saving
      <3>4. SameWindows(AfterToken(saving, s))
        BY <3>2, <3>3 DEF SameWindows, WindowKeys
      <3> QED BY <1>3, <3>1, <3>4, SubmissionCalm
    <2> QED BY <2>1, <2>2, <2>3
  <1>9. ASSUME NEW id, ImportDiscovered(id)
        PROVE  Windows'
    <2>1. \E p : ServersDoes(Servers, AddServer(id, p))
      BY <1>9 DEF ImportDiscovered
    <2> QED BY <1>3, <1>4, <2>1, SubmissionCalm
  <1>10. ASSUME NEW s, RemoveServer(s)
         PROVE  Windows'
    <2> DEFINE c == [op |-> "deleteServer", x |-> s, k |-> "server deleted",
                     e |-> [id |-> s, active |-> app.active], on |-> AppMount]
    <2>1. ServersDoes(Servers, << c >>) /\ Calm(c)
      BY <1>10 DEF RemoveServer, Calm, WindowOps, WindowKinds
    <2> HIDE DEF c
    <2> QED BY <1>2, <1>4, <2>1
  <1>11. ASSUME NEW s, TestConnection(s)
         PROVE  Windows'
    <2>1. ServersDoes(Servers, << TestCall(Servers.mount, s) >>) /\ Calm(TestCall(Servers.mount, s))
      BY <1>11 DEF TestConnection, TestCall, Calm, WindowOps, WindowKinds
    <2> QED BY <1>2, <1>4, <2>1
  <1>12. ASSUME NEW s, AcceptHostKey(s)
         PROVE  Windows'
    <2>1. PICK e : ServersDoes(Servers, << ServersCall("acceptServerHostKey", s, "accepted", e) >>)
      BY <1>12 DEF AcceptHostKey
    <2>2. Calm(ServersCall("acceptServerHostKey", s, "accepted", e))
      BY DEF ServersCall, Call, Calm, WindowOps, WindowKinds
    <2> QED BY <1>2, <1>4, <2>1, <2>2
  <1>13. CASE SelectAccount
    <2>1. PICK x : ServersDoes(Servers, << ServersCall("accountReadings", x, "-", 0) >>)
      BY <1>13 DEF SelectAccount
    <2>2. Calm(ServersCall("accountReadings", x, "-", 0))
      BY DEF ServersCall, Call, Calm, WindowOps, WindowKinds
    <2> QED BY <1>2, <1>4, <2>1, <2>2
  <1>14. CASE TypeAccount \/ CancelSuspend
    <2>1. \/ ServersDoes([Servers EXCEPT !.typed = TRUE], <<>>)
          \/ ServersDoes([Servers EXCEPT !.target = NoServer, !.typed = FALSE], <<>>)
      BY <1>14 DEF TypeAccount, CancelSuspend
    <2> QED BY <1>1, <1>4, <2>1
  <1> QED BY <1>5, <1>6, <1>7, <1>8, <1>9, <1>10, <1>11, <1>12, <1>13, <1>14

-----------------------------------------------------------------------------
(* Steps in the windows *)

\* A call for the facts of a server is the only one.
LEMMA WindowAsks ==
    ASSUME NEW s, NEW of, NEW kind, NEW mount, NEW c, c.on = mount, c.k = kind, c.x = s
    PROVE  WindowFits(s, of, kind, mount, << c >>)
  BY FewSeq DEF WindowFits

\* What the operator does in the diagnostics window.
LEMMA WindowsDiagnostics ==
    ASSUME Base, Windows,
           \/ \E s : OpenDiagnostics(s) \/ ServiceAct(s)
           \/ RefreshDiagnostics \/ CloseDiagnostics
    PROVE  Windows'
  <1>0. Open("Servers")
    BY DEF OpenDiagnostics, ServiceAct, RefreshDiagnostics, CloseDiagnostics, AtTable
  <1>00. DOMAIN Servers = WindowKeys
    BY <1>0 DEF Windows, WindowsFit
  <1>1. ASSUME NEW new, NEW s, DOMAIN new = WindowKeys, new.mount = Servers.mount, new.diag = s,
               new.panel = Servers.panel, new.panelOf = Servers.panelOf, new.target = Servers.target,
               ServersDoes(new, LoadDiagnostics(s))
        PROVE  Windows'
    <2> DEFINE c == ServersCall("serverReadings", s, "diagnosed", s)
    <2>1. c.k = "diagnosed" /\ c.x = s /\ c.on = new.mount /\ c.op = "serverReadings"
      BY <1>1 DEF ServersCall, Call, Servers
    <2>2. LoadDiagnostics(s) = << c >>
      BY DEF LoadDiagnostics
    <2> HIDE DEF c
    <2>30. ActsOnShown(c) /\ c.k # "panel read"
      BY <2>1 DEF ActsOnShown, WindowOps
    <2>31. IsSeq(<< c >>) /\ DOMAIN << c >> = {1} /\ << c >>[1] = c
      BY FewSeq
    <2>3. IsSeq(<< c >>) /\ \A i \in DOMAIN << c >> : ActsOnShown(<< c >>[i]) /\ << c >>[i].k # "panel read"
      BY <2>30, <2>31
    <2>4. WindowFits(new.diag, new.diagOf, "diagnosed", new.mount, << c >>)
      BY <1>1, <2>1, WindowAsks
    <2>5. ~Hurried => /\ WindowFits(new.panel, new.panelOf, "panel read", new.mount, << c >>)
                      /\ new.target \in {NoServer, new.panel}
      BY <1>0, <1>1, <2>3, WindowsSettled, WindowBeside
    <2> QED BY <1>1, <2>2, <2>3, <2>4, <2>5, WindowsDoing
  <1>2. ASSUME NEW s, OpenDiagnostics(s)
        PROVE  Windows'
    <2> DEFINE new == [Servers EXCEPT !.diag = s]
    <2>1. ServersDoes(new, LoadDiagnostics(s))
      BY <1>2 DEF OpenDiagnostics
    <2>2. /\ DOMAIN new = WindowKeys /\ new.mount = Servers.mount /\ new.diag = s
          /\ new.panel = Servers.panel /\ new.panelOf = Servers.panelOf /\ new.target = Servers.target
      BY <1>00 DEF WindowKeys
    <2> HIDE DEF new
    <2> QED BY <1>1, <2>1, <2>2
  <1>3. CASE RefreshDiagnostics
    BY <1>00, <1>1, <1>3 DEF RefreshDiagnostics
  <1>4. CASE CloseDiagnostics
    <2> DEFINE new == [Servers EXCEPT !.diag = NoServer]
    <2>1. ServersDoes(new, <<>>)
      BY <1>4 DEF CloseDiagnostics
    <2>2. /\ DOMAIN new = WindowKeys /\ new.mount = Servers.mount /\ new.diag = NoServer
          /\ new.panel = Servers.panel /\ new.panelOf = Servers.panelOf /\ new.target = Servers.target
      BY <1>00 DEF WindowKeys
    <2> HIDE DEF new
    <2>3. IsSeq(<<>>) /\ DOMAIN <<>> = {}
      BY FewSeq
    <2>4. ~Hurried => /\ WindowFits(new.diag, new.diagOf, "diagnosed", new.mount, <<>>)
                      /\ WindowFits(new.panel, new.panelOf, "panel read", new.mount, <<>>)
                      /\ new.target \in {NoServer, new.panel}
      BY <1>0, <2>2, <2>3, WindowsSettled, WindowBeside
    <2> QED BY <2>1, <2>2, <2>3, <2>4, WindowsDoing
  <1>5. ASSUME NEW action, ServiceAct(action)
        PROVE  Windows'
    <2> DEFINE x == [server |-> Servers.diag, service |-> "httpd", action |-> action]
               c == ServersCall("serverServiceAction", x, "serviced", Shown(Servers.diagOf))
    <2>1. ServersDoes(Servers, << c >>) /\ Servers.diag # NoServer /\ Servers.diagOf # NoServer
      BY <1>5 DEF ServiceAct
    <2>2. c.k = "serviced" /\ c.x.server = Servers.diag /\ c.e.shown = Servers.diagOf /\ c.e.rush = Hurried
      BY DEF ServersCall, Call, Shown
    <2> HIDE DEF c
    <2>3. ActsOnShown(c) /\ c.k \notin WindowKinds
      BY <1>0, <2>1, <2>2, WindowsSettled DEF ActsOnShown, WindowKinds
    <2>4. SameWindows(Servers)
      BY <1>00 DEF SameWindows
    <2> QED BY <1>0, <2>1, <2>3, <2>4, FewShown, FewSeq, WindowsBeside
  <1> QED BY <1>2, <1>3, <1>4, <1>5

\* What the operator does in the hosting-panel window.
LEMMA WindowsPanel ==
    ASSUME Base, Windows,
           \/ \E s : OpenPanel(s)
           \/ RefreshPanel \/ ClosePanel \/ AskSuspend \/ ConfirmSuspend \/ UnsuspendAccount
           \/ RestartPanelService
    PROVE  Windows'
  <1>0. Open("Servers")
    BY DEF OpenPanel, RefreshPanel, ClosePanel, AskSuspend, ConfirmSuspend, UnsuspendAccount,
           RestartPanelService, AtTable, AtAccounts
  <1>00. DOMAIN Servers = WindowKeys
    BY <1>0 DEF Windows, WindowsFit
  <1>1. ASSUME NEW new, NEW s, DOMAIN new = WindowKeys, new.mount = Servers.mount, new.panel = s,
               new.diag = Servers.diag, new.diagOf = Servers.diagOf, ~Hurried => new.target = NoServer,
               ServersDoes(new, LoadPanel(s))
        PROVE  Windows'
    <2> DEFINE c == ServersCall("panelReadings", s, "panel read", s)
    <2>1. c.k = "panel read" /\ c.x = s /\ c.on = new.mount /\ c.op = "panelReadings"
      BY <1>1 DEF ServersCall, Call, Servers
    <2>2. LoadPanel(s) = << c >>
      BY DEF LoadPanel
    <2> HIDE DEF c
    <2>30. ActsOnShown(c) /\ c.k # "diagnosed"
      BY <2>1 DEF ActsOnShown, WindowOps
    <2>3. IsSeq(<< c >>) /\ \A i \in DOMAIN << c >> : ActsOnShown(<< c >>[i]) /\ << c >>[i].k # "diagnosed"
      BY <2>30, FewSeq
    <2>4. WindowFits(new.panel, new.panelOf, "panel read", new.mount, << c >>)
      BY <1>1, <2>1, WindowAsks
    <2>5. ~Hurried => /\ WindowFits(new.diag, new.diagOf, "diagnosed", new.mount, << c >>)
                      /\ new.target \in {NoServer, new.panel}
      BY <1>0, <1>1, <2>3, WindowsSettled, WindowBeside
    <2> QED BY <1>1, <2>2, <2>3, <2>4, <2>5, WindowsDoing
  <1>2. ASSUME NEW s, OpenPanel(s)
        PROVE  Windows'
    <2> DEFINE new == [Servers EXCEPT !.panel = s]
    <2>1. ServersDoes(new, LoadPanel(s)) /\ Servers.panel = NoServer
      BY <1>2 DEF OpenPanel, AtTable, ServersCovered
    <2>2. /\ DOMAIN new = WindowKeys /\ new.mount = Servers.mount /\ new.panel = s
          /\ new.diag = Servers.diag /\ new.diagOf = Servers.diagOf /\ new.target = Servers.target
      BY <1>00 DEF WindowKeys
    <2> HIDE DEF new
    <2>3. ~Hurried => new.target = NoServer
      BY <1>0, <2>1, <2>2, WindowsSettled
    <2> QED BY <1>1, <2>1, <2>2, <2>3
  <1>3. CASE RefreshPanel
    BY <1>00, <1>1, <1>3 DEF RefreshPanel
  <1>4. ASSUME NEW new, DOMAIN new = WindowKeys, new.mount = Servers.mount,
               new.diag = Servers.diag, new.diagOf = Servers.diagOf,
               ~Hurried => /\ new.panel = NoServer \/ new.panelOf \in {NoServer, new.panel}
                           /\ new.target \in {NoServer, new.panel},
               ServersDoes(new, <<>>)
        PROVE  Windows'
    <2>1. IsSeq(<<>>) /\ DOMAIN <<>> = {}
      BY FewSeq
    <2>2. ~Hurried => /\ WindowFits(new.diag, new.diagOf, "diagnosed", new.mount, <<>>)
                      /\ WindowFits(new.panel, new.panelOf, "panel read", new.mount, <<>>)
                      /\ new.target \in {NoServer, new.panel}
      BY <1>0, <1>4, <2>1, WindowsSettled, WindowBeside
    <2> QED BY <1>4, <2>1, <2>2, WindowsDoing
  <1>5. CASE ClosePanel
    <2> DEFINE new == [Servers EXCEPT !.panel = NoServer]
    <2>1. ServersDoes(new, <<>>) /\ Servers.target = NoServer
      BY <1>5 DEF ClosePanel
    <2>2. /\ DOMAIN new = WindowKeys /\ new.mount = Servers.mount /\ new.diag = Servers.diag
          /\ new.diagOf = Servers.diagOf /\ new.panel = NoServer /\ new.target = Servers.target
      BY <1>00 DEF WindowKeys
    <2> HIDE DEF new
    <2> QED BY <1>4, <2>1, <2>2
  <1>6. CASE AskSuspend
    <2> DEFINE new == [Servers EXCEPT !.target = Servers.panelOf, !.typed = FALSE]
    <2>1. ServersDoes(new, <<>>) /\ Servers.panel # NoServer
      BY <1>6 DEF AskSuspend, AtAccounts
    <2>2. /\ DOMAIN new = WindowKeys /\ new.mount = Servers.mount /\ new.diag = Servers.diag
          /\ new.diagOf = Servers.diagOf /\ new.panel = Servers.panel /\ new.panelOf = Servers.panelOf
          /\ new.target = Servers.panelOf
      BY <1>00 DEF WindowKeys
    <2> HIDE DEF new
    <2>3. ~Hurried => /\ new.panelOf \in {NoServer, new.panel} /\ new.target \in {NoServer, new.panel}
      BY <1>0, <2>1, <2>2, WindowsSettled
    <2> QED BY <1>4, <2>1, <2>2, <2>3
  <1>7. ASSUME NEW c, ~Hurried => c.e.shown = c.x.server, c.e.rush = Hurried,
               c.k \notin WindowKinds, ServersDoes(Servers, << c >>)
        PROVE  Windows'
    <2>1. ActsOnShown(c) /\ SameWindows(Servers)
      BY <1>00, <1>7 DEF ActsOnShown, SameWindows
    <2> QED BY <1>0, <1>7, <2>1, FewShown, FewSeq, WindowsBeside
  <1>8. CASE ConfirmSuspend
    <2> DEFINE c == ServersCall("cpanelSuspendAccount", [server |-> Servers.panel, user |-> "account"],
                                "suspended", Shown(Servers.target))
    <2>1. ServersDoes(Servers, << c >>) /\ Servers.target # NoServer
      BY <1>8 DEF ConfirmSuspend
    <2>2. /\ c.k \notin WindowKinds /\ c.x.server = Servers.panel /\ c.e.shown = Servers.target
          /\ c.e.rush = Hurried
      BY DEF ServersCall, Call, Shown, WindowKinds
    <2> HIDE DEF c
    <2> QED BY <1>0, <1>7, <2>1, <2>2, WindowsSettled
  <1>9. CASE UnsuspendAccount
    <2> DEFINE c == ServersCall("cpanelUnsuspendAccount", [server |-> Servers.panel, user |-> "account"],
                                "-", Shown(Servers.panelOf))
    <2>1. ServersDoes(Servers, << c >>) /\ Servers.panel # NoServer /\ Servers.panelOf # NoServer
      BY <1>9 DEF UnsuspendAccount, PanelCall, AtAccounts
    <2>2. /\ c.k \notin WindowKinds /\ c.x.server = Servers.panel /\ c.e.shown = Servers.panelOf
          /\ c.e.rush = Hurried
      BY DEF ServersCall, Call, Shown, WindowKinds
    <2> HIDE DEF c
    <2> QED BY <1>0, <1>7, <2>1, <2>2, WindowsSettled
  <1>10. CASE RestartPanelService
    <2> DEFINE c == ServersCall("cpanelRestartService", [server |-> Servers.panel, service |-> "exim"],
                                "-", Shown(Servers.panelOf))
    <2>1. ServersDoes(Servers, << c >>) /\ Servers.panel # NoServer /\ Servers.panelOf # NoServer
      BY <1>10 DEF RestartPanelService, PanelCall, AtAccounts
    <2>2. /\ c.k \notin WindowKinds /\ c.x.server = Servers.panel /\ c.e.shown = Servers.panelOf
          /\ c.e.rush = Hurried
      BY DEF ServersCall, Call, Shown, WindowKinds
    <2> HIDE DEF c
    <2> QED BY <1>0, <1>7, <2>1, <2>2, WindowsSettled
  <1> QED BY <1>2, <1>3, <1>5, <1>6, <1>8, <1>9, <1>10

\* An answer that shows the same windows.
LEMMA WindowsShowing ==
    ASSUME Base, Windows, NEW k, k \notin WindowKinds, Awaited(k), NEW calls, IsSeq(calls),
           \A i \in DOMAIN calls : Calm(calls[i]), queue' = Tail(queue) \o calls,
           NEW new, Shows(Head(queue), "Servers", new), new.mount = Servers.mount,
           Open("Servers") => SameWindows(new) /\ new.rush = Servers.rush
    PROVE  Windows'
  <1>1. queue # <<>> /\ Head(queue).k \notin WindowKinds
    BY DEF Awaited
  <1>2. CASE tabs' = tabs
    BY <1>1, <1>2, WindowsCalm
  <1>3. CASE tabs' = [tabs EXCEPT !["Servers"] = new]
    <2>1. Servers' = new
      BY <1>3 DEF Servers, Base, TabsFit, TabNames
    <2>2. Moved(queue, 1, calls, queue') /\ queue[1].k \notin WindowKinds
      BY <1>1, AnyMove
    <2>3. \A i \in DOMAIN queue' : ActsOnShown(queue'[i])
      BY <2>2, ActsKept DEF Calm, ActsOnShown, Windows
    <2>4. ASSUME Open("Servers")'
          PROVE  WindowsFit(Servers', queue')
      <3>1. Open("Servers")
        BY <2>1, <2>4 DEF Open, Servers
      <3>2. WindowsFit(Servers, queue')
        BY <2>2, <3>1, WindowsKept DEF Windows, Calm
      <3> QED BY <2>1, <3>1, <3>2 DEF SameWindows, WindowsFit
    <2> QED BY <2>3, <2>4 DEF Windows
  <1> QED BY <1>2, <1>3 DEF Shows

\* The facts of a server arrive in the window that is for it.
LEMMA WindowsRead ==
    ASSUME Base, Windows, Diagnosed \/ PanelRead
    PROVE  Windows'
  <1> DEFINE c == Head(queue)
  <1>1. PICK k \in WindowKinds : Awaited(k)
    BY DEF Diagnosed, PanelRead, WindowKinds
  <1>2. PICK r \in Answers(c) :
          /\ Take(r, <<>>)
          /\ \/ Awaited("diagnosed") /\ Shows(c, "Servers", [Servers EXCEPT !.diagOf = r.val.of])
             \/ Awaited("panel read") /\ Shows(c, "Servers", [Servers EXCEPT !.panelOf = r.val.of])
    BY DEF Diagnosed, PanelRead
  <1>3. queue # <<>> /\ CallFits(c, sent, app.mounts)
    BY <1>1, Headed
  <1>4. Reflects(c, r)
    BY <1>3, Answered
  <1>5. c.k = "diagnosed" \/ c.k = "panel read" => r.val.of = c.x
    <2>1. c.k = "diagnosed" => c.op = "serverReadings"
      BY <1>3 DEF CallFits, KindFits
    <2>2. c.k = "panel read" => c.op = "panelReadings"
      BY <1>3 DEF CallFits, KindFits
    <2> QED BY <1>4, <2>1, <2>2 DEF Reflects, AnswerFits, ToolCalls
  <1>6. IsSeq(<<>>) /\ DOMAIN <<>> = {} /\ queue' = Tail(queue) \o <<>>
    BY <1>2, FewSeq DEF Take
  <1>7. Moved(queue, 1, <<>>, queue') /\ c = queue[1] /\ 1 \in DOMAIN queue
    BY <1>3, <1>6, AnyMove
  <1>70. \A i \in DOMAIN queue' : i + 1 \in DOMAIN queue /\ queue'[i] = queue[i + 1]
    BY <1>6, <1>7 DEF Moved
  <1>8. \A i \in DOMAIN queue' : ActsOnShown(queue'[i])
    BY <1>6, <1>7, ActsKept DEF Windows
  <1> HIDE DEF c
  <1>9. CASE tabs["Servers"].mount # c.on
    <2>1. tabs' = tabs
      BY <1>2, <1>9 DEF Shows
    <2>2. queue[1].on # Servers.mount
      BY <1>7, <1>9 DEF Servers
    <2>3. Open("Servers") => WindowsFit(Servers, queue')
      BY <1>6, <1>7, <2>2, WindowsKept DEF Windows
    <2> QED BY <1>8, <2>1, <2>3 DEF Windows, Open, Servers
  <1>10. CASE tabs["Servers"].mount = c.on
    <2> DEFINE diag == [Servers EXCEPT !.diagOf = r.val.of]
               panel == [Servers EXCEPT !.panelOf = r.val.of]
    <2>1. \/ Awaited("diagnosed") /\ tabs' = [tabs EXCEPT !["Servers"] = diag]
          \/ Awaited("panel read") /\ tabs' = [tabs EXCEPT !["Servers"] = panel]
      BY <1>2, <1>10 DEF Shows
    <2>2. \/ c.k = "diagnosed" /\ Servers' = diag
          \/ c.k = "panel read" /\ Servers' = panel
      BY <2>1 DEF Servers, Base, TabsFit, TabNames, Awaited, c
    <2>3. diag.mount = Servers.mount /\ panel.mount = Servers.mount
      BY Mounted DEF Servers, TabNames
    <2>4. ASSUME Open("Servers")'
          PROVE  WindowsFit(Servers', queue')
      <3>1. Open("Servers")
        BY <2>2, <2>3, <2>4 DEF Open, Servers
      <3>2. WindowsFit(Servers, queue)
        BY <3>1 DEF Windows
      <3>3. DOMAIN Servers = WindowKeys
        BY <3>2 DEF WindowsFit
      <3>4. CASE c.k = "diagnosed" /\ Servers' = diag
        <4>1. /\ DOMAIN diag = WindowKeys /\ diag.mount = Servers.mount /\ diag.rush = Servers.rush
              /\ diag.diag = Servers.diag /\ diag.diagOf = c.x /\ diag.panel = Servers.panel
              /\ diag.panelOf = Servers.panelOf /\ diag.target = Servers.target
          BY <1>5, <3>3, <3>4 DEF WindowKeys
        <4> HIDE DEF diag
        <4>2. ASSUME ~Servers.rush
              PROVE  /\ WindowFits(diag.diag, diag.diagOf, "diagnosed", diag.mount, queue')
                     /\ WindowFits(diag.panel, diag.panelOf, "panel read", diag.mount, queue')
                     /\ diag.target \in {NoServer, diag.panel}
          <5>1. /\ WindowFits(Servers.diag, Servers.diagOf, "diagnosed", Servers.mount, queue)
                /\ WindowFits(Servers.panel, Servers.panelOf, "panel read", Servers.mount, queue)
                /\ Servers.target \in {NoServer, Servers.panel}
            BY <3>2, <4>2 DEF WindowsFit
          <5>2. c.x = Servers.diag
            BY <1>7, <1>10, <3>4, <5>1 DEF WindowFits, Servers
          <5>3. \A i \in DOMAIN queue' : queue'[i].on = Servers.mount /\ queue'[i].k = "diagnosed" =>
                                              queue'[i].x = Servers.diag
            <6>1. \A i \in DOMAIN queue : queue[i].on = Servers.mount /\ queue[i].k = "diagnosed" =>
                                               queue[i].x = Servers.diag
              BY <5>1 DEF WindowFits
            <6>2. \A i \in DOMAIN queue' : i + 1 \in DOMAIN queue /\ queue'[i] = queue[i + 1]
              BY <1>70
            <6> QED BY <6>1, <6>2
          <5>4. WindowFits(diag.diag, diag.diagOf, "diagnosed", diag.mount, queue')
            BY <4>1, <5>2, <5>3 DEF WindowFits
          <5>5. queue[1].k # "panel read"
            BY <1>7, <3>4
          <5>6. WindowFits(Servers.panel, Servers.panelOf, "panel read", Servers.mount, queue')
            BY <1>6, <1>7, <5>1, <5>5, WindowKeeps
          <5> QED BY <4>1, <5>1, <5>4, <5>6
        <4> QED BY <3>4, <4>1, <4>2 DEF WindowsFit
      <3>5. CASE c.k = "panel read" /\ Servers' = panel
        <4>1. /\ DOMAIN panel = WindowKeys /\ panel.mount = Servers.mount /\ panel.rush = Servers.rush
              /\ panel.diag = Servers.diag /\ panel.panelOf = c.x /\ panel.panel = Servers.panel
              /\ panel.diagOf = Servers.diagOf /\ panel.target = Servers.target
          BY <1>5, <3>3, <3>5 DEF WindowKeys
        <4> HIDE DEF panel
        <4>2. ASSUME ~Servers.rush
              PROVE  /\ WindowFits(panel.diag, panel.diagOf, "diagnosed", panel.mount, queue')
                     /\ WindowFits(panel.panel, panel.panelOf, "panel read", panel.mount, queue')
                     /\ panel.target \in {NoServer, panel.panel}
          <5>1. /\ WindowFits(Servers.diag, Servers.diagOf, "diagnosed", Servers.mount, queue)
                /\ WindowFits(Servers.panel, Servers.panelOf, "panel read", Servers.mount, queue)
                /\ Servers.target \in {NoServer, Servers.panel}
            BY <3>2, <4>2 DEF WindowsFit
          <5>2. c.x = Servers.panel
            BY <1>7, <1>10, <3>5, <5>1 DEF WindowFits, Servers
          <5>3. \A i \in DOMAIN queue' : queue'[i].on = Servers.mount /\ queue'[i].k = "panel read" =>
                                              queue'[i].x = Servers.panel
            <6>1. \A i \in DOMAIN queue : queue[i].on = Servers.mount /\ queue[i].k = "panel read" =>
                                               queue[i].x = Servers.panel
              BY <5>1 DEF WindowFits
            <6>2. \A i \in DOMAIN queue' : i + 1 \in DOMAIN queue /\ queue'[i] = queue[i + 1]
              BY <1>70
            <6> QED BY <6>1, <6>2
          <5>4. WindowFits(panel.panel, panel.panelOf, "panel read", panel.mount, queue')
            BY <4>1, <5>2, <5>3 DEF WindowFits
          <5>5. queue[1].k # "diagnosed"
            BY <1>7, <3>5
          <5>6. WindowFits(Servers.diag, Servers.diagOf, "diagnosed", Servers.mount, queue')
            BY <1>6, <1>7, <5>1, <5>5, WindowKeeps
          <5> QED BY <4>1, <5>1, <5>4, <5>6
        <4> QED BY <3>5, <4>1, <4>2 DEF WindowsFit
      <3> QED BY <2>2, <3>4, <3>5
    <2> QED BY <1>8, <2>4 DEF Windows
  <1> QED BY <1>9, <1>10

\* The other answers to the inventory.
LEMMA WindowsAnswers ==
    ASSUME Base, Windows, ServersAnswer
    PROVE  Windows'
  <1> DEFINE c == Head(queue)
  <1>0. Servers.mount \in 0 .. app.mounts /\ "mount" \in DOMAIN Servers
    BY Mounted DEF Servers, TabNames
  <1>00. Open("Servers") => DOMAIN Servers = WindowKeys
    BY DEF Windows, WindowsFit
  <1>1. ASSUME NEW k, k \notin WindowKinds, Awaited(k), NEW calls, IsSeq(calls), \A i \in DOMAIN calls : Calm(calls[i]),
               queue' = Tail(queue) \o calls, NEW new, Shows(c, "Servers", new), new.mount = Servers.mount,
               Open("Servers") => SameWindows(new) /\ new.rush = Servers.rush
        PROVE  Windows'
    BY <1>1, WindowsShowing
  <1>2. IsSeq(<<>>) /\ \A i \in DOMAIN <<>> : Calm(<<>>[i])
    BY FewCalm
  <1>3. \A k \in {"tokens", "password saved", "token saved", "tested", "accepted", "serviced", "suspended"} :
          k \notin WindowKinds
    BY DEF WindowKinds
  <1>4. CASE TokensListed
    <2>1. Awaited("tokens") /\ queue' = Tail(queue) \o <<>>
      BY <1>4 DEF TokensListed, Take
    <2>2. PICK v : Shows(c, "Servers", [Servers EXCEPT !.refs = v])
      BY <1>4 DEF TokensListed
    <2> DEFINE new == [Servers EXCEPT !.refs = v]
    <2>3. new.mount = Servers.mount /\ (Open("Servers") => SameWindows(new) /\ new.rush = Servers.rush)
      BY <1>0, <1>00 DEF SameWindows, WindowKeys
    <2> QED BY <1>1, <1>2, <1>3, <2>1, <2>2, <2>3
  <1>5. CASE PasswordSaved
    <2>1. Awaited("password saved")
      BY <1>5 DEF PasswordSaved
    <2>2. PICK s : queue' = Tail(queue) \o StoreToken(c.on, s) /\ Shows(c, "Servers", AfterToken(Servers, s))
      BY <1>5 DEF PasswordSaved, Take
    <2> DEFINE new == AfterToken(Servers, s)
    <2>3. new = Servers \/ \E v : new = [Servers EXCEPT !.saving = FALSE, !.form = v]
      BY DEF AfterToken, Finished
    <2>4. Shows(c, "Servers", new)
      BY <2>2
    <2> HIDE DEF new
    <2>5. new.mount = Servers.mount /\ (Open("Servers") => SameWindows(new) /\ new.rush = Servers.rush)
      BY <1>0, <1>00, <2>3 DEF SameWindows, WindowKeys
    <2> QED BY <1>1, <1>3, <2>1, <2>2, <2>4, <2>5, SubmissionCalm
  <1>6. CASE TokenSaved
    <2>1. Awaited("token saved")
      BY <1>6 DEF TokenSaved
    <2>2. PICK id, p : queue' = Tail(queue) \o AddServer(id, p) /\ Shows(c, "Servers", Finished(Servers))
      BY <1>6 DEF TokenSaved, Take
    <2> DEFINE new == Finished(Servers)
    <2>3. \E v : new = [Servers EXCEPT !.saving = FALSE, !.form = v]
      BY DEF Finished
    <2>4. Shows(c, "Servers", new)
      BY <2>2
    <2> HIDE DEF new
    <2>5. new.mount = Servers.mount /\ (Open("Servers") => SameWindows(new) /\ new.rush = Servers.rush)
      BY <1>0, <1>00, <2>3 DEF SameWindows, WindowKeys
    <2> QED BY <1>1, <1>3, <2>1, <2>2, <2>4, <2>5, SubmissionCalm
  <1>7. CASE ConnectionTested
    <2>1. Awaited("tested") /\ queue' = Tail(queue) \o <<>>
      BY <1>7 DEF ConnectionTested, Take
    <2>2. PICK v, w : Shows(c, "Servers", [Servers EXCEPT !.alert = v, !.unknown = w])
      BY <1>7 DEF ConnectionTested
    <2> DEFINE new == [Servers EXCEPT !.alert = v, !.unknown = w]
    <2>3. new.mount = Servers.mount /\ (Open("Servers") => SameWindows(new) /\ new.rush = Servers.rush)
      BY <1>0, <1>00 DEF SameWindows, WindowKeys
    <2> QED BY <1>1, <1>2, <1>3, <2>1, <2>2, <2>3
  <1>70. CASE TestGoesOn
    <2>1. Awaited("tested") /\ tabs' = tabs /\ queue' = Tail(queue) \o << c >>
      BY <1>70 DEF TestGoesOn, Take
    <2>2. Calm(c)
      BY <1>3, <1>70 DEF TestGoesOn, Awaited, Calm, WindowOps
    <2> HIDE DEF c
    <2>3. IsSeq(<< c >>) /\ \A i \in DOMAIN << c >> : Calm(<< c >>[i])
      BY <2>2, FewCalm
    <2>4. queue # <<>> /\ Head(queue).k \notin WindowKinds
      BY <1>3, <2>1 DEF Awaited
    <2> QED BY <2>1, <2>3, <2>4, WindowsCalm
  <1>8. CASE HostKeyAccepted
    <2> DEFINE new == [Servers EXCEPT !.alert = NoServer]
               call == TestCall(c.on, c.e.id)
    <2>1. /\ Awaited("accepted") /\ Shows(c, "Servers", new)
          /\ queue' = Tail(queue) \o << call >> \/ queue' = Tail(queue) \o <<>>
      BY <1>8 DEF HostKeyAccepted, Take
    <2>2. new.mount = Servers.mount /\ (Open("Servers") => SameWindows(new) /\ new.rush = Servers.rush)
      BY <1>0, <1>00 DEF SameWindows, WindowKeys
    <2>3. Calm(call)
      BY DEF TestCall, Calm, WindowOps, WindowKinds
    <2> HIDE DEF call, new
    <2>4. IsSeq(<< call >>) /\ \A i \in DOMAIN << call >> : Calm(<< call >>[i])
      BY <2>3, FewCalm
    <2> QED BY <1>1, <1>2, <1>3, <2>1, <2>2, <2>4
  <1>9. CASE Serviced
    <2> DEFINE call == [c EXCEPT !.op = "serverServiceStatus", !.x = c.x.server, !.k = "-", !.e = 0]
    <2>1. Awaited("serviced") /\ tabs' = tabs /\ queue' = Tail(queue) \o << call >>
      BY <1>9 DEF Serviced, Take
    <2>2. DOMAIN c = CallFields
      BY <2>1, Headed DEF CallFits, CallFields
    <2>3. Calm(call)
      BY <2>2 DEF CallFields, Calm, WindowOps, WindowKinds
    <2> HIDE DEF call
    <2>4. IsSeq(<< call >>) /\ \A i \in DOMAIN << call >> : Calm(<< call >>[i])
      BY <2>3, FewCalm
    <2>5. queue # <<>> /\ Head(queue).k \notin WindowKinds
      BY <1>3, <2>1 DEF Awaited
    <2> QED BY <2>1, <2>4, <2>5, WindowsCalm
  <1>10. CASE Suspended
    <2> DEFINE new == [Servers EXCEPT !.target = NoServer, !.typed = FALSE]
    <2>1. Awaited("suspended") /\ queue' = Tail(queue) \o <<>> /\ Shows(c, "Servers", new)
      BY <1>10 DEF Suspended, Take
    <2>2. new.mount = Servers.mount /\ (Open("Servers") => SameWindows(new) /\ new.rush = Servers.rush)
      BY <1>0, <1>00 DEF SameWindows, WindowKeys
    <2> HIDE DEF new
    <2> QED BY <1>1, <1>2, <1>3, <2>1, <2>2
  <1> QED BY <1>4, <1>5, <1>6, <1>7, <1>70, <1>8, <1>9, <1>10, WindowsRead DEF ServersAnswer

-----------------------------------------------------------------------------
(* Mounting *)

\* A calm call that concerns neither App's servers nor its mode, and changes no file.
Mild(c) == Calm(c) /\ ~ModeWrite(c) /\ c.k \notin AppKinds /\ c.k # "written"

\* What the views ask for when they are mounted.
LEMMA EffectMild ==
    ASSUME Base, NEW v \in TabNames, NEW mount \in Nat
    PROVE  IsSeq(Effect(v, mount)) /\ \A i \in DOMAIN Effect(v, mount) : Mild(Effect(v, mount)[i])
  <1>0. mount \in 0 .. mount
    OBVIOUS
  <1>00. \A c : Mild(c) => IsSeq(<< c >>) /\ \A i \in DOMAIN << c >> : Mild(<< c >>[i])
    BY FewSeq
  <1>1. \A a, b : Mild(a) /\ Mild(b) =>
                    IsSeq(<< a, b >>) /\ \A i \in DOMAIN << a, b >> : Mild(<< a, b >>[i])
    BY FewSeq
  <1>2. ASSUME NEW op, op \notin WindowOps, op # "setSetting", NEW k, k \notin WindowKinds \cup AppKinds, k # "written",
               NEW x, NEW e
        PROVE  Mild([op |-> op, x |-> x, k |-> k, e |-> e, on |-> mount])
    BY <1>2 DEF Mild, Calm, ModeWrite
  <1>3. \A op \in {"listPendingApprovals", "listConversations", "sftpListDirectory", "listServers",
                   "listTerminalSessions", "listCredentialRefs", "safetyListBackups"} : op \notin WindowOps /\ op # "setSetting"
    BY DEF WindowOps
  <1>4. \A k \in {"pending", "listed", "directory", "available", "sessions", "tokens", "activity"} :
                   k \notin WindowKinds \cup AppKinds /\ k # "written"
    BY DEF WindowKinds, AppKinds, LaunchKinds, ListKinds, ChangeKinds
  <1>5. CASE v = "Chat"
    <2> DEFINE a == [op |-> "listPendingApprovals", x |-> 0, k |-> "pending", e |-> 0, on |-> mount]
               b == [op |-> "listConversations", x |-> ActiveServer, k |-> "listed", e |-> 0, on |-> mount]
    <2>1. Mild(a) /\ Mild(b)
      BY <1>2, <1>3, <1>4
    <2>2. Effect(v, mount) = << a, b >>
      BY <1>5 DEF Effect, ChatEffect
    <2> HIDE DEF a, b
    <2> QED BY <1>1, <2>1, <2>2
  <1>6. CASE v = "Files"
    <2> DEFINE a == ListingCall(mount, ActiveServer, FreshFiles(mount).dir, "none")
    <2>1. Mild(a)
      BY <1>3, <1>4 DEF ListingCall, Mild, Calm, ModeWrite
    <2>2. Effect(v, mount) = << a >>
      BY <1>6 DEF Effect, FilesEffect
    <2> HIDE DEF a
    <2> QED BY <2>1, <2>2, <1>00
  <1>7. CASE v = "Terminal"
    <2> DEFINE a == [op |-> "listServers", x |-> 0, k |-> "available", e |-> 0, on |-> mount]
               b == SessionsCall(mount, ActiveServer, NoTerm)
    <2>1. Mild(a) /\ Mild(b)
      BY <1>3, <1>4 DEF SessionsCall, Mild, Calm, ModeWrite
    <2>2. Effect(v, mount) = << a, b >>
      BY <1>7 DEF Effect, TerminalEffect
    <2> HIDE DEF a, b
    <2> QED BY <1>1, <2>1, <2>2
  <1>8. CASE v = "Settings"
    <2>1. Effect(v, mount) = << LoadStep(mount, app.mode, 1, <<>>) >>
      BY <1>8 DEF Effect, SettingsEffect
    <2>20. 1 \in 1 .. 10
      OBVIOUS
    <2>2. AsideCalls(<< LoadStep(mount, app.mode, 1, <<>>) >>)
      BY <1>0, <2>20, LoadFits
    <2> QED BY <2>1, <2>2 DEF AsideCalls, Aside, Mild, Calm, LoudKinds, FileKinds
  <1>9. CASE v = "Servers"
    <2> DEFINE a == [op |-> "listCredentialRefs", x |-> 0, k |-> "tokens", e |-> 0, on |-> mount]
    <2>1. Mild(a)
      BY <1>2, <1>3, <1>4
    <2>2. Effect(v, mount) = << a >>
      BY <1>9 DEF Effect, ServersEffect
    <2> HIDE DEF a
    <2> QED BY <2>1, <2>2, <1>00
  <1>10. CASE v = "Activity"
    <2> DEFINE a == [op |-> "safetyListBackups", x |-> NoServer, k |-> "activity", e |-> FALSE, on |-> mount]
    <2>1. Mild(a)
      BY <1>2, <1>3, <1>4
    <2>2. Effect(v, mount) = << a >>
      BY <1>10 DEF Effect, ActivityEffect
    <2> HIDE DEF a
    <2> QED BY <2>1, <2>2, <1>00
  <1> QED BY <1>5, <1>6, <1>7, <1>8, <1>9, <1>10 DEF TabNames

\* The files are mounted anew, and ask for their listing.
FilesLaid(n, calls) ==
    /\ tabs'["Files"] = FreshFiles(n) /\ tabs'["Servers"] = NotMounted
    /\ calls = << ListingCall(n, ActiveServer, FreshFiles(n).dir, "none") >>

\* The inventory and the files are mounted anew or gone, never both, and what
\* is asked for is mild; the files ask for their listing.
LEMMA Laid ==
    ASSUME Base, ToggleSplit \/ \E v \in TabNames : SelectView(v)
    PROVE  \/ UNCHANGED << tabs, queue >>
           \/ \E calls :
                /\ IsSeq(calls) /\ \A i \in DOMAIN calls : Mild(calls[i])
                /\ queue' = queue \o calls
                /\ \/ tabs'["Servers"] = NotMounted
                   \/ tabs'["Servers"] = FreshServers(app.mounts + 1)
                /\ \/ tabs'["Files"] = NotMounted
                   \/ FilesLaid(app.mounts + 1, calls)
  <1>0. app.mounts \in Nat /\ app.view \in TabNames
    BY DEF Base, AppFits
  <1> DEFINE n == app.mounts + 1
             m == n + 1
  <1>00. n \in Nat /\ m \in Nat
    BY <1>0
  <1>1. ASSUME NEW v \in TabNames, Alone(v)
        PROVE  /\ queue' = queue \o Effect(v, n)
               /\ tabs'["Servers"] = NotMounted \/ tabs'["Servers"] = FreshServers(n)
               /\ tabs'["Files"] = NotMounted \/ FilesLaid(n, Effect(v, n))
    <2>1. Mounting([u \in {v} |-> n], Effect(v, n))
      BY <1>1 DEF Alone
    <2> HIDE DEF n
    <2>2. /\ queue' = queue \o Effect(v, n)
          /\ tabs' = [w \in TabNames |-> IF w \in {v} THEN Fresh(w, [u \in {v} |-> n][w]) ELSE NotMounted]
      BY <2>1 DEF Mounting
    <2>3. tabs'["Servers"] = IF "Servers" \in {v} THEN Fresh("Servers", [u \in {v} |-> n]["Servers"]) ELSE NotMounted
      BY <2>2 DEF TabNames
    <2>4. "Servers" \in {v} => [u \in {v} |-> n]["Servers"] = n
      OBVIOUS
    <2>5. Fresh("Servers", n) = FreshServers(n) /\ Fresh("Files", n) = FreshFiles(n)
      BY DEF Fresh
    <2>6. tabs'["Files"] = IF "Files" \in {v} THEN Fresh("Files", [u \in {v} |-> n]["Files"]) ELSE NotMounted
      BY <2>2 DEF TabNames
    <2>7. "Files" \in {v} => [u \in {v} |-> n]["Files"] = n
      OBVIOUS
    <2>8. CASE v = "Files"
      <3>1. Effect(v, n) = << ListingCall(n, ActiveServer, FreshFiles(n).dir, "none") >>
        BY <2>8 DEF Effect, FilesEffect
      <3>2. tabs'["Servers"] = NotMounted /\ tabs'["Files"] = FreshFiles(n)
        BY <2>3, <2>5, <2>6, <2>7, <2>8
      <3> QED BY <2>2, <3>1, <3>2 DEF FilesLaid
    <2>9. CASE v # "Files"
      BY <2>2, <2>3, <2>4, <2>5, <2>6, <2>9
    <2> QED BY <2>8, <2>9
  <1>2. ASSUME NEW v \in TabNames, SelectView(v)
        PROVE  UNCHANGED << tabs, queue >> \/ Alone(v)
    BY <1>2 DEF SelectView
  <1>3. CASE Beside
    <2> DEFINE number == [u \in {"Chat", "Terminal"} |-> IF u = "Chat" THEN n ELSE m]
               calls == Effect("Chat", n) \o Effect("Terminal", m)
    <2>1. Mounting(number, calls)
      BY <1>3 DEF Beside
    <2>2. "Servers" \notin DOMAIN number /\ "Files" \notin DOMAIN number
      OBVIOUS
    <2> HIDE DEF number
    <2>3. queue' = queue \o calls /\ tabs'["Servers"] = NotMounted /\ tabs'["Files"] = NotMounted
      BY <2>1, <2>2 DEF Mounting, TabNames
    <2> HIDE DEF n, m
    <2>4. /\ IsSeq(Effect("Chat", n)) /\ \A i \in DOMAIN Effect("Chat", n) : Mild(Effect("Chat", n)[i])
          /\ IsSeq(Effect("Terminal", m)) /\ \A i \in DOMAIN Effect("Terminal", m) : Mild(Effect("Terminal", m)[i])
      BY <1>00, EffectMild DEF TabNames
    <2>5. IsSeq(calls) /\ \A i \in DOMAIN calls : Mild(calls[i])
      BY <2>4, JoinSeq
    <2> HIDE DEF calls
    <2> QED BY <2>3, <2>5
  <1>4. ASSUME ToggleSplit
        PROVE  Alone(app.view) \/ Beside
    BY <1>4 DEF ToggleSplit
  <1>5. ASSUME NEW v \in TabNames, Alone(v)
        PROVE  \E calls :
                /\ IsSeq(calls) /\ \A i \in DOMAIN calls : Mild(calls[i])
                /\ queue' = queue \o calls
                /\ \/ tabs'["Servers"] = NotMounted
                   \/ tabs'["Servers"] = FreshServers(app.mounts + 1)
                /\ \/ tabs'["Files"] = NotMounted
                   \/ FilesLaid(app.mounts + 1, calls)
    <2>1. IsSeq(Effect(v, n)) /\ \A i \in DOMAIN Effect(v, n) : Mild(Effect(v, n)[i])
      BY <1>00, EffectMild
    <2> QED BY <1>1, <1>5, <2>1
  <1> QED BY <1>0, <1>2, <1>3, <1>4, <1>5

\* Navigation, and the button that splits the page.
LEMMA WindowsMounts ==
    ASSUME Base, Windows, ToggleSplit \/ \E v \in TabNames : SelectView(v)
    PROVE  Windows'
  <1>1. CASE UNCHANGED << tabs, queue >>
    BY <1>1 DEF Windows, Open, Servers
  <1>2. ASSUME NEW calls, IsSeq(calls), \A i \in DOMAIN calls : Calm(calls[i]), queue' = queue \o calls,
               tabs'["Servers"] = NotMounted \/ tabs'["Servers"] = FreshServers(app.mounts + 1)
        PROVE  Windows'
    <2>1. Moved(queue, 0, calls, queue')
      BY <1>2, AnyMove
    <2>2. \A i \in DOMAIN queue' : ActsOnShown(queue'[i])
      BY <1>2, <2>1, ActsKept DEF Calm, ActsOnShown, Windows
    <2>3. CASE tabs'["Servers"] = NotMounted
      BY <2>2, <2>3 DEF Windows, Open, NotMounted
    <2>4. CASE tabs'["Servers"] = FreshServers(app.mounts + 1)
      <3> DEFINE me == FreshServers(app.mounts + 1)
      <3>1. app.mounts \in Nat
        BY DEF Base, AppFits
      <3>2. /\ DOMAIN me = WindowKeys /\ me.mount = app.mounts + 1 /\ me.diag = NoServer /\ me.diagOf = NoServer
            /\ me.panel = NoServer /\ me.panelOf = NoServer /\ me.target = NoServer
        BY DEF FreshServers, WindowKeys
      <3>3. ASSUME NEW i \in DOMAIN queue
            PROVE  queue[i].on # me.mount
        <4>1. queue[i].on \in 0 .. app.mounts
          BY DEF Base, QueueFits, CallFits
        <4> QED BY <3>1, <3>2, <4>1
      <3> HIDE DEF me
      <3>4. "diagnosed" \in WindowKinds /\ "panel read" \in WindowKinds
        BY DEF WindowKinds
      <3>5. WindowFits(me.diag, me.diagOf, "diagnosed", me.mount, calls)
        BY <1>2, <3>2, <3>4, WindowBeside DEF Calm
      <3>6. WindowFits(me.panel, me.panelOf, "panel read", me.mount, calls)
        BY <1>2, <3>2, <3>4, WindowBeside DEF Calm
      <3>7. WindowsFit(me, queue')
        BY <1>2, <2>1, <3>2, <3>3, <3>5, <3>6, WindowAnew DEF WindowsFit
      <3> QED BY <2>2, <2>4, <3>7 DEF Windows, Servers, me
    <2> QED BY <1>2, <2>3, <2>4
  <1> QED BY <1>1, <1>2, Laid DEF Mild

-----------------------------------------------------------------------------
(* The windows are always true *)

\* They are at launch.
LEMMA WindowsInit == Init => Windows
  <1> SUFFICES ASSUME Init PROVE Windows
    OBVIOUS
  <1> DEFINE call == AppCall("listServers", 0, "launch servers", 0)
             a == [op |-> "listPendingApprovals", x |-> 0, k |-> "pending", e |-> 0, on |-> 1]
             b == [op |-> "listConversations", x |-> NoServer, k |-> "listed", e |-> 0, on |-> 1]
  <1>1. queue = << a, b >> \o << call >>
    BY DEF Init, ChatEffect
  <1>2. ActsOnShown(a) /\ ActsOnShown(b) /\ ActsOnShown(call)
    BY DEF ActsOnShown, WindowOps, AppCall
  <1>3. tabs["Servers"] = NotMounted
    BY DEF Init, TabNames
  <1> HIDE DEF a, b, call
  <1>4. /\ IsSeq(<< a, b >>) /\ \A i \in DOMAIN << a, b >> : ActsOnShown(<< a, b >>[i])
        /\ IsSeq(<< call >>) /\ \A i \in DOMAIN << call >> : ActsOnShown(<< call >>[i])
    BY <1>2, FewSeq
  <1>5. \A i \in DOMAIN queue : ActsOnShown(queue[i])
    <2> DEFINE p == << a, b >>
               q == << call >>
               new == p \o q
    <2>1. /\ IsSeq(new)
          /\ \A i \in DOMAIN new : \/ i \in DOMAIN p /\ new[i] = p[i]
                                   \/ i - Len(p) \in DOMAIN q /\ new[i] = q[i - Len(p)]
      BY <1>4, JoinSeq
    <2>2. queue = new
      BY <1>1
    <2>3. (\A i \in DOMAIN p : ActsOnShown(p[i])) /\ \A i \in DOMAIN q : ActsOnShown(q[i])
      BY <1>4
    <2> HIDE DEF p, q, new
    <2> QED BY <2>1, <2>2, <2>3
  <1> QED BY <1>3, <1>5 DEF Windows, Open, NotMounted

\* Every step keeps them so.
LEMMA WindowsStep == Base /\ Windows /\ [Next]_vars => Windows'
  <1> SUFFICES ASSUME Base, Windows, [Next]_vars PROVE Windows'
    OBVIOUS
  <1>1. CASE Operator
    <2>1. CASE \E s \in ServerIds : SelectServer(s)
      BY <2>1, WindowsHeader
    <2>2. CASE \E mode \in Modes : ChangeMode(mode)
      <3>1. \E mode \in Modes : ChangeMode(mode)
        BY <2>2
      <3>2. UNCHANGED chatVars
        BY <2>2 DEF ChangeMode
      <3> QED BY <3>1, <3>2, ModesBase, WindowsHeader
    <2>3. CASE ChatOperator
      BY <2>3, ChatActs, SendActs, WindowsAside DEF ChatOperator
    <2>4. CASE FilesOperator /\ UNCHANGED chatVars
      BY <2>4, FilesBase, WindowsFiles
    <2>5. CASE TerminalOperator /\ UNCHANGED chatVars
      BY <2>5, TerminalActs, WindowsAside
    <2>6. CASE SettingsOperator /\ UNCHANGED chatVars
      BY <2>6, SettingsActs, ModesBase, SaveAllBase, WindowsAside, WindowsHeader DEF SettingsOperator
    <2>7. CASE ServersOperator
      BY <2>7, WindowsForm, WindowsDiagnostics, WindowsPanel DEF ServersOperator
    <2>8. CASE ActivityOperator /\ UNCHANGED chatVars
      BY <2>8, ActivityActs, WindowsAside
    <2>9. CASE ToggleSplit \/ \E v \in TabNames : SelectView(v)
      BY <2>9, WindowsMounts
    <2> QED BY <1>1, <2>1, <2>2, <2>3, <2>4, <2>5, <2>6, <2>7, <2>8, <2>9 DEF Operator
  <1>2. CASE Answer
    <2>1. CASE LaunchServers \/ LaunchMode \/ ServerSaved \/ ServerListed \/ ServerDeleted \/ ServerGone
      BY <2>1, WindowsApp
    <2>2. CASE ChatAnswer
      <3>1. CASE PendingShown \/ ConversationsListed \/ ConversationLoaded \/ ConversationDeleted
        BY <3>1, ChatAnswers, WindowsAside
      <3>2. CASE Configured \/ PrivacyRead \/ KeyResolved \/ ToolAnswered
        BY <3>2, TurnSteps, WindowsAside
      <3>3. CASE WordsStored
        BY <3>3, WordsKept, WindowsAside
      <3>4. CASE Approved \/ Rejected
        BY <3>4, DecisionSteps, WindowsAside
      <3> QED BY <2>2, <3>1, <3>2, <3>3, <3>4 DEF ChatAnswer
    <2>3. CASE SettingsAnswer /\ UNCHANGED chatVars
      BY <2>3, SettingsAnswers, WindowsAside
    <2>4. CASE Unwatched /\ UNCHANGED chatVars
      BY <2>4, WordsKept, WindowsAside
    <2>5. CASE FilesAnswer /\ UNCHANGED chatVars
      BY <2>5, FilesAnswersBase, WindowsFiles
    <2>6. CASE TerminalAnswer /\ UNCHANGED chatVars
      BY <2>6, TerminalAnswers, WindowsAside
    <2>7. CASE ServersAnswer
      BY <2>7, WindowsAnswers
    <2>8. CASE ActivityAnswer /\ UNCHANGED chatVars
      BY <2>8, ActivityAnswers, WindowsAside
    <2> QED BY <1>2, <2>1, <2>2, <2>3, <2>4, <2>5, <2>6, <2>7, <2>8 DEF Answer
  <1>3. CASE Environment
    BY <1>3, ProviderSteps, TerminalMoves, SettingsMoves, WindowsAside DEF Environment
  <1>4. CASE UNCHANGED vars
    BY <1>4 DEF vars, coreVars, Windows, Open, Servers
  <1> QED BY <1>1, <1>2, <1>3, <1>4 DEF Next

\* Operating a service, a panel service or an account acts on the server whose
\* facts were on screen, whatever windows were opened and read in between, if
\* the operator has waited for the answers (ServersView.tsx).
THEOREM WindowsAreTrue == Spec => []WindowsActOnShown
  <1>1. Windows => WindowsActOnShown
    BY DEF Windows, ActsOnShown, WindowOps, WindowsActOnShown
  <1>2. Spec => []Windows
    BY WindowsInit, WindowsStep, DesktopInvariance, PTL DEF Spec
  <1> QED BY <1>1, <1>2, PTL

-----------------------------------------------------------------------------
(* What App shows *)

\* Other calls leave the last write of the mode what it is.
LEMMA ModeKeeps ==
    ASSUME NEW mode, NEW stored, NEW q, ModeTrue(mode, stored, q),
           NEW d, NEW calls, NEW new, Moved(q, d, calls, new),
           \A i \in DOMAIN calls : ~ModeWrite(calls[i]),
           NEW after, after = IF d = 1 /\ ModeWrite(q[1]) THEN q[1].x.value ELSE stored,
           d = 1 => 1 \in DOMAIN q
    PROVE  ModeTrue(mode, after, new)
  <1>1. DOMAIN q = 1 .. Len(q) /\ Len(q) - d \in Nat /\ d \in {0, 1} /\ DOMAIN new = 1 .. Len(new)
    BY DEF Moved, IsSeq
  <1>2. \A i \in DOMAIN new : ModeWrite(new[i]) => i + d \in DOMAIN q /\ new[i] = q[i + d]
    BY DEF Moved
  <1>3. CASE mode = stored /\ \A i \in DOMAIN q : ~ModeWrite(q[i])
    BY <1>2, <1>3 DEF ModeTrue
  <1>4. ASSUME NEW i \in DOMAIN q, ModeWrite(q[i]), q[i].x.value = mode,
               \A j \in DOMAIN q : ModeWrite(q[j]) => j <= i
        PROVE  ModeTrue(mode, after, new)
    <2>1. CASE i > d
      <3>1. i - d \in DOMAIN new /\ new[i - d] = q[i]
        BY <2>1 DEF Moved
      <3>2. \A j \in DOMAIN new : ModeWrite(new[j]) => j <= i - d
        <4> TAKE j \in DOMAIN new
        <4> HAVE ModeWrite(new[j])
        <4>1. j + d \in DOMAIN q /\ new[j] = q[j + d]
          BY <1>2
        <4>2. j + d <= i
          BY <1>4, <4>1
        <4> QED BY <1>1, <4>2
      <3> QED BY <1>4, <3>1, <3>2 DEF ModeTrue
    <2>2. CASE i <= d
      <3>1. i = 1 /\ d = 1
        BY <1>1, <2>2
      <3>2. after = mode
        BY <1>4, <3>1
      <3>3. ASSUME NEW j \in DOMAIN new, ModeWrite(new[j])
            PROVE  FALSE
        <4>1. j + 1 \in DOMAIN q /\ new[j] = q[j + 1]
          BY <1>2, <3>1, <3>3
        <4>2. j + 1 <= 1
          BY <1>4, <3>1, <3>3, <4>1
        <4> QED BY <1>1, <4>2
      <3> QED BY <3>2, <3>3 DEF ModeTrue
    <2> QED BY <1>1, <2>1, <2>2
  <1> QED BY <1>3, <1>4 DEF ModeTrue

\* Nor is anything else written before the stored mode has been read.
LEMMA UnreadKeeps ==
    ASSUME NEW mode, NEW stored, NEW q, Unread(mode, stored, q),
           NEW d, NEW calls, NEW new, Moved(q, d, calls, new),
           \A i \in DOMAIN calls : ~ModeWrite(calls[i]),
           NEW after, after = IF d = 1 /\ ModeWrite(q[1]) THEN q[1].x.value ELSE stored,
           d = 1 => 1 \in DOMAIN q
    PROVE  Unread(mode, after, new)
  <1>1. \A i \in DOMAIN new : ModeWrite(new[i]) => i + d \in DOMAIN q /\ new[i] = q[i + d]
    BY DEF Moved
  <1>2. after = mode
    BY DEF Unread
  <1> QED BY <1>1, <1>2 DEF Unread

\* It is still read once.
LEMMA OnceKeeps ==
    ASSUME NEW launched, NEW q, LaunchOnce(launched, q),
           NEW d, NEW calls, NEW new, Moved(q, d, calls, new),
           \A i \in DOMAIN calls : calls[i].k \notin LaunchKinds
    PROVE  LaunchOnce(launched, new)
  <1>1. \A i \in DOMAIN new : new[i].k \in LaunchKinds => i + d \in DOMAIN q /\ new[i] = q[i + d]
    BY DEF Moved
  <1>2. d \in {0, 1} /\ DOMAIN new = 1 .. Len(new)
    BY DEF Moved, IsSeq
  <1>3. ASSUME NEW i \in DOMAIN new, NEW j \in DOMAIN new, new[i].k \in LaunchKinds, new[j].k \in LaunchKinds
        PROVE  i = j
    <2>1. i + d = j + d
      BY <1>1, <1>3 DEF LaunchOnce
    <2> QED BY <1>2, <2>1
  <1> QED BY <1>1, <1>3 DEF LaunchOnce

\* App still reads the servers again.
LEMMA ListingKeeps ==
    ASSUME NEW q, \E i \in DOMAIN q : q[i].k \in ListKinds,
           NEW d, NEW calls, NEW new, Moved(q, d, calls, new),
           d = 1 => q[1].k \notin ListKinds
    PROVE  \E i \in DOMAIN new : new[i].k \in ListKinds
  <1>1. PICK i \in DOMAIN q : q[i].k \in ListKinds
    OBVIOUS
  <1>2. i > d
    BY <1>1 DEF Moved
  <1> QED BY <1>1, <1>2 DEF Moved

\* What the core makes of the call answered, if the page never stood in for
\* what App goes by.
LEMMA CoreAnswers ==
    ASSUME Base, queue # <<>>, NEW r \in Answers(Head(queue)), tauri,
           r.store.faked \cap AppReads = {}
    PROVE  LET c == Head(queue) IN
           /\ store.faked \cap AppReads = {}
           /\ r.store.core.settings.permission_mode =
                IF ModeWrite(c) THEN c.x.value ELSE store.core.settings.permission_mode
           /\ c.k \notin ChangeKinds => r.store.core.servers = store.core.servers
           /\ c.op = "listServers" => r.val = store.core.servers
           /\ c.op = "getSetting" => r.val = store.core.settings[c.x]
  <1> DEFINE c == Head(queue)
  <1>1. CallFits(c, sent, app.mounts)
    BY TailFits DEF Base
  <1>2. Reflects(c, r)
    BY <1>1, Answered
  <1>3. store.faked \cap AppReads = {}
    BY <1>2 DEF Reflects
  <1>4. c.op = "saveServer" \/ c.op = "deleteServer" => c.k \in ChangeKinds
    BY <1>1 DEF CallFits, KindFits, ChangeKinds
  <1> HIDE DEF c
  <1>5. CASE c.op \notin AppReads
    <2>1. ~ModeWrite(c) /\ c.op \notin {"listServers", "getSetting"}
      BY <1>5 DEF ModeWrite, AppReads
    <2>2. \/ r.store.core = store.core
          \/ \E s \in Serve(store.core, c) :
               AnswerFits(store.core, c, s) /\ r.store.core = s.b /\ r.val = s.val
      BY <1>2 DEF Reflects
    <2> QED BY <1>3, <1>4, <2>1, <2>2 DEF AnswerFits, c
  <1>6. CASE c.op \in AppReads
    <2>1. ~Refused(c) /\ c.op \notin ToolCalls
      BY <1>6 DEF AppReads, Refused, ToolCalls
    <2>2. PICK s \in Serve(store.core, c) :
               AnswerFits(store.core, c, s) /\ r.store.core = s.b /\ r.val = s.val
      BY <1>2, <1>6, <2>1 DEF Reflects
    <2> QED BY <1>3, <1>4, <2>2 DEF AnswerFits, c
  <1> QED BY <1>5, <1>6

\* Neither App's servers nor its mode, nor whether they have been read.
SameApp ==
    /\ app'.servers = app.servers /\ app'.mode = app.mode
    /\ app'.launched = app.launched /\ app'.early = app.early

\* Calls that concern neither.
Neutral(q) ==
    IsSeq(q) /\ \A i \in DOMAIN q : ~ModeWrite(q[i]) /\ q[i].k \notin LaunchKinds

\* A step that only asks.
LEMMA AppAsking ==
    ASSUME Base, AppTrue, tauri' = tauri, SameApp, store'.faked = store.faked,
           store'.core.servers = store.core.servers, store'.core.settings = store.core.settings,
           NEW calls, Neutral(calls), queue' = queue \o calls
    PROVE  AppTrue'
  <1> DEFINE stored == store.core.settings.permission_mode
  <1>1. Moved(queue, 0, calls, queue')
    BY AnyMove DEF Neutral
  <1>2. stored' = stored
    OBVIOUS
  <1> HIDE DEF stored
  <1>3. LaunchOnce(app'.launched, queue')
    BY <1>1, OnceKeeps DEF AppTrue, SameApp, Neutral
  <1>4. ASSUME tauri', store'.faked \cap AppReads = {}
        PROVE  /\ ServersTrue'
               /\ ~app'.early => ModeTrue(app'.mode, stored', queue')
               /\ ~app'.early /\ ~app'.launched => Unread(app'.mode, stored', queue')
    <2>1. /\ ServersTrue
          /\ ~app.early => ModeTrue(app.mode, stored, queue)
          /\ ~app.early /\ ~app.launched => Unread(app.mode, stored, queue)
      BY <1>4 DEF AppTrue, stored
    <2>2. ServersTrue'
      BY <1>1, <2>1, ListingKeeps DEF ServersTrue, SameApp
    <2>3. ~app'.early => ModeTrue(app'.mode, stored', queue')
      BY <1>1, <1>2, <2>1, ModeKeeps DEF SameApp, Neutral
    <2>4. ~app'.early /\ ~app'.launched => Unread(app'.mode, stored', queue')
      BY <1>1, <1>2, <2>1, UnreadKeeps DEF SameApp, Neutral
    <2> QED BY <2>2, <2>3, <2>4
  <1> QED BY <1>3, <1>4 DEF AppTrue, stored

\* A step that answers a call after which App shows what it did.
LEMMA AppTelling ==
    ASSUME Base, AppTrue, tauri' = tauri, SameApp, queue # <<>>,
           NEW r \in Answers(Head(queue)), store' = r.store, faults' = r.faults,
           Head(queue).k \notin ListKinds,
           NEW calls, Neutral(calls), queue' = Tail(queue) \o calls,
           Head(queue).k \in ChangeKinds => \E i \in DOMAIN calls : calls[i].k \in ListKinds
    PROVE  AppTrue'
  <1> DEFINE stored == store.core.settings.permission_mode
             c == Head(queue)
             after == IF ModeWrite(queue[1]) THEN queue[1].x.value ELSE stored
  <1>1. Moved(queue, 1, calls, queue') /\ c = queue[1] /\ 1 \in DOMAIN queue
    BY AnyMove DEF Neutral
  <1>2. LaunchOnce(app'.launched, queue')
    BY <1>1, OnceKeeps DEF AppTrue, SameApp, Neutral
  <1>3. ASSUME tauri', store'.faked \cap AppReads = {}
        PROVE  /\ ServersTrue'
               /\ ~app'.early => ModeTrue(app'.mode, stored', queue')
               /\ ~app'.early /\ ~app'.launched => Unread(app'.mode, stored', queue')
    <2>0. /\ store.faked \cap AppReads = {}
          /\ stored' = IF ModeWrite(c) THEN c.x.value ELSE stored
          /\ c.k \notin ChangeKinds => store'.core.servers = store.core.servers
      BY <1>3, CoreAnswers
    <2>00. stored' = after
      BY <1>1, <2>0
    <2>1. /\ ServersTrue
          /\ ~app.early => ModeTrue(app.mode, stored, queue)
          /\ ~app.early /\ ~app.launched => Unread(app.mode, stored, queue)
      BY <1>3, <2>0 DEF AppTrue
    <2> DEFINE seen == after
    <2>01. seen = IF 1 = 1 /\ ModeWrite(queue[1]) THEN queue[1].x.value ELSE stored
      OBVIOUS
    <2>02. stored' = seen
      BY <2>00
    <2> HIDE DEF seen, after, stored
    <2>2. ServersTrue'
      <3>1. CASE c.k \in ChangeKinds
        <4>1. PICK j \in DOMAIN calls : calls[j].k \in ListKinds
          BY <3>1
        <4>2. \E i \in DOMAIN queue' : queue'[i].k \in ListKinds
          BY <1>1, <4>1 DEF Moved
        <4> QED BY <4>2 DEF ServersTrue
      <3>2. CASE c.k \notin ChangeKinds /\ app.servers = store.core.servers
        BY <2>0, <3>2 DEF ServersTrue, SameApp
      <3>3. CASE c.k \notin ChangeKinds /\ \E i \in DOMAIN queue : queue[i].k \in ListKinds
        <4>1. \E i \in DOMAIN queue' : queue'[i].k \in ListKinds
          BY <1>1, <3>3, ListingKeeps
        <4> QED BY <4>1 DEF ServersTrue
      <3> QED BY <2>1, <3>1, <3>2, <3>3 DEF ServersTrue
    <2>3. ~app'.early => ModeTrue(app'.mode, stored', queue')
      BY <1>1, <2>01, <2>02, <2>1, ModeKeeps DEF SameApp, Neutral
    <2>4. ~app'.early /\ ~app'.launched => Unread(app'.mode, stored', queue')
      BY <1>1, <2>01, <2>02, <2>1, UnreadKeeps DEF SameApp, Neutral
    <2> QED BY <2>2, <2>3, <2>4
  <1> QED BY <1>2, <1>3 DEF AppTrue

\* Steps of the views.
LEMMA AppViews ==
    ASSUME Base, AppTrue, AsideStep \/ FilesStep \/ ServersStep
    PROVE  AppTrue'
  <1>0. \A k \in FilesKinds \cup InventoryKinds \cup SubmitKinds : k \notin LaunchKinds \cup ListKinds \cup ChangeKinds
    BY DEF FilesKinds, InventoryKinds, ServersKinds, SubmitKinds, LaunchKinds, ListKinds, ChangeKinds
  <1>00. \A k \in SubmissionKinds : k \notin LaunchKinds
    BY <1>0 DEF SubmissionKinds, LaunchKinds
  <1>1. UNCHANGED << tauri, app >> /\ SameApp
    BY DEF AsideStep, FilesStep, ServersStep, SameApp
  <1>2. CASE AsideStep
    <2>1. \A k : k \notin LoudKinds => k \notin LaunchKinds \cup ListKinds \cup ChangeKinds
      BY DEF LoudKinds, AppKinds
    <2>2. \A q : AsideCalls(q) => Neutral(q)
      BY <2>1 DEF AsideCalls, Aside, Neutral
    <2>3. PICK calls :
            /\ AsideCalls(calls)
            /\ \/ /\ queue' = queue \o calls /\ store'.faked = store.faked
                  /\ store'.core.servers = store.core.servers
                  /\ store'.core.settings = store.core.settings
               \/ /\ queue # <<>> /\ Head(queue).k \notin LoudKinds
                  /\ queue' = Tail(queue) \o calls
                  /\ \E r \in Answers(Head(queue)) : store' = r.store /\ faults' = r.faults
      BY <1>2 DEF AsideStep
    <2> QED BY <1>1, <2>1, <2>2, <2>3, AppAsking, AppTelling
  <1>3. ASSUME NEW calls, Neutral(calls), Pushes(calls)
        PROVE  AppTrue'
    BY <1>1, <1>3, AppAsking DEF Pushes
  <1>4. ASSUME NEW kinds, \A k \in kinds : k \notin ListKinds \cup ChangeKinds,
               NEW calls, Neutral(calls), Pops(kinds, calls)
        PROVE  AppTrue'
    BY <1>1, <1>4, AppTelling DEF Pops
  <1>5. CASE FilesStep
    <2>1. PICK calls : FilesCalls(calls) /\ (Pushes(calls) \/ Pops(FilesKinds, calls))
      BY <1>5 DEF FilesStep
    <2>2. Neutral(calls)
      BY <1>0, <2>1 DEF FilesCalls, FilesOps, Neutral, ModeWrite
    <2> QED BY <1>0, <1>3, <1>4, <2>1, <2>2
  <1>6. CASE ServersStep
    <2>1. PICK calls :
         \/ InventoryCalls(calls, SubmissionKinds) /\ Open("Servers") /\ Pushes(calls)
         \/ InventoryCalls(calls, SubmissionKinds) /\ Pops(SubmitKinds, calls)
         \/ InventoryCalls(calls, InventoryKinds) /\ Pops(InventoryKinds, calls)
      BY <1>6 DEF ServersStep
    <2>2. Neutral(calls)
      BY <1>0, <1>00, <2>1 DEF InventoryCalls, Neutral, ModeWrite
    <2> QED BY <1>0, <1>3, <1>4, <2>1, <2>2
  <1> QED BY <1>2, <1>5, <1>6

\* Another server is made active, or views are mounted.
LEMMA AppMoves ==
    ASSUME Base, AppTrue, (\E s : SelectServer(s)) \/ ToggleSplit \/ \E v \in TabNames : SelectView(v)
    PROVE  AppTrue'
  <1>0. DOMAIN app = AppFields
    BY DEF Base, AppFits
  <1>1. UNCHANGED << tauri, store, faults >> /\ SameApp
    <2>1. ASSUME NEW s, SelectServer(s)
          PROVE  UNCHANGED << tauri, store, faults >> /\ SameApp
      BY <1>0, <2>1 DEF SelectServer, SameApp, AppFields
    <2>2. CASE ToggleSplit
      BY <1>0, <2>2 DEF ToggleSplit, SameApp, AppFields
    <2>3. ASSUME NEW v, SelectView(v)
          PROVE  UNCHANGED << tauri, store, faults >> /\ SameApp
      BY <1>0, <2>3 DEF SelectView, SameApp, AppFields
    <2> QED BY <2>1, <2>2, <2>3
  <1>2. ASSUME NEW calls, Neutral(calls), queue' = queue \o calls
        PROVE  AppTrue'
    BY <1>1, <1>2, AppAsking
  <1>3. ASSUME NEW s, SelectServer(s)
        PROVE  AppTrue'
    <2>1. PICK a : queue' = queue \o Effects(a)
      BY <1>3 DEF SelectServer
    <2>2. Neutral(Effects(a))
      BY EffectsAre DEF Follows, FollowOps, FollowKinds, Neutral, ModeWrite, LaunchKinds
    <2> QED BY <1>2, <2>1, <2>2
  <1>4. CASE ToggleSplit \/ \E v \in TabNames : SelectView(v)
    <2>1. CASE UNCHANGED << tabs, queue >>
      BY <1>1, <2>1 DEF AppTrue, SameApp, ServersTrue
    <2>2. ASSUME NEW calls, IsSeq(calls), \A i \in DOMAIN calls : Mild(calls[i]), queue' = queue \o calls
          PROVE  AppTrue'
      BY <1>2, <2>2 DEF Neutral, Mild, AppKinds
    <2> QED BY <1>4, <2>1, <2>2, Laid
  <1> QED BY <1>3, <1>4

\* The mode is changed: the last write is of the one shown.
LEMMA AppModes ==
    ASSUME Base, AppTrue, ModeStep
    PROVE  AppTrue'
  <1> DEFINE stored == store.core.settings.permission_mode
  <1>0. DOMAIN app = AppFields
    BY DEF Base, AppFits
  <1>1. /\ UNCHANGED << tauri, store, faults >>
        /\ app'.servers = app.servers /\ app'.launched = app.launched
        /\ \/ app'.early = app.early /\ app'.mode = app.mode
           \/ app'.early = (app.early \/ ~app.launched)
    BY <1>0 DEF ModeStep, WithMode, AppFields
  <1>2. PICK calls : ModeQueue(calls, app'.mode) /\ queue' = queue \o calls
    BY DEF ModeStep
  <1>3. Moved(queue, 0, calls, queue')
    BY <1>2, AnyMove DEF ModeQueue
  <1>4. \A i \in DOMAIN calls : calls[i].k \notin LaunchKinds \cup ListKinds
    BY <1>2 DEF ModeQueue, LoudKinds, AppKinds
  <1>5. LaunchOnce(app'.launched, queue')
    BY <1>1, <1>3, <1>4, OnceKeeps DEF AppTrue
  <1>6. ModeTrue(app'.mode, stored, queue')
    <2> DEFINE i == Len(queue) + 1
    <2>0. Len(queue) \in Nat /\ Len(queue) - 0 = Len(queue) /\ DOMAIN calls = 1 .. Len(calls)
      BY <1>2 DEF Base, QueueFits, IsSeq, ModeQueue
    <2>1. i \in DOMAIN queue' /\ queue'[i] = calls[1] /\ ModeWrite(calls[1]) /\ calls[1].x.value = app'.mode
      BY <1>2, <1>3, <2>0 DEF Moved, ModeQueue
    <2>2. ASSUME NEW j \in DOMAIN queue', ModeWrite(queue'[j])
          PROVE  j <= i
      <3>1. CASE j <= Len(queue)
        BY <2>0, <3>1 DEF Moved
      <3>2. ASSUME NEW l \in DOMAIN calls, j = Len(queue) + l, queue'[j] = calls[l]
            PROVE  j <= i
        <4>1. l = 1
          BY <1>2, <2>2, <3>2 DEF ModeQueue
        <4> QED BY <2>0, <3>2, <4>1
      <3>3. \/ j <= Len(queue)
            \/ \E l \in DOMAIN calls : j = Len(queue) + l /\ queue'[j] = calls[l]
        BY <1>3, <2>0 DEF Moved
      <3> QED BY <3>1, <3>2, <3>3
    <2> HIDE DEF i
    <2> QED BY <2>1, <2>2 DEF ModeTrue
  <1>7. ASSUME tauri', store'.faked \cap AppReads = {}
        PROVE  /\ ServersTrue'
               /\ ~app'.early /\ ~app'.launched => Unread(app'.mode, stored, queue')
    <2>1. /\ ServersTrue
          /\ ~app.early /\ ~app.launched => Unread(app.mode, stored, queue)
      BY <1>1, <1>7 DEF AppTrue
    <2>2. ServersTrue'
      BY <1>1, <1>3, <2>1, ListingKeeps DEF ServersTrue
    <2>3. ASSUME ~app'.early, ~app'.launched
          PROVE  Unread(app'.mode, stored, queue')
      <3>1. app'.mode = app.mode /\ ~app.early /\ ~app.launched
        BY <1>1, <2>3
      <3>2. Unread(app.mode, stored, queue)
        BY <2>1, <3>1
      <3>3. \A i \in DOMAIN queue' : ModeWrite(queue'[i]) => queue'[i].x.value = app.mode
        <4>1. \A i \in DOMAIN calls : ModeWrite(calls[i]) => calls[i].x.value = app.mode
          BY <1>2, <3>1 DEF ModeQueue
        <4>2. \A i \in DOMAIN queue : ModeWrite(queue[i]) => queue[i].x.value = app.mode
          BY <3>2 DEF Unread
        <4> QED BY <1>3, <4>1, <4>2 DEF Moved
      <3> QED BY <3>1, <3>2, <3>3 DEF Unread
    <2> QED BY <2>2, <2>3
  <1> QED BY <1>1, <1>5, <1>6, <1>7 DEF AppTrue

\* App shows the servers it has read.
LEMMA AppListed ==
    ASSUME Base, AppTrue, tauri' = tauri, queue # <<>>, Head(queue).k \in ListKinds,
           NEW r \in Answers(Head(queue)), store' = r.store, faults' = r.faults,
           app'.servers = r.val, app'.mode = app.mode, app'.launched = app.launched, app'.early = app.early,
           NEW calls, IsSeq(calls), \A i \in DOMAIN calls : ~ModeWrite(calls[i]),
           queue' = Tail(queue) \o calls, LaunchOnce(app.launched, queue')
    PROVE  AppTrue'
  <1> DEFINE stored == store.core.settings.permission_mode
             c == Head(queue)
  <1>1. Moved(queue, 1, calls, queue') /\ c = queue[1] /\ 1 \in DOMAIN queue
    BY AnyMove
  <1>2. c.op = "listServers" /\ c.k \notin ChangeKinds
    <2>1. CallFits(c, sent, app.mounts)
      BY TailFits DEF Base
    <2>2. \A k \in ListKinds : k \notin ChangeKinds
      BY DEF ListKinds, ChangeKinds
    <2> QED BY <2>1, <2>2 DEF CallFits, KindFits
  <1>3. ~ModeWrite(queue[1])
    BY <1>1, <1>2 DEF ModeWrite
  <1>4. ASSUME tauri', store'.faked \cap AppReads = {}
        PROVE  /\ ServersTrue'
               /\ ~app'.early => ModeTrue(app'.mode, stored', queue')
               /\ ~app'.early /\ ~app'.launched => Unread(app'.mode, stored', queue')
    <2>0. /\ store.faked \cap AppReads = {} /\ stored' = stored
          /\ store'.core.servers = store.core.servers /\ r.val = store.core.servers
      BY <1>1, <1>2, <1>3, <1>4, CoreAnswers
    <2>1. /\ ~app.early => ModeTrue(app.mode, stored, queue)
          /\ ~app.early /\ ~app.launched => Unread(app.mode, stored, queue)
      BY <1>4, <2>0 DEF AppTrue
    <2> HIDE DEF stored
    <2>2. ServersTrue'
      BY <2>0 DEF ServersTrue
    <2>3. ~app'.early => ModeTrue(app'.mode, stored', queue')
      BY <1>1, <1>3, <2>0, <2>1, ModeKeeps
    <2>4. ~app'.early /\ ~app'.launched => Unread(app'.mode, stored', queue')
      BY <1>1, <1>3, <2>0, <2>1, UnreadKeeps
    <2> QED BY <2>2, <2>3, <2>4
  <1> QED BY <1>4 DEF AppTrue

\* The call at the head is the only one left of the launch.
LEMMA LaunchAlone ==
    ASSUME LaunchOnce(app.launched, queue), 1 \in DOMAIN queue, queue[1].k \in LaunchKinds,
           NEW calls, Moved(queue, 1, calls, queue')
    PROVE  /\ ~app.launched
           /\ \A i \in DOMAIN queue' : queue'[i].k \in LaunchKinds =>
                \E j \in DOMAIN calls : i = Len(queue) - 1 + j /\ queue'[i] = calls[j]
  <1>1. ~app.launched
    BY DEF LaunchOnce
  <1>2. ASSUME NEW i \in DOMAIN queue', queue'[i].k \in LaunchKinds,
               i + 1 \in DOMAIN queue, queue'[i] = queue[i + 1]
        PROVE  FALSE
    <2>1. i + 1 = 1
      BY <1>2 DEF LaunchOnce
    <2>2. i \in 1 .. Len(queue')
      BY <1>2 DEF Moved, IsSeq
    <2> QED BY <2>1, <2>2
  <1> QED BY <1>1, <1>2 DEF Moved

\* Answers to App.
LEMMA AppAnswers ==
    ASSUME Base, AppTrue, LaunchServers \/ LaunchMode \/ ServerSaved \/ ServerListed \/ ServerDeleted \/ ServerGone
    PROVE  AppTrue'
  <1> DEFINE c == Head(queue)
  <1>0. DOMAIN app = AppFields
    BY DEF Base, AppFits
  <1>00. \A a : /\ IsSeq(Effects(a))
                /\ \A i \in DOMAIN Effects(a) : ~ModeWrite(Effects(a)[i]) /\ Effects(a)[i].k \notin LaunchKinds
    BY EffectsAre DEF Follows, FollowOps, FollowKinds, ModeWrite, LaunchKinds
  <1>1. LaunchOnce(app.launched, queue)
    BY DEF AppTrue
  <1>2. CASE ServerSaved \/ ServerDeleted
    <2>1. PICK r \in Answers(c), kind \in {"server listed", "server gone"} :
            Take(r, << AppCall("listServers", 0, kind, c.e) >>)
      BY <1>2 DEF ServerSaved, ServerDeleted
    <2>2. queue # <<>> /\ c.k \in ChangeKinds /\ UNCHANGED app
      BY <1>2 DEF ServerSaved, ServerDeleted, Awaited, ChangeKinds
    <2> DEFINE call == AppCall("listServers", 0, kind, c.e)
    <2>3. call.k \in ListKinds /\ call.k \notin LaunchKinds /\ ~ModeWrite(call)
      BY <2>1 DEF AppCall, ListKinds, LaunchKinds, ModeWrite
    <2>4. \A k \in ChangeKinds : k \notin ListKinds
      BY DEF ChangeKinds, ListKinds
    <2>5. /\ store' = r.store /\ faults' = r.faults /\ tauri' = tauri
          /\ queue' = Tail(queue) \o << call >>
      BY <2>1 DEF Take
    <2> HIDE DEF call
    <2>60. IsSeq(<< call >>) /\ DOMAIN << call >> = {1} /\ << call >>[1] = call
      BY FewSeq
    <2>6. Neutral(<< call >>) /\ \E i \in DOMAIN << call >> : << call >>[i].k \in ListKinds
      BY <2>3, <2>60 DEF Neutral
    <2> QED BY <2>1, <2>2, <2>4, <2>5, <2>6, AppTelling DEF SameApp
  <1>3. CASE ServerListed \/ ServerGone
    <2>1. PICK r \in Answers(c) : \E a : Take(r, Effects(a)) /\ app' = a /\ a.servers = r.val
                                          /\ a.mode = app.mode /\ a.launched = app.launched /\ a.early = app.early
      BY <1>0, <1>3 DEF ServerListed, ServerGone, AppFields
    <2>2. PICK a : Take(r, Effects(a)) /\ app' = a /\ a.servers = r.val
                      /\ a.mode = app.mode /\ a.launched = app.launched /\ a.early = app.early
      BY <2>1
    <2>3. queue # <<>> /\ c.k \in ListKinds
      BY <1>3 DEF ServerListed, ServerGone, Awaited, ListKinds
    <2>4. /\ store' = r.store /\ faults' = r.faults /\ tauri' = tauri
          /\ queue' = Tail(queue) \o Effects(a)
      BY <2>2 DEF Take
    <2>5. Moved(queue, 1, Effects(a), queue')
      BY <1>00, <2>3, <2>4, AnyMove
    <2>6. LaunchOnce(app.launched, queue')
      BY <1>00, <1>1, <2>5, OnceKeeps
    <2> QED BY <1>00, <2>2, <2>3, <2>4, <2>6, AppListed
  <1>4. CASE LaunchServers
    <2>1. PICK r \in Answers(c) : \E a :
            /\ app' = a /\ a.servers = r.val
            /\ a.mode = app.mode /\ a.launched = app.launched /\ a.early = app.early
            /\ Take(r, Effects(a) \o << [c EXCEPT !.op = "getSetting", !.x = "permission_mode",
                                                  !.k = "launch mode"] >>)
      BY <1>0, <1>4 DEF LaunchServers, AppFields
    <2> DEFINE call == [c EXCEPT !.op = "getSetting", !.x = "permission_mode", !.k = "launch mode"]
    <2>2. PICK a :
            /\ app' = a /\ a.servers = r.val
            /\ a.mode = app.mode /\ a.launched = app.launched /\ a.early = app.early
            /\ Take(r, Effects(a) \o << call >>)
      BY <2>1
    <2>3. queue # <<>> /\ c.k \in ListKinds /\ c.k \in LaunchKinds
      BY <1>4 DEF LaunchServers, Awaited, ListKinds, LaunchKinds
    <2>4. DOMAIN c = CallFields
      <3>1. CallFits(c, sent, app.mounts)
        BY <2>3, TailFits DEF Base
      <3> QED BY <3>1 DEF CallFits, CallFields
    <2>5. call.op = "getSetting" /\ call.k = "launch mode"
      BY <2>4 DEF CallFields
    <2> DEFINE p == Effects(a)
               calls == p \o << call >>
    <2>6. /\ store' = r.store /\ faults' = r.faults /\ tauri' = tauri
          /\ queue' = Tail(queue) \o calls
      BY <2>2 DEF Take
    <2> HIDE DEF call
    <2>7. IsSeq(<< call >>) /\ DOMAIN << call >> = {1} /\ << call >>[1] = call /\ Len(p) \in Nat
      BY <1>00, FewSeq DEF IsSeq
    <2>8. /\ IsSeq(p) /\ \A i \in DOMAIN p : ~ModeWrite(p[i]) /\ p[i].k \notin LaunchKinds
      BY <1>00
    <2> HIDE DEF p
    <2>9. /\ IsSeq(calls)
          /\ \A i \in DOMAIN calls : \/ i \in DOMAIN p /\ calls[i] = p[i]
                                     \/ i - Len(p) \in DOMAIN << call >> /\ calls[i] = << call >>[i - Len(p)]
      BY <2>7, <2>8, JoinSeq
    <2> HIDE DEF calls
    <2>10. \A i \in DOMAIN calls : ~ModeWrite(calls[i])
      BY <2>5, <2>7, <2>8, <2>9 DEF ModeWrite
    <2>11. DOMAIN calls = 1 .. Len(calls)
      BY <2>9 DEF IsSeq
    <2>12. \A i \in DOMAIN calls : calls[i].k \in LaunchKinds => i = Len(p) + 1
      BY <2>7, <2>8, <2>9, <2>11
    <2>13. Moved(queue, 1, calls, queue') /\ 1 \in DOMAIN queue /\ queue[1] = c
      BY <2>3, <2>6, <2>9, AnyMove
    <2>14. /\ ~app.launched
           /\ \A i \in DOMAIN queue' : queue'[i].k \in LaunchKinds =>
                \E j \in DOMAIN calls : i = Len(queue) - 1 + j /\ queue'[i] = calls[j]
      BY <1>1, <2>3, <2>13, LaunchAlone
    <2>15. \A i \in DOMAIN queue' : queue'[i].k \in LaunchKinds => i = Len(queue) - 1 + (Len(p) + 1)
      BY <2>12, <2>14
    <2>16. LaunchOnce(app.launched, queue')
      BY <2>14, <2>15 DEF LaunchOnce
    <2> QED BY <2>2, <2>3, <2>6, <2>9, <2>10, <2>16, AppListed
  <1>5. CASE LaunchMode
    <2> DEFINE stored == store.core.settings.permission_mode
    <2>1. PICK r \in Answers(c) :
            Take(r, ReloadFor(r.val)) /\ app' = [app EXCEPT !.mode = r.val, !.launched = TRUE]
      BY <1>5 DEF LaunchMode
    <2>2. queue # <<>> /\ c.k = "launch mode" /\ c.k \in LaunchKinds /\ c.k \notin ChangeKinds
          /\ c.k \notin ListKinds
      BY <1>5 DEF LaunchMode, Awaited, LaunchKinds, ChangeKinds, ListKinds
    <2>3. c.op = "getSetting" /\ c.x = "permission_mode"
      <3>1. CallFits(c, sent, app.mounts)
        BY <2>2, TailFits DEF Base
      <3> QED BY <2>2, <3>1 DEF CallFits, KindFits
    <2> DEFINE calls == ReloadFor(r.val)
    <2>4. Neutral(calls)
      <3>1. AsideCalls(calls)
        BY ReloadFits
      <3> QED BY <3>1 DEF AsideCalls, Aside, Neutral, LoudKinds, AppKinds
    <2>5. /\ store' = r.store /\ faults' = r.faults /\ tauri' = tauri /\ queue' = Tail(queue) \o calls
          /\ app'.servers = app.servers /\ app'.mode = r.val /\ app'.launched = TRUE /\ app'.early = app.early
      BY <1>0, <2>1 DEF Take, AppFields
    <2> HIDE DEF calls
    <2>6. Moved(queue, 1, calls, queue') /\ 1 \in DOMAIN queue /\ queue[1] = c
      BY <2>2, <2>4, <2>5, AnyMove DEF Neutral
    <2>7. ~app.launched /\ \A i \in DOMAIN queue' : queue'[i].k \notin LaunchKinds
      <3>1. /\ ~app.launched
            /\ \A i \in DOMAIN queue' : queue'[i].k \in LaunchKinds =>
                 \E j \in DOMAIN calls : i = Len(queue) - 1 + j /\ queue'[i] = calls[j]
        BY <1>1, <2>2, <2>6, LaunchAlone
      <3> QED BY <2>4, <3>1 DEF Neutral
    <2>8. LaunchOnce(app'.launched, queue')
      BY <2>7 DEF LaunchOnce
    <2>9. ASSUME tauri', store'.faked \cap AppReads = {}
          PROVE  ServersTrue' /\ (~app'.early => ModeTrue(app'.mode, stored', queue'))
      <3>0. ~ModeWrite(c)
        BY <2>3 DEF ModeWrite
      <3>1. /\ store.faked \cap AppReads = {} /\ stored' = stored /\ store'.core.servers = store.core.servers
            /\ r.val = stored
        BY <2>2, <2>3, <2>5, <2>9, <3>0, CoreAnswers
      <3>2. ServersTrue /\ (~app.early => ModeTrue(app.mode, stored, queue) /\ Unread(app.mode, stored, queue))
        BY <2>5, <2>7, <2>9, <3>1 DEF AppTrue
      <3> HIDE DEF stored
      <3>3. ServersTrue'
        BY <2>2, <2>5, <2>6, <3>1, <3>2, ListingKeeps DEF ServersTrue
      <3>4. ASSUME ~app.early
            PROVE  ModeTrue(app'.mode, stored', queue')
        <4>1. app'.mode = app.mode
          BY <2>5, <3>1, <3>2, <3>4 DEF Unread
        <4> QED BY <2>4, <2>6, <3>0, <3>1, <3>2, <3>4, <4>1, ModeKeeps DEF Neutral
      <3> QED BY <2>5, <3>3, <3>4
    <2> QED BY <2>5, <2>8, <2>9 DEF AppTrue
  <1> QED BY <1>2, <1>3, <1>4, <1>5

\* App shows nothing else at launch.
LEMMA AppInit == Init => AppTrue
  <1> SUFFICES ASSUME Init PROVE AppTrue
    OBVIOUS
  <1> DEFINE call == AppCall("listServers", 0, "launch servers", 0)
             a == [op |-> "listPendingApprovals", x |-> 0, k |-> "pending", e |-> 0, on |-> 1]
             b == [op |-> "listConversations", x |-> NoServer, k |-> "listed", e |-> 0, on |-> 1]
             p == << a, b >>
             q == << call >>
             new == p \o q
  <1>1. queue = new
    BY DEF Init, ChatEffect
  <1>2. /\ a.k \notin LaunchKinds /\ b.k \notin LaunchKinds /\ call.k \in ListKinds
        /\ ~ModeWrite(a) /\ ~ModeWrite(b) /\ ~ModeWrite(call)
    BY DEF AppCall, LaunchKinds, ListKinds, ModeWrite
  <1> HIDE DEF a, b, call
  <1>30. IsSeq(p) /\ DOMAIN p = {1, 2} /\ p[1] = a /\ p[2] = b
    BY FewSeq
  <1>31. IsSeq(q) /\ DOMAIN q = {1} /\ q[1] = call
    BY FewSeq
  <1>32. Len(p) = 2 /\ Len(q) = 1
    OBVIOUS
  <1>3. /\ IsSeq(p) /\ DOMAIN p = {1, 2} /\ p[1] = a /\ p[2] = b /\ Len(p) = 2
        /\ IsSeq(q) /\ DOMAIN q = {1} /\ q[1] = call /\ Len(q) = 1
    BY <1>30, <1>31, <1>32
  <1>40. app = App /\ store = StoreInit
    BY DEF Init
  <1>41. StoreInit.core.settings = InitialSettings
    BY DEF StoreInit, Backend
  <1>4. /\ app.mode = "SAFE_AUTOMATION" /\ ~app.launched
        /\ store.core.settings = InitialSettings
    BY <1>40, <1>41 DEF App
  <1>5. InitialSettings.permission_mode = "SAFE_AUTOMATION"
    BY DEF InitialSettings
  <1> HIDE DEF p, q
  <1>6. /\ IsSeq(new) /\ Len(new) = Len(p) + Len(q)
        /\ \A i \in DOMAIN new : \/ i \in DOMAIN p /\ new[i] = p[i]
                                 \/ i - Len(p) \in DOMAIN q /\ new[i] = q[i - Len(p)]
    BY <1>3, JoinSeq
  <1> HIDE DEF new
  <1>7. DOMAIN new = 1 .. 3
    BY <1>3, <1>6 DEF IsSeq
  <1>8. \A i \in DOMAIN new : ~ModeWrite(new[i]) /\ (new[i].k \in LaunchKinds => i = 3)
    BY <1>2, <1>3, <1>6, <1>7
  <1>9. 3 \in DOMAIN new /\ new[3] = call
    BY <1>3, <1>6, <1>7
  <1>10. LaunchOnce(app.launched, queue)
    BY <1>1, <1>4, <1>8 DEF LaunchOnce
  <1>11. ServersTrue
    BY <1>1, <1>2, <1>9 DEF ServersTrue
  <1>12. Unread(app.mode, store.core.settings.permission_mode, queue)
         /\ ModeTrue(app.mode, store.core.settings.permission_mode, queue)
    BY <1>1, <1>4, <1>5, <1>8 DEF Unread, ModeTrue
  <1> QED BY <1>10, <1>11, <1>12 DEF AppTrue

\* Every step keeps it so.
LEMMA AppStep == Base /\ AppTrue /\ [Next]_vars => AppTrue'
  <1> SUFFICES ASSUME Base, AppTrue, [Next]_vars PROVE AppTrue'
    OBVIOUS
  <1>1. CASE Operator
    <2>1. CASE (\E s \in ServerIds : SelectServer(s)) \/ ToggleSplit \/ \E v \in TabNames : SelectView(v)
      BY <2>1, AppMoves
    <2>2. CASE \E mode \in Modes : ChangeMode(mode)
      <3>1. \E mode \in Modes : ChangeMode(mode)
        BY <2>2
      <3>2. UNCHANGED chatVars
        BY <2>2 DEF ChangeMode
      <3> QED BY <3>1, <3>2, ModesBase, AppModes
    <2>3. CASE ChatOperator
      BY <2>3, ChatActs, SendActs, AppViews DEF ChatOperator
    <2>4. CASE FilesOperator /\ UNCHANGED chatVars
      BY <2>4, FilesBase, AppViews
    <2>5. CASE TerminalOperator /\ UNCHANGED chatVars
      BY <2>5, TerminalActs, AppViews
    <2>6. CASE SettingsOperator /\ UNCHANGED chatVars
      BY <2>6, SettingsActs, ModesBase, SaveAllBase, AppViews, AppModes DEF SettingsOperator
    <2>7. CASE ServersOperator /\ UNCHANGED chatVars
      BY <2>7, ServersBase, AppViews
    <2>8. CASE ActivityOperator /\ UNCHANGED chatVars
      BY <2>8, ActivityActs, AppViews
    <2> QED BY <1>1, <2>1, <2>2, <2>3, <2>4, <2>5, <2>6, <2>7, <2>8 DEF Operator
  <1>2. CASE Answer
    <2>1. CASE LaunchServers \/ LaunchMode \/ ServerSaved \/ ServerListed \/ ServerDeleted \/ ServerGone
      BY <2>1, AppAnswers
    <2>2. CASE ChatAnswer
      <3>1. CASE PendingShown \/ ConversationsListed \/ ConversationLoaded \/ ConversationDeleted
        BY <3>1, ChatAnswers, AppViews
      <3>2. CASE Configured \/ PrivacyRead \/ KeyResolved \/ ToolAnswered
        BY <3>2, TurnSteps, AppViews
      <3>3. CASE WordsStored
        BY <3>3, WordsKept, AppViews
      <3>4. CASE Approved \/ Rejected
        BY <3>4, DecisionSteps, AppViews
      <3> QED BY <2>2, <3>1, <3>2, <3>3, <3>4 DEF ChatAnswer
    <2>3. CASE SettingsAnswer /\ UNCHANGED chatVars
      BY <2>3, SettingsAnswers, AppViews
    <2>4. CASE Unwatched /\ UNCHANGED chatVars
      BY <2>4, WordsKept, AppViews
    <2>5. CASE FilesAnswer /\ UNCHANGED chatVars
      BY <2>5, FilesAnswersBase, AppViews
    <2>6. CASE TerminalAnswer /\ UNCHANGED chatVars
      BY <2>6, TerminalAnswers, AppViews
    <2>7. CASE ServersAnswer /\ UNCHANGED chatVars
      BY <2>7, ServersAnswersBase, AppViews
    <2>8. CASE ActivityAnswer /\ UNCHANGED chatVars
      BY <2>8, ActivityAnswers, AppViews
    <2> QED BY <1>2, <2>1, <2>2, <2>3, <2>4, <2>5, <2>6, <2>7, <2>8 DEF Answer
  <1>3. CASE Environment
    BY <1>3, ProviderSteps, TerminalMoves, SettingsMoves, AppViews DEF Environment
  <1>4. CASE UNCHANGED vars
    BY <1>4 DEF vars, coreVars, AppTrue, ServersTrue
  <1> QED BY <1>1, <1>2, <1>3, <1>4 DEF Next

\* Once every call is answered App shows the servers and the mode that are
\* stored, in whatever order they were changed and although the core may have
\* failed to store or to delete a server, unless the page stood in for a read
\* of App's or a write of a setting, or the mode was changed before the stored
\* one had been read (App.tsx).
THEOREM AppIsTrue == Spec => []AppShowsStore
  <1>1. AppTrue => AppShowsStore
    <2> SUFFICES ASSUME AppTrue, queue = <<>>, tauri, store.faked \cap AppReads = {}
                 PROVE  /\ app.servers = store.core.servers
                        /\ app.early \/ app.mode = store.core.settings.permission_mode
      BY DEF AppShowsStore
    <2>1. DOMAIN queue = {}
      BY FewSeq
    <2> QED BY <2>1 DEF AppTrue, ServersTrue, ModeTrue
  <1>2. Spec => []AppTrue
    BY AppInit, AppStep, DesktopInvariance, PTL DEF Spec
  <1> QED BY <1>1, <1>2, PTL

-----------------------------------------------------------------------------
(* The files *)

\* A call that concerns neither a listing of the view, nor an entry of one.
Foreign(c, me) == c.k \notin FileKinds \/ c.on # me.mount

\* Other calls leave the listing true.
LEMMA ListingStays ==
    ASSUME NEW me, NEW server, NEW q, ListingTrue(me, server, q),
           NEW d, NEW calls, NEW new, Moved(q, d, calls, new),
           \A i \in DOMAIN calls : ~Lists(calls[i], me), d = 1 => ~Lists(q[1], me)
    PROVE  ListingTrue(me, server, new)
  <1>1. DOMAIN q = 1 .. Len(q) /\ Len(q) - d \in Nat /\ d \in {0, 1} /\ DOMAIN new = 1 .. Len(new)
    BY DEF Moved, IsSeq
  <1>2. \A i \in DOMAIN new : Lists(new[i], me) => i + d \in DOMAIN q /\ new[i] = q[i + d]
    BY DEF Moved
  <1>3. CASE \A i \in DOMAIN q : ~Lists(q[i], me)
    <2>1. /\ me.list.of = server /\ me.list.dir = me.dir
          /\ me.sel = NoEntry \/ me.sel.of = server
      BY <1>3 DEF ListingTrue
    <2>2. \A i \in DOMAIN new : ~Lists(new[i], me)
      BY <1>2, <1>3
    <2> QED BY <2>1, <2>2 DEF ListingTrue
  <1>4. ASSUME NEW i \in DOMAIN q, Lists(q[i], me), q[i].x.server = server, q[i].x.dir = me.dir,
               \A j \in DOMAIN q : Lists(q[j], me) => j <= i
        PROVE  ListingTrue(me, server, new)
    <2>1. i > d
      BY <1>1, <1>4
    <2>2. i - d \in DOMAIN new /\ new[i - d] = q[i]
      BY <2>1 DEF Moved
    <2>3. ASSUME NEW j \in DOMAIN new, Lists(new[j], me)
          PROVE  j <= i - d
      <3>1. j + d \in DOMAIN q /\ new[j] = q[j + d]
        BY <1>2, <2>3
      <3>2. j + d <= i
        BY <1>4, <2>3, <3>1
      <3> QED BY <1>1, <3>2
    <2> QED BY <1>4, <2>2, <2>3 DEF ListingTrue
  <1> QED BY <1>3, <1>4 DEF ListingTrue

\* The listing asked for last is of the directory shown.
LEMMA ListingNewest ==
    ASSUME NEW me, NEW server, NEW q, NEW d, NEW calls, NEW new, Moved(q, d, calls, new),
           NEW j \in DOMAIN calls, Lists(calls[j], me), calls[j].x.server = server, calls[j].x.dir = me.dir,
           \A i \in DOMAIN calls : Lists(calls[i], me) => i <= j, DOMAIN calls \subseteq Nat \ {0}
    PROVE  ListingTrue(me, server, new)
  <1> DEFINE l == Len(q) - d
             i == l + j
  <1>1. l \in Nat /\ DOMAIN new = 1 .. Len(new) /\ l = Len(q) - d
    BY DEF Moved, IsSeq
  <1>2. i \in DOMAIN new /\ new[i] = calls[j]
    BY DEF Moved
  <1>3. ASSUME NEW n \in DOMAIN new, Lists(new[n], me)
        PROVE  n <= i
    <2>1. CASE n <= l
      BY <1>1, <2>1
    <2>2. ASSUME NEW m \in DOMAIN calls, n = l + m, new[n] = calls[m]
          PROVE  n <= i
      <3>1. m <= j
        BY <1>3, <2>2
      <3> QED BY <1>1, <2>2, <3>1
    <2> QED BY <1>1, <2>1, <2>2 DEF Moved
  <1> HIDE DEF i
  <1> QED BY <1>2, <1>3 DEF ListingTrue

\* Calls of other kinds do not announce a change of App's servers.
LEMMA ChangingKeeps ==
    ASSUME NEW q, NEW d, NEW calls, NEW new, Moved(q, d, calls, new),
           \A i \in DOMAIN calls : calls[i].k \notin SubmitKinds \cup ListKinds \cup ChangeKinds
    PROVE  Changing(new) => Changing(q)
  <1> SUFFICES ASSUME NEW i \in DOMAIN new, new[i].k \in SubmitKinds \cup ListKinds \cup ChangeKinds
               PROVE  Changing(q)
    BY DEF Changing
  <1>1. i + d \in DOMAIN q /\ new[i] = q[i + d]
    BY DEF Moved
  <1> QED BY <1>1 DEF Changing

\* What the files rely on is not disturbed by other calls.
LEMMA FilesKeep ==
    ASSUME NEW me, NEW server, NEW q, FilesFit(me, server, q),
           NEW d, NEW calls, NEW new, Moved(q, d, calls, new),
           \A i \in DOMAIN calls : Foreign(calls[i], me), d = 1 => Foreign(q[1], me),
           Changing(new) => Changing(q)
    PROVE  FilesFit(me, server, new)
  <1>0. {"directory", "opened", "written"} = FileKinds
    BY DEF FileKinds
  <1>1. CASE me.rush
    BY <1>1 DEF FilesFit
  <1>2. CASE ~me.rush
    <2>1. ListingTrue(me, server, q) /\ EntriesTrue(me, server, q) /\ (UnderWay(me, q) => ~Changing(q))
      BY <1>2 DEF FilesFit
    <2>2. ListingTrue(me, server, new)
      BY <1>0, <2>1, ListingStays DEF Lists, Foreign
    <2>3. \A i \in DOMAIN new : ~Foreign(new[i], me) => \E j \in DOMAIN q : new[i] = q[j]
      BY DEF Moved
    <2>4. EntriesTrue(me, server, new)
      BY <1>0, <2>1, <2>3 DEF EntriesTrue, Foreign
    <2>5. UnderWay(me, new) => UnderWay(me, q)
      BY <1>0, <2>3 DEF UnderWay, Foreign
    <2> QED BY <2>1, <2>2, <2>4, <2>5 DEF FilesFit
  <1> QED BY <1>1, <1>2

\* Each write in flight is an old one or a new one.
LEMMA WritesKept ==
    ASSUME \A i \in DOMAIN queue : WritesShown(queue[i]),
           NEW d, NEW calls, Moved(queue, d, calls, queue'),
           \A i \in DOMAIN calls : WritesShown(calls[i])
    PROVE  \A i \in DOMAIN queue' : WritesShown(queue'[i])
  BY DEF Moved

\* A step that leaves the files and the server alone.
LEMMA FilesUndisturbed ==
    ASSUME Base, Entries, tabs'["Files"] = tabs["Files"], tabs'["Servers"].mount = tabs["Servers"].mount,
           ActiveServer' = ActiveServer,
           NEW d, NEW calls, Moved(queue, d, calls, queue'),
           \A i \in DOMAIN calls : Foreign(calls[i], Files) /\ calls[i].k # "written",
           d = 1 => Foreign(queue[1], Files),
           Open("Files") /\ Changing(queue') => Changing(queue)
    PROVE  Entries'
  <1>1. Files' = Files /\ Open("Files")' = Open("Files") /\ Open("Servers")' = Open("Servers")
    BY DEF Files, Open
  <1>2. \A i \in DOMAIN queue' : WritesShown(queue'[i])
    BY WritesKept DEF Entries, WritesShown
  <1>3. Open("Files") => FilesFit(Files, ActiveServer, queue')
    BY FilesKeep DEF Entries
  <1> QED BY <1>1, <1>2, <1>3 DEF Entries

\* Steps of the other views, and changes of the mode.
LEMMA FilesAside ==
    ASSUME Base, Entries, AsideStep \/ ModeStep
    PROVE  Entries'
  <1>0. \A k : k \notin LoudKinds => k \notin FileKinds /\ k \notin SubmitKinds \cup ListKinds \cup ChangeKinds
    BY DEF LoudKinds, AppKinds
  <1>1. ActiveServer' = ActiveServer /\ tabs'["Files"] = tabs["Files"] /\ tabs'["Servers"] = tabs["Servers"]
    <2>1. CASE AsideStep
      BY <2>1 DEF AsideStep, ActiveServer
    <2>2. CASE ModeStep
      <3>1. app'.servers = app.servers /\ app'.active = app.active
        BY <2>2, WithModeFits DEF ModeStep
      <3> QED BY <2>2, <3>1 DEF ModeStep, ActiveServer, Target
    <2> QED BY <2>1, <2>2
  <1>2. \E calls : /\ IsSeq(calls) /\ \A i \in DOMAIN calls : calls[i].k \notin LoudKinds
                   /\ \/ queue' = queue \o calls
                      \/ queue # <<>> /\ Head(queue).k \notin LoudKinds /\ queue' = Tail(queue) \o calls
    BY DEF AsideStep, AsideCalls, Aside, ModeStep, ModeQueue
  <1>3. PICK calls : /\ IsSeq(calls) /\ \A i \in DOMAIN calls : calls[i].k \notin LoudKinds
                     /\ \/ queue' = queue \o calls
                        \/ queue # <<>> /\ Head(queue).k \notin LoudKinds /\ queue' = Tail(queue) \o calls
    BY <1>2
  <1>4. PICK d : Moved(queue, d, calls, queue') /\ (d = 1 => queue[1].k \notin LoudKinds)
    <2>1. CASE queue' = queue \o calls
      BY <1>3, <2>1, AnyMove
    <2>2. CASE queue # <<>> /\ Head(queue).k \notin LoudKinds /\ queue' = Tail(queue) \o calls
      BY <1>3, <2>2, AnyMove
    <2> QED BY <1>3, <2>1, <2>2
  <1>5. Changing(queue') => Changing(queue)
    BY <1>0, <1>3, <1>4, ChangingKeeps
  <1> QED BY <1>0, <1>1, <1>3, <1>4, <1>5, FilesUndisturbed DEF Foreign, FileKinds

\* Steps of the inventory.
LEMMA FilesBeside ==
    ASSUME Base, Entries, ServersStep
    PROVE  Entries'
  <1>0. /\ \A k \in InventoryKinds : k \notin FileKinds /\ k \notin SubmitKinds \cup ListKinds \cup ChangeKinds
        /\ \A k \in SubmissionKinds : k \notin FileKinds
        /\ \A k \in SubmitKinds : k \notin FileKinds
    BY DEF InventoryKinds, ServersKinds, SubmissionKinds, FileKinds, SubmitKinds, ListKinds, ChangeKinds
  <1>1. /\ ActiveServer' = ActiveServer /\ tabs'["Files"] = tabs["Files"]
        /\ tabs'["Servers"].mount = tabs["Servers"].mount
    BY DEF ServersStep, ActiveServer
  <1>2. PICK calls :
         \/ InventoryCalls(calls, SubmissionKinds) /\ Open("Servers") /\ Pushes(calls)
         \/ InventoryCalls(calls, SubmissionKinds) /\ Pops(SubmitKinds, calls)
         \/ InventoryCalls(calls, InventoryKinds) /\ Pops(InventoryKinds, calls)
    BY DEF ServersStep
  <1>3. IsSeq(calls)
    BY <1>2 DEF InventoryCalls
  <1>4. CASE InventoryCalls(calls, SubmissionKinds) /\ Open("Servers") /\ Pushes(calls)
    <2>1. Moved(queue, 0, calls, queue') /\ ~Open("Files")
      BY <1>3, <1>4, AnyMove DEF Pushes, Entries
    <2> QED BY <1>0, <1>1, <1>4, <2>1, FilesUndisturbed DEF InventoryCalls, Foreign, FileKinds
  <1>5. CASE InventoryCalls(calls, SubmissionKinds) /\ Pops(SubmitKinds, calls)
    <2>1. Moved(queue, 1, calls, queue') /\ 1 \in DOMAIN queue /\ queue[1].k \in SubmitKinds
      BY <1>3, <1>5, AnyMove DEF Pops
    <2>2. Changing(queue)
      BY <2>1 DEF Changing
    <2> QED BY <1>0, <1>1, <1>5, <2>1, <2>2, FilesUndisturbed DEF InventoryCalls, Foreign, FileKinds
  <1>6. CASE InventoryCalls(calls, InventoryKinds) /\ Pops(InventoryKinds, calls)
    <2>1. Moved(queue, 1, calls, queue') /\ queue[1].k \in InventoryKinds
      BY <1>3, <1>6, AnyMove DEF Pops
    <2>2. Changing(queue') => Changing(queue)
      BY <1>0, <1>6, <2>1, ChangingKeeps DEF InventoryCalls
    <2> QED BY <1>0, <1>1, <1>6, <2>1, <2>2, FilesUndisturbed DEF InventoryCalls, Foreign, FileKinds
  <1> QED BY <1>2, <1>4, <1>5, <1>6

-----------------------------------------------------------------------------
(* What the operator does in the files *)

\* With nothing outstanding the view shows the files of the active server.
LEMMA FilesSettled ==
    ASSUME Base, Entries, Open("Files"), ~Rushed
    PROVE  /\ Files.list.of = ActiveServer /\ Files.list.dir = Files.dir
           /\ Files.sel = NoEntry \/ Files.sel.of = ActiveServer
           /\ Files.edit.on => Files.edit.of = ActiveServer
           /\ Files.del = NoEntry \/ Files.del.of = ActiveServer
           /\ \A i \in DOMAIN queue : queue[i].on # Files.mount
           /\ ~Changing(queue)
  <1>1. FilesFit(Files, ActiveServer, queue) /\ ~Files.rush
    BY DEF Entries, Rushed
  <1>2. ListingTrue(Files, ActiveServer, queue) /\ EntriesTrue(Files, ActiveServer, queue)
    BY <1>1 DEF FilesFit
  <1>3. \A i \in DOMAIN queue : queue[i].on # Files.mount
    BY DEF Rushed, Outstanding
  <1>4. /\ Files.list.of = ActiveServer /\ Files.list.dir = Files.dir
        /\ Files.sel = NoEntry \/ Files.sel.of = ActiveServer
    BY <1>2, <1>3 DEF ListingTrue, Lists
  <1>5. ASSUME NEW i \in DOMAIN queue, queue[i].k \in SubmitKinds \cup ListKinds \cup ChangeKinds
        PROVE  FALSE
    <2>1. CASE queue[i].k \in SubmitKinds
      BY <2>1 DEF SubmitKinds, Rushed, AppUnsettled
    <2>2. CASE queue[i].k \in ListKinds \cup ChangeKinds
      <3>1. CallFits(queue[i], sent, app.mounts)
        BY DEF Base, QueueFits
      <3>2. queue[i].on = AppMount
        BY <2>2, <3>1 DEF CallFits, KindFits, AppKinds
      <3> QED BY <3>2 DEF Rushed, AppUnsettled, Outstanding
    <2> QED BY <1>5, <2>1, <2>2
  <1> QED BY <1>2, <1>3, <1>4, <1>5 DEF EntriesTrue, Changing

\* A step of the operator in the files.
LEMMA FilesActing ==
    ASSUME Base, Entries, NEW new, NEW calls, FilesDoes(new, calls), DOMAIN new = FilesKeys,
           EditFits(new.edit), new.mount = Files.mount, IsSeq(calls),
           \A i \in DOMAIN calls : WritesShown(calls[i]) /\ calls[i].k \in FilesKinds,
           ~Rushed => /\ ListingTrue(new, ActiveServer, calls)
                      /\ EntriesTrue(new, ActiveServer, calls)
    PROVE  Entries'
  <1> DEFINE me == [new EXCEPT !.rush = Rushed]
  <1>1. /\ tabs' = [tabs EXCEPT !["Files"] = me] /\ queue' = queue \o calls /\ Open("Files")
        /\ "Files" \in DOMAIN tabs /\ app' = app
    BY DEF FilesDoes, Does, Base, TabsFit, TabNames
  <1>2. /\ DOMAIN me = FilesKeys /\ me.mount = new.mount /\ me.rush = Rushed /\ me.dir = new.dir
        /\ me.list = new.list /\ me.sel = new.sel /\ me.edit = new.edit /\ me.del = new.del
    BY DEF FilesKeys
  <1> HIDE DEF me
  <1>3. Files' = me /\ tabs'["Servers"] = tabs["Servers"] /\ ActiveServer' = ActiveServer
    BY <1>1 DEF Files, ActiveServer
  <1>4. Moved(queue, 0, calls, queue')
    BY <1>1, AnyMove
  <1>5. \A i \in DOMAIN queue' : WritesShown(queue'[i])
    BY <1>4, WritesKept DEF Entries
  <1>6. FilesFit(me, ActiveServer, queue')
    <2>6. CASE Rushed
      BY <1>2, <2>6 DEF FilesFit
    <2>7. CASE ~Rushed
      <3>1. (\A i \in DOMAIN queue : queue[i].on # me.mount) /\ ~Changing(queue)
        BY <1>1, <1>2, <2>7, FilesSettled
      <3>2. ~Changing(queue')
        <4>1. \A i \in DOMAIN calls : calls[i].k \notin SubmitKinds \cup ListKinds \cup ChangeKinds
          BY DEF FilesKinds, SubmitKinds, ListKinds, ChangeKinds
        <4> QED BY <1>4, <3>1, <4>1, ChangingKeeps
      <3>3. EntriesTrue(me, ActiveServer, queue')
        <4>1. EntriesTrue(new, ActiveServer, calls)
          BY <2>7
        <4>2. \A i \in DOMAIN queue' : queue'[i].on = me.mount => \E j \in DOMAIN calls : queue'[i] = calls[j]
          BY <1>4, <3>1 DEF Moved
        <4> QED BY <1>2, <4>1, <4>2 DEF EntriesTrue
      <3>4. ListingTrue(me, ActiveServer, queue')
        <4>1. ListingTrue(me, ActiveServer, calls)
          <5>1. \A c : Lists(c, me) <=> Lists(c, new)
            BY <1>2 DEF Lists
          <5>2. ListingTrue(new, ActiveServer, calls)
            BY <2>7
          <5> QED BY <1>2, <5>1, <5>2 DEF ListingTrue
        <4>2. CASE \A i \in DOMAIN calls : ~Lists(calls[i], me)
          <5>1. \A i \in DOMAIN queue' : ~Lists(queue'[i], me)
            BY <1>4, <3>1, <4>2 DEF Moved, Lists
          <5> QED BY <4>1, <4>2, <5>1 DEF ListingTrue
        <4>3. CASE \E i \in DOMAIN calls : Lists(calls[i], me)
          <5>1. PICK j \in DOMAIN calls :
                   /\ Lists(calls[j], me) /\ calls[j].x.server = ActiveServer /\ calls[j].x.dir = me.dir
                   /\ \A i \in DOMAIN calls : Lists(calls[i], me) => i <= j
            BY <4>1, <4>3 DEF ListingTrue
          <5>2. DOMAIN calls \subseteq Nat \ {0}
            BY DEF IsSeq
          <5> QED BY <1>4, <5>1, <5>2, ListingNewest
        <4> QED BY <4>2, <4>3
      <3> QED BY <1>2, <3>2, <3>3, <3>4 DEF FilesFit
    <2> QED BY <2>6, <2>7
  <1> QED BY <1>1, <1>3, <1>5, <1>6 DEF Entries, Open, Files

\* What the operator has chosen is of the active server still.
Chosen(new) ==
    /\ DOMAIN new = FilesKeys /\ EditFits(new.edit) /\ new.mount = Files.mount
    /\ new.list = Files.list /\ new.dir = Files.dir
    /\ ~Rushed => /\ new.sel = NoEntry \/ new.sel.of = ActiveServer
                  /\ new.edit.on => new.edit.of = ActiveServer
                  /\ new.del = NoEntry \/ new.del.of = ActiveServer

\* The same with at most one call, for an entry.
LEMMA FilesChoosing ==
    ASSUME Base, Entries, NEW new, Chosen(new)
    PROVE  /\ FilesDoes(new, <<>>) => Entries'
           /\ \A c : /\ FilesDoes(new, << c >>) /\ WritesShown(c) /\ c.k \in {"opened", "written", "downloaded"}
                     /\ ~Rushed => /\ c.k = "opened" => c.e.of = ActiveServer
                                   /\ c.k = "written" => c.e.server = ActiveServer /\ c.e.dir = Files.dir
                     => Entries'
  <1>1. ASSUME NEW calls, FilesDoes(new, calls), IsSeq(calls),
               \A i \in DOMAIN calls : WritesShown(calls[i]) /\ calls[i].k \in {"opened", "written", "downloaded"},
               ~Rushed => \A i \in DOMAIN calls :
                            /\ calls[i].k = "opened" => calls[i].e.of = ActiveServer
                            /\ calls[i].k = "written" => calls[i].e.server = ActiveServer /\ calls[i].e.dir = Files.dir
        PROVE  Entries'
    <2>1. Open("Files")
      BY <1>1 DEF FilesDoes, Does
    <2>2. ASSUME ~Rushed
          PROVE  ListingTrue(new, ActiveServer, calls) /\ EntriesTrue(new, ActiveServer, calls)
      <3>1. Files.list.of = ActiveServer /\ Files.list.dir = Files.dir
        BY <2>1, <2>2, FilesSettled
      <3>2. \A i \in DOMAIN calls : ~Lists(calls[i], new)
        BY <1>1 DEF Lists
      <3>3. ListingTrue(new, ActiveServer, calls)
        BY <2>2, <3>1, <3>2 DEF ListingTrue, Chosen
      <3>4. EntriesTrue(new, ActiveServer, calls)
        BY <1>1, <2>2 DEF EntriesTrue, Chosen
      <3> QED BY <3>3, <3>4
    <2>3. \A i \in DOMAIN calls : WritesShown(calls[i]) /\ calls[i].k \in FilesKinds
      BY <1>1 DEF FilesKinds
    <2> QED BY <1>1, <2>2, <2>3, FilesActing DEF Chosen
  <1>2. ASSUME NEW c, FilesDoes(new, << c >>), WritesShown(c), c.k \in {"opened", "written", "downloaded"},
               ~Rushed => /\ c.k = "opened" => c.e.of = ActiveServer
                          /\ c.k = "written" => c.e.server = ActiveServer /\ c.e.dir = Files.dir
        PROVE  Entries'
    <2> DEFINE q == << c >>
    <2>1. IsSeq(q) /\ DOMAIN q = {1} /\ q[1] = c /\ FilesDoes(new, q)
      BY <1>2, FewSeq
    <2> HIDE DEF q
    <2> QED BY <1>1, <1>2, <2>1
  <1> QED BY <1>1, <1>2, FewSeq

\* Going to another directory.
LEMMA FilesNavigate ==
    ASSUME Base, Entries, NEW d, Navigate(d)
    PROVE  Entries'
  <1> DEFINE new == [Files EXCEPT !.dir = d]
             c == ListingCall(Files.mount, ActiveServer, d, "none")
             calls == << c >>
  <1>1. FilesDoes(new, calls) /\ Open("Files") /\ ~Covered
    BY DEF Navigate, FilesEffect
  <1>2. DOMAIN Files = FilesKeys /\ EditFits(Files.edit)
    BY <1>1 DEF Entries, FilesFit
  <1>3. /\ DOMAIN new = FilesKeys /\ new.edit = Files.edit /\ new.mount = Files.mount
        /\ new.dir = d /\ new.del = Files.del
    BY <1>2 DEF FilesKeys
  <1>4. ~new.edit.on /\ new.del = NoEntry
    BY <1>1, <1>3 DEF Covered
  <1>5. /\ c.k = "directory" /\ c.on = Files.mount /\ c.x.server = ActiveServer /\ c.x.dir = d
    BY DEF ListingCall
  <1> HIDE DEF c, new
  <1>6. IsSeq(calls) /\ DOMAIN calls = {1} /\ calls[1] = c
    BY FewSeq
  <1> HIDE DEF calls
  <1>7. \A i \in DOMAIN calls : WritesShown(calls[i]) /\ calls[i].k \in FilesKinds
    BY <1>5, <1>6 DEF WritesShown, FilesKinds
  <1>8. Lists(c, new)
    BY <1>3, <1>5 DEF Lists
  <1>9. ListingTrue(new, ActiveServer, calls)
    BY <1>3, <1>5, <1>6, <1>8 DEF ListingTrue
  <1>10. EntriesTrue(new, ActiveServer, calls)
    BY <1>4, <1>5, <1>6 DEF EntriesTrue
  <1> QED BY <1>1, <1>2, <1>3, <1>6, <1>7, <1>9, <1>10, FilesActing

\* What the operator does in the files view.
LEMMA FilesActs ==
    ASSUME Base, Entries, FilesOperator
    PROVE  Entries'
  <1>0. Open("Files")
    BY DEF FilesOperator, Navigate, SelectRemote, SelectLocal, OpenFile, EditText, SwitchBackup, CloseEditor,
           SuggestPatch, ApplyPatch, SaveFile, Upload, Download, AskDelete, CancelDelete, ConfirmDelete,
           AskFolder, CreateFolder, Editing
  <1>1. DOMAIN Files = FilesKeys /\ EditFits(Files.edit)
    BY <1>0 DEF Entries, FilesFit
  <1>2. Chosen(Files)
    BY <1>0, <1>1, FilesSettled DEF Chosen
  <1>3. ~Rushed => Files.list.of = ActiveServer /\ Files.list.dir = Files.dir
    BY <1>0, FilesSettled
  <1>4. ASSUME NEW d, Navigate(d)
        PROVE  Entries'
    BY <1>4, FilesNavigate
  <1>5. ASSUME NEW name
        PROVE  Chosen([Files EXCEPT !.sel = [path |-> << Files.list.dir, name >>, of |-> Files.list.of]])
    <2> DEFINE entry == [path |-> << Files.list.dir, name >>, of |-> Files.list.of]
    <2>1. entry.of = Files.list.of
      OBVIOUS
    <2> HIDE DEF entry
    <2>2. Chosen([Files EXCEPT !.sel = entry])
      BY <1>1, <1>2, <1>3, <2>1 DEF Chosen, FilesKeys
    <2> QED BY <2>2 DEF entry
  <1>6. ASSUME NEW name, SelectRemote(name) \/ SelectLocal(name)
        PROVE  Entries'
    <2>1. Chosen([Files EXCEPT !.localSel = name])
      BY <1>1, <1>2 DEF Chosen, FilesKeys
    <2>2. \/ FilesDoes([Files EXCEPT !.sel = [path |-> << Files.list.dir, name >>,
                                      of |-> Files.list.of]], <<>>)
          \/ FilesDoes([Files EXCEPT !.localSel = name], <<>>)
      BY <1>6 DEF SelectRemote, SelectLocal
    <2> QED BY <1>5, <2>1, <2>2, FilesChoosing
  <1>7. ASSUME NEW name, OpenFile(name)
        PROVE  Entries'
    <2> DEFINE entry == [path |-> << Files.list.dir, name >>, of |-> Files.list.of]
               new == [Files EXCEPT !.sel = entry]
               c == FilesCall("sftpReadFile", [server |-> ActiveServer, path |-> entry.path], "opened", entry)
    <2>1. FilesDoes(new, << c >>)
      BY <1>7 DEF OpenFile
    <2>2. c.k = "opened" /\ c.e.of = Files.list.of
      BY DEF FilesCall, Call
    <2>3. Chosen(new)
      BY <1>5
    <2> HIDE DEF entry, new, c
    <2>4. WritesShown(c)
      BY <2>2 DEF WritesShown
    <2> QED BY <1>3, <2>1, <2>2, <2>3, <2>4, FilesChoosing
  <1>8. CASE EditText \/ SwitchBackup \/ CloseEditor \/ SuggestPatch \/ ApplyPatch
    <2>1. /\ \A v : EditFits([Files.edit EXCEPT !.text = v]) /\ EditFits([Files.edit EXCEPT !.backup = v])
          /\ EditFits(ClosedEditor) /\ ~ClosedEditor.on
      BY <1>1 DEF EditFits, ClosedEditor
    <2>2. /\ \A v : [Files.edit EXCEPT !.text = v].on = Files.edit.on
                 /\ [Files.edit EXCEPT !.backup = v].on = Files.edit.on
          /\ \A v : Files.edit.on => /\ [Files.edit EXCEPT !.text = v].of = Files.edit.of
                                      /\ [Files.edit EXCEPT !.backup = v].of = Files.edit.of
      BY <1>1 DEF EditFits
    <2>3. ASSUME NEW e, EditFits(e), e.on => Files.edit.on /\ e.of = Files.edit.of, NEW v
          PROVE  Chosen([Files EXCEPT !.edit = e]) /\ Chosen([Files EXCEPT !.edit = e, !.ai = v])
      BY <1>1, <1>2, <2>3 DEF Chosen, FilesKeys
    <2>4. \A v : Chosen([Files EXCEPT !.ai = v])
      BY <1>1, <1>2 DEF Chosen, FilesKeys
    <2>5. CASE EditText
      <3>1. FilesDoes([Files EXCEPT !.edit = [Files.edit EXCEPT !.text = "edited"]], <<>>)
        BY <2>5 DEF EditText
      <3>2. Chosen([Files EXCEPT !.edit = [Files.edit EXCEPT !.text = "edited"]])
        BY <2>1, <2>2, <2>3
      <3> QED BY <3>1, <3>2, FilesChoosing
    <2>6. CASE SwitchBackup
      <3>1. FilesDoes([Files EXCEPT !.edit = [Files.edit EXCEPT !.backup = ~Files.edit.backup]], <<>>)
        BY <2>6 DEF SwitchBackup
      <3>2. Chosen([Files EXCEPT !.edit = [Files.edit EXCEPT !.backup = ~Files.edit.backup]])
        BY <2>1, <2>2, <2>3
      <3> QED BY <3>1, <3>2, FilesChoosing
    <2>7. CASE CloseEditor
      <3>1. FilesDoes([Files EXCEPT !.edit = ClosedEditor], <<>>)
        BY <2>7 DEF CloseEditor
      <3>2. Chosen([Files EXCEPT !.edit = ClosedEditor])
        BY <2>1, <2>3
      <3> QED BY <3>1, <3>2, FilesChoosing
    <2>8. CASE SuggestPatch
      <3>1. FilesDoes([Files EXCEPT !.ai = "thinking"], <<>>)
        BY <2>8 DEF SuggestPatch
      <3> QED BY <2>4, <3>1, FilesChoosing
    <2>9. CASE ApplyPatch
      <3>1. FilesDoes([Files EXCEPT !.edit = [Files.edit EXCEPT !.text = "patched"], !.ai = "closed"], <<>>)
        BY <2>9 DEF ApplyPatch
      <3>2. Chosen([Files EXCEPT !.edit = [Files.edit EXCEPT !.text = "patched"], !.ai = "closed"])
        BY <2>1, <2>2, <2>3
      <3> QED BY <3>1, <3>2, FilesChoosing
    <2> QED BY <1>8, <2>5, <2>6, <2>7, <2>8, <2>9
  <1>9. ASSUME NEW op, NEW x, NEW shown, NEW closes, NEW new, Chosen(new),
               FilesDoes(new, << FilesCall(op, x, "written", Rest(shown, closes)) >>),
               ~Rushed => x.server = shown.of /\ x.path[1] = shown.path[1]
        PROVE  Entries'
    <2> DEFINE c == FilesCall(op, x, "written", Rest(shown, closes))
    <2>1. /\ c.k = "written" /\ c.x = x /\ c.e.server = ActiveServer /\ c.e.dir = Files.dir
          /\ c.e.shown = shown /\ c.e.rush = Rushed /\ FilesDoes(new, << c >>)
      BY <1>9 DEF FilesCall, Call, Rest
    <2> HIDE DEF c
    <2>2. WritesShown(c)
      BY <1>9, <2>1 DEF WritesShown
    <2> QED BY <1>9, <2>1, <2>2, FilesChoosing
  <1>10. CASE SaveFile
    <2> DEFINE new == [Files EXCEPT !.saving = TRUE]
               x == [server |-> ActiveServer, path |-> Files.edit.path,
                     text |-> Files.edit.text, backup |-> Files.edit.backup]
               shown == [of |-> Files.edit.of, path |-> Files.edit.path]
    <2>1. FilesDoes(new, << FilesCall("sftpWriteFile", x, "written", Rest(shown, "editor")) >>) /\ Files.edit.on
      BY <1>10 DEF SaveFile, Editing
    <2>2. Chosen(new)
      BY <1>1, <1>2 DEF Chosen, FilesKeys
    <2>3. x.server = ActiveServer /\ x.path = shown.path /\ shown.of = Files.edit.of
      OBVIOUS
    <2>4. ~Rushed => shown.of = ActiveServer
      BY <1>2, <2>1, <2>3 DEF Chosen
    <2> HIDE DEF new, x, shown
    <2> QED BY <1>9, <2>1, <2>2, <2>3, <2>4
  <1>11. CASE Upload \/ CreateFolder
    <2> DEFINE a == [server |-> ActiveServer, path |-> << Files.dir, Files.localSel >>,
                     text |-> "local", backup |-> TRUE]
               b == [server |-> ActiveServer, path |-> << Files.dir, "new" >>]
    <2>1. \/ FilesDoes(Files, << FilesCall("sftpWriteFile", a, "written", Rest(ShownListing, "none")) >>)
          \/ FilesDoes(Files, << FilesCall("sftpCreateDirectory", b, "written", Rest(ShownListing, "folder")) >>)
      BY <1>11 DEF Upload, CreateFolder
    <2>2. /\ a.server = ActiveServer /\ a.path[1] = Files.dir /\ b.server = ActiveServer /\ b.path[1] = Files.dir
          /\ ShownListing.of = Files.list.of /\ ShownListing.path[1] = Files.list.dir
      BY DEF ShownListing
    <2> HIDE DEF a, b
    <2> QED BY <1>2, <1>3, <1>9, <2>1, <2>2
  <1>12. CASE Download
    <2> DEFINE c == FilesCall("sftpReadFile", [server |-> ActiveServer, path |-> Files.sel.path], "downloaded", 0)
    <2>1. FilesDoes(Files, << c >>) /\ c.k = "downloaded"
      BY <1>12 DEF Download, FilesCall, Call
    <2> HIDE DEF c
    <2>2. WritesShown(c)
      BY <2>1 DEF WritesShown
    <2> QED BY <1>2, <2>1, <2>2, FilesChoosing
  <1>13. CASE ConfirmDelete
    <2> DEFINE x == [server |-> ActiveServer, path |-> Files.del.path]
    <2>1. /\ FilesDoes(Files, << FilesCall("sftpDeleteFile", x, "written", Rest(Files.del, "dialog")) >>)
          /\ Files.del # NoEntry
      BY <1>13 DEF ConfirmDelete
    <2>2. x.server = ActiveServer /\ x.path = Files.del.path
      OBVIOUS
    <2>3. ~Rushed => Files.del.of = ActiveServer
      BY <1>2, <2>1 DEF Chosen
    <2> HIDE DEF x
    <2> QED BY <1>2, <1>9, <2>1, <2>2, <2>3
  <1>14. CASE AskDelete \/ CancelDelete \/ AskFolder
    <2> DEFINE asked == [Files EXCEPT !.del = Files.sel]
               gone == [Files EXCEPT !.del = NoEntry]
               folder == [Files EXCEPT !.folder = TRUE]
    <2>1. Chosen(asked) /\ Chosen(gone) /\ Chosen(folder)
      BY <1>1, <1>2 DEF Chosen, FilesKeys
    <2>2. FilesDoes(asked, <<>>) \/ FilesDoes(gone, <<>>) \/ FilesDoes(folder, <<>>)
      BY <1>14 DEF AskDelete, CancelDelete, AskFolder
    <2> HIDE DEF asked, gone, folder
    <2> QED BY <2>1, <2>2, FilesChoosing
  <1> QED BY <1>4, <1>6, <1>7, <1>8, <1>10, <1>11, <1>12, <1>13, <1>14 DEF FilesOperator

-----------------------------------------------------------------------------
(* Answers to the files *)

\* An answer shown by the view.
LEMMA FilesShown ==
    ASSUME Base, Entries, app' = app, tabs'["Servers"] = tabs["Servers"],
           tabs'["Files"].mount = tabs["Files"].mount,
           NEW d, NEW calls, Moved(queue, d, calls, queue'),
           \A i \in DOMAIN calls : calls[i].k # "written",
           Open("Files") => FilesFit(Files', ActiveServer, queue')
    PROVE  Entries'
  <1>1. \A i \in DOMAIN queue' : WritesShown(queue'[i])
    BY WritesKept DEF Entries, WritesShown
  <1>2. ActiveServer' = ActiveServer /\ Open("Files")' = Open("Files") /\ Open("Servers")' = Open("Servers")
    BY DEF ActiveServer, Open
  <1> QED BY <1>1, <1>2 DEF Entries

\* The listing shown now has arrived, and nothing else has changed but what it ends.
LEMMA ListingArrives ==
    ASSUME NEW me, NEW server, NEW q, FilesFit(me, server, q), 1 \in DOMAIN q, Lists(q[1], me),
           NEW calls, DOMAIN calls = {}, NEW after, Moved(q, 1, calls, after),
           NEW new, DOMAIN new = FilesKeys, new.mount = me.mount, new.dir = me.dir, new.rush = me.rush,
           new.list.of = q[1].x.server, new.list.dir = q[1].x.dir, new.sel = NoEntry,
           new.edit \in {me.edit, ClosedEditor}, new.del \in {me.del, NoEntry}
    PROVE  FilesFit(new, server, after)
  <1>0. EditFits(new.edit) /\ (new.edit.on => me.edit.on /\ new.edit.of = me.edit.of)
    <2>1. EditFits(me.edit)
      BY DEF FilesFit
    <2>2. EditFits(ClosedEditor) /\ ~ClosedEditor.on
      BY DEF EditFits, ClosedEditor
    <2> QED BY <2>1, <2>2
  <1>1. CASE me.rush
    BY <1>0, <1>1 DEF FilesFit
  <1>2. CASE ~me.rush
    <2>1. ListingTrue(me, server, q) /\ EntriesTrue(me, server, q) /\ (UnderWay(me, q) => ~Changing(q))
      BY <1>2 DEF FilesFit
    <2>2. /\ DOMAIN q = 1 .. Len(q) /\ DOMAIN after = 1 .. Len(after) /\ Len(q) - 1 \in Nat
          /\ \A i \in DOMAIN after : i + 1 \in DOMAIN q /\ after[i] = q[i + 1]
          /\ \A i \in DOMAIN q : i > 1 => i - 1 \in DOMAIN after /\ after[i - 1] = q[i]
      BY DEF Moved, IsSeq
    <2>20. \A c : Lists(c, new) <=> Lists(c, me)
      BY DEF Lists
    <2>3. ListingTrue(new, server, after)
      <3>1. PICK i \in DOMAIN q :
               /\ Lists(q[i], me) /\ q[i].x.server = server /\ q[i].x.dir = me.dir
               /\ \A j \in DOMAIN q : Lists(q[j], me) => j <= i
        BY <2>1 DEF ListingTrue
      <3>2. CASE i = 1
        <4>1. ASSUME NEW j \in DOMAIN after, Lists(after[j], me)
              PROVE  FALSE
          <5>1. j + 1 <= 1
            BY <2>2, <3>1, <3>2, <4>1
          <5> QED BY <2>2, <5>1
        <4> QED BY <2>20, <3>1, <3>2, <4>1 DEF ListingTrue
      <3>3. CASE i # 1
        <4>1. i > 1 /\ i - 1 \in DOMAIN after /\ after[i - 1] = q[i]
          BY <2>2, <3>3
        <4>2. ASSUME NEW j \in DOMAIN after, Lists(after[j], me)
              PROVE  j <= i - 1
          <5>1. j + 1 <= i
            BY <2>2, <3>1, <4>2
          <5> QED BY <2>2, <5>1
        <4> QED BY <2>20, <3>1, <4>1, <4>2 DEF ListingTrue
      <3> QED BY <3>2, <3>3
    <2>4. EntriesTrue(new, server, after)
      BY <1>0, <2>1, <2>2 DEF EntriesTrue
    <2>5. UnderWay(new, after) => UnderWay(me, q)
      BY <1>0, <2>2 DEF UnderWay
    <2>6. Changing(after) => Changing(q)
      BY <2>2 DEF Changing
    <2> QED BY <1>0, <2>1, <2>3, <2>4, <2>5, <2>6 DEF FilesFit
  <1> QED BY <1>1, <1>2

\* A file has been read, and the editor opens.
LEMMA EditorOpens ==
    ASSUME NEW me, NEW server, NEW q, FilesFit(me, server, q), 1 \in DOMAIN q, q[1].k = "opened", q[1].on = me.mount,
           NEW calls, DOMAIN calls = {}, NEW after, Moved(q, 1, calls, after),
           NEW new, DOMAIN new = FilesKeys, new.mount = me.mount, new.dir = me.dir, new.rush = me.rush,
           new.list = me.list, new.sel = me.sel, new.del = me.del, EditFits(new.edit),
           new.edit = me.edit \/ new.edit.of = q[1].e.of
    PROVE  FilesFit(new, server, after)
  <1>1. CASE me.rush
    BY <1>1 DEF FilesFit
  <1>2. CASE ~me.rush
    <2>1. ListingTrue(me, server, q) /\ EntriesTrue(me, server, q) /\ (UnderWay(me, q) => ~Changing(q))
      BY <1>2 DEF FilesFit
    <2>2. \A i \in DOMAIN after : i + 1 \in DOMAIN q /\ after[i] = q[i + 1]
      BY DEF Moved
    <2>20. \A c : Lists(c, new) <=> Lists(c, me)
      BY DEF Lists
    <2>3. ListingTrue(me, server, after)
      BY <2>1, ListingStays DEF Lists
    <2>4. ListingTrue(new, server, after)
      BY <2>3, <2>20 DEF ListingTrue
    <2>5. EntriesTrue(new, server, after)
      BY <2>1, <2>2 DEF EntriesTrue
    <2>6. ~Changing(q)
      BY <2>1 DEF UnderWay
    <2>7. ~Changing(after)
      BY <2>2, <2>6 DEF Changing
    <2> QED BY <2>4, <2>5, <2>7 DEF FilesFit
  <1> QED BY <1>1, <1>2

\* A change has been made, and the directory it was made in is listed again.
LEMMA ListingFollows ==
    ASSUME NEW me, NEW server, NEW q, FilesFit(me, server, q), 1 \in DOMAIN q, q[1].k = "written", q[1].on = me.mount,
           NEW calls, IsSeq(calls), DOMAIN calls = {1}, Lists(calls[1], me),
           calls[1].x.server = q[1].e.server, calls[1].x.dir = q[1].e.dir,
           NEW after, Moved(q, 1, calls, after)
    PROVE  FilesFit(me, server, after)
  <1>1. CASE me.rush
    BY <1>1 DEF FilesFit
  <1>2. CASE ~me.rush
    <2>1. EntriesTrue(me, server, q) /\ (UnderWay(me, q) => ~Changing(q))
      BY <1>2 DEF FilesFit
    <2>2. q[1].e.server = server /\ q[1].e.dir = me.dir /\ ~Changing(q)
      BY <2>1 DEF EntriesTrue, UnderWay
    <2>3. ListingTrue(me, server, after)
      <3>1. 1 \in DOMAIN calls /\ DOMAIN calls \subseteq Nat \ {0} /\ \A i \in DOMAIN calls : i <= 1
        OBVIOUS
      <3> QED BY <2>2, <3>1, ListingNewest
    <2>4. calls[1].k = "directory"
      BY DEF Lists
    <2>5. ~Changing(after)
      <3>1. \A i \in DOMAIN calls : calls[i].k \notin SubmitKinds \cup ListKinds \cup ChangeKinds
        BY <2>4 DEF SubmitKinds, ListKinds, ChangeKinds
      <3> QED BY <2>2, <3>1, ChangingKeeps
    <2>6. EntriesTrue(me, server, after)
      BY <2>1, <2>4 DEF EntriesTrue, Moved
    <2> QED BY <2>3, <2>5, <2>6 DEF FilesFit
  <1> QED BY <1>1, <1>2

\* What a listing answers.
LEMMA ListingSays ==
    ASSUME Base, Awaited("directory"), NEW r \in Answers(Head(queue))
    PROVE  /\ r.val.of = Head(queue).x.server /\ r.val.dir = Head(queue).x.dir
           /\ Head(queue).e \in Closings
  <1>1. CallFits(Head(queue), sent, app.mounts) /\ Head(queue).k = "directory"
    BY Headed
  <1>2. Head(queue).op = "sftpListDirectory" /\ Head(queue).e \in Closings
    BY <1>1 DEF CallFits, KindFits
  <1>3. Reflects(Head(queue), r)
    BY <1>1, Answered
  <1> QED BY <1>2, <1>3 DEF Reflects, AnswerFits, ToolCalls

\* Answers to the files view.
LEMMA FilesAnswered ==
    ASSUME Base, Entries, FilesAnswer
    PROVE  Entries'
  <1> DEFINE c == Head(queue)
  <1>0. /\ "Files" \in DOMAIN tabs /\ "mount" \in DOMAIN Files /\ Files = tabs["Files"]
        /\ app' = app /\ (Open("Files") => DOMAIN Files = FilesKeys /\ EditFits(Files.edit))
    BY DEF Base, TabsFit, TabFits, TabNames, Files, Entries, FilesFit, FilesAnswer, DirectoryListed, FileOpened,
           Written, Downloaded, PatchSuggested
  <1>00. \A new : /\ [tabs EXCEPT !["Files"] = new]["Files"] = new
                  /\ [tabs EXCEPT !["Files"] = new]["Servers"] = tabs["Servers"]
    BY <1>0
  <1>1. ASSUME NEW k, Awaited(k), UNCHANGED tabs, c.on # Files.mount,
               NEW calls, IsSeq(calls), queue' = Tail(queue) \o calls,
               \A i \in DOMAIN calls : calls[i].on = c.on /\ calls[i].k = "directory"
        PROVE  Entries'
    <2>1. Moved(queue, 1, calls, queue') /\ queue[1] = c
      BY <1>1, AnyMove DEF Awaited
    <2>2. Changing(queue') => Changing(queue)
      <3>1. \A i \in DOMAIN calls : calls[i].k \notin SubmitKinds \cup ListKinds \cup ChangeKinds
        BY <1>1 DEF SubmitKinds, ListKinds, ChangeKinds
      <3> QED BY <2>1, <3>1, ChangingKeeps
    <2>3. ActiveServer' = ActiveServer
      BY <1>0 DEF ActiveServer
    <2> QED BY <1>1, <2>1, <2>2, <2>3, FilesUndisturbed DEF Foreign
  <1>2. IsSeq(<<>>) /\ DOMAIN <<>> = {}
    BY FewSeq
  <1>3. CASE DirectoryListed
    <2> DEFINE new(r) ==
                  LET shown == [Files EXCEPT !.list = r.val, !.sel = NoEntry]
                  IN CASE c.e = "none" -> shown
                    [] c.e = "editor" ->
                         [shown EXCEPT !.edit = ClosedEditor, !.saving = FALSE]
                    [] c.e = "dialog" -> [shown EXCEPT !.del = NoEntry]
                    [] c.e = "folder" -> [shown EXCEPT !.folder = FALSE]
    <2>1. Awaited("directory")
      BY <1>3 DEF DirectoryListed
    <2>2. PICK r \in Answers(c) :
            /\ Take(r, <<>>)
            /\ tabs' = IF Live(c, "Files") THEN [tabs EXCEPT !["Files"] = new(r)] ELSE tabs
      BY <1>3 DEF DirectoryListed
    <2>3. /\ r.val.of = c.x.server /\ r.val.dir = c.x.dir /\ c.e \in Closings /\ c.k = "directory"
          /\ queue' = Tail(queue) \o <<>> /\ queue # <<>>
      BY <2>1, <2>2, ListingSays DEF Take, Awaited
    <2>4. CASE c.on # Files.mount
      BY <1>0, <1>1, <1>2, <2>1, <2>2, <2>3, <2>4 DEF Live
    <2>5. CASE c.on = Files.mount
      <3>1. tabs' = [tabs EXCEPT !["Files"] = new(r)]
        BY <1>0, <2>2, <2>5 DEF Live
      <3>2. Moved(queue, 1, <<>>, queue') /\ queue[1] = c /\ 1 \in DOMAIN queue
        BY <1>2, <2>3, AnyMove
      <3> DEFINE shown == [Files EXCEPT !.list = r.val, !.sel = NoEntry]
      <3>3. new(r) = CASE c.e = "none" -> shown
                    [] c.e = "editor" -> [shown EXCEPT !.edit = ClosedEditor, !.saving = FALSE]
                    [] c.e = "dialog" -> [shown EXCEPT !.del = NoEntry]
                    [] c.e = "folder" -> [shown EXCEPT !.folder = FALSE]
        OBVIOUS
      <3>4. new(r) \in {shown, [shown EXCEPT !.edit = ClosedEditor, !.saving = FALSE],
                        [shown EXCEPT !.del = NoEntry], [shown EXCEPT !.folder = FALSE]}
        <4> HIDE DEF new, shown
        <4> QED BY <2>3, <3>3 DEF Closings
      <3>5. new(r).mount = Files.mount
        <4>1. "mount" \in DOMAIN shown /\ shown.mount = Files.mount
          BY <1>0
        <4> HIDE DEF new, shown
        <4> QED BY <3>4, <4>1
      <3>6. ASSUME Open("Files")
            PROVE  FilesFit(Files', ActiveServer, queue')
        <4>1. /\ DOMAIN shown = FilesKeys /\ shown.mount = Files.mount /\ shown.dir = Files.dir
              /\ shown.rush = Files.rush /\ shown.list = r.val /\ shown.sel = NoEntry
              /\ shown.edit = Files.edit /\ shown.del = Files.del
          BY <1>0, <3>6 DEF FilesKeys
        <4> DEFINE n == new(r)
        <4>2. n = new(r)
          OBVIOUS
        <4> HIDE DEF new, shown, n
        <4>3. /\ DOMAIN n = FilesKeys /\ n.mount = Files.mount /\ n.dir = Files.dir
              /\ n.rush = Files.rush /\ n.list = r.val /\ n.sel = NoEntry
              /\ n.edit \in {Files.edit, ClosedEditor} /\ n.del \in {Files.del, NoEntry}
          BY <3>4, <4>1, <4>2 DEF FilesKeys
        <4>4. Files' = n
          BY <1>00, <3>1, <4>2 DEF Files
        <4>5. FilesFit(Files, ActiveServer, queue) /\ Lists(queue[1], Files)
          BY <2>3, <2>5, <3>2, <3>6 DEF Entries, Lists
        <4> QED BY <1>2, <2>3, <3>2, <4>3, <4>4, <4>5, ListingArrives
      <3> HIDE DEF new
      <3> QED BY <1>0, <1>00, <1>2, <3>1, <3>2, <3>5, <3>6, FilesShown
    <2> QED BY <2>4, <2>5
  <1>4. CASE FileOpened
    <2> DEFINE e(r) == [on |-> TRUE, path |-> c.e.path, of |-> c.e.of, text |-> r.val.text,
                        cut |-> r.val.cut, backup |-> TRUE]
    <2>1. Awaited("opened")
      BY <1>4 DEF FileOpened
    <2>2. PICK r \in Answers(c) :
            /\ Take(r, <<>>)
            /\ tabs' = IF Live(c, "Files") /\ r.val.text # Missing
                       THEN [tabs EXCEPT !["Files"] = [Files EXCEPT !.edit = e(r)]] ELSE tabs
      BY <1>4 DEF FileOpened, Files
    <2>3. queue' = Tail(queue) \o <<>> /\ queue # <<>> /\ c.k = "opened"
      BY <2>1, <2>2 DEF Take, Awaited
    <2>4. CASE c.on # Files.mount
      BY <1>0, <1>1, <1>2, <2>1, <2>2, <2>3, <2>4 DEF Live
    <2>5. CASE c.on = Files.mount
      <3>2. Moved(queue, 1, <<>>, queue') /\ queue[1] = c /\ 1 \in DOMAIN queue
        BY <1>2, <2>3, AnyMove
      <3>3. PICK n \in {Files, [Files EXCEPT !.edit = e(r)]} : tabs'["Files"] = n /\ tabs'["Servers"] = tabs["Servers"]
        BY <1>0, <1>00, <2>2
      <3>4. EditFits(e(r)) /\ e(r).of = c.e.of
        BY DEF EditFits
      <3> HIDE DEF e
      <3>5. n.mount = Files.mount
        BY <1>0, <3>3
      <3>6. ASSUME Open("Files")
            PROVE  FilesFit(Files', ActiveServer, queue')
        <4>1. /\ DOMAIN n = FilesKeys /\ n.mount = Files.mount /\ n.dir = Files.dir /\ n.rush = Files.rush
              /\ n.list = Files.list /\ n.sel = Files.sel /\ n.del = Files.del /\ n.edit \in {Files.edit, e(r)}
          BY <1>0, <3>3, <3>6 DEF FilesKeys
        <4>2. EditFits(n.edit) /\ (n.edit = Files.edit \/ n.edit.of = queue[1].e.of)
          BY <1>0, <3>2, <3>4, <3>6, <4>1
        <4>3. FilesFit(Files, ActiveServer, queue) /\ Files' = n
          BY <3>3, <3>6 DEF Entries, Files
        <4> QED BY <1>2, <2>3, <2>5, <3>2, <4>1, <4>2, <4>3, EditorOpens
      <3> QED BY <1>0, <1>2, <3>2, <3>3, <3>5, <3>6, FilesShown
    <2> QED BY <2>4, <2>5
  <1>5. CASE Written
    <2> DEFINE call == ListingCall(c.on, c.e.server, c.e.dir, c.e.closes)
               calls == << call >>
    <2>1. Awaited("written") /\ UNCHANGED tabs /\ queue' = Tail(queue) \o calls
      BY <1>5 DEF Written, Take
    <2>2. call.on = c.on /\ call.k = "directory" /\ call.x.server = c.e.server /\ call.x.dir = c.e.dir
      BY DEF ListingCall
    <2> HIDE DEF call
    <2>3. IsSeq(calls) /\ DOMAIN calls = {1} /\ calls[1] = call
      BY FewSeq
    <2> HIDE DEF calls
    <2>4. CASE c.on # Files.mount
      BY <1>1, <2>1, <2>2, <2>3, <2>4
    <2>5. CASE c.on = Files.mount
      <3>1. Moved(queue, 1, calls, queue') /\ queue[1] = c /\ 1 \in DOMAIN queue /\ c.k = "written"
        BY <2>1, <2>3, AnyMove DEF Awaited
      <3>2. Lists(calls[1], Files)
        BY <2>2, <2>3, <2>5 DEF Lists
      <3>3. Open("Files") => FilesFit(Files, ActiveServer, queue')
        BY <2>2, <2>3, <2>5, <3>1, <3>2, ListingFollows DEF Entries
      <3> QED BY <1>0, <2>1, <2>2, <2>3, <3>1, <3>3, FilesShown DEF Files
    <2> QED BY <2>4, <2>5
  <1>6. CASE Downloaded
    <2>1. Awaited("downloaded") /\ UNCHANGED tabs /\ queue' = Tail(queue) \o <<>>
      BY <1>6 DEF Downloaded, Take
    <2>2. Moved(queue, 1, <<>>, queue') /\ queue[1].k = "downloaded"
      BY <1>2, <2>1, AnyMove DEF Awaited
    <2>3. Changing(queue') => Changing(queue)
      BY <1>2, <2>2, ChangingKeeps
    <2>4. ActiveServer' = ActiveServer
      BY <1>0 DEF ActiveServer
    <2> QED BY <1>2, <2>1, <2>2, <2>3, <2>4, FilesUndisturbed DEF Foreign, FileKinds
  <1>7. CASE PatchSuggested
    <2> DEFINE n == [Files EXCEPT !.ai = "patch"]
    <2>1. tabs' = [tabs EXCEPT !["Files"] = n] /\ queue' = queue /\ Open("Files")
      BY <1>7 DEF PatchSuggested, Files
    <2>2. /\ DOMAIN n = FilesKeys /\ n.mount = Files.mount /\ n.dir = Files.dir /\ n.rush = Files.rush
          /\ n.list = Files.list /\ n.sel = Files.sel /\ n.del = Files.del /\ n.edit = Files.edit
      BY <1>0, <2>1 DEF FilesKeys
    <2> HIDE DEF n
    <2>3. Files' = n /\ tabs'["Servers"] = tabs["Servers"]
      BY <1>00, <2>1 DEF Files
    <2>4. FilesFit(Files, ActiveServer, queue)
      BY <2>1 DEF Entries
    <2>5. \A x : Lists(x, n) <=> Lists(x, Files)
      BY <2>2 DEF Lists
    <2>6. FilesFit(n, ActiveServer, queue)
      BY <2>2, <2>4, <2>5 DEF FilesFit, ListingTrue, EntriesTrue, UnderWay
    <2>7. ActiveServer' = ActiveServer
      BY <1>0 DEF ActiveServer
    <2> QED BY <1>0, <2>1, <2>2, <2>3, <2>6, <2>7 DEF Entries, Open
  <1> QED BY <1>3, <1>4, <1>5, <1>6, <1>7 DEF FilesAnswer

-----------------------------------------------------------------------------
(* When App changes *)

\* What is asked for when App becomes a: a listing of the server it makes
\* active, if that is another one, and nothing that goes by an entry.
Relists(calls, a) ==
    /\ IsSeq(calls)
    /\ \A i \in DOMAIN calls :
         calls[i].k \notin {"opened", "written"} \cup SubmitKinds \cup ListKinds \cup ChangeKinds
    /\ \/ /\ Open("Files") => Target(a) = ActiveServer
          /\ \A i \in DOMAIN calls : calls[i].k # "directory"
       \/ \E j \in DOMAIN calls :
            /\ Lists(calls[j], Files) /\ calls[j].x.server = Target(a) /\ calls[j].x.dir = Files.dir
            /\ \A i \in DOMAIN calls : calls[i].k = "directory" => i = j

\* The effects of the views do.
LEMMA EffectsRelist ==
    ASSUME NEW a
    PROVE  Relists(Effects(a), a)
  <1> DEFINE p == ChatFollows(a)
             f == FilesFollow(a)
             t == TerminalFollows(a)
             pf == p \o f
             all == pf \o t
  <1>1. Effects(a) = all
    BY DEF Effects
  <1>2. IsSeq(p) /\ \A i \in DOMAIN p : p[i].k \in {"pending", "listed"}
    <2> DEFINE c == [op |-> "listPendingApprovals", x |-> 0, k |-> "pending", e |-> 0, on |-> Chat.mount]
               d == [op |-> "listConversations", x |-> Target(a), k |-> "listed", e |-> 0, on |-> Chat.mount]
               q == << c, d >>
    <2>1. p \in {<<>>, q}
      BY DEF ChatFollows, ChatEffect
    <2>2. c.k = "pending" /\ d.k = "listed"
      OBVIOUS
    <2>3. IsSeq(q) /\ DOMAIN q = {1, 2} /\ q[1] = c /\ q[2] = d
      BY FewSeq
    <2> HIDE DEF c, d, p, q
    <2> QED BY <2>1, <2>2, <2>3, FewSeq
  <1>3. IsSeq(t) /\ \A i \in DOMAIN t : t[i].k = "sessions"
    <2> DEFINE c == SessionsCall(Terminal.mount, Target(a), Terminal.cur)
               q == << c >>
    <2>1. t \in {<<>>, q}
      BY DEF TerminalFollows
    <2>2. c.k = "sessions"
      BY DEF SessionsCall
    <2>3. IsSeq(q) /\ DOMAIN q = {1} /\ q[1] = c
      BY FewSeq
    <2> HIDE DEF c, t, q
    <2> QED BY <2>1, <2>2, <2>3, FewSeq
  <1>4. /\ IsSeq(f)
        /\ \/ f = <<>> /\ (Open("Files") => Target(a) = ActiveServer)
           \/ /\ DOMAIN f = {1} /\ Lists(f[1], Files) /\ f[1].x.server = Target(a) /\ f[1].x.dir = Files.dir
    <2> DEFINE c == ListingCall(Files.mount, Target(a), Files.dir, "none")
               q == << c >>
    <2>1. \/ f = <<>> /\ (Open("Files") => Target(a) = ActiveServer)
          \/ f = q
      BY DEF FilesFollow, FilesEffect
    <2>2. Lists(c, Files) /\ c.x.server = Target(a) /\ c.x.dir = Files.dir
      BY DEF ListingCall, Lists
    <2>3. IsSeq(q) /\ DOMAIN q = {1} /\ q[1] = c
      BY FewSeq
    <2> HIDE DEF c, f, q
    <2> QED BY <2>1, <2>2, <2>3, FewSeq
  <1>50. Moved(p, 0, f, pf)
    BY <1>2, <1>4, PushMoves
  <1>51. IsSeq(pf)
    BY <1>50 DEF Moved
  <1>52. Moved(pf, 0, t, all)
    BY <1>3, <1>51, PushMoves
  <1>53. IsSeq(all)
    BY <1>52 DEF Moved
  <1> HIDE DEF p, f, t, pf, all
  <1>54. Len(p) \in Nat /\ Len(pf) \in Nat
    BY <1>2, <1>51 DEF IsSeq
  <1>6. \A i \in DOMAIN pf : \/ i \in DOMAIN p /\ pf[i] = p[i]
                             \/ \E j \in DOMAIN f : i = Len(p) + j /\ pf[i] = f[j]
    BY <1>2, <1>50, <1>54 DEF Moved, IsSeq
  <1>7. \A i \in DOMAIN all : \/ i \in DOMAIN pf /\ all[i] = pf[i]
                              \/ \E j \in DOMAIN t : all[i] = t[j]
    BY <1>51, <1>52, <1>54 DEF Moved, IsSeq
  <1>8. CASE f = <<>> /\ (Open("Files") => Target(a) = ActiveServer)
    <2>1. DOMAIN f = {}
      BY <1>8, FewSeq
    <2>2. \A i \in DOMAIN all : all[i].k \in {"pending", "listed", "sessions"}
      BY <1>2, <1>3, <1>6, <1>7, <2>1
    <2> QED BY <1>1, <1>8, <1>53, <2>2 DEF Relists, SubmitKinds, ListKinds, ChangeKinds
  <1>9. CASE DOMAIN f = {1} /\ Lists(f[1], Files) /\ f[1].x.server = Target(a) /\ f[1].x.dir = Files.dir
    <2> DEFINE j == Len(p) + 1
    <2>0. f[1].k = "directory"
      BY <1>9 DEF Lists
    <2>1. j \in DOMAIN pf /\ pf[j] = f[1]
      BY <1>9, <1>50, <1>54 DEF Moved
    <2>2. j \in DOMAIN all /\ all[j] = pf[j]
      <3>1. j > 0 /\ j - 0 = j
        BY <1>54
      <3> HIDE DEF j
      <3> QED BY <1>52, <2>1, <3>1 DEF Moved
    <2>3. ASSUME NEW i \in DOMAIN all
          PROVE  \/ all[i].k \in {"pending", "listed", "sessions"}
                 \/ i = j /\ all[i].k = "directory"
      <3>1. CASE \E n \in DOMAIN t : all[i] = t[n]
        BY <1>3, <3>1
      <3>2. CASE i \in DOMAIN pf /\ all[i] = pf[i]
        <4>1. CASE i \in DOMAIN p /\ pf[i] = p[i]
          BY <1>2, <3>2, <4>1
        <4>2. CASE \E n \in DOMAIN f : i = Len(p) + n /\ pf[i] = f[n]
          <5>1. i = Len(p) + 1 /\ pf[i] = f[1]
            BY <1>9, <4>2
          <5> QED BY <2>0, <3>2, <5>1
        <4> QED BY <1>6, <3>2, <4>1, <4>2
      <3> QED BY <1>7, <3>1, <3>2
    <2> HIDE DEF j
    <2> QED BY <1>1, <1>9, <1>53, <2>1, <2>2, <2>3 DEF Relists, SubmitKinds, ListKinds, ChangeKinds
  <1> QED BY <1>4, <1>8, <1>9

\* What a longer queue holds.
LEMMA PushedBoth ==
    ASSUME NEW p, NEW q, NEW all, IsSeq(p), Moved(p, 0, q, all)
    PROVE  /\ \A i \in DOMAIN all : (i \in DOMAIN p /\ all[i] = p[i]) \/ \E j \in DOMAIN q : all[i] = q[j]
           /\ \A i \in DOMAIN p : i \in DOMAIN all /\ all[i] = p[i]
  <1>1. Len(p) \in Nat /\ Len(p) - 0 = Len(p)
    BY DEF IsSeq
  <1>2. ASSUME NEW i \in DOMAIN all
        PROVE  (i \in DOMAIN p /\ all[i] = p[i]) \/ \E j \in DOMAIN q : all[i] = q[j]
    <2>1. i \in Nat /\ i + 0 = i
      BY DEF Moved, IsSeq
    <2> QED BY <1>1, <2>1 DEF Moved
  <1>3. ASSUME NEW i \in DOMAIN p
        PROVE  i \in DOMAIN all /\ all[i] = p[i]
    <2>1. i \in Nat /\ i > 0 /\ i - 0 = i
      BY DEF IsSeq
    <2> QED BY <2>1 DEF Moved
  <1> QED BY <1>2, <1>3

\* Reading the mode adds to it nothing of the files.
LEMMA RelistsMore ==
    ASSUME NEW calls, NEW a, Relists(calls, a), NEW c, c.k = "launch mode"
    PROVE  Relists(calls \o << c >>, a)
  <1> DEFINE q == << c >>
             all == calls \o q
  <1>1. IsSeq(q) /\ DOMAIN q = {1} /\ q[1] = c
    BY FewSeq
  <1>2. Moved(calls, 0, q, all)
    BY <1>1, PushMoves DEF Relists
  <1> HIDE DEF q, all
  <1>3. IsSeq(all) /\ IsSeq(calls)
    BY <1>2 DEF Moved, Relists
  <1>4. /\ \A i \in DOMAIN all : (i \in DOMAIN calls /\ all[i] = calls[i]) \/ \E j \in DOMAIN q : all[i] = q[j]
        /\ \A i \in DOMAIN calls : i \in DOMAIN all /\ all[i] = calls[i]
    BY <1>2, <1>3, PushedBoth, Zenon
  <1>5. \A i \in DOMAIN all : (i \in DOMAIN calls /\ all[i] = calls[i]) \/ all[i] = c
    BY <1>1, <1>4
  <1>6. \A i \in DOMAIN calls : i \in DOMAIN all /\ all[i] = calls[i]
    BY <1>4
  <1>7. \A i \in DOMAIN all :
           all[i].k \notin {"opened", "written"} \cup SubmitKinds \cup ListKinds \cup ChangeKinds
    BY <1>5 DEF Relists, SubmitKinds, ListKinds, ChangeKinds
  <1>8. Relists(all, a)
    <2>1. CASE /\ Open("Files") => Target(a) = ActiveServer
               /\ \A i \in DOMAIN calls : calls[i].k # "directory"
      <3>1. ASSUME NEW i \in DOMAIN all PROVE all[i].k # "directory"
        <4>1. CASE all[i] = c
          BY <4>1
        <4>2. CASE i \in DOMAIN calls /\ all[i] = calls[i]
          BY <2>1, <4>2
        <4> QED BY <1>5, <4>1, <4>2
      <3> QED BY <1>3, <1>7, <2>1, <3>1 DEF Relists
    <2>2. CASE \E j \in DOMAIN calls :
                  /\ Lists(calls[j], Files) /\ calls[j].x.server = Target(a) /\ calls[j].x.dir = Files.dir
                  /\ \A i \in DOMAIN calls : calls[i].k = "directory" => i = j
      <3>1. PICK j \in DOMAIN calls :
                  /\ Lists(calls[j], Files) /\ calls[j].x.server = Target(a) /\ calls[j].x.dir = Files.dir
                  /\ \A i \in DOMAIN calls : calls[i].k = "directory" => i = j
        BY <2>2
      <3>2. j \in DOMAIN all /\ all[j] = calls[j]
        BY <1>6
      <3>3. \A i \in DOMAIN all : all[i].k = "directory" => i = j
        BY <1>5, <3>1
      <3> QED BY <1>3, <1>7, <3>1, <3>2, <3>3 DEF Relists
    <2> QED BY <2>1, <2>2 DEF Relists
  <1> QED BY <1>8 DEF all, q

\* The view follows, if nothing in it goes by an entry.
LEMMA FilesRelisted ==
    ASSUME NEW me, DOMAIN me = FilesKeys, me.mount = Files.mount, me.dir = Files.dir, me.list = Files.list,
           me.sel = Files.sel, ~me.edit.on, me.del = NoEntry,
           Open("Files"), ListingTrue(Files, ActiveServer, queue),
           \A i \in DOMAIN queue : queue[i].on = Files.mount => queue[i].k \notin {"opened", "written"},
           NEW d, NEW calls, NEW a, Relists(calls, a), Moved(queue, d, calls, queue'),
           d = 1 => queue[1].k \notin FileKinds
    PROVE  ListingTrue(me, Target(a), queue') /\ EntriesTrue(me, Target(a), queue')
  <1>1. \A c : Lists(c, me) <=> Lists(c, Files)
    BY DEF Lists
  <1>2. ListingTrue(me, Target(a), queue')
    <2>1. CASE Target(a) = ActiveServer /\ \A i \in DOMAIN calls : calls[i].k # "directory"
      <3>1. \A i \in DOMAIN calls : ~Lists(calls[i], Files)
        BY <2>1 DEF Lists
      <3>2. d = 1 => ~Lists(queue[1], Files)
        BY DEF Lists, FileKinds
      <3>3. ListingTrue(Files, Target(a), queue')
        BY <2>1, <3>1, <3>2, ListingStays
      <3> QED BY <1>1, <3>3 DEF ListingTrue
    <2>2. CASE \E j \in DOMAIN calls :
                 /\ Lists(calls[j], Files) /\ calls[j].x.server = Target(a) /\ calls[j].x.dir = Files.dir
                 /\ \A i \in DOMAIN calls : calls[i].k = "directory" => i = j
      <3>1. PICK j \in DOMAIN calls :
                 /\ Lists(calls[j], Files) /\ calls[j].x.server = Target(a) /\ calls[j].x.dir = Files.dir
                 /\ \A i \in DOMAIN calls : calls[i].k = "directory" => i = j
        BY <2>2
      <3>2. DOMAIN calls \subseteq Nat \ {0}
        BY DEF Relists, IsSeq
      <3>3. \A i \in DOMAIN calls : Lists(calls[i], me) => i <= j
        BY <3>1, <3>2 DEF Lists
      <3> QED BY <1>1, <3>1, <3>2, <3>3, ListingNewest
    <2> QED BY <2>1, <2>2 DEF Relists
  <1>3. \A i \in DOMAIN queue' : queue'[i].on = me.mount => queue'[i].k \notin {"opened", "written"}
    BY DEF Moved, Relists
  <1> QED BY <1>2, <1>3 DEF EntriesTrue

\* App shows the servers it has read.
LEMMA FilesListed ==
    ASSUME Base, Entries, tabs' = tabs, queue # <<>>, Head(queue).k \in ListKinds,
           NEW calls, Relists(calls, app'), queue' = Tail(queue) \o calls
    PROVE  Entries'
  <1>1. Moved(queue, 1, calls, queue') /\ queue[1].k \in ListKinds /\ 1 \in DOMAIN queue
    BY AnyMove DEF Relists
  <1>2. queue[1].k \notin FileKinds /\ Changing(queue)
    BY <1>1 DEF FileKinds, ListKinds, Changing
  <1>3. \A i \in DOMAIN queue' : WritesShown(queue'[i])
    BY <1>1, WritesKept DEF Entries, WritesShown, Relists
  <1>4. ASSUME Open("Files")
        PROVE  FilesFit(Files, Target(app'), queue')
    <2>1. FilesFit(Files, ActiveServer, queue)
      BY <1>4 DEF Entries
    <2>2. CASE Files.rush
      BY <2>1, <2>2 DEF FilesFit
    <2>3. CASE ~Files.rush
      <3>1. ListingTrue(Files, ActiveServer, queue) /\ ~UnderWay(Files, queue)
        BY <1>2, <2>1, <2>3 DEF FilesFit
      <3>2. /\ ~Files.edit.on /\ Files.del = NoEntry /\ Files.sel = NoEntry
            /\ \A i \in DOMAIN queue : queue[i].on = Files.mount => queue[i].k \notin {"opened", "written"}
        BY <3>1 DEF UnderWay
      <3>3. DOMAIN Files = FilesKeys
        BY <2>1 DEF FilesFit
      <3>4. ListingTrue(Files, Target(app'), queue') /\ EntriesTrue(Files, Target(app'), queue')
        BY <1>1, <1>2, <1>4, <3>1, <3>2, <3>3, FilesRelisted
      <3>5. ~UnderWay(Files, queue')
        BY <1>1, <3>2 DEF UnderWay, Moved, Relists
      <3> QED BY <2>1, <3>4, <3>5 DEF FilesFit
    <2> QED BY <2>2, <2>3
  <1> QED BY <1>3, <1>4 DEF Entries, Open, Files, ActiveServer

\* Another server is made active in the header.
LEMMA FilesSelected ==
    ASSUME Base, Entries, NEW s, SelectServer(s)
    PROVE  Entries'
  <1> DEFINE a == [app EXCEPT !.active = s]
             calls == Effects(a)
  <1>1. /\ app' = a /\ queue' = queue \o calls /\ (Open("Files") => ~Covered)
        /\ tabs' = IF Open("Files") THEN [tabs EXCEPT !["Files"] = [Files EXCEPT !.rush = Rushed]] ELSE tabs
    BY DEF SelectServer, Uncovered, Files
  <1> HIDE DEF a
  <1>2. Relists(calls, a)
    BY EffectsRelist
  <1> HIDE DEF calls
  <1>3. Moved(queue, 0, calls, queue')
    BY <1>1, <1>2, AnyMove DEF Relists
  <1>4. \A i \in DOMAIN queue' : WritesShown(queue'[i])
    BY <1>2, <1>3, WritesKept DEF Entries, WritesShown, Relists
  <1>5. CASE ~Open("Files")
    BY <1>1, <1>4, <1>5 DEF Entries, Open
  <1>6. CASE Open("Files")
    <2> DEFINE me == [Files EXCEPT !.rush = Rushed]
    <2>0. "Files" \in DOMAIN tabs /\ DOMAIN Files = FilesKeys /\ EditFits(Files.edit)
      BY <1>6 DEF Base, TabsFit, TabNames, Entries, FilesFit
    <2>1. /\ DOMAIN me = FilesKeys /\ me.mount = Files.mount /\ me.dir = Files.dir /\ me.list = Files.list
          /\ me.sel = Files.sel /\ me.edit = Files.edit /\ me.del = Files.del /\ me.rush = Rushed
      BY <2>0 DEF FilesKeys
    <2>2. tabs' = [tabs EXCEPT !["Files"] = me]
      BY <1>1, <1>6
    <2> HIDE DEF me
    <2>3. Files' = me /\ tabs'["Servers"] = tabs["Servers"]
      BY <2>0, <2>2 DEF Files
    <2>4. FilesFit(me, Target(a), queue')
      <3>1. CASE Rushed
        BY <2>0, <2>1, <3>1 DEF FilesFit
      <3>2. CASE ~Rushed
        <4>1. (\A i \in DOMAIN queue : queue[i].on # Files.mount) /\ ~Changing(queue)
          BY <1>6, <3>2, FilesSettled
        <4>2. ~me.edit.on /\ me.del = NoEntry
          BY <1>1, <1>6, <2>1 DEF Covered
        <4>3. ListingTrue(Files, ActiveServer, queue)
          BY <1>6, <3>2 DEF Entries, FilesFit, Rushed
        <4>4. ListingTrue(me, Target(a), queue') /\ EntriesTrue(me, Target(a), queue')
          BY <1>2, <1>3, <1>6, <2>1, <4>1, <4>2, <4>3, FilesRelisted
        <4>5. ~Changing(queue')
          BY <1>2, <1>3, <4>1, ChangingKeeps DEF Relists
        <4> QED BY <2>0, <2>1, <4>4, <4>5 DEF FilesFit
      <3> QED BY <3>1, <3>2
    <2>5. ActiveServer' = Target(a)
      BY <1>1 DEF ActiveServer
    <2>6. Open("Files")' /\ ~Open("Servers")'
      BY <1>6, <2>1, <2>3 DEF Entries, Open, Files
    <2> QED BY <1>4, <2>3, <2>4, <2>5, <2>6 DEF Entries
  <1> QED BY <1>5, <1>6

\* Answers to App.
LEMMA FilesApp ==
    ASSUME Base, Entries, LaunchServers \/ LaunchMode \/ ServerSaved \/ ServerListed \/ ServerDeleted \/ ServerGone
    PROVE  Entries'
  <1> DEFINE c == Head(queue)
  <1>0. tabs' = tabs
    BY DEF LaunchServers, LaunchMode, ServerSaved, ServerListed, ServerDeleted, ServerGone
  <1>1. CASE ServerListed \/ ServerGone
    <2>1. \E a : app' = a /\ queue' = Tail(queue) \o Effects(a)
      BY <1>1 DEF ServerListed, ServerGone, Take
    <2>2. Relists(Effects(app'), app') /\ queue' = Tail(queue) \o Effects(app')
      BY <2>1, EffectsRelist
    <2>3. queue # <<>> /\ c.k \in ListKinds
      BY <1>1 DEF ServerListed, ServerGone, Awaited, ListKinds
    <2> QED BY <1>0, <2>2, <2>3, FilesListed
  <1>2. CASE LaunchServers
    <2> DEFINE call == [c EXCEPT !.op = "getSetting", !.x = "permission_mode", !.k = "launch mode"]
    <2>1. Awaited("launch servers") /\ \E a : app' = a /\ queue' = Tail(queue) \o (Effects(a) \o << call >>)
      BY <1>2 DEF LaunchServers, Take
    <2>2. queue' = Tail(queue) \o (Effects(app') \o << call >>)
      BY <2>1
    <2>3. DOMAIN c = CallFields
      BY <2>1, Headed DEF CallFits, CallFields
    <2>4. call.k = "launch mode"
      BY <2>3 DEF CallFields
    <2> HIDE DEF call
    <2>5. Relists(Effects(app') \o << call >>, app')
      BY <2>4, EffectsRelist, RelistsMore
    <2>6. queue # <<>> /\ c.k \in ListKinds
      BY <2>1 DEF Awaited, ListKinds
    <2> QED BY <1>0, <2>2, <2>5, <2>6, FilesListed
  <1>3. CASE LaunchMode
    <2>1. PICK mode : /\ queue' = Tail(queue) \o ReloadFor(mode)
                      /\ app' = [app EXCEPT !.mode = mode, !.launched = TRUE]
      BY <1>3 DEF LaunchMode, Take
    <2>2. queue # <<>> /\ c.k = "launch mode"
      BY <1>3 DEF LaunchMode, Awaited
    <2> DEFINE calls == ReloadFor(mode)
    <2>3. IsSeq(calls) /\ \A i \in DOMAIN calls : calls[i].k \notin LoudKinds
      BY ReloadFits DEF AsideCalls, Aside
    <2>4. queue' = Tail(queue) \o calls
      BY <2>1
    <2> HIDE DEF calls
    <2>5. Moved(queue, 1, calls, queue') /\ queue[1] = c
      BY <2>2, <2>3, <2>4, AnyMove
    <2>6. Changing(queue') => Changing(queue)
      BY <2>3, <2>5, ChangingKeeps DEF LoudKinds, AppKinds
    <2>7. ActiveServer' = ActiveServer
      <3>1. app'.servers = app.servers /\ app'.active = app.active
        BY <2>1 DEF Base, AppFits, AppFields
      <3> QED BY <3>1 DEF ActiveServer, Target
    <2>8. \A i \in DOMAIN calls : Foreign(calls[i], Files) /\ calls[i].k # "written"
      BY <2>3 DEF LoudKinds, Foreign, FileKinds
    <2>9. Foreign(queue[1], Files)
      BY <2>2, <2>5 DEF Foreign, FileKinds
    <2> QED BY <1>0, <2>5, <2>6, <2>7, <2>8, <2>9, FilesUndisturbed
  <1>4. CASE ServerSaved \/ ServerDeleted
    <2>1. PICK kind \in {"server listed", "server gone"} :
            queue' = Tail(queue) \o << AppCall("listServers", 0, kind, Head(queue).e) >>
      BY <1>4 DEF ServerSaved, ServerDeleted, Take
    <2>2. queue # <<>> /\ c.k \in ChangeKinds /\ app' = app
      BY <1>4 DEF ServerSaved, ServerDeleted, Awaited, ChangeKinds
    <2> DEFINE call == AppCall("listServers", 0, kind, c.e)
               calls == << call >>
    <2>3. call.k = kind
      BY DEF AppCall
    <2>4. queue' = Tail(queue) \o calls
      BY <2>1
    <2> HIDE DEF call
    <2>5. IsSeq(calls) /\ DOMAIN calls = {1} /\ calls[1] = call
      BY FewSeq
    <2> HIDE DEF calls
    <2>6. Moved(queue, 1, calls, queue') /\ queue[1] = c /\ 1 \in DOMAIN queue
      BY <2>2, <2>4, <2>5, AnyMove
    <2>7. Changing(queue)
      BY <2>2, <2>6 DEF Changing
    <2>8. \A i \in DOMAIN calls : Foreign(calls[i], Files) /\ calls[i].k # "written"
      BY <2>1, <2>3, <2>5 DEF Foreign, FileKinds
    <2>9. Foreign(queue[1], Files)
      BY <2>2, <2>6 DEF Foreign, FileKinds, ChangeKinds
    <2>10. ActiveServer' = ActiveServer
      BY <2>2 DEF ActiveServer
    <2> QED BY <1>0, <2>6, <2>7, <2>8, <2>9, <2>10, FilesUndisturbed
  <1> QED BY <1>1, <1>2, <1>3, <1>4

-----------------------------------------------------------------------------
(* What is shown is always true *)

\* Views are mounted and left.
LEMMA FilesMounts ==
    ASSUME Base, Entries, ToggleSplit \/ \E v \in TabNames : SelectView(v)
    PROVE  Entries'
  <1>0. ActiveServer' = ActiveServer
    <2>1. app'.servers = app.servers /\ app'.active = app.active
      BY DEF ToggleSplit, SelectView, Base, AppFits, AppFields
    <2> QED BY <2>1 DEF ActiveServer, Target
  <1>1. CASE UNCHANGED << tabs, queue >>
    BY <1>0, <1>1 DEF Entries, Open, Files
  <1>2. ASSUME NEW calls, IsSeq(calls), \A i \in DOMAIN calls : Mild(calls[i]), queue' = queue \o calls,
               tabs'["Files"] = NotMounted \/ FilesLaid(app.mounts + 1, calls)
        PROVE  Entries'
    <2>1. Moved(queue, 0, calls, queue')
      BY <1>2, AnyMove
    <2>2. \A i \in DOMAIN queue' : WritesShown(queue'[i])
      BY <1>2, <2>1, WritesKept DEF Mild, WritesShown, Entries
    <2>3. CASE tabs'["Files"] = NotMounted
      BY <2>2, <2>3 DEF Entries, Open, NotMounted
    <2>4. CASE FilesLaid(app.mounts + 1, calls)
      <3> DEFINE n == app.mounts + 1
                 me == FreshFiles(n)
                 c == ListingCall(n, ActiveServer, me.dir, "none")
      <3>1. n \in Nat /\ n > app.mounts
        BY DEF Base, AppFits
      <3>2. /\ DOMAIN me = FilesKeys /\ me.mount = n /\ me.sel = NoEntry /\ me.del = NoEntry
            /\ me.edit = ClosedEditor
        BY DEF FreshFiles, FilesKeys
      <3>3. EditFits(me.edit) /\ ~me.edit.on
        <4>1. EditFits(ClosedEditor) /\ ~ClosedEditor.on
          BY DEF EditFits, ClosedEditor
        <4> HIDE DEF me
        <4> QED BY <3>2, <4>1
      <3>4. Lists(c, me) /\ c.x.server = ActiveServer /\ c.x.dir = me.dir
        BY <3>2 DEF ListingCall, Lists
      <3>5. calls = << c >> /\ tabs'["Files"] = me /\ tabs'["Servers"] = NotMounted
        BY <2>4 DEF FilesLaid
      <3>6. ASSUME NEW i \in DOMAIN queue
            PROVE  queue[i].on # n
        <4>1. queue[i].on \in 0 .. app.mounts /\ app.mounts \in Nat
          BY DEF Base, QueueFits, CallFits, AppFits
        <4> HIDE DEF n
        <4> QED BY <3>1, <4>1
      <3> HIDE DEF n, me, c
      <3>7. DOMAIN calls = {1} /\ calls[1] = c
        BY <3>5, FewSeq
      <3>8. ListingTrue(me, ActiveServer, queue')
        BY <2>1, <3>4, <3>7, ListingNewest
      <3>9. \A i \in DOMAIN queue' : queue'[i].on = me.mount => queue'[i].k \notin {"opened", "written"}
        BY <2>1, <3>2, <3>4, <3>6, <3>7 DEF Moved, Lists
      <3>10. FilesFit(me, ActiveServer, queue')
        BY <3>2, <3>3, <3>8, <3>9 DEF FilesFit, EntriesTrue, UnderWay
      <3> QED BY <1>0, <2>2, <3>5, <3>10 DEF Entries, Open, Files, NotMounted
    <2> QED BY <1>2, <2>3, <2>4
  <1> QED BY <1>1, <1>2, Laid

\* What is shown is true at launch, when no files are.
LEMMA FilesInit == Init => Entries
  <1> SUFFICES ASSUME Init PROVE Entries
    OBVIOUS
  <1> DEFINE call == AppCall("listServers", 0, "launch servers", 0)
             a == [op |-> "listPendingApprovals", x |-> 0, k |-> "pending", e |-> 0, on |-> 1]
             b == [op |-> "listConversations", x |-> NoServer, k |-> "listed", e |-> 0, on |-> 1]
  <1>1. queue = << a, b >> \o << call >>
    BY DEF Init, ChatEffect
  <1>2. WritesShown(a) /\ WritesShown(b) /\ WritesShown(call)
    BY DEF WritesShown, AppCall
  <1>3. tabs["Files"] = NotMounted
    BY DEF Init, TabNames
  <1> HIDE DEF a, b, call
  <1>4. /\ IsSeq(<< a, b >>) /\ \A i \in DOMAIN << a, b >> : WritesShown(<< a, b >>[i])
        /\ IsSeq(<< call >>) /\ \A i \in DOMAIN << call >> : WritesShown(<< call >>[i])
    BY <1>2, FewSeq
  <1>5. \A i \in DOMAIN queue : WritesShown(queue[i])
    <2> DEFINE p == << a, b >>
               q == << call >>
               new == p \o q
    <2>1. /\ IsSeq(new)
          /\ \A i \in DOMAIN new : \/ i \in DOMAIN p /\ new[i] = p[i]
                                   \/ i - Len(p) \in DOMAIN q /\ new[i] = q[i - Len(p)]
      BY <1>4, JoinSeq
    <2>2. queue = new
      BY <1>1
    <2>3. (\A i \in DOMAIN p : WritesShown(p[i])) /\ \A i \in DOMAIN q : WritesShown(q[i])
      BY <1>4
    <2> HIDE DEF p, q, new
    <2> QED BY <2>1, <2>2, <2>3
  <1> QED BY <1>3, <1>5 DEF Entries, Open, NotMounted

\* Every step keeps it so.
LEMMA EntriesStep == Base /\ Entries /\ [Next]_vars => Entries'
  <1> SUFFICES ASSUME Base, Entries, [Next]_vars PROVE Entries'
    OBVIOUS
  <1>1. CASE Operator
    <2>1. CASE \E s \in ServerIds : SelectServer(s)
      BY <2>1, FilesSelected
    <2>2. CASE \E mode \in Modes : ChangeMode(mode)
      <3>1. \E mode \in Modes : ChangeMode(mode)
        BY <2>2
      <3>2. UNCHANGED chatVars
        BY <2>2 DEF ChangeMode
      <3> QED BY <3>1, <3>2, ModesBase, FilesAside
    <2>3. CASE ChatOperator
      BY <2>3, ChatActs, SendActs, FilesAside DEF ChatOperator
    <2>4. CASE FilesOperator /\ UNCHANGED chatVars
      BY <2>4, FilesActs
    <2>5. CASE TerminalOperator /\ UNCHANGED chatVars
      BY <2>5, TerminalActs, FilesAside
    <2>6. CASE SettingsOperator /\ UNCHANGED chatVars
      BY <2>6, SettingsActs, ModesBase, SaveAllBase, FilesAside DEF SettingsOperator
    <2>7. CASE ServersOperator /\ UNCHANGED chatVars
      BY <2>7, ServersBase, FilesBeside
    <2>8. CASE ActivityOperator /\ UNCHANGED chatVars
      BY <2>8, ActivityActs, FilesAside
    <2>9. CASE ToggleSplit \/ \E v \in TabNames : SelectView(v)
      BY <2>9, FilesMounts
    <2> QED BY <1>1, <2>1, <2>2, <2>3, <2>4, <2>5, <2>6, <2>7, <2>8, <2>9 DEF Operator
  <1>2. CASE Answer
    <2>1. CASE LaunchServers \/ LaunchMode \/ ServerSaved \/ ServerListed \/ ServerDeleted \/ ServerGone
      BY <2>1, FilesApp
    <2>2. CASE ChatAnswer
      <3>1. CASE PendingShown \/ ConversationsListed \/ ConversationLoaded \/ ConversationDeleted
        BY <3>1, ChatAnswers, FilesAside
      <3>2. CASE Configured \/ PrivacyRead \/ KeyResolved \/ ToolAnswered
        BY <3>2, TurnSteps, FilesAside
      <3>3. CASE WordsStored
        BY <3>3, WordsKept, FilesAside
      <3>4. CASE Approved \/ Rejected
        BY <3>4, DecisionSteps, FilesAside
      <3> QED BY <2>2, <3>1, <3>2, <3>3, <3>4 DEF ChatAnswer
    <2>3. CASE SettingsAnswer /\ UNCHANGED chatVars
      BY <2>3, SettingsAnswers, FilesAside
    <2>4. CASE Unwatched /\ UNCHANGED chatVars
      BY <2>4, WordsKept, FilesAside
    <2>5. CASE FilesAnswer /\ UNCHANGED chatVars
      BY <2>5, FilesAnswered
    <2>6. CASE TerminalAnswer /\ UNCHANGED chatVars
      BY <2>6, TerminalAnswers, FilesAside
    <2>7. CASE ServersAnswer /\ UNCHANGED chatVars
      BY <2>7, ServersAnswersBase, FilesBeside
    <2>8. CASE ActivityAnswer /\ UNCHANGED chatVars
      BY <2>8, ActivityAnswers, FilesAside
    <2> QED BY <1>2, <2>1, <2>2, <2>3, <2>4, <2>5, <2>6, <2>7, <2>8 DEF Answer
  <1>3. CASE Environment
    BY <1>3, ProviderSteps, TerminalMoves, SettingsMoves, FilesAside DEF Environment
  <1>4. CASE UNCHANGED vars
    BY <1>4 DEF vars, coreVars, Entries, Open, Files, ActiveServer
  <1> QED BY <1>1, <1>2, <1>3, <1>4 DEF Next

\* Saving, deleting, uploading and creating act on the server, and in the
\* directory, whose files were on screen, whatever directories were visited and
\* servers selected, saved or deleted in between, if the operator has waited for
\* the answers (FilesView.tsx).
THEOREM FilesAreTrue == Spec => []FilesActOnShown
  <1>1. Entries => FilesActOnShown
    BY DEF Entries, WritesShown, FilesActOnShown
  <1>2. Spec => []Entries
    BY FilesInit, EntriesStep, DesktopInvariance, PTL DEF Spec
  <1> QED BY <1>1, <1>2, PTL
=============================================================================
