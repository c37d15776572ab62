-------------------------- MODULE HubEventsProofs ---------------------------
(***************************************************************************)
(* TLAPS proofs about HubEvents, for any connections, agents, commands,    *)
(* replies, hints and ring size.  SubsInv: the subscriptions of a connection *)
(* end with it, though fan-out counts them up from tasks that know nothing *)
(* of the socket.  AnnounceInv: what the one-entry memory of the dedupe says *)
(* about what was announced.  FramesInv: what is on the ring for each      *)
(* connection, and from which number on.                                   *)
(***************************************************************************)
EXTENDS HubEvents, FiniteSetTheorems, SequenceTheorems, TLAPS

SubsInv ==
  /\ sock \in [Conns -> {"down", "open", "ready", "busy", "closed"}]
  /\ subs \in [Conns -> [Agents -> Nat]]
  /\ ClosedIsUnsubscribed

\* Fan-out counts up what is there and subscribes nobody.
LEMMA FanOutStep ==
  ASSUME SubsInv, NEW k, NEW what, FanOut(k, what), sock' = sock
  PROVE SubsInv'
<1> DEFINE a == cmd[k].agent
<1>1. subs' = [c \in Conns |-> IF subs[c][a] > 0 THEN [subs[c] EXCEPT ![a] = @ + 1] ELSE subs[c]]
  BY DEF FanOut
<1> HIDE DEF a
<1>2. ASSUME NEW c \in Conns, NEW b \in Agents
      PROVE subs'[c] \in [Agents -> Nat] /\ (subs[c][b] = 0 => subs'[c][b] = 0)
  <2>1. subs[c] \in [Agents -> Nat]
    BY DEF SubsInv
  <2>2. CASE a \in Agents
    BY <1>1, <2>1, <2>2
  <2>3. CASE a \notin Agents
    BY <1>1, <2>1, <2>3
  <2>4. QED
    BY <2>2, <2>3
<1>3. QED
  <2>1. CASE Agents = {}
    <3>1. \A c \in Conns : subs'[c] \in [Agents -> Nat]
      BY <1>1, <2>1 DEF SubsInv
    <3>2. QED
      BY <1>1, <2>1, <3>1 DEF SubsInv, ClosedIsUnsubscribed
  <2>2. CASE Agents # {}
    BY <1>1, <1>2, <2>2 DEF SubsInv, ClosedIsUnsubscribed
  <2>3. QED
    BY <2>1, <2>2

LEMMA SubsStep == SubsInv /\ [Next]_vars => SubsInv'
<1> SUFFICES ASSUME SubsInv, [Next]_vars PROVE SubsInv'
  OBVIOUS
<1>1. ASSUME NEW c \in Conns, Open(c) \/ Hello(c) \/ Close(c) PROVE SubsInv'
  <2>1. CASE Open(c) \/ Hello(c)
    <3>1. subs' = subs /\ \E x \in {"open", "ready"} : sock' = [sock EXCEPT ![c] = x]
      BY <2>1 DEF Open, Hello, hub
    <3>2. sock[c] \in {"down", "open"}
      BY <2>1 DEF Open, Hello
    <3>3. QED
      BY <3>1, <3>2 DEF SubsInv, ClosedIsUnsubscribed
  <2>2. CASE Close(c)
    <3>1. [a \in Agents |-> 0] \in [Agents -> Nat]
      OBVIOUS
    <3>2. /\ sock' = [sock EXCEPT ![c] = "closed"]
          /\ subs' = [subs EXCEPT ![c] = [a \in Agents |-> 0]]
      BY <2>2 DEF Close
    <3>3. subs' \in [Conns -> [Agents -> Nat]]
      BY <3>1, <3>2 DEF SubsInv
    <3>4. QED
      BY <3>2, <3>3 DEF SubsInv, ClosedIsUnsubscribed
  <2>3. QED
    BY <1>1, <2>1, <2>2
<1>2. ASSUME NEW c \in Conns, NEW a \in Agents, Subscribe(c, a) \/ Unsubscribe(c, a) PROVE SubsInv'
  <2>1. sock[c] = "ready" /\ sock' = sock
    BY <1>2 DEF Subscribe, Unsubscribe, Listening
  <2>2. PICK n \in Nat : subs' = [subs EXCEPT ![c] = [subs[c] EXCEPT ![a] = n]]
    <3>1. subs[c][a] \in Nat
      BY DEF SubsInv
    <3>2. subs' = [subs EXCEPT ![c] = [subs[c] EXCEPT ![a] = IF subs[c][a] = 0 THEN 1 ELSE subs[c][a]]]
            \/ subs' = subs \/ subs' = [subs EXCEPT ![c] = [subs[c] EXCEPT ![a] = 0]]
      BY <1>2 DEF Subscribe, Unsubscribe
    <3>3. subs = [subs EXCEPT ![c] = [subs[c] EXCEPT ![a] = subs[c][a]]]
      BY DEF SubsInv
    <3>4. QED
      BY <3>1, <3>2, <3>3
  <2>3. QED
    BY <2>1, <2>2 DEF SubsInv, ClosedIsUnsubscribed
<1>3. ASSUME NEW c \in Conns, NEW k, NEW a, NEW t, Start(c, k, a, t) PROVE SubsInv'
  BY <1>3 DEF Start, Listening, hub, SubsInv, ClosedIsUnsubscribed
<1>4. ASSUME NEW k \in Cmds, Respond(k) PROVE SubsInv'
  BY <1>4 DEF Respond, hub, SubsInv, ClosedIsUnsubscribed
<1>5. ASSUME NEW i, ApplyMid(i) \/ AnnounceHint(i) PROVE SubsInv'
  BY <1>5, FanOutStep DEF ApplyMid, AnnounceHint, Announce
<1>6. ASSUME NEW k \in Cmds, SyncAnnounce(k) PROVE SubsInv'
  BY <1>6, FanOutStep DEF SyncAnnounce, Announce
<1>7. ASSUME UNCHANGED <<sock, subs>> PROVE SubsInv'
  BY <1>7 DEF SubsInv, ClosedIsUnsubscribed
<1>8. QED
  BY <1>1, <1>2, <1>3, <1>4, <1>5, <1>6, <1>7
  DEF Next, ClientStep, CmdStep, HintStep, Receive, MidHint, Commit, Fail, Return, SyncEmit, LosePost,
      ApplyFinished, Forget, hub, vars

\* unregister_connection: whatever hints and commands are under way, a connection
\* that closed, or never said hello, has no subscription fan-out would stamp.
THEOREM ClosedAreUnsubscribed == Spec => []ClosedIsUnsubscribed
<1>1. Init => SubsInv
  BY DEF Init, SubsInv, ClosedIsUnsubscribed
<1>2. SubsInv => ClosedIsUnsubscribed
  BY DEF SubsInv
<1>3. QED
  BY <1>1, <1>2, SubsStep, PTL DEF Spec
-----------------------------------------------------------------------------
(* Announcements *)

FanPost(k) == [cmd |-> k, what |-> "fanout"]

\* What answers a prompt of the sync path without an announcement.
PassedOver(k) == Duplicate(k) \/ cmd[k].text = Blank

Rival(k) ==
  \E j \in Cmds : cmd[j].agent = cmd[k].agent /\ cmd[j].text # cmd[k].text /\ Announced(j)

Twice(s, e) == \E m, n \in 1 .. Len(s) : m # n /\ s[m] = e /\ s[n] = e

\* The turn went past the dedupe twice.
Doubled(k) ==
  \/ Twice(emitted, k) \/ Twice(posts, FanPost(k))
  \/ k \in Range(emitted) /\ (cmd[k].at = "fanout" \/ FanPost(k) \in Range(posts))
  \/ cmd[k].at = "fanout" /\ FanPost(k) \in Range(posts)

Post == [cmd : Cmds, what : {"mid", "finished", "fanout"}]

Command == [at : {"new", "running", "committed", "emit", "fanout",
                  "respond", "refuse", "done", "failed"},
            conn : Conns \cup {Nothing}, agent : Agents \cup {Nothing},
            text : Texts \cup {Nothing}, hinted : BOOLEAN]

\* Only commands that were sent have an agent, a reply and hints.
CmdInv ==
  /\ cmd \in [Cmds -> Command]
  /\ posts \in Seq(Post)
  /\ dedupe \in [Agents -> Texts \cup {Nothing}]
  /\ emitted \in Seq(Cmds)
  /\ \A k \in Cmds : cmd[k].at # "new" => cmd[k].agent \in Agents /\ cmd[k].text \in Texts
  /\ \A p \in Range(posts) : cmd[p.cmd].at # "new"
  /\ \A k \in Range(emitted) : cmd[k].at # "new"

\* What the dedupe remembers of an agent went past it.
WindowInv ==
  \A a \in Agents :
    dedupe[a] # Nothing =>
      \E j \in Cmds : cmd[j].agent = a /\ cmd[j].text = dedupe[a] /\ Announced(j)

\* Within two seconds a preview is forgotten for another one only, and a turn
\* passes the dedupe again only after that.
RepeatInv == ~lapse =>
  \A k \in Cmds :
    /\ Announced(k) => dedupe[cmd[k].agent] = cmd[k].text \/ Rival(k)
    /\ Doubled(k) => Rival(k)

AnnounceInv == CmdInv /\ WindowInv /\ RepeatInv /\ AnsweredIsAnnounced

\* A sequence without its i-th element.
LEMMA Removed ==
  ASSUME NEW S, NEW s \in Seq(S), NEW i \in 1 .. Len(s)
  PROVE  /\ RemoveAt(s, i) \in Seq(S)
         /\ Len(RemoveAt(s, i)) = Len(s) - 1
         /\ \A j \in 1 .. Len(s) - 1 : RemoveAt(s, i)[j] = s[IF j < i THEN j ELSE j + 1]
<1> DEFINE n == Len(s)
           t == SubSeq(s, 1, i - 1)
           u == SubSeq(s, i + 1, n)
<1>1. n \in Nat /\ i \in Int /\ 1 <= i /\ i <= n
  BY LenProperties
<1>2. \A j \in 1 .. n : s[j] \in S
  BY ElementOfSeq
<1>3. t \in Seq(S) /\ Len(t) = i - 1 /\ \A j \in 1 .. i - 1 : t[j] = s[j]
  BY <1>1, <1>2, SubSeqProperties
<1>4. u \in Seq(S) /\ Len(u) = n - i /\ \A j \in 1 .. n - i : u[j] = s[i + j]
  <2>1. \A j \in i + 1 .. n : s[j] \in S
    BY <1>1, <1>2
  <2>2. u \in Seq(S) /\ Len(u) = (IF i + 1 <= n THEN n - (i + 1) + 1 ELSE 0)
        /\ \A j \in 1 .. n - (i + 1) + 1 : u[j] = s[(i + 1) + j - 1]
    BY <1>1, <2>1, SubSeqProperties
  <2>3. Len(u) = n - i
    BY <1>1, <2>2
  <2>4. ASSUME NEW j \in 1 .. n - i PROVE u[j] = s[i + j]
    <3>1. j \in 1 .. n - (i + 1) + 1 /\ (i + 1) + j - 1 = i + j
      BY <1>1
    <3>2. u[j] = s[(i + 1) + j - 1]
      BY <2>2, <3>1
    <3>3. QED
      BY <3>1, <3>2
  <2>5. QED
    BY <2>2, <2>3, <2>4
<1> HIDE DEF t, u, n
<1>5. t \o u \in Seq(S) /\ Len(t \o u) = n - 1
      /\ \A j \in 1 .. n - 1 : (t \o u)[j] = IF j <= i - 1 THEN t[j] ELSE u[j - (i - 1)]
  <2>1. /\ t \o u \in Seq(S) /\ Len(t \o u) = Len(t) + Len(u)
        /\ \A j \in 1 .. Len(t) + Len(u) : (t \o u)[j] = IF j <= Len(t) THEN t[j] ELSE u[j - Len(t)]
    BY <1>3, <1>4, ConcatProperties
  <2>2. Len(t) + Len(u) = n - 1
    BY <1>1, <1>3, <1>4
  <2>3. QED
    BY <1>3, <2>1, <2>2
<1>6. \A j \in 1 .. n - 1 : (t \o u)[j] = s[IF j < i THEN j ELSE j + 1]
  <2> SUFFICES ASSUME NEW j \in 1 .. n - 1
               PROVE  (t \o u)[j] = s[IF j < i THEN j ELSE j + 1]
    OBVIOUS
  <2>1. CASE j < i
    BY <1>1, <1>3, <1>5, <2>1
  <2>2. CASE ~(j < i)
    <3>1. j - (i - 1) \in 1 .. n - i /\ i + (j - (i - 1)) = j + 1
      BY <1>1, <2>2
    <3>2. u[j - (i - 1)] = s[j + 1]
      BY <1>4, <3>1
    <3>3. QED
      BY <1>1, <1>5, <2>2, <3>2
  <2>3. QED
    BY <2>1, <2>2
<1>7. QED
  BY <1>5, <1>6 DEF RemoveAt, t, u, n

\* What a sequence without its i-th element holds.
LEMMA RemovedRange ==
  ASSUME NEW S, NEW s \in Seq(S), NEW i \in 1 .. Len(s), NEW e
  PROVE  /\ e \in Range(RemoveAt(s, i)) => e \in Range(s)
         /\ e \in Range(s) /\ e # s[i] => e \in Range(RemoveAt(s, i))
         /\ e \in Range(RemoveAt(s, i)) /\ e = s[i] => Twice(s, e)
         /\ Twice(RemoveAt(s, i), e) => Twice(s, e)
<1>1. PICK t \in Seq(S) : /\ t = RemoveAt(s, i) /\ Len(t) = Len(s) - 1
                          /\ \A j \in 1 .. Len(s) - 1 : t[j] = s[IF j < i THEN j ELSE j + 1]
  BY Removed
<1>2. Len(s) \in Nat /\ Len(t) \in Nat /\ i \in Int /\ 1 <= i /\ i <= Len(s)
  BY LenProperties
<1>3. Range(s) = {s[j] : j \in 1 .. Len(s)} /\ Range(t) = {t[j] : j \in 1 .. Len(t)}
  BY RangeEquality
<1>4. e \in Range(t) => \E j \in 1 .. Len(s) : j # i /\ e = s[j]
  <2>1. ASSUME NEW j \in 1 .. Len(t), e = t[j] PROVE \E m \in 1 .. Len(s) : m # i /\ e = s[m]
    <3>1. CASE j < i
      BY <1>1, <1>2, <2>1, <3>1
    <3>2. CASE ~(j < i)
      BY <1>1, <1>2, <2>1, <3>2
    <3>3. QED
      BY <3>1, <3>2
  <2>2. QED
    BY <1>3, <2>1
<1>5. \A j \in 1 .. Len(s) : j # i => s[j] \in Range(t)
  <2>1. SUFFICES ASSUME NEW j \in 1 .. Len(s), j # i PROVE s[j] \in Range(t)
    OBVIOUS
  <2>2. CASE j < i
    BY <1>1, <1>2, <1>3, <2>2
  <2>3. CASE j > i
    <3>1. j - 1 \in 1 .. Len(t) /\ ~(j - 1 < i) /\ (j - 1) + 1 = j
      BY <1>1, <1>2, <2>3
    <3>2. t[j - 1] = s[j]
      BY <1>1, <3>1
    <3>3. QED
      BY <1>3, <3>1, <3>2
  <2>4. QED
    BY <1>2, <2>1, <2>2, <2>3
<1>6. Twice(t, e) => Twice(s, e)
  <2>1. SUFFICES ASSUME NEW m \in 1 .. Len(t), NEW n \in 1 .. Len(t), m # n, t[m] = e, t[n] = e
                 PROVE  Twice(s, e)
    BY DEF Twice
  <2> DEFINE p(j) == IF j < i THEN j ELSE j + 1
  <2>2. p(m) \in 1 .. Len(s) /\ p(n) \in 1 .. Len(s) /\ p(m) # p(n)
    BY <1>1, <1>2, <2>1
  <2>3. s[p(m)] = e /\ s[p(n)] = e
    BY <1>1, <2>1
  <2>4. QED
    BY <2>2, <2>3 DEF Twice
<1>7. QED
  BY <1>1, <1>2, <1>3, <1>4, <1>5, <1>6 DEF Twice

\* What is appended is in the sequence once more.
LEMMA AppendedRange ==
  ASSUME NEW S, NEW s \in Seq(S), NEW x \in S, NEW e
  PROVE  /\ Append(s, x) \in Seq(S)
         /\ Range(Append(s, x)) = Range(s) \cup {x}
         /\ Twice(Append(s, x), e) => Twice(s, e) \/ (e = x /\ e \in Range(s))
<1>1. /\ Append(s, x) \in Seq(S) /\ Len(Append(s, x)) = Len(s) + 1 /\ Len(s) \in Nat
      /\ \A j \in 1 .. Len(s) : Append(s, x)[j] = s[j]
      /\ Append(s, x)[Len(s) + 1] = x
  BY AppendProperties, LenProperties
<1> DEFINE t == Append(s, x)
<1> HIDE DEF t
<1>2. /\ t \in Seq(S) /\ Len(t) = Len(s) + 1 /\ Len(s) \in Nat
      /\ \A j \in 1 .. Len(s) : t[j] = s[j]
      /\ t[Len(s) + 1] = x
  BY <1>1 DEF t
<1>3. Range(s) = {s[j] : j \in 1 .. Len(s)} /\ Range(t) = {t[j] : j \in 1 .. Len(t)}
  BY <1>2, RangeEquality
<1>4. 1 .. Len(t) = 1 .. Len(s) \cup {Len(s) + 1}
  BY <1>2
<1>5. Range(t) = Range(s) \cup {x}
  BY <1>2, <1>3, <1>4
<1>6. Twice(t, e) => Twice(s, e) \/ (e = x /\ e \in Range(s))
  BY <1>2, <1>3, <1>4 DEF Twice
<1>7. QED
  BY <1>2, <1>5, <1>6 DEF t

\* One element is put in the place of another.
LEMMA ReplacedRange ==
  ASSUME NEW S, NEW s \in Seq(S), NEW i \in 1 .. Len(s), NEW x \in S, NEW e
  PROVE  /\ [s EXCEPT ![i] = x] \in Seq(S)
         /\ x \in Range([s EXCEPT ![i] = x])
         /\ e \in Range([s EXCEPT ![i] = x]) => e \in Range(s) \/ e = x
         /\ e \in Range(s) /\ e # s[i] => e \in Range([s EXCEPT ![i] = x])
         /\ Twice([s EXCEPT ![i] = x], e) => Twice(s, e) \/ (e = x /\ e \in Range(s))
<1>1. PICK t \in Seq(S) : /\ t = [s EXCEPT ![i] = x] /\ Len(t) = Len(s) /\ t[i] = x
                          /\ \A j \in 1 .. Len(s) : j # i => t[j] = s[j]
  <2>1. [s EXCEPT ![i] = x] \in Seq(S) /\ Len([s EXCEPT ![i] = x]) = Len(s)
    BY ExceptSeq
  <2>2. QED
    BY <2>1, LenProperties
<1>2. Len(s) \in Nat
  BY LenProperties
<1>3. Range(s) = {s[j] : j \in 1 .. Len(s)} /\ Range(t) = {t[j] : j \in 1 .. Len(s)}
  <2>1. Range(s) = {s[j] : j \in 1 .. Len(s)} /\ Range(t) = {t[j] : j \in 1 .. Len(t)}
    BY RangeEquality
  <2>2. QED
    BY <1>1, <2>1
<1>4. /\ x \in Range(t)
      /\ e \in Range(t) => e \in Range(s) \/ e = x
      /\ e \in Range(s) /\ e # s[i] => e \in Range(t)
  BY <1>1, <1>3
<1>5. Twice(t, e) => Twice(s, e) \/ (e = x /\ e \in Range(s))
  BY <1>1, <1>3 DEF Twice
<1>6. QED
  BY <1>1, <1>4, <1>5

\* A hint is one of a command that was sent.
LEMMA PostOf ==
  ASSUME CmdInv, NEW i \in DOMAIN posts
  PROVE  /\ i \in 1 .. Len(posts) /\ posts[i] \in Range(posts) /\ posts[i] \in Post
         /\ posts[i].cmd \in Cmds /\ cmd[posts[i].cmd].at # "new"
<1>1. posts \in Seq(Post) /\ \A p \in Range(posts) : cmd[p.cmd].at # "new"
  BY DEF CmdInv
<1>2. i \in 1 .. Len(posts)
  BY <1>1, LenProperties
<1>3. posts[i] \in Range(posts) /\ posts[i] \in Post
  BY <1>1, <1>2, RangeEquality, ElementOfSeq
<1>4. QED
  BY <1>1, <1>2, <1>3 DEF Post

\* The hub works on hints that are there.
LEMMA Picked == \A i \in Pickable : i \in DOMAIN posts
BY DEF Pickable

\* A command is sent once, and then only changes its stage.
CmdKept ==
  /\ cmd' \in [Cmds -> Command]
  /\ \A k \in Cmds : cmd[k].at # "new" => /\ cmd'[k].at # "new"
                                          /\ cmd'[k].agent = cmd[k].agent
                                          /\ cmd'[k].text = cmd[k].text
  /\ \A k \in Cmds : cmd'[k].at # "new" => cmd'[k].agent \in Agents /\ cmd'[k].text \in Texts

LEMMA CmdMoves == CmdInv /\ [Next]_vars => CmdKept
<1> SUFFICES ASSUME CmdInv, [Next]_vars PROVE CmdKept
  OBVIOUS
<1> DEFINE Stages == {"running", "committed", "emit", "fanout", "respond", "refuse", "done", "failed"}
<1>1. \/ cmd' = cmd
      \/ \E k \in Cmds, c \in Conns, a \in Agents, t \in Texts, s \in {"refuse", "running"} :
           /\ cmd[k].at = "new"
           /\ cmd' = [cmd EXCEPT ![k] = [at |-> s, conn |-> c, agent |-> a, text |-> t,
                                         hinted |-> FALSE]]
      \/ \E k \in Cmds : cmd[k].at # "new" /\ cmd' = [cmd EXCEPT ![k].hinted = TRUE]
      \/ \E k \in Cmds, s \in Stages : cmd[k].at # "new" /\ cmd' = [cmd EXCEPT ![k].at = s]
  <2>1. ASSUME NEW c \in Conns, ClientStep(c) \/ Receive(c) PROVE <1>1
    <3>1. ASSUME NEW k \in Cmds, NEW a \in Agents, NEW t \in Texts, Start(c, k, a, t) PROVE <1>1
      BY <3>1 DEF Start
    <3>2. QED
      BY <2>1, <3>1 DEF ClientStep, Open, Hello, Close, Subscribe, Unsubscribe, Receive
  <2>2. ASSUME NEW k \in Cmds, MidHint(k) PROVE <1>1
    BY <2>2 DEF MidHint
  <2>3. ASSUME NEW k \in Cmds, CmdStep(k) PROVE <1>1
    BY <2>3 DEF CmdStep, Commit, Fail, Return, SyncEmit, SyncAnnounce, Respond, Goto
  <2>4. ASSUME (\E i \in DOMAIN posts : LosePost(i)) \/ HintStep \/ \E a \in Agents : Forget(a)
        PROVE <1>1
    BY <2>4 DEF LosePost, HintStep, ApplyMid, ApplyFinished, AnnounceHint, Forget
  <2>5. ASSUME UNCHANGED vars PROVE <1>1
    BY <2>5 DEF vars
  <2>6. QED
    BY <2>1, <2>2, <2>3, <2>4, <2>5 DEF Next
<1>2. /\ cmd \in [Cmds -> Command]
      /\ \A k \in Cmds : cmd[k].at # "new" => cmd[k].agent \in Agents /\ cmd[k].text \in Texts
  BY DEF CmdInv
<1>3. CASE cmd' = cmd
  BY <1>2, <1>3 DEF CmdKept
<1>4. ASSUME NEW k \in Cmds, NEW s \in Command, cmd' = [cmd EXCEPT ![k] = s], s.at # "new",
             s.agent \in Agents, s.text \in Texts,
             cmd[k].at # "new" => s.agent = cmd[k].agent /\ s.text = cmd[k].text
      PROVE  CmdKept
  <2>1. cmd' \in [Cmds -> Command]
    BY <1>2, <1>4
  <2>2. \A j \in Cmds : cmd'[j] = IF j = k THEN s ELSE cmd[j]
    BY <1>2, <1>4
  <2>3. QED
    BY <1>2, <1>4, <2>1, <2>2 DEF CmdKept
<1>5. ASSUME NEW k \in Cmds, NEW c \in Conns, NEW a \in Agents, NEW t \in Texts,
             NEW s \in {"refuse", "running"}, cmd[k].at = "new",
             cmd' = [cmd EXCEPT ![k] = [at |-> s, conn |-> c, agent |-> a, text |-> t, hinted |-> FALSE]]
      PROVE  CmdKept
  <2> DEFINE r == [at |-> s, conn |-> c, agent |-> a, text |-> t, hinted |-> FALSE]
  <2>1. r \in Command /\ r.at # "new" /\ r.agent \in Agents /\ r.text \in Texts
    BY DEF Command
  <2>2. QED
    BY <1>4, <1>5, <2>1
<1>6. ASSUME NEW k \in Cmds, cmd[k].at # "new", cmd' = [cmd EXCEPT ![k].hinted = TRUE]
      PROVE  CmdKept
  <2> DEFINE r == [cmd[k] EXCEPT !.hinted = TRUE]
  <2>1. /\ r \in Command /\ r.at # "new" /\ r.agent \in Agents /\ r.text \in Texts
        /\ r.agent = cmd[k].agent /\ r.text = cmd[k].text
    BY <1>2, <1>6 DEF Command
  <2>2. cmd' = [cmd EXCEPT ![k] = r]
    BY <1>6
  <2> HIDE DEF r
  <2>3. QED
    BY <1>4, <2>1, <2>2
<1>7. ASSUME NEW k \in Cmds, NEW s \in Stages, cmd[k].at # "new", cmd' = [cmd EXCEPT ![k].at = s]
      PROVE  CmdKept
  <2> DEFINE r == [cmd[k] EXCEPT !.at = s]
  <2>1. /\ r \in Command /\ r.at # "new" /\ r.agent \in Agents /\ r.text \in Texts
        /\ r.agent = cmd[k].agent /\ r.text = cmd[k].text
    BY <1>2, <1>7 DEF Command
  <2>2. cmd' = [cmd EXCEPT ![k] = r]
    BY <1>7
  <2> HIDE DEF r
  <2>3. QED
    BY <1>4, <2>1, <2>2
<1>8. QED
  BY <1>1, <1>3, <1>5, <1>6, <1>7

\* Hints, the dedupe and the announcements only name commands that were sent.
LEMMA CmdInvStep == CmdInv /\ [Next]_vars => CmdInv'
<1> SUFFICES ASSUME CmdInv, [Next]_vars PROVE CmdInv'
  OBVIOUS
<1>1. /\ posts \in Seq(Post) /\ emitted \in Seq(Cmds)
      /\ dedupe \in [Agents -> Texts \cup {Nothing}]
      /\ \A k \in Cmds : cmd[k].at # "new" => cmd[k].agent \in Agents /\ cmd[k].text \in Texts
      /\ \A p \in Range(posts) : cmd[p.cmd].at # "new" /\ p.cmd \in Cmds
      /\ \A k \in Range(emitted) : cmd[k].at # "new" /\ k \in Cmds
  <2>1. posts \in Seq(Post) /\ emitted \in Seq(Cmds)
    BY DEF CmdInv
  <2>2. Range(posts) \subseteq Post /\ Range(emitted) \subseteq Cmds
    BY <2>1, RangeOfSeq
  <2>3. \A p \in Post : p.cmd \in Cmds
    BY DEF Post
  <2>4. QED
    BY <2>2, <2>3 DEF CmdInv
<1>2. CmdKept
  BY CmdMoves
<1>3. /\ posts' \in Seq(Post)
      /\ \A p \in Range(posts') : cmd[p.cmd].at # "new" /\ p.cmd \in Cmds
  <2>1. CASE posts' = posts
    BY <1>1, <2>1
  <2>2. ASSUME NEW k \in Cmds, NEW w \in {"mid", "finished"}, cmd[k].at # "new",
               posts' = Append(posts, [cmd |-> k, what |-> w])
        PROVE  <1>3
    <3>1. [cmd |-> k, what |-> w] \in Post
      BY DEF Post
    <3>2. /\ posts' \in Seq(Post)
          /\ Range(posts') = Range(posts) \cup {[cmd |-> k, what |-> w]}
      BY <1>1, <2>2, <3>1, AppendedRange
    <3>3. QED
      BY <1>1, <2>2, <3>2
  <2>3. ASSUME NEW i \in DOMAIN posts, posts' = RemoveAt(posts, i) PROVE <1>3
    <3>1. i \in 1 .. Len(posts)
      BY PostOf
    <3>2. posts' \in Seq(Post)
      BY <1>1, <2>3, <3>1, Removed
    <3>3. \A p \in Range(posts') : p \in Range(posts)
      BY <1>1, <2>3, <3>1, RemovedRange
    <3>4. QED
      BY <1>1, <3>2, <3>3
  <2>4. ASSUME NEW i \in DOMAIN posts, posts' = [posts EXCEPT ![i].what = "fanout"] PROVE <1>3
    <3>1. i \in 1 .. Len(posts) /\ posts[i] \in Range(posts) /\ posts[i] \in Post
      BY PostOf
    <3> DEFINE r == [posts[i] EXCEPT !.what = "fanout"]
    <3>2. r \in Post /\ r.cmd = posts[i].cmd
      BY <3>1 DEF Post
    <3>3. posts' = [posts EXCEPT ![i] = r]
      BY <2>4
    <3> HIDE DEF r
    <3>4. posts' \in Seq(Post) /\ \A p \in Range(posts') : p \in Range(posts) \/ p = r
      BY <1>1, <3>1, <3>2, <3>3, ReplacedRange
    <3>5. QED
      BY <1>1, <3>1, <3>2, <3>4
  <2>5. QED
    BY <2>1, <2>2, <2>3, <2>4, Picked
    DEF Next, ClientStep, CmdStep, HintStep, Receive, Open, Hello, Close, Subscribe, Unsubscribe, Start,
        MidHint, Commit, Fail, Return, SyncEmit, SyncAnnounce, Respond, LosePost, ApplyMid,
        ApplyFinished, AnnounceHint, Forget, vars
<1>4. /\ emitted' \in Seq(Cmds)
      /\ \A k \in Range(emitted') : cmd[k].at # "new" /\ k \in Cmds
  <2>1. CASE emitted' = emitted
    BY <1>1, <2>1
  <2>2. ASSUME NEW k \in Cmds, cmd[k].at # "new", emitted' = Append(emitted, k) PROVE <1>4
    <3>1. emitted' \in Seq(Cmds) /\ Range(emitted') = Range(emitted) \cup {k}
      BY <1>1, <2>2, AppendedRange
    <3>2. QED
      BY <1>1, <2>2, <3>1
  <2>3. ASSUME NEW i \in DOMAIN posts, AnnounceHint(i) PROVE <1>4
    BY <2>2, <2>3, PostOf DEF AnnounceHint, Announce
  <2>4. QED
    BY <2>1, <2>2, <2>3, Picked
    DEF Next, ClientStep, CmdStep, HintStep, Receive, Open, Hello, Close, Subscribe, Unsubscribe, Start,
        MidHint, Commit, Fail, Return, SyncEmit, SyncAnnounce, Announce, Respond, LosePost, ApplyMid,
        ApplyFinished, Forget, hub, vars
<1>5. dedupe' \in [Agents -> Texts \cup {Nothing}]
  <2>1. CASE dedupe' = dedupe
    BY <1>1, <2>1
  <2>2. ASSUME NEW a, NEW t \in Texts \cup {Nothing}, dedupe' = [dedupe EXCEPT ![a] = t] PROVE <1>5
    BY <1>1, <2>2
  <2>3. ASSUME NEW i \in DOMAIN posts, ApplyFinished(i) PROVE <1>5
    BY <1>1, <2>1, <2>2, <2>3, PostOf DEF ApplyFinished, Remember
  <2>4. QED
    BY <1>1, <2>1, <2>2, <2>3, Picked
    DEF Next, ClientStep, CmdStep, HintStep, Receive, Open, Hello, Close, Subscribe, Unsubscribe, Start,
        MidHint, Commit, Fail, Return, SyncEmit, Remember, SyncAnnounce, Respond, LosePost, ApplyMid,
        AnnounceHint, Forget, hub, vars
<1>6. QED
  BY <1>2, <1>3, <1>4, <1>5 DEF CmdInv, CmdKept
-----------------------------------------------------------------------------
(* The dedupe *)

\* Only a command that was sent is announced.
LEMMA AnnouncedIsSent ==
  ASSUME CmdInv, NEW k \in Cmds, Announced(k)
  PROVE  cmd[k].at # "new" /\ cmd[k].agent \in Agents /\ cmd[k].text \in Texts
<1>1. CASE k \in Range(emitted) \/ cmd[k].at = "fanout"
  BY <1>1 DEF CmdInv
<1>2. CASE FanPost(k) \in Range(posts)
  <2>1. cmd[FanPost(k).cmd].at # "new"
    BY <1>2 DEF CmdInv
  <2>2. QED
    BY <2>1 DEF CmdInv, FanPost
<1>3. QED
  BY <1>1, <1>2 DEF Announced, FanPost

\* What a step that announces nothing less leaves true.
LEMMA StaysAnnounced ==
  ASSUME AnnounceInv, CmdKept, bridge' = bridge,
         \A k \in Cmds : Announced(k) => Announced(k)',
         \A k \in Cmds : cmd'[k].at \in {"respond", "done"} /\ ~bridge =>
           \/ cmd[k].at \in {"respond", "done"}
           \/ cmd[k].at # "new" /\ (Announced(k) \/ PassedOver(k))
  PROVE  /\ \A k \in Cmds : Announced(k) /\ Rival(k) => Rival(k)'
         /\ dedupe' = dedupe => WindowInv'
         /\ AnsweredIsAnnounced'
<1>1. \A k \in Cmds : cmd[k].at # "new" =>
        cmd'[k].agent = cmd[k].agent /\ cmd'[k].text = cmd[k].text
  BY DEF CmdKept
<1>2. ASSUME NEW k \in Cmds, Announced(k)
      PROVE  /\ Announced(k)' /\ cmd[k].at # "new"
             /\ cmd'[k].agent = cmd[k].agent /\ cmd'[k].text = cmd[k].text
  BY <1>1, <1>2, AnnouncedIsSent DEF AnnounceInv
<1>3. ASSUME NEW k \in Cmds, Announced(k), Rival(k) PROVE Rival(k)'
  <2>1. PICK j \in Cmds : cmd[j].agent = cmd[k].agent /\ cmd[j].text # cmd[k].text /\ Announced(j)
    BY <1>3 DEF Rival
  <2>2. cmd'[j].agent = cmd'[k].agent /\ cmd'[j].text # cmd'[k].text /\ Announced(j)'
    BY <1>2, <1>3, <2>1
  <2>3. QED
    BY <2>2 DEF Rival
<1>4. ASSUME dedupe' = dedupe PROVE WindowInv'
  <2> SUFFICES ASSUME NEW a \in Agents, dedupe[a] # Nothing
               PROVE  \E j \in Cmds : cmd'[j].agent = a /\ cmd'[j].text = dedupe[a] /\ Announced(j)'
    BY <1>4 DEF WindowInv
  <2>1. PICK j \in Cmds : cmd[j].agent = a /\ cmd[j].text = dedupe[a] /\ Announced(j)
    BY DEF AnnounceInv, WindowInv
  <2>2. QED
    BY <1>2, <2>1
<1>5. AnsweredIsAnnounced'
  <2> SUFFICES ASSUME NEW k \in Cmds, cmd'[k].at \in {"respond", "done"}, ~bridge', cmd'[k].text # Blank
               PROVE  \E j \in Cmds : /\ cmd'[j].agent = cmd'[k].agent
                                      /\ cmd'[j].text = cmd'[k].text /\ Announced(j)'
    BY DEF AnsweredIsAnnounced
  <2>1. \/ cmd[k].at \in {"respond", "done"}
        \/ cmd[k].at # "new" /\ (Announced(k) \/ PassedOver(k))
    OBVIOUS
  <2>2. cmd'[k].agent = cmd[k].agent /\ cmd'[k].text = cmd[k].text /\ cmd[k].at # "new"
    BY <1>1, <2>1
  <2>3. SUFFICES \E j \in Cmds : /\ cmd[j].agent = cmd[k].agent
                                 /\ cmd[j].text = cmd[k].text /\ Announced(j)
    BY <1>2, <2>2
  <2>4. CASE cmd[k].at \in {"respond", "done"}
    BY <2>2, <2>4 DEF AnnounceInv, AnsweredIsAnnounced
  <2>5. CASE Announced(k)
    BY <2>5
  <2>6. CASE PassedOver(k)
    <3>1. cmd[k].agent \in Agents /\ cmd[k].text \in Texts
      BY <2>2 DEF AnnounceInv, CmdInv
    <3>2. dedupe[cmd[k].agent] = cmd[k].text /\ cmd[k].text # Nothing
      BY <2>2, <2>6, <3>1, NothingAssumption DEF Duplicate, PassedOver
    <3>3. QED
      BY <3>1, <3>2 DEF AnnounceInv, WindowInv
  <2>7. QED
    BY <2>1, <2>4, <2>5, <2>6
<1>6. QED
  BY <1>3, <1>4, <1>5

\* A step by which nothing goes past the dedupe.
LEMMA NothingPasses ==
  ASSUME AnnounceInv, CmdKept, bridge' = bridge, lapse' = lapse, dedupe' = dedupe,
         \A k \in Cmds : Announced(k)' <=> Announced(k),
         \A k \in Cmds : Doubled(k)' => Doubled(k),
         \A k \in Cmds : cmd'[k].at \in {"respond", "done"} /\ ~bridge =>
           \/ cmd[k].at \in {"respond", "done"}
           \/ cmd[k].at # "new" /\ (Announced(k) \/ PassedOver(k))
  PROVE  WindowInv' /\ RepeatInv' /\ AnsweredIsAnnounced'
<1>1. /\ \A k \in Cmds : Announced(k) /\ Rival(k) => Rival(k)'
      /\ WindowInv' /\ AnsweredIsAnnounced'
  BY StaysAnnounced
<1>2. RepeatInv'
  <2>1. SUFFICES ASSUME ~lapse, NEW k \in Cmds
                 PROVE  /\ Announced(k)' => dedupe'[cmd'[k].agent] = cmd'[k].text \/ Rival(k)'
                        /\ Doubled(k)' => Rival(k)'
    BY DEF RepeatInv
  <2>2. /\ Announced(k) => dedupe[cmd[k].agent] = cmd[k].text \/ Rival(k)
        /\ Doubled(k) => Rival(k)
    BY <2>1 DEF AnnounceInv, RepeatInv
  <2>3. Announced(k) => cmd'[k].agent = cmd[k].agent /\ cmd'[k].text = cmd[k].text
    BY AnnouncedIsSent DEF AnnounceInv, CmdKept
  <2>4. Announced(k)' => dedupe'[cmd'[k].agent] = cmd'[k].text \/ Rival(k)'
    BY <1>1, <2>2, <2>3
  <2>5. Doubled(k) => Announced(k)
    <3>1. Twice(emitted, k) => k \in Range(emitted)
      BY RangeEquality DEF AnnounceInv, CmdInv, Twice
    <3>2. Twice(posts, FanPost(k)) => FanPost(k) \in Range(posts)
      BY RangeEquality DEF AnnounceInv, CmdInv, Twice
    <3>3. QED
      BY <3>1, <3>2 DEF Doubled, Announced, FanPost
  <2>6. Doubled(k)' => Rival(k)'
    BY <1>1, <2>2, <2>5
  <2>7. QED
    BY <2>4, <2>6
<1>3. QED
  BY <1>1, <1>2

\* One turn goes past the dedupe, which remembers its preview instead of the last one.
LEMMA OnePasses ==
  ASSUME AnnounceInv, CmdKept, bridge' = bridge, lapse' = lapse,
         NEW k \in Cmds, cmd[k].at # "new", ~Duplicate(k), Remember(k),
         \A j \in Cmds : Announced(j) => Announced(j)',
         \A j \in Cmds : Announced(j)' => Announced(j) \/ j = k,
         Announced(k)',
         \A j \in Cmds : Doubled(j)' => Doubled(j) \/ (j = k /\ Announced(k)),
         \A j \in Cmds : cmd'[j].at \in {"respond", "done"} /\ ~bridge =>
           \/ cmd[j].at \in {"respond", "done"}
           \/ cmd[j].at # "new" /\ (Announced(j) \/ PassedOver(j))
  PROVE  WindowInv' /\ RepeatInv' /\ AnsweredIsAnnounced'
<1>1. /\ \A j \in Cmds : Announced(j) /\ Rival(j) => Rival(j)'
      /\ AnsweredIsAnnounced'
  BY StaysAnnounced
<1>2. \A j \in Cmds : cmd[j].at # "new" =>
        cmd'[j].agent = cmd[j].agent /\ cmd'[j].text = cmd[j].text
  BY DEF CmdKept
<1>3. /\ cmd[k].agent \in Agents /\ cmd[k].text \in Texts
      /\ dedupe \in [Agents -> Texts \cup {Nothing}]
  BY DEF AnnounceInv, CmdInv
<1>4. dedupe' = [dedupe EXCEPT ![cmd[k].agent] = cmd[k].text]
  BY DEF Remember
<1>5. \A j \in Cmds : Announced(j) => cmd[j].at # "new" /\ cmd[j].agent \in Agents
  BY AnnouncedIsSent DEF AnnounceInv
<1>6. WindowInv'
  <2> SUFFICES ASSUME NEW a \in Agents, dedupe'[a] # Nothing
               PROVE  \E j \in Cmds : cmd'[j].agent = a /\ cmd'[j].text = dedupe'[a] /\ Announced(j)'
    BY DEF WindowInv
  <2>1. CASE a = cmd[k].agent
    BY <1>2, <1>3, <1>4, <2>1
  <2>2. CASE a # cmd[k].agent
    <3>1. dedupe'[a] = dedupe[a]
      BY <1>3, <1>4, <2>2
    <3>2. PICK j \in Cmds : cmd[j].agent = a /\ cmd[j].text = dedupe[a] /\ Announced(j)
      BY <3>1 DEF AnnounceInv, WindowInv
    <3>3. QED
      BY <1>2, <1>5, <3>1, <3>2
  <2>3. QED
    BY <2>1, <2>2
<1>7. RepeatInv'
  <2>1. SUFFICES ASSUME ~lapse, NEW j \in Cmds
                 PROVE  /\ Announced(j)' => dedupe'[cmd'[j].agent] = cmd'[j].text \/ Rival(j)'
                        /\ Doubled(j)' => Rival(j)'
    BY DEF RepeatInv
  <2>2. /\ Announced(j) => dedupe[cmd[j].agent] = cmd[j].text \/ Rival(j)
        /\ Doubled(j) => Rival(j)
    BY <2>1 DEF AnnounceInv, RepeatInv
  <2>3. Announced(j)' => dedupe'[cmd'[j].agent] = cmd'[j].text \/ Rival(j)'
    <3>1. CASE j = k
      BY <1>2, <1>3, <1>4, <3>1
    <3>2. CASE Announced(j) /\ cmd[j].agent # cmd[k].agent
      <4>1. dedupe'[cmd[j].agent] = dedupe[cmd[j].agent]
        BY <1>3, <1>4, <1>5, <3>2
      <4>2. QED
        BY <1>1, <1>2, <1>5, <2>2, <3>2, <4>1
    <3>3. CASE Announced(j) /\ cmd[j].agent = cmd[k].agent /\ cmd[j].text = cmd[k].text
      BY <1>2, <1>3, <1>4, <1>5, <3>3
    <3>4. CASE Announced(j) /\ cmd[j].agent = cmd[k].agent /\ cmd[j].text # cmd[k].text
      <4>1. cmd'[k].agent = cmd'[j].agent /\ cmd'[k].text # cmd'[j].text /\ Announced(k)'
        BY <1>2, <1>5, <3>4
      <4>2. QED
        BY <4>1 DEF Rival
    <3>5. QED
      BY <3>1, <3>2, <3>3, <3>4
  <2>4. Doubled(j) => Announced(j)
    <3>1. Twice(emitted, j) => j \in Range(emitted)
      BY RangeEquality DEF AnnounceInv, CmdInv, Twice
    <3>2. Twice(posts, FanPost(j)) => FanPost(j) \in Range(posts)
      BY RangeEquality DEF AnnounceInv, CmdInv, Twice
    <3>3. QED
      BY <3>1, <3>2 DEF Doubled, Announced, FanPost
  <2>5. j = k /\ Announced(k) => Rival(k)
    BY <2>2 DEF Duplicate
  <2>6. Doubled(j)' => Rival(j)'
    BY <1>1, <2>2, <2>4, <2>5
  <2>7. QED
    BY <2>3, <2>6
<1>8. QED
  BY <1>1, <1>6, <1>7
\* A step that touches neither what is announced nor who is past the dedupe.
LEMMA QuietStep ==
  ASSUME AnnounceInv, CmdKept, bridge' = bridge, lapse' = lapse, dedupe' = dedupe,
         emitted' = emitted,
         \A k \in Cmds : FanPost(k) \in Range(posts') <=> FanPost(k) \in Range(posts),
         \A k \in Cmds : Twice(posts', FanPost(k)) => Twice(posts, FanPost(k)),
         \A k \in Cmds : cmd'[k].at = "fanout" <=> cmd[k].at = "fanout",
         \A k \in Cmds : cmd'[k].at \in {"respond", "done"} /\ ~bridge =>
           \/ cmd[k].at \in {"respond", "done"}
           \/ cmd[k].at # "new" /\ PassedOver(k)
  PROVE  WindowInv' /\ RepeatInv' /\ AnsweredIsAnnounced'
<1>1. \A k \in Cmds : Announced(k)' <=> Announced(k)
  BY DEF Announced, FanPost
<1>2. \A k \in Cmds : Doubled(k)' => Doubled(k)
  BY DEF Doubled, FanPost, Twice
<1>3. QED
  BY <1>1, <1>2, NothingPasses

\* A hint is posted, lost, or worked off without an announcement.
LEMMA QuietPosts ==
  ASSUME CmdInv, NEW k \in Cmds,
         \/ posts' = posts
         \/ \E j \in Cmds, w \in {"mid", "finished"} : posts' = Append(posts, [cmd |-> j, what |-> w])
         \/ \E i \in DOMAIN posts : posts[i].what # "fanout" /\ posts' = RemoveAt(posts, i)
  PROVE  /\ FanPost(k) \in Range(posts') <=> FanPost(k) \in Range(posts)
         /\ Twice(posts', FanPost(k)) => Twice(posts, FanPost(k))
<1>1. posts \in Seq(Post)
  BY DEF CmdInv
<1>2. ASSUME NEW j \in Cmds, NEW w \in {"mid", "finished"},
             posts' = Append(posts, [cmd |-> j, what |-> w])
      PROVE  /\ FanPost(k) \in Range(posts') <=> FanPost(k) \in Range(posts)
             /\ Twice(posts', FanPost(k)) => Twice(posts, FanPost(k))
  <2>1. [cmd |-> j, what |-> w] \in Post /\ FanPost(k) # [cmd |-> j, what |-> w]
    BY DEF Post, FanPost
  <2>2. PICK p \in Post : p = [cmd |-> j, what |-> w] /\ FanPost(k) # p
    BY <2>1
  <2>3. /\ Range(posts') = Range(posts) \cup {p}
        /\ Twice(posts', FanPost(k)) => Twice(posts, FanPost(k)) \/ (FanPost(k) = p /\ FanPost(k) \in Range(posts))
    BY <1>1, <1>2, <2>2, AppendedRange
  <2>4. QED
    BY <2>2, <2>3
<1>3. ASSUME NEW i \in DOMAIN posts, posts[i].what # "fanout", posts' = RemoveAt(posts, i)
      PROVE  /\ FanPost(k) \in Range(posts') <=> FanPost(k) \in Range(posts)
             /\ Twice(posts', FanPost(k)) => Twice(posts, FanPost(k))
  <2>1. i \in 1 .. Len(posts) /\ FanPost(k) # posts[i]
    BY <1>3, PostOf DEF FanPost
  <2>2. /\ FanPost(k) \in Range(posts') => FanPost(k) \in Range(posts)
        /\ FanPost(k) \in Range(posts) /\ FanPost(k) # posts[i] => FanPost(k) \in Range(posts')
        /\ Twice(posts', FanPost(k)) => Twice(posts, FanPost(k))
    BY <1>1, <1>3, <2>1, RemovedRange
  <2>3. QED
    BY <2>1, <2>2
<1>4. QED
  BY <1>2, <1>3

\* fanout_event for a turn that went past the dedupe with its hint.
LEMMA HintAnnounced ==
  ASSUME AnnounceInv, CmdKept, NEW i \in DOMAIN posts, AnnounceHint(i)
  PROVE  WindowInv' /\ RepeatInv' /\ AnsweredIsAnnounced'
<1> DEFINE k == posts[i].cmd
<1>1. /\ i \in 1 .. Len(posts) /\ posts[i] \in Range(posts) /\ posts[i] = FanPost(k) /\ k \in Cmds
      /\ posts \in Seq(Post) /\ emitted \in Seq(Cmds)
  BY PostOf DEF AnnounceInv, AnnounceHint, CmdInv, FanPost, Post
<1>2. /\ emitted' = Append(emitted, k) /\ posts' = RemoveAt(posts, i) /\ cmd' = cmd
      /\ dedupe' = dedupe /\ bridge' = bridge /\ lapse' = lapse
  BY DEF AnnounceHint, Announce
<1> HIDE DEF k
<1>3. ASSUME NEW j \in Cmds
      PROVE  /\ j \in Range(emitted') <=> j \in Range(emitted) \/ j = k
             /\ Twice(emitted', j) => Twice(emitted, j) \/ (j = k /\ j \in Range(emitted))
  BY <1>1, <1>2, AppendedRange
<1>4. ASSUME NEW j \in Cmds
      PROVE  /\ FanPost(j) \in Range(posts') => FanPost(j) \in Range(posts)
             /\ FanPost(j) \in Range(posts) /\ FanPost(j) # posts[i] => FanPost(j) \in Range(posts')
             /\ FanPost(j) \in Range(posts') /\ FanPost(j) = posts[i] => Twice(posts, FanPost(j))
             /\ Twice(posts', FanPost(j)) => Twice(posts, FanPost(j))
  <2>1. posts' = RemoveAt(posts, i) /\ i \in 1 .. Len(posts) /\ posts \in Seq(Post)
    BY <1>1, <1>2
  <2>2. QED
    BY <2>1, RemovedRange
<1>5. \A j \in Cmds : FanPost(j) = FanPost(k) <=> j = k
  BY <1>1 DEF FanPost
<1>6. \A j \in Cmds : Announced(j)' <=> Announced(j)
  BY <1>1, <1>2, <1>3, <1>4, <1>5 DEF Announced, FanPost
<1>7. \A j \in Cmds : Doubled(j)' => Doubled(j)
  <2> SUFFICES ASSUME NEW j \in Cmds, Doubled(j)' PROVE Doubled(j)
    OBVIOUS
  <2>1. \/ Twice(emitted', j) \/ Twice(posts', FanPost(j))
        \/ j \in Range(emitted') /\ (cmd[j].at = "fanout" \/ FanPost(j) \in Range(posts'))
        \/ cmd[j].at = "fanout" /\ FanPost(j) \in Range(posts')
    BY <1>2 DEF Doubled, FanPost, Twice
  <2>2. CASE j # k
    BY <1>3, <1>4, <2>1, <2>2 DEF Doubled
  <2>3. CASE j = k
    <3>1. FanPost(j) \in Range(posts) /\ FanPost(j) = posts[i]
      BY <1>1, <2>3
    <3>2. QED
      BY <1>3, <1>4, <2>1, <3>1 DEF Doubled
  <2>4. QED
    BY <2>2, <2>3
<1>8. \A j \in Cmds : cmd'[j].at = cmd[j].at
  BY <1>2
<1>9. QED
  BY <1>2, <1>6, <1>7, <1>8, NothingPasses

\* fanout_event for a turn that went past the dedupe with its answer.
LEMMA AnswerAnnounced ==
  ASSUME AnnounceInv, CmdKept, NEW k \in Cmds, SyncAnnounce(k)
  PROVE  WindowInv' /\ RepeatInv' /\ AnsweredIsAnnounced'
<1>1. /\ cmd[k].at = "fanout" /\ cmd \in [Cmds -> Command] /\ emitted \in Seq(Cmds)
      /\ emitted' = Append(emitted, k) /\ posts' = posts /\ cmd' = [cmd EXCEPT ![k].at = "respond"]
      /\ dedupe' = dedupe /\ bridge' = bridge /\ lapse' = lapse
  BY DEF AnnounceInv, CmdInv, SyncAnnounce, Announce, Goto
<1>2. \A j \in Cmds : cmd'[j].at = IF j = k THEN "respond" ELSE cmd[j].at
  BY <1>1 DEF Command
<1>3. ASSUME NEW j \in Cmds
      PROVE  /\ j \in Range(emitted') <=> j \in Range(emitted) \/ j = k
             /\ Twice(emitted', j) => Twice(emitted, j) \/ (j = k /\ j \in Range(emitted))
  <2>1. emitted' = Append(emitted, k) /\ emitted \in Seq(Cmds)
    BY <1>1
  <2>2. QED
    BY <2>1, AppendedRange
<1>4. \A j \in Cmds : Announced(j)' <=> Announced(j)
  BY <1>1, <1>2, <1>3 DEF Announced, FanPost
<1>5. \A j \in Cmds : Doubled(j)' => Doubled(j)
  <2> SUFFICES ASSUME NEW j \in Cmds, Doubled(j)' PROVE Doubled(j)
    OBVIOUS
  <2>1. \/ Twice(emitted', j) \/ Twice(posts, FanPost(j))
        \/ j \in Range(emitted') /\ (cmd'[j].at = "fanout" \/ FanPost(j) \in Range(posts))
        \/ cmd'[j].at = "fanout" /\ FanPost(j) \in Range(posts)
    BY <1>1 DEF Doubled, FanPost, Twice
  <2>2. QED
    BY <1>1, <1>2, <1>3, <2>1 DEF Doubled
<1>6. \A j \in Cmds : cmd'[j].at \in {"respond", "done"} /\ ~bridge =>
        \/ cmd[j].at \in {"respond", "done"}
        \/ cmd[j].at # "new" /\ (Announced(j) \/ PassedOver(j))
  BY <1>1, <1>2 DEF Announced
<1>7. QED
  BY <1>1, <1>4, <1>5, <1>6, NothingPasses

\* emit_turn_finished lets a hint past.
LEMMA HintPasses ==
  ASSUME AnnounceInv, CmdKept, NEW i \in DOMAIN posts, ApplyFinished(i), ~Duplicate(posts[i].cmd)
  PROVE  WindowInv' /\ RepeatInv' /\ AnsweredIsAnnounced'
<1>0. PICK k \in Cmds : k = posts[i].cmd /\ cmd[k].at # "new"
  BY PostOf DEF AnnounceInv
<1>1. /\ i \in 1 .. Len(posts) /\ posts \in Seq(Post) /\ posts[i] \in Post /\ posts[i].what = "finished"
      /\ k \in Cmds /\ cmd[k].at # "new"
  BY <1>0, PostOf DEF AnnounceInv, ApplyFinished, CmdInv
<1>2. FanPost(k) \in Post /\ posts' = [posts EXCEPT ![i] = FanPost(k)]
  <2>1. posts' = [posts EXCEPT ![i].what = "fanout"]
    BY DEF ApplyFinished
  <2>2. [posts[i] EXCEPT !.what = "fanout"] = FanPost(k) /\ FanPost(k) \in Post
    BY <1>0, <1>1 DEF Post, FanPost
  <2>3. QED
    BY <2>1, <2>2
<1>3. /\ Remember(k) /\ ~Duplicate(k) /\ cmd' = cmd /\ emitted' = emitted
      /\ bridge' = bridge /\ lapse' = lapse
  BY <1>0 DEF ApplyFinished
<1>4. \A j \in Cmds : FanPost(j) # posts[i] /\ (FanPost(j) = FanPost(k) <=> j = k)
  BY <1>1 DEF FanPost
<1>5. ASSUME NEW j \in Cmds
      PROVE  /\ FanPost(k) \in Range(posts')
             /\ FanPost(j) \in Range(posts') => FanPost(j) \in Range(posts) \/ FanPost(j) = FanPost(k)
             /\ FanPost(j) \in Range(posts) /\ FanPost(j) # posts[i] => FanPost(j) \in Range(posts')
             /\ Twice(posts', FanPost(j)) =>
                  Twice(posts, FanPost(j)) \/ (FanPost(j) = FanPost(k) /\ FanPost(j) \in Range(posts))
  <2>1. PICK p \in Post : p = FanPost(k) /\ posts' = [posts EXCEPT ![i] = p]
    BY <1>2
  <2>2. /\ p \in Range(posts')
        /\ FanPost(j) \in Range(posts') => FanPost(j) \in Range(posts) \/ FanPost(j) = p
        /\ FanPost(j) \in Range(posts) /\ FanPost(j) # posts[i] => FanPost(j) \in Range(posts')
        /\ Twice(posts', FanPost(j)) => Twice(posts, FanPost(j)) \/ (FanPost(j) = p /\ FanPost(j) \in Range(posts))
    <3>1. posts \in Seq(Post) /\ i \in 1 .. Len(posts) /\ p \in Post
      BY <1>1
    <3> DEFINE t == [posts EXCEPT ![i] = p]
               e == FanPost(j)
    <3>2. /\ p \in Range(t)
          /\ e \in Range(t) => e \in Range(posts) \/ e = p
          /\ e \in Range(posts) /\ e # posts[i] => e \in Range(t)
          /\ Twice(t, e) => Twice(posts, e) \/ (e = p /\ e \in Range(posts))
      <4> HIDE DEF e
      <4>1. QED
        BY <3>1, ReplacedRange
    <3>3. posts' = t
      BY <2>1
    <3> HIDE DEF t
    <3>4. QED
      BY <3>2, <3>3
  <2>3. QED
    BY <2>1, <2>2
<1>6. \A j \in Cmds : Announced(j) => Announced(j)'
  BY <1>3, <1>4, <1>5 DEF Announced, FanPost
<1>7. /\ \A j \in Cmds : Announced(j)' => Announced(j) \/ j = k
      /\ Announced(k)'
  <2>1. FanPost(k) \in Range(posts')
    BY <1>1, <1>5
  <2>2. \A j \in Cmds : FanPost(j) \in Range(posts') => FanPost(j) \in Range(posts) \/ j = k
    BY <1>4, <1>5
  <2>3. Announced(k)'
    BY <2>1 DEF Announced, FanPost
  <2>4. ASSUME NEW j \in Cmds, Announced(j)' PROVE Announced(j) \/ j = k
    <3>1. j \in Range(emitted) \/ cmd[j].at = "fanout" \/ FanPost(j) \in Range(posts')
      BY <1>3, <2>4 DEF Announced, FanPost
    <3>2. QED
      BY <2>2, <3>1 DEF Announced, FanPost
  <2>5. QED
    BY <2>3, <2>4
<1>8. \A j \in Cmds : Doubled(j)' => Doubled(j) \/ (j = k /\ Announced(k))
  <2> SUFFICES ASSUME NEW j \in Cmds, Doubled(j)' PROVE Doubled(j) \/ (j = k /\ Announced(k))
    OBVIOUS
  <2>1. \/ Twice(emitted, j) \/ Twice(posts', FanPost(j))
        \/ j \in Range(emitted) /\ (cmd[j].at = "fanout" \/ FanPost(j) \in Range(posts'))
        \/ cmd[j].at = "fanout" /\ FanPost(j) \in Range(posts')
    BY <1>3 DEF Doubled, FanPost, Twice
  <2>2. QED
    BY <1>4, <1>5, <2>1 DEF Doubled, Announced, FanPost
<1>9. \A j \in Cmds : cmd'[j].at \in {"respond", "done"} => cmd[j].at \in {"respond", "done"}
  BY <1>3
<1>10. /\ k \in Cmds /\ cmd[k].at # "new" /\ ~Duplicate(k) /\ Remember(k)
       /\ bridge' = bridge /\ lapse' = lapse
  BY <1>1, <1>3
<1>11. QED
  BY <1>6, <1>7, <1>8, <1>9, <1>10, OnePasses

\* emit_turn_finished lets an answer past.
LEMMA AnswerPasses ==
  ASSUME AnnounceInv, CmdKept, NEW k \in Cmds, SyncEmit(k), ~PassedOver(k)
  PROVE  WindowInv' /\ RepeatInv' /\ AnsweredIsAnnounced'
<1>1. /\ cmd[k].at = "emit" /\ cmd \in [Cmds -> Command] /\ emitted' = emitted /\ posts' = posts
      /\ cmd' = [cmd EXCEPT ![k].at = "fanout"] /\ Remember(k)
      /\ bridge' = bridge /\ lapse' = lapse
  BY DEF AnnounceInv, CmdInv, SyncEmit, Goto, PassedOver
<1>2. \A j \in Cmds : cmd'[j].at = IF j = k THEN "fanout" ELSE cmd[j].at
  BY <1>1 DEF Command
<1>3. /\ \A j \in Cmds : Announced(j) => Announced(j)'
      /\ \A j \in Cmds : Announced(j)' => Announced(j) \/ j = k
      /\ Announced(k)'
  BY <1>1, <1>2 DEF Announced, FanPost
<1>4. \A j \in Cmds : Doubled(j)' => Doubled(j) \/ (j = k /\ Announced(k))
  <2> SUFFICES ASSUME NEW j \in Cmds, Doubled(j)' PROVE Doubled(j) \/ (j = k /\ Announced(k))
    OBVIOUS
  <2>1. \/ Twice(emitted, j) \/ Twice(posts, FanPost(j))
        \/ j \in Range(emitted) /\ (cmd'[j].at = "fanout" \/ FanPost(j) \in Range(posts))
        \/ cmd'[j].at = "fanout" /\ FanPost(j) \in Range(posts)
    BY <1>1 DEF Doubled, FanPost, Twice
  <2>2. QED
    BY <1>2, <2>1 DEF Doubled, Announced, FanPost
<1>5. \A j \in Cmds : cmd'[j].at \in {"respond", "done"} => cmd[j].at \in {"respond", "done"}
  BY <1>2
<1>6. QED
  BY <1>1, <1>3, <1>4, <1>5, OnePasses DEF PassedOver

LEMMA AnnounceStep == AnnounceInv /\ [Next]_vars => AnnounceInv'
<1> SUFFICES ASSUME AnnounceInv, [Next]_vars PROVE AnnounceInv'
  OBVIOUS
<1> DEFINE Kept == WindowInv' /\ RepeatInv' /\ AnsweredIsAnnounced'
<1>1. CmdInv' /\ CmdKept /\ CmdInv /\ cmd \in [Cmds -> Command]
  BY CmdInvStep, CmdMoves DEF AnnounceInv, CmdInv
\* Every step that leaves the dedupe and the announcements alone.
<1>2. ASSUME bridge' = bridge, lapse' = lapse, dedupe' = dedupe, emitted' = emitted,
             \/ posts' = posts
             \/ \E j \in Cmds, w \in {"mid", "finished"} : posts' = Append(posts, [cmd |-> j, what |-> w])
             \/ \E i \in DOMAIN posts : posts[i].what # "fanout" /\ posts' = RemoveAt(posts, i),
             \A k \in Cmds : cmd'[k].at = "fanout" <=> cmd[k].at = "fanout",
             \A k \in Cmds : cmd'[k].at \in {"respond", "done"} /\ ~bridge =>
               \/ cmd[k].at \in {"respond", "done"}
               \/ cmd[k].at # "new" /\ PassedOver(k)
      PROVE  Kept
  <2>1. \A k \in Cmds : /\ FanPost(k) \in Range(posts') <=> FanPost(k) \in Range(posts)
                        /\ Twice(posts', FanPost(k)) => Twice(posts, FanPost(k))
    BY <1>1, <1>2, QuietPosts
  <2>2. QED
    BY <1>1, <1>2, <2>1, QuietStep
\* What a command's change of stage means to the announcements.
<1>3. ASSUME NEW k \in Cmds, NEW s, cmd' = [cmd EXCEPT ![k].at = s], s # "fanout", cmd[k].at # "fanout",
             cmd[k].at # "new", bridge' = bridge,
             s \in {"respond", "done"} /\ ~bridge => cmd[k].at = "respond" \/ PassedOver(k)
      PROVE  /\ \A j \in Cmds : cmd'[j].at = "fanout" <=> cmd[j].at = "fanout"
             /\ \A j \in Cmds : cmd'[j].at \in {"respond", "done"} /\ ~bridge =>
                  \/ cmd[j].at \in {"respond", "done"}
                  \/ cmd[j].at # "new" /\ PassedOver(j)
  <2>1. \A j \in Cmds : cmd'[j].at = IF j = k THEN s ELSE cmd[j].at
    BY <1>1, <1>3 DEF Command
  <2>2. QED
    BY <1>3, <2>1
<1> HIDE DEF Kept
<1>4. ASSUME NEW k \in Cmds, Commit(k) \/ Fail(k) \/ Return(k) \/ Respond(k) PROVE Kept
  <2>1. /\ dedupe' = dedupe /\ emitted' = emitted /\ lapse' = lapse /\ bridge' = bridge
        /\ posts' = posts \/ posts' = Append(posts, [cmd |-> k, what |-> "finished"])
        /\ cmd[k].at \in {"running", "committed", "respond", "refuse"}
    BY <1>4 DEF Commit, Fail, Return, Respond, hub
  <2>2. ASSUME NEW s, cmd' = [cmd EXCEPT ![k].at = s], s # "fanout",
               s \in {"respond", "done"} /\ ~bridge => cmd[k].at = "respond"
        PROVE  Kept
    <3>1. /\ \A j \in Cmds : cmd'[j].at = "fanout" <=> cmd[j].at = "fanout"
          /\ \A j \in Cmds : cmd'[j].at \in {"respond", "done"} /\ ~bridge =>
               \/ cmd[j].at \in {"respond", "done"}
               \/ cmd[j].at # "new" /\ PassedOver(j)
      BY <1>3, <2>1, <2>2
    <3>2. QED
      BY <1>2, <2>1, <3>1
  <2>3. CASE Commit(k) \/ Fail(k)
    <3>1. cmd' = [cmd EXCEPT ![k].at = "committed"] \/ cmd' = [cmd EXCEPT ![k].at = "refuse"]
      BY <2>3 DEF Commit, Fail, Goto
    <3>2. QED
      BY <2>2, <3>1
  <2>4. CASE Return(k)
    <3>1. cmd' = [cmd EXCEPT ![k].at = IF bridge THEN "respond" ELSE "emit"]
      BY <2>4 DEF Return, Goto
    <3>2. CASE bridge
      BY <2>2, <3>1, <3>2
    <3>3. CASE ~bridge
      <4>1. cmd' = [cmd EXCEPT ![k].at = "emit"]
        BY <3>1, <3>3
      <4>2. QED
        BY <2>2, <4>1
    <3>4. QED
      BY <3>2, <3>3
  <2>5. CASE Respond(k)
    <3>1. \/ cmd[k].at = "respond" /\ cmd' = [cmd EXCEPT ![k].at = "done"]
          \/ cmd' = [cmd EXCEPT ![k].at = "failed"]
      BY <2>5 DEF Respond, Goto
    <3>2. QED
      BY <2>2, <3>1
  <2>6. QED
    BY <1>4, <2>3, <2>4, <2>5
<1>5. ASSUME NEW k \in Cmds, SyncEmit(k), PassedOver(k) PROVE Kept
  <2>1. /\ dedupe' = dedupe /\ emitted' = emitted /\ lapse' = lapse /\ bridge' = bridge /\ posts' = posts
        /\ cmd' = [cmd EXCEPT ![k].at = "respond"] /\ cmd[k].at = "emit"
    BY <1>5 DEF SyncEmit, Goto, PassedOver
  <2>2. /\ \A j \in Cmds : cmd'[j].at = "fanout" <=> cmd[j].at = "fanout"
        /\ \A j \in Cmds : cmd'[j].at \in {"respond", "done"} /\ ~bridge =>
             \/ cmd[j].at \in {"respond", "done"}
             \/ cmd[j].at # "new" /\ PassedOver(j)
    BY <1>3, <1>5, <2>1
  <2>3. QED
    BY <1>2, <2>1, <2>2
<1>6. ASSUME NEW k \in Cmds, MidHint(k) PROVE Kept
  <2>1. /\ dedupe' = dedupe /\ emitted' = emitted /\ lapse' = lapse /\ bridge' = bridge
        /\ posts' = Append(posts, [cmd |-> k, what |-> "mid"]) /\ cmd' = [cmd EXCEPT ![k].hinted = TRUE]
    BY <1>6 DEF MidHint, hub
  <2>2. \A j \in Cmds : cmd'[j].at = cmd[j].at
    BY <1>1, <2>1 DEF Command
  <2>3. QED
    BY <1>2, <2>1, <2>2
<1>7. ASSUME NEW c \in Conns, NEW k \in Cmds, NEW a \in Agents, NEW t \in Texts, Start(c, k, a, t)
      PROVE  Kept
  <2>1. /\ dedupe' = dedupe /\ emitted' = emitted /\ lapse' = lapse /\ bridge' = bridge /\ posts' = posts
    BY <1>7 DEF Start, hub
  <2>2. \A j \in Cmds : cmd'[j].at = cmd[j].at \/ (cmd[j].at = "new" /\ cmd'[j].at \in {"refuse", "running"})
    BY <1>1, <1>7 DEF Start, Command
  <2>3. QED
    BY <1>2, <2>1, <2>2
<1>8. ASSUME NEW i \in DOMAIN posts, LosePost(i) \/ ApplyMid(i) \/ (ApplyFinished(i) /\ Duplicate(posts[i].cmd))
      PROVE  Kept
  <2>1. /\ dedupe' = dedupe /\ emitted' = emitted /\ lapse' = lapse /\ bridge' = bridge /\ cmd' = cmd
        /\ posts[i].what # "fanout" /\ posts' = RemoveAt(posts, i)
    BY <1>8 DEF LosePost, ApplyMid, ApplyFinished, hub
  <2>2. QED
    BY <1>2, <2>1
<1>9. ASSUME NEW i \in DOMAIN posts, \/ ApplyFinished(i) /\ ~Duplicate(posts[i].cmd)
                                    \/ AnnounceHint(i)
      PROVE  Kept
  BY <1>1, <1>9, HintPasses, HintAnnounced DEF Kept
<1>10. ASSUME NEW k \in Cmds, (SyncEmit(k) /\ ~PassedOver(k)) \/ SyncAnnounce(k) PROVE Kept
  BY <1>1, <1>10, AnswerPasses, AnswerAnnounced DEF Kept
<1>11. ASSUME NEW a \in Agents, Forget(a) PROVE Kept
  <2>1. /\ emitted' = emitted /\ lapse' = lapse /\ bridge' = bridge /\ posts' = posts /\ cmd' = cmd
        /\ dedupe' = [dedupe EXCEPT ![a] = Nothing] /\ lapse
    BY <1>11 DEF Forget
  <2>2. \A b \in Agents : dedupe'[b] # Nothing => dedupe'[b] = dedupe[b]
    BY <1>1, <2>1 DEF CmdInv
  <2>3. WindowInv'
    BY <2>1, <2>2 DEF AnnounceInv, WindowInv, Announced, FanPost
  <2>4. RepeatInv'
    BY <2>1 DEF RepeatInv
  <2>5. AnsweredIsAnnounced'
    BY <2>1 DEF AnnounceInv, AnsweredIsAnnounced, Announced
  <2>6. QED
    BY <2>3, <2>4, <2>5 DEF Kept
<1>12. ASSUME NEW c \in Conns, \/ Open(c) \/ Hello(c) \/ Close(c) \/ Receive(c)
                               \/ \E a \in Agents : Subscribe(c, a) \/ Unsubscribe(c, a)
       PROVE  Kept
  <2>1. /\ dedupe' = dedupe /\ emitted' = emitted /\ lapse' = lapse /\ bridge' = bridge /\ posts' = posts
        /\ cmd' = cmd
    BY <1>12 DEF Open, Hello, Close, Receive, Subscribe, Unsubscribe, hub
  <2>2. QED
    BY <1>2, <2>1
<1>13. ASSUME UNCHANGED vars PROVE Kept
  BY <1>2, <1>13 DEF vars
<1>14. Kept
  <2>1. ASSUME NEW k \in Cmds, SyncEmit(k) PROVE Kept
    BY <1>5, <1>10, <2>1
  <2>2. ASSUME NEW i \in DOMAIN posts, ApplyFinished(i) PROVE Kept
    BY <1>8, <1>9, <2>2
  <2>3. ASSUME HintStep PROVE Kept
    BY <1>8, <1>9, <2>2, <2>3, Picked DEF HintStep
  <2>4. ASSUME NEW k \in Cmds, CmdStep(k) PROVE Kept
    BY <1>4, <1>10, <2>1, <2>4 DEF CmdStep
  <2>5. ASSUME NEW c \in Conns, ClientStep(c) \/ Receive(c) PROVE Kept
    BY <1>7, <1>12, <2>5 DEF ClientStep
  <2>6. QED
    BY <1>6, <1>8, <1>11, <1>13, <2>3, <2>4, <2>5 DEF Next
<1>15. QED
  BY <1>1, <1>14 DEF AnnounceInv, Kept

LEMMA AnnounceAlways == Spec => []AnnounceInv
<1>1. Init => AnnounceInv
  <2> SUFFICES ASSUME Init PROVE AnnounceInv
    OBVIOUS
  <2>1. Range(posts) = {} /\ Range(emitted) = {} /\ Len(posts) = 0 /\ Len(emitted) = 0
    BY DEF Init, Range
  <2>2. CmdInv
    BY <2>1 DEF Init, CmdInv, Command
  <2>3. \A k \in Cmds : ~Announced(k) /\ ~Doubled(k)
    BY <2>1 DEF Init, Announced, Doubled, Twice
  <2>4. WindowInv /\ RepeatInv /\ AnsweredIsAnnounced
    BY <2>3 DEF Init, WindowInv, RepeatInv, AnsweredIsAnnounced
  <2>5. QED
    BY <2>2, <2>4 DEF AnnounceInv
<1>2. QED
  BY <1>1, AnnounceStep, PTL DEF Spec

\* after_command_success and apply_runtime_hint race for emit_turn_finished, but a
\* prompt with a visible reply is answered on the sync path only when its turn, or
\* another turn of the agent with the same preview, was announced or is about to be.
THEOREM AnsweredAreAnnounced == Spec => []AnsweredIsAnnounced
<1>1. AnnounceInv => AnsweredIsAnnounced
  BY DEF AnnounceInv
<1>2. QED
  BY <1>1, AnnounceAlways, PTL

\* Within two seconds emit_turn_finished announces a turn again only when another
\* reply of the agent went past its one-entry memory.
THEOREM RepeatsAreCaused == Spec => []RepeatsHaveCause
<1>1. AnnounceInv => RepeatsHaveCause
  <2> SUFFICES ASSUME AnnounceInv, ~lapse, NEW i \in DOMAIN emitted, NEW j \in DOMAIN emitted,
                      i # j, emitted[i] = emitted[j]
               PROVE  \E k \in Cmds :
                        /\ cmd[k].agent = cmd[emitted[i]].agent /\ cmd[k].text # cmd[emitted[i]].text
                        /\ Announced(k)
    BY DEF RepeatsHaveCause, Announced, FanPost
  <2>1. emitted \in Seq(Cmds) /\ i \in 1 .. Len(emitted) /\ j \in 1 .. Len(emitted)
    BY LenProperties DEF AnnounceInv, CmdInv
  <2>2. emitted[i] \in Cmds /\ Doubled(emitted[i])
    BY <2>1, ElementOfSeq DEF Doubled, Twice
  <2>3. QED
    BY <2>2 DEF AnnounceInv, RepeatInv, Rival
<1>2. QED
  BY <1>1, AnnounceAlways, PTL
-----------------------------------------------------------------------------
(* The frames of one connection and agent, on their way from fan-out to the *)
(* socket: u is what the connection has not read, n the next seq, e the     *)
(* number of subscriptions, g the last frame it was sent.                   *)

Mine(f, c, a) == f.conn = c /\ f.agent = a

Base(g, e) == IF g.epoch = e THEN g.seq ELSE 0

\* What lies on the ring is of this subscription, in order, and newer than what was sent.
InOrder(c, a, u, n, e, g) ==
  /\ g.epoch <= e
  /\ n > 0 => Base(g, e) < n
  /\ \A i \in 1 .. Len(u) : Mine(u[i], c, a) =>
       u[i].epoch = e /\ Base(g, e) < u[i].seq /\ u[i].seq < n
  /\ \A i, j \in 1 .. Len(u) : i < j /\ Mine(u[i], c, a) /\ Mine(u[j], c, a) => u[i].seq < u[j].seq

\* Every frame that was stamped and not sent yet is there.
Complete(c, a, u, n, e, g) ==
  \A s \in Nat : Base(g, e) < s /\ s < n =>
    \E i \in 1 .. Len(u) : Mine(u[i], c, a) /\ u[i].seq = s

Sent == [epoch : Nat, seq : Nat]

\* The connection is sent its next frame: it is newer than the last one, and the next
\* one if none was lost.
LEMMA Taken ==
  ASSUME NEW c \in Conns, NEW a \in Agents, NEW u \in Seq(Event), u # <<>>,
         NEW n \in Nat, NEW e \in Nat, NEW g \in Sent,
         InOrder(c, a, u, n, e, g), Mine(Head(u), c, a)
  PROVE  LET h == [epoch |-> Head(u).epoch, seq |-> Head(u).seq]
         IN  /\ h.epoch = e /\ Base(g, e) < h.seq /\ g.epoch <= e
             /\ InOrder(c, a, Tail(u), n, e, h)
             /\ Complete(c, a, u, n, e, g) => /\ h.seq = Base(g, e) + 1
                                              /\ Complete(c, a, Tail(u), n, e, h)
<1> DEFINE h == [epoch |-> Head(u).epoch, seq |-> Head(u).seq]
<1>1. /\ Head(u) = u[1] /\ u[1] \in Event /\ Tail(u) \in Seq(Event)
      /\ Len(u) \in Nat /\ 1 <= Len(u) /\ Len(Tail(u)) = Len(u) - 1
      /\ \A i \in 1 .. Len(u) - 1 : Tail(u)[i] = u[i + 1]
      /\ \A i \in 1 .. Len(u) : u[i] \in Event
  BY HeadTailProperties, ElementOfSeq, LenProperties, EmptySeq
<1>2. PICK v \in Seq(Event) : /\ v = Tail(u) /\ Len(v) = Len(u) - 1
                              /\ \A i \in 1 .. Len(u) - 1 : v[i] = u[i + 1]
  BY <1>1
<1>3. Head(u).seq \in Nat /\ Base(g, e) \in Nat /\ g.seq \in Nat
  BY <1>1 DEF Event, Base, Sent
<1>4. /\ u[1].epoch = e /\ Base(g, e) < u[1].seq /\ u[1].seq < n /\ g.epoch <= e
      /\ Mine(u[1], c, a)
  BY <1>1 DEF InOrder
<1>5. h.epoch = e /\ h.seq = u[1].seq /\ Base(h, e) = u[1].seq
  BY <1>1, <1>4 DEF Base
<1> HIDE DEF h
<1>6. InOrder(c, a, v, n, e, h)
  <2>1. h.epoch <= e /\ Base(h, e) < n
    BY <1>4, <1>5
  <2>2. ASSUME NEW i \in 1 .. Len(v), Mine(v[i], c, a)
        PROVE  v[i].epoch = e /\ Base(h, e) < v[i].seq /\ v[i].seq < n
    <3>1. i + 1 \in 1 .. Len(u) /\ 1 \in 1 .. Len(u) /\ 1 < i + 1 /\ v[i] = u[i + 1]
      BY <1>1, <1>2
    <3>2. QED
      BY <1>4, <1>5, <2>2, <3>1 DEF InOrder
  <2>3. ASSUME NEW i \in 1 .. Len(v), NEW j \in 1 .. Len(v), i < j, Mine(v[i], c, a), Mine(v[j], c, a)
        PROVE  v[i].seq < v[j].seq
    <3>1. /\ i + 1 \in 1 .. Len(u) /\ j + 1 \in 1 .. Len(u) /\ i + 1 < j + 1
          /\ v[i] = u[i + 1] /\ v[j] = u[j + 1]
      BY <1>1, <1>2, <2>3
    <3>2. QED
      BY <2>3, <3>1 DEF InOrder
  <2>4. QED
    BY <2>1, <2>2, <2>3 DEF InOrder
<1>7. ASSUME Complete(c, a, u, n, e, g)
      PROVE  u[1].seq = Base(g, e) + 1 /\ Complete(c, a, v, n, e, h)
  <2>1. u[1].seq = Base(g, e) + 1
    <3>1. SUFFICES ASSUME Base(g, e) + 1 < u[1].seq PROVE FALSE
      BY <1>1, <1>3, <1>4
    <3>2. PICK i \in 1 .. Len(u) : Mine(u[i], c, a) /\ u[i].seq = Base(g, e) + 1
      BY <1>1, <1>3, <1>4, <1>7, <3>1 DEF Complete
    <3>3. i # 1 /\ 1 \in 1 .. Len(u)
      BY <1>1, <1>3, <3>1, <3>2
    <3>4. u[1].seq < u[i].seq
      BY <1>1, <1>4, <3>2, <3>3 DEF InOrder
    <3>5. QED
      BY <1>1, <1>3, <3>1, <3>2, <3>4
  <2>2. ASSUME NEW s \in Nat, Base(h, e) < s, s < n
        PROVE  \E i \in 1 .. Len(v) : Mine(v[i], c, a) /\ v[i].seq = s
    <3>1. Base(g, e) < s
      BY <1>1, <1>3, <1>4, <1>5, <2>2
    <3>2. PICK i \in 1 .. Len(u) : Mine(u[i], c, a) /\ u[i].seq = s
      BY <1>7, <2>2, <3>1 DEF Complete
    <3>3. i # 1
      BY <1>1, <1>3, <1>5, <2>2, <3>2
    <3>4. i - 1 \in 1 .. Len(v) /\ v[i - 1] = u[i]
      BY <1>1, <1>2, <3>3
    <3>5. QED
      BY <3>2, <3>4
  <2>3. QED
    BY <2>1, <2>2 DEF Complete
<1>8. QED
  BY <1>1, <1>2, <1>4, <1>5, <1>6, <1>7 DEF h

\* A frame of another connection, or of another agent, is taken off.
LEMMA Skipped ==
  ASSUME NEW c \in Conns, NEW a \in Agents, NEW u \in Seq(Event), u # <<>>,
         NEW n \in Nat, NEW e \in Nat, NEW g \in Sent,
         InOrder(c, a, u, n, e, g), ~Mine(Head(u), c, a)
  PROVE  /\ InOrder(c, a, Tail(u), n, e, g)
         /\ Complete(c, a, u, n, e, g) => Complete(c, a, Tail(u), n, e, g)
<1>1. /\ Head(u) = u[1] /\ Tail(u) \in Seq(Event)
      /\ Len(u) \in Nat /\ 1 <= Len(u) /\ Len(Tail(u)) = Len(u) - 1
      /\ \A i \in 1 .. Len(u) - 1 : Tail(u)[i] = u[i + 1]
  BY HeadTailProperties, LenProperties, EmptySeq
<1>2. PICK v \in Seq(Event) : /\ v = Tail(u) /\ Len(v) = Len(u) - 1
                              /\ \A i \in 1 .. Len(u) - 1 : v[i] = u[i + 1]
  BY <1>1
<1>3. InOrder(c, a, v, n, e, g)
  <2>1. ASSUME NEW i \in 1 .. Len(v), Mine(v[i], c, a)
        PROVE  v[i].epoch = e /\ Base(g, e) < v[i].seq /\ v[i].seq < n
    <3>1. i + 1 \in 1 .. Len(u) /\ v[i] = u[i + 1]
      BY <1>1, <1>2
    <3>2. QED
      BY <2>1, <3>1 DEF InOrder
  <2>2. ASSUME NEW i \in 1 .. Len(v), NEW j \in 1 .. Len(v), i < j, Mine(v[i], c, a), Mine(v[j], c, a)
        PROVE  v[i].seq < v[j].seq
    <3>1. /\ i + 1 \in 1 .. Len(u) /\ j + 1 \in 1 .. Len(u) /\ i + 1 < j + 1
          /\ v[i] = u[i + 1] /\ v[j] = u[j + 1]
      BY <1>1, <1>2, <2>2
    <3>2. QED
      BY <2>2, <3>1 DEF InOrder
  <2>3. QED
    BY <2>1, <2>2 DEF InOrder
<1>4. ASSUME Complete(c, a, u, n, e, g) PROVE Complete(c, a, v, n, e, g)
  <2>1. ASSUME NEW s \in Nat, Base(g, e) < s, s < n
        PROVE  \E i \in 1 .. Len(v) : Mine(v[i], c, a) /\ v[i].seq = s
    <3>1. PICK i \in 1 .. Len(u) : Mine(u[i], c, a) /\ u[i].seq = s
      BY <1>4, <2>1 DEF Complete
    <3>2. i # 1
      BY <1>1, <3>1
    <3>3. i - 1 \in 1 .. Len(v) /\ v[i - 1] = u[i]
      BY <1>1, <1>2, <3>2
    <3>4. QED
      BY <3>1, <3>3
  <2>2. QED
    BY <2>1 DEF Complete
<1>5. QED
  BY <1>2, <1>3, <1>4

\* Frames are sent of which exactly the m-th is for this connection and agent.
LEMMA Stamped ==
  ASSUME NEW c \in Conns, NEW a \in Agents, NEW u \in Seq(Event), NEW w \in Seq(Event),
         NEW n \in Nat, NEW e \in Nat, NEW g \in Sent, n > 0,
         InOrder(c, a, u, n, e, g),
         NEW m \in 1 .. Len(w), Mine(w[m], c, a), w[m].epoch = e, w[m].seq = n,
         \A i \in 1 .. Len(w) : Mine(w[i], c, a) => i = m
  PROVE  /\ InOrder(c, a, u \o w, n + 1, e, g)
         /\ Complete(c, a, u, n, e, g) => Complete(c, a, u \o w, n + 1, e, g)
<1>1. PICK v \in Seq(Event) : /\ v = u \o w /\ Len(v) = Len(u) + Len(w)
                              /\ \A i \in 1 .. Len(u) + Len(w) :
                                   v[i] = IF i <= Len(u) THEN u[i] ELSE w[i - Len(u)]
  <2>1. /\ u \o w \in Seq(Event) /\ Len(u \o w) = Len(u) + Len(w)
        /\ \A i \in 1 .. Len(u) + Len(w) :
             (u \o w)[i] = IF i <= Len(u) THEN u[i] ELSE w[i - Len(u)]
    BY ConcatProperties
  <2>2. QED
    BY <2>1
<1>2. Len(u) \in Nat /\ Len(w) \in Nat /\ Base(g, e) \in Nat
  BY LenProperties DEF Base, Sent
<1>3. /\ \A i \in 1 .. Len(u) : v[i] = u[i] /\ i \in 1 .. Len(v)
      /\ v[Len(u) + m] = w[m] /\ Len(u) + m \in 1 .. Len(v)
      /\ \A i \in 1 .. Len(v) : Mine(v[i], c, a) => i \in 1 .. Len(u) \/ i = Len(u) + m
  <2>1. \A i \in 1 .. Len(u) : v[i] = u[i] /\ i \in 1 .. Len(v)
    BY <1>1, <1>2
  <2>2. v[Len(u) + m] = w[m] /\ Len(u) + m \in 1 .. Len(v)
    BY <1>1, <1>2
  <2>3. ASSUME NEW i \in 1 .. Len(v), Mine(v[i], c, a), i > Len(u) PROVE i = Len(u) + m
    <3>1. i - Len(u) \in 1 .. Len(w) /\ v[i] = w[i - Len(u)]
      BY <1>1, <1>2, <2>3
    <3>2. i - Len(u) = m
      BY <2>3, <3>1
    <3>3. i \in Int /\ Len(u) \in Int
      BY <1>1, <1>2
    <3>4. QED
      BY <3>2, <3>3
  <2>4. QED
    BY <1>2, <2>1, <2>2, <2>3
<1>4. \A i \in 1 .. Len(u) : u[i].seq \in Nat
  <2>1. \A i \in 1 .. Len(u) : u[i] \in Event
    BY ElementOfSeq
  <2>2. QED
    BY <2>1 DEF Event
<1>5. InOrder(c, a, v, n + 1, e, g)
  <2>1. g.epoch <= e /\ Base(g, e) < n /\ Base(g, e) < n + 1
    BY <1>2 DEF InOrder
  <2>2. ASSUME NEW i \in 1 .. Len(v), Mine(v[i], c, a)
        PROVE  v[i].epoch = e /\ Base(g, e) < v[i].seq /\ v[i].seq < n + 1
    <3>1. CASE i \in 1 .. Len(u)
      BY <1>3, <1>4, <2>2, <3>1 DEF InOrder
    <3>2. CASE i = Len(u) + m
      BY <1>3, <2>1, <3>2
    <3>3. QED
      BY <1>3, <2>2, <3>1, <3>2
  <2>3. ASSUME NEW i \in 1 .. Len(v), NEW j \in 1 .. Len(v), i < j, Mine(v[i], c, a), Mine(v[j], c, a)
        PROVE  v[i].seq < v[j].seq
    <3>1. CASE i \in 1 .. Len(u) /\ j \in 1 .. Len(u)
      BY <1>3, <2>3, <3>1 DEF InOrder
    <3>2. CASE i \in 1 .. Len(u) /\ j = Len(u) + m
      BY <1>3, <2>3, <3>2 DEF InOrder
    <3>3. i \in 1 .. Len(u)
      BY <1>2, <1>3, <2>3
    <3>4. QED
      BY <1>3, <2>3, <3>1, <3>2, <3>3
  <2>4. QED
    BY <2>1, <2>2, <2>3 DEF InOrder
<1>6. ASSUME Complete(c, a, u, n, e, g) PROVE Complete(c, a, v, n + 1, e, g)
  <2>1. ASSUME NEW s \in Nat, Base(g, e) < s, s < n + 1
        PROVE  \E i \in 1 .. Len(v) : Mine(v[i], c, a) /\ v[i].seq = s
    <3>1. CASE s = n
      BY <1>3, <3>1
    <3>2. CASE s < n
      <4>1. PICK i \in 1 .. Len(u) : Mine(u[i], c, a) /\ u[i].seq = s
        BY <1>6, <2>1, <3>2 DEF Complete
      <4>2. QED
        BY <1>3, <4>1
    <3>3. QED
      BY <2>1, <3>1, <3>2
  <2>2. QED
    BY <2>1 DEF Complete
<1>7. QED
  BY <1>1, <1>5, <1>6

\* Frames are sent of which none is for this connection and agent.
LEMMA NotStamped ==
  ASSUME NEW c \in Conns, NEW a \in Agents, NEW u \in Seq(Event), NEW w \in Seq(Event),
         NEW n \in Nat, NEW e \in Nat, NEW g \in Sent,
         InOrder(c, a, u, n, e, g), \A i \in 1 .. Len(w) : ~Mine(w[i], c, a)
  PROVE  /\ InOrder(c, a, u \o w, n, e, g)
         /\ Complete(c, a, u, n, e, g) => Complete(c, a, u \o w, n, e, g)
<1>1. PICK v \in Seq(Event) : /\ v = u \o w /\ Len(v) = Len(u) + Len(w)
                              /\ \A i \in 1 .. Len(u) + Len(w) :
                                   v[i] = IF i <= Len(u) THEN u[i] ELSE w[i - Len(u)]
  <2>1. /\ u \o w \in Seq(Event) /\ Len(u \o w) = Len(u) + Len(w)
        /\ \A i \in 1 .. Len(u) + Len(w) :
             (u \o w)[i] = IF i <= Len(u) THEN u[i] ELSE w[i - Len(u)]
    BY ConcatProperties
  <2>2. QED
    BY <2>1
<1>2. Len(u) \in Nat /\ Len(w) \in Nat
  BY LenProperties
<1>3. /\ \A i \in 1 .. Len(u) : v[i] = u[i] /\ i \in 1 .. Len(v)
      /\ \A i \in 1 .. Len(v) : Mine(v[i], c, a) => i \in 1 .. Len(u)
  <2>1. \A i \in 1 .. Len(u) : v[i] = u[i] /\ i \in 1 .. Len(v)
    BY <1>1, <1>2
  <2>2. ASSUME NEW i \in 1 .. Len(v), Mine(v[i], c, a), i > Len(u) PROVE FALSE
    <3>1. i - Len(u) \in 1 .. Len(w) /\ v[i] = w[i - Len(u)]
      BY <1>1, <1>2, <2>2
    <3>2. QED
      BY <2>2, <3>1
  <2>3. QED
    BY <1>2, <2>1, <2>2
<1>4. InOrder(c, a, v, n, e, g)
  BY <1>3 DEF InOrder
<1>5. ASSUME Complete(c, a, u, n, e, g) PROVE Complete(c, a, v, n, e, g)
  BY <1>3, <1>5 DEF Complete
<1>6. QED
  BY <1>1, <1>4, <1>5

\* The oldest frames are overwritten: what is left is in order still.
LEMMA Overwritten ==
  ASSUME NEW c \in Conns, NEW a \in Agents, NEW u \in Seq(Event), NEW d \in 0 .. Len(u),
         NEW n \in Nat, NEW e \in Nat, NEW g \in Sent, InOrder(c, a, u, n, e, g)
  PROVE  /\ SubSeq(u, d + 1, Len(u)) \in Seq(Event)
         /\ InOrder(c, a, SubSeq(u, d + 1, Len(u)), n, e, g)
<1>1. Len(u) \in Nat /\ d \in Nat /\ d <= Len(u) /\ \A i \in 1 .. Len(u) : u[i] \in Event
  BY LenProperties, ElementOfSeq
<1>2. PICK v \in Seq(Event) : /\ v = SubSeq(u, d + 1, Len(u)) /\ Len(v) = Len(u) - d
                              /\ \A i \in 1 .. Len(u) - d : v[i] = u[d + i]
  <2>1. \A i \in d + 1 .. Len(u) : u[i] \in Event
    BY <1>1
  <2>2. /\ SubSeq(u, d + 1, Len(u)) \in Seq(Event)
        /\ Len(SubSeq(u, d + 1, Len(u))) = IF d + 1 <= Len(u) THEN Len(u) - (d + 1) + 1 ELSE 0
        /\ \A i \in 1 .. Len(u) - (d + 1) + 1 : SubSeq(u, d + 1, Len(u))[i] = u[(d + 1) + i - 1]
    BY <1>1, <2>1, SubSeqProperties
  <2>3. Len(SubSeq(u, d + 1, Len(u))) = Len(u) - d
    BY <1>1, <2>2
  <2>4. ASSUME NEW i \in 1 .. Len(u) - d PROVE SubSeq(u, d + 1, Len(u))[i] = u[d + i]
    <3>1. i \in 1 .. Len(u) - (d + 1) + 1 /\ (d + 1) + i - 1 = d + i
      BY <1>1
    <3>2. SubSeq(u, d + 1, Len(u))[i] = u[(d + 1) + i - 1]
      BY <2>2, <3>1
    <3>3. QED
      BY <3>1, <3>2
  <2>5. QED
    BY <2>2, <2>3, <2>4
<1>3. \A i \in 1 .. Len(v) : d + i \in 1 .. Len(u) /\ v[i] = u[d + i]
  BY <1>1, <1>2
<1>4. \A i, j \in 1 .. Len(v) : i < j => d + i < d + j
  BY <1>1
<1>5. InOrder(c, a, v, n, e, g)
  <2>1. ASSUME NEW i \in 1 .. Len(v), Mine(v[i], c, a)
        PROVE  v[i].epoch = e /\ Base(g, e) < v[i].seq /\ v[i].seq < n
    BY <1>3, <2>1 DEF InOrder
  <2>2. ASSUME NEW i \in 1 .. Len(v), NEW j \in 1 .. Len(v), i < j, Mine(v[i], c, a), Mine(v[j], c, a)
        PROVE  v[i].seq < v[j].seq
    BY <1>3, <1>4, <2>2 DEF InOrder
  <2>3. QED
    BY <2>1, <2>2 DEF InOrder
<1>6. QED
  BY <1>2, <1>5
\* What is on the ring for each connection, and complete unless the receiver lags.
FramesInv ==
  /\ SubsInv
  /\ epoch \in [Conns -> [Agents -> Nat]]
  /\ unread \in [Conns -> Seq(Event)]
  /\ got \in [Conns -> [Agents -> Sent]]
  /\ \A c \in Conns, a \in Agents :
       InOrder(c, a, unread[c], subs[c][a], epoch[c][a], got[c][a])
  /\ \A c \in Conns, a \in Agents : c \notin behind \cup lagged =>
       Complete(c, a, unread[c], subs[c][a], epoch[c][a], got[c][a])

\* The frame fan-out stamps for a subscriber.
Stamp(c, a, k, what) ==
  [conn |-> c, agent |-> a, seq |-> subs[c][a], epoch |-> epoch[c][a], cmd |-> k, what |-> what]

\* Fan-out sends each subscriber its frame once, in some order.
LEMMA FanOutFrames ==
  ASSUME FramesInv, NEW k \in Cmds, cmd[k].agent \in Agents, NEW what \in {"mid", "finished"},
         FanOut(k, what)
  PROVE  \E w \in Seq(Event) :
           /\ Send(w)
           /\ \A i \in 1 .. Len(w) : \E d \in Conns :
                subs[d][cmd[k].agent] > 0 /\ w[i] = Stamp(d, cmd[k].agent, k, what)
           /\ \A d \in Conns : subs[d][cmd[k].agent] > 0 =>
                \E m \in 1 .. Len(w) : w[m] = Stamp(d, cmd[k].agent, k, what)
           /\ \A i, j \in 1 .. Len(w) : w[i] = w[j] => i = j
<1> DEFINE a == cmd[k].agent
           hit == {c \in Conns : subs[c][a] > 0}
           St(c) == Stamp(c, a, k, what)
           S == {St(c) : c \in hit}
<1>1. PICK w \in SetToSeqs(S) : Send(w)
  BY DEF FanOut, Stamp
<1>2. IsFiniteSet(S)
  <2>1. IsFiniteSet(hit)
    BY ConnsAssumption, FS_Subset
  <2> DEFINE f == [c \in hit |-> St(c)]
  <2>2. f \in Surjection(hit, S)
    BY DEF Surjection
  <2> HIDE DEF f, hit, S
  <2>3. QED
    BY <2>1, <2>2, FS_Surjection
<1>3. S \subseteq Event
  BY DEF FramesInv, SubsInv, Stamp, Event
<1> DEFINE n == Cardinality(S)
<1>4. n \in Nat
  BY <1>2, FS_CardinalityType
<1>5. w \in [1 .. n -> S] /\ \A i, j \in 1 .. n : i # j => w[i] # w[j]
  BY <1>1 DEF SetToSeqs
<1> HIDE DEF n, S, hit
<1>6. \A s \in S : \E m \in 1 .. n : w[m] = s
  <2>1. w \in Injection(1 .. n, S)
    BY <1>5 DEF Injection, IsInjective
  <2>2. Cardinality(1 .. n) = Cardinality(S)
    BY <1>4, FS_Interval DEF n
  <2>3. w \in Surjection(1 .. n, S)
    BY <1>2, <2>1, <2>2, FS_Injection
  <2>4. QED
    BY <2>3 DEF Surjection
<1>7. w \in Seq(Event) /\ Len(w) = n
  BY <1>3, <1>4, <1>5
<1>8. \A i \in 1 .. Len(w) : \E d \in Conns : subs[d][a] > 0 /\ w[i] = St(d)
  <2>1. \A s \in S : \E d \in Conns : subs[d][a] > 0 /\ s = St(d)
    BY DEF S, hit
  <2>2. QED
    BY <1>5, <1>7, <2>1
<1>9. \A d \in Conns : subs[d][a] > 0 => \E m \in 1 .. Len(w) : w[m] = St(d)
  <2>1. \A d \in Conns : subs[d][a] > 0 => St(d) \in S
    BY DEF S, hit
  <2>2. QED
    BY <1>6, <1>7, <2>1
<1>10. \A i, j \in 1 .. Len(w) : w[i] = w[j] => i = j
  BY <1>5, <1>7
<1>11. QED
  BY <1>1, <1>7, <1>8, <1>9, <1>10

\* What a send leaves in a receiver.
LEMMA Sending ==
  ASSUME unread \in [Conns -> Seq(Event)], NEW w \in Seq(Event), Send(w), NEW c \in Conns
  PROVE  /\ sock[c] \in {"down", "closed"} => unread'[c] = <<>>
         /\ sock[c] \notin {"down", "closed"} =>
              /\ \E d \in 0 .. Len(unread[c] \o w) :
                   unread'[c] = SubSeq(unread[c] \o w, d + 1, Len(unread[c] \o w))
              /\ c \notin behind' => unread'[c] = unread[c] \o w
         /\ behind \subseteq behind'
<1> DEFINE all == [d \in Conns |-> IF sock[d] \in {"down", "closed"} THEN <<>> ELSE unread[d] \o w]
           full == {d \in Conns : Len(all[d]) > BusCap}
<1>1. /\ unread' = [d \in Conns |-> IF d \in full
                                     THEN SubSeq(all[d], Len(all[d]) - BusCap + 1, Len(all[d]))
                                     ELSE all[d]]
      /\ behind' = behind \cup full
  BY DEF Send
<1>2. c \in full <=> Len(all[c]) > BusCap
  OBVIOUS
<1> HIDE DEF full
<1>3. CASE sock[c] \in {"down", "closed"}
  <2>1. all[c] = <<>>
    BY <1>3
  <2> HIDE DEF all
  <2>2. c \notin full
    BY <1>2, <2>1, BusCapAssumption
  <2>3. QED
    BY <1>1, <1>3, <2>1, <2>2
<1>4. CASE sock[c] \notin {"down", "closed"}
  <2>1. all[c] = unread[c] \o w
    BY <1>4
  <2> HIDE DEF all
  <2>2. unread[c] \o w \in Seq(Event) /\ Len(unread[c] \o w) \in Nat
    BY ConcatProperties, LenProperties
  <2>3. PICK u \in Seq(Event) : u = unread[c] \o w /\ Len(u) \in Nat
    BY <2>2
  <2>4. CASE c \in full
    <3>1. unread'[c] = SubSeq(u, Len(u) - BusCap + 1, Len(u)) /\ c \in behind'
      BY <1>1, <2>1, <2>3, <2>4
    <3>2. Len(u) - BusCap \in 0 .. Len(u)
      BY <1>2, <2>1, <2>3, <2>4, BusCapAssumption
    <3>3. QED
      BY <1>1, <1>4, <2>3, <3>1, <3>2
  <2>5. CASE c \notin full
    <3>1. unread'[c] = u
      BY <1>1, <2>1, <2>3, <2>5
    <3>2. u = SubSeq(u, 0 + 1, Len(u)) /\ 0 \in 0 .. Len(u)
      BY <2>3, SubSeqFull
    <3>3. QED
      BY <1>1, <1>4, <2>3, <3>1, <3>2
  <2>6. QED
    BY <2>4, <2>5
<1>5. QED
  BY <1>3, <1>4

\* Nothing is on the ring for a connection without subscriptions.
LEMMA NothingLeft ==
  ASSUME NEW c \in Conns, NEW a \in Agents, NEW u \in Seq(Event),
         NEW n \in Nat, NEW e \in Nat, NEW g \in Sent, InOrder(c, a, u, n, e, g)
  PROVE  InOrder(c, a, <<>>, 0, e, g) /\ Complete(c, a, <<>>, 0, e, g)
<1>1. g.epoch <= e /\ Len(<<>>) = 0
  BY DEF InOrder
<1>2. InOrder(c, a, <<>>, 0, e, g)
  BY <1>1 DEF InOrder
<1>3. QED
  BY <1>2 DEF Complete

\* fanout_event
LEMMA FanOutInOrder ==
  ASSUME FramesInv, NEW k \in Cmds, cmd[k].agent \in Agents, NEW what \in {"mid", "finished"},
         FanOut(k, what), sock' = sock, epoch' = epoch, got' = got, lagged' = lagged
  PROVE  FramesInv'
<1> DEFINE hit == {c \in Conns : subs[c][cmd[k].agent] > 0}
<1>1. PICK a \in Agents : a = cmd[k].agent
  OBVIOUS
<1>2. PICK w \in Seq(Event) :
           /\ Send(w)
           /\ \A i \in 1 .. Len(w) : \E d \in Conns : subs[d][a] > 0 /\ w[i] = Stamp(d, a, k, what)
           /\ \A d \in Conns : subs[d][a] > 0 => \E m \in 1 .. Len(w) : w[m] = Stamp(d, a, k, what)
           /\ \A i, j \in 1 .. Len(w) : w[i] = w[j] => i = j
  BY <1>1, FanOutFrames
<1>3. SubsInv'
  BY FanOutStep DEF FramesInv
<1>4. /\ subs \in [Conns -> [Agents -> Nat]] /\ epoch \in [Conns -> [Agents -> Nat]]
      /\ unread \in [Conns -> Seq(Event)] /\ got \in [Conns -> [Agents -> Sent]]
  BY DEF FramesInv, SubsInv
<1>5. \A c \in Conns, b \in Agents :
        subs'[c][b] = IF subs[c][a] > 0 /\ b = a THEN subs[c][a] + 1 ELSE subs[c][b]
  <2>1. subs' = [c \in Conns |-> IF subs[c][a] > 0 THEN [subs[c] EXCEPT ![a] = @ + 1] ELSE subs[c]]
    BY <1>1 DEF FanOut
  <2>2. QED
    BY <1>4, <2>1
<1>6. ASSUME NEW c \in Conns, NEW b \in Agents, sock[c] \in {"down", "closed"}
      PROVE  /\ unread'[c] = <<>>
             /\ InOrder(c, b, unread'[c], subs'[c][b], epoch[c][b], got[c][b])
             /\ Complete(c, b, unread'[c], subs'[c][b], epoch[c][b], got[c][b])
  <2>1. unread'[c] = <<>>
    BY <1>2, <1>4, <1>6, Sending
  <2>2. subs'[c][b] = 0
    BY <1>3, <1>6 DEF SubsInv, ClosedIsUnsubscribed
  <2>3. unread[c] \in Seq(Event) /\ subs[c][b] \in Nat /\ epoch[c][b] \in Nat /\ got[c][b] \in Sent
        /\ InOrder(c, b, unread[c], subs[c][b], epoch[c][b], got[c][b])
    BY <1>4 DEF FramesInv
  <2>4. InOrder(c, b, <<>>, 0, epoch[c][b], got[c][b]) /\ Complete(c, b, <<>>, 0, epoch[c][b], got[c][b])
    BY <2>3, NothingLeft
  <2>5. QED
    BY <2>1, <2>2, <2>4
<1>7. ASSUME NEW c \in Conns, NEW b \in Agents, sock[c] \notin {"down", "closed"}
      PROVE  /\ unread'[c] \in Seq(Event)
             /\ InOrder(c, b, unread'[c], subs'[c][b], epoch[c][b], got[c][b])
             /\ c \notin behind' \cup lagged =>
                  Complete(c, b, unread'[c], subs'[c][b], epoch[c][b], got[c][b])
  <2>1. PICK u \in Seq(Event), n \in Nat, e \in Nat, g \in Sent :
          /\ u = unread[c] /\ n = subs[c][b] /\ e = epoch[c][b] /\ g = got[c][b]
          /\ InOrder(c, b, u, n, e, g)
          /\ c \notin behind \cup lagged => Complete(c, b, u, n, e, g)
    BY <1>4 DEF FramesInv
  <2>2. InOrder(c, b, u \o w, subs'[c][b], e, g)
        /\ (Complete(c, b, u, n, e, g) => Complete(c, b, u \o w, subs'[c][b], e, g))
    <3>1. CASE b = a /\ n > 0
      <4>1. subs'[c][b] = n + 1
        BY <1>5, <2>1, <3>1
      <4>2. PICK m \in 1 .. Len(w) : w[m] = Stamp(c, a, k, what)
        BY <1>2, <2>1, <3>1
      <4>3. Mine(w[m], c, b) /\ w[m].epoch = e /\ w[m].seq = n
        BY <2>1, <3>1, <4>2 DEF Stamp, Mine
      <4>4. \A i \in 1 .. Len(w) : Mine(w[i], c, b) => i = m
        <5>1. SUFFICES ASSUME NEW i \in 1 .. Len(w), Mine(w[i], c, b) PROVE w[i] = w[m]
          BY <1>2
        <5>2. PICK d \in Conns : w[i] = Stamp(d, a, k, what)
          BY <1>2
        <5>3. d = c
          BY <5>1, <5>2 DEF Mine, Stamp
        <5>4. QED
          BY <4>2, <5>2, <5>3
      <4>5. n > 0 /\ InOrder(c, b, u, n, e, g)
        BY <2>1, <3>1
      <4>6. /\ InOrder(c, b, u \o w, n + 1, e, g)
            /\ Complete(c, b, u, n, e, g) => Complete(c, b, u \o w, n + 1, e, g)
        BY <4>3, <4>4, <4>5, Stamped
      <4>7. QED
        BY <4>1, <4>6
    <3>2. CASE ~(b = a /\ n > 0)
      <4>1. subs'[c][b] = n
        BY <1>4, <1>5, <2>1, <3>2
      <4>2. \A i \in 1 .. Len(w) : ~Mine(w[i], c, b)
        <5>1. SUFFICES ASSUME NEW i \in 1 .. Len(w), Mine(w[i], c, b) PROVE FALSE
          OBVIOUS
        <5>2. PICK d \in Conns : subs[d][a] > 0 /\ w[i] = Stamp(d, a, k, what)
          BY <1>2
        <5>3. d = c /\ b = a
          BY <5>1, <5>2 DEF Mine, Stamp
        <5>4. QED
          BY <2>1, <3>2, <5>2, <5>3
      <4>3. InOrder(c, b, u, n, e, g)
        BY <2>1
      <4>4. /\ InOrder(c, b, u \o w, n, e, g)
            /\ Complete(c, b, u, n, e, g) => Complete(c, b, u \o w, n, e, g)
        BY <4>2, <4>3, NotStamped
      <4>5. QED
        BY <4>1, <4>4
    <3>3. QED
      BY <3>1, <3>2
  <2>3. /\ \E d \in 0 .. Len(u \o w) : unread'[c] = SubSeq(u \o w, d + 1, Len(u \o w))
        /\ c \notin behind' => unread'[c] = u \o w
        /\ behind \subseteq behind'
    BY <1>2, <1>4, <1>7, <2>1, Sending
  <2>4. PICK v \in Seq(Event), m \in Nat : v = u \o w /\ m = subs'[c][b]
    <3>1. u \o w \in Seq(Event)
      BY ConcatProperties
    <3>2. subs'[c][b] \in Nat
      BY <1>3 DEF SubsInv
    <3>3. QED
      BY <3>1, <3>2
  <2>5. PICK d \in 0 .. Len(v) : unread'[c] = SubSeq(v, d + 1, Len(v))
    BY <2>3, <2>4
  <2>6. InOrder(c, b, v, m, e, g)
    BY <2>2, <2>4
  <2>7. /\ SubSeq(v, d + 1, Len(v)) \in Seq(Event)
        /\ InOrder(c, b, SubSeq(v, d + 1, Len(v)), m, e, g)
    BY <2>6, Overwritten
  <2>8. QED
    BY <2>1, <2>2, <2>3, <2>4, <2>5, <2>7
<1>8. unread' \in [Conns -> Seq(Event)]
  <2>1. unread' = [c \in Conns |-> unread'[c]]
    BY <1>2 DEF Send
  <2>2. ASSUME NEW c \in Conns PROVE unread'[c] \in Seq(Event)
    <3>1. CASE sock[c] \in {"down", "closed"}
      <4>1. unread'[c] = <<>>
        BY <1>2, <1>4, <3>1, Sending
      <4>2. QED
        BY <4>1
    <3>2. CASE sock[c] \notin {"down", "closed"}
      BY <1>1, <1>7, <3>2
    <3>3. QED
      BY <3>1, <3>2
  <2>3. QED
    BY <2>1, <2>2
<1>9. QED
  BY <1>3, <1>4, <1>6, <1>7, <1>8 DEF FramesInv
\* A client subscribes, unsubscribes or leaves when its receiver has nothing left.
LEMMA SubscriptionsInOrder ==
  ASSUME FramesInv, SubsInv', NEW c \in Conns,
         Close(c) \/ \E a \in Agents : Subscribe(c, a) \/ Unsubscribe(c, a)
  PROVE  FramesInv'
<1>1. /\ unread[c] = <<>> /\ unread' = unread /\ behind' = behind /\ lagged' = lagged /\ got' = got
      /\ unread \in [Conns -> Seq(Event)] /\ got \in [Conns -> [Agents -> Sent]]
      /\ epoch \in [Conns -> [Agents -> Nat]] /\ subs \in [Conns -> [Agents -> Nat]]
  BY DEF Close, Subscribe, Unsubscribe, Listening, FramesInv, SubsInv, ring
<1>2. epoch' \in [Conns -> [Agents -> Nat]]
  <2>1. CASE Close(c)
    BY <1>1, <2>1 DEF Close
  <2>2. ASSUME NEW a \in Agents, Unsubscribe(c, a) PROVE epoch' \in [Conns -> [Agents -> Nat]]
    BY <1>1, <2>2 DEF Unsubscribe
  <2>3. ASSUME NEW a \in Agents, Subscribe(c, a) PROVE epoch' \in [Conns -> [Agents -> Nat]]
    <3>1. epoch' = [epoch EXCEPT ![c][a] = IF subs[c][a] = 0 THEN @ + 1 ELSE @]
      BY <2>3 DEF Subscribe
    <3>2. PICK n : /\ n = IF subs[c][a] = 0 THEN epoch[c][a] + 1 ELSE epoch[c][a]
                   /\ n \in Nat
      BY <1>1
    <3>5. epoch' = [epoch EXCEPT ![c] = [epoch[c] EXCEPT ![a] = n]]
      BY <3>1, <3>2
    <3>3. [epoch[c] EXCEPT ![a] = n] \in [Agents -> Nat]
      BY <1>1, <3>2
   <3>4. QED
      BY <1>1, <3>3, <3>5
  <2>4. QED
    BY <2>1, <2>2, <2>3
<1>3. \A d \in Conns, a \in Agents : d # c =>
        subs'[d][a] = subs[d][a] /\ epoch'[d][a] = epoch[d][a]
  BY <1>1 DEF Close, Subscribe, Unsubscribe
<1>4. ASSUME NEW a \in Agents
      PROVE  \/ subs'[c][a] = subs[c][a] /\ epoch'[c][a] = epoch[c][a]
             \/ subs'[c][a] = 0 /\ epoch'[c][a] = epoch[c][a]
             \/ subs'[c][a] = 1 /\ epoch'[c][a] = epoch[c][a] + 1
  <2>1. CASE Close(c)
    BY <1>1, <2>1 DEF Close
  <2>2. ASSUME NEW b \in Agents, Unsubscribe(c, b) PROVE <1>4!2
    BY <1>1, <2>2 DEF Unsubscribe
  <2>3. ASSUME NEW b \in Agents, Subscribe(c, b) PROVE <1>4!2
    BY <1>1, <2>3 DEF Subscribe
  <2>4. QED
    BY <2>1, <2>2, <2>3
<1>5. ASSUME NEW a \in Agents
      PROVE  /\ InOrder(c, a, <<>>, subs'[c][a], epoch'[c][a], got[c][a])
             /\ c \notin behind \cup lagged =>
                  Complete(c, a, <<>>, subs'[c][a], epoch'[c][a], got[c][a])
  <2>1. PICK n \in Nat, e \in Nat, g \in Sent :
          /\ n = subs[c][a] /\ e = epoch[c][a] /\ g = got[c][a]
          /\ InOrder(c, a, <<>>, n, e, g)
          /\ c \notin behind \cup lagged => Complete(c, a, <<>>, n, e, g)
    BY <1>1 DEF FramesInv
  <2>2. InOrder(c, a, <<>>, 0, e, g) /\ Complete(c, a, <<>>, 0, e, g)
    <3>1. <<>> \in Seq(Event) /\ InOrder(c, a, <<>>, n, e, g)
      BY <2>1
    <3>2. QED
      BY <3>1, NothingLeft
  <2>3. InOrder(c, a, <<>>, 1, e + 1, g) /\ Complete(c, a, <<>>, 1, e + 1, g)
    <3>1. g.epoch \in Nat /\ g.epoch <= e /\ Len(<<>>) = 0
      BY <2>2 DEF InOrder, Sent
    <3>2. Base(g, e + 1) = 0
      BY <3>1 DEF Base
    <3>3. QED
      BY <3>1, <3>2 DEF InOrder, Complete
  <2>4. QED
    BY <1>4, <2>1, <2>2, <2>3
<1>6. ASSUME NEW d \in Conns, NEW a \in Agents
      PROVE  /\ InOrder(d, a, unread'[d], subs'[d][a], epoch'[d][a], got'[d][a])
             /\ d \notin behind' \cup lagged' =>
                  Complete(d, a, unread'[d], subs'[d][a], epoch'[d][a], got'[d][a])
  <2>1. CASE d = c
    BY <1>1, <1>5, <2>1
  <2>2. CASE d # c
    BY <1>1, <1>3, <2>2 DEF FramesInv
  <2>3. QED
    BY <2>1, <2>2
<1>7. QED
  BY <1>1, <1>2, <1>6 DEF FramesInv

\* The frame a connection takes off the ring, and what it means to its client.
LEMMA ReceiveInOrder ==
  ASSUME FramesInv, SubsInv', NEW c \in Conns, Receive(c)
  PROVE  /\ FramesInv'
         /\ \A d \in Conns, a \in Agents :
              got'[d][a] # got[d][a] =>
                \/ /\ got'[d][a].epoch = got[d][a].epoch /\ got'[d][a].seq > got[d][a].seq
                   /\ d \notin lagged' => got'[d][a].seq = got[d][a].seq + 1
                \/ /\ got'[d][a].epoch > got[d][a].epoch
                   /\ d \notin lagged' => got'[d][a].seq = 1
<1>1. /\ unread[c] # <<>> /\ unread[c] \in Seq(Event)
      /\ unread \in [Conns -> Seq(Event)] /\ got \in [Conns -> [Agents -> Sent]]
      /\ epoch \in [Conns -> [Agents -> Nat]] /\ subs \in [Conns -> [Agents -> Nat]]
      /\ subs' = subs /\ epoch' = epoch
  BY DEF Receive, FramesInv, SubsInv, hub
<1>2. CASE c \in behind
  <2>1. unread' = unread /\ got' = got /\ behind' = behind \ {c} /\ lagged' = lagged \cup {c}
    BY <1>2 DEF Receive
  <2>2. behind \cup lagged \subseteq behind' \cup lagged'
    BY <2>1
  <2>3. FramesInv'
    BY <1>1, <2>1, <2>2 DEF FramesInv
  <2>4. QED
    BY <2>1, <2>3
<1>3. CASE c \notin behind
  <2>1. PICK u \in Seq(Event) : u = unread[c] /\ u # <<>>
    BY <1>1
  <2>2. PICK f \in Event : f = Head(u)
    BY <2>1, HeadTailProperties
  <2>3. Tail(u) \in Seq(Event)
    BY <2>1, HeadTailProperties
  <2>4. /\ unread' = [unread EXCEPT ![c] = Tail(u)]
        /\ behind' = behind /\ lagged' = lagged
        /\ got' = IF f.conn # c THEN got
                  ELSE [got EXCEPT ![c][f.agent] = [epoch |-> f.epoch, seq |-> f.seq]]
    BY <1>3, <2>1, <2>2 DEF Receive
  <2>5. PICK h \in Sent : h = [epoch |-> f.epoch, seq |-> f.seq]
    BY DEF Sent, Event
  <2>6. /\ f.agent \in Agents
        /\ \A d \in Conns, a \in Agents :
             got'[d][a] = IF d = c /\ Mine(f, c, a) THEN h ELSE got[d][a]
    BY <1>1, <2>4, <2>5 DEF Mine, Event
  <2>7. unread' \in [Conns -> Seq(Event)] /\ got' \in [Conns -> [Agents -> Sent]]
    <3>1. unread' \in [Conns -> Seq(Event)]
      BY <1>1, <2>3, <2>4
    <3>2. got' = got \/ got' = [got EXCEPT ![c][f.agent] = h]
      BY <2>4, <2>5
    <3>3. got' \in [Conns -> [Agents -> Sent]]
      <4>1. CASE got' = got
        BY <1>1, <4>1
      <4>2. CASE got' = [got EXCEPT ![c][f.agent] = h]
        <5>1. got' = [got EXCEPT ![c] = [got[c] EXCEPT ![f.agent] = h]]
          BY <4>2
        <5>2. [got[c] EXCEPT ![f.agent] = h] \in [Agents -> Sent]
          BY <1>1
        <5>3. QED
          BY <1>1, <5>1, <5>2
      <4>3. QED
        BY <3>2, <4>1, <4>2
    <3>4. QED
      BY <3>1, <3>3
  <2>8. /\ unread'[c] = Tail(u)
        /\ \A d \in Conns : d # c => unread'[d] = unread[d]
    BY <1>1, <2>4
  <2>9. ASSUME NEW a \in Agents
        PROVE  /\ InOrder(c, a, unread'[c], subs[c][a], epoch[c][a], got'[c][a])
               /\ c \notin behind \cup lagged =>
                    Complete(c, a, unread'[c], subs[c][a], epoch[c][a], got'[c][a])
               /\ got'[c][a] # got[c][a] =>
                    \/ /\ got'[c][a].epoch = got[c][a].epoch /\ got'[c][a].seq > got[c][a].seq
                       /\ c \notin lagged => got'[c][a].seq = got[c][a].seq + 1
                    \/ /\ got'[c][a].epoch > got[c][a].epoch
                       /\ c \notin lagged => got'[c][a].seq = 1
    <3>1. PICK n \in Nat, e \in Nat, g \in Sent :
            /\ n = subs[c][a] /\ e = epoch[c][a] /\ g = got[c][a]
            /\ InOrder(c, a, u, n, e, g)
            /\ c \notin behind \cup lagged => Complete(c, a, u, n, e, g)
      BY <1>1, <2>1 DEF FramesInv
    <3>2. CASE Mine(f, c, a)
      <4>1. InOrder(c, a, u, n, e, g) /\ Mine(Head(u), c, a) /\ u # <<>>
        BY <2>1, <2>2, <3>1, <3>2
      <4>2. /\ h.epoch = e /\ Base(g, e) < h.seq /\ g.epoch <= e
            /\ InOrder(c, a, Tail(u), n, e, h)
            /\ Complete(c, a, u, n, e, g) => /\ h.seq = Base(g, e) + 1
                                             /\ Complete(c, a, Tail(u), n, e, h)
        <5>1. LET k == [epoch |-> Head(u).epoch, seq |-> Head(u).seq]
              IN  /\ k.epoch = e /\ Base(g, e) < k.seq /\ g.epoch <= e
                  /\ InOrder(c, a, Tail(u), n, e, k)
                  /\ Complete(c, a, u, n, e, g) => /\ k.seq = Base(g, e) + 1
                                                   /\ Complete(c, a, Tail(u), n, e, k)
          BY <4>1, Taken
        <5>2. h = [epoch |-> Head(u).epoch, seq |-> Head(u).seq]
          BY <2>2, <2>5
        <5>3. QED
          BY <5>1, <5>2
      <4>3. got'[c][a] = h
        BY <2>6, <3>2
      <4>4. /\ InOrder(c, a, unread'[c], subs[c][a], epoch[c][a], got'[c][a])
            /\ c \notin behind \cup lagged =>
                 Complete(c, a, unread'[c], subs[c][a], epoch[c][a], got'[c][a])
        BY <2>8, <3>1, <4>2, <4>3
      <4>5. c \notin lagged => h.seq = Base(g, e) + 1
        BY <1>3, <3>1, <4>2
      <4>6. \/ h.epoch = g.epoch /\ h.seq > g.seq /\ (c \notin lagged => h.seq = g.seq + 1)
            \/ h.epoch > g.epoch /\ (c \notin lagged => h.seq = 1)
        BY <4>2, <4>5 DEF Base, Sent
      <4>7. QED
        BY <3>1, <4>3, <4>4, <4>6
    <3>3. CASE ~Mine(f, c, a)
      <4>1. InOrder(c, a, u, n, e, g) /\ ~Mine(Head(u), c, a) /\ u # <<>>
        BY <2>1, <2>2, <3>1, <3>3
      <4>2. /\ InOrder(c, a, Tail(u), n, e, g)
            /\ Complete(c, a, u, n, e, g) => Complete(c, a, Tail(u), n, e, g)
        BY <4>1, Skipped
      <4>3. got'[c][a] = g
        BY <2>6, <3>1, <3>3
      <4>4. QED
        BY <2>8, <3>1, <4>2, <4>3
    <3>4. QED
      BY <3>2, <3>3
  <2>10. ASSUME NEW d \in Conns, d # c, NEW a \in Agents
         PROVE  unread'[d] = unread[d] /\ got'[d][a] = got[d][a]
    BY <2>6, <2>8, <2>10
  <2>11. FramesInv'
    <3>1. ASSUME NEW d \in Conns, NEW a \in Agents
          PROVE  /\ InOrder(d, a, unread'[d], subs'[d][a], epoch'[d][a], got'[d][a])
                 /\ d \notin behind' \cup lagged' =>
                      Complete(d, a, unread'[d], subs'[d][a], epoch'[d][a], got'[d][a])
      <4>1. CASE d = c
        BY <1>1, <2>4, <2>9, <4>1
      <4>2. CASE d # c
        BY <1>1, <2>4, <2>10, <4>2 DEF FramesInv
      <4>3. QED
        BY <4>1, <4>2
    <3>2. QED
      BY <1>1, <2>7, <3>1 DEF FramesInv
  <2>12. QED
    BY <2>4, <2>9, <2>10, <2>11
<1>4. QED
  BY <1>2, <1>3

GapStep ==
  \A c \in Conns, a \in Agents :
    got'[c][a] # got[c][a] =>
      \/ /\ got'[c][a].epoch = got[c][a].epoch /\ got'[c][a].seq > got[c][a].seq
         /\ c \notin lagged' => got'[c][a].seq = got[c][a].seq + 1
      \/ /\ got'[c][a].epoch > got[c][a].epoch
         /\ c \notin lagged' => got'[c][a].seq = 1

LEMMA FramesStep == FramesInv /\ CmdInv /\ [Next]_vars => FramesInv' /\ GapStep
<1> SUFFICES ASSUME FramesInv, CmdInv, [Next]_vars PROVE FramesInv' /\ GapStep
  OBVIOUS
<1> DEFINE Goal == FramesInv' /\ GapStep
<1>1. SubsInv'
  BY SubsStep DEF FramesInv
<1>2. ASSUME UNCHANGED <<subs, epoch, unread, behind, lagged, got>> PROVE Goal
  BY <1>1, <1>2 DEF FramesInv, GapStep
<1>3. ASSUME NEW c \in Conns, Receive(c) PROVE Goal
  BY <1>1, <1>3, ReceiveInOrder DEF GapStep
<1>4. ASSUME NEW c \in Conns, Close(c) \/ \E a \in Agents : Subscribe(c, a) \/ Unsubscribe(c, a)
      PROVE  Goal
  <2>1. got' = got
    BY <1>4 DEF Close, Subscribe, Unsubscribe
  <2>2. QED
    BY <1>1, <1>4, <2>1, SubscriptionsInOrder DEF GapStep
<1>5. ASSUME NEW k \in Cmds, cmd[k].agent \in Agents, NEW what \in {"mid", "finished"}, FanOut(k, what),
             sock' = sock, epoch' = epoch, got' = got, lagged' = lagged
      PROVE  Goal
  BY <1>5, FanOutInOrder DEF GapStep
<1>6. \A k \in Cmds : cmd[k].at # "new" => cmd[k].agent \in Agents
  BY DEF CmdInv
<1>7. ASSUME NEW i \in DOMAIN posts, ApplyMid(i) \/ AnnounceHint(i) PROVE Goal
  <2>1. PICK k \in Cmds : k = posts[i].cmd /\ cmd[k].agent \in Agents
    BY <1>6, PostOf
  <2>2. /\ FanOut(k, "mid") \/ FanOut(k, "finished")
        /\ sock' = sock /\ epoch' = epoch /\ got' = got /\ lagged' = lagged
    BY <1>7, <2>1 DEF ApplyMid, AnnounceHint, Announce
  <2>3. QED
    BY <1>5, <2>1, <2>2
<1>8. ASSUME NEW k \in Cmds, SyncAnnounce(k) PROVE Goal
  <2>1. /\ FanOut(k, "finished") /\ cmd[k].agent \in Agents
        /\ sock' = sock /\ epoch' = epoch /\ got' = got /\ lagged' = lagged
    BY <1>6, <1>8 DEF SyncAnnounce, Announce
  <2>2. QED
    BY <1>5, <2>1
<1> HIDE DEF Goal
<1>9. ASSUME NEW c \in Conns, ClientStep(c) PROVE Goal
  BY <1>2, <1>4, <1>9 DEF ClientStep, Open, Hello, Start, hub, ring
<1>10. ASSUME NEW k \in Cmds, MidHint(k) \/ CmdStep(k) PROVE Goal
  BY <1>2, <1>8, <1>10
  DEF CmdStep, MidHint, Commit, Fail, Return, SyncEmit, Respond, hub, ring
<1>11. ASSUME NEW i \in DOMAIN posts, LosePost(i) \/ ApplyFinished(i) PROVE Goal
  BY <1>2, <1>11 DEF LosePost, ApplyFinished, hub, ring
<1>12. ASSUME NEW a \in Agents, Forget(a) PROVE Goal
  BY <1>2, <1>12 DEF Forget, ring
<1>13. ASSUME UNCHANGED vars PROVE Goal
  BY <1>2, <1>13 DEF vars
<1>14. Goal
  <2>1. ASSUME HintStep PROVE Goal
    BY <1>7, <1>11, <2>1, Picked DEF HintStep
  <2>2. QED
    BY <1>3, <1>9, <1>10, <1>11, <1>12, <1>13, <2>1 DEF Next
<1>15. QED
  BY <1>14 DEF Goal

\* fanout_event stamps under the lock of subs what it sends: the frames a connection
\* is sent for an agent are numbered without a hole from each subscription, unless its
\* receiver lagged, and never repeated or out of order.
THEOREM GapsMeanLag == Spec => GapMeansLag
<1>1. Init => FramesInv
  <2> SUFFICES ASSUME Init PROVE FramesInv
    OBVIOUS
  <2>1. SubsInv
    BY DEF Init, SubsInv, ClosedIsUnsubscribed
  <2>2. /\ epoch \in [Conns -> [Agents -> Nat]]
        /\ unread \in [Conns -> Seq(Event)]
        /\ got \in [Conns -> [Agents -> Sent]]
    BY DEF Init, Sent
  <2>3. ASSUME NEW c \in Conns, NEW a \in Agents
        PROVE  /\ InOrder(c, a, unread[c], subs[c][a], epoch[c][a], got[c][a])
               /\ Complete(c, a, unread[c], subs[c][a], epoch[c][a], got[c][a])
    <3>1. /\ unread[c] = <<>> /\ Len(unread[c]) = 0 /\ subs[c][a] = 0 /\ epoch[c][a] = 0
          /\ got[c][a] = [epoch |-> 0, seq |-> 0]
      BY DEF Init
    <3>2. QED
      BY <3>1 DEF InOrder, Complete
  <2>4. QED
    BY <2>1, <2>2, <2>3 DEF FramesInv
<1>2. AnnounceInv => CmdInv
  BY DEF AnnounceInv
<1>3. GapStep =>
        \A c \in Conns, a \in Agents :
          LET old == got[c][a]  new == got'[c][a]
          IN new # old =>
               \/ /\ new.epoch = old.epoch /\ new.seq > old.seq
                  /\ c \notin lagged' => new.seq = old.seq + 1
               \/ /\ new.epoch > old.epoch
                  /\ c \notin lagged' => new.seq = 1
  BY DEF GapStep
<1>4. QED
  BY <1>1, <1>2, <1>3, AnnounceAlways, FramesStep, PTL DEF Spec, GapMeansLag
=============================================================================
