----------------------------- MODULE HubEvents -----------------------------
(***************************************************************************)
(* How the hub turns gateway hints into bot.event frames (atlas-bot-hub):  *)
(* subscriptions and their per-(connection, agent) seq, the fan-out onto   *)
(* one broadcast ring, the dedupe of hub:turn_finished, and the loop of a  *)
(* WebSocket connection.  That loop awaits a bot.command inline, so while  *)
(* the gateway works on it the connection reads nothing from the ring.     *)
(* Hints reach the hub over POST /internal/runtime-hint, each in a task of *)
(* its own (late, reordered or lost), or over the in-process bridge.       *)
(***************************************************************************)
EXTENDS Naturals, Sequences, SequencesExt

CONSTANTS
  Conns,     \* WebSocket connections
  Agents,
  Cmds,      \* sendPrompt commands
  Texts,     \* reply previews
  Blank,     \* the empty one: of a reply that is only white space
  BusCap,    \* slots of the broadcast ring
  Bridges,   \* hints over the in-process bridge (TRUE), over HTTP ingest (FALSE)
  Lapses,    \* may two seconds pass between hints?
  MaxEpoch,  \* bound: subscriptions of one (connection, agent)
  Nothing    \* no connection, agent, command or text

ASSUME ConnsAssumption == IsFiniteSet(Conns)
ASSUME BusCapAssumption == BusCap \in Nat \ {0}
ASSUME MaxEpochAssumption == MaxEpoch \in Nat
ASSUME BridgeAssumption == Bridges \cup Lapses \subseteq BOOLEAN
ASSUME NothingAssumption == Nothing \notin Conns \cup Agents \cup Cmds \cup Texts

VARIABLES
  sock,     \* each connection's loop: "down", "open", "ready", "busy", "closed"
  subs,     \* Hub.subs: the next seq of each (connection, agent), 0 = not subscribed
  epoch,    \* history: how often the pair was newly subscribed
  unread,   \* what each connection's receiver of Hub.event_bus has still to take
  behind,   \* connections whose unread frames were overwritten
  lagged,   \* history: connections whose receiver was told Lagged
  got,      \* history: the last frame each (connection, agent) was sent
  cmd,      \* each command: where it stands, its connection, agent and reply
  posts,    \* hints under way to the hub, and those it is working on
  dedupe,   \* Hub.finished_dedupe: the preview remembered for each agent
  emitted,  \* history: the turns announced by hub:turn_finished, in order
  bridge,   \* is the in-process hint bridge active? fixed when the hub starts
  lapse     \* two seconds may pass between two hints of this behaviour

vars == <<sock, subs, epoch, unread, behind, lagged, got, cmd, posts, dedupe, emitted, bridge, lapse>>
ring == <<unread, behind>>
hub == <<subs, epoch, dedupe, emitted, bridge, lapse>>

Event == [conn : Conns, agent : Agents, seq : Nat, epoch : Nat, cmd : Cmds,
          what : {"mid", "finished"}]

TypeOK ==
  /\ sock \in [Conns -> {"down", "open", "ready", "busy", "closed"}]
  /\ subs \in [Conns -> [Agents -> Nat]]
  /\ epoch \in [Conns -> [Agents -> Nat]]
  /\ unread \in [Conns -> Seq(Event)]
  /\ \A c \in Conns : Len(unread[c]) <= BusCap
  /\ behind \subseteq Conns
  /\ lagged \subseteq Conns
  /\ got \in [Conns -> [Agents -> [epoch : Nat, seq : Nat]]]
  /\ cmd \in [Cmds -> [at : {"new", "running", "committed", "emit", "fanout",
                             "respond", "refuse", "done", "failed"},
                       conn : Conns \cup {Nothing}, agent : Agents \cup {Nothing},
                       text : Texts \cup {Nothing}, hinted : BOOLEAN]]
  /\ posts \in Seq([cmd : Cmds, what : {"mid", "finished", "fanout"}])
  /\ dedupe \in [Agents -> Texts \cup {Nothing}]
  /\ emitted \in Seq(Cmds)
  /\ bridge \in Bridges
  /\ lapse \in Lapses

Init ==
  /\ sock = [c \in Conns |-> "down"]
  /\ subs = [c \in Conns |-> [a \in Agents |-> 0]]
  /\ epoch = [c \in Conns |-> [a \in Agents |-> 0]]
  /\ unread = [c \in Conns |-> <<>>]
  /\ behind = {}
  /\ lagged = {}
  /\ got = [c \in Conns |-> [a \in Agents |-> [epoch |-> 0, seq |-> 0]]]
  /\ cmd = [k \in Cmds |-> [at |-> "new", conn |-> Nothing, agent |-> Nothing,
                            text |-> Nothing, hinted |-> FALSE]]
  /\ posts = <<>>
  /\ dedupe = [a \in Agents |-> Nothing]
  /\ emitted = <<>>
  /\ bridge \in Bridges
  /\ lapse \in Lapses

-----------------------------------------------------------------------------
(* Helpers *)

\* A send on the ring reaches every receiver and overwrites the oldest frame of
\* one that is BusCap behind.
Send(frames) ==
  LET all == [c \in Conns |-> IF sock[c] \in {"down", "closed"} THEN <<>>
                              ELSE unread[c] \o frames]
      full == {c \in Conns : Len(all[c]) > BusCap}
  IN /\ unread' = [c \in Conns |->
                     IF c \in full
                     THEN SubSeq(all[c], Len(all[c]) - BusCap + 1, Len(all[c]))
                     ELSE all[c]]
     /\ behind' = behind \cup full

\* Fault: the counter is advanced before the frame is stamped.
FanOutLate(k, what) ==
  LET a == cmd[k].agent
      hit == {c \in Conns : subs[c][a] > 0}
      stamped(c) == [conn |-> c, agent |-> a, seq |-> subs[c][a] + 1, epoch |-> epoch[c][a],
                     cmd |-> k, what |-> what]
  IN /\ \E frames \in SetToSeqs({stamped(c) : c \in hit}) : Send(frames)
     /\ subs' = [c \in Conns |->
                   IF c \in hit THEN [subs[c] EXCEPT ![a] = @ + 1] ELSE subs[c]]

\* fanout_event, under the write lock of subs: stamp and send to each subscriber,
\* in the order of a HashMap.
FanOut(k, what) ==
  LET a == cmd[k].agent
      hit == {c \in Conns : subs[c][a] > 0}
      stamped(c) == [conn |-> c, agent |-> a, seq |-> subs[c][a], epoch |-> epoch[c][a],
                     cmd |-> k, what |-> what]
  IN /\ \E frames \in SetToSeqs({stamped(c) : c \in hit}) : Send(frames)
     /\ subs' = [c \in Conns |->
                   IF c \in hit THEN [subs[c] EXCEPT ![a] = @ + 1] ELSE subs[c]]

\* Fault: any turn of the agent within two seconds counts as a repetition.
SameAgent(k) == dedupe[cmd[k].agent] # Nothing

\* Fault: nothing is recognised.
NeverDuplicate(k) == FALSE

\* emit_turn_finished: the same preview for the same agent within two seconds.
Duplicate(k) == dedupe[cmd[k].agent] = cmd[k].text

Remember(k) == dedupe' = [dedupe EXCEPT ![cmd[k].agent] = cmd[k].text]

Announce(k) == FanOut(k, "finished") /\ emitted' = Append(emitted, k)

\* The select! of the socket loop is biased: a message is read when the receiver
\* has nothing left.
Listening(c) == sock[c] = "ready" /\ unread[c] = <<>>

\* HTTP tasks finish in any order; the bridge takes hints one by one.
Pickable == IF bridge THEN DOMAIN posts \cap {1} ELSE DOMAIN posts

Goto(k, stage) == cmd' = [cmd EXCEPT ![k].at = stage]

-----------------------------------------------------------------------------
(* The socket loop *)

Open(c) ==
  /\ sock[c] = "down"
  /\ sock' = [sock EXCEPT ![c] = "open"]
  /\ UNCHANGED <<hub, ring, lagged, got, cmd, posts>>

Hello(c) ==
  /\ sock[c] = "open"
  /\ unread[c] = <<>>
  /\ sock' = [sock EXCEPT ![c] = "ready"]
  /\ UNCHANGED <<hub, ring, lagged, got, cmd, posts>>

\* Fault: the receiver that lagged is polled again where it was.
ReceiveStuck(c) ==
  /\ sock[c] \in {"open", "ready"}
  /\ unread[c] # <<>>
  /\ IF c \in behind
     THEN lagged' = lagged \cup {c} /\ UNCHANGED <<unread, got>>
     ELSE /\ unread' = [unread EXCEPT ![c] = Tail(@)]
          /\ UNCHANGED <<lagged, got>>
  /\ UNCHANGED <<hub, behind, sock, cmd, posts>>

\* A frame of another connection is skipped; a receiver that missed frames is told
\* Lagged first, and the loop ignores it.
Receive(c) ==
  /\ sock[c] \in {"open", "ready"}
  /\ unread[c] # <<>>
  /\ LET f == Head(unread[c])
     IN IF c \in behind
        THEN /\ behind' = behind \ {c}
             /\ lagged' = lagged \cup {c}
             /\ UNCHANGED <<unread, got>>
        ELSE /\ unread' = [unread EXCEPT ![c] = Tail(@)]
             /\ got' = IF f.conn # c THEN got
                       ELSE [got EXCEPT ![c][f.agent] = [epoch |-> f.epoch, seq |-> f.seq]]
             /\ UNCHANGED <<behind, lagged>>
  /\ UNCHANGED <<hub, sock, cmd, posts>>

\* An agent that is already subscribed keeps its counter.
Subscribe(c, a) ==
  /\ Listening(c)
  /\ subs[c][a] = 0 => epoch[c][a] < MaxEpoch
  /\ subs' = [subs EXCEPT ![c][a] = IF @ = 0 THEN 1 ELSE @]
  /\ epoch' = [epoch EXCEPT ![c][a] = IF subs[c][a] = 0 THEN @ + 1 ELSE @]
  /\ UNCHANGED <<ring, sock, lagged, got, cmd, posts, dedupe, emitted, bridge, lapse>>

Unsubscribe(c, a) ==
  /\ Listening(c)
  /\ subs[c][a] > 0
  /\ subs' = [subs EXCEPT ![c][a] = 0]
  /\ UNCHANGED <<ring, sock, epoch, lagged, got, cmd, posts, dedupe, emitted, bridge, lapse>>

\* Fault: the connection is not unregistered.
CloseKeepsSubs(c) ==
  /\ sock[c] \in {"open", "ready"} /\ unread[c] = <<>>
  /\ sock' = [sock EXCEPT ![c] = "closed"]
  /\ UNCHANGED <<hub, ring, lagged, got, cmd, posts>>

Close(c) ==
  /\ sock[c] \in {"open", "ready"} /\ unread[c] = <<>>
  /\ sock' = [sock EXCEPT ![c] = "closed"]
  /\ subs' = [subs EXCEPT ![c] = [a \in Agents |-> 0]]
  /\ UNCHANGED <<ring, epoch, lagged, got, cmd, posts, dedupe, emitted, bridge, lapse>>

\* bot.command sendPrompt: the loop awaits the gateway, which runs one turn of an
\* agent at a time.
Start(c, k, a, text) ==
  /\ Listening(c)
  /\ cmd[k].at = "new"
  /\ sock' = [sock EXCEPT ![c] = "busy"]
  /\ cmd' = [cmd EXCEPT ![k] =
       [at |-> IF \E j \in Cmds : cmd[j].agent = a /\ cmd[j].at = "running"
               THEN "refuse" ELSE "running",
        conn |-> c, agent |-> a, text |-> text, hinted |-> FALSE]]
  /\ UNCHANGED <<hub, ring, lagged, got, posts>>

-----------------------------------------------------------------------------
(* The gateway, as far as the hub sees it *)

\* A mid-turn hint: tool, approval_pending or assistant_delta (one per turn here).
MidHint(k) ==
  /\ cmd[k].at = "running"
  /\ ~cmd[k].hinted
  /\ posts' = Append(posts, [cmd |-> k, what |-> "mid"])
  /\ cmd' = [cmd EXCEPT ![k].hinted = TRUE]
  /\ UNCHANGED <<hub, ring, sock, lagged, got>>

\* commit_turn and the Finished hint.
Commit(k) ==
  /\ cmd[k].at = "running"
  /\ posts' = Append(posts, [cmd |-> k, what |-> "finished"])
  /\ Goto(k, "committed")
  /\ UNCHANGED <<hub, ring, sock, lagged, got>>

\* The invoke returns an error: interrupted, refused by the model.
Fail(k) ==
  /\ cmd[k].at = "running"
  /\ Goto(k, "refuse")
  /\ UNCHANGED <<hub, ring, sock, lagged, got, posts>>

\* A POST that fails is only logged; the bridge's receiver, lagging, skips its
\* oldest hints.
LosePost(i) ==
  /\ posts[i].what # "fanout"
  /\ bridge => \A j \in 1 .. i - 1 : posts[j].what = "fanout"
  /\ posts' = RemoveAt(posts, i)
  /\ UNCHANGED <<hub, ring, sock, lagged, got, cmd>>

-----------------------------------------------------------------------------
(* The hub *)

\* apply_runtime_hint
ApplyMid(i) ==
  /\ posts[i].what = "mid"
  /\ FanOut(posts[i].cmd, "mid")
  /\ posts' = RemoveAt(posts, i)
  /\ UNCHANGED <<sock, epoch, lagged, got, cmd, dedupe, emitted, bridge, lapse>>

\* emit_turn_finished checks the fingerprint under one lock ...
ApplyFinished(i) ==
  /\ posts[i].what = "finished"
  /\ IF Duplicate(posts[i].cmd)
     THEN posts' = RemoveAt(posts, i) /\ dedupe' = dedupe
     ELSE posts' = [posts EXCEPT ![i].what = "fanout"] /\ Remember(posts[i].cmd)
  /\ UNCHANGED <<ring, sock, subs, epoch, lagged, got, cmd, emitted, bridge, lapse>>

\* ... and fans out under another.
AnnounceHint(i) ==
  /\ posts[i].what = "fanout"
  /\ Announce(posts[i].cmd)
  /\ posts' = RemoveAt(posts, i)
  /\ UNCHANGED <<sock, epoch, lagged, got, cmd, dedupe, bridge, lapse>>

\* The invoke returned; after_command_success leaves the event to an active bridge.
Return(k) ==
  /\ cmd[k].at = "committed"
  /\ Goto(k, IF bridge THEN "respond" ELSE "emit")
  /\ UNCHANGED <<hub, ring, sock, lagged, got, posts>>

\* An answer with an empty preview announces nothing (its hint would).
SyncEmit(k) ==
  /\ cmd[k].at = "emit"
  /\ IF cmd[k].text = Blank \/ Duplicate(k)
     THEN Goto(k, "respond") /\ dedupe' = dedupe
     ELSE Goto(k, "fanout") /\ Remember(k)
  /\ UNCHANGED <<ring, sock, subs, epoch, lagged, got, posts, emitted, bridge, lapse>>

SyncAnnounce(k) ==
  /\ cmd[k].at = "fanout"
  /\ Announce(k)
  /\ Goto(k, "respond")
  /\ UNCHANGED <<sock, epoch, lagged, got, posts, dedupe, bridge, lapse>>

\* The loop gets its response, queues it for the client and selects again.
Respond(k) ==
  /\ cmd[k].at \in {"respond", "refuse"}
  /\ sock' = [sock EXCEPT ![cmd[k].conn] = "ready"]
  /\ Goto(k, IF cmd[k].at = "respond" THEN "done" ELSE "failed")
  /\ UNCHANGED <<hub, ring, lagged, got, posts>>

\* Two seconds pass.
Forget(a) ==
  /\ lapse
  /\ dedupe[a] # Nothing
  /\ dedupe' = [dedupe EXCEPT ![a] = Nothing]
  /\ UNCHANGED <<ring, sock, subs, epoch, lagged, got, cmd, posts, emitted, bridge, lapse>>

-----------------------------------------------------------------------------
HintStep == \E i \in Pickable : ApplyMid(i) \/ ApplyFinished(i) \/ AnnounceHint(i)

CmdStep(k) ==
  \/ Commit(k) \/ Fail(k) \/ Return(k) \/ SyncEmit(k) \/ SyncAnnounce(k) \/ Respond(k)

ClientStep(c) ==
  \/ Open(c)
  \/ Hello(c)
  \/ Close(c)
  \/ \E a \in Agents : Subscribe(c, a) \/ Unsubscribe(c, a)
  \/ \E k \in Cmds, a \in Agents, t \in Texts : Start(c, k, a, t)

Next ==
  \/ \E c \in Conns : ClientStep(c) \/ Receive(c)
  \/ \E k \in Cmds : MidHint(k) \/ CmdStep(k)
  \/ \E i \in DOMAIN posts : LosePost(i)
  \/ HintStep
  \/ \E a \in Agents : Forget(a)

Spec == Init /\ [][Next]_vars

\* The runtime polls woken tasks and the gateway's turns return (BoxTurns,
\* PromptReturns); clients do as they like.
Fairness ==
  /\ \A c \in Conns : WF_vars(Receive(c))
  /\ \A k \in Cmds : WF_vars(CmdStep(k))
  /\ WF_vars(HintStep)

FairSpec == Spec /\ Fairness

-----------------------------------------------------------------------------
(* Properties *)

\* The frames a connection gets for an agent are numbered 1, 2, 3, ... from each new
\* subscription, whatever hints, commands and repeated subscriptions interleave.  A hole
\* means that the receiver lagged, and even then nothing comes out of order or twice.
GapMeansLag ==
  [][\A c \in Conns, a \in Agents :
       LET old == got[c][a]  new == got'[c][a]
       IN new # old =>
            \/ /\ new.epoch = old.epoch /\ new.seq > old.seq
               /\ c \notin lagged' => new.seq = old.seq + 1
            \/ /\ new.epoch > old.epoch
               /\ c \notin lagged' => new.seq = 1]_vars

\* A connection that closed, or never said hello, leaves no subscription behind
\* that fan-out would keep stamping.
ClosedIsUnsubscribed ==
  \A c \in Conns, a \in Agents : sock[c] \in {"down", "open", "closed"} => subs[c][a] = 0

\* The announcement of a turn went out, or its fan-out is the next thing a task does.
Announced(k) ==
  \/ k \in Range(emitted)
  \/ cmd[k].at = "fanout"
  \/ [cmd |-> k, what |-> "fanout"] \in Range(posts)

\* A committed prompt is answered on the sync path only after its turn was announced,
\* lost and late hints or not.  There are two exceptions: another turn of the agent
\* whose reply has the same preview stands for it (the dedupe compares previews, not
\* turns), or the preview is empty (a CLI reply of white space alone).
AnsweredIsAnnounced ==
  \A k \in Cmds :
    cmd[k].at \in {"respond", "done"} /\ ~bridge /\ cmd[k].text # Blank =>
      \/ Announced(k)
      \/ \E j \in Cmds \ {k} :
           cmd[j].agent = cmd[k].agent /\ cmd[j].text = cmd[k].text /\ Announced(j)

\* One turn is announced twice within the window only when another reply of the
\* agent was announced too: the hub remembers one preview per agent, so only that
\* can hide the repetition from it.
RepeatsHaveCause == ~lapse =>
  \A i, j \in DOMAIN emitted :
    i # j /\ emitted[i] = emitted[j] =>
      \E k \in Cmds :
        /\ cmd[k].agent = cmd[emitted[i]].agent /\ cmd[k].text # cmd[emitted[i]].text
        /\ Announced(k)

\* Frames sent to a connection are taken off the ring: no command, and no frame,
\* keeps the loop from coming back to its receiver.
FramesAreTaken == \A c \in Conns : unread[c] # <<>> ~> unread[c] = <<>>

\* pc-ui-ta1-checklist.md:50: after Send the card of the pending approval shows
\* up, that is while the prompt hangs.  When a prompt is answered, the connection
\* that sent it has received the mid-turn frames sent to it so far.
MidTurnIsMidTurn ==
  [][\A k \in Cmds :
       Respond(k) => \A f \in Range(unread[cmd[k].conn]) :
                       ~(f.conn = cmd[k].conn /\ f.cmd = k /\ f.what = "mid")]_vars

=============================================================================
