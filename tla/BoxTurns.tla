------------------------------ MODULE BoxTurns ------------------------------
(***************************************************************************)
(* Turns of the box sidecar (box_sidecar.rs): send_prompt and              *)
(* interrupt_agent_run.  No lock spans a turn: is_running, the pending     *)
(* cancel holder, the transcript and the history are each taken for one    *)
(* statement, so every such statement is an action, and turns and          *)
(* interrupts of one agent interleave between them.  The tool gate inside  *)
(* a turn is ApprovalContract, which ToolApproval implements.              *)
(***************************************************************************)
EXTENDS Naturals, Sequences, FiniteSets, SequencesExt

CONSTANTS
  Agents,
  Turns,        \* sendPrompt calls
  Interrupts,   \* interruptAgentRun calls
  Tools,        \* gated tools (write_file, shell_cat, shell_mkdir)
  Plans,        \* the sequences of gated tools a prompt may trigger
  Modes,        \* approval modes the process may be started in
  Llm,          \* is a chat model configured?
  Delay,        \* is ATLAS_BOX_TURN_DELAY_MS nonzero?
  HistoryMax,   \* ATLAS_BOX_HISTORY_MAX_TURNS
  Unlucky,      \* turns whose HTTP connection may die, dropping the handler
  Nobody        \* neither a turn nor an agent

ASSUME NobodyAssumption == Nobody \notin Turns \cup Agents
ASSUME PlansAssumption == Plans \subseteq Seq(Tools)
ASSUME ConfigAssumption == Llm \in BOOLEAN /\ Delay \in BOOLEAN
ASSUME HistoryAssumption == HistoryMax \in Nat \ {0}
ASSUME UnluckyAssumption == Unlucky \subseteq Turns

VARIABLES
  isRunning,   \* AgentRecord.is_running
  pending,     \* agent -> the turn whose cancel sender the map holds
  cancel,      \* each turn's cancel sender: "none", "armed", "fired", "dropped"
  transcript,  \* agent -> its entries
  nextSeq,     \* next_entry_seq
  history,     \* agent -> the turns remembered for the model, oldest first
  session,     \* agent -> the turns in session.jsonl
  effects,     \* gated tool calls that touched the workspace
  pc,          \* where each turn stands
  turn,        \* its agent, its kind of prompt and the tools still to run
  seen,        \* its history snapshot
  result,      \* what its caller gets, "none" before
  int,         \* each interrupt: where it stands, its agent, holder and answer
  mode, vote, verdict   \* the tool gate, see ApprovalContract

turnVars == <<pc, turn, seen, result>>
logVars  == <<transcript, nextSeq, history, session>>
gateVars == <<mode, vote, verdict>>
vars == <<isRunning, pending, cancel, logVars, effects, turnVars, int, gateVars>>

ToolCalls == Turns \X Tools
Gate == INSTANCE ApprovalContract WITH Gates <- ToolCalls

Stages == {"new", "marked", "cleared", "delay", "snapshot", "gate", "tool", "llm",
           "body", "reply", "persist", "clear", "unwind", "unset", "notice", "done"}
Results == {"none", "busy", "completed", "interrupted", "error", "dropped"}
Entry == [turn : Turns \cup {Nobody}, role : {"user", "assistant", "system"}, seq : Nat]

TypeOK ==
  /\ isRunning \in [Agents -> BOOLEAN]
  /\ pending \in [Agents -> Turns \cup {Nobody}]
  /\ cancel \in [Turns -> {"none", "armed", "fired", "dropped"}]
  /\ transcript \in [Agents -> Seq(Entry)]
  /\ nextSeq \in [Agents -> Nat]
  /\ history \in [Agents -> Seq(Turns)]
  /\ session \in [Agents -> Seq(Turns)]
  /\ effects \subseteq ToolCalls
  /\ pc \in [Turns -> Stages]
  /\ turn \in [Turns -> [agent : Agents \cup {Nobody}, chat : BOOLEAN, todo : Seq(Tools)]]
  /\ seen \in [Turns -> Seq(Turns)]
  /\ result \in [Turns -> Results]
  /\ int \in [Interrupts -> [at : {"new", "took", "signaled", "done"},
                             agent : Agents \cup {Nobody}, holder : Turns \cup {Nobody},
                             killed : BOOLEAN, active : BOOLEAN]]
  /\ mode \in Modes
  /\ vote \in [ToolCalls -> Gate!Decisions \cup {"none"}]
  /\ verdict \in [ToolCalls -> Gate!Verdicts \cup {"open"}]

Init ==
  /\ isRunning = [a \in Agents |-> FALSE]
  /\ pending = [a \in Agents |-> Nobody]
  /\ cancel = [t \in Turns |-> "none"]
  /\ transcript = [a \in Agents |-> <<[turn |-> Nobody, role |-> "assistant", seq |-> 1]>>]
  /\ nextSeq = [a \in Agents |-> 2]
  /\ history = [a \in Agents |-> <<>>]
  /\ session = [a \in Agents |-> <<>>]
  /\ effects = {}
  /\ pc = [t \in Turns |-> "new"]
  /\ turn = [t \in Turns |-> [agent |-> Nobody, chat |-> FALSE, todo |-> <<>>]]
  /\ seen = [t \in Turns |-> <<>>]
  /\ result = [t \in Turns |-> "none"]
  /\ int = [i \in Interrupts |-> [at |-> "new", agent |-> Nobody, holder |-> Nobody,
                                  killed |-> FALSE, active |-> FALSE]]
  /\ Gate!Init

-----------------------------------------------------------------------------
(* Helpers *)

Agent(t) == turn[t].agent

\* A prompt with no tool trigger goes to the model when there is one.
AsksModel(t) == turn[t].chat /\ Llm

AfterTools(t, todo) ==
  IF todo # <<>> THEN "gate" ELSE IF AsksModel(t) THEN "llm" ELSE "reply"

\* chat_complete owns and drops the receiver; the other paths keep it to the end
\* of send_prompt, since `let _ = cancel_rx` does not move it.
ReceiverAlive(t) ==
  \/ pc[t] \in {"delay", "snapshot", "gate", "tool", "llm", "body"}
  \/ pc[t] \in {"reply", "persist", "clear"} /\ ~AsksModel(t)

\* Removing or replacing a holder in the map drops its sender.
DropHolder(a) ==
  cancel' = [t \in Turns |->
               IF t = pending[a] /\ cancel[t] = "armed" THEN "dropped" ELSE cancel[t]]

ClearPending(a) ==
  /\ pending' = [pending EXCEPT ![a] = Nobody]
  /\ DropHolder(a)

Goto(t, stage) == pc' = [pc EXCEPT ![t] = stage]

Return(t, r) ==
  /\ Goto(t, "done")
  /\ result' = [result EXCEPT ![t] = r]

\* Fault: truncate keeps the oldest turns.
KeptOldest(h) == SubSeq(h, 1, IF Len(h) > HistoryMax THEN HistoryMax ELSE Len(h))

\* Drop the oldest turns beyond the cap.
Kept(h) == SubSeq(h, IF Len(h) > HistoryMax THEN Len(h) - HistoryMax + 1 ELSE 1, Len(h))

-----------------------------------------------------------------------------
(* send_prompt *)

\* Fault: the flag is set without being tested.
MarkAnyway(t, a, chat, plan) ==
  /\ pc[t] = "new"
  /\ isRunning' = [isRunning EXCEPT ![a] = TRUE]
  /\ turn' = [turn EXCEPT ![t] = [agent |-> a, chat |-> chat, todo |-> plan]]
  /\ Goto(t, "marked")
  /\ UNCHANGED <<pending, cancel, logVars, effects, seen, result, int, gateVars>>

\* mark_running: one turn at a time, unless an interrupt clears the flag.
MarkRunning(t, a, chat, plan) ==
  /\ pc[t] = "new"
  /\ ~isRunning[a]
  /\ isRunning' = [isRunning EXCEPT ![a] = TRUE]
  /\ turn' = [turn EXCEPT ![t] = [agent |-> a, chat |-> chat, todo |-> plan]]
  /\ Goto(t, "marked")
  /\ UNCHANGED <<pending, cancel, logVars, effects, seen, result, int, gateVars>>

Busy(t, a) ==
  /\ pc[t] = "new"
  /\ isRunning[a]
  /\ turn' = [turn EXCEPT ![t].agent = a]
  /\ Return(t, "busy")
  /\ UNCHANGED <<isRunning, pending, cancel, logVars, effects, seen, int, gateVars>>

ClearOld(t) ==
  /\ pc[t] = "marked"
  /\ ClearPending(Agent(t))
  /\ Goto(t, "cleared")
  /\ UNCHANGED <<isRunning, logVars, effects, turn, seen, result, int, gateVars>>

Arm(t) ==
  /\ pc[t] = "cleared"
  /\ pending' = [pending EXCEPT ![Agent(t)] = t]
  /\ cancel' = [u \in Turns |->
                  IF u = t THEN "armed"
                  ELSE IF u = pending[Agent(t)] /\ cancel[u] = "armed" THEN "dropped"
                  ELSE cancel[u]]
  /\ Goto(t, IF Delay THEN "delay" ELSE "snapshot")
  /\ UNCHANGED <<isRunning, logVars, effects, turn, seen, result, int, gateVars>>

DelayEnds(t) ==
  /\ pc[t] = "delay"
  /\ Goto(t, "snapshot")
  /\ UNCHANGED <<isRunning, pending, cancel, logVars, effects, turn, seen, result, int, gateVars>>

\* The receiver resolves when the sender fired, and also when it was dropped.
Cut(t) ==
  /\ pc[t] \in {"delay", "llm"}
  /\ cancel[t] \in {"fired", "dropped"}
  /\ Goto(t, "unwind")
  /\ result' = [result EXCEPT ![t] = "interrupted"]
  /\ UNCHANGED <<isRunning, pending, cancel, logVars, effects, turn, seen, int, gateVars>>

Snapshot(t) ==
  /\ pc[t] = "snapshot"
  /\ seen' = [seen EXCEPT ![t] = history[Agent(t)]]
  /\ Goto(t, AfterTools(t, turn[t].todo))
  /\ UNCHANGED <<isRunning, pending, cancel, logVars, effects, turn, result, int, gateVars>>

\* The gate of the tool at hand settles, one way or another ...
SettleTool(t) ==
  /\ pc[t] = "gate"
  /\ LET g == <<t, Head(turn[t].todo)>> IN
       \/ Gate!Allow(g)
       \/ Gate!Deny(g)
       \/ \E d \in Gate!Decisions : Gate!Preset(g, d)
  /\ Goto(t, "tool")
  /\ UNCHANGED <<isRunning, pending, cancel, logVars, effects, turn, seen, result, int>>

\* ... after a vote, or before one that comes too late.
Approve(t, d) ==
  /\ pc[t] \in {"gate", "tool"}
  /\ Gate!Vote(<<t, Head(turn[t].todo)>>, d)
  /\ UNCHANGED <<isRunning, pending, cancel, logVars, effects, turnVars, int>>

\* Fault: only an explicit deny vote stops the tool.
RunUnlessDenied(t) ==
  /\ pc[t] = "tool"
  /\ LET g == <<t, Head(turn[t].todo)>> IN
       \/ effects' = effects
       \/ vote[g] # "deny" /\ effects' = effects \cup {g}
  /\ turn' = [turn EXCEPT ![t].todo = Tail(@)]
  /\ Goto(t, AfterTools(t, Tail(turn[t].todo)))
  /\ UNCHANGED <<isRunning, pending, cancel, logVars, seen, result, int, gateVars>>

\* An allowed tool runs; it may still fail (path escape, I/O error).
RunTool(t) ==
  /\ pc[t] = "tool"
  /\ LET g == <<t, Head(turn[t].todo)>> IN
       \/ effects' = effects
       \/ verdict[g] = "allowed" /\ effects' = effects \cup {g}
  /\ turn' = [turn EXCEPT ![t].todo = Tail(@)]
  /\ Goto(t, AfterTools(t, Tail(turn[t].todo)))
  /\ UNCHANGED <<isRunning, pending, cancel, logVars, seen, result, int, gateVars>>

\* chat_complete: cancellable until the response head, not while its body is read.
ModelAnswers(t) ==
  \/ /\ pc[t] = "llm"
     /\ Goto(t, "body")
     /\ UNCHANGED <<isRunning, pending, cancel, logVars, effects, turn, seen, result, int, gateVars>>
  \/ /\ pc[t] = "body"
     /\ Goto(t, "reply")
     /\ UNCHANGED <<isRunning, pending, cancel, logVars, effects, turn, seen, result, int, gateVars>>

\* Request, status, body, empty content, or a reply that echoes the prompt.
ModelFails(t) ==
  /\ pc[t] \in {"llm", "body"}
  /\ Goto(t, "unwind")
  /\ result' = [result EXCEPT ![t] = "error"]
  /\ UNCHANGED <<isRunning, pending, cancel, logVars, effects, turn, seen, int, gateVars>>

\* Faults: the flag stays set, and a cancelled turn is refused only after it
\* was written.
CommitKeepsFlag(t) ==
  LET a == Agent(t)
      n == nextSeq[a]
  IN /\ pc[t] = "reply"
     /\ transcript' = [transcript EXCEPT ![a] =
          @ \o << [turn |-> t, role |-> "user", seq |-> n],
                  [turn |-> t, role |-> "assistant", seq |-> n + 1] >>]
     /\ nextSeq' = [nextSeq EXCEPT ![a] = n + 2]
     /\ history' = [history EXCEPT ![a] = Kept(Append(@, t))]
     /\ Goto(t, "persist")
     /\ UNCHANGED <<isRunning, pending, cancel, session, effects, turn, seen, result, int, gateVars>>

CommitThenCheck(t) ==
  LET a == Agent(t)
      n == nextSeq[a]
  IN /\ pc[t] = "reply"
     /\ transcript' = [transcript EXCEPT ![a] =
          @ \o << [turn |-> t, role |-> "user", seq |-> n],
                  [turn |-> t, role |-> "assistant", seq |-> n + 1] >>]
     /\ nextSeq' = [nextSeq EXCEPT ![a] = n + 2]
     /\ history' = [history EXCEPT ![a] = Kept(Append(@, t))]
     /\ isRunning' = [isRunning EXCEPT ![a] = FALSE]
     /\ Goto(t, IF cancel[t] = "fired" THEN "unwind" ELSE "persist")
     /\ result' = [result EXCEPT ![t] = IF cancel[t] = "fired" THEN "interrupted" ELSE @]
     /\ UNCHANGED <<pending, cancel, session, effects, turn, seen, int, gateVars>>

\* commit_turn: the pair, the history and is_running change under one lock.
Commit(t) ==
  LET a == Agent(t)
      n == nextSeq[a]
  IN /\ pc[t] = "reply"
     /\ transcript' = [transcript EXCEPT ![a] =
          @ \o << [turn |-> t, role |-> "user", seq |-> n],
                  [turn |-> t, role |-> "assistant", seq |-> n + 1] >>]
     /\ nextSeq' = [nextSeq EXCEPT ![a] = n + 2]
     /\ history' = [history EXCEPT ![a] = Kept(Append(@, t))]
     /\ isRunning' = [isRunning EXCEPT ![a] = FALSE]
     /\ Goto(t, "persist")
     /\ UNCHANGED <<pending, cancel, session, effects, turn, seen, result, int, gateVars>>

\* soft_persist_session, outside the lock; a failed write is only logged.
Persist(t) ==
  /\ pc[t] = "persist"
  /\ \/ session' = session
     \/ session' = [session EXCEPT ![Agent(t)] = Append(@, t)]
  /\ Goto(t, "clear")
  /\ UNCHANGED <<isRunning, pending, cancel, transcript, nextSeq, history, effects, turn, seen,
                 result, int, gateVars>>

\* Fault: a wait for the turn's own holder.
FinishOwn(t) ==
  /\ pc[t] = "clear"
  /\ pending[Agent(t)] = t
  /\ ClearPending(Agent(t))
  /\ Return(t, "completed")
  /\ UNCHANGED <<isRunning, logVars, effects, turn, seen, int, gateVars>>

\* clear_pending removes the agent's holder, whosever it is by now.
Finish(t) ==
  /\ pc[t] = "clear"
  /\ ClearPending(Agent(t))
  /\ Return(t, "completed")
  /\ UNCHANGED <<isRunning, logVars, effects, turn, seen, int, gateVars>>

-----------------------------------------------------------------------------
(* The error path of send_prompt: clear_pending, set_running(false), notice *)

\* Fault: the holder stays.
UnwindKeepsPending(t) ==
  /\ pc[t] = "unwind"
  /\ Goto(t, "unset")
  /\ UNCHANGED <<isRunning, pending, cancel, logVars, effects, turn, seen, result, int, gateVars>>

UnwindPending(t) ==
  /\ pc[t] = "unwind"
  /\ ClearPending(Agent(t))
  /\ Goto(t, "unset")
  /\ UNCHANGED <<isRunning, logVars, effects, turn, seen, result, int, gateVars>>

\* set_running(false) does not look whose run it ends.
UnwindRunning(t) ==
  /\ pc[t] = "unset"
  /\ isRunning' = [isRunning EXCEPT ![Agent(t)] = FALSE]
  /\ Goto(t, IF result[t] = "interrupted" THEN "notice" ELSE "done")
  /\ UNCHANGED <<pending, cancel, logVars, effects, turn, seen, result, int, gateVars>>

Notice(t) ==
  LET a == Agent(t)
  IN /\ pc[t] = "notice"
     /\ transcript' = [transcript EXCEPT ![a] =
          Append(@, [turn |-> t, role |-> "system", seq |-> nextSeq[a]])]
     /\ nextSeq' = [nextSeq EXCEPT ![a] = @ + 1]
     /\ Goto(t, "done")
     /\ UNCHANGED <<isRunning, pending, cancel, history, session, effects, turn, seen,
                    result, int, gateVars>>

\* The invoke's connection dies and the handler's future is dropped at an await:
\* is_running and the holder in the map stay as they are.
Drop(t) ==
  /\ t \in Unlucky
  /\ pc[t] \notin {"new", "persist", "done"}
  /\ Return(t, "dropped")
  /\ UNCHANGED <<isRunning, pending, cancel, logVars, effects, turn, seen, int, gateVars>>

-----------------------------------------------------------------------------
(* interrupt_agent_run *)

TakePending(i, a) ==
  /\ int[i].at = "new"
  /\ int' = [int EXCEPT ![i].at = "took", ![i].agent = a, ![i].holder = pending[a]]
  /\ pending' = [pending EXCEPT ![a] = Nobody]
  /\ UNCHANGED <<isRunning, cancel, logVars, effects, turnVars, gateVars>>

\* The send succeeds when the turn still holds its receiver.
Signal(i) ==
  LET t == int[i].holder
      sent == t # Nobody /\ cancel[t] = "armed" /\ ReceiverAlive(t)
  IN /\ int[i].at = "took"
     /\ int' = [int EXCEPT ![i].at = "signaled", ![i].killed = sent]
     /\ cancel' = IF sent THEN [cancel EXCEPT ![t] = "fired"] ELSE cancel
     /\ UNCHANGED <<isRunning, pending, logVars, effects, turnVars, gateVars>>

\* no_active_run unless the flag is set or the signal got through.
MarkIdle(i) ==
  LET a == int[i].agent
  IN /\ int[i].at = "signaled"
     /\ int' = [int EXCEPT ![i].at = "done", ![i].active = isRunning[a] \/ int[i].killed]
     /\ isRunning' = [isRunning EXCEPT ![a] = FALSE]
     /\ UNCHANGED <<pending, cancel, logVars, effects, turnVars, gateVars>>

-----------------------------------------------------------------------------
\* A prompt either has triggers and a plan of gated tools, or is pure chat.
Call(t) ==
  \E a \in Agents :
    \/ MarkRunning(t, a, TRUE, <<>>)
    \/ \E plan \in Plans : MarkRunning(t, a, FALSE, plan)
    \/ Busy(t, a)

TurnStep(t) ==
  \/ ClearOld(t)
  \/ Arm(t)
  \/ DelayEnds(t)
  \/ Cut(t)
  \/ Snapshot(t)
  \/ SettleTool(t)
  \/ RunTool(t)
  \/ ModelAnswers(t)
  \/ ModelFails(t)
  \/ Commit(t)
  \/ Persist(t)
  \/ Finish(t)
  \/ UnwindPending(t)
  \/ UnwindRunning(t)
  \/ Notice(t)

InterruptStep(i) == Signal(i) \/ MarkIdle(i)

Next ==
  \/ \E t \in Turns : Call(t) \/ TurnStep(t) \/ Drop(t)
  \/ \E t \in Turns, d \in Gate!Decisions : Approve(t, d)
  \/ \E i \in Interrupts, a \in Agents : TakePending(i, a)
  \/ \E i \in Interrupts : InterruptStep(i)

Spec == Init /\ [][Next]_vars

\* A woken task is polled, the delay and the approval timer expire and the model
\* request has a timeout; nobody has to send a prompt, vote or interrupt.
Fairness ==
  /\ \A t \in Turns : WF_vars(TurnStep(t))
  /\ \A i \in Interrupts : WF_vars(InterruptStep(i))

FairSpec == Spec /\ Fairness

-----------------------------------------------------------------------------
(* Properties *)

\* Turns between mark_running and the statement that clears the flag again.
Live(t) == pc[t] \notin {"new", "persist", "clear", "notice", "done"}

NoInterrupt(a) == \A i \in Interrupts : int[i].agent # a

\* As long as nobody interrupts the agent, at most one of its turns is between
\* mark_running and commit_turn, whatever earlier turns still have to clean up
\* and however they ended (completed, model error, connection lost).
TurnsExclude ==
  \A t, u \in Turns :
    Live(t) /\ Live(u) /\ Agent(t) = Agent(u) /\ NoInterrupt(Agent(t)) => t = u

\* Nothing outlives its turn: the agent is never left running with no turn behind
\* the flag, and the map holds no cancel sender of a turn that returned, unless its
\* handler was dropped with its connection.
NothingOutlivesTurn ==
  \A a \in Agents :
    /\ isRunning[a] => \E t \in Turns : Agent(t) = a /\ (Live(t) \/ result[t] = "dropped")
    /\ pending[a] # Nobody =>
         /\ Agent(pending[a]) = a
         /\ pc[pending[a]] = "done" => result[pending[a]] = "dropped"

\* Whatever turns and notices interleave, entry k has seq k (what beforeSeq
\* paging and the clients' dedupe rely on) and a user entry is followed by the
\* assistant entry of the same turn.
TranscriptWellFormed ==
  \A a \in Agents :
    /\ nextSeq[a] = Len(transcript[a]) + 1
    /\ \A k \in DOMAIN transcript[a] :
         /\ transcript[a][k].seq = k
         /\ transcript[a][k].role = "user" =>
              /\ k + 1 \in DOMAIN transcript[a]
              /\ transcript[a][k + 1].role = "assistant"
              /\ transcript[a][k + 1].turn = transcript[a][k].turn

UserEntries(t) ==
  {k \in DOMAIN transcript[Agent(t)] :
     transcript[Agent(t)][k].turn = t /\ transcript[Agent(t)][k].role = "user"}

\* The caller's answer, the transcript and session.jsonl agree: a completed turn is in
\* the transcript once, one answered interrupted, error or busy left no pair behind,
\* and the session log only has committed turns, each at most once.
ResultMatchesTranscript ==
  /\ \A t \in Turns :
       pc[t] = "done" /\ result[t] # "dropped" =>
         IF result[t] = "completed"
         THEN \E k \in UserEntries(t) : UserEntries(t) = {k}
         ELSE Agent(t) = Nobody \/ UserEntries(t) = {}
  /\ \A a \in Agents :
       /\ IsInjective(session[a])
       /\ \A k \in DOMAIN session[a] : UserEntries(session[a][k]) # {}

\* What is written of a turn is written whole, in order, and as it was answered.
TurnsAreRecorded == TranscriptWellFormed /\ ResultMatchesTranscript

\* In mode gate no gated tool touches the workspace without an accepted allow
\* for that very call, also when the turn was interrupted meanwhile.
NoEffectWithoutAllow ==
  mode = "gate" => \A g \in effects : vote[g] = "allow"

\* The positions of the prompts in a transcript.
Prompts(s) == {k \in DOMAIN s : s[k].role = "user"}

\* h is the last HistoryMax turns committed to s: the prompt with n later ones is
\* n from its end.
Recent(s, h) ==
  /\ Len(h) = IF Cardinality(Prompts(s)) < HistoryMax THEN Cardinality(Prompts(s))
              ELSE HistoryMax
  /\ \A k \in Prompts(s) :
       LET later == Cardinality({j \in Prompts(s) : j > k})
       IN later < HistoryMax => h[Len(h) - later] = s[k].turn

\* What the model is told is the end of the transcript: the last HistoryMax
\* committed turns, in commit order, with no notice and no failed turn.
HistoryIsSuffix == \A a \in Agents : Recent(transcript[a], history[a])

\* A turn nobody interrupted composes its reply from the history it is appended
\* to: no turn commits between its snapshot and its commit.
ContextIsFresh ==
  \A t \in Turns :
    pc[t] \in {"gate", "tool", "llm", "body", "reply"} /\ NoInterrupt(Agent(t)) =>
      seen[t] = history[Agent(t)]

\* The context of a turn is the recent past and nothing else.
ContextIsRecent == HistoryIsSuffix /\ ContextIsFresh

\* Every accepted prompt returns: delay, gate and model are all bounded.
PromptReturns == \A t \in Turns : pc[t] = "marked" ~> pc[t] = "done"

Abandoned(a) == \E t \in Turns : Agent(t) = a /\ result[t] = "dropped"

\* The agent never stays running for ever: no interleaving of commits, interrupts
\* and unwinding wedges it, only a turn dropped with its connection does.
IdleAgain == \A a \in Agents : isRunning[a] ~> ~isRunning[a] \/ Abandoned(a)
=============================================================================
