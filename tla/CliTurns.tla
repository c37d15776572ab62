------------------------------ MODULE CliTurns ------------------------------
(***************************************************************************)
(* sendPrompt, interruptAgentRun and the observation gate of the CLI       *)
(* gateway (cli_gateway.rs): every prompt runs a child process, the        *)
(* gateway reads its stdout, and a tool line may hang for an approval      *)
(* while the child keeps running.  One agent: agents share the locks and   *)
(* no state.  is_running and the transcript are under one lock, the table  *)
(* of pending turns under another, the open approvals under a third.  What *)
(* happens between submit_tool_approval's removal of a slot and its send   *)
(* is ToolApproval's subject; here an approval is one step.                *)
(***************************************************************************)
EXTENDS Naturals, Sequences, FiniteSets, SequencesExt

CONSTANTS
  Turns,       \* sendPrompt calls
  Interrupts,  \* interruptAgentRun calls
  Streams,     \* the values of ATLAS_AGENT_CLI_STREAM considered: read line by line?
  Modes,       \* the values of ATLAS_TOOL_APPROVAL considered
  Timed,       \* is ATLAS_AGENT_CLI_TIMEOUT_MS set?
  Drops,       \* may the caller's connection go away (the call is dropped)?
  Nobody       \* no pending turn

ASSUME FlagsAssumption == Streams \cup {Timed, Drops} \subseteq BOOLEAN
ASSUME ModesAssumption == Modes \subseteq {"off", "gate", "auto_deny"}
ASSUME NobodyAssumption == Nobody \notin Turns

VARIABLES
  mode,        \* ApprovalState.mode, fixed when the gateway starts
  stream,      \* CliGatewayConfig.stream, fixed as well
  at,          \* where each call stands
  running,     \* AgentRecord.is_running
  pending,     \* the turn in the pending table
  sent,        \* turns whose kill signal was sent
  child,       \* each turn's process
  tool,        \* its gated tool: not started, on stdout, read by the gateway
  slots,       \* turns with an open approval in the table
  vote,        \* the decision each gate's receiver was sent
  accepted,    \* history: the decisions answered ok
  passed,      \* history: turns whose stream was read on past the tool
  outcome,     \* what run_cli returned
  transcript,  \* entries in order
  call,        \* where each interrupt stands
  held,        \* the turn an interrupt took out of the table
  killed       \* history: interrupts answered killed: true

vars == <<mode, stream, at, running, pending, sent, child, tool, slots, vote, accepted, passed,
          outcome, transcript, call, held, killed>>
ints == <<mode, stream, call, held, killed>>
gate == <<slots, vote, accepted>>

\* The stages in which run_cli holds the kill receiver.
Killable == {"armed", "reading", "gated", "draining"}

Gone == {"none", "ok", "bad", "killed"}

Entry == [who : {"user", "assistant"}, turn : Turns \cup {Nobody}]
Notice == [who : {"system"}]

TypeOK ==
  /\ mode \in Modes
  /\ stream \in Streams
  /\ at \in [Turns -> Killable \cup {"idle", "busy", "marked", "cleared", "ended",
                                     "unfiled", "noting", "done", "dropped"}]
  /\ running \in BOOLEAN
  /\ pending \in Turns \cup {Nobody}
  /\ sent \subseteq Turns
  /\ child \in [Turns -> Gone \cup {"alive", "quiet"}]
  /\ tool \in [Turns -> {"unsaid", "said", "read"}]
  /\ slots \subseteq Turns
  /\ vote \in [Turns -> {"none", "allow", "deny"}]
  /\ accepted \in [Turns -> {"none", "allow", "deny"}]
  /\ passed \subseteq Turns
  /\ outcome \in [Turns -> {"none", "reply", "denied", "failed", "interrupted"}]
  /\ transcript \in Seq(Entry \cup Notice)
  /\ call \in [Interrupts -> {"idle", "taken", "signalled", "hit", "miss"}]
  /\ held \in [Interrupts -> Turns \cup {Nobody}]
  /\ killed \subseteq Interrupts

\* Every agent starts with one entry, "ready".
Init ==
  /\ mode \in Modes
  /\ stream \in Streams
  /\ at = [t \in Turns |-> "idle"]
  /\ running = FALSE
  /\ pending = Nobody
  /\ sent = {}
  /\ child = [t \in Turns |-> "none"]
  /\ tool = [t \in Turns |-> "unsaid"]
  /\ slots = {}
  /\ vote = [t \in Turns |-> "none"]
  /\ accepted = [t \in Turns |-> "none"]
  /\ passed = {}
  /\ outcome = [t \in Turns |-> "none"]
  /\ transcript = <<[who |-> "assistant", turn |-> Nobody]>>
  /\ call = [i \in Interrupts |-> "idle"]
  /\ held = [i \in Interrupts |-> Nobody]
  /\ killed = {}

-----------------------------------------------------------------------------
Goto(t, stage) == at' = [at EXCEPT ![t] = stage]

\* run_cli returns; on every path but the child's own exit it was killed and reaped.
Ends(t, how) == Goto(t, "ended") /\ outcome' = [outcome EXCEPT ![t] = how]

Kill(t) == child' = [child EXCEPT ![t] = "killed"]

Committed(t) == \E k \in DOMAIN transcript :
                  transcript[k].who = "assistant" /\ transcript[k].turn = t

-----------------------------------------------------------------------------
(* The child process *)

ChildTool(t) ==
  /\ child[t] = "alive"
  /\ tool[t] = "unsaid"
  /\ tool' = [tool EXCEPT ![t] = "said"]
  /\ UNCHANGED <<at, running, pending, sent, child, gate, passed, outcome, transcript, ints>>

\* It closes its stdout without exiting.
ChildCloses(t) ==
  /\ child[t] = "alive"
  /\ child' = [child EXCEPT ![t] = "quiet"]
  /\ UNCHANGED <<at, running, pending, sent, tool, gate, passed, outcome, transcript, ints>>

ChildExits(t) ==
  /\ child[t] \in {"alive", "quiet"}
  /\ \E status \in {"ok", "bad"} : child' = [child EXCEPT ![t] = status]
  /\ UNCHANGED <<at, running, pending, sent, tool, gate, passed, outcome, transcript, ints>>

-----------------------------------------------------------------------------
(* sendPrompt *)

MarkRunning(t) ==
  /\ at[t] = "idle"
  /\ Goto(t, IF running THEN "busy" ELSE "marked")
  /\ running' = TRUE
  /\ UNCHANGED <<pending, sent, child, tool, gate, passed, outcome, transcript, ints>>

\* run_cli keeps the record of a turn that is removed from the table, and with it
\* the sender: removing it cancels nothing.
ClearOld(t) ==
  /\ at[t] = "marked"
  /\ Goto(t, "cleared")
  /\ pending' = Nobody
  /\ UNCHANGED <<running, sent, child, tool, gate, passed, outcome, transcript, ints>>

Arm(t) ==
  /\ at[t] = "cleared"
  /\ Goto(t, "armed")
  /\ pending' = t
  /\ UNCHANGED <<running, sent, child, tool, gate, passed, outcome, transcript, ints>>

Spawn(t) ==
  /\ at[t] = "armed"
  /\ \/ /\ Goto(t, "reading")
        /\ child' = [child EXCEPT ![t] = "alive"]
        /\ UNCHANGED outcome
     \/ Ends(t, "failed") /\ UNCHANGED child
  /\ UNCHANGED <<running, pending, sent, tool, gate, passed, transcript, ints>>

\* Stream: a gated tool line is read.  It is shown, then gated unless mode is off.
ReadTool(t) ==
  /\ at[t] = "reading" /\ stream
  /\ tool[t] = "said"
  /\ tool' = [tool EXCEPT ![t] = "read"]
  /\ \/ /\ mode = "off"
        /\ passed' = passed \cup {t}
        /\ UNCHANGED <<at, child, outcome, slots>>
     \/ /\ mode = "auto_deny"
        /\ Ends(t, "denied") /\ Kill(t)
        /\ UNCHANGED <<passed, slots>>
     \/ /\ mode = "gate"
        /\ Goto(t, "gated")
        /\ slots' = slots \cup {t}
        /\ UNCHANGED <<passed, child, outcome>>
  /\ UNCHANGED <<running, pending, sent, vote, accepted, transcript, ints>>

\* POST /approve: whoever finds the slot is answered ok, the gate hears it while it
\* hangs.
Approve(t, decision) ==
  /\ t \in slots
  /\ slots' = slots \ {t}
  /\ accepted' = [accepted EXCEPT ![t] = decision]
  /\ vote' = IF at[t] = "gated" THEN [vote EXCEPT ![t] = decision] ELSE vote
  /\ UNCHANGED <<at, running, pending, sent, child, tool, passed, outcome, transcript, ints>>

GateAllows(t) ==
  /\ at[t] = "gated"
  /\ vote[t] = "allow"
  /\ Goto(t, "reading")
  /\ passed' = passed \cup {t}
  /\ UNCHANGED <<running, pending, sent, child, tool, gate, outcome, transcript, ints>>

\* Fault: the timer lets the tool pass.
GateExpires(t) ==
  /\ at[t] = "gated"
  /\ slots' = slots \ {t}
  /\ Goto(t, "reading")
  /\ passed' = passed \cup {t}
  /\ UNCHANGED <<running, pending, sent, child, tool, vote, accepted, outcome, transcript, ints>>

\* Fault: the denied child is left running.
GateDeniesOnly(t) ==
  /\ at[t] = "gated"
  /\ slots' = slots \ {t}
  /\ Ends(t, "denied")
  /\ UNCHANGED <<running, pending, sent, child, tool, vote, accepted, passed, transcript, ints>>

\* Fault: there is no timer.
GateDeniesVoted(t) ==
  /\ at[t] = "gated"
  /\ vote[t] = "deny"
  /\ Ends(t, "denied")
  /\ Kill(t)
  /\ UNCHANGED <<running, pending, sent, tool, gate, passed, transcript, ints>>

\* Fault: a timed-out gate leaves its slot behind.
GateDeniesKeepsSlot(t) ==
  /\ at[t] = "gated"
  /\ Ends(t, "denied")
  /\ Kill(t)
  /\ UNCHANGED <<running, pending, sent, tool, gate, passed, transcript, ints>>

\* A deny arrives or the timer fires (the select! may take it over any decision):
\* the slot is removed, the child killed, and the turn ends with a closed reason as
\* its reply.
GateDenies(t) ==
  /\ at[t] = "gated"
  /\ slots' = slots \ {t}
  /\ Ends(t, "denied")
  /\ Kill(t)
  /\ UNCHANGED <<running, pending, sent, tool, vote, accepted, passed, transcript, ints>>

\* The kill signal drops the waiting gate, which leaves its slot where it is.
GateKilled(t) ==
  /\ at[t] = "gated"
  /\ t \in sent
  /\ vote[t] = "none"
  /\ Ends(t, "denied")
  /\ Kill(t)
  /\ UNCHANGED <<running, pending, sent, tool, gate, passed, transcript, ints>>

\* Fault: a receiver also resolves when its record left the table.
KilledOrUnfiled(t) ==
  /\ t \in sent \/ pending # t
  /\ \/ at[t] = "draining"
     \/ at[t] = "reading" /\ (stream => tool[t] # "said" /\ child[t] = "alive")
  /\ Ends(t, "interrupted")
  /\ Kill(t)
  /\ UNCHANGED <<running, pending, sent, tool, gate, passed, transcript, ints>>

\* The kill signal while reading or draining.  The reading select! is biased: a line,
\* or the end of stdout, that is there comes first.
Killed(t) ==
  /\ t \in sent
  /\ \/ at[t] = "draining"
     \/ at[t] = "reading" /\ (stream => tool[t] # "said" /\ child[t] = "alive")
  /\ Ends(t, "interrupted")
  /\ Kill(t)
  /\ UNCHANGED <<running, pending, sent, tool, gate, passed, transcript, ints>>

\* The soft timeout guards the reading only.
Expires(t) ==
  /\ Timed
  /\ at[t] = "reading"
  /\ Ends(t, "failed")
  /\ Kill(t)
  /\ UNCHANGED <<running, pending, sent, tool, gate, passed, transcript, ints>>

\* Stream: a line that is no UTF-8.  The child dies when run_cli drops it.
ReadFails(t) ==
  /\ at[t] = "reading" /\ stream
  /\ Ends(t, "failed")
  /\ Kill(t)
  /\ UNCHANGED <<running, pending, sent, tool, gate, passed, transcript, ints>>

\* Stream: end of stdout, wait for the child.
ReadEnd(t) ==
  /\ at[t] = "reading" /\ stream
  /\ child[t] # "alive" /\ tool[t] # "said"
  /\ Goto(t, "draining")
  /\ UNCHANGED <<running, pending, sent, child, tool, gate, passed, outcome, transcript, ints>>

\* Stream: the child exited.  Its reply, or an error for a bad status, an error line, an
\* empty reply or an echo.
CollectStream(t) ==
  /\ at[t] = "draining"
  /\ child[t] \in {"ok", "bad"}
  /\ \/ child[t] = "ok" /\ Ends(t, "reply")
     \/ Ends(t, "failed")
  /\ UNCHANGED <<running, pending, sent, child, tool, gate, passed, transcript, ints>>

\* Text: only the exit is awaited, and no tool is seen.
CollectText(t) ==
  /\ at[t] = "reading" /\ ~stream
  /\ child[t] \in {"ok", "bad"}
  /\ \/ child[t] = "ok" /\ Ends(t, "reply")
     \/ Ends(t, "failed")
  /\ UNCHANGED <<running, pending, sent, child, tool, gate, passed, transcript, ints>>

\* clear_pending, whosever record is in the table.
Unfile(t) ==
  /\ at[t] = "ended"
  /\ Goto(t, "unfiled")
  /\ pending' = Nobody
  /\ UNCHANGED <<running, sent, child, tool, gate, passed, outcome, transcript, ints>>

\* Fault: whatever the child printed before it failed is committed.
SettleAny(t) ==
  /\ at[t] = "unfiled"
  /\ running' = FALSE
  /\ Goto(t, IF outcome[t] = "interrupted" THEN "noting" ELSE "done")
  /\ transcript' = transcript \o <<[who |-> "user", turn |-> t],
                                   [who |-> "assistant", turn |-> t]>>
  /\ UNCHANGED <<pending, sent, child, tool, gate, passed, outcome, ints>>

\* commit_turn for a reply or a refusal, set_running(false) for an error.
Settle(t) ==
  /\ at[t] = "unfiled"
  /\ running' = FALSE
  /\ Goto(t, IF outcome[t] = "interrupted" THEN "noting" ELSE "done")
  /\ transcript' = IF outcome[t] \in {"reply", "denied"}
                   THEN transcript \o <<[who |-> "user", turn |-> t],
                                        [who |-> "assistant", turn |-> t]>>
                   ELSE transcript
  /\ UNCHANGED <<pending, sent, child, tool, gate, passed, outcome, ints>>

Note(t) ==
  /\ at[t] = "noting"
  /\ Goto(t, "done")
  /\ transcript' = Append(transcript, [who |-> "system"])
  /\ UNCHANGED <<running, pending, sent, child, tool, gate, passed, outcome, ints>>

\* The caller's connection goes away: the call is dropped at an await, the child is
\* killed on drop, everything shared stays as it is.
Drop(t) ==
  /\ Drops
  /\ at[t] \notin {"idle", "busy", "done", "dropped"}
  /\ Goto(t, "dropped")
  /\ child' = [child EXCEPT ![t] = IF @ \in {"alive", "quiet"} THEN "killed" ELSE @]
  /\ UNCHANGED <<running, pending, sent, tool, gate, passed, outcome, transcript, ints>>

-----------------------------------------------------------------------------
(* interruptAgentRun *)

TakePending(i) ==
  /\ call[i] = "idle"
  /\ call' = [call EXCEPT ![i] = "taken"]
  /\ held' = [held EXCEPT ![i] = pending]
  /\ pending' = Nobody
  /\ UNCHANGED <<at, running, sent, child, tool, gate, passed, outcome, transcript, killed, mode, stream>>

\* Fault: the signal is recorded whether or not a turn was in the table.
SignalBlind(i) ==
  /\ call[i] = "taken"
  /\ call' = [call EXCEPT ![i] = "signalled"]
  /\ sent' = sent \cup {held[i]}
  /\ UNCHANGED <<at, running, pending, child, tool, gate, passed, outcome, transcript, held, killed, mode, stream>>

\* killed says whether the receiver was still there.
Signal(i) ==
  /\ call[i] = "taken"
  /\ call' = [call EXCEPT ![i] = "signalled"]
  /\ LET t == held[i]
         heard == t # Nobody /\ at[t] \in Killable
     IN /\ sent' = IF heard THEN sent \cup {t} ELSE sent
        /\ killed' = IF heard THEN killed \cup {i} ELSE killed
  /\ UNCHANGED <<at, running, pending, child, tool, gate, passed, outcome, transcript, held, mode, stream>>

MarkIdle(i) ==
  /\ call[i] = "signalled"
  /\ call' = [call EXCEPT ![i] = IF running \/ i \in killed THEN "hit" ELSE "miss"]
  /\ running' = FALSE
  /\ UNCHANGED <<at, pending, sent, child, tool, gate, passed, outcome, transcript, held, killed, mode, stream>>

-----------------------------------------------------------------------------
Prompt(t) ==
  \/ ClearOld(t) \/ Arm(t) \/ Spawn(t)
  \/ ReadTool(t) \/ GateKilled(t) \/ GateAllows(t) \/ GateDenies(t)
  \/ Killed(t) \/ Expires(t) \/ ReadFails(t) \/ ReadEnd(t)
  \/ CollectStream(t) \/ CollectText(t)
  \/ Unfile(t) \/ Settle(t) \/ Note(t)

Child(t) == ChildTool(t) \/ ChildCloses(t) \/ ChildExits(t)

Interrupt(i) == TakePending(i) \/ Signal(i) \/ MarkIdle(i)

Next ==
  \/ \E t \in Turns : \/ MarkRunning(t) \/ Prompt(t) \/ Child(t) \/ Drop(t)
                      \/ \E decision \in {"allow", "deny"} : Approve(t, decision)
  \/ \E i \in Interrupts : Interrupt(i)

Spec == Init /\ [][Next]_vars

\* The runtime polls the calls under way and timers fire; nothing is assumed of the
\* child, of callers or of approvers.
Fairness == \A t \in Turns : WF_vars(Prompt(t) /\ ~ReadFails(t))

FairSpec == Spec /\ Fairness

\* The child does exit.
ExitingSpec == FairSpec /\ \A t \in Turns : WF_vars(ChildExits(t))

-----------------------------------------------------------------------------
(* Properties *)

\* However a prompt ends, its child has ended: no return path, refusal, timeout or
\* dropped call leaves a process behind.
ChildReaped ==
  \A t \in Turns : at[t] \in {"ended", "unfiled", "noting", "done", "dropped"} => child[t] \in Gone

\* A turn is in the transcript, its two entries together and once, exactly if it was
\* answered with a reply or a refusal; an error leaves nothing.
AnswerMatchesTranscript ==
  /\ \A t \in Turns : at[t] \in {"noting", "done"} =>
                        (Committed(t) <=> outcome[t] \in {"reply", "denied"})
  /\ \A t \in Turns : at[t] \notin {"noting", "done"} => ~Committed(t)
  /\ \A j, k \in DOMAIN transcript :
       /\ transcript[j].who = "assistant" /\ transcript[k].who = "assistant"
       /\ transcript[j].turn = transcript[k].turn
       => j = k
  /\ \A k \in DOMAIN transcript : transcript[k].who = "user" =>
       /\ k < Len(transcript)
       /\ transcript[k + 1] = [who |-> "assistant", turn |-> transcript[k].turn]
  /\ \A k \in DOMAIN transcript :
       transcript[k].who = "assistant" /\ transcript[k].turn # Nobody =>
         k > 1 /\ transcript[k - 1] = [who |-> "user", turn |-> transcript[k].turn]

\* A prompt is answered gateway/run-interrupted only if an interrupt that answered
\* killed: true had taken this very turn.
InterruptedByInterrupt ==
  \A t \in Turns : outcome[t] = "interrupted" => \E i \in killed : held[i] = t

\* In mode gate the stream is read on past a gated tool only after an approver was
\* answered ok for an allow; in mode auto_deny never.
NoPassWithoutAllow ==
  \A t \in passed : mode # "off" => mode = "gate" /\ accepted[t] = "allow"

\* A slot is open while its turn hangs at the gate.  One that stays open behind it,
\* and accepts decisions nobody waits for, was left by an interrupt or a dropped
\* call that took the turn from under its gate, never by a vote or the timer.
LeftSlotHasCause ==
  \A t \in slots : at[t] = "gated" \/ t \in sent \/ at[t] = "dropped"

\* Every prompt returns, whatever is approved, killed or timed out, if children exit.
PromptReturns == \A t \in Turns : at[t] = "marked" ~> at[t] \in {"done", "dropped"}

\* cli-primary-runbook.md:126: the timeout is one of a whole turn.  With it set, every
\* prompt returns, whatever the child does.
TimeoutBoundsTurn == Timed => PromptReturns
=============================================================================
