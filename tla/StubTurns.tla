----------------------------- MODULE StubTurns -----------------------------
(***************************************************************************)
(* The in-memory gateway (atlas-bot-gateway, lib.rs): sendPrompt answers   *)
(* "accepted" and a spawned task echoes the prompt after a delay, unless   *)
(* interruptAgentRun cancels it first.  One agent: agents share the locks  *)
(* and no state.  is_running and the transcript live under one lock, the   *)
(* table of cancel senders (pending) under another; every step here is the *)
(* code between two of those locks.                                        *)
(***************************************************************************)
EXTENDS Naturals, Sequences, FiniteSets, SequencesExt

CONSTANTS
  Turns,       \* sendPrompt calls
  Interrupts,  \* interruptAgentRun calls
  Nobody       \* no cancel sender

ASSUME NobodyAssumption == Nobody \notin Turns

VARIABLES
  at,          \* where each sendPrompt call and its task stand
  immediate,   \* the turns that asked for no delay
  running,     \* AgentRecord.is_running
  pending,     \* the turn whose cancel sender is in the table
  cancelled,   \* the turns whose cancel sender was used
  transcript,  \* entries in order
  nextSeq,     \* next_entry_seq
  hints,       \* Finished hints in the order they were published
  call,        \* where each interrupt stands
  held         \* the turn whose sender an interrupt took out of the table

vars == <<at, immediate, running, pending, cancelled, transcript, nextSeq, hints, call,
          held>>
log == <<transcript, nextSeq>>

\* Every agent starts with one entry, "ready".
Init ==
  /\ at = [t \in Turns |-> "idle"]
  /\ immediate = {}
  /\ running = FALSE
  /\ pending = Nobody
  /\ cancelled = {}
  /\ transcript = <<[who |-> "assistant", turn |-> Nobody, seq |-> 1]>>
  /\ nextSeq = 2
  /\ hints = <<>>
  /\ call = [i \in Interrupts |-> "idle"]
  /\ held = [i \in Interrupts |-> Nobody]

-----------------------------------------------------------------------------
Goto(t, stage) == at' = [at EXCEPT ![t] = stage]

\* The two entries of a committed turn.
Pair(t) == <<[who |-> "user", turn |-> t, seq |-> nextSeq],
             [who |-> "assistant", turn |-> t, seq |-> nextSeq + 1]>>

\* Turns between mark_running and the end of finish_turn's critical section.
Live == {t \in Turns : at[t] \in {"marked", "cleared", "armed", "due"}}

\* The receiver resolves when the sender was used or dropped; a sender lives in
\* the table, or in the hands of the interrupt that took it out.
SenderGone(t) ==
  \/ t \in cancelled
  \/ pending # t /\ \A i \in Interrupts : call[i] = "taken" => held[i] # t

Committed(t) == \E k \in DOMAIN transcript :
                  transcript[k].who = "assistant" /\ transcript[k].turn = t

-----------------------------------------------------------------------------
(* sendPrompt *)

\* Fault: a running agent is not refused.
MarkAnyway(t, now) ==
  /\ at[t] = "idle"
  /\ Goto(t, "marked")
  /\ running' = TRUE
  /\ immediate' = IF now THEN immediate \cup {t} ELSE immediate
  /\ UNCHANGED <<pending, cancelled, log, hints, call, held>>

MarkRunning(t, now) ==
  /\ at[t] = "idle"
  /\ IF running
     THEN Goto(t, "busy") /\ UNCHANGED <<running, immediate>>
     ELSE /\ Goto(t, "marked")
          /\ running' = TRUE
          /\ immediate' = IF now THEN immediate \cup {t} ELSE immediate
  /\ UNCHANGED <<pending, cancelled, log, hints, call, held>>

ClearOld(t) ==
  /\ at[t] = "marked"
  /\ Goto(t, "cleared")
  /\ pending' = Nobody
  /\ UNCHANGED <<immediate, running, cancelled, log, hints, call, held>>

\* The sender is filed, the task spawned and the call answered accepted: true.
Arm(t) ==
  /\ at[t] = "cleared"
  /\ Goto(t, "armed")
  /\ pending' = t
  /\ UNCHANGED <<immediate, running, cancelled, log, hints, call, held>>

\* The caller's connection ends while the call waits for a lock: the flag stays up
\* and no task is spawned to take it down.
Drop(t) ==
  /\ at[t] \in {"marked", "cleared"}
  /\ Goto(t, "dropped")
  /\ UNCHANGED <<immediate, running, pending, cancelled, log, hints, call, held>>

-----------------------------------------------------------------------------
(* The spawned task *)

DelayEnds(t) ==
  /\ at[t] = "armed"
  /\ Goto(t, "due")
  /\ UNCHANGED <<immediate, running, pending, cancelled, log, hints, call, held>>

Cut(t) ==
  /\ at[t] = "armed"
  /\ t \notin immediate
  /\ SenderGone(t)
  /\ Goto(t, "cut")
  /\ UNCHANGED <<immediate, running, pending, cancelled, log, hints, call, held>>

\* Fault: the reply does not advance the counter.
FinishOneSeq(t) ==
  /\ at[t] = "due"
  /\ running
  /\ Goto(t, "finished")
  /\ running' = FALSE
  /\ transcript' = transcript \o Pair(t)
  /\ nextSeq' = nextSeq + 1
  /\ UNCHANGED <<immediate, pending, cancelled, hints, call, held>>

\* Fault: the task of an interrupted run waits for the flag.
FinishWaits(t) ==
  /\ at[t] = "due"
  /\ running
  /\ Goto(t, "finished")
  /\ running' = FALSE
  /\ transcript' = transcript \o Pair(t)
  /\ nextSeq' = nextSeq + 2
  /\ UNCHANGED <<immediate, pending, cancelled, hints, call, held>>

\* Fault: the flag is not looked at, and the echo of an interrupted run comes too.
FinishUnchecked(t) ==
  /\ at[t] = "due"
  /\ Goto(t, "finished")
  /\ running' = FALSE
  /\ transcript' = transcript \o Pair(t)
  /\ nextSeq' = nextSeq + 2
  /\ UNCHANGED <<immediate, pending, cancelled, hints, call, held>>

\* finish_turn under the lock; nothing to do when the run was interrupted.
Finish(t) ==
  /\ at[t] = "due"
  /\ \/ /\ running
        /\ Goto(t, "finished")
        /\ running' = FALSE
        /\ transcript' = transcript \o Pair(t)
        /\ nextSeq' = nextSeq + 2
     \/ /\ ~running
        /\ Goto(t, "done")
        /\ UNCHANGED <<running, log>>
  /\ UNCHANGED <<immediate, pending, cancelled, hints, call, held>>

\* After the lock: clear_pending, whosever sender is in the table, and the hint.
Publish(t) ==
  /\ at[t] = "finished"
  /\ Goto(t, "done")
  /\ pending' = Nobody
  /\ hints' = Append(hints, t)
  /\ UNCHANGED <<immediate, running, cancelled, log, call, held>>

-----------------------------------------------------------------------------
(* interruptAgentRun *)

TakePending(i) ==
  /\ call[i] = "idle"
  /\ call' = [call EXCEPT ![i] = "taken"]
  /\ held' = [held EXCEPT ![i] = pending]
  /\ pending' = Nobody
  /\ UNCHANGED <<at, immediate, running, cancelled, log, hints>>

Signal(i) ==
  /\ call[i] = "taken"
  /\ call' = [call EXCEPT ![i] = "signalled"]
  /\ cancelled' = cancelled \cup ({held[i]} \ {Nobody})
  /\ UNCHANGED <<at, immediate, running, pending, log, hints, held>>

\* hadActiveRun is whatever is_running says now; a notice joins the transcript.
MarkIdle(i) ==
  /\ call[i] = "signalled"
  /\ \/ /\ running
        /\ call' = [call EXCEPT ![i] = "hit"]
        /\ running' = FALSE
        /\ transcript' = Append(transcript, [who |-> "system", seq |-> nextSeq])
        /\ nextSeq' = nextSeq + 1
     \/ /\ ~running
        /\ call' = [call EXCEPT ![i] = "miss"]
        /\ UNCHANGED <<running, log>>
  /\ UNCHANGED <<at, immediate, pending, cancelled, hints, held>>

\* The call is dropped at one of its locks, and the sender it holds with it.
DropCall(i) ==
  /\ call[i] \in {"taken", "signalled"}
  /\ call' = [call EXCEPT ![i] = "dropped"]
  /\ UNCHANGED <<at, immediate, running, pending, cancelled, log, hints, held>>

-----------------------------------------------------------------------------
Prompt(t) ==
  \/ \E now \in BOOLEAN : MarkRunning(t, now)
  \/ ClearOld(t)
  \/ Arm(t)
  \/ Drop(t)

Task(t) == DelayEnds(t) \/ Cut(t) \/ Finish(t) \/ Publish(t)

Interrupt(i) == TakePending(i) \/ Signal(i) \/ MarkIdle(i) \/ DropCall(i)

Next ==
  \/ \E t \in Turns : Prompt(t) \/ Task(t)
  \/ \E i \in Interrupts : Interrupt(i)

Spec == Init /\ [][Next]_vars

\* The runtime polls calls under way and spawned tasks; callers call when they like.
Fairness == \A t \in Turns : WF_vars(ClearOld(t) \/ Arm(t)) /\ WF_vars(Task(t))

FairSpec == Spec /\ Fairness

-----------------------------------------------------------------------------
(* Properties *)

\* Entries are numbered 1, 2, 3, ..., the counter follows them, and a user entry is
\* always followed by the echo of the same prompt, whatever turns and interrupts
\* interleave.
TranscriptWellFormed ==
  /\ nextSeq = Len(transcript) + 1
  /\ \A k \in DOMAIN transcript :
       /\ transcript[k].seq = k
       /\ transcript[k].who = "user" =>
            /\ k < Len(transcript)
            /\ transcript[k + 1].who = "assistant"
            /\ transcript[k + 1].turn = transcript[k].turn

\* Until an interrupt begins, a turn that is under way owns is_running: no two turns
\* are under way at once, and the flag does not drop under one of them.
OneLive ==
  (\A i \in Interrupts : call[i] = "idle") => Cardinality(Live) <= 1 /\ (Live # {} => running)

\* Each time the flag goes up it comes down once: a prompt was echoed, or an interrupt
\* was told hadActiveRun.  So no interrupt is told so of a run that another one, or
\* an echo, had ended, and the echoes that are missing are as many as those answers,
\* whichever prompts they belong to.
RunsAreAccounted ==
  Cardinality({t \in Turns : at[t] \notin {"idle", "busy"}}) =
    Cardinality({t \in Turns : Committed(t)})
      + Cardinality({i \in Interrupts : call[i] = "hit"})
      + (IF running THEN 1 ELSE 0)

\* is_running is right before an interrupt begins, and its books balance after.
FlagIsExact == OneLive /\ RunsAreAccounted

\* A Finished hint is published exactly for the turns whose entries are in the
\* transcript, once each, and only after they are.
HintsFollowCommits ==
  /\ IsInjective(hints)
  /\ Range(hints) = {t \in Turns : Committed(t) /\ at[t] = "done"}

\* What the hub is told, what the transcript holds and how it is numbered agree.
TurnsAreRecorded == TranscriptWellFormed /\ HintsFollowCommits

\* Every prompt that took the flag comes to an end, cut, dropped or not.
TaskEnds == \A t \in Turns : at[t] = "marked" ~> at[t] \in {"done", "cut", "dropped"}

\* P3-runbook.md:40: "sendPrompt enters running for ~300ms (interruptible), then
\* echoes".  A task that ended without an interrupt has echoed its prompt.
AcceptedIsEchoed ==
  Interrupts = {} => \A t \in Turns : at[t] \in {"done", "cut"} => Committed(t)
=============================================================================
