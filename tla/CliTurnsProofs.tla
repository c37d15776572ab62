--------------------------- MODULE CliTurnsProofs ---------------------------
(***************************************************************************)
(* TLAPS proofs about CliTurns, for any prompts, interrupts and modes.     *)
(* IInv adds to the invariants what a turn's stage says about its child,   *)
(* what an open slot says about its tool and its vote, and where a kill    *)
(* signal came from; KeptInv what it says about the transcript.            *)
(***************************************************************************)
EXTENDS CliTurns, SequenceTheorems, TLAPS

\* Before the spawn there is no child.
NotSpawned ==
  \A t \in Turns : at[t] \in {"idle", "busy", "marked", "cleared", "armed"} => child[t] = "none"

\* A tool the gateway has not read was put to no vote; an open slot was not voted on;
\* what the gate heard is what was accepted.
VotesFollowSlots ==
  \A t \in Turns :
    /\ tool[t] # "read" => t \notin slots /\ accepted[t] = "none" /\ vote[t] = "none"
    /\ t \in slots => accepted[t] = "none"
    /\ vote[t] # "none" => accepted[t] = vote[t]

\* Only mode gate hangs.
GatedInMode == \A t \in Turns : at[t] = "gated" => mode = "gate"

\* A kill signal was sent by an interrupt that holds the turn and is past taking it.
SignalHasCause ==
  /\ \A t \in sent : \E i \in killed : held[i] = t
  /\ \A i \in killed : call[i] \in {"signalled", "hit"}

\* Only an interrupted turn leaves a notice.
KeptInv ==
  /\ AnswerMatchesTranscript
  /\ \A t \in Turns : at[t] = "noting" => outcome[t] = "interrupted"

IInv ==
  /\ TypeOK
  /\ NotSpawned
  /\ VotesFollowSlots
  /\ GatedInMode
  /\ SignalHasCause
  /\ ChildReaped
  /\ InterruptedByInterrupt
  /\ NoPassWithoutAllow
  /\ LeftSlotHasCause

-----------------------------------------------------------------------------
LEMMA InitEstablishes == Init => IInv
<1> SUFFICES ASSUME Init PROVE IInv
  OBVIOUS
<1> USE DEF Init
<1>1. TypeOK
  <2>1. transcript \in Seq(Entry \cup Notice)
    BY DEF Entry
  <2>2. QED
    BY <2>1, NobodyAssumption DEF TypeOK, Killable, Gone
<1>2. NotSpawned /\ GatedInMode /\ ChildReaped
  BY DEF NotSpawned, GatedInMode, ChildReaped
<1>3. VotesFollowSlots /\ NoPassWithoutAllow /\ LeftSlotHasCause
  BY DEF VotesFollowSlots, NoPassWithoutAllow, LeftSlotHasCause
<1>4. SignalHasCause /\ InterruptedByInterrupt
  BY DEF SignalHasCause, InterruptedByInterrupt
<1>5. QED
  BY <1>1, <1>2, <1>3, <1>4 DEF IInv

\* What the transcript may be extended by.
LEMMA TranscriptGrows ==
  ASSUME NEW t \in Turns, transcript \in Seq(Entry \cup Notice)
  PROVE /\ transcript \o <<[who |-> "user", turn |-> t], [who |-> "assistant", turn |-> t]>>
             \in Seq(Entry \cup Notice)
        /\ Append(transcript, [who |-> "system"]) \in Seq(Entry \cup Notice)
<1>1. /\ [who |-> "user", turn |-> t] \in Entry \cup Notice
      /\ [who |-> "assistant", turn |-> t] \in Entry \cup Notice
      /\ [who |-> "system"] \in Entry \cup Notice
  BY DEF Entry, Notice
<1>2. <<[who |-> "user", turn |-> t], [who |-> "assistant", turn |-> t]>>
        \in Seq(Entry \cup Notice)
  BY <1>1
<1>3. QED
  BY <1>1, <1>2

\* Every step keeps the types.
LEMMA TypeStep == TypeOK /\ [Next]_vars => TypeOK'
<1> SUFFICES ASSUME TypeOK, [Next]_vars PROVE TypeOK'
  OBVIOUS
<1> USE DEF TypeOK, Killable, Gone, ints, gate, Goto, Ends, Kill
<1>1. ASSUME NEW t \in Turns, MarkRunning(t) PROVE TypeOK'
  BY <1>1 DEF MarkRunning
<1>2. ASSUME NEW t \in Turns, ClearOld(t) PROVE TypeOK'
  BY <1>2 DEF ClearOld
<1>3. ASSUME NEW t \in Turns, Arm(t) PROVE TypeOK'
  BY <1>3 DEF Arm
<1>4. ASSUME NEW t \in Turns, Spawn(t) PROVE TypeOK'
  <2>1. UNCHANGED <<running, pending, sent, tool, gate, passed, transcript, ints>>
    BY <1>4 DEF Spawn
  <2>2. at' \in [Turns -> Killable \cup {"idle", "busy", "marked", "cleared", "ended",
                                        "unfiled", "noting", "done", "dropped"}]
    BY <1>4 DEF Spawn
  <2>3. child' \in [Turns -> Gone \cup {"alive", "quiet"}]
    BY <1>4 DEF Spawn
  <2>4. outcome' \in [Turns -> {"none", "reply", "denied", "failed", "interrupted"}]
    BY <1>4 DEF Spawn
  <2>5. QED
    BY <2>1, <2>2, <2>3, <2>4
<1>5. ASSUME NEW t \in Turns, ReadTool(t) PROVE TypeOK'
  <2>1. CASE mode = "off"
    BY <1>5, <2>1 DEF ReadTool
  <2>2. CASE mode = "auto_deny"
    <3>1. UNCHANGED <<running, pending, sent, gate, passed, transcript, ints>>
      BY <1>5, <2>2 DEF ReadTool
    <3>2. /\ tool' = [tool EXCEPT ![t] = "read"] /\ at' = [at EXCEPT ![t] = "ended"]
          /\ outcome' = [outcome EXCEPT ![t] = "denied"] /\ child' = [child EXCEPT ![t] = "killed"]
      BY <1>5, <2>2 DEF ReadTool
    <3>3. QED
      BY <3>1, <3>2
  <2>3. CASE mode = "gate"
    BY <1>5, <2>3 DEF ReadTool
  <2>4. QED
    BY <1>5, <2>1, <2>2, <2>3 DEF ReadTool
<1>6. ASSUME NEW t \in Turns, GateKilled(t) PROVE TypeOK'
  BY <1>6 DEF GateKilled
<1>7. ASSUME NEW t \in Turns, GateAllows(t) PROVE TypeOK'
  BY <1>7 DEF GateAllows
<1>8. ASSUME NEW t \in Turns, GateDenies(t) PROVE TypeOK'
  BY <1>8 DEF GateDenies
<1>9. ASSUME NEW t \in Turns, Killed(t) PROVE TypeOK'
  BY <1>9 DEF Killed
<1>10. ASSUME NEW t \in Turns, Expires(t) PROVE TypeOK'
  BY <1>10 DEF Expires
<1>11. ASSUME NEW t \in Turns, ReadFails(t) PROVE TypeOK'
  BY <1>11 DEF ReadFails
<1>12. ASSUME NEW t \in Turns, ReadEnd(t) PROVE TypeOK'
  BY <1>12 DEF ReadEnd
<1>13. ASSUME NEW t \in Turns, CollectStream(t) \/ CollectText(t) PROVE TypeOK'
  BY <1>13 DEF CollectStream, CollectText
<1>14. ASSUME NEW t \in Turns, Unfile(t) PROVE TypeOK'
  BY <1>14 DEF Unfile
<1>15. ASSUME NEW t \in Turns, Settle(t) PROVE TypeOK'
  BY <1>15, TranscriptGrows DEF Settle
<1>16. ASSUME NEW t \in Turns, Note(t) PROVE TypeOK'
  BY <1>16, TranscriptGrows DEF Note
<1>17. ASSUME NEW t \in Turns, ChildTool(t) PROVE TypeOK'
  BY <1>17 DEF ChildTool
<1>18. ASSUME NEW t \in Turns, ChildCloses(t) PROVE TypeOK'
  BY <1>18 DEF ChildCloses
<1>19. ASSUME NEW t \in Turns, ChildExits(t) PROVE TypeOK'
  BY <1>19 DEF ChildExits
<1>20. ASSUME NEW t \in Turns, Drop(t) PROVE TypeOK'
  BY <1>20 DEF Drop
<1>21. ASSUME NEW t \in Turns, NEW d \in {"allow", "deny"}, Approve(t, d) PROVE TypeOK'
  BY <1>21 DEF Approve
<1>22. ASSUME NEW i \in Interrupts, TakePending(i) PROVE TypeOK'
  BY <1>22 DEF TakePending
<1>23. ASSUME NEW i \in Interrupts, Signal(i) PROVE TypeOK'
  BY <1>23 DEF Signal
<1>24. ASSUME NEW i \in Interrupts, MarkIdle(i) PROVE TypeOK'
  BY <1>24 DEF MarkIdle
<1>25. CASE UNCHANGED vars
  BY <1>25 DEF vars
<1>26. QED
  BY <1>1, <1>2, <1>3, <1>4, <1>5, <1>6, <1>7, <1>8, <1>9, <1>10, <1>11, <1>12, <1>13,
     <1>14, <1>15, <1>16, <1>17, <1>18, <1>19, <1>20, <1>21, <1>22, <1>23, <1>24, <1>25
  DEF Next, Prompt, Child, Interrupt
\* What a stage says about the child and the mode survives every step.
LEMMA StageStep == IInv /\ [Next]_vars => (NotSpawned /\ GatedInMode /\ ChildReaped)'
<1> SUFFICES ASSUME TypeOK, NotSpawned, GatedInMode, ChildReaped, [Next]_vars
             PROVE (NotSpawned /\ GatedInMode /\ ChildReaped)'
  BY DEF IInv
<1> USE DEF TypeOK, NotSpawned, GatedInMode, ChildReaped, Killable, Gone, ints, gate,
            Goto, Ends, Kill
<1>1. ASSUME NEW t \in Turns, MarkRunning(t) \/ ClearOld(t) \/ Arm(t)
      PROVE (NotSpawned /\ GatedInMode /\ ChildReaped)'
  BY <1>1 DEF MarkRunning, ClearOld, Arm
<1>2. ASSUME NEW t \in Turns, Spawn(t)
      PROVE (NotSpawned /\ GatedInMode /\ ChildReaped)'
  BY <1>2 DEF Spawn
<1>3. ASSUME NEW t \in Turns, ReadTool(t)
      PROVE (NotSpawned /\ GatedInMode /\ ChildReaped)'
  BY <1>3 DEF ReadTool
<1>4. ASSUME NEW t \in Turns, GateKilled(t) \/ GateDenies(t) \/ GateAllows(t)
      PROVE (NotSpawned /\ GatedInMode /\ ChildReaped)'
  BY <1>4 DEF GateKilled, GateDenies, GateAllows
<1>5. ASSUME NEW t \in Turns, Killed(t) \/ Expires(t) \/ ReadFails(t)
      PROVE (NotSpawned /\ GatedInMode /\ ChildReaped)'
  <2>1. /\ UNCHANGED <<mode, stream>>
        /\ at' = [at EXCEPT ![t] = "ended"] /\ child' = [child EXCEPT ![t] = "killed"]
    BY <1>5 DEF Killed, Expires, ReadFails
  <2>2. QED
    BY <2>1
<1>6. ASSUME NEW t \in Turns, ReadEnd(t) \/ CollectStream(t) \/ CollectText(t)
      PROVE (NotSpawned /\ GatedInMode /\ ChildReaped)'
  BY <1>6 DEF ReadEnd, CollectStream, CollectText
<1>7. ASSUME NEW t \in Turns, Unfile(t) \/ Settle(t) \/ Note(t)
      PROVE (NotSpawned /\ GatedInMode /\ ChildReaped)'
  BY <1>7 DEF Unfile, Settle, Note
<1>8. ASSUME NEW t \in Turns, ChildTool(t) \/ ChildCloses(t) \/ ChildExits(t)
      PROVE (NotSpawned /\ GatedInMode /\ ChildReaped)'
  BY <1>8 DEF ChildTool, ChildCloses, ChildExits
<1>9. ASSUME NEW t \in Turns, Drop(t)
      PROVE (NotSpawned /\ GatedInMode /\ ChildReaped)'
  BY <1>9 DEF Drop
<1>10. ASSUME NEW t \in Turns, NEW d \in {"allow", "deny"}, Approve(t, d)
      PROVE (NotSpawned /\ GatedInMode /\ ChildReaped)'
  BY <1>10 DEF Approve
<1>11. ASSUME NEW i \in Interrupts, TakePending(i) \/ Signal(i) \/ MarkIdle(i)
      PROVE (NotSpawned /\ GatedInMode /\ ChildReaped)'
  BY <1>11 DEF TakePending, Signal, MarkIdle
<1>12. CASE UNCHANGED vars
  BY <1>12 DEF vars
<1>13. QED
  BY <1>1, <1>2, <1>3, <1>4, <1>5, <1>6, <1>7, <1>8, <1>9, <1>10, <1>11, <1>12
  DEF Next, Prompt, Child, Interrupt

\* What was voted and accepted stays in step with the open slots.  A tool is gated
\* once, so a slot that was voted on never opens again; a gate that heard a vote has
\* no slot to leave behind.
LEMMA VoteStep == IInv /\ [Next]_vars =>
        (VotesFollowSlots /\ NoPassWithoutAllow /\ LeftSlotHasCause)'
<1> SUFFICES ASSUME TypeOK, GatedInMode, VotesFollowSlots, NoPassWithoutAllow,
                    LeftSlotHasCause, [Next]_vars
             PROVE (VotesFollowSlots /\ NoPassWithoutAllow /\ LeftSlotHasCause)'
  BY DEF IInv
<1> USE DEF TypeOK, GatedInMode, VotesFollowSlots, NoPassWithoutAllow, LeftSlotHasCause,
            Killable, ints, gate, Goto, Ends, Kill
<1>1. ASSUME NEW t \in Turns, MarkRunning(t) \/ ClearOld(t) \/ Arm(t) \/ Spawn(t)
      PROVE (VotesFollowSlots /\ NoPassWithoutAllow /\ LeftSlotHasCause)'
  BY <1>1 DEF MarkRunning, ClearOld, Arm, Spawn
<1>2. ASSUME NEW t \in Turns, ReadTool(t)
      PROVE (VotesFollowSlots /\ NoPassWithoutAllow /\ LeftSlotHasCause)'
  BY <1>2 DEF ReadTool
<1>3. ASSUME NEW t \in Turns, GateKilled(t)
      PROVE (VotesFollowSlots /\ NoPassWithoutAllow /\ LeftSlotHasCause)'
  BY <1>3 DEF GateKilled
<1>4. ASSUME NEW t \in Turns, GateAllows(t)
      PROVE (VotesFollowSlots /\ NoPassWithoutAllow /\ LeftSlotHasCause)'
  BY <1>4 DEF GateAllows
<1>5. ASSUME NEW t \in Turns, GateDenies(t)
      PROVE (VotesFollowSlots /\ NoPassWithoutAllow /\ LeftSlotHasCause)'
  BY <1>5 DEF GateDenies
<1>6. ASSUME NEW t \in Turns, Killed(t) \/ Expires(t) \/ ReadFails(t)
      PROVE (VotesFollowSlots /\ NoPassWithoutAllow /\ LeftSlotHasCause)'
  BY <1>6 DEF Killed, Expires, ReadFails
<1>7. ASSUME NEW t \in Turns, ReadEnd(t) \/ CollectStream(t) \/ CollectText(t)
      PROVE (VotesFollowSlots /\ NoPassWithoutAllow /\ LeftSlotHasCause)'
  BY <1>7 DEF ReadEnd, CollectStream, CollectText
<1>8. ASSUME NEW t \in Turns, Unfile(t) \/ Note(t)
      PROVE (VotesFollowSlots /\ NoPassWithoutAllow /\ LeftSlotHasCause)'
  BY <1>8 DEF Unfile, Note
<1>9. ASSUME NEW t \in Turns, Settle(t)
      PROVE (VotesFollowSlots /\ NoPassWithoutAllow /\ LeftSlotHasCause)'
  BY <1>9 DEF Settle
<1>10. ASSUME NEW t \in Turns, ChildTool(t) \/ ChildCloses(t) \/ ChildExits(t)
      PROVE (VotesFollowSlots /\ NoPassWithoutAllow /\ LeftSlotHasCause)'
  BY <1>10 DEF ChildTool, ChildCloses, ChildExits
<1>11. ASSUME NEW t \in Turns, Drop(t)
      PROVE (VotesFollowSlots /\ NoPassWithoutAllow /\ LeftSlotHasCause)'
  BY <1>11 DEF Drop
<1>12. ASSUME NEW t \in Turns, NEW d \in {"allow", "deny"}, Approve(t, d)
      PROVE (VotesFollowSlots /\ NoPassWithoutAllow /\ LeftSlotHasCause)'
  BY <1>12 DEF Approve
<1>13. ASSUME NEW i \in Interrupts, TakePending(i) \/ Signal(i) \/ MarkIdle(i)
      PROVE (VotesFollowSlots /\ NoPassWithoutAllow /\ LeftSlotHasCause)'
  BY <1>13 DEF TakePending, Signal, MarkIdle
<1>14. CASE UNCHANGED vars
  BY <1>14 DEF vars
<1>15. QED
  BY <1>1, <1>2, <1>3, <1>4, <1>5, <1>6, <1>7, <1>8, <1>9, <1>10, <1>11, <1>12, <1>13, <1>14
  DEF Next, Prompt, Child, Interrupt

\* A kill signal keeps its cause: an interrupt that was answered killed: true took its
\* turn before and takes no other.
LEMMA CauseStep == IInv /\ [Next]_vars => (SignalHasCause /\ InterruptedByInterrupt)'
<1> SUFFICES ASSUME TypeOK, SignalHasCause, InterruptedByInterrupt, [Next]_vars
             PROVE (SignalHasCause /\ InterruptedByInterrupt)'
  BY DEF IInv
<1> USE DEF TypeOK, SignalHasCause, InterruptedByInterrupt, ints, gate, Goto, Ends, Kill
<1>1. ASSUME NEW t \in Turns, MarkRunning(t) \/ ClearOld(t) \/ Arm(t) \/ Spawn(t)
      PROVE (SignalHasCause /\ InterruptedByInterrupt)'
  BY <1>1 DEF MarkRunning, ClearOld, Arm, Spawn
<1>2. ASSUME NEW t \in Turns, ReadTool(t)
      PROVE (SignalHasCause /\ InterruptedByInterrupt)'
  BY <1>2 DEF ReadTool
<1>3. ASSUME NEW t \in Turns, GateKilled(t) \/ GateAllows(t) \/ GateDenies(t)
      PROVE (SignalHasCause /\ InterruptedByInterrupt)'
  BY <1>3 DEF GateKilled, GateAllows, GateDenies
<1>4. ASSUME NEW t \in Turns, Killed(t)
      PROVE (SignalHasCause /\ InterruptedByInterrupt)'
  BY <1>4 DEF Killed
<1>5. ASSUME NEW t \in Turns, Expires(t) \/ ReadFails(t) \/ ReadEnd(t)
                             \/ CollectStream(t) \/ CollectText(t)
      PROVE (SignalHasCause /\ InterruptedByInterrupt)'
  BY <1>5 DEF Expires, ReadFails, ReadEnd, CollectStream, CollectText
<1>6. ASSUME NEW t \in Turns, Unfile(t) \/ Settle(t) \/ Note(t)
      PROVE (SignalHasCause /\ InterruptedByInterrupt)'
  BY <1>6 DEF Unfile, Settle, Note
<1>7. ASSUME NEW t \in Turns, ChildTool(t) \/ ChildCloses(t) \/ ChildExits(t)
      PROVE (SignalHasCause /\ InterruptedByInterrupt)'
  BY <1>7 DEF ChildTool, ChildCloses, ChildExits
<1>8. ASSUME NEW t \in Turns, Drop(t)
      PROVE (SignalHasCause /\ InterruptedByInterrupt)'
  BY <1>8 DEF Drop
<1>9. ASSUME NEW t \in Turns, NEW d \in {"allow", "deny"}, Approve(t, d)
      PROVE (SignalHasCause /\ InterruptedByInterrupt)'
  BY <1>9 DEF Approve
<1>10. ASSUME NEW i \in Interrupts, TakePending(i)
      PROVE (SignalHasCause /\ InterruptedByInterrupt)'
  BY <1>10 DEF TakePending
<1>11. ASSUME NEW i \in Interrupts, Signal(i)
      PROVE (SignalHasCause /\ InterruptedByInterrupt)'
  BY <1>11 DEF Signal
<1>12. ASSUME NEW i \in Interrupts, MarkIdle(i)
      PROVE (SignalHasCause /\ InterruptedByInterrupt)'
  BY <1>12 DEF MarkIdle
<1>13. CASE UNCHANGED vars
  BY <1>13 DEF vars
<1>14. QED
  BY <1>1, <1>2, <1>3, <1>4, <1>5, <1>6, <1>7, <1>8, <1>9, <1>10, <1>11, <1>12, <1>13
  DEF Next, Prompt, Child, Interrupt

-----------------------------------------------------------------------------
LEMMA InvariantHolds == Spec => []IInv
<1>1. IInv /\ [Next]_vars => IInv'
  BY TypeStep, StageStep, VoteStep, CauseStep DEF IInv
<1>2. QED
  BY InitEstablishes, <1>1, PTL DEF Spec

\* The types hold in every reachable state.
THEOREM TypeCorrect == Spec => []TypeOK
<1>1. IInv => TypeOK
  BY DEF IInv
<1>2. QED
  BY InvariantHolds, <1>1, PTL

\* No return path of run_cli, refusal, timeout or dropped call leaves a child process
\* running, whatever the interleaving of prompts, approvals and interrupts.
THEOREM NoChildLeft == Spec => []ChildReaped
<1>1. IInv => ChildReaped
  BY DEF IInv
<1>2. QED
  BY InvariantHolds, <1>1, PTL

\* A prompt is answered gateway/run-interrupted only through an interrupt that took
\* that very turn from the pending table and was answered killed: true.
THEOREM CutsHaveCause == Spec => []InterruptedByInterrupt
<1>1. IInv => InterruptedByInterrupt
  BY DEF IInv
<1>2. QED
  BY InvariantHolds, <1>1, PTL

\* The observation gate lets a stream past a tool line only on an accepted allow.
THEOREM NoPassUnvoted == Spec => []NoPassWithoutAllow
<1>1. IInv => NoPassWithoutAllow
  BY DEF IInv
<1>2. QED
  BY InvariantHolds, <1>1, PTL

\* An approval that stays open behind its gate was left by a kill signal or a dropped
\* call; neither a vote nor the timer leaves one.
THEOREM LeakHasCause == Spec => []LeftSlotHasCause
<1>1. IInv => LeftSlotHasCause
  BY DEF IInv
<1>2. QED
  BY InvariantHolds, <1>1, PTL
-----------------------------------------------------------------------------
(* The transcript *)

LEMMA TwoMore ==
  ASSUME NEW S, NEW q \in Seq(S), NEW x \in S, NEW y \in S
  PROVE  LET r == q \o <<x, y>>
         IN /\ Len(r) = Len(q) + 2 /\ DOMAIN r = 1 .. Len(q) + 2
            /\ \A k \in 1 .. Len(q) : r[k] = q[k]
            /\ r[Len(q) + 1] = x /\ r[Len(q) + 2] = y
<1>1. <<x, y>> \in Seq(S) /\ Len(<<x, y>>) = 2
  OBVIOUS
<1>2. QED
  BY <1>1

\* The steps that leave the transcript alone.
Elsewhere ==
  /\ UNCHANGED transcript
  /\ \A t \in Turns :
       \/ at'[t] = at[t] /\ outcome'[t] = outcome[t]
       \/ at[t] \notin {"noting", "done"} /\ at'[t] \notin {"noting", "done"}
       \/ at[t] = "noting" /\ at'[t] = "dropped"

LEMMA KeptInit == Init => KeptInv
  BY NobodyAssumption DEF Init, KeptInv, AnswerMatchesTranscript, Committed

LEMMA KeptElsewhere == ASSUME KeptInv, Elsewhere PROVE KeptInv'
<1>1. \A t \in Turns : Committed(t)' <=> Committed(t)
  BY DEF Elsewhere, Committed
<1>2. QED
  BY <1>1 DEF KeptInv, AnswerMatchesTranscript, Elsewhere

\* The steps before the settling only move the turn.
LEMMA OthersElsewhere ==
  ASSUME TypeOK, [Next]_vars, \A t \in Turns : ~Settle(t) /\ ~Note(t)
  PROVE  Elsewhere
<1> USE DEF TypeOK, Elsewhere, ints, gate, Goto, Ends, Kill, Killable
<1>1. ASSUME NEW t \in Turns, MarkRunning(t) \/ ClearOld(t) \/ Arm(t) \/ Spawn(t) PROVE Elsewhere
  BY <1>1 DEF MarkRunning, ClearOld, Arm, Spawn
<1>2. ASSUME NEW t \in Turns, ReadTool(t) \/ GateKilled(t) \/ GateAllows(t) \/ GateDenies(t)
      PROVE  Elsewhere
  BY <1>2 DEF ReadTool, GateKilled, GateAllows, GateDenies
<1>3. ASSUME NEW t \in Turns, Killed(t) \/ Expires(t) \/ ReadFails(t) PROVE Elsewhere
  BY <1>3 DEF Killed, Expires, ReadFails
<1>4. ASSUME NEW t \in Turns, ReadEnd(t) \/ CollectStream(t) \/ CollectText(t) \/ Unfile(t)
      PROVE  Elsewhere
  BY <1>4 DEF ReadEnd, CollectStream, CollectText, Unfile
<1>5. ASSUME NEW t \in Turns, Drop(t) PROVE Elsewhere
  BY <1>5 DEF Drop
<1>6. CASE UNCHANGED <<at, outcome, transcript>>
  BY <1>6
<1>7. QED
  BY <1>1, <1>2, <1>3, <1>4, <1>5, <1>6
  DEF Next, Prompt, Child, Interrupt, ChildTool, ChildCloses, ChildExits, Approve, TakePending,
      Signal, MarkIdle, vars

LEMMA KeptSettle == ASSUME TypeOK, KeptInv, NEW t \in Turns, Settle(t) PROVE KeptInv'
<1>1. /\ at[t] = "unfiled" /\ ~Committed(t) /\ outcome' = outcome
      /\ \A s \in Turns : s # t => at'[s] = at[s]
      /\ at'[t] = IF outcome[t] = "interrupted" THEN "noting" ELSE "done"
  BY DEF Settle, Goto, KeptInv, AnswerMatchesTranscript, TypeOK
<1>2. CASE outcome[t] \notin {"reply", "denied"}
  <2>1. transcript' = transcript
    BY <1>2 DEF Settle
  <2>2. \A s \in Turns : Committed(s)' <=> Committed(s)
    BY <2>1 DEF Committed
  <2>3. QED
    BY <1>1, <1>2, <2>1, <2>2 DEF KeptInv, AnswerMatchesTranscript
<1>3. CASE outcome[t] \in {"reply", "denied"}
  <2>1. PICK q \in Seq(Entry \cup Notice), x \in Entry \cup Notice, y \in Entry \cup Notice :
          /\ q = transcript
          /\ x = [who |-> "user", turn |-> t] /\ y = [who |-> "assistant", turn |-> t]
    BY DEF TypeOK, Entry
  <2>2. PICK r : r = q \o <<x, y>>
    OBVIOUS
  <2>3. transcript' = r
    BY <1>3, <2>1, <2>2 DEF Settle
  <2>4. /\ Len(r) = Len(q) + 2 /\ DOMAIN r = 1 .. Len(q) + 2
        /\ DOMAIN q = 1 .. Len(q) /\ Len(q) \in Nat
        /\ \A k \in 1 .. Len(q) : r[k] = q[k]
        /\ r[Len(q) + 1] = x /\ r[Len(q) + 2] = y
    BY <2>2, TwoMore
  <2>5. PICK n \in Nat : n = Len(q)
    BY <2>4
  <2>6. \A k \in 1 .. n : q[k].who = "assistant" => q[k].turn # t
    BY <1>1, <2>1, <2>4, <2>5 DEF Committed
  <2>7. \A s \in Turns : Committed(s)' <=> Committed(s) \/ s = t
    <3>1. Committed(t)'
      BY <2>1, <2>3, <2>4, <2>5 DEF Committed
    <3>2. ASSUME NEW s \in Turns, Committed(s) PROVE Committed(s)'
      BY <2>1, <2>3, <2>4, <2>5, <3>2 DEF Committed
    <3>3. ASSUME NEW s \in Turns, Committed(s)', s # t PROVE Committed(s)
      <4>1. PICK k \in 1 .. n + 2 : r[k].who = "assistant" /\ r[k].turn = s
        BY <2>3, <2>4, <2>5, <3>3 DEF Committed
      <4>2. k \in 1 .. n
        BY <2>1, <2>4, <2>5, <3>3, <4>1
      <4>3. QED
        BY <2>1, <2>4, <2>5, <4>1, <4>2 DEF Committed
    <3>4. QED
      BY <3>1, <3>2, <3>3
  <2>8. ASSUME NEW j \in 1 .. n + 2, NEW k \in 1 .. n + 2,
               r[j].who = "assistant", r[k].who = "assistant", r[j].turn = r[k].turn
        PROVE  j = k
    <3>1. /\ j \in 1 .. n \/ j = n + 2
          /\ k \in 1 .. n \/ k = n + 2
      BY <2>1, <2>4, <2>5, <2>8
    <3>2. CASE j \in 1 .. n /\ k \in 1 .. n
      BY <2>1, <2>4, <2>5, <2>8, <3>2 DEF KeptInv, AnswerMatchesTranscript
    <3>3. CASE j \in 1 .. n /\ k = n + 2
      BY <2>1, <2>4, <2>5, <2>6, <2>8, <3>3
    <3>4. CASE j = n + 2 /\ k \in 1 .. n
      BY <2>1, <2>4, <2>5, <2>6, <2>8, <3>4
    <3>5. QED
      BY <3>1, <3>2, <3>3, <3>4
  <2>9. ASSUME NEW k \in 1 .. n + 2, r[k].who = "user"
        PROVE  k < n + 2 /\ r[k + 1] = [who |-> "assistant", turn |-> r[k].turn]
    BY <2>1, <2>4, <2>5, <2>9 DEF KeptInv, AnswerMatchesTranscript
  <2>10. ASSUME NEW k \in 1 .. n + 2, r[k].who = "assistant", r[k].turn # Nobody
         PROVE  k > 1 /\ r[k - 1] = [who |-> "user", turn |-> r[k].turn]
    <3>1. CASE k \in 1 .. n
      <4>1. k > 1 /\ q[k - 1] = [who |-> "user", turn |-> q[k].turn]
        BY <2>1, <2>4, <2>5, <2>10, <3>1 DEF KeptInv, AnswerMatchesTranscript
      <4>2. k - 1 \in 1 .. n
        BY <3>1, <4>1
      <4>3. QED
        BY <2>4, <2>5, <3>1, <4>1, <4>2
    <3>2. CASE k = n + 2
      BY <2>1, <2>4, <2>5, <3>2
    <3>3. QED
      BY <2>1, <2>4, <2>5, <2>10, <3>1, <3>2
  <2>11. \A s \in Turns : at'[s] \in {"noting", "done"} =>
                             (Committed(s)' <=> outcome'[s] \in {"reply", "denied"})
    BY <1>1, <1>3, <2>7 DEF KeptInv, AnswerMatchesTranscript
  <2>12. \A s \in Turns : at'[s] \notin {"noting", "done"} => ~Committed(s)'
    BY <1>1, <2>7 DEF KeptInv, AnswerMatchesTranscript
  <2>13. \A s \in Turns : at'[s] = "noting" => outcome'[s] = "interrupted"
    BY <1>1 DEF KeptInv
  <2>14. QED
    BY <2>3, <2>4, <2>5, <2>8, <2>9, <2>10, <2>11, <2>12, <2>13
    DEF KeptInv, AnswerMatchesTranscript
<1>4. QED
  BY <1>2, <1>3

LEMMA KeptNote == ASSUME TypeOK, KeptInv, NEW t \in Turns, Note(t) PROVE KeptInv'
<1>1. /\ at[t] = "noting" /\ outcome' = outcome
      /\ \A s \in Turns : s # t => at'[s] = at[s]
      /\ at'[t] = "done"
  BY DEF Note, Goto, TypeOK
<1>2. PICK q \in Seq(Entry \cup Notice), x \in Entry \cup Notice :
        q = transcript /\ x = [who |-> "system"]
  BY DEF TypeOK, Notice
<1>3. PICK r : r = Append(q, x)
  OBVIOUS
<1>4. transcript' = r
  BY <1>2, <1>3 DEF Note
<1>5. PICK n \in Nat : n = Len(q)
  BY <1>2
<1>6. /\ Len(r) = n + 1 /\ DOMAIN r = 1 .. n + 1 /\ DOMAIN q = 1 .. n
      /\ \A k \in 1 .. n : r[k] = q[k]
      /\ r[n + 1] = x
  BY <1>3, <1>5
<1>7. \A s \in Turns : Committed(s)' <=> Committed(s)
  <2>1. ASSUME NEW s \in Turns
        PROVE  (\E k \in 1 .. n + 1 : r[k].who = "assistant" /\ r[k].turn = s)
                 <=> \E k \in 1 .. n : q[k].who = "assistant" /\ q[k].turn = s
    BY <1>2, <1>6
  <2>2. QED
    BY <1>2, <1>4, <1>6, <2>1 DEF Committed
<1>8. ASSUME NEW j \in 1 .. n + 1, NEW k \in 1 .. n + 1,
             r[j].who = "assistant", r[k].who = "assistant", r[j].turn = r[k].turn
      PROVE  j = k
  BY <1>2, <1>6, <1>8 DEF KeptInv, AnswerMatchesTranscript
<1>9. ASSUME NEW k \in 1 .. n + 1, r[k].who = "user"
      PROVE  k < n + 1 /\ r[k + 1] = [who |-> "assistant", turn |-> r[k].turn]
  BY <1>2, <1>5, <1>6, <1>9 DEF KeptInv, AnswerMatchesTranscript
<1>10. ASSUME NEW k \in 1 .. n + 1, r[k].who = "assistant", r[k].turn # Nobody
       PROVE  k > 1 /\ r[k - 1] = [who |-> "user", turn |-> r[k].turn]
  BY <1>2, <1>6, <1>10 DEF KeptInv, AnswerMatchesTranscript
<1>11. QED
  BY <1>1, <1>4, <1>6, <1>7, <1>8, <1>9, <1>10 DEF KeptInv, AnswerMatchesTranscript

\* commit_turn and append_system_notice: the transcript holds a turn's two entries,
\* together and once, exactly if it was answered with a reply or a refusal.
THEOREM AnswersAreKept == Spec => []AnswerMatchesTranscript
<1>1. KeptInv => AnswerMatchesTranscript
  BY DEF KeptInv
<1>2. TypeOK /\ KeptInv /\ [Next]_vars => KeptInv'
  BY KeptElsewhere, OthersElsewhere, KeptSettle, KeptNote
<1>3. QED
  BY <1>1, <1>2, KeptInit, TypeCorrect, PTL DEF Spec
=============================================================================
