--------------------------- MODULE BoxTurnsProofs ---------------------------
(***************************************************************************)
(* TLAPS proofs about BoxTurns, for any agents, turns, interrupts, tools   *)
(* and plans.  ControlInv relates the stage of a turn to the flag, the map *)
(* of cancel senders and the tools it has still to run; AllowedInv relates *)
(* what the tools did to the votes; TranscriptInv is about the entries,    *)
(* RecordInv about the turns they belong to, and ContextInv about what the *)
(* model is told of them.                                                  *)
(***************************************************************************)
EXTENDS BoxTurns, FiniteSetTheorems, SequenceTheorems, TLAPS

TurnRec == [agent : Agents \cup {Nobody}, chat : BOOLEAN, todo : Seq(Tools)]
IntRec == [at : {"new", "took", "signaled", "done"}, agent : Agents \cup {Nobody},
           holder : Turns \cup {Nobody}, killed : BOOLEAN, active : BOOLEAN]

\* The types of what decides which step comes next.
ControlTypeOK ==
  /\ isRunning \in [Agents -> BOOLEAN]
  /\ pending \in [Agents -> Turns \cup {Nobody}]
  /\ effects \subseteq ToolCalls
  /\ pc \in [Turns -> Stages]
  /\ turn \in [Turns -> TurnRec]
  /\ result \in [Turns -> Results]
  /\ int \in [Interrupts -> IntRec]
  /\ vote \in [ToolCalls -> Gate!Decisions \cup {"none"}]
  /\ verdict \in [ToolCalls -> Gate!Verdicts \cup {"open"}]

\* A turn that began has an agent, and one at the gate has a tool at hand.
StagesOfTurns ==
  \A t \in Turns :
    /\ pc[t] \notin {"new", "done"} => Agent(t) \in Agents
    /\ pc[t] \in {"gate", "tool"} => turn[t].todo # <<>>
    /\ result[t] = "dropped" => pc[t] = "done"

\* A sender in the map is of a turn of that agent which has yet to clear it.
HolderIsOpen ==
  \A a \in Agents : pending[a] # Nobody =>
    /\ Agent(pending[a]) = a
    /\ \/ pc[pending[a]] \in {"delay", "snapshot", "gate", "tool", "llm", "body", "reply",
                              "persist", "clear", "unwind"}
       \/ result[pending[a]] = "dropped"

\* The flag is set for a turn that is live, or was dropped with its connection.
FlagHasTurn ==
  \A a \in Agents : isRunning[a] =>
    \E t \in Turns : Agent(t) = a /\ (Live(t) \/ result[t] = "dropped")

\* While nobody interrupts an agent the flag is up under a live turn of it.
FlagIsUp ==
  /\ \A i \in Interrupts : int[i].at = "new" => int[i].agent = Nobody
  /\ \A t \in Turns : Live(t) /\ NoInterrupt(Agent(t)) => isRunning[Agent(t)]

ControlInv == ControlTypeOK /\ StagesOfTurns /\ HolderIsOpen /\ FlagHasTurn /\ FlagIsUp /\ TurnsExclude

\* In mode gate a verdict that allows was voted for, and so was every effect.
AllowedInv ==
  mode = "gate" =>
    /\ \A g \in ToolCalls : verdict[g] = "allowed" => vote[g] = "allow"
    /\ \A g \in effects : vote[g] = "allow"

-----------------------------------------------------------------------------
(* Control *)

LEMMA ControlInit == Init => ControlInv
  BY NobodyAssumption
  DEF Init, ControlInv, ControlTypeOK, StagesOfTurns, HolderIsOpen, FlagHasTurn, FlagIsUp,
      TurnsExclude, Live, NoInterrupt, Agent, TurnRec, IntRec, Stages, Results, Gate!Init, Gate!Decisions,
      Gate!Verdicts, ToolCalls

\* The plan of a prompt is a sequence of tools, and a tail of it is one too.
LEMMA TodoStep ==
  ASSUME NEW s \in Seq(Tools), s # <<>>
  PROVE Head(s) \in Tools /\ Tail(s) \in Seq(Tools)
OBVIOUS

\* The steps, one turn or one interrupt at a time.
LEMMA StepCases ==
  ASSUME [Next]_vars
  PROVE \/ \E t \in Turns, a \in Agents, c \in BOOLEAN, p \in Seq(Tools) : MarkRunning(t, a, c, p)
        \/ \E t \in Turns, a \in Agents : Busy(t, a)
        \/ \E t \in Turns, d \in Gate!Decisions : Approve(t, d)
        \/ \E t \in Turns : TurnStep(t) \/ Drop(t)
        \/ \E i \in Interrupts, a \in Agents : TakePending(i, a)
        \/ \E i \in Interrupts : InterruptStep(i)
        \/ UNCHANGED vars
<1>1. ASSUME NEW t \in Turns, Call(t)
      PROVE \/ \E a \in Agents, c \in BOOLEAN, p \in Seq(Tools) : MarkRunning(t, a, c, p)
            \/ \E a \in Agents : Busy(t, a)
  <2>1. TRUE \in BOOLEAN /\ FALSE \in BOOLEAN /\ <<>> \in Seq(Tools) /\ Plans \subseteq Seq(Tools)
    BY PlansAssumption
  <2>2. ASSUME NEW a \in Agents, MarkRunning(t, a, TRUE, <<>>)
        PROVE \E b \in Agents, c \in BOOLEAN, p \in Seq(Tools) : MarkRunning(t, b, c, p)
    BY <2>1, <2>2, Zenon
  <2>3. ASSUME NEW a \in Agents, NEW plan \in Plans, MarkRunning(t, a, FALSE, plan)
        PROVE \E b \in Agents, c \in BOOLEAN, p \in Seq(Tools) : MarkRunning(t, b, c, p)
    BY <2>1, <2>3, Zenon
  <2>4. QED
    BY <1>1, <2>2, <2>3, Zenon DEF Call
<1>2. QED
  BY <1>1, Zenon DEF Next

\* The records keep their types, one field at a time.
LEMMA TurnFields ==
  ASSUME NEW r \in TurnRec
  PROVE /\ \A a \in Agents : [r EXCEPT !.agent = a] \in TurnRec
        /\ \A s \in Seq(Tools) : [r EXCEPT !.todo = s] \in TurnRec
        /\ r.todo \in Seq(Tools)
BY DEF TurnRec

LEMMA IntFields ==
  ASSUME NEW r \in IntRec
  PROVE /\ \A a \in Agents, h \in Turns \cup {Nobody} :
             [r EXCEPT !.at = "took", !.agent = a, !.holder = h] \in IntRec
        /\ \A k \in BOOLEAN : [r EXCEPT !.at = "signaled", !.killed = k] \in IntRec
        /\ \A k \in BOOLEAN : [r EXCEPT !.at = "done", !.active = k] \in IntRec
        /\ \A k \in BOOLEAN : /\ [r EXCEPT !.at = "signaled", !.killed = k].agent = r.agent
                             /\ [r EXCEPT !.at = "signaled", !.killed = k].at = "signaled"
                             /\ [r EXCEPT !.at = "done", !.active = k].agent = r.agent
                             /\ [r EXCEPT !.at = "done", !.active = k].at = "done"
        /\ r.killed \in BOOLEAN
BY DEF IntRec

\* A signal and the end of an interrupt leave its agent alone.
LEMMA InterruptKeepsAgent ==
  ASSUME ControlTypeOK, NEW i \in Interrupts, InterruptStep(i)
  PROVE \A j \in Interrupts : int'[j].agent = int[j].agent /\ (int'[j].at = "new" => int[j].at = "new")
<1>1. PICK k \in BOOLEAN : \/ int' = [int EXCEPT ![i] = [int[i] EXCEPT !.at = "signaled", !.killed = k]]
                          \/ int' = [int EXCEPT ![i] = [int[i] EXCEPT !.at = "done", !.active = k]]
  <2>1. CASE Signal(i)
    BY <2>1 DEF Signal
  <2>2. CASE MarkIdle(i)
    <3>1. (isRunning[int[i].agent] \/ int[i].killed) \in BOOLEAN
      OBVIOUS
    <3>2. QED
      BY <2>2, <3>1 DEF MarkIdle
  <2>3. QED
    BY <2>1, <2>2 DEF InterruptStep
<1>2. int[i] \in IntRec /\ int \in [Interrupts -> IntRec]
  BY DEF ControlTypeOK
<1>3. PICK r : /\ int' = [int EXCEPT ![i] = r]
               /\ r.agent = int[i].agent /\ r.at \in {"signaled", "done"}
  <2>1. CASE int' = [int EXCEPT ![i] = [int[i] EXCEPT !.at = "signaled", !.killed = k]]
    BY <1>2, <2>1, IntFields
  <2>2. CASE int' = [int EXCEPT ![i] = [int[i] EXCEPT !.at = "done", !.active = k]]
    BY <1>2, <2>2, IntFields
  <2>3. QED
    BY <1>1, <2>1, <2>2
<1>4. QED
  BY <1>2, <1>3

LEMMA ControlTypeStep ==
  ASSUME ControlInv, [Next]_vars
  PROVE ControlTypeOK'
<1> USE DEF ControlTypeOK, Agent, Goto, Return, ClearPending, DropHolder,
        logVars, gateVars, turnVars, Stages, Results
<1>0. ControlTypeOK /\ StagesOfTurns
  BY DEF ControlInv
<1>1. ASSUME NEW t \in Turns, NEW a \in Agents, NEW c \in BOOLEAN, NEW p \in Seq(Tools),
             MarkRunning(t, a, c, p)
      PROVE ControlTypeOK'
  <2>1. [agent |-> a, chat |-> c, todo |-> p] \in TurnRec
    BY DEF TurnRec
  <2>2. QED
    BY <1>0, <1>1, <2>1 DEF MarkRunning
<1>2. ASSUME NEW t \in Turns, NEW a \in Agents, Busy(t, a) PROVE ControlTypeOK'
  <2>1. [turn[t] EXCEPT !.agent = a] \in TurnRec
    BY <1>0, TurnFields
  <2>2. QED
    BY <1>0, <1>2, <2>1 DEF Busy
<1>3. ASSUME NEW t \in Turns, ClearOld(t) PROVE ControlTypeOK'
  BY <1>0, <1>3 DEF ClearOld
<1>4. ASSUME NEW t \in Turns, Arm(t) PROVE ControlTypeOK'
  BY <1>0, <1>4 DEF Arm
<1>5. ASSUME NEW t \in Turns, DelayEnds(t) \/ Cut(t) PROVE ControlTypeOK'
  BY <1>0, <1>5 DEF DelayEnds, Cut
<1>6. ASSUME NEW t \in Turns, Snapshot(t) PROVE ControlTypeOK'
  BY <1>0, <1>6 DEF Snapshot, AfterTools
<1>7. ASSUME NEW t \in Turns, SettleTool(t) PROVE ControlTypeOK'
  <2> DEFINE g == <<t, Head(turn[t].todo)>>
  <2>1. g \in ToolCalls
    BY <1>0, <1>7, TodoStep, TurnFields DEF SettleTool, StagesOfTurns, ToolCalls
  <2>2. /\ vote' \in [ToolCalls -> Gate!Decisions \cup {"none"}]
        /\ verdict' \in [ToolCalls -> Gate!Verdicts \cup {"open"}]
    <3> HIDE DEF g
    <3>1. Gate!Allow(g) \/ Gate!Deny(g) \/ \E d \in Gate!Decisions : Gate!Preset(g, d)
      BY <1>7 DEF SettleTool, g
    <3>2. QED
      BY <1>0, <2>1, <3>1 DEF Gate!Allow, Gate!Deny, Gate!Preset, Gate!Verdicts
  <2>3. QED
    BY <1>0, <1>7, <2>2 DEF SettleTool
<1>8. ASSUME NEW t \in Turns, NEW d \in Gate!Decisions, Approve(t, d) PROVE ControlTypeOK'
  <2>1. <<t, Head(turn[t].todo)>> \in ToolCalls
    BY <1>0, <1>8, TodoStep, TurnFields DEF Approve, StagesOfTurns, ToolCalls
  <2>2. vote' \in [ToolCalls -> Gate!Decisions \cup {"none"}] /\ verdict' = verdict
    BY <1>0, <1>8, <2>1 DEF Approve, Gate!Vote
  <2>3. QED
    BY <1>0, <1>8, <2>2 DEF Approve
<1>9. ASSUME NEW t \in Turns, RunTool(t) PROVE ControlTypeOK'
  <2>1. Head(turn[t].todo) \in Tools /\ Tail(turn[t].todo) \in Seq(Tools)
    BY <1>0, <1>9, TodoStep, TurnFields DEF RunTool, StagesOfTurns
  <2>2. [turn[t] EXCEPT !.todo = Tail(turn[t].todo)] \in TurnRec
    BY <1>0, <2>1, TurnFields
  <2>3. effects' \subseteq ToolCalls
    BY <1>0, <1>9, <2>1 DEF RunTool, ToolCalls
  <2>4. AfterTools(t, Tail(turn[t].todo)) \in Stages
    BY DEF AfterTools
  <2>5. QED
    BY <1>0, <1>9, <2>2, <2>3, <2>4 DEF RunTool
<1>10. ASSUME NEW t \in Turns, ModelAnswers(t) PROVE ControlTypeOK'
  BY <1>0, <1>10 DEF ModelAnswers
<1>11. ASSUME NEW t \in Turns, ModelFails(t) PROVE ControlTypeOK'
  BY <1>0, <1>11 DEF ModelFails
<1>12. ASSUME NEW t \in Turns, Commit(t) \/ Persist(t) PROVE ControlTypeOK'
  BY <1>0, <1>12 DEF Commit, Persist
<1>13. ASSUME NEW t \in Turns, Finish(t) \/ UnwindPending(t) PROVE ControlTypeOK'
  BY <1>0, <1>13 DEF Finish, UnwindPending
<1>14. ASSUME NEW t \in Turns, UnwindRunning(t) \/ Notice(t) PROVE ControlTypeOK'
  BY <1>0, <1>14 DEF UnwindRunning, Notice
<1>15. ASSUME NEW t \in Turns, Drop(t) PROVE ControlTypeOK'
  BY <1>0, <1>15 DEF Drop
<1>16. ASSUME NEW i \in Interrupts, NEW a \in Agents, TakePending(i, a) PROVE ControlTypeOK'
  <2>1. [int[i] EXCEPT !.at = "took", !.agent = a, !.holder = pending[a]] \in IntRec
    BY <1>0, IntFields
  <2>2. QED
    BY <1>0, <1>16, <2>1 DEF TakePending
<1>17. ASSUME NEW i \in Interrupts, InterruptStep(i) PROVE ControlTypeOK'
  <2>1. \A k \in BOOLEAN : /\ [int[i] EXCEPT !.at = "signaled", !.killed = k] \in IntRec
                           /\ [int[i] EXCEPT !.at = "done", !.active = k] \in IntRec
    BY <1>0, IntFields
  <2>2. int' \in [Interrupts -> IntRec]
    BY <1>0, <1>17, <2>1 DEF InterruptStep, Signal, MarkIdle
  <2>3. QED
    BY <1>0, <1>17, <2>2 DEF InterruptStep, Signal, MarkIdle
<1>18. CASE UNCHANGED vars
  BY <1>0, <1>18 DEF vars
<1> HIDE DEF ControlTypeOK
<1>19. ASSUME NEW t \in Turns, TurnStep(t) \/ Drop(t) PROVE ControlTypeOK'
  BY <1>3, <1>4, <1>5, <1>6, <1>7, <1>9, <1>10, <1>11, <1>12, <1>13, <1>14, <1>15, <1>19, Zenon
  DEF TurnStep
<1>20. QED
  BY <1>1, <1>2, <1>8, <1>16, <1>17, <1>18, <1>19, StepCases, Zenon

\* A turn has an agent before it takes its first step.
LEMMA StagesStep ==
  ASSUME ControlInv, [Next]_vars
  PROVE StagesOfTurns'
<1> USE NobodyAssumption DEF StagesOfTurns, ControlTypeOK, Agent, Goto, Return, ClearPending, DropHolder, logVars, gateVars, turnVars, TurnRec
<1>0. ControlTypeOK /\ StagesOfTurns /\ ControlInv
  BY DEF ControlInv
<1>1. ASSUME NEW t \in Turns, NEW a \in Agents, NEW c \in BOOLEAN, NEW p \in Seq(Tools),
             MarkRunning(t, a, c, p)
      PROVE StagesOfTurns'
  BY <1>0, <1>1 DEF MarkRunning
<1>2. ASSUME NEW t \in Turns, NEW a \in Agents, Busy(t, a) PROVE StagesOfTurns'
  BY <1>0, <1>2 DEF Busy
<1>3. ASSUME NEW t \in Turns, NEW d \in Gate!Decisions, Approve(t, d) PROVE StagesOfTurns'
  BY <1>0, <1>3 DEF Approve
<1>4. ASSUME NEW i \in Interrupts, NEW a \in Agents, TakePending(i, a) PROVE StagesOfTurns'
  BY <1>0, <1>4 DEF TakePending
<1>5. ASSUME NEW i \in Interrupts, InterruptStep(i) PROVE StagesOfTurns'
  BY <1>0, <1>5 DEF InterruptStep, Signal, MarkIdle
<1>6. CASE UNCHANGED vars
  BY <1>0, <1>6 DEF vars
<1>7. ASSUME NEW t \in Turns, Drop(t) PROVE StagesOfTurns'
  BY <1>0, <1>7 DEF Drop
<1>8. ASSUME NEW t \in Turns, ClearOld(t) PROVE StagesOfTurns'
  BY <1>0, <1>8 DEF ClearOld
<1>9. ASSUME NEW t \in Turns, Arm(t) PROVE StagesOfTurns'
  BY <1>0, <1>9 DEF Arm
<1>10. ASSUME NEW t \in Turns, DelayEnds(t) PROVE StagesOfTurns'
  BY <1>0, <1>10 DEF DelayEnds
<1>11. ASSUME NEW t \in Turns, Cut(t) PROVE StagesOfTurns'
  BY <1>0, <1>11 DEF Cut
<1>12. ASSUME NEW t \in Turns, Snapshot(t) PROVE StagesOfTurns'
  BY <1>0, <1>12 DEF Snapshot, AfterTools
<1>13. ASSUME NEW t \in Turns, SettleTool(t) PROVE StagesOfTurns'
  BY <1>0, <1>13 DEF SettleTool
<1>14. ASSUME NEW t \in Turns, RunTool(t) PROVE StagesOfTurns'
  BY <1>0, <1>14 DEF RunTool, AfterTools
<1>15. ASSUME NEW t \in Turns, ModelAnswers(t) PROVE StagesOfTurns'
  BY <1>0, <1>15 DEF ModelAnswers
<1>16. ASSUME NEW t \in Turns, ModelFails(t) PROVE StagesOfTurns'
  BY <1>0, <1>16 DEF ModelFails
<1>17. ASSUME NEW t \in Turns, Commit(t) PROVE StagesOfTurns'
  BY <1>0, <1>17 DEF Commit
<1>18. ASSUME NEW t \in Turns, Persist(t) PROVE StagesOfTurns'
  BY <1>0, <1>18 DEF Persist
<1>19. ASSUME NEW t \in Turns, Finish(t) PROVE StagesOfTurns'
  BY <1>0, <1>19 DEF Finish
<1>20. ASSUME NEW t \in Turns, UnwindPending(t) PROVE StagesOfTurns'
  BY <1>0, <1>20 DEF UnwindPending
<1>21. ASSUME NEW t \in Turns, UnwindRunning(t) PROVE StagesOfTurns'
  BY <1>0, <1>21 DEF UnwindRunning
<1>22. ASSUME NEW t \in Turns, Notice(t) PROVE StagesOfTurns'
  BY <1>0, <1>22 DEF Notice
<1> HIDE DEF StagesOfTurns, ControlTypeOK, Agent
<1>23. ASSUME NEW t \in Turns, TurnStep(t) PROVE StagesOfTurns'
  BY <1>8, <1>9, <1>10, <1>11, <1>12, <1>13, <1>14, <1>15, <1>16, <1>17, <1>18, <1>19, <1>20, <1>21, <1>22, <1>23, Zenon DEF TurnStep
<1>24. QED
  BY <1>1, <1>2, <1>3, <1>4, <1>5, <1>6, <1>7, <1>23, StepCases, Zenon

\* A turn clears the map before it returns.
LEMMA HolderStep ==
  ASSUME ControlInv, [Next]_vars
  PROVE HolderIsOpen'
<1> USE NobodyAssumption DEF HolderIsOpen, StagesOfTurns, ControlInv, ControlTypeOK, Agent, Goto, Return, ClearPending, DropHolder, logVars, gateVars, turnVars, TurnRec
<1>0. ControlTypeOK /\ StagesOfTurns /\ ControlInv
  BY DEF ControlInv
<1>1. ASSUME NEW t \in Turns, NEW a \in Agents, NEW c \in BOOLEAN, NEW p \in Seq(Tools),
             MarkRunning(t, a, c, p)
      PROVE HolderIsOpen'
  BY <1>0, <1>1 DEF MarkRunning
<1>2. ASSUME NEW t \in Turns, NEW a \in Agents, Busy(t, a) PROVE HolderIsOpen'
  BY <1>0, <1>2 DEF Busy
<1>3. ASSUME NEW t \in Turns, NEW d \in Gate!Decisions, Approve(t, d) PROVE HolderIsOpen'
  BY <1>0, <1>3 DEF Approve
<1>4. ASSUME NEW i \in Interrupts, NEW a \in Agents, TakePending(i, a) PROVE HolderIsOpen'
  BY <1>0, <1>4 DEF TakePending
<1>5. ASSUME NEW i \in Interrupts, InterruptStep(i) PROVE HolderIsOpen'
  BY <1>0, <1>5 DEF InterruptStep, Signal, MarkIdle
<1>6. CASE UNCHANGED vars
  BY <1>0, <1>6 DEF vars
<1>7. ASSUME NEW t \in Turns, Drop(t) PROVE HolderIsOpen'
  BY <1>0, <1>7 DEF Drop
<1>8. ASSUME NEW t \in Turns, ClearOld(t) PROVE HolderIsOpen'
  BY <1>0, <1>8 DEF ClearOld
<1>9. ASSUME NEW t \in Turns, Arm(t) PROVE HolderIsOpen'
  BY <1>0, <1>9 DEF Arm
<1>10. ASSUME NEW t \in Turns, DelayEnds(t) PROVE HolderIsOpen'
  BY <1>0, <1>10 DEF DelayEnds
<1>11. ASSUME NEW t \in Turns, Cut(t) PROVE HolderIsOpen'
  BY <1>0, <1>11 DEF Cut
<1>12. ASSUME NEW t \in Turns, Snapshot(t) PROVE HolderIsOpen'
  BY <1>0, <1>12 DEF Snapshot, AfterTools
<1>13. ASSUME NEW t \in Turns, SettleTool(t) PROVE HolderIsOpen'
  BY <1>0, <1>13 DEF SettleTool
<1>14. ASSUME NEW t \in Turns, RunTool(t) PROVE HolderIsOpen'
  BY <1>0, <1>14 DEF RunTool, AfterTools
<1>15. ASSUME NEW t \in Turns, ModelAnswers(t) PROVE HolderIsOpen'
  BY <1>0, <1>15 DEF ModelAnswers
<1>16. ASSUME NEW t \in Turns, ModelFails(t) PROVE HolderIsOpen'
  BY <1>0, <1>16 DEF ModelFails
<1>17. ASSUME NEW t \in Turns, Commit(t) PROVE HolderIsOpen'
  BY <1>0, <1>17 DEF Commit
<1>18. ASSUME NEW t \in Turns, Persist(t) PROVE HolderIsOpen'
  BY <1>0, <1>18 DEF Persist
<1>19. ASSUME NEW t \in Turns, Finish(t) PROVE HolderIsOpen'
  BY <1>0, <1>19 DEF Finish
<1>20. ASSUME NEW t \in Turns, UnwindPending(t) PROVE HolderIsOpen'
  BY <1>0, <1>20 DEF UnwindPending
<1>21. ASSUME NEW t \in Turns, UnwindRunning(t) PROVE HolderIsOpen'
  BY <1>0, <1>21 DEF UnwindRunning
<1>22. ASSUME NEW t \in Turns, Notice(t) PROVE HolderIsOpen'
  BY <1>0, <1>22 DEF Notice
<1> HIDE DEF HolderIsOpen, StagesOfTurns, ControlInv, ControlTypeOK, Agent
<1>23. ASSUME NEW t \in Turns, TurnStep(t) PROVE HolderIsOpen'
  BY <1>8, <1>9, <1>10, <1>11, <1>12, <1>13, <1>14, <1>15, <1>16, <1>17, <1>18, <1>19, <1>20, <1>21, <1>22, <1>23, Zenon DEF TurnStep
<1>24. QED
  BY <1>1, <1>2, <1>3, <1>4, <1>5, <1>6, <1>7, <1>23, StepCases, Zenon

\* The flag falls with the turn that set it.
LEMMA FlagHasTurnStep ==
  ASSUME ControlInv, [Next]_vars
  PROVE FlagHasTurn'
<1> USE NobodyAssumption DEF FlagHasTurn, Live, StagesOfTurns, ControlInv, ControlTypeOK, Agent, Goto, Return, ClearPending, DropHolder, logVars, gateVars, turnVars, TurnRec
<1>0. ControlTypeOK /\ StagesOfTurns /\ ControlInv
  BY DEF ControlInv
<1>1. ASSUME NEW t \in Turns, NEW a \in Agents, NEW c \in BOOLEAN, NEW p \in Seq(Tools),
             MarkRunning(t, a, c, p)
      PROVE FlagHasTurn'
  BY <1>0, <1>1 DEF MarkRunning
<1>2. ASSUME NEW t \in Turns, NEW a \in Agents, Busy(t, a) PROVE FlagHasTurn'
  BY <1>0, <1>2 DEF Busy
<1>3. ASSUME NEW t \in Turns, NEW d \in Gate!Decisions, Approve(t, d) PROVE FlagHasTurn'
  BY <1>0, <1>3 DEF Approve
<1>4. ASSUME NEW i \in Interrupts, NEW a \in Agents, TakePending(i, a) PROVE FlagHasTurn'
  BY <1>0, <1>4 DEF TakePending
<1>5. ASSUME NEW i \in Interrupts, InterruptStep(i) PROVE FlagHasTurn'
  <2>1. /\ UNCHANGED <<turn, pc, result>>
        /\ isRunning' = isRunning \/ isRunning' = [isRunning EXCEPT ![int[i].agent] = FALSE]
    BY <1>5 DEF InterruptStep, Signal, MarkIdle
  <2>3. QED
    BY <1>0, <2>1
<1>6. CASE UNCHANGED vars
  BY <1>0, <1>6 DEF vars
<1>7. ASSUME NEW t \in Turns, Drop(t) PROVE FlagHasTurn'
  BY <1>0, <1>7 DEF Drop
<1>8. ASSUME NEW t \in Turns, ClearOld(t) PROVE FlagHasTurn'
  BY <1>0, <1>8 DEF ClearOld
<1>9. ASSUME NEW t \in Turns, Arm(t) PROVE FlagHasTurn'
  BY <1>0, <1>9 DEF Arm
<1>10. ASSUME NEW t \in Turns, DelayEnds(t) PROVE FlagHasTurn'
  BY <1>0, <1>10 DEF DelayEnds
<1>11. ASSUME NEW t \in Turns, Cut(t) PROVE FlagHasTurn'
  BY <1>0, <1>11 DEF Cut
<1>12. ASSUME NEW t \in Turns, Snapshot(t) PROVE FlagHasTurn'
  BY <1>0, <1>12 DEF Snapshot, AfterTools
<1>13. ASSUME NEW t \in Turns, SettleTool(t) PROVE FlagHasTurn'
  BY <1>0, <1>13 DEF SettleTool
<1>14. ASSUME NEW t \in Turns, RunTool(t) PROVE FlagHasTurn'
  BY <1>0, <1>14 DEF RunTool, AfterTools
<1>15. ASSUME NEW t \in Turns, ModelAnswers(t) PROVE FlagHasTurn'
  <2>1. PICK stage \in {"body", "reply"} :
          pc' = [pc EXCEPT ![t] = stage] /\ pc[t] \in {"llm", "body"}
    BY <1>15 DEF ModelAnswers
  <2>2. UNCHANGED <<isRunning, turn, result, int>>
    BY <1>15 DEF ModelAnswers
  <2>3. QED
    BY <1>0, <2>1, <2>2
<1>16. ASSUME NEW t \in Turns, ModelFails(t) PROVE FlagHasTurn'
  BY <1>0, <1>16 DEF ModelFails
<1>17. ASSUME NEW t \in Turns, Commit(t) PROVE FlagHasTurn'
  BY <1>0, <1>17 DEF Commit
<1>18. ASSUME NEW t \in Turns, Persist(t) PROVE FlagHasTurn'
  BY <1>0, <1>18 DEF Persist
<1>19. ASSUME NEW t \in Turns, Finish(t) PROVE FlagHasTurn'
  BY <1>0, <1>19 DEF Finish
<1>20. ASSUME NEW t \in Turns, UnwindPending(t) PROVE FlagHasTurn'
  BY <1>0, <1>20 DEF UnwindPending
<1>21. ASSUME NEW t \in Turns, UnwindRunning(t) PROVE FlagHasTurn'
  BY <1>0, <1>21 DEF UnwindRunning
<1>22. ASSUME NEW t \in Turns, Notice(t) PROVE FlagHasTurn'
  BY <1>0, <1>22 DEF Notice
<1> HIDE DEF FlagHasTurn, Live, StagesOfTurns, ControlInv, ControlTypeOK, Agent
<1>23. ASSUME NEW t \in Turns, TurnStep(t) PROVE FlagHasTurn'
  BY <1>8, <1>9, <1>10, <1>11, <1>12, <1>13, <1>14, <1>15, <1>16, <1>17, <1>18, <1>19, <1>20, <1>21, <1>22, <1>23, Zenon DEF TurnStep
<1>24. QED
  BY <1>1, <1>2, <1>3, <1>4, <1>5, <1>6, <1>7, <1>23, StepCases, Zenon

\* Without an interrupt nothing lowers the flag under a live turn.
LEMMA FlagIsUpStep ==
  ASSUME ControlInv, [Next]_vars
  PROVE FlagIsUp'
<1> USE NobodyAssumption DEF FlagIsUp, TurnsExclude, Live, NoInterrupt, IntRec, StagesOfTurns, ControlInv, ControlTypeOK, Agent, Goto, Return, ClearPending, DropHolder, logVars, gateVars, turnVars, TurnRec
<1>0. ControlTypeOK /\ StagesOfTurns /\ ControlInv
  BY DEF ControlInv
<1>1. ASSUME NEW t \in Turns, NEW a \in Agents, NEW c \in BOOLEAN, NEW p \in Seq(Tools),
             MarkRunning(t, a, c, p)
      PROVE FlagIsUp'
  BY <1>0, <1>1 DEF MarkRunning
<1>2. ASSUME NEW t \in Turns, NEW a \in Agents, Busy(t, a) PROVE FlagIsUp'
  BY <1>0, <1>2 DEF Busy
<1>3. ASSUME NEW t \in Turns, NEW d \in Gate!Decisions, Approve(t, d) PROVE FlagIsUp'
  BY <1>0, <1>3 DEF Approve
<1>4. ASSUME NEW i \in Interrupts, NEW a \in Agents, TakePending(i, a) PROVE FlagIsUp'
  <2>1. UNCHANGED <<turn, pc, result, isRunning>>
    BY <1>4 DEF TakePending
  <2>2. int[i].at = "new" /\ \E h : int' = [int EXCEPT ![i].at = "took", ![i].agent = a, ![i].holder = h]
    BY <1>4 DEF TakePending
  <2>3. QED
    BY <1>0, <2>1, <2>2
<1>5. ASSUME NEW i \in Interrupts, InterruptStep(i) PROVE FlagIsUp'
  <2>1. /\ UNCHANGED <<turn, pc, result>>
        /\ isRunning' = isRunning \/ isRunning' = [isRunning EXCEPT ![int[i].agent] = FALSE]
    BY <1>5 DEF InterruptStep, Signal, MarkIdle
  <2>2. QED
    BY <1>0, <1>5, <2>1, InterruptKeepsAgent
<1>6. CASE UNCHANGED vars
  BY <1>0, <1>6 DEF vars
<1>7. ASSUME NEW t \in Turns, Drop(t) PROVE FlagIsUp'
  BY <1>0, <1>7 DEF Drop
<1>8. ASSUME NEW t \in Turns, ClearOld(t) PROVE FlagIsUp'
  BY <1>0, <1>8 DEF ClearOld
<1>9. ASSUME NEW t \in Turns, Arm(t) PROVE FlagIsUp'
  BY <1>0, <1>9 DEF Arm
<1>10. ASSUME NEW t \in Turns, DelayEnds(t) PROVE FlagIsUp'
  BY <1>0, <1>10 DEF DelayEnds
<1>11. ASSUME NEW t \in Turns, Cut(t) PROVE FlagIsUp'
  BY <1>0, <1>11 DEF Cut
<1>12. ASSUME NEW t \in Turns, Snapshot(t) PROVE FlagIsUp'
  BY <1>0, <1>12 DEF Snapshot, AfterTools
<1>13. ASSUME NEW t \in Turns, SettleTool(t) PROVE FlagIsUp'
  BY <1>0, <1>13 DEF SettleTool
<1>14. ASSUME NEW t \in Turns, RunTool(t) PROVE FlagIsUp'
  BY <1>0, <1>14 DEF RunTool, AfterTools
<1>15. ASSUME NEW t \in Turns, ModelAnswers(t) PROVE FlagIsUp'
  <2>1. PICK stage \in {"body", "reply"} :
          pc' = [pc EXCEPT ![t] = stage] /\ pc[t] \in {"llm", "body"}
    BY <1>15 DEF ModelAnswers
  <2>2. UNCHANGED <<isRunning, turn, result, int>>
    BY <1>15 DEF ModelAnswers
  <2>3. QED
    BY <1>0, <2>1, <2>2
<1>16. ASSUME NEW t \in Turns, ModelFails(t) PROVE FlagIsUp'
  BY <1>0, <1>16 DEF ModelFails
<1>17. ASSUME NEW t \in Turns, Commit(t) PROVE FlagIsUp'
  <2>1. isRunning' = [isRunning EXCEPT ![Agent(t)] = FALSE] /\ UNCHANGED <<turn, int>>
    BY <1>17 DEF Commit
  <2>2. Live(t) /\ ~Live(t)' /\ \A u \in Turns \ {t} : pc'[u] = pc[u]
    BY <1>0, <1>17 DEF Commit
  <2>3. ASSUME NEW u \in Turns, Live(u)', NoInterrupt(Agent(u)) PROVE isRunning'[Agent(u)]
    <3>1. u # t /\ Live(u)
      BY <2>2, <2>3
    <3>2. Agent(u) # Agent(t)
      BY <1>0, <2>2, <2>3, <3>1
    <3>3. QED
      BY <1>0, <2>1, <2>3, <3>1, <3>2
  <2>4. QED
    BY <1>0, <2>1, <2>3
<1>18. ASSUME NEW t \in Turns, Persist(t) PROVE FlagIsUp'
  BY <1>0, <1>18 DEF Persist
<1>19. ASSUME NEW t \in Turns, Finish(t) PROVE FlagIsUp'
  BY <1>0, <1>19 DEF Finish
<1>20. ASSUME NEW t \in Turns, UnwindPending(t) PROVE FlagIsUp'
  BY <1>0, <1>20 DEF UnwindPending
<1>21. ASSUME NEW t \in Turns, UnwindRunning(t) PROVE FlagIsUp'
  <2>1. isRunning' = [isRunning EXCEPT ![Agent(t)] = FALSE] /\ UNCHANGED <<turn, int>>
    BY <1>21 DEF UnwindRunning
  <2>2. Live(t) /\ ~Live(t)' /\ \A u \in Turns \ {t} : pc'[u] = pc[u]
    BY <1>0, <1>21 DEF UnwindRunning
  <2>3. ASSUME NEW u \in Turns, Live(u)', NoInterrupt(Agent(u)) PROVE isRunning'[Agent(u)]
    <3>1. u # t /\ Live(u)
      BY <2>2, <2>3
    <3>2. Agent(u) # Agent(t)
      BY <1>0, <2>2, <2>3, <3>1
    <3>3. QED
      BY <1>0, <2>1, <2>3, <3>1, <3>2
  <2>4. QED
    BY <1>0, <2>1, <2>3
<1>22. ASSUME NEW t \in Turns, Notice(t) PROVE FlagIsUp'
  BY <1>0, <1>22 DEF Notice
<1> HIDE DEF FlagIsUp, TurnsExclude, Live, NoInterrupt, StagesOfTurns, ControlInv, ControlTypeOK, Agent
<1>23. ASSUME NEW t \in Turns, TurnStep(t) PROVE FlagIsUp'
  BY <1>8, <1>9, <1>10, <1>11, <1>12, <1>13, <1>14, <1>15, <1>16, <1>17, <1>18, <1>19, <1>20, <1>21, <1>22, <1>23, Zenon DEF TurnStep
<1>24. QED
  BY <1>1, <1>2, <1>3, <1>4, <1>5, <1>6, <1>7, <1>23, StepCases, Zenon

\* Nothing but a raised flag keeps a second turn out.
LEMMA ExcludeStep ==
  ASSUME ControlInv, [Next]_vars
  PROVE TurnsExclude'
<1> USE NobodyAssumption DEF TurnsExclude, FlagIsUp, Live, NoInterrupt, IntRec, StagesOfTurns, ControlInv, ControlTypeOK, Agent, Goto, Return, ClearPending, DropHolder, logVars, gateVars, turnVars, TurnRec
<1>0. ControlTypeOK /\ StagesOfTurns /\ ControlInv
  BY DEF ControlInv
<1>1. ASSUME NEW t \in Turns, NEW a \in Agents, NEW c \in BOOLEAN, NEW p \in Seq(Tools),
             MarkRunning(t, a, c, p)
      PROVE TurnsExclude'
  BY <1>0, <1>1 DEF MarkRunning
<1>2. ASSUME NEW t \in Turns, NEW a \in Agents, Busy(t, a) PROVE TurnsExclude'
  BY <1>0, <1>2 DEF Busy
<1>3. ASSUME NEW t \in Turns, NEW d \in Gate!Decisions, Approve(t, d) PROVE TurnsExclude'
  BY <1>0, <1>3 DEF Approve
<1>4. ASSUME NEW i \in Interrupts, NEW a \in Agents, TakePending(i, a) PROVE TurnsExclude'
  <2>1. int' = [int EXCEPT ![i].at = "took", ![i].agent = a, ![i].holder = pending[a]]
        /\ int[i].at = "new" /\ UNCHANGED <<pc, turn>>
    BY <1>4 DEF TakePending
  <2>2. ASSUME NEW b \in Agents, NoInterrupt(b)' PROVE NoInterrupt(b)
    BY <1>0, <2>1, <2>2
  <2>3. QED
    BY <1>0, <2>1, <2>2
<1>5. ASSUME NEW i \in Interrupts, InterruptStep(i) PROVE TurnsExclude'
  <2>1. /\ UNCHANGED <<turn, pc, result>>
        /\ isRunning' = isRunning \/ isRunning' = [isRunning EXCEPT ![int[i].agent] = FALSE]
    BY <1>5 DEF InterruptStep, Signal, MarkIdle
  <2>2. QED
    BY <1>0, <1>5, <2>1, InterruptKeepsAgent
<1>6. CASE UNCHANGED vars
  BY <1>0, <1>6 DEF vars
<1>7. ASSUME NEW t \in Turns, Drop(t) PROVE TurnsExclude'
  BY <1>0, <1>7 DEF Drop
<1>8. ASSUME NEW t \in Turns, ClearOld(t) PROVE TurnsExclude'
  BY <1>0, <1>8 DEF ClearOld
<1>9. ASSUME NEW t \in Turns, Arm(t) PROVE TurnsExclude'
  BY <1>0, <1>9 DEF Arm
<1>10. ASSUME NEW t \in Turns, DelayEnds(t) PROVE TurnsExclude'
  BY <1>0, <1>10 DEF DelayEnds
<1>11. ASSUME NEW t \in Turns, Cut(t) PROVE TurnsExclude'
  BY <1>0, <1>11 DEF Cut
<1>12. ASSUME NEW t \in Turns, Snapshot(t) PROVE TurnsExclude'
  BY <1>0, <1>12 DEF Snapshot, AfterTools
<1>13. ASSUME NEW t \in Turns, SettleTool(t) PROVE TurnsExclude'
  BY <1>0, <1>13 DEF SettleTool
<1>14. ASSUME NEW t \in Turns, RunTool(t) PROVE TurnsExclude'
  BY <1>0, <1>14 DEF RunTool, AfterTools
<1>15. ASSUME NEW t \in Turns, ModelAnswers(t) PROVE TurnsExclude'
  <2>1. PICK stage \in {"body", "reply"} :
          pc' = [pc EXCEPT ![t] = stage] /\ pc[t] \in {"llm", "body"}
    BY <1>15 DEF ModelAnswers
  <2>2. UNCHANGED <<isRunning, turn, result, int>>
    BY <1>15 DEF ModelAnswers
  <2>3. QED
    BY <1>0, <2>1, <2>2
<1>16. ASSUME NEW t \in Turns, ModelFails(t) PROVE TurnsExclude'
  BY <1>0, <1>16 DEF ModelFails
<1>17. ASSUME NEW t \in Turns, Commit(t) PROVE TurnsExclude'
  BY <1>0, <1>17 DEF Commit
<1>18. ASSUME NEW t \in Turns, Persist(t) PROVE TurnsExclude'
  BY <1>0, <1>18 DEF Persist
<1>19. ASSUME NEW t \in Turns, Finish(t) PROVE TurnsExclude'
  BY <1>0, <1>19 DEF Finish
<1>20. ASSUME NEW t \in Turns, UnwindPending(t) PROVE TurnsExclude'
  BY <1>0, <1>20 DEF UnwindPending
<1>21. ASSUME NEW t \in Turns, UnwindRunning(t) PROVE TurnsExclude'
  BY <1>0, <1>21 DEF UnwindRunning
<1>22. ASSUME NEW t \in Turns, Notice(t) PROVE TurnsExclude'
  BY <1>0, <1>22 DEF Notice
<1> HIDE DEF TurnsExclude, FlagIsUp, Live, NoInterrupt, StagesOfTurns, ControlInv, ControlTypeOK, Agent
<1>23. ASSUME NEW t \in Turns, TurnStep(t) PROVE TurnsExclude'
  BY <1>8, <1>9, <1>10, <1>11, <1>12, <1>13, <1>14, <1>15, <1>16, <1>17, <1>18, <1>19, <1>20, <1>21, <1>22, <1>23, Zenon DEF TurnStep
<1>24. QED
  BY <1>1, <1>2, <1>3, <1>4, <1>5, <1>6, <1>7, <1>23, StepCases, Zenon

LEMMA ControlStep == ControlInv /\ [Next]_vars => ControlInv'
  BY ControlTypeStep, StagesStep, HolderStep, FlagHasTurnStep, FlagIsUpStep, ExcludeStep, Zenon
  DEF ControlInv

THEOREM Control == Spec => []ControlInv
<1>1. QED
  BY ControlInit, ControlStep, PTL DEF Spec

\* mark_running and what clears the flag: as long as nobody interrupts an
\* agent, at most one of its turns is between mark_running and commit_turn.
THEOREM OneTurnAtATime == Spec => []TurnsExclude
<1>1. ControlInv => TurnsExclude
  BY DEF ControlInv
<1>2. QED
  BY <1>1, Control, PTL

\* clear_pending and set_running: no flag and no cancel sender outlives its turn,
\* unless its handler was dropped with its connection.
THEOREM NothingLeftBehind == Spec => []NothingOutlivesTurn
<1>1. ControlInv => NothingOutlivesTurn
  <2> SUFFICES ASSUME ControlInv, NEW a \in Agents
               PROVE /\ isRunning[a] => \E t \in Turns : Agent(t) = a /\ (Live(t) \/ result[t] = "dropped")
                     /\ pending[a] # Nobody =>
                          /\ Agent(pending[a]) = a
                          /\ pc[pending[a]] = "done" => result[pending[a]] = "dropped"
    BY DEF NothingOutlivesTurn
  <2>1. QED
    BY DEF ControlInv, HolderIsOpen, FlagHasTurn
<1>2. QED
  BY <1>1, Control, PTL
-----------------------------------------------------------------------------
(* The gate *)

\* Only an accepted allow makes a verdict allow, and only such a verdict lets a
\* tool run.
LEMMA AllowedStep == ControlInv /\ AllowedInv /\ [Next]_vars => AllowedInv'
<1> SUFFICES ASSUME ControlTypeOK, StagesOfTurns, AllowedInv, [Next]_vars PROVE AllowedInv'
  BY DEF ControlInv
<1> USE DEF AllowedInv
<1>1. ASSUME NEW t \in Turns, SettleTool(t) PROVE AllowedInv'
  <2> DEFINE g == <<t, Head(turn[t].todo)>>
  <2>1. g \in ToolCalls
    BY <1>1, TodoStep, TurnFields DEF SettleTool, StagesOfTurns, ToolCalls, ControlTypeOK
  <2>2. effects' = effects /\ effects \subseteq ToolCalls
    BY <1>1 DEF SettleTool, ControlTypeOK
  <2> HIDE DEF g
  <2>3. Gate!Allow(g) \/ Gate!Deny(g) \/ \E d \in Gate!Decisions : Gate!Preset(g, d)
    BY <1>1 DEF SettleTool, g
  <2>4. CASE Gate!Allow(g)
    BY <2>1, <2>2, <2>4 DEF Gate!Allow, ControlTypeOK
  <2>5. CASE Gate!Deny(g)
    BY <2>1, <2>2, <2>5 DEF Gate!Deny, ControlTypeOK
  <2>6. ASSUME NEW d \in Gate!Decisions, Gate!Preset(g, d) PROVE AllowedInv'
    BY <2>1, <2>2, <2>6 DEF Gate!Preset, ControlTypeOK
  <2>7. QED
    BY <2>3, <2>4, <2>5, <2>6
<1>2. ASSUME NEW t \in Turns, NEW d \in Gate!Decisions, Approve(t, d) PROVE AllowedInv'
  BY <1>2 DEF Approve, Gate!Vote, ControlTypeOK
<1>3. ASSUME NEW t \in Turns, RunTool(t) PROVE AllowedInv'
  <2>1. <<t, Head(turn[t].todo)>> \in ToolCalls
    BY <1>3, TodoStep, TurnFields DEF RunTool, StagesOfTurns, ToolCalls, ControlTypeOK
  <2>2. QED
    BY <1>3, <2>1 DEF RunTool, gateVars
<1>4. ASSUME UNCHANGED <<effects, gateVars>> PROVE AllowedInv'
  BY <1>4 DEF gateVars
<1>5. ASSUME NEW t \in Turns, TurnStep(t) \/ Drop(t) PROVE AllowedInv'
  BY <1>1, <1>3, <1>4, <1>5
  DEF TurnStep, Drop, ClearOld, Arm, DelayEnds, Cut, Snapshot, ModelAnswers, ModelFails, Commit,
      Persist, Finish, UnwindPending, UnwindRunning, Notice
<1>6. QED
  BY <1>2, <1>4, <1>5, StepCases
  DEF MarkRunning, Busy, TakePending, InterruptStep, Signal, MarkIdle, vars

\* approval_gate in front of write_file, shell_cat and shell_mkdir: in mode gate
\* no tool touches the workspace without an accepted allow for that very call.
THEOREM NoEffectUnvoted == Spec => []NoEffectWithoutAllow
<1>1. Init => AllowedInv
  BY DEF Init, AllowedInv, Gate!Init
<1>2. AllowedInv => NoEffectWithoutAllow
  BY DEF AllowedInv, NoEffectWithoutAllow
<1>3. QED
  BY <1>1, <1>2, Control, AllowedStep, PTL DEF Spec
-----------------------------------------------------------------------------
(* The transcript *)

\* One transcript whose next number is n.
WellFormed(s, n) ==
  /\ s \in Seq(Entry) /\ n = Len(s) + 1
  /\ \A k \in 1..Len(s) :
       /\ s[k].seq = k
       /\ s[k].role = "user" =>
            k + 1 \in 1..Len(s) /\ s[k + 1].role = "assistant" /\ s[k + 1].turn = s[k].turn

TranscriptInv ==
  /\ transcript \in [Agents -> Seq(Entry)] /\ nextSeq \in [Agents -> Nat]
  /\ \A a \in Agents : WellFormed(transcript[a], nextSeq[a])

\* A pair keeps a transcript well formed, and so does a notice.
LEMMA PairKeeps ==
  ASSUME NEW s, NEW n, WellFormed(s, n), NEW t \in Turns,
         NEW u, u = [turn |-> t, role |-> "user", seq |-> n],
         NEW v, v = [turn |-> t, role |-> "assistant", seq |-> n + 1]
  PROVE WellFormed(s \o <<u, v>>, n + 2)
<1>1. u \in Entry /\ v \in Entry /\ s \in Seq(Entry) /\ n \in Nat /\ n = Len(s) + 1
  BY DEF WellFormed, Entry
<1> DEFINE w == s \o <<u, v>>
<1>2. w \in Seq(Entry) /\ Len(w) = Len(s) + 2
  BY <1>1
<1>3. /\ \A k \in 1..Len(s) : w[k] = s[k]
      /\ w[Len(s) + 1] = u /\ w[Len(s) + 2] = v
  BY <1>1
<1> HIDE DEF w
<1>4. ASSUME NEW k \in 1..Len(w)
      PROVE /\ w[k].seq = k
            /\ w[k].role = "user" =>
                 k + 1 \in 1..Len(w) /\ w[k + 1].role = "assistant" /\ w[k + 1].turn = w[k].turn
  <2>1. CASE k \in 1..Len(s)
    BY <1>1, <1>2, <1>3, <2>1 DEF WellFormed
  <2>2. CASE k = Len(s) + 1
    BY <1>1, <1>2, <1>3, <2>2
  <2>3. CASE k = Len(s) + 2
    BY <1>1, <1>2, <1>3, <2>3
  <2>4. QED
    BY <1>1, <1>2, <2>1, <2>2, <2>3
<1>5. QED
  BY <1>1, <1>2, <1>4 DEF WellFormed, w

LEMMA NoticeKeeps ==
  ASSUME NEW s, NEW n, WellFormed(s, n), NEW t \in Turns,
         NEW u, u = [turn |-> t, role |-> "system", seq |-> n]
  PROVE WellFormed(Append(s, u), n + 1)
<1>1. u \in Entry /\ s \in Seq(Entry) /\ n \in Nat /\ n = Len(s) + 1
  BY DEF WellFormed, Entry
<1> DEFINE w == Append(s, u)
<1>2. w \in Seq(Entry) /\ Len(w) = Len(s) + 1 /\ w[Len(s) + 1] = u
  BY <1>1
<1>3. \A k \in 1..Len(s) : w[k] = s[k]
  BY <1>1
<1> HIDE DEF w
<1>4. ASSUME NEW k \in 1..Len(w)
      PROVE /\ w[k].seq = k
            /\ w[k].role = "user" =>
                 k + 1 \in 1..Len(w) /\ w[k + 1].role = "assistant" /\ w[k + 1].turn = w[k].turn
  <2>1. CASE k \in 1..Len(s)
    BY <1>1, <1>2, <1>3, <2>1 DEF WellFormed
  <2>2. CASE k = Len(s) + 1
    BY <1>1, <1>2, <2>2
  <2>3. QED
    BY <1>1, <1>2, <2>1, <2>2
<1>5. QED
  BY <1>1, <1>2, <1>4 DEF WellFormed, w

LEMMA TranscriptStep == ControlInv /\ TranscriptInv /\ [Next]_vars => TranscriptInv'
<1> SUFFICES ASSUME ControlTypeOK, StagesOfTurns, TranscriptInv, [Next]_vars PROVE TranscriptInv'
  BY DEF ControlInv
<1>1. ASSUME NEW t \in Turns, Commit(t) PROVE TranscriptInv'
  <2> DEFINE a == Agent(t)
  <2>1. a \in Agents /\ WellFormed(transcript[a], nextSeq[a])
    BY <1>1 DEF Commit, StagesOfTurns, TranscriptInv
  <2>2. PICK u, v :
          /\ u = [turn |-> t, role |-> "user", seq |-> nextSeq[a]]
          /\ v = [turn |-> t, role |-> "assistant", seq |-> nextSeq[a] + 1]
          /\ transcript' = [transcript EXCEPT ![a] = @ \o <<u, v>>]
          /\ nextSeq' = [nextSeq EXCEPT ![a] = nextSeq[a] + 2]
    BY <1>1 DEF Commit
  <2>3. WellFormed(transcript[a] \o <<u, v>>, nextSeq[a] + 2)
    BY <2>1, <2>2, PairKeeps
  <2>4. transcript[a] \o <<u, v>> \in Seq(Entry) /\ nextSeq[a] + 2 \in Nat
    BY <2>1, <2>3 DEF WellFormed, TranscriptInv
  <2> HIDE DEF a
  <2>5. QED
    BY <2>1, <2>2, <2>3, <2>4 DEF TranscriptInv
<1>2. ASSUME NEW t \in Turns, Notice(t) PROVE TranscriptInv'
  <2> DEFINE a == Agent(t)
  <2>1. a \in Agents /\ WellFormed(transcript[a], nextSeq[a])
    BY <1>2 DEF Notice, StagesOfTurns, TranscriptInv
  <2>2. PICK u :
          /\ u = [turn |-> t, role |-> "system", seq |-> nextSeq[a]]
          /\ transcript' = [transcript EXCEPT ![a] = Append(@, u)]
          /\ nextSeq' = [nextSeq EXCEPT ![a] = nextSeq[a] + 1]
    BY <1>2 DEF Notice
  <2>3. WellFormed(Append(transcript[a], u), nextSeq[a] + 1)
    BY <2>1, <2>2, NoticeKeeps
  <2>4. Append(transcript[a], u) \in Seq(Entry) /\ nextSeq[a] + 1 \in Nat
    BY <2>1, <2>3 DEF WellFormed, TranscriptInv
  <2> HIDE DEF a
  <2>5. QED
    BY <2>1, <2>2, <2>3, <2>4 DEF TranscriptInv
<1>3. ASSUME UNCHANGED <<transcript, nextSeq>> PROVE TranscriptInv'
  BY <1>3 DEF TranscriptInv
<1>4. ASSUME NEW t \in Turns, TurnStep(t) \/ Drop(t) PROVE TranscriptInv'
  BY <1>1, <1>2, <1>3, <1>4
  DEF TurnStep, Drop, ClearOld, Arm, DelayEnds, Cut, Snapshot, SettleTool, RunTool, ModelAnswers,
      ModelFails, Persist, Finish, UnwindPending, UnwindRunning, logVars
<1>5. QED
  BY <1>3, <1>4, StepCases
  DEF MarkRunning, Busy, Approve, TakePending, InterruptStep, Signal, MarkIdle, vars, logVars

LEMMA TranscriptInit == Init => TranscriptInv
<1> SUFFICES ASSUME Init PROVE TranscriptInv
  OBVIOUS
<1> DEFINE e == [turn |-> Nobody, role |-> "assistant", seq |-> 1]
<1>1. e \in Entry /\ e.seq = 1 /\ e.role # "user"
  BY DEF Entry
<1> HIDE DEF e
<1>2. <<e>> \in Seq(Entry) /\ Len(<<e>>) = 1 /\ <<e>>[1] = e
  BY <1>1
<1>3. WellFormed(<<e>>, 2)
  BY <1>1, <1>2 DEF WellFormed
<1>4. transcript = [a \in Agents |-> <<e>>] /\ nextSeq = [a \in Agents |-> 2]
  BY DEF Init, e
<1>5. QED
  BY <1>2, <1>3, <1>4 DEF TranscriptInv

LEMMA TranscriptMeans == TranscriptInv => TranscriptWellFormed
<1> SUFFICES ASSUME TranscriptInv, NEW a \in Agents
             PROVE /\ nextSeq[a] = Len(transcript[a]) + 1
                   /\ \A k \in DOMAIN transcript[a] :
                        /\ transcript[a][k].seq = k
                        /\ transcript[a][k].role = "user" =>
                             /\ k + 1 \in DOMAIN transcript[a]
                             /\ transcript[a][k + 1].role = "assistant"
                             /\ transcript[a][k + 1].turn = transcript[a][k].turn
  BY DEF TranscriptWellFormed
<1>1. WellFormed(transcript[a], nextSeq[a]) /\ DOMAIN transcript[a] = 1..Len(transcript[a])
  BY DEF TranscriptInv
<1>2. QED
  BY <1>1 DEF WellFormed

\* commit_turn and append_system_notice: entry k has seq k, and a user entry is
\* followed by the assistant entry of the same turn, whatever runs in between.
THEOREM TranscriptsWellFormed == Spec => []TranscriptWellFormed
<1>1. QED
  BY TranscriptInit, TranscriptMeans, Control, TranscriptStep, PTL DEF Spec
-----------------------------------------------------------------------------
(* What is recorded of a turn *)

Users(s, t) == {k \in DOMAIN s : s[k].turn = t /\ s[k].role = "user"}

\* Turns that wrote nothing: they have yet to commit, or were answered otherwise.
Unwritten(t) == \/ pc[t] \notin {"persist", "clear", "done"}
                \/ pc[t] = "done" /\ result[t] \notin {"completed", "dropped"}

\* Turns that committed, and may have lost their caller since.
Written(t) == \/ pc[t] \in {"persist", "clear"}
              \/ pc[t] = "done" /\ result[t] = "completed"

InSession(t, a) == \E k \in DOMAIN session[a] : session[a][k] = t

RecordInv ==
  /\ session \in [Agents -> Seq(Turns)]
  /\ \A t \in Turns : result[t] = "completed" => pc[t] = "done"
  /\ \A t \in Turns, a \in Agents : Unwritten(t) => Users(transcript[a], t) = {}
  /\ \A t \in Turns : Written(t) =>
       Agent(t) \in Agents /\ \E k : Users(transcript[Agent(t)], t) = {k}
  /\ \A a \in Agents : IsInjective(session[a])
  /\ \A a \in Agents, t \in Turns : InSession(t, a) =>
       Agent(t) = a /\ pc[t] \in {"clear", "done"} /\ Users(transcript[a], t) # {}

NoticeOfCut == \A t \in Turns : pc[t] = "notice" => result[t] = "interrupted"

\* A pair adds one prompt, a notice none.
LEMMA PairUsers ==
  ASSUME NEW s \in Seq(Entry), NEW t \in Turns, NEW n \in Nat,
         NEW u, u = [turn |-> t, role |-> "user", seq |-> n],
         NEW v, v = [turn |-> t, role |-> "assistant", seq |-> n + 1]
  PROVE  /\ Users(s \o <<u, v>>, t) = Users(s, t) \cup {Len(s) + 1}
         /\ \A x \in Turns : x # t => Users(s \o <<u, v>>, x) = Users(s, x)
         /\ Prompts(s \o <<u, v>>) = Prompts(s) \cup {Len(s) + 1}
         /\ Prompts(s) \subseteq 1 .. Len(s)
         /\ \A k \in 1 .. Len(s) : (s \o <<u, v>>)[k] = s[k]
         /\ (s \o <<u, v>>)[Len(s) + 1] = u
<1>1. u \in Entry /\ v \in Entry /\ u.role = "user" /\ v.role = "assistant" /\ u.turn = t
  BY DEF Entry
<1>2. PICK w : w = s \o <<u, v>>
  OBVIOUS
<1>3. PICK m \in Nat : m = Len(s)
  OBVIOUS
<1>4. /\ DOMAIN s = 1 .. m /\ DOMAIN w = 1 .. m + 2
      /\ \A k \in 1 .. m : w[k] = s[k]
      /\ w[m + 1] = u /\ w[m + 2] = v
  <2>1. <<u, v>> \in Seq(Entry) /\ Len(<<u, v>>) = 2
    BY <1>1
  <2>2. QED
    BY <1>1, <1>2, <1>3, <2>1
<1>5. 1 .. m + 2 = (1 .. m) \cup {m + 1, m + 2}
  BY <1>3
<1>6. Users(w, t) = Users(s, t) \cup {m + 1}
  BY <1>1, <1>4, <1>5 DEF Users
<1>7. \A x \in Turns : x # t => Users(w, x) = Users(s, x)
  BY <1>1, <1>4, <1>5 DEF Users
<1>8. Prompts(w) = Prompts(s) \cup {m + 1}
  BY <1>1, <1>4, <1>5 DEF Prompts
<1>9. Prompts(s) \subseteq 1 .. m
  BY <1>4 DEF Prompts
<1>10. QED
  BY <1>2, <1>3, <1>4, <1>6, <1>7, <1>8, <1>9

LEMMA NoticeUsers ==
  ASSUME NEW s \in Seq(Entry), NEW u \in Entry, u.role = "system"
  PROVE  /\ \A x \in Turns : Users(Append(s, u), x) = Users(s, x)
         /\ Prompts(Append(s, u)) = Prompts(s)
         /\ \A k \in Prompts(s) : Append(s, u)[k] = s[k]
<1>2. PICK w : w = Append(s, u)
  OBVIOUS
<1>3. PICK m \in Nat : m = Len(s)
  OBVIOUS
<1>4. /\ DOMAIN s = 1 .. m /\ DOMAIN w = 1 .. m + 1
      /\ \A k \in 1 .. m : w[k] = s[k]
      /\ w[m + 1] = u
  BY <1>2, <1>3
<1>5. 1 .. m + 1 = (1 .. m) \cup {m + 1}
  BY <1>3
<1>6. \A x \in Turns : Users(w, x) = Users(s, x)
  BY <1>4, <1>5 DEF Users
<1>7. Prompts(w) = Prompts(s)
  BY <1>4, <1>5 DEF Prompts
<1>8. \A k \in Prompts(s) : w[k] = s[k]
  BY <1>4 DEF Prompts
<1>9. QED
  BY <1>2, <1>6, <1>7, <1>8

\* A step that writes nothing: a turn that has not written stays so, one that has
\* returns or loses its caller.
Moves(t) ==
  /\ UNCHANGED <<transcript, session>>
  /\ \A u \in Turns : u # t => pc'[u] = pc[u] /\ result'[u] = result[u] /\ turn'[u] = turn[u]
  /\ result'[t] = "completed" => pc'[t] = "done"
  /\ \/ Unwritten(t) /\ Unwritten(t)'
     \/ Unwritten(t) /\ pc'[t] = "done" /\ result'[t] = "dropped"
     \/ pc[t] = "clear" /\ pc'[t] = "done" /\ result'[t] \in {"completed", "dropped"}
        /\ turn'[t] = turn[t]

LEMMA RecordMoves == ASSUME RecordInv, NEW t \in Turns, Moves(t) PROVE RecordInv'
<1>1. /\ transcript' = transcript /\ session' = session
      /\ \A u \in Turns : u # t =>
           /\ pc'[u] = pc[u] /\ result'[u] = result[u] /\ turn'[u] = turn[u]
           /\ Agent(u)' = Agent(u)
  BY DEF Moves, Agent
<1>2. \A u \in Turns : u # t => (Unwritten(u)' <=> Unwritten(u)) /\ (Written(u)' <=> Written(u))
  BY <1>1 DEF Unwritten, Written
<1>3. \A u \in Turns, a \in Agents : InSession(u, a)' <=> InSession(u, a)
  BY <1>1 DEF InSession
<1>4. \A u \in Turns : result'[u] = "completed" => pc'[u] = "done"
  BY <1>1 DEF Moves, RecordInv
<1>5. ASSUME NEW u \in Turns, NEW a \in Agents, Unwritten(u)' PROVE Users(transcript'[a], u) = {}
  <2>1. CASE u # t
    BY <1>1, <1>2, <1>5, <2>1 DEF RecordInv
  <2>2. CASE u = t
    <3>1. Unwritten(t)
      BY <1>5, <2>2 DEF Moves, Unwritten
    <3>2. QED
      BY <1>1, <2>2, <3>1 DEF RecordInv
  <2>3. QED
    BY <2>1, <2>2
<1>6. ASSUME NEW u \in Turns, Written(u)'
      PROVE  Agent(u)' \in Agents /\ \E k : Users(transcript'[Agent(u)'], u) = {k}
  <2>1. CASE u # t
    <3>1. Written(u)
      BY <1>2, <1>6, <2>1
    <3>2. PICK k : Agent(u) \in Agents /\ Users(transcript[Agent(u)], u) = {k}
      BY <3>1 DEF RecordInv
    <3>3. QED
      BY <1>1, <2>1, <3>2
  <2>2. CASE u = t
    <3>1. pc[t] = "clear" /\ turn'[t] = turn[t]
      BY <1>6, <2>2 DEF Moves, Written, Unwritten
    <3>2. Written(t) /\ Agent(t)' = Agent(t)
      BY <3>1 DEF Written, Agent
    <3>3. PICK k : Agent(t) \in Agents /\ Users(transcript[Agent(t)], t) = {k}
      BY <3>2 DEF RecordInv
    <3>4. QED
      BY <1>1, <2>2, <3>2, <3>3
  <2>3. QED
    BY <2>1, <2>2
<1>7. ASSUME NEW u \in Turns, NEW a \in Agents, InSession(u, a)'
      PROVE  Agent(u)' = a /\ pc'[u] \in {"clear", "done"} /\ Users(transcript'[a], u) # {}
  <2>1. Agent(u) = a /\ pc[u] \in {"clear", "done"} /\ Users(transcript[a], u) # {}
    BY <1>3, <1>7 DEF RecordInv
  <2>2. CASE u # t
    BY <1>1, <2>1, <2>2
  <2>3. CASE u = t
    <3>1. ~Unwritten(t)
      BY <2>1, <2>3 DEF RecordInv
    <3>2. pc'[t] = "done" /\ turn'[t] = turn[t]
      BY <3>1 DEF Moves
    <3>3. QED
      BY <1>1, <2>1, <2>3, <3>2 DEF Agent
  <2>4. QED
    BY <2>2, <2>3
<1>8. QED
  BY <1>1, <1>4, <1>5, <1>6, <1>7 DEF RecordInv

LEMMA RecordSame ==
  ASSUME RecordInv, UNCHANGED <<transcript, session, pc, result, turn>> PROVE RecordInv'
<1>1. \A t \in Turns :
        /\ Unwritten(t)' <=> Unwritten(t)
        /\ Written(t)' <=> Written(t)
        /\ Agent(t)' = Agent(t)
        /\ \A a \in Agents : InSession(t, a)' <=> InSession(t, a)
  BY DEF Unwritten, Written, Agent, InSession
<1>2. ASSUME NEW t \in Turns, Written(t)'
      PROVE  Agent(t)' \in Agents /\ \E k : Users(transcript'[Agent(t)'], t) = {k}
  <2>1. PICK k : Agent(t) \in Agents /\ Users(transcript[Agent(t)], t) = {k}
    BY <1>1, <1>2 DEF RecordInv
  <2>2. QED
    BY <1>1, <2>1
<1>3. ASSUME NEW t \in Turns, NEW a \in Agents
      PROVE  /\ Unwritten(t)' => Users(transcript'[a], t) = {}
             /\ InSession(t, a)' => Agent(t)' = a /\ pc'[t] \in {"clear", "done"}
                                    /\ Users(transcript'[a], t) # {}
  BY <1>1 DEF RecordInv
<1>4. QED
  BY <1>2, <1>3 DEF RecordInv

\* commit_turn writes the pair of a turn that had none.
LEMMA RecordCommit ==
  ASSUME ControlTypeOK, StagesOfTurns, TranscriptInv, RecordInv, NEW t \in Turns, Commit(t)
  PROVE  RecordInv'
<1>1. /\ pc[t] = "reply" /\ pc' = [pc EXCEPT ![t] = "persist"]
      /\ UNCHANGED <<session, turn, result>> /\ Agent(t) \in Agents
  BY DEF Commit, Goto, StagesOfTurns
<1>2. PICK b \in Agents : b = Agent(t)
  BY <1>1
<1>3. PICK u, v :
        /\ u = [turn |-> t, role |-> "user", seq |-> nextSeq[b]]
        /\ v = [turn |-> t, role |-> "assistant", seq |-> nextSeq[b] + 1]
        /\ transcript' = [transcript EXCEPT ![b] = @ \o <<u, v>>]
  BY <1>2 DEF Commit
<1>4. transcript[b] \in Seq(Entry) /\ nextSeq[b] \in Nat
  BY DEF TranscriptInv
<1>5. /\ transcript'[b] = transcript[b] \o <<u, v>>
      /\ \A a \in Agents : a # b => transcript'[a] = transcript[a]
  BY <1>3 DEF TranscriptInv
<1>6. Unwritten(t) /\ Users(transcript[b], t) = {}
  <2>1. Unwritten(t)
    BY <1>1 DEF Unwritten
  <2>2. QED
    BY <2>1 DEF RecordInv
<1>7. /\ Users(transcript'[b], t) = {Len(transcript[b]) + 1}
      /\ \A x \in Turns, a \in Agents : x # t => Users(transcript'[a], x) = Users(transcript[a], x)
  <2>1. PICK q \in Seq(Entry), n \in Nat : q = transcript[b] /\ n = nextSeq[b]
    BY <1>4
  <2>2. /\ u = [turn |-> t, role |-> "user", seq |-> n]
        /\ v = [turn |-> t, role |-> "assistant", seq |-> n + 1]
    BY <1>3, <2>1
  <2>3. /\ Users(q \o <<u, v>>, t) = Users(q, t) \cup {Len(q) + 1}
        /\ \A x \in Turns : x # t => Users(q \o <<u, v>>, x) = Users(q, x)
    BY <2>2, PairUsers
  <2>4. QED
    BY <1>5, <1>6, <2>1, <2>3
<1>8. /\ \A x \in Turns : Agent(x)' = Agent(x)
      /\ \A x \in Turns : x # t => (Unwritten(x)' <=> Unwritten(x)) /\ (Written(x)' <=> Written(x))
      /\ \A x \in Turns, a \in Agents : InSession(x, a)' <=> InSession(x, a)
  BY <1>1 DEF Agent, Unwritten, Written, InSession, ControlTypeOK
<1>9. ~Unwritten(t)' /\ \A x \in Turns : result'[x] = "completed" => pc'[x] = "done"
  BY <1>1 DEF Unwritten, RecordInv, ControlTypeOK
<1>10. ASSUME NEW x \in Turns, NEW a \in Agents, Unwritten(x)' PROVE Users(transcript'[a], x) = {}
  BY <1>7, <1>8, <1>9, <1>10 DEF RecordInv
<1>11. ASSUME NEW x \in Turns, Written(x)'
       PROVE  Agent(x)' \in Agents /\ \E k : Users(transcript'[Agent(x)'], x) = {k}
  <2>1. CASE x = t
    BY <1>2, <1>7, <1>8, <2>1
  <2>2. CASE x # t
    <3>1. PICK k : Agent(x) \in Agents /\ Users(transcript[Agent(x)], x) = {k}
      BY <1>8, <1>11, <2>2 DEF RecordInv
    <3>2. QED
      BY <1>7, <1>8, <2>2, <3>1
  <2>3. QED
    BY <2>1, <2>2
<1>12. ASSUME NEW x \in Turns, NEW a \in Agents, InSession(x, a)'
       PROVE  Agent(x)' = a /\ pc'[x] \in {"clear", "done"} /\ Users(transcript'[a], x) # {}
  <2>1. Agent(x) = a /\ pc[x] \in {"clear", "done"} /\ Users(transcript[a], x) # {}
    BY <1>8, <1>12 DEF RecordInv
  <2>2. x # t
    BY <1>1, <2>1
  <2>3. QED
    BY <1>1, <1>7, <1>8, <2>1, <2>2 DEF ControlTypeOK
<1>13. QED
  BY <1>1, <1>9, <1>10, <1>11, <1>12 DEF RecordInv

\* A notice belongs to a turn that wrote nothing.
LEMMA RecordNotice ==
  ASSUME ControlTypeOK, StagesOfTurns, TranscriptInv, RecordInv, NEW t \in Turns, Notice(t),
         result[t] = "interrupted"
  PROVE  RecordInv'
<1>1. /\ pc[t] = "notice" /\ pc' = [pc EXCEPT ![t] = "done"]
      /\ UNCHANGED <<session, turn, result>> /\ Agent(t) \in Agents
  BY DEF Notice, Goto, StagesOfTurns
<1>2. PICK b \in Agents : b = Agent(t)
  BY <1>1
<1>3. PICK u :
        /\ u = [turn |-> t, role |-> "system", seq |-> nextSeq[b]]
        /\ transcript' = [transcript EXCEPT ![b] = Append(@, u)]
  BY <1>2 DEF Notice
<1>4. transcript[b] \in Seq(Entry) /\ nextSeq[b] \in Nat
  BY DEF TranscriptInv
<1>5. /\ transcript'[b] = Append(transcript[b], u)
      /\ \A a \in Agents : a # b => transcript'[a] = transcript[a]
  BY <1>3 DEF TranscriptInv
<1>6. \A x \in Turns, a \in Agents : Users(transcript'[a], x) = Users(transcript[a], x)
  <2>1. u \in Entry /\ u.role = "system"
    BY <1>3, <1>4 DEF Entry
  <2>2. \A x \in Turns : Users(Append(transcript[b], u), x) = Users(transcript[b], x)
    BY <1>4, <2>1, NoticeUsers
  <2>3. QED
    BY <1>5, <2>2
<1>7. /\ \A x \in Turns : Agent(x)' = Agent(x)
      /\ \A x \in Turns : (Unwritten(x)' => Unwritten(x)) /\ (Written(x)' => Written(x))
      /\ \A x \in Turns, a \in Agents : InSession(x, a)' <=> InSession(x, a)
  BY <1>1 DEF Agent, Unwritten, Written, InSession, ControlTypeOK
<1>8. /\ \A x \in Turns : result'[x] = "completed" => pc'[x] = "done"
      /\ \A x \in Turns : pc[x] \in {"clear", "done"} => pc'[x] \in {"clear", "done"}
  BY <1>1 DEF RecordInv, ControlTypeOK
<1>9. ASSUME NEW x \in Turns, NEW a \in Agents, Unwritten(x)' PROVE Users(transcript'[a], x) = {}
  BY <1>6, <1>7, <1>9 DEF RecordInv
<1>10. ASSUME NEW x \in Turns, Written(x)'
       PROVE  Agent(x)' \in Agents /\ \E k : Users(transcript'[Agent(x)'], x) = {k}
  <2>1. PICK k : Agent(x) \in Agents /\ Users(transcript[Agent(x)], x) = {k}
    BY <1>7, <1>10 DEF RecordInv
  <2>2. QED
    BY <1>6, <1>7, <2>1
<1>11. ASSUME NEW x \in Turns, NEW a \in Agents, InSession(x, a)'
       PROVE  Agent(x)' = a /\ pc'[x] \in {"clear", "done"} /\ Users(transcript'[a], x) # {}
  BY <1>6, <1>7, <1>8, <1>11 DEF RecordInv
<1>12. QED
  BY <1>1, <1>8, <1>9, <1>10, <1>11 DEF RecordInv

\* soft_persist_session comes once per turn.
LEMMA RecordPersist ==
  ASSUME ControlTypeOK, StagesOfTurns, TranscriptInv, RecordInv, NEW t \in Turns, Persist(t)
  PROVE  RecordInv'
<1>1. /\ pc[t] = "persist" /\ pc' = [pc EXCEPT ![t] = "clear"] /\ Agent(t) \in Agents
      /\ UNCHANGED <<transcript, turn, result>>
  BY DEF Persist, Goto, StagesOfTurns
<1>2. PICK b \in Agents : b = Agent(t)
  BY <1>1
<1>3. session' = session \/ session' = [session EXCEPT ![b] = Append(@, t)]
  BY <1>2 DEF Persist
<1>4. session[b] \in Seq(Turns) /\ IsInjective(session[b]) /\ ~InSession(t, b)
  BY <1>1 DEF RecordInv
<1>5. /\ \A a \in Agents : session'[a] \in Seq(Turns) /\ IsInjective(session'[a])
      /\ \A x \in Turns, a \in Agents : InSession(x, a)' => InSession(x, a) \/ (x = t /\ a = b)
      /\ session' \in [Agents -> Seq(Turns)]
  <2>1. CASE session' = session
    BY <2>1 DEF RecordInv, InSession
  <2>2. CASE session' = [session EXCEPT ![b] = Append(@, t)]
    <3>1. PICK q \in Seq(Turns) : q = session[b]
      BY <1>4
    <3>2. PICK r : r = Append(q, t)
      OBVIOUS
    <3>3. PICK n \in Nat : n = Len(q)
      BY <3>1
    <3>4. /\ r \in Seq(Turns) /\ DOMAIN q = 1 .. n /\ DOMAIN r = 1 .. n + 1
          /\ \A k \in 1 .. n : r[k] = q[k]
          /\ r[n + 1] = t
      BY <3>1, <3>2, <3>3
    <3>5. \A k \in 1 .. n : q[k] # t
      BY <1>4, <3>1, <3>4 DEF InSession
    <3>6. IsInjective(r)
      <4>1. IsInjective(q)
        BY <1>4, <3>1
      <4>2. QED
        BY <3>3, <3>4, <3>5, <4>1 DEF IsInjective
    <3>7. session'[b] = r /\ \A a \in Agents : a # b => session'[a] = session[a]
      BY <2>2, <3>1, <3>2 DEF RecordInv
    <3>8. session' \in [Agents -> Seq(Turns)]
      BY <2>2, <3>1, <3>2, <3>4 DEF RecordInv
    <3>9. ASSUME NEW x \in Turns, NEW a \in Agents, InSession(x, a)'
          PROVE  InSession(x, a) \/ (x = t /\ a = b)
      <4>1. CASE a # b
        BY <3>7, <3>9, <4>1 DEF InSession
      <4>2. CASE a = b
        <5>1. PICK k \in 1 .. n + 1 : r[k] = x
          BY <3>4, <3>7, <3>9, <4>2 DEF InSession
        <5>2. k \in 1 .. n \/ x = t
          BY <3>3, <3>4, <5>1
        <5>3. QED
          BY <3>1, <3>4, <4>2, <5>1, <5>2 DEF InSession
      <4>3. QED
        BY <4>1, <4>2
    <3>10. \A a \in Agents : session'[a] \in Seq(Turns) /\ IsInjective(session'[a])
      BY <3>4, <3>6, <3>7 DEF RecordInv
    <3>11. QED
      BY <3>8, <3>9, <3>10
  <2>3. QED
    BY <1>3, <2>1, <2>2
<1>6. /\ \A x \in Turns : Agent(x)' = Agent(x)
      /\ \A x \in Turns : (Unwritten(x)' => Unwritten(x)) /\ (Written(x)' => Written(x))
      /\ \A x \in Turns : pc[x] \in {"clear", "done"} \/ x = t => pc'[x] \in {"clear", "done"}
      /\ \A x \in Turns : result'[x] = "completed" => pc'[x] = "done"
  BY <1>1 DEF Agent, Unwritten, Written, ControlTypeOK, RecordInv
<1>7. Users(transcript[b], t) # {}
  <2>1. Written(t)
    BY <1>1 DEF Written
  <2>2. QED
    BY <1>2, <2>1 DEF RecordInv
<1>8. ASSUME NEW x \in Turns, NEW a \in Agents, Unwritten(x)' PROVE Users(transcript'[a], x) = {}
  BY <1>1, <1>6, <1>8 DEF RecordInv
<1>9. ASSUME NEW x \in Turns, Written(x)'
      PROVE  Agent(x)' \in Agents /\ \E k : Users(transcript'[Agent(x)'], x) = {k}
  <2>1. PICK k : Agent(x) \in Agents /\ Users(transcript[Agent(x)], x) = {k}
    BY <1>6, <1>9 DEF RecordInv
  <2>2. QED
    BY <1>1, <1>6, <1>9, <2>1
<1>10. ASSUME NEW x \in Turns, NEW a \in Agents, InSession(x, a)'
       PROVE  Agent(x)' = a /\ pc'[x] \in {"clear", "done"} /\ Users(transcript'[a], x) # {}
  BY <1>1, <1>2, <1>5, <1>6, <1>7, <1>10 DEF RecordInv
<1>11. QED
  BY <1>5, <1>6, <1>8, <1>9, <1>10 DEF RecordInv

LEMMA RecordStep ==
  ASSUME ControlInv, TranscriptInv, RecordInv, NoticeOfCut, [Next]_vars
  PROVE  RecordInv'
<1>0. ControlTypeOK /\ StagesOfTurns
  BY DEF ControlInv
<1>1. ASSUME NEW t \in Turns, NEW a \in Agents, NEW c \in BOOLEAN, NEW p \in Seq(Tools),
             MarkRunning(t, a, c, p)
      PROVE  RecordInv'
  <2>1. /\ pc[t] = "new" /\ pc' = [pc EXCEPT ![t] = "marked"]
        /\ turn' = [turn EXCEPT ![t] = [agent |-> a, chat |-> c, todo |-> p]]
        /\ UNCHANGED <<transcript, session, result>>
    BY <1>1 DEF MarkRunning, Goto, logVars
  <2>2. Moves(t)
    BY <1>0, <2>1 DEF Moves, Unwritten, ControlTypeOK, RecordInv
  <2>3. QED
    BY <2>2, RecordMoves
<1>2. ASSUME NEW t \in Turns, NEW a \in Agents, Busy(t, a) PROVE RecordInv'
  <2>1. /\ pc[t] = "new" /\ pc' = [pc EXCEPT ![t] = "done"]
        /\ result' = [result EXCEPT ![t] = "busy"]
        /\ \A u \in Turns : u # t => turn'[u] = turn[u]
        /\ UNCHANGED <<transcript, session>>
    BY <1>0, <1>2 DEF Busy, Return, Goto, logVars, ControlTypeOK
  <2>2. Moves(t)
    BY <1>0, <2>1 DEF Moves, Unwritten, ControlTypeOK
  <2>3. QED
    BY <2>2, RecordMoves
<1>3. ASSUME NEW t \in Turns, Drop(t) PROVE RecordInv'
  <2>1. /\ pc[t] \notin {"new", "persist", "done"} /\ pc' = [pc EXCEPT ![t] = "done"]
        /\ result' = [result EXCEPT ![t] = "dropped"]
        /\ UNCHANGED <<transcript, session, turn>>
    BY <1>3 DEF Drop, Return, Goto, logVars
  <2>2. Moves(t)
    BY <1>0, <2>1 DEF Moves, Unwritten, ControlTypeOK
  <2>3. QED
    BY <2>2, RecordMoves
<1>4. ASSUME NEW t \in Turns, Finish(t) PROVE RecordInv'
  <2>1. /\ pc[t] = "clear" /\ pc' = [pc EXCEPT ![t] = "done"]
        /\ result' = [result EXCEPT ![t] = "completed"]
        /\ UNCHANGED <<transcript, session, turn>>
    BY <1>4 DEF Finish, Return, Goto, logVars
  <2>2. Moves(t)
    BY <1>0, <2>1 DEF Moves, Unwritten, ControlTypeOK
  <2>3. QED
    BY <2>2, RecordMoves
<1>5. ASSUME NEW t \in Turns,
             \/ ClearOld(t) \/ Arm(t) \/ DelayEnds(t) \/ Snapshot(t) \/ SettleTool(t)
             \/ RunTool(t) \/ ModelAnswers(t) \/ UnwindPending(t)
      PROVE  RecordInv'
  <2>1. /\ pc[t] \notin {"persist", "clear", "done"}
        /\ \E stage : pc' = [pc EXCEPT ![t] = stage] /\ stage \notin {"persist", "clear", "done"}
        /\ \A u \in Turns : u # t => turn'[u] = turn[u]
        /\ UNCHANGED <<transcript, session, result>>
    BY <1>0, <1>5
    DEF ClearOld, Arm, DelayEnds, Snapshot, SettleTool, RunTool, ModelAnswers, UnwindPending,
        AfterTools, Goto, logVars, turnVars, ControlTypeOK
  <2>2. Moves(t)
    BY <1>0, <2>1 DEF Moves, Unwritten, ControlTypeOK, RecordInv
  <2>3. QED
    BY <2>2, RecordMoves
<1>6. ASSUME NEW t \in Turns, Cut(t) \/ ModelFails(t) PROVE RecordInv'
  <2>1. /\ pc[t] \in {"delay", "llm", "body"} /\ pc' = [pc EXCEPT ![t] = "unwind"]
        /\ \E r \in {"interrupted", "error"} : result' = [result EXCEPT ![t] = r]
        /\ UNCHANGED <<transcript, session, turn>>
    BY <1>6 DEF Cut, ModelFails, Goto, logVars
  <2>2. Moves(t)
    BY <1>0, <2>1 DEF Moves, Unwritten, ControlTypeOK
  <2>3. QED
    BY <2>2, RecordMoves
<1>7. ASSUME NEW t \in Turns, UnwindRunning(t) PROVE RecordInv'
  <2>1. /\ pc[t] = "unset"
        /\ pc' = [pc EXCEPT ![t] = IF result[t] = "interrupted" THEN "notice" ELSE "done"]
        /\ UNCHANGED <<transcript, session, turn, result>>
    BY <1>7 DEF UnwindRunning, Goto, logVars
  <2>2. result[t] \notin {"completed", "dropped"}
    BY <1>0, <2>1 DEF StagesOfTurns, RecordInv
  <2>3. Moves(t)
    BY <1>0, <2>1, <2>2 DEF Moves, Unwritten, ControlTypeOK
  <2>4. QED
    BY <2>3, RecordMoves
<1>8. ASSUME NEW t \in Turns, Notice(t) PROVE RecordInv'
  <2>1. result[t] = "interrupted"
    BY <1>8 DEF Notice, NoticeOfCut
  <2>2. QED
    BY <1>0, <1>8, <2>1, RecordNotice
<1>9. CASE UNCHANGED <<transcript, session, pc, result, turn>>
  BY <1>9, RecordSame
<1>10. ASSUME NEW t \in Turns, Commit(t) PROVE RecordInv'
  BY <1>0, <1>10, RecordCommit
<1>11. ASSUME NEW t \in Turns, Persist(t) PROVE RecordInv'
  BY <1>0, <1>11, RecordPersist
<1>12. ASSUME NEW t \in Turns, TurnStep(t) PROVE RecordInv'
  BY <1>4, <1>5, <1>6, <1>7, <1>8, <1>10, <1>11, <1>12, Zenon DEF TurnStep
<1>13. ASSUME NEW t \in Turns, NEW d \in Gate!Decisions, Approve(t, d) PROVE RecordInv'
  BY <1>9, <1>13 DEF Approve, logVars, turnVars
<1>14. ASSUME NEW i \in Interrupts, NEW a \in Agents, TakePending(i, a) PROVE RecordInv'
  BY <1>9, <1>14 DEF TakePending, logVars, turnVars
<1>15. ASSUME NEW i \in Interrupts, InterruptStep(i) PROVE RecordInv'
  BY <1>9, <1>15 DEF InterruptStep, Signal, MarkIdle, logVars, turnVars
<1>16. CASE UNCHANGED vars
  BY <1>9, <1>16 DEF vars, logVars, turnVars
<1>17. QED
  BY <1>1, <1>2, <1>3, <1>12, <1>13, <1>14, <1>15, <1>16, StepCases, Zenon

\* Only an interrupted turn leaves a notice.
LEMMA NoticeStep == ASSUME ControlInv, NoticeOfCut, [Next]_vars PROVE NoticeOfCut'
<1>0. ControlTypeOK
  BY DEF ControlInv
<1>1. ASSUME NEW t \in Turns, TurnStep(t) \/ Drop(t) PROVE NoticeOfCut'
  BY <1>0, <1>1
  DEF TurnStep, Drop, ClearOld, Arm, DelayEnds, Cut, Snapshot, SettleTool, RunTool, ModelAnswers,
      ModelFails, Commit, Persist, Finish, UnwindPending, UnwindRunning, Notice, AfterTools, Goto,
      Return, NoticeOfCut, ControlTypeOK
<1>2. ASSUME NEW t \in Turns, NEW a \in Agents, NEW c \in BOOLEAN, NEW p \in Seq(Tools),
             MarkRunning(t, a, c, p)
      PROVE  NoticeOfCut'
  BY <1>0, <1>2 DEF MarkRunning, Goto, NoticeOfCut, ControlTypeOK
<1>3. ASSUME NEW t \in Turns, NEW a \in Agents, Busy(t, a) PROVE NoticeOfCut'
  BY <1>0, <1>3 DEF Busy, Return, Goto, NoticeOfCut, ControlTypeOK
<1>4. ASSUME UNCHANGED <<pc, result>> PROVE NoticeOfCut'
  BY <1>4 DEF NoticeOfCut
<1>5. QED
  BY <1>1, <1>2, <1>3, <1>4, StepCases
  DEF Approve, TakePending, InterruptStep, Signal, MarkIdle, vars, turnVars

LEMMA RecordInit == Init => RecordInv /\ NoticeOfCut
<1> SUFFICES ASSUME Init PROVE RecordInv /\ NoticeOfCut
  OBVIOUS
<1>1. \A t \in Turns : pc[t] = "new" /\ result[t] = "none"
  BY DEF Init
<1>2. \A t \in Turns, a \in Agents : Users(transcript[a], t) = {}
  BY NobodyAssumption DEF Init, Users
<1>3. /\ session \in [Agents -> Seq(Turns)]
      /\ \A a \in Agents : IsInjective(session[a])
      /\ \A a \in Agents, t \in Turns : ~InSession(t, a)
  BY DEF Init, IsInjective, InSession
<1>4. \A t \in Turns : ~Written(t)
  BY <1>1 DEF Written
<1>5. QED
  BY <1>1, <1>2, <1>3, <1>4 DEF RecordInv, NoticeOfCut

LEMMA RecordMeans == ASSUME RecordInv, ControlInv PROVE ResultMatchesTranscript
<1>1. \A t \in Turns : UserEntries(t) = Users(transcript[Agent(t)], t)
  BY DEF UserEntries, Users
<1>2. ASSUME NEW t \in Turns, pc[t] = "done", result[t] # "dropped"
      PROVE  IF result[t] = "completed"
             THEN \E k \in UserEntries(t) : UserEntries(t) = {k}
             ELSE Agent(t) = Nobody \/ UserEntries(t) = {}
  <2>1. CASE result[t] = "completed"
    <3>1. Written(t)
      BY <1>2, <2>1 DEF Written
    <3>2. PICK k : Users(transcript[Agent(t)], t) = {k}
      BY <3>1 DEF RecordInv
    <3>3. QED
      BY <1>1, <2>1, <3>2
  <2>2. CASE result[t] # "completed"
    <3>1. Unwritten(t)
      BY <1>2, <2>2 DEF Unwritten
    <3>2. Agent(t) \in Agents \cup {Nobody}
      BY DEF ControlInv, ControlTypeOK, TurnRec, Agent
    <3>3. QED
      BY <1>1, <2>2, <3>1, <3>2 DEF RecordInv
  <2>3. QED
    BY <2>1, <2>2
<1>3. ASSUME NEW a \in Agents, NEW k \in DOMAIN session[a] PROVE UserEntries(session[a][k]) # {}
  <2>1. PICK t \in Turns : t = session[a][k]
    BY DEF RecordInv
  <2>2. InSession(t, a)
    BY <2>1 DEF InSession
  <2>3. QED
    BY <1>1, <2>1, <2>2 DEF RecordInv
<1>4. QED
  BY <1>2, <1>3 DEF ResultMatchesTranscript, RecordInv

\* commit_turn, soft_persist_session and the answer of send_prompt: a completed turn
\* is in the transcript once, any other answer left no pair behind, and the session
\* log has committed turns only, each at most once.
THEOREM TurnsRecorded == Spec => []TurnsAreRecorded
<1>1. TranscriptInv /\ RecordInv /\ ControlInv => TurnsAreRecorded
  BY TranscriptMeans, RecordMeans DEF TurnsAreRecorded
<1>2. Spec => []TranscriptInv
  BY TranscriptInit, Control, TranscriptStep, PTL DEF Spec
<1>3. Spec => []NoticeOfCut
  BY RecordInit, Control, NoticeStep, PTL DEF Spec
<1>4. Spec => []RecordInv
  BY RecordInit, Control, RecordStep, <1>2, <1>3, PTL DEF Spec
<1>5. QED
  BY <1>1, <1>2, <1>4, Control, PTL
-----------------------------------------------------------------------------
(* What the model is told *)

\* The turns ContextIsFresh is about, agent by agent.
Looked(t) == pc[t] \in {"gate", "tool", "llm", "body", "reply"}

FreshFor(a) ==
  NoInterrupt(a) => \A t \in Turns : Looked(t) /\ Agent(t) = a => seen[t] = history[a]

\* A turn that looked at the history, and was not interrupted, still sees all of it.
ContextInv ==
  /\ history \in [Agents -> Seq(Turns)]
  /\ seen \in [Turns -> Seq(Turns)]
  /\ HistoryIsSuffix
  /\ \A a \in Agents : FreshFor(a)

LEMMA KeptEnd ==
  ASSUME NEW h \in Seq(Turns), NEW t \in Turns, Len(h) <= HistoryMax
  PROVE  LET r == Kept(Append(h, t))
         IN /\ r \in Seq(Turns)
            /\ Len(r) = IF Len(h) < HistoryMax THEN Len(h) + 1 ELSE HistoryMax
            /\ r[Len(r)] = t
            /\ \A n \in Nat : n + 1 < Len(r) => r[Len(r) - (n + 1)] = h[Len(h) - n]
<1>1. PICK g : g = Append(h, t)
  OBVIOUS
<1>2. PICK n \in Nat : n = Len(h)
  OBVIOUS
<1>3. /\ g \in Seq(Turns) /\ Len(g) = n + 1
      /\ \A k \in 1 .. n : g[k] = h[k]
      /\ g[n + 1] = t
  BY <1>1, <1>2
<1>4. PICK f : f = IF Len(g) > HistoryMax THEN Len(g) - HistoryMax + 1 ELSE 1
  OBVIOUS
<1>5. HistoryMax \in Nat \ {0} /\ n <= HistoryMax /\ f \in 1 .. n + 1 /\ f \in {1, 2}
  BY HistoryAssumption, <1>2, <1>3, <1>4
<1>6. PICK r : r = SubSeq(g, f, n + 1)
  OBVIOUS
<1>7. /\ r \in Seq(Turns) /\ Len(r) = n + 1 - f + 1
      /\ \A k \in 1 .. n + 1 - f + 1 : r[k] = g[f + k - 1]
  BY <1>3, <1>5, <1>6, SubSeqProperties
<1>8. Kept(Append(h, t)) = r
  <2>1. Kept(g) = SubSeq(g, IF Len(g) > HistoryMax THEN Len(g) - HistoryMax + 1 ELSE 1, Len(g))
    BY DEF Kept
  <2>2. Kept(g) = SubSeq(g, f, Len(g))
    BY <1>4, <2>1, Zenon
  <2>3. Kept(g) = SubSeq(g, f, n + 1)
    BY <1>3, <2>2, Zenon
  <2>4. QED
    BY <1>1, <1>6, <2>3, Zenon
<1>9. Len(r) = IF n < HistoryMax THEN n + 1 ELSE HistoryMax
  BY <1>3, <1>4, <1>5, <1>7
<1>10. r[Len(r)] = t
  BY <1>3, <1>5, <1>7
<1>11. ASSUME NEW m \in Nat, m + 1 < Len(r) PROVE r[Len(r) - (m + 1)] = h[n - m]
  <2>1. PICK i : i = n + 1 - f + 1 - (m + 1)
    OBVIOUS
  <2>2. i \in 1 .. n + 1 - f + 1 /\ f + i - 1 = n - m /\ n - m \in 1 .. n
    BY <1>5, <1>7, <1>11, <2>1
  <2>3. r[i] = g[f + i - 1]
    BY <1>7, <2>2
  <2>4. g[n - m] = h[n - m]
    BY <1>3, <2>2
  <2>5. Len(r) - (m + 1) = i
    <3>1. Len(r) = n + 1 - f + 1
      BY <1>7
    <3>2. QED
      BY <1>5, <2>1, <3>1
  <2>6. r[i] = h[n - m]
    BY <2>2, <2>3, <2>4
  <2>7. QED
    BY <2>5, <2>6, Zenon
<1>12. QED
  BY <1>2, <1>7, <1>8, <1>9, <1>10, <1>11

LEMMA PromptsFinite ==
  ASSUME NEW s \in Seq(Entry)
  PROVE  /\ IsFiniteSet(Prompts(s))
         /\ \A k : IsFiniteSet({j \in Prompts(s) : j > k})
<1>1. Prompts(s) \subseteq 1 .. Len(s) /\ Len(s) \in Nat
  BY DEF Prompts
<1>2. IsFiniteSet(1 .. Len(s))
  BY <1>1, FS_Interval
<1>3. IsFiniteSet(Prompts(s))
  BY <1>1, <1>2, FS_Subset
<1>4. \A k : {j \in Prompts(s) : j > k} \subseteq Prompts(s)
  OBVIOUS
<1>5. QED
  BY <1>3, <1>4, FS_Subset

LEMMA PairRecent ==
  ASSUME NEW s \in Seq(Entry), NEW h \in Seq(Turns), Recent(s, h), NEW t \in Turns, NEW n \in Nat,
         NEW u, u = [turn |-> t, role |-> "user", seq |-> n],
         NEW v, v = [turn |-> t, role |-> "assistant", seq |-> n + 1]
  PROVE  Recent(s \o <<u, v>>, Kept(Append(h, t)))
<1>1. PICK w : w = s \o <<u, v>>
  OBVIOUS
<1>2. PICK m \in Nat : m = Len(s)
  OBVIOUS
<1>3. /\ Prompts(w) = Prompts(s) \cup {m + 1} /\ Prompts(s) \subseteq 1 .. m
      /\ \A k \in 1 .. m : w[k] = s[k]
      /\ w[m + 1] = u /\ u.turn = t
  <2>1. /\ Prompts(s \o <<u, v>>) = Prompts(s) \cup {Len(s) + 1}
        /\ Prompts(s) \subseteq 1 .. Len(s)
        /\ \A k \in 1 .. Len(s) : (s \o <<u, v>>)[k] = s[k]
        /\ (s \o <<u, v>>)[Len(s) + 1] = u
    BY PairUsers
  <2>2. QED
    BY <1>1, <1>2, <2>1
<1>4. HistoryMax \in Nat \ {0}
  BY HistoryAssumption
<1>5. PICK p : p = Prompts(s)
  OBVIOUS
<1>6. IsFiniteSet(p) /\ \A k : IsFiniteSet({j \in p : j > k})
  BY <1>5, PromptsFinite
<1>7. /\ Cardinality(p) \in Nat
      /\ Cardinality(p \cup {m + 1}) = Cardinality(p) + 1
  <2>1. m + 1 \notin p
    BY <1>2, <1>3, <1>5
  <2>2. IsFiniteSet(p)
    BY <1>6
  <2>3. QED
    BY <2>1, <2>2, FS_CardinalityType, FS_AddElement
<1>8. PICK c \in Nat : c = Cardinality(p)
  BY <1>7
<1>9. Len(h) = IF c < HistoryMax THEN c ELSE HistoryMax
  BY <1>5, <1>8 DEF Recent
<1>10. PICK r : r = Kept(Append(h, t))
  OBVIOUS
<1>11. /\ Len(r) = IF Len(h) < HistoryMax THEN Len(h) + 1 ELSE HistoryMax
       /\ r[Len(r)] = t
       /\ \A i \in Nat : i + 1 < Len(r) => r[Len(r) - (i + 1)] = h[Len(h) - i]
  <2>1. Len(h) <= HistoryMax
    BY <1>4, <1>9
  <2>2. QED
    BY <1>10, <2>1, KeptEnd
<1>12. Len(r) = IF c + 1 < HistoryMax THEN c + 1 ELSE HistoryMax
  BY <1>4, <1>9, <1>11
<1>13. ASSUME NEW k \in p
       PROVE  LET later == Cardinality({j \in p \cup {m + 1} : j > k})
              IN later < HistoryMax => r[Len(r) - later] = w[k].turn
  <2>1. k \in 1 .. m
    BY <1>3, <1>5
  <2>2. PICK q : q = {j \in p : j > k}
    OBVIOUS
  <2>3. {j \in p \cup {m + 1} : j > k} = q \cup {m + 1}
    BY <2>1, <2>2
  <2>4. IsFiniteSet(q) /\ m + 1 \notin q /\ q \subseteq p /\ k \notin q
    <3>1. IsFiniteSet(q)
      BY <1>6, <2>2
    <3>2. q \subseteq p
      BY <2>2
    <3>3. m + 1 \notin q /\ k \notin q
      BY <1>2, <1>3, <1>5, <2>1, <2>2
    <3>4. QED
      BY <3>1, <3>2, <3>3
  <2>5. PICK i \in Nat : i = Cardinality(q) /\ Cardinality(q \cup {m + 1}) = i + 1
    <3>1. IsFiniteSet(q) /\ m + 1 \notin q
      BY <2>4
    <3>2. Cardinality(q) \in Nat /\ Cardinality(q \cup {m + 1}) = Cardinality(q) + 1
      BY <3>1, FS_CardinalityType, FS_AddElement
    <3>3. QED
      BY <3>2
  <2>6. i + 1 <= c
    <3>1. q \cup {k} \subseteq p
      BY <2>4
    <3>2. Cardinality(q \cup {k}) = i + 1
      BY <2>4, <2>5, FS_AddElement
    <3>3. QED
      BY <1>6, <1>8, <3>1, <3>2, FS_Subset
  <2>7. i < HistoryMax => h[Len(h) - i] = s[k].turn
    BY <1>5, <2>2, <2>5 DEF Recent
  <2>8. ASSUME i + 1 < HistoryMax PROVE r[Len(r) - (i + 1)] = w[k].turn
    <3>1. i + 1 < Len(r) /\ i < HistoryMax
      BY <1>4, <1>12, <2>6, <2>8
    <3>2. QED
      BY <1>3, <1>11, <2>1, <2>7, <3>1
  <2>9. QED
    BY <2>3, <2>5, <2>8
<1>14. LET later == Cardinality({j \in p \cup {m + 1} : j > m + 1})
       IN later < HistoryMax => r[Len(r) - later] = w[m + 1].turn
  <2>1. {j \in p \cup {m + 1} : j > m + 1} = {}
    BY <1>3, <1>5
  <2>2. Len(r) \in Nat
    BY <1>4, <1>12
  <2>3. Cardinality({j \in p \cup {m + 1} : j > m + 1}) = 0
    BY <2>1, FS_EmptySet
  <2>4. r[Len(r) - 0] = w[m + 1].turn
    BY <1>3, <1>11, <2>2
  <2>5. QED
    BY <2>3, <2>4
<1>15. Prompts(w) = p \cup {m + 1} /\ Cardinality(Prompts(w)) = c + 1
  BY <1>3, <1>5, <1>7, <1>8
<1>16. ASSUME NEW k \in Prompts(w)
       PROVE  LET later == Cardinality({j \in Prompts(w) : j > k})
              IN later < HistoryMax => r[Len(r) - later] = w[k].turn
  <2>1. CASE k \in p
    BY <1>13, <1>15, <2>1
  <2>2. CASE k = m + 1
    BY <1>14, <1>15, <2>2
  <2>3. QED
    BY <1>15, <1>16, <2>1, <2>2
<1>17. Recent(w, r)
  BY <1>12, <1>15, <1>16 DEF Recent
<1>18. QED
  BY <1>1, <1>10, <1>17

LEMMA NoticeRecent ==
  ASSUME NEW s \in Seq(Entry), NEW h, Recent(s, h), NEW u \in Entry, u.role = "system"
  PROVE  Recent(Append(s, u), h)
<1>1. Prompts(Append(s, u)) = Prompts(s) /\ \A k \in Prompts(s) : Append(s, u)[k] = s[k]
  BY NoticeUsers
<1>2. PICK w : w = Append(s, u)
  OBVIOUS
<1>3. Recent(w, h)
  BY <1>1, <1>2 DEF Recent
<1>4. QED
  BY <1>2, <1>3

\* The steps that commit nothing.
LEMMA SuffixStep ==
  ASSUME ControlInv, TranscriptInv, history \in [Agents -> Seq(Turns)], HistoryIsSuffix, [Next]_vars
  PROVE  history' \in [Agents -> Seq(Turns)] /\ HistoryIsSuffix'
<1>0. ControlTypeOK /\ StagesOfTurns
  BY DEF ControlInv
<1> DEFINE Kept1 == history' \in [Agents -> Seq(Turns)] /\ HistoryIsSuffix'
<1>1. ASSUME NEW t \in Turns, Commit(t) PROVE Kept1
  <2>1. PICK b \in Agents : b = Agent(t)
    BY <1>0, <1>1 DEF Commit, StagesOfTurns
  <2>2. PICK s \in Seq(Entry), n \in Nat, h \in Seq(Turns) :
          s = transcript[b] /\ n = nextSeq[b] /\ h = history[b]
    BY DEF TranscriptInv
  <2>3. PICK u, v :
          /\ u = [turn |-> t, role |-> "user", seq |-> n]
          /\ v = [turn |-> t, role |-> "assistant", seq |-> n + 1]
          /\ transcript' = [transcript EXCEPT ![b] = s \o <<u, v>>]
          /\ history' = [history EXCEPT ![b] = Kept(Append(h, t))]
    BY <1>1, <2>1, <2>2 DEF Commit
  <2>4. Recent(s, h)
    BY <2>1, <2>2 DEF HistoryIsSuffix
  <2>5. Recent(s \o <<u, v>>, Kept(Append(h, t)))
    BY <2>3, <2>4, PairRecent
  <2>6. Kept(Append(h, t)) \in Seq(Turns)
    <3>1. Len(h) <= HistoryMax
      <4>1. Cardinality(Prompts(s)) \in Nat
        BY PromptsFinite, FS_CardinalityType
      <4>2. QED
        BY <2>4, <4>1, HistoryAssumption DEF Recent
    <3>2. QED
      BY <3>1, KeptEnd
  <2>7. ASSUME NEW a \in Agents PROVE Recent(transcript'[a], history'[a])
    BY <2>2, <2>3, <2>5 DEF HistoryIsSuffix, TranscriptInv
  <2>8. QED
    BY <2>3, <2>6, <2>7 DEF HistoryIsSuffix
<1>2. ASSUME NEW t \in Turns, Notice(t) PROVE Kept1
  <2>1. PICK b \in Agents : b = Agent(t)
    BY <1>0, <1>2 DEF Notice, StagesOfTurns
  <2>2. PICK s \in Seq(Entry), n \in Nat, h \in Seq(Turns) :
          s = transcript[b] /\ n = nextSeq[b] /\ h = history[b]
    BY DEF TranscriptInv
  <2>3. PICK u :
          /\ u = [turn |-> t, role |-> "system", seq |-> n]
          /\ transcript' = [transcript EXCEPT ![b] = Append(s, u)]
          /\ history' = history
    BY <1>2, <2>1, <2>2 DEF Notice
  <2>4. Recent(s, h)
    BY <2>1, <2>2 DEF HistoryIsSuffix
  <2>5. Recent(Append(s, u), h)
    <3>1. s \in Seq(Entry) /\ u \in Entry /\ u.role = "system"
      BY <2>2, <2>3 DEF Entry
    <3>2. QED
      BY <2>4, <3>1, NoticeRecent
  <2>6. ASSUME NEW a \in Agents PROVE Recent(transcript'[a], history'[a])
    BY <2>2, <2>3, <2>5 DEF HistoryIsSuffix, TranscriptInv
  <2>7. QED
    BY <2>3, <2>6 DEF HistoryIsSuffix
<1>3. ASSUME UNCHANGED <<transcript, history>> PROVE Kept1
  BY <1>3 DEF HistoryIsSuffix
<1>4. ASSUME NEW t \in Turns, TurnStep(t) \/ Drop(t) PROVE Kept1
  BY <1>1, <1>2, <1>3, <1>4
  DEF TurnStep, Drop, ClearOld, Arm, DelayEnds, Cut, Snapshot, SettleTool, RunTool, ModelAnswers,
      ModelFails, Persist, Finish, UnwindPending, UnwindRunning, logVars
<1>5. QED
  BY <1>3, <1>4, StepCases
  DEF MarkRunning, Busy, Approve, TakePending, InterruptStep, Signal, MarkIdle, vars, logVars

\* Once interrupted, an agent counts as interrupted.
LEMMA NoInterruptBefore ==
  ASSUME ControlInv, [Next]_vars, NEW a \in Agents, NoInterrupt(a)' PROVE NoInterrupt(a)
<1>0. ControlTypeOK /\ \A i \in Interrupts : int[i].at = "new" => int[i].agent = Nobody
  BY DEF ControlInv, FlagIsUp
<1>1. ASSUME NEW i \in Interrupts, NEW b \in Agents, TakePending(i, b) PROVE NoInterrupt(a)
  BY <1>0, <1>1, NobodyAssumption DEF TakePending, NoInterrupt, ControlTypeOK, IntRec
<1>2. ASSUME NEW i \in Interrupts, InterruptStep(i) PROVE NoInterrupt(a)
  <2>1. \A j \in Interrupts : int'[j].agent = int[j].agent
    BY <1>0, <1>2, InterruptKeepsAgent
  <2>2. QED
    BY <2>1 DEF NoInterrupt
<1>3. ASSUME UNCHANGED int PROVE NoInterrupt(a)
  BY <1>3 DEF NoInterrupt
<1>4. ASSUME NEW t \in Turns, TurnStep(t) \/ Drop(t) PROVE NoInterrupt(a)
  BY <1>3, <1>4
  DEF TurnStep, Drop, ClearOld, Arm, DelayEnds, Cut, Snapshot, SettleTool, RunTool, ModelAnswers,
      ModelFails, Commit, Persist, Finish, UnwindPending, UnwindRunning, Notice
<1>5. QED
  BY <1>1, <1>2, <1>3, <1>4, StepCases DEF MarkRunning, Busy, Approve, vars

LEMMA FreshByAgent ==
  ASSUME StagesOfTurns PROVE ContextIsFresh <=> \A a \in Agents : FreshFor(a)
<1>1. \A t \in Turns : Looked(t) => Agent(t) \in Agents
  BY DEF Looked, StagesOfTurns
<1>2. ASSUME ContextIsFresh PROVE \A a \in Agents : FreshFor(a)
  BY <1>2 DEF ContextIsFresh, FreshFor, Looked
<1>3. ASSUME \A a \in Agents : FreshFor(a) PROVE ContextIsFresh
  BY <1>1, <1>3 DEF ContextIsFresh, FreshFor, Looked
<1>4. QED
  BY <1>2, <1>3

\* A step that neither looks nor commits.
LEMMA QuietStep ==
  ASSUME \A a \in Agents : FreshFor(a), \A a \in Agents : NoInterrupt(a)' => NoInterrupt(a),
         UNCHANGED <<history, seen>>,
         \A t \in Turns : Looked(t)' => Looked(t) /\ Agent(t)' = Agent(t)
  PROVE  \A a \in Agents : FreshFor(a)'
<1>1. ASSUME NEW a \in Agents, NoInterrupt(a)', NEW t \in Turns, Looked(t)', Agent(t)' = a
      PROVE  seen'[t] = history'[a]
  <2>1. NoInterrupt(a) /\ Looked(t) /\ Agent(t) = a
    BY <1>1
  <2>2. seen[t] = history[a]
    BY <2>1 DEF FreshFor
  <2>3. QED
    BY <2>2
<1>2. QED
  BY <1>1 DEF FreshFor

LEMMA FreshStep ==
  ASSUME ControlInv, history \in [Agents -> Seq(Turns)], seen \in [Turns -> Seq(Turns)],
         \A a \in Agents : FreshFor(a), [Next]_vars
  PROVE  seen' \in [Turns -> Seq(Turns)] /\ \A a \in Agents : FreshFor(a)'
<1> DEFINE Fresh == seen' \in [Turns -> Seq(Turns)] /\ \A a \in Agents : FreshFor(a)'
<1>0. /\ ControlTypeOK /\ StagesOfTurns /\ TurnsExclude
      /\ \A a \in Agents : NoInterrupt(a)' => NoInterrupt(a)
  BY NoInterruptBefore DEF ControlInv
<1>1. ASSUME UNCHANGED <<history, seen>>,
             \A t \in Turns : Looked(t)' => Looked(t) /\ Agent(t)' = Agent(t)
      PROVE  Fresh
  BY <1>0, <1>1, QuietStep
<1>2. ASSUME NEW u \in Turns, Snapshot(u) PROVE Fresh
  <2>1. PICK b \in Agents : b = Agent(u)
    BY <1>0, <1>2 DEF Snapshot, StagesOfTurns
  <2>2. /\ seen' = [seen EXCEPT ![u] = history[b]] /\ history' = history
        /\ \A t \in Turns : Agent(t)' = Agent(t) /\ (t # u /\ Looked(t)' => Looked(t))
    BY <1>0, <1>2, <2>1 DEF Snapshot, Goto, Looked, Agent, logVars, ControlTypeOK
  <2>3. seen' \in [Turns -> Seq(Turns)]
    BY <2>2
  <2>4. ASSUME NEW a \in Agents, NoInterrupt(a)', NEW t \in Turns, Looked(t)', Agent(t)' = a
        PROVE  seen'[t] = history'[a]
    <3>1. CASE t = u
      BY <2>1, <2>2, <2>4, <3>1
    <3>2. CASE t # u
      <4>1. NoInterrupt(a) /\ Looked(t) /\ Agent(t) = a
        BY <1>0, <2>2, <2>4, <3>2
      <4>2. seen[t] = history[a]
        BY <4>1 DEF FreshFor
      <4>3. QED
        BY <2>2, <3>2, <4>2
    <3>3. QED
      BY <3>1, <3>2
  <2>5. QED
    BY <2>3, <2>4 DEF FreshFor
<1>3. ASSUME NEW u \in Turns, Commit(u) PROVE Fresh
  <2>1. PICK b \in Agents : b = Agent(u)
    BY <1>0, <1>3 DEF Commit, StagesOfTurns
  <2>2. /\ seen' = seen /\ \A a \in Agents : a # b => history'[a] = history[a]
        /\ \A t \in Turns : Agent(t)' = Agent(t)
        /\ \A t \in Turns : Looked(t)' => t # u /\ Looked(t)
    BY <1>0, <1>3, <2>1 DEF Commit, Goto, Looked, Agent, ControlTypeOK
  <2>3. Live(u)
    BY <1>3 DEF Commit, Live
  <2>4. ASSUME NEW a \in Agents, NoInterrupt(a)', NEW t \in Turns, Looked(t)', Agent(t)' = a
        PROVE  seen'[t] = history'[a]
    <3>1. NoInterrupt(a) /\ Looked(t) /\ Agent(t) = a /\ t # u
      BY <1>0, <2>2, <2>4
    <3>2. Live(t)
      BY <3>1 DEF Looked, Live
    <3>3. a # b
      BY <1>0, <2>1, <2>3, <3>1, <3>2 DEF TurnsExclude
    <3>4. seen[t] = history[a]
      BY <3>1 DEF FreshFor
    <3>5. QED
      BY <2>2, <3>3, <3>4
  <2>5. QED
    BY <2>2, <2>4 DEF FreshFor
<1>4. ASSUME NEW u \in Turns, NEW a \in Agents, NEW c \in BOOLEAN, NEW p \in Seq(Tools),
             MarkRunning(u, a, c, p) \/ Busy(u, a)
      PROVE  Fresh
  <2>1. pc[u] = "new" /\ \E x : \E s \in {"marked", "done"} : /\ pc' = [pc EXCEPT ![u] = s]
                                                               /\ turn' = [turn EXCEPT ![u] = x]
    <3>1. CASE MarkRunning(u, a, c, p)
      BY <3>1 DEF MarkRunning, Goto
    <3>2. CASE Busy(u, a)
      BY <3>2 DEF Busy, Return, Goto
    <3>3. QED
      BY <1>4, <3>1, <3>2
  <2>2. \A t \in Turns : Looked(t)' => Looked(t) /\ Agent(t)' = Agent(t)
    BY <1>0, <2>1 DEF Looked, Agent, ControlTypeOK
  <2>3. QED
    BY <1>1, <1>4, <2>2 DEF MarkRunning, Busy, logVars
<1>5. ASSUME NEW u \in Turns, SettleTool(u) PROVE Fresh
  BY <1>0, <1>1, <1>5 DEF SettleTool, Goto, Looked, Agent, logVars, ControlTypeOK
<1>6. ASSUME NEW u \in Turns, RunTool(u) PROVE Fresh
  <2>1. \A t \in Turns : Agent(t)' = Agent(t)
    BY <1>0, <1>6 DEF RunTool, Agent, ControlTypeOK, TurnRec
  <2>2. \A t \in Turns : Looked(t)' => Looked(t)
    BY <1>0, <1>6 DEF RunTool, Goto, Looked, ControlTypeOK
  <2>3. UNCHANGED <<history, seen>>
    BY <1>6 DEF RunTool, logVars
  <2>4. QED
    BY <1>1, <2>1, <2>2, <2>3
<1>7. ASSUME NEW u \in Turns,
             \/ ClearOld(u) \/ Arm(u) \/ DelayEnds(u) \/ Cut(u) \/ ModelAnswers(u)
             \/ ModelFails(u) \/ Persist(u) \/ Finish(u) \/ UnwindPending(u)
             \/ UnwindRunning(u) \/ Notice(u) \/ Drop(u)
      PROVE  Fresh
  <2>1. turn' = turn /\ history' = history /\ seen' = seen
    BY <1>7 DEF ClearOld, Arm, DelayEnds, Cut, ModelAnswers, ModelFails, Persist, Finish,
                UnwindPending, UnwindRunning, Notice, Drop, logVars
  <2>2. PICK stage \in {"cleared", "delay", "snapshot", "unwind", "body", "reply", "clear",
                        "done", "unset", "notice"} :
          /\ pc' = [pc EXCEPT ![u] = stage]
          /\ stage \in {"body", "reply"} => pc[u] \in {"llm", "body"}
    BY <1>7 DEF ClearOld, Arm, DelayEnds, Cut, ModelAnswers, ModelFails, Persist, Finish,
                UnwindPending, UnwindRunning, Notice, Drop, Goto, Return
  <2>3. \A t \in Turns : Looked(t)' => Looked(t)
    BY <1>0, <2>2 DEF Looked, ControlTypeOK
  <2>4. QED
    BY <1>1, <2>1, <2>3 DEF Agent
<1>8. ASSUME UNCHANGED turnVars, UNCHANGED history PROVE Fresh
  BY <1>1, <1>8 DEF turnVars, Looked, Agent
<1> HIDE DEF Fresh
<1>9. ASSUME NEW u \in Turns, TurnStep(u) \/ Drop(u) PROVE Fresh
  BY <1>2, <1>3, <1>5, <1>6, <1>7, <1>9, Zenon DEF TurnStep
<1>10. ASSUME NEW u \in Turns, NEW a \in Agents, Busy(u, a) PROVE Fresh
  <2>1. TRUE \in BOOLEAN /\ <<>> \in Seq(Tools)
    OBVIOUS
  <2>2. QED
    BY <1>4, <1>10, <2>1, Zenon
<1>11. ASSUME NEW u \in Turns, NEW d \in Gate!Decisions, Approve(u, d) PROVE Fresh
  BY <1>8, <1>11 DEF Approve, logVars
<1>12. ASSUME NEW i \in Interrupts, NEW a \in Agents, TakePending(i, a) PROVE Fresh
  BY <1>8, <1>12 DEF TakePending, logVars
<1>13. ASSUME NEW i \in Interrupts, InterruptStep(i) PROVE Fresh
  BY <1>8, <1>13 DEF InterruptStep, Signal, MarkIdle, logVars
<1>14. ASSUME UNCHANGED vars PROVE Fresh
  BY <1>8, <1>14 DEF vars, logVars
<1>15. Fresh
  BY <1>4, <1>9, <1>10, <1>11, <1>12, <1>13, <1>14, StepCases, Zenon
<1>16. QED
  BY <1>15 DEF Fresh

LEMMA ContextInit == Init => ContextInv
<1> SUFFICES ASSUME Init PROVE ContextInv
  OBVIOUS
<1>1. /\ history = [a \in Agents |-> <<>>] /\ seen = [t \in Turns |-> <<>>]
      /\ \A a \in Agents : Prompts(transcript[a]) = {}
      /\ \A t \in Turns : ~Looked(t)
  BY DEF Init, Prompts, Looked
<1>2. /\ history \in [Agents -> Seq(Turns)] /\ seen \in [Turns -> Seq(Turns)]
      /\ \A a \in Agents : Len(history[a]) = 0
  BY <1>1
<1>3. HistoryIsSuffix
  <2>1. Cardinality({}) = 0
    BY FS_EmptySet
  <2>2. ASSUME NEW a \in Agents PROVE Recent(transcript[a], history[a])
    <3>1. Prompts(transcript[a]) = {} /\ Len(history[a]) = 0
      BY <1>1, <1>2
    <3>2. 0 < HistoryMax
      BY HistoryAssumption
    <3>3. QED
      BY <2>1, <3>1, <3>2 DEF Recent
  <2>3. QED
    BY <2>2 DEF HistoryIsSuffix
<1>4. \A a \in Agents : FreshFor(a)
  BY <1>1 DEF FreshFor
<1>5. QED
  BY <1>2, <1>3, <1>4 DEF ContextInv

LEMMA ContextStep ==
  ASSUME ControlInv, TranscriptInv, ContextInv, [Next]_vars PROVE ContextInv'
<1>1. history' \in [Agents -> Seq(Turns)] /\ HistoryIsSuffix'
  BY SuffixStep DEF ContextInv
<1>2. seen' \in [Turns -> Seq(Turns)] /\ \A a \in Agents : FreshFor(a)'
  BY FreshStep DEF ContextInv
<1>3. QED
  BY <1>1, <1>2 DEF ContextInv

\* commit_turn and build_llm_history: what the model is told is the last HistoryMax
\* committed turns, and a turn nobody interrupted is appended to what it was told.
THEOREM ContextRecent == Spec => []ContextIsRecent
<1>1. ControlInv /\ ContextInv => ContextIsRecent
  BY FreshByAgent DEF ContextInv, ControlInv, ContextIsRecent
<1>2. Spec => []TranscriptInv
  BY TranscriptInit, Control, TranscriptStep, PTL DEF Spec
<1>3. Spec => []ContextInv
  BY ContextInit, ContextStep, Control, <1>2, PTL DEF Spec
<1>4. QED
  BY <1>1, <1>3, Control, PTL
=============================================================================
