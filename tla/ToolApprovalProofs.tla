------------------------- MODULE ToolApprovalProofs -------------------------
(***************************************************************************)
(* TLAPS proofs about ToolApproval, for any sets of gates, calls and modes.*)
(* The four safety invariants are not inductive alone: IInv adds what a    *)
(* gate's stage says about its slot, its channel and its accepted vote.    *)
(***************************************************************************)
EXTENDS ToolApproval, TLAPS

\* A gate that has not hung yet has no verdict, no vote taken, and is unknown
\* to approvers.
Early ==
  \A g \in Gates :
    /\ at[g] \in {"idle", "opened", "hang"} => outcome[g] = "none"
    /\ at[g] = "idle" => g \notin slots /\ accepted[g] = "none"
    /\ at[g] = "opened" => g \in slots
    /\ at[g] \in {"opened", "hang"} => mode = "gate"
    /\ g \in announced => at[g] \notin {"idle", "opened"}

\* While the slot is in the map nobody's decision was taken for it.
SlotIsUndecided ==
  \A g \in slots : mode = "gate" /\ accepted[g] = "none" /\ at[g] # "done"

\* A taken slot is gone for good, and its decision is the recorded vote.
TakenOnce ==
  \A c \in Calls :
    Accepting(c) =>
      /\ call[c].gate \in announced \ slots
      /\ call[c].decision \in Decisions
      /\ accepted[call[c].gate] = call[c].decision

\* What travels on the channel is the vote.
SentIsVote ==
  \A g \in Gates :
    chan[g] \in Decisions => g \in announced \ slots /\ accepted[g] = chan[g]

IInv ==
  /\ TypeOK
  /\ Early
  /\ SlotIsUndecided
  /\ TakenOnce
  /\ SentIsVote
  /\ SingleAcceptance
  /\ AllowNeedsVote
  /\ AnnouncedIsAnswerable
  /\ ReturnedGateIsClosed

-----------------------------------------------------------------------------
LEMMA InitEstablishes == Init => IInv
  BY GatesAssumption
  DEF Init, IInv, TypeOK, Early, SlotIsUndecided, TakenOnce, SentIsVote,
      SingleAcceptance, AllowNeedsVote, AnnouncedIsAnswerable,
      ReturnedGateIsClosed, Accepting, NewCall, Stages, CallStages, Decisions, Outcomes

\* Every step keeps the types.
LEMMA TypeStep == TypeOK /\ [Next]_vars => TypeOK'
<1> SUFFICES ASSUME TypeOK, [Next]_vars PROVE TypeOK'
  OBVIOUS
<1> USE DEF TypeOK, Stages, CallStages, Decisions, Outcomes
<1>1. ASSUME NEW g \in Gates, AutoSettle(g) PROVE TypeOK'
  BY <1>1 DEF AutoSettle
<1>2. ASSUME NEW g \in Gates, UseInjected(g) PROVE TypeOK'
  BY <1>2 DEF UseInjected
<1>3. ASSUME NEW g \in Gates, OpenSlot(g) PROVE TypeOK'
  BY <1>3 DEF OpenSlot
<1>4. ASSUME NEW g \in Gates, Announce(g) PROVE TypeOK'
  BY <1>4 DEF Announce
<1>5. ASSUME NEW g \in Gates, Decide(g) PROVE TypeOK'
  BY <1>5 DEF Decide
<1>6. ASSUME NEW g \in Gates, Expire(g) PROVE TypeOK'
  BY <1>6 DEF Expire
<1>7. ASSUME NEW g \in Gates, ClearSlot(g) PROVE TypeOK'
  BY <1>7 DEF ClearSlot
<1>8. ASSUME NEW g \in Gates, Abandon(g) PROVE TypeOK'
  BY <1>8 DEF Abandon
<1>9. ASSUME NEW c \in Calls, Refuse(c) PROVE TypeOK'
  BY <1>9 DEF Refuse
<1>10. ASSUME NEW c \in Calls, NEW g \in Gates, NEW d \in Decisions, TakeSlot(c, g, d) PROVE TypeOK'
  BY <1>10 DEF TakeSlot
<1>11. ASSUME NEW c \in Calls, NEW g \in Gates, RejectClosed(c, g) PROVE TypeOK'
  BY <1>11 DEF RejectClosed
<1>12. ASSUME NEW c \in Calls, SendDecision(c) PROVE TypeOK'
  <2>1. /\ UNCHANGED <<mode, inject, slots, at, outcome, announced, accepted>>
        /\ call' = [call EXCEPT ![c].at = "ok"]
    BY <1>12 DEF SendDecision
  <2>2. chan' \in [Gates -> {"none", "open", "gone"} \cup Decisions]
    <3>1. CASE call[c].gate \notin Gates \/ chan[call[c].gate] # "open"
      BY <1>12, <3>1 DEF SendDecision
    <3>2. CASE call[c].gate \in Gates /\ chan[call[c].gate] = "open"
      <4>1. PICK x : x = call[c].decision
        OBVIOUS
      <4>2. CASE x = "none"
        BY <1>12, <3>2, <4>1, <4>2 DEF SendDecision
      <4>3. CASE x \in Decisions
        BY <1>12, <3>2, <4>1, <4>3 DEF SendDecision
      <4>4. QED
        BY <4>1, <4>2, <4>3
    <3>3. QED
      BY <3>1, <3>2
  <2>3. call' \in [Calls -> [at : CallStages, gate : Gates \cup {NoGate},
                             decision : Decisions \cup {"none"}]]
    <3>1. [call[c] EXCEPT !.at = "ok"] \in [at : CallStages, gate : Gates \cup {NoGate},
                                            decision : Decisions \cup {"none"}]
      OBVIOUS
    <3>2. QED
      BY <2>1, <3>1
  <2>4. QED
    BY <2>1, <2>2, <2>3
<1>13. ASSUME NEW d \in Decisions, Inject(d) PROVE TypeOK'
  BY <1>13 DEF Inject
<1>14. CASE UNCHANGED vars
  BY <1>14 DEF vars
<1>15. QED
  BY <1>1, <1>2, <1>3, <1>4, <1>5, <1>6, <1>7, <1>8, <1>9, <1>10, <1>11, <1>12, <1>13, <1>14 DEF Next, GateStep, CallStep

\* Every step keeps the invariant.  The steps of one gate disturb its own stage,
\* slot and channel; the steps of one call disturb the slot and the vote it takes.
LEMMA IInvStep == IInv /\ [Next]_vars => IInv'
<1> SUFFICES ASSUME IInv, [Next]_vars PROVE IInv'
  OBVIOUS
<1> USE DEF IInv
<1>0. TypeOK'
  BY TypeStep
<1> USE <1>0 DEF TypeOK, Stages, CallStages, Decisions, Outcomes,
           Early, SlotIsUndecided, TakenOnce, SentIsVote, SingleAcceptance,
           AllowNeedsVote, AnnouncedIsAnswerable, ReturnedGateIsClosed, Accepting
<1>1. ASSUME NEW g \in Gates, AutoSettle(g) PROVE IInv'
  BY <1>1 DEF AutoSettle
<1>2. ASSUME NEW g \in Gates, UseInjected(g) PROVE IInv'
  BY <1>2 DEF UseInjected
<1>3. ASSUME NEW g \in Gates, OpenSlot(g) PROVE IInv'
  BY <1>3 DEF OpenSlot
<1>4. ASSUME NEW g \in Gates, Announce(g) PROVE IInv'
  BY <1>4 DEF Announce
<1>5. ASSUME NEW g \in Gates, Decide(g) PROVE IInv'
  BY <1>5 DEF Decide
<1>6. ASSUME NEW g \in Gates, Expire(g) PROVE IInv'
  BY <1>6 DEF Expire
<1>7. ASSUME NEW g \in Gates, ClearSlot(g) PROVE IInv'
  BY <1>7 DEF ClearSlot
<1>8. ASSUME NEW g \in Gates, Abandon(g) PROVE IInv'
  BY <1>8 DEF Abandon
<1>9. ASSUME NEW c \in Calls, Refuse(c) PROVE IInv'
  BY <1>9 DEF Refuse
<1>10. ASSUME NEW c \in Calls, NEW g \in Gates, NEW d \in Decisions, TakeSlot(c, g, d) PROVE IInv'
  <2>1. /\ call[c].at = "new" /\ g \in announced /\ g \in slots /\ slots' = slots \ {g}
        /\ call' = [call EXCEPT ![c] = [at |-> "sending", gate |-> g, decision |-> d]]
        /\ accepted' = [accepted EXCEPT ![g] = d]
        /\ UNCHANGED <<mode, inject, chan, at, outcome, announced>>
    BY <1>10 DEF TakeSlot
  <2>2. SlotIsUndecided' /\ AnnouncedIsAnswerable' /\ ReturnedGateIsClosed'
    BY <2>1
  <2>3. TakenOnce'
    BY <2>1
  <2>4. SentIsVote' /\ SingleAcceptance'
    BY <2>1
  <2>5. Early' /\ AllowNeedsVote'
    BY <2>1
  <2>6. QED
    BY <2>2, <2>3, <2>4, <2>5
<1>11. ASSUME NEW c \in Calls, NEW g \in Gates, RejectClosed(c, g) PROVE IInv'
  BY <1>11 DEF RejectClosed
<1>12. ASSUME NEW c \in Calls, SendDecision(c) PROVE IInv'
  BY <1>12 DEF SendDecision
<1>13. ASSUME NEW d \in Decisions, Inject(d) PROVE IInv'
  BY <1>13 DEF Inject
<1>14. CASE UNCHANGED vars
  BY <1>14 DEF vars
<1>15. QED
  BY <1>1, <1>2, <1>3, <1>4, <1>5, <1>6, <1>7, <1>8, <1>9, <1>10, <1>11, <1>12, <1>13, <1>14
     DEF Next, GateStep, CallStep

-----------------------------------------------------------------------------
\* The inductive invariant holds in every reachable state.
THEOREM InvariantHolds == Spec => []IInv
  BY InitEstablishes, IInvStep, PTL DEF Spec

\* Stages, channels, slots and calls keep their types whatever the runtime
\* interleaves (await_tool_approval, submit_tool_approval).
THEOREM TypeCorrect == Spec => []TypeOK
<1>1. IInv => TypeOK
  BY DEF IInv
<1>2. QED
  BY <1>1, InvariantHolds, PTL

\* For any number of approvers and approval ids: one id is answered ok once.
THEOREM OneApproverWins == Spec => []SingleAcceptance
<1>1. IInv => SingleAcceptance
  BY DEF IInv
<1>2. QED
  BY <1>1, InvariantHolds, PTL

\* For any number of gates: in mode gate an allowed tool had an accepted allow,
\* however its timer, its slot's removal and the send interleave.
THEOREM NoAllowWithoutVote == Spec => []AllowNeedsVote
<1>1. IInv => AllowNeedsVote
  BY DEF IInv
<1>2. QED
  BY <1>1, InvariantHolds, PTL

\* An announced gate that has not returned is in the map or was decided by a call,
\* from the step that announces it on, and a gate that returned left no slot for a late decision.
THEOREM SlotsFollowGates == Spec => []SlotsMatchGates
<1>1. IInv => SlotsMatchGates
  BY DEF IInv, SlotsMatchGates
<1>2. QED
  BY <1>1, InvariantHolds, PTL

-----------------------------------------------------------------------------
\* The initial states of the gate are initial states of the contract.
LEMMA RefinesInit == Init => Contract!Init
  BY DEF Init, Contract!Init, VerdictOf

\* Every step of the gate is a step of the contract, or a stutter: settling is
\* Allow or Deny, taking the slot is Vote, a queued decision is Preset.
LEMMA RefinesStep == IInv /\ [Next]_vars => [Contract!Next]_(Contract!vars)
<1> SUFFICES ASSUME IInv, [Next]_vars PROVE [Contract!Next]_(Contract!vars)
  OBVIOUS
<1> USE DEF IInv, TypeOK, Early, VerdictOf, Decisions, Contract!Decisions, Outcomes
<1>1. ASSUME NEW g \in Gates, AutoSettle(g) PROVE Contract!Allow(g) \/ Contract!Deny(g)
  BY <1>1, ModesAssumption DEF AutoSettle, Contract!Allow, Contract!Deny
<1>2. ASSUME NEW g \in Gates, UseInjected(g) 
      PROVE Head(inject) \in Contract!Decisions /\ Contract!Preset(g, Head(inject))
  <2>1. Head(inject) \in Decisions
    BY <1>2 DEF UseInjected
  <2>2. Contract!Preset(g, Head(inject))
    BY <1>2, <2>1 DEF UseInjected, Contract!Preset
  <2>3. QED
    BY <2>1, <2>2
<1>3. ASSUME NEW g \in Gates, Decide(g) PROVE Contract!Allow(g) \/ Contract!Deny(g)
  BY <1>3 DEF Decide, Contract!Allow, Contract!Deny, SentIsVote
<1>4. ASSUME NEW g \in Gates, Expire(g) PROVE Contract!Deny(g)
  BY <1>4 DEF Expire, Contract!Deny
<1>5. ASSUME NEW c \in Calls, NEW g \in Gates, NEW d \in Decisions, TakeSlot(c, g, d)
      PROVE d \in Contract!Decisions /\ Contract!Vote(g, d)
  BY <1>5 DEF TakeSlot, Contract!Vote, SlotIsUndecided
<1>6. ASSUME UNCHANGED <<mode, accepted, outcome>> PROVE UNCHANGED Contract!vars
  BY <1>6 DEF Contract!vars
<1>7. ASSUME NEW g \in Gates,
             OpenSlot(g) \/ Announce(g) \/ ClearSlot(g) \/ Abandon(g)
      PROVE UNCHANGED Contract!vars
  BY <1>6, <1>7 DEF OpenSlot, Announce, ClearSlot, Abandon
<1>8. ASSUME NEW c \in Calls, NEW g \in Gates, RejectClosed(c, g)
      PROVE UNCHANGED Contract!vars
  BY <1>6, <1>8 DEF RejectClosed
<1>9. ASSUME NEW c \in Calls, Refuse(c) \/ SendDecision(c) PROVE UNCHANGED Contract!vars
  BY <1>6, <1>9 DEF Refuse, SendDecision
<1>10. ASSUME NEW d \in Decisions, Inject(d) PROVE UNCHANGED Contract!vars
  BY <1>6, <1>10 DEF Inject
<1>11. CASE UNCHANGED vars
  BY <1>6, <1>11 DEF vars
<1> HIDE DEF IInv, TypeOK, Early, VerdictOf, Decisions, Contract!Decisions, Outcomes
<1>12. QED
  BY <1>1, <1>2, <1>3, <1>4, <1>5, <1>7, <1>8, <1>9, <1>10, <1>11
     DEF Next, GateStep, CallStep, Contract!Next

\* The gate implements its contract for any gates, calls and modes: the oneshot,
\* the slot map and the timer never add a second vote or an unvoted allow.
THEOREM GateImplementsContract == Spec => ImplementsContract
<1>1. QED
  BY RefinesInit, RefinesStep, InvariantHolds, PTL
     DEF Spec, ImplementsContract, Contract!Spec
=============================================================================
