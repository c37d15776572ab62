---------------------------- MODULE ToolApproval ----------------------------
(***************************************************************************)
(* The gateway's tool gate (tool_approval.rs, and the two ends of it in    *)
(* box_sidecar.rs: await_tool_approval and submit_tool_approval).  A tool  *)
(* call that reaches the gate opens a slot in ApprovalState.pending,       *)
(* publishes its approval id, and hangs on a oneshot channel against a     *)
(* timer.  POST /approve removes the slot under the map's lock and only    *)
(* then sends the decision, so the timer can win in between.  A gate is    *)
(* one call of await_tool_approval; a call is one POST /approve.           *)
(***************************************************************************)
EXTENDS Naturals, Sequences

CONSTANTS
  Gates,      \* tool calls that reach the gate; a gate stands for its approval id
  Calls,      \* POST /approve calls (PC card, curl, test hook)
  Modes,      \* modes the process may be started in
  MaxInject,  \* bound: decisions queued by the CI hook at any time
  NoGate      \* not a gate

Decisions == {"allow", "deny"}
Outcomes  == {"allow", "deny", "timeout", "auto_deny"}

ASSUME GatesAssumption == NoGate \notin Gates
ASSUME ModesAssumption == Modes \subseteq {"gate", "auto_deny", "off"}

VARIABLES
  mode,       \* ApprovalState.mode
  inject,     \* ApprovalState.inject: queued test decisions
  slots,      \* keys of ApprovalState.pending
  chan,       \* the oneshot: "none", "open", the decision sent, or "gone" (receiver dropped)
  at,         \* where await_tool_approval stands for each gate
  outcome,    \* its GateOutcome, "none" before
  announced,  \* gates whose approval_pending hint was published
  call,       \* each POST /approve: where it stands, its gate and decision
  accepted    \* history: the decision of the call that took the gate's slot

vars == <<mode, inject, slots, chan, at, outcome, announced, call, accepted>>

Stages     == {"idle", "opened", "hang", "settled", "done", "dropped"}
CallStages == {"new", "refused", "closed", "sending", "ok"}

TypeOK ==
  /\ mode \in Modes
  /\ inject \in Seq(Decisions)
  /\ slots \subseteq Gates
  /\ chan \in [Gates -> {"none", "open", "gone"} \cup Decisions]
  /\ at \in [Gates -> Stages]
  /\ outcome \in [Gates -> Outcomes \cup {"none"}]
  /\ announced \subseteq Gates
  /\ call \in [Calls -> [at : CallStages, gate : Gates \cup {NoGate},
                         decision : Decisions \cup {"none"}]]
  /\ accepted \in [Gates -> Decisions \cup {"none"}]

NewCall == [at |-> "new", gate |-> NoGate, decision |-> "none"]

Init ==
  /\ mode \in Modes
  /\ inject = <<>>
  /\ slots = {}
  /\ chan = [g \in Gates |-> "none"]
  /\ at = [g \in Gates |-> "idle"]
  /\ outcome = [g \in Gates |-> "none"]
  /\ announced = {}
  /\ call = [c \in Calls |-> NewCall]
  /\ accepted = [g \in Gates |-> "none"]

-----------------------------------------------------------------------------
(* await_tool_approval *)

\* Modes off and auto_deny never hang.
AutoSettle(g) ==
  /\ at[g] = "idle"
  /\ mode # "gate"
  /\ outcome' = [outcome EXCEPT ![g] = IF mode = "off" THEN "allow" ELSE "auto_deny"]
  /\ at' = [at EXCEPT ![g] = "done"]
  /\ UNCHANGED <<mode, inject, slots, chan, announced, call, accepted>>

\* A queued test decision is applied before the gate would hang.
UseInjected(g) ==
  /\ at[g] = "idle"
  /\ mode = "gate"
  /\ inject # <<>>
  /\ outcome' = [outcome EXCEPT ![g] = Head(inject)]
  /\ accepted' = [accepted EXCEPT ![g] = Head(inject)]
  /\ inject' = Tail(inject)
  /\ at' = [at EXCEPT ![g] = "done"]
  /\ UNCHANGED <<mode, slots, chan, announced, call>>

OpenSlot(g) ==
  /\ at[g] = "idle"
  /\ mode = "gate"
  /\ inject = <<>>
  /\ slots' = slots \cup {g}
  /\ chan' = [chan EXCEPT ![g] = "open"]
  /\ at' = [at EXCEPT ![g] = "opened"]
  /\ UNCHANGED <<mode, inject, outcome, announced, call, accepted>>

\* Fault: the hint may go out while the slot is not in the map yet.
AnnounceEarly(g) ==
  /\ at[g] = "opened" \/ (at[g] = "idle" /\ mode = "gate" /\ inject = <<>>)
  /\ announced' = announced \cup {g}
  /\ at' = [at EXCEPT ![g] = IF @ = "idle" THEN @ ELSE "hang"]
  /\ UNCHANGED <<mode, inject, slots, chan, outcome, call, accepted>>

\* The approval_pending hint goes out after the slot is in the map.
Announce(g) ==
  /\ at[g] = "opened"
  /\ announced' = announced \cup {g}
  /\ at' = [at EXCEPT ![g] = "hang"]
  /\ UNCHANGED <<mode, inject, slots, chan, outcome, call, accepted>>

\* Fault: the receiver's result is taken without looking whether
\* a decision arrived.
DecideUnchecked(g) ==
  /\ at[g] = "hang"
  /\ outcome' = [outcome EXCEPT ![g] = chan[g]]
  /\ chan' = [chan EXCEPT ![g] = "gone"]
  /\ at' = [at EXCEPT ![g] = "settled"]
  /\ UNCHANGED <<mode, inject, slots, announced, call, accepted>>

\* The select! takes the decision ...
Decide(g) ==
  /\ at[g] = "hang"
  /\ chan[g] \in Decisions
  /\ outcome' = [outcome EXCEPT ![g] = chan[g]]
  /\ chan' = [chan EXCEPT ![g] = "gone"]
  /\ at' = [at EXCEPT ![g] = "settled"]
  /\ UNCHANGED <<mode, inject, slots, announced, call, accepted>>

\* Fault: the timer survives the select! and settles the gate a second time.
ExpireTwice(g) ==
  /\ at[g] \in {"hang", "settled"}
  /\ outcome' = [outcome EXCEPT ![g] = "timeout"]
  /\ chan' = [chan EXCEPT ![g] = "gone"]
  /\ at' = [at EXCEPT ![g] = "settled"]
  /\ UNCHANGED <<mode, inject, slots, announced, call, accepted>>

\* ... or the timer; with both ready the select! is free to take either.
Expire(g) ==
  /\ at[g] = "hang"
  /\ outcome' = [outcome EXCEPT ![g] = "timeout"]
  /\ chan' = [chan EXCEPT ![g] = "gone"]
  /\ at' = [at EXCEPT ![g] = "settled"]
  /\ UNCHANGED <<mode, inject, slots, announced, call, accepted>>

\* Faults: the whole map is cleared, and the removal insists on finding the
\* slot.
ClearAllSlots(g) ==
  /\ at[g] = "settled"
  /\ slots' = {}
  /\ at' = [at EXCEPT ![g] = "done"]
  /\ UNCHANGED <<mode, inject, chan, outcome, announced, call, accepted>>

ClearPresentSlot(g) ==
  /\ at[g] = "settled"
  /\ g \in slots
  /\ slots' = slots \ {g}
  /\ at' = [at EXCEPT ![g] = "done"]
  /\ UNCHANGED <<mode, inject, chan, outcome, announced, call, accepted>>

\* Last statement: the slot is removed, whoever settled the gate.
ClearSlot(g) ==
  /\ at[g] = "settled"
  /\ slots' = slots \ {g}
  /\ at' = [at EXCEPT ![g] = "done"]
  /\ UNCHANGED <<mode, inject, chan, outcome, announced, call, accepted>>

\* The future is dropped at an await point: the HTTP connection of the invoke
\* is gone, or the CLI backend's interrupt won its select!.  The tool never
\* runs; nothing removes the slot.
Abandon(g) ==
  /\ at[g] \in {"hang", "settled"}
  /\ at' = [at EXCEPT ![g] = "dropped"]
  /\ chan' = [chan EXCEPT ![g] = "gone"]
  /\ UNCHANGED <<mode, inject, slots, outcome, announced, call, accepted>>

-----------------------------------------------------------------------------
(* POST /approve and the test hook *)

\* Loopback, token, empty-id and decision checks fail before the map is touched.
Refuse(c) ==
  /\ call[c].at = "new"
  /\ call' = [call EXCEPT ![c].at = "refused"]
  /\ UNCHANGED <<mode, inject, slots, chan, at, outcome, announced, accepted>>

\* Fault: the slot is looked up and left in the map.
PeekSlot(c, g, d) ==
  /\ call[c].at = "new"
  /\ g \in announced \cap slots
  /\ call' = [call EXCEPT ![c] = [at |-> "sending", gate |-> g, decision |-> d]]
  /\ accepted' = [accepted EXCEPT ![g] = d]
  /\ UNCHANGED <<mode, inject, slots, chan, at, outcome, announced>>

\* The slot is removed under the map's write lock.
TakeSlot(c, g, d) ==
  /\ call[c].at = "new"
  /\ g \in announced \cap slots
  /\ slots' = slots \ {g}
  /\ call' = [call EXCEPT ![c] = [at |-> "sending", gate |-> g, decision |-> d]]
  /\ accepted' = [accepted EXCEPT ![g] = d]
  /\ UNCHANGED <<mode, inject, chan, at, outcome, announced>>

\* Unknown or consumed id: approval_closed, HTTP 409.
RejectClosed(c, g) ==
  /\ call[c].at = "new"
  /\ g \in announced \ slots
  /\ call' = [call EXCEPT ![c] = [at |-> "closed", gate |-> g, decision |-> "none"]]
  /\ UNCHANGED <<mode, inject, slots, chan, at, outcome, announced, accepted>>

\* tx.send after the lock is released; its result is ignored, the reply is ok.
SendDecision(c) ==
  /\ call[c].at = "sending"
  /\ chan' = [chan EXCEPT ![call[c].gate] = IF @ = "open" THEN call[c].decision ELSE @]
  /\ call' = [call EXCEPT ![c].at = "ok"]
  /\ UNCHANGED <<mode, inject, slots, at, outcome, announced, accepted>>

\* The CI hook queues a decision (bounded by MaxInject).
Inject(d) ==
  /\ Len(inject) < MaxInject
  /\ inject' = Append(inject, d)
  /\ UNCHANGED <<mode, slots, chan, at, outcome, announced, call, accepted>>

-----------------------------------------------------------------------------
GateStep(g) ==
  \/ AutoSettle(g)
  \/ UseInjected(g)
  \/ OpenSlot(g)
  \/ Announce(g)
  \/ Decide(g)
  \/ Expire(g)
  \/ ClearSlot(g)
  \/ Abandon(g)

CallStep(c) ==
  \/ Refuse(c)
  \/ \E g \in Gates, d \in Decisions : TakeSlot(c, g, d)
  \/ \E g \in Gates : RejectClosed(c, g)
  \/ SendDecision(c)

Next ==
  \/ \E g \in Gates : GateStep(g)
  \/ \E c \in Calls : CallStep(c)
  \/ \E d \in Decisions : Inject(d)

Spec == Init /\ [][Next]_vars

\* The runtime polls a woken task: a gate's own steps, timer included, and an
\* approver's send are not delayed for ever.  Nobody is obliged to approve.
Fairness ==
  /\ \A g \in Gates : /\ WF_vars(Announce(g))
                      /\ WF_vars(Decide(g) \/ Expire(g))
                      /\ WF_vars(ClearSlot(g))
  /\ \A c \in Calls : WF_vars(SendDecision(c))

FairSpec == Spec /\ Fairness

-----------------------------------------------------------------------------
(* Properties *)

Accepting(c) == call[c].at \in {"sending", "ok"}

\* At most one POST /approve is answered ok for an approval id: two approvers,
\* or one that retries, cannot both be told that their decision was taken.
SingleAcceptance ==
  \A c1, c2 \in Calls :
    Accepting(c1) /\ Accepting(c2) /\ call[c1].gate = call[c2].gate => c1 = c2

\* In mode gate no race of timer, send and slot removal lets a tool through
\* unless an allow was accepted for that very gate.
AllowNeedsVote ==
  \A g \in Gates :
    mode = "gate" /\ outcome[g] = "allow" => accepted[g] = "allow"

\* Whoever has seen the approval_pending hint of a gate that has not returned can
\* answer it, unless somebody already did, from the very step that sends the hint:
\* the id is never announced before its slot is in the map, and until the gate
\* returns nothing but an accepted call removes it.
AnnouncedIsAnswerable ==
  \A g \in announced :
    at[g] # "done" =>
      g \in slots \/ \E c \in Calls : Accepting(c) /\ call[c].gate = g

\* A gate that returned leaves no slot behind, so a late decision on it is
\* answered closed and never ok.
ReturnedGateIsClosed == \A g \in Gates : at[g] = "done" => g \notin slots

\* The slot map and the gates that hang go together, whatever approvers, timers
\* and dropped calls do meanwhile.
SlotsMatchGates == AnnouncedIsAnswerable /\ ReturnedGateIsClosed

\* A gate that opened returns: the timer bounds the hang.
GateReturns ==
  \A g \in Gates : at[g] = "opened" ~> at[g] \in {"done", "dropped"}

VerdictOf(o) ==
  IF o = "none" THEN "open" ELSE IF o = "allow" THEN "allowed" ELSE "denied"

Contract == INSTANCE ApprovalContract
  WITH vote <- accepted,
       verdict <- [g \in Gates |-> VerdictOf(outcome[g])]

\* The gate implements ApprovalContract: one vote and one verdict per tool call,
\* and never a verdict "allowed" that no vote preceded.
ImplementsContract == Contract!Spec
=============================================================================
