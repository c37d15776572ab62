-------------------------- MODULE ApprovalContract --------------------------
(***************************************************************************)
(* What the gateway's tool gate promises, with no oneshot channels, no     *)
(* slot map and no timers: a dangerous tool call gets at most one vote,    *)
(* and exactly one verdict.  In mode "gate" a tool is allowed only by an   *)
(* "allow" vote that was cast before the verdict; it may be denied at any  *)
(* time (a deny vote, the timeout, a lost channel).  ToolApproval is shown *)
(* to implement this module.                                               *)
(***************************************************************************)
CONSTANTS Gates,   \* the tool calls that reach the gate
          Modes    \* the approval modes the process may be started in

Decisions == {"allow", "deny"}
Verdicts  == {"allowed", "denied"}

VARIABLES mode,    \* ATLAS_TOOL_APPROVAL_MODE, fixed at start
          vote,    \* the decision accepted for a gate, "none" before
          verdict  \* "open" until the gate settles

vars == <<mode, vote, verdict>>

Init ==
  /\ mode \in Modes
  /\ vote = [g \in Gates |-> "none"]
  /\ verdict = [g \in Gates |-> "open"]

\* One decision is accepted for g.  It may come too late to matter.
Vote(g, d) ==
  /\ mode = "gate"
  /\ vote[g] = "none"
  /\ vote' = [vote EXCEPT ![g] = d]
  /\ UNCHANGED <<mode, verdict>>

Allow(g) ==
  /\ verdict[g] = "open"
  /\ mode = "off" \/ (mode = "gate" /\ vote[g] = "allow")
  /\ verdict' = [verdict EXCEPT ![g] = "allowed"]
  /\ UNCHANGED <<mode, vote>>

Deny(g) ==
  /\ verdict[g] = "open"
  /\ mode # "off"
  /\ verdict' = [verdict EXCEPT ![g] = "denied"]
  /\ UNCHANGED <<mode, vote>>

\* A decision queued beforehand is the vote and the verdict in one step.
Preset(g, d) ==
  /\ mode = "gate"
  /\ vote[g] = "none"
  /\ verdict[g] = "open"
  /\ vote' = [vote EXCEPT ![g] = d]
  /\ verdict' = [verdict EXCEPT ![g] = IF d = "allow" THEN "allowed" ELSE "denied"]
  /\ UNCHANGED mode

Next ==
  \E g \in Gates :
    \/ Allow(g)
    \/ Deny(g)
    \/ \E d \in Decisions : Vote(g, d) \/ Preset(g, d)

Spec == Init /\ [][Next]_vars
=============================================================================
