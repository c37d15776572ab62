--------------------------- MODULE GatewayProcess ---------------------------
(***************************************************************************)
(* The gateway process as its stores see it: it runs or it is down, it     *)
(* starts again with an empty memory, and a clock advances meanwhile.      *)
(* Uploads and VncTokens are kept by one such process; GatewayStores puts  *)
(* them together.                                                          *)
(*                                                                         *)
(* The clock is the wall clock of now_ms().  It is taken to be monotone: a *)
(* host whose clock is set back would make expired things live again.      *)
(***************************************************************************)
EXTENDS Naturals

CONSTANTS MaxNow,       \* bound on the clock
          MaxEpoch      \* bound on the number of restarts

ASSUME ProcessAssumption == MaxNow \in Nat /\ MaxEpoch \in Nat

VARIABLES up,           \* the process runs
          epoch,        \* how often it was restarted
          now           \* now_ms()

process == <<up, epoch, now>>

ProcessTypeOK ==
  /\ up \in BOOLEAN /\ epoch \in 0..MaxEpoch /\ now \in 0..MaxNow
  /\ up \/ epoch < MaxEpoch

ProcessInit == up = TRUE /\ epoch = 0 /\ now = 0

Elapse == now < MaxNow /\ now' = now + 1 /\ UNCHANGED <<up, epoch>>

\* A process that could not be started again under the bound is not stopped.
Stop == up /\ epoch < MaxEpoch /\ up' = FALSE /\ UNCHANGED <<epoch, now>>

Start == ~up /\ up' = TRUE /\ epoch' = epoch + 1 /\ now' = now
=============================================================================
