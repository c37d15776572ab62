--------------------------- MODULE GatewayStores ----------------------------
(***************************************************************************)
(* What one gateway process keeps beside its agents and transcripts: the   *)
(* attachments and the desktop links, under one clock and one fate.  A     *)
(* crash takes the memory of both and leaves the disk.                     *)
(***************************************************************************)
EXTENDS Uploads, VncTokens

vars == <<process, uploads, vnc>>

Init == UploadsInit /\ VncInit

Tick == Elapse /\ UNCHANGED <<uploads, vnc>>

Crash == Stop /\ UploadsStop /\ VncStop

Restart == Start /\ UploadsStart /\ UNCHANGED vnc

Next ==
  \/ UploadsNext /\ UNCHANGED vnc
  \/ VncNext /\ UNCHANGED uploads
  \/ Tick
  \/ Crash
  \/ Restart

Spec == Init /\ [][Next]_vars

TypeOK == ProcessTypeOK /\ UploadsTypeOK /\ VncTypeOK
=============================================================================
