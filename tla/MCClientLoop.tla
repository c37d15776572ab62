---------------------------- MODULE MCClientLoop ----------------------------
EXTENDS ClientLoop, TLC
CONSTANTS q1, q2, q3, f1

\* The client writes its requests in one order.  The first is initialize and
\* was answered before the next is written, or it is the only one (and is
\* refused, or needs no initialize).  Others prompt once the adapter is in use.
Known(r) == answer[r] # Nil \/ request = r \/ \E i \in 1..Len(inbox) : inbox[i] = r

InOrder == /\ ~ Known(q2) /\ Known(q2)' => answer[q1] # Nil /\ kind[q1] = "initialize"
           /\ ~ Known(q3) /\ Known(q3)' => Known(q2)
           /\ started' # {} => Known(q2)

FirstKinds == \/ kind[q1] = "initialize" /\ kind[q2] # "initialize" /\ kind[q3] # "initialize"
              \/ kind[q1] # "initialize" /\ kind[q2] = "prompt" /\ kind[q3] = "prompt"

OrderedInit == LoopInit /\ FirstKinds

OrderedSpec == /\ OrderedInit
               /\ [][LoopNext /\ InOrder]_loop
               /\ WF_loop(Adapter)
=============================================================================
