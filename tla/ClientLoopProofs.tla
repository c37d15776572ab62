-------------------------- MODULE ClientLoopProofs --------------------------
(***************************************************************************)
(* TLAPS proofs about ClientLoop, for any requests, prompts of others,     *)
(* backends and queues.  StagesInv says where a request may be, FramesInv  *)
(* which call an answer is for and what the transcript in it must have,    *)
(* PromptsInv that a request prompts once, CancelInv what stands before an *)
(* interrupt in the queue to the hub, and NotesInv that an announcement    *)
(* which was not repeated is in one place at most.                         *)
(***************************************************************************)
EXTENDS ClientLoop, FiniteSetTheorems, SequenceTheorems, TLAPS

Who == Requests \cup Foreign
Statuses == {"none", "ok", "error"}
Notes == [channel : {"tool", "turn_finished"}, of : Who]
Frames == [call : Nat \ {0}, op : {"subscribe", "prompt", "tail", "interrupt"}, by : Requests]
Slots == [status : Statuses, tail : SUBSET Who]
Answers == [call : Nat \ {0}, answer : Slots]
Relayed == [call : {0}, event : Notes]
Outcomes == [status : Statuses, turn : Who \cup {Silent}, tail : SUBSET Who]
Steps == {"read", "call", "subscribe", "prompt", "turn", "tail", "interrupt"}

AdapterTypeOK ==
  /\ kind \in [Requests -> Kinds]
  /\ inbox \in Seq(Requests)
  /\ ready \in BOOLEAN
  /\ request \in Requests \cup {Silent}
  /\ step \in Steps
  /\ turn \in Who \cup {Silent}
  /\ answer \in [Requests -> Outcomes]

ClientTypeOK ==
  /\ calls \in Nat
  /\ slot \in Slots
  /\ events \in Seq(Notes)
  /\ up \in Seq(Frames)
  /\ down \in Seq(Answers \cup Relayed)

HubTypeOK ==
  /\ serving \in Frames \cup {Silent}
  /\ bus \in Seq(Notes)
  /\ running \in Who \cup {Silent}
  /\ committed \subseteq Who
  /\ repeated \subseteq Who

\* A request waits in the inbox once, or is the one being dispatched, or was
\* answered.
Places ==
  /\ request = Silent <=> step = "read"
  /\ request # Silent => answer[request] = Nil
  /\ \A i \in DOMAIN inbox : answer[inbox[i]] = Nil /\ inbox[i] # request
  /\ \A i, j \in DOMAIN inbox : inbox[i] = inbox[j] => i = j
  /\ \A r \in Requests : answer[r].status = "none" => answer[r] = Nil
  /\ \A r \in Requests : answer[r].status = "error" => answer[r] = Error

\* What the handler of a request is doing.
Handlers ==
  /\ step # "read" => kind[request] \in {"prompt", "cancel", "tail"}
  /\ step \in {"subscribe", "prompt", "turn"} => kind[request] = "prompt"
  /\ step = "interrupt" => kind[request] = "cancel"
  /\ turn # Silent => step = "tail"
  /\ step = "tail" /\ kind[request] = "prompt" => turn # Silent

StagesInv == AdapterTypeOK /\ Places /\ Handlers

\* No frame or answer has a number that was not given yet, and the one with the
\* number of the call awaited is of that call.
Numbers ==
  /\ \A i \in DOMAIN up : up[i].call <= calls /\ (InCall /\ up[i].call = calls => up[i].op = step)
  /\ serving # Silent =>
       /\ serving.op = "prompt" /\ serving.call <= calls
       /\ InCall /\ serving.call = calls => step = "prompt"
  /\ \A i \in DOMAIN down : down[i].call <= calls

\* An answer to the call awaited has the turn that was taken.
HasTurn(m) ==
  m.call # 0 /\ m.call = calls /\ m.answer.status = "ok" => turn \in m.answer.tail

\* The transcript read after a turn was announced has it.
Tails ==
  /\ turn # Silent => turn \in committed
  /\ step = "tail" /\ turn # Silent =>
       /\ slot.status = "ok" => turn \in slot.tail
       /\ \A i \in DOMAIN down : HasTurn(down[i])
  /\ \A r \in Requests : kind[r] = "prompt" /\ answer[r].status = "ok" => answer[r].turn \in answer[r].tail

FramesInv == ClientTypeOK /\ HubTypeOK /\ Numbers /\ Tails

\* The request has not sent its prompt.
Untried(r) == answer[r] = Nil /\ (request = r => step \in {"call", "subscribe"})

\* Its prompts on their way to the hub.
Prompting(r) == {i \in DOMAIN up : up[i].op = "prompt" /\ up[i].by = r}

\* A request prompts once, and its turn is still to come while the prompt is on its way.
PromptsOnce(r) ==
  /\ Untried(r) => running # r /\ r \notin committed /\ Prompting(r) = {}
  /\ running = r => r \notin committed
  /\ Prompting(r) # {} => running # r /\ r \notin committed
  /\ \A i, j \in Prompting(r) : i = j

PromptsInv == \A r \in Requests : PromptsOnce(r)

\* An answer with the turn of the request itself: it was committed.
OwnAnswers == \A r \in Requests : answer[r].turn = r => r \in committed

\* An interrupt finds no turn at the hub but one that was left behind.
CancelInv ==
  \A i \in DOMAIN up, r \in Requests :
    up[i].op = "interrupt" /\ (running = r \/ \E k \in Prompting(r) : k < i) => LeftBehind(r)

Finished(q) == Note("turn_finished", q)
Sent(q) == [call |-> 0, event |-> Finished(q)]

Has(s, e) == \E i \in DOMAIN s : s[i] = e
Once(s, e) == \A i, j \in DOMAIN s : s[i] = e /\ s[j] = e => i = j

OnBus(q) == Has(bus, Finished(q))
OnWay(q) == Has(down, Sent(q))
Queued(q) == Has(events, Finished(q))

\* The handler of q, or its answer, has the announcement of q.
TookOwn(q) == (request = q /\ turn = q) \/ answer[q].turn = q

Waiting(q) == OnBus(q) \/ OnWay(q) \/ Queued(q)

\* The announcement is in one place, once, and was not taken.
NoteOnce(q) ==
  /\ Once(bus, Finished(q)) /\ Once(down, Sent(q)) /\ Once(events, Finished(q))
  /\ OnBus(q) => ~ OnWay(q) /\ ~ Queued(q)
  /\ OnWay(q) => ~ Queued(q)
  /\ Waiting(q) => ~ TookOwn(q)

NotesInv ==
  /\ \A q \in Who : Waiting(q) => q \in committed
  /\ \A q \in Requests : q \notin repeated => NoteOnce(q)

\* The turn a handler took, and the one it answered with, is its own or has a cause.
AnswersInv ==
  /\ \A q \in Requests : turn = q => q = request \/ q \in repeated \/ LeftBehind(q)
  /\ \A r, q \in Requests :
       kind[r] = "prompt" /\ answer[r].status = "ok" /\ answer[r].turn = q =>
         q = r \/ q \in repeated \/ LeftBehind(q)

LoopInv ==
  StagesInv /\ FramesInv /\ PromptsInv /\ OwnAnswers /\ CancelInv /\ NotesInv /\ AnswersInv

-----------------------------------------------------------------------------
(* Queues and records *)

LEMMA TailOf ==
  ASSUME NEW S, NEW s \in Seq(S), s # <<>>
  PROVE  /\ Head(s) \in S /\ Head(s) = s[1] /\ 1 \in DOMAIN s
         /\ Tail(s) \in Seq(S) /\ DOMAIN Tail(s) = 1 .. Len(s) - 1
         /\ \A i \in DOMAIN Tail(s) : i \in Nat \ {0} /\ i + 1 \in DOMAIN s /\ Tail(s)[i] = s[i + 1]
<1>1. Len(s) \in Nat /\ Len(s) >= 1 /\ DOMAIN s = 1 .. Len(s)
  BY EmptySeq, LenProperties
<1>2. Head(s) \in S /\ Head(s) = s[1]
  OBVIOUS
<1>3. Tail(s) \in Seq(S) /\ Len(Tail(s)) = Len(s) - 1
  OBVIOUS
<1>4. \A i \in 1 .. Len(s) - 1 : Tail(s)[i] = s[i + 1]
  OBVIOUS
<1>5. DOMAIN Tail(s) = 1 .. Len(s) - 1
  BY <1>3, LenProperties
<1>6. QED
  BY <1>1, <1>2, <1>3, <1>4, <1>5

LEMMA AppendOf ==
  ASSUME NEW S, NEW s \in Seq(S), NEW x \in S
  PROVE  /\ Append(s, x) \in Seq(S) /\ DOMAIN Append(s, x) = DOMAIN s \cup {Len(s) + 1}
         /\ Len(s) \in Nat /\ DOMAIN s = 1 .. Len(s)
         /\ Append(s, x)[Len(s) + 1] = x
         /\ \A i \in DOMAIN s : Append(s, x)[i] = s[i]
<1>1. Append(s, x) \in Seq(S) /\ Len(Append(s, x)) = Len(s) + 1 /\ Len(s) \in Nat
  OBVIOUS
<1>2. DOMAIN s = 1 .. Len(s) /\ DOMAIN Append(s, x) = 1 .. Len(s) + 1
  BY <1>1, LenProperties
<1>3. QED
  BY <1>1, <1>2

\* What is waiting may leave at the front and arrive at the back.
LEMMA HasTail ==
  ASSUME NEW S, NEW s \in Seq(S), s # <<>>, NEW e
  PROVE  /\ Has(Tail(s), e) => Has(s, e)
         /\ Once(s, e) => Once(Tail(s), e)
         /\ Once(s, e) /\ Head(s) = e => ~ Has(Tail(s), e)
         /\ Head(s) = e => Has(s, e)
BY TailOf DEF Has, Once

LEMMA HasAppend ==
  ASSUME NEW S, NEW s \in Seq(S), NEW x \in S, NEW e
  PROVE  /\ Has(Append(s, x), e) => Has(s, e) \/ x = e
         /\ Once(s, e) /\ (x = e => ~ Has(s, e)) => Once(Append(s, x), e)
<1>1. /\ DOMAIN Append(s, x) = DOMAIN s \cup {Len(s) + 1}
      /\ Append(s, x)[Len(s) + 1] = x
      /\ \A i \in DOMAIN s : Append(s, x)[i] = s[i]
  BY AppendOf
<1>2. QED
  BY <1>1 DEF Has, Once

LEMMA DownKinds ==
  ASSUME NEW m \in Answers \cup Relayed
  PROVE  /\ m.call # 0 => m \in Answers /\ m.call \in Nat /\ m.answer \in Slots
         /\ m.call = 0 => m \in Relayed /\ m.event \in Notes /\ m = [call |-> 0, event |-> m.event]
BY DEF Answers, Relayed

-----------------------------------------------------------------------------
(* Initial states *)

LEMMA LoopInitInv == LoopInit => LoopInv
<1> SUFFICES ASSUME LoopInit PROVE LoopInv
  OBVIOUS
<1>1. Silent \notin Requests /\ Silent \notin Foreign
  BY ClientLoopAssumption
<1>2. StagesInv
  <2>1. Nil \in Outcomes /\ Nil.status = "none"
    BY DEF Nil, Outcomes, Statuses
  <2>2. AdapterTypeOK
    <3>1. answer \in [Requests -> Outcomes]
      BY <2>1 DEF LoopInit
    <3>2. inbox = <<>> /\ inbox \in Seq(Requests)
      BY DEF LoopInit
    <3>3. step \in Steps /\ kind \in [Requests -> Kinds]
      BY DEF LoopInit, Steps
    <3>4. QED
      BY <3>1, <3>2, <3>3 DEF LoopInit, AdapterTypeOK
  <2>3. Places
    BY <2>1 DEF LoopInit, Places
  <2>4. Handlers
    BY DEF LoopInit, Handlers
  <2>5. QED
    BY <2>2, <2>3, <2>4 DEF StagesInv
<1>3. FramesInv
  <2>1. ClientTypeOK /\ HubTypeOK
    BY DEF LoopInit, ClientTypeOK, HubTypeOK, Empty, Slots, Statuses
  <2>2. QED
    BY <2>1 DEF LoopInit, FramesInv, Numbers, Tails, Nil
<1>4. PromptsInv /\ CancelInv
  BY <1>1 DEF LoopInit, PromptsInv, PromptsOnce, Prompting, CancelInv
<1>5. OwnAnswers /\ AnswersInv
  BY <1>1 DEF LoopInit, OwnAnswers, AnswersInv, Nil
<1>6. NotesInv
  BY DEF LoopInit, NotesInv, NoteOnce, Waiting, OnBus, OnWay, Queued, Has, Once
<1>7. QED
  BY <1>2, <1>3, <1>4, <1>5, <1>6 DEF LoopInv

-----------------------------------------------------------------------------
(* Requests *)

LEMMA StepCases ==
  ASSUME [LoopNext]_loop
  PROVE  \/ Dispatch \/ FirstCall \/ Subscribed \/ Prompted \/ SkipEvent \/ TakeTurn
         \/ Finish \/ GiveUpCall \/ GiveUpTurn
         \/ ReadAnswer \/ ReadEvent \/ Lose \/ Serve \/ TurnEnds \/ TurnFails \/ Forward
         \/ \E r \in Requests : Write(r)
         \/ \E q \in Foreign : ForeignPrompt(q)
         \/ UNCHANGED loop
BY DEF LoopNext, Reader, Adapter, Environment

\* What the reader and the hub do leaves the requests alone.
LEMMA OthersKeepAdapter ==
  ASSUME \/ ReadAnswer \/ ReadEvent \/ Lose \/ Serve \/ TurnEnds \/ TurnFails \/ Forward
         \/ \E q \in Foreign : ForeignPrompt(q)
         \/ UNCHANGED loop
  PROVE  UNCHANGED <<kind, inbox, ready, request, step, turn, answer>>
BY DEF ReadAnswer, ReadEvent, Lose, Serve, TurnEnds, TurnFails, Forward, ForeignPrompt, HubOnly,
       adapter, loop

LEMMA ReplyStages ==
  ASSUME StagesInv, NEW r \in Requests, NEW a \in Outcomes, a.status # "none",
         a.status = "error" => a = Error, Reply(r, a),
         inbox' \in Seq(Requests), ready' \in BOOLEAN,
         \A i \in DOMAIN inbox' : answer[inbox'[i]] = Nil /\ inbox'[i] # r,
         \A i, j \in DOMAIN inbox' : inbox'[i] = inbox'[j] => i = j
  PROVE  StagesInv'
<1>1. Silent \notin Requests /\ Silent \notin Who
  BY ClientLoopAssumption DEF Who
<1>2. /\ answer' = [answer EXCEPT ![r] = a]
      /\ request' = Silent /\ step' = "read" /\ turn' = Silent /\ kind' = kind
  BY DEF Reply
<1>3. AdapterTypeOK /\ Places
  BY DEF StagesInv
<1>4. answer' \in [Requests -> Outcomes]
  BY <1>2, <1>3 DEF AdapterTypeOK, Outcomes
<1>5. AdapterTypeOK'
  BY <1>2, <1>3, <1>4 DEF AdapterTypeOK, Outcomes, Steps
<1>6. \A i \in DOMAIN inbox' : inbox'[i] \in Requests
  OBVIOUS
<1>7. \A i \in DOMAIN inbox' : answer'[inbox'[i]] = Nil /\ inbox'[i] # request'
  BY <1>1, <1>2, <1>3, <1>6 DEF AdapterTypeOK
<1>8. \A q \in Requests : /\ answer'[q].status = "none" => answer'[q] = Nil
                          /\ answer'[q].status = "error" => answer'[q] = Error
  BY <1>2, <1>3 DEF AdapterTypeOK, Places
<1>9. Places'
  BY <1>2, <1>7, <1>8 DEF Places
<1>10. Handlers'
  BY <1>2 DEF Handlers
<1>11. QED
  BY <1>5, <1>9, <1>10 DEF StagesInv

LEMMA StagesStep ==
  ASSUME StagesInv, slot \in Slots, events \in Seq(Notes), [LoopNext]_loop
  PROVE  StagesInv'
<1>0. /\ AdapterTypeOK /\ Places /\ Handlers
      /\ Silent \notin Requests /\ Silent \notin Who
  BY ClientLoopAssumption DEF StagesInv, Who
<1>1. Error \in Outcomes /\ Error.status = "error"
  BY DEF Error, Nil, Outcomes, Statuses
<1>2. ASSUME Dispatch PROVE StagesInv'
  <2>1. PICK r \in Requests : r = Head(inbox) /\ r = inbox[1]
    BY <1>0, <1>2, TailOf DEF Dispatch, AdapterTypeOK
  <2>2. /\ inbox' = Tail(inbox) /\ inbox' \in Seq(Requests) /\ 1 \in DOMAIN inbox
        /\ \A i \in DOMAIN inbox' : i \in Nat \ {0} /\ i + 1 \in DOMAIN inbox /\ inbox'[i] = inbox[i + 1]
    BY <1>0, <1>2, TailOf DEF Dispatch, AdapterTypeOK
  <2>3. /\ \A i \in DOMAIN inbox' : answer[inbox'[i]] = Nil /\ inbox'[i] # r
        /\ \A i, j \in DOMAIN inbox' : inbox'[i] = inbox'[j] => i = j
        /\ answer[r] = Nil
    BY <1>0, <2>1, <2>2 DEF Places
  <2>4. ASSUME kind[r] = "initialize", ready' = TRUE, Reply(r, [Nil EXCEPT !.status = "ok"])
        PROVE  StagesInv'
    <3>1. PICK a : a = [Nil EXCEPT !.status = "ok"]
      OBVIOUS
    <3>2. a \in Outcomes /\ a.status = "ok"
      BY <3>1 DEF Nil, Outcomes, Statuses
    <3>3. Reply(r, a)
      BY <2>4, <3>1
    <3>4. QED
      BY <2>2, <2>3, <2>4, <3>2, <3>3, ReplyStages
  <2>5. ASSUME ready' = ready, Reply(r, Error) PROVE StagesInv'
    BY <1>0, <1>1, <2>2, <2>3, <2>5, ReplyStages DEF AdapterTypeOK
  <2>6. ASSUME kind[r] # "initialize", request' = r, step' = "call",
               UNCHANGED <<kind, ready, turn, answer>>
        PROVE  StagesInv'
    <3>1. kind[r] \in {"prompt", "cancel", "tail"}
      BY <1>0, <2>6, ClientLoopAssumption DEF AdapterTypeOK
    <3>2. AdapterTypeOK'
      BY <1>0, <2>2, <2>6 DEF AdapterTypeOK, Steps
    <3>3. Places'
      BY <1>0, <2>2, <2>3, <2>6 DEF Places
    <3>4. turn = Silent
      BY <1>0, <1>2 DEF Dispatch, Reading, Handlers
    <3>5. Handlers'
      BY <2>6, <3>1, <3>4 DEF Handlers
    <3>6. QED
      BY <3>2, <3>3, <3>5 DEF StagesInv
  <2>7. QED
    BY <1>2, <2>1, <2>4, <2>5, <2>6 DEF Dispatch
<1>3. ASSUME FirstCall PROVE StagesInv'
  <2>1. kind[request] \in {"prompt", "cancel", "tail"} /\ request # Silent /\ turn = Silent
    BY <1>0, <1>3 DEF FirstCall, Handlers, Places
  <2>2. /\ step' = IF kind[request] = "prompt" THEN "subscribe"
                   ELSE IF kind[request] = "cancel" THEN "interrupt" ELSE "tail"
        /\ UNCHANGED <<kind, inbox, ready, request, turn, answer>>
    BY <1>3, <2>1 DEF FirstCall, FirstOp
  <2>3. AdapterTypeOK'
    BY <1>0, <2>2 DEF AdapterTypeOK, Steps
  <2>4. Places'
    BY <1>0, <2>1, <2>2 DEF Places
  <2>5. Handlers'
    BY <2>1, <2>2 DEF Handlers
  <2>6. QED
    BY <2>3, <2>4, <2>5 DEF StagesInv
<1>4. ASSUME Subscribed \/ Prompted PROVE StagesInv'
  <2>1. /\ step \in {"subscribe", "prompt"} /\ step' \in {"prompt", "turn"}
        /\ UNCHANGED <<kind, inbox, ready, request, turn, answer>>
    BY <1>4 DEF Subscribed, Prompted
  <2>2. QED
    BY <1>0, <2>1 DEF StagesInv, AdapterTypeOK, Places, Handlers, Steps
<1>5. ASSUME SkipEvent PROVE StagesInv'
  BY <1>0, <1>5 DEF SkipEvent, adapter, StagesInv, AdapterTypeOK, Places, Handlers
<1>6. ASSUME TakeTurn PROVE StagesInv'
  <2>1. Head(events) \in Notes
    BY <1>6, TailOf DEF TakeTurn
  <2>2. /\ step = "turn" /\ step' = "tail" /\ turn' \in Who
        /\ UNCHANGED <<kind, inbox, ready, request, answer>>
    BY <1>6, <2>1 DEF TakeTurn, Notes
  <2>3. QED
    BY <1>0, <2>2 DEF StagesInv, AdapterTypeOK, Places, Handlers, Steps
<1>7. ASSUME NEW a \in Outcomes, a.status # "none", a.status = "error" => a = Error,
             step # "read", Reply(request, a), UNCHANGED <<inbox, ready>>
      PROVE  StagesInv'
  <2>1. request \in Requests
    BY <1>0, <1>7 DEF AdapterTypeOK, Places
  <2>2. /\ \A i \in DOMAIN inbox' : answer[inbox'[i]] = Nil /\ inbox'[i] # request
        /\ \A i, j \in DOMAIN inbox' : inbox'[i] = inbox'[j] => i = j
        /\ inbox' \in Seq(Requests) /\ ready' \in BOOLEAN
    BY <1>0, <1>7 DEF Places, AdapterTypeOK
  <2>3. QED
    BY <1>7, <2>1, <2>2, ReplyStages
<1>8. ASSUME Finish PROVE StagesInv'
  <2>1. PICK a : a = [status |-> "ok", turn |-> turn, tail |-> slot.tail]
    OBVIOUS
  <2>2. a \in Outcomes /\ a.status = "ok"
    BY <1>0, <2>1 DEF Outcomes, Statuses, Slots, AdapterTypeOK
  <2>3. step # "read" /\ Reply(request, a) /\ UNCHANGED <<inbox, ready>>
    BY <1>8, <2>1 DEF Finish
  <2>4. QED
    BY <1>7, <2>2, <2>3
<1>9. ASSUME GiveUpCall \/ GiveUpTurn PROVE StagesInv'
  <2>1. step # "read" /\ Reply(request, Error) /\ UNCHANGED <<inbox, ready>>
    BY <1>9 DEF GiveUpCall, GiveUpTurn, InCall
  <2>2. QED
    BY <1>1, <1>7, <2>1
<1>10. ASSUME NEW r \in Requests, Write(r) PROVE StagesInv'
  <2>1. /\ answer[r] = Nil /\ request # r /\ inbox' = Append(inbox, r)
        /\ \A i \in DOMAIN inbox : inbox[i] # r
        /\ UNCHANGED <<kind, ready, request, step, turn, answer>>
    BY <1>0, <1>10 DEF Write, AdapterTypeOK
  <2>2. /\ inbox' \in Seq(Requests) /\ DOMAIN inbox' = DOMAIN inbox \cup {Len(inbox) + 1}
        /\ inbox'[Len(inbox) + 1] = r
        /\ \A i \in DOMAIN inbox : inbox'[i] = inbox[i]
    BY <1>0, <2>1, AppendOf DEF AdapterTypeOK
  <2>3. AdapterTypeOK' /\ Handlers'
    BY <1>0, <2>1, <2>2 DEF AdapterTypeOK, Handlers
  <2>4. Places'
    BY <1>0, <2>1, <2>2 DEF Places
  <2>5. QED
    BY <2>3, <2>4 DEF StagesInv
<1>11. ASSUME UNCHANGED <<kind, inbox, ready, request, step, turn, answer>> PROVE StagesInv'
  BY <1>0, <1>11 DEF StagesInv, AdapterTypeOK, Places, Handlers
<1>12. QED
  BY <1>2, <1>3, <1>4, <1>5, <1>6, <1>8, <1>9, <1>10, <1>11, StepCases, OthersKeepAdapter

\* Where the adapter is with its requests before and after a step: it answers one,
\* takes one, or goes on with the one it has.
Answering(r, a) ==
  /\ answer[r] = Nil /\ a.status # "none" /\ answer' = [answer EXCEPT ![r] = a]
  /\ request' = Silent /\ turn' = Silent
  /\ \/ request = Silent /\ a.turn = Silent /\ (a.status = "error" \/ kind[r] = "initialize")
     \/ request = r /\ a = Error
     \/ request = r /\ Finish /\ a = [status |-> "ok", turn |-> turn, tail |-> slot.tail]

Taking == answer' = answer /\ request = Silent /\ step' = "call" /\ turn' = turn

GoingOn ==
  /\ answer' = answer /\ request' = request
  /\ step' \in {"call", "subscribe"} => step \in {"call", "subscribe"}
  /\ turn' = turn \/ TakeTurn

LEMMA AdapterMoves ==
  ASSUME StagesInv, slot \in Slots, [LoopNext]_loop
  PROVE  \/ \E r \in Requests, a \in Outcomes : Answering(r, a)
         \/ Taking
         \/ GoingOn
<1>0. /\ AdapterTypeOK /\ Places /\ Handlers
      /\ Silent \notin Requests /\ Silent \notin Who
  BY ClientLoopAssumption DEF StagesInv, Who
<1> DEFINE Moves == (\E r \in Requests, a \in Outcomes : Answering(r, a)) \/ Taking \/ GoingOn
<1>1. Error \in Outcomes /\ Error.status = "error" /\ Error.turn = Silent
  BY DEF Error, Nil, Outcomes, Statuses
<1>2. ASSUME Dispatch PROVE Moves
  <2>1. PICK r \in Requests : r = Head(inbox) /\ r = inbox[1] /\ 1 \in DOMAIN inbox
    BY <1>0, <1>2, TailOf DEF Dispatch, AdapterTypeOK
  <2>2. answer[r] = Nil /\ request = Silent
    BY <1>0, <1>2, <2>1 DEF Dispatch, Reading, Places
  <2>3. PICK a : a = [Nil EXCEPT !.status = "ok"]
    OBVIOUS
  <2>4. a \in Outcomes /\ a.status = "ok" /\ a.turn = Silent
    BY <2>3 DEF Nil, Outcomes, Statuses
  <2>5. ASSUME kind[r] = "initialize", Reply(r, a) PROVE Answering(r, a)
    BY <2>2, <2>4, <2>5 DEF Answering, Reply
  <2>6. ASSUME Reply(r, Error) PROVE Answering(r, Error)
    BY <1>1, <2>2, <2>6 DEF Answering, Reply
  <2>7. ASSUME request' = r, step' = "call", UNCHANGED <<turn, answer>> PROVE Taking
    BY <2>2, <2>7 DEF Taking
  <2>8. \/ kind[r] = "initialize" /\ Reply(r, a)
        \/ Reply(r, Error)
        \/ request' = r /\ step' = "call" /\ UNCHANGED <<turn, answer>>
    BY <1>2, <2>1, <2>3 DEF Dispatch
  <2>9. QED
    BY <1>1, <2>4, <2>5, <2>6, <2>7, <2>8
<1>3. ASSUME Finish PROVE Moves
  <2>1. PICK a : a = [status |-> "ok", turn |-> turn, tail |-> slot.tail]
    OBVIOUS
  <2>2. a \in Outcomes /\ a.status = "ok"
    BY <1>0, <2>1 DEF Outcomes, Statuses, Slots, AdapterTypeOK
  <2>3. request \in Requests /\ answer[request] = Nil
    BY <1>0, <1>3 DEF Finish, Places, AdapterTypeOK
  <2>4. Reply(request, a)
    BY <1>3, <2>1 DEF Finish
  <2>5. Answering(request, a)
    BY <1>3, <2>1, <2>2, <2>3, <2>4 DEF Answering, Reply
  <2>6. QED
    BY <2>2, <2>3, <2>5
<1>4. ASSUME GiveUpCall \/ GiveUpTurn PROVE Moves
  <2>1. request \in Requests /\ answer[request] = Nil
    BY <1>0, <1>4 DEF GiveUpCall, GiveUpTurn, InCall, Places, AdapterTypeOK
  <2>2. Reply(request, Error)
    BY <1>4 DEF GiveUpCall, GiveUpTurn
  <2>3. Answering(request, Error)
    BY <1>1, <2>1, <2>2 DEF Answering, Reply
  <2>4. QED
    BY <1>1, <2>1, <2>3
<1>5. ASSUME FirstCall \/ Subscribed \/ Prompted \/ SkipEvent \/ TakeTurn PROVE Moves
  <2>1. ASSUME FirstCall PROVE GoingOn
    BY <2>1 DEF FirstCall, GoingOn
  <2>2. ASSUME Subscribed \/ Prompted PROVE GoingOn
    BY <2>2 DEF Subscribed, Prompted, GoingOn
  <2>3. ASSUME SkipEvent PROVE GoingOn
    BY <2>3 DEF SkipEvent, adapter, GoingOn
  <2>4. ASSUME TakeTurn PROVE GoingOn
    BY <2>4 DEF TakeTurn, GoingOn
  <2>5. QED
    BY <1>5, <2>1, <2>2, <2>3, <2>4
<1>6. ASSUME NEW r \in Requests, Write(r) PROVE Moves
  BY <1>6 DEF Write, GoingOn
<1>7. ASSUME UNCHANGED <<kind, inbox, ready, request, step, turn, answer>> PROVE Moves
  BY <1>7 DEF GoingOn
<1>8. QED
  BY <1>2, <1>3, <1>4, <1>5, <1>6, <1>7, StepCases, OthersKeepAdapter

\* An answer is final, whoever left something behind did so for good, and a request
\* that is untried was so before.
LEMMA AnswersKept ==
  ASSUME StagesInv, slot \in Slots, [LoopNext]_loop, NEW r \in Requests
  PROVE  /\ answer[r] # Nil => answer'[r] = answer[r]
         /\ LeftBehind(r) => LeftBehind(r)'
         /\ Untried(r)' => Untried(r)
<1>0. AdapterTypeOK /\ Places /\ Silent \notin Requests
  BY ClientLoopAssumption DEF StagesInv
<1>1. /\ answer[r] # Nil => answer'[r] = answer[r]
      /\ answer'[r] = Nil => answer[r] = Nil
  <2>1. ASSUME NEW q \in Requests, NEW a \in Outcomes, Answering(q, a) 
        PROVE  /\ answer[r] # Nil => answer'[r] = answer[r]
               /\ answer'[r] = Nil => answer[r] = Nil
    BY <1>0, <2>1 DEF Answering, AdapterTypeOK
  <2>2. QED
    BY <2>1, AdapterMoves DEF Taking, GoingOn
<1>2. LeftBehind(r) => LeftBehind(r)'
  <2>1. LeftBehind(r) => answer[r] # Nil
    BY DEF LeftBehind, Error, Nil
  <2>2. QED
    BY <1>1, <2>1 DEF LeftBehind
<1>3. ASSUME Untried(r)' PROVE Untried(r)
  <2>1. answer[r] = Nil /\ answer'[r] = Nil /\ (request' = r => step' \in {"call", "subscribe"})
    BY <1>1, <1>3 DEF Untried
  <2>2. ASSUME request = r PROVE step \in {"call", "subscribe"}
    <3>1. ASSUME NEW q \in Requests, NEW a \in Outcomes, Answering(q, a) PROVE FALSE
      <4>1. q = r /\ a # Nil
        BY <1>0, <2>2, <3>1 DEF Answering, Nil
      <4>2. QED
        BY <1>0, <2>1, <3>1, <4>1 DEF Answering, AdapterTypeOK
    <3>2. GoingOn
      BY <1>0, <2>2, <3>1, AdapterMoves DEF Taking
    <3>3. QED
      BY <2>1, <2>2, <3>2 DEF GoingOn
  <2>3. QED
    BY <2>1, <2>2 DEF Untried
<1>4. QED
  BY <1>1, <1>2, <1>3

-----------------------------------------------------------------------------
(* Frames and answers *)

Ops == {"subscribe", "prompt", "tail", "interrupt"}

\* A call: its frame goes to the hub unless the connection has ended.
Sending(op) ==
  /\ request \in Requests /\ request' = request /\ answer' = answer
  /\ step' = op
  /\ op \in {"subscribe", "interrupt"} => step = "call"
  /\ op = "prompt" => step = "subscribe"
  /\ calls' = calls + 1 /\ slot' = Empty
  /\ \/ up' = up
     \/ up' = Append(up, [call |-> calls + 1, op |-> op, by |-> request])
  /\ down' = down
  /\ UNCHANGED hubSide

LEMMA Senders ==
  ASSUME StagesInv, FirstCall \/ Subscribed \/ TakeTurn
  PROVE  \E op \in Ops : Sending(op)
<1>0. /\ AdapterTypeOK /\ Places /\ Handlers
  BY DEF StagesInv
<1>1. ASSUME FirstCall PROVE \E op \in Ops : Sending(op)
  <2>1. kind[request] \in {"prompt", "cancel", "tail"} /\ request \in Requests
    BY <1>0, <1>1 DEF FirstCall, Handlers, Places, AdapterTypeOK
  <2>2. PICK op : op = FirstOp[kind[request]]
    OBVIOUS
  <2>3. op \in {"subscribe", "interrupt", "tail"}
    BY <2>1, <2>2 DEF FirstOp
  <2>4. step = "call" /\ step' = op /\ Call(op) /\ UNCHANGED <<request, answer, hubSide>>
    BY <1>1, <2>2 DEF FirstCall
  <2>5. Sending(op)
    BY <2>1, <2>3, <2>4 DEF Sending, Call, Frame
  <2>6. QED
    BY <2>3, <2>5 DEF Ops
<1>2. ASSUME Subscribed PROVE \E op \in Ops : Sending(op)
  <2>1. request \in Requests
    BY <1>0, <1>2 DEF Subscribed, Places, AdapterTypeOK
  <2>2. Sending("prompt")
    BY <1>2, <2>1 DEF Subscribed, Sending, Call, Frame
  <2>3. QED
    BY <2>2 DEF Ops
<1>3. ASSUME TakeTurn PROVE \E op \in Ops : Sending(op)
  <2>1. request \in Requests
    BY <1>0, <1>3 DEF TakeTurn, Places, AdapterTypeOK
  <2>2. Sending("tail")
    BY <1>3, <2>1 DEF TakeTurn, Sending, Call, Frame
  <2>3. QED
    BY <2>2 DEF Ops
<1>4. QED
  BY <1>1, <1>2, <1>3

\* The steps of the adapter that call nobody.
LEMMA QuietAdapter ==
  ASSUME \/ Dispatch \/ Prompted \/ SkipEvent \/ Finish \/ GiveUpCall \/ GiveUpTurn
         \/ \E r \in Requests : Write(r)
  PROVE  /\ UNCHANGED <<calls, up, down, hubSide>>
         /\ slot' \in {slot, Empty}
         /\ events' = events \/ SkipEvent
         /\ step' = step \/ step' \in {"read", "call", "turn"}
<1>1. ASSUME Dispatch
      PROVE  /\ UNCHANGED <<client, up, down, hubSide>>
             /\ step' = step \/ step' \in {"read", "call", "turn"}
  BY <1>1 DEF Dispatch, Reply
<1>2. QED
  BY <1>1 DEF Prompted, SkipEvent, Finish, GiveUpCall, GiveUpTurn, Write, Reply, client, adapter

LEMMA AnsweredMeans ==
  ASSUME down \in Seq(Answers \cup Relayed), committed \subseteq Who,
         NEW f \in Frames, NEW status \in {"ok", "error"}
  PROVE  \/ Answered(f, status) = down
         \/ \E m \in Answers :
              /\ Answered(f, status) = Append(down, m)
              /\ m.call = f.call /\ m.answer.status = status
              /\ f.op = "tail" => m.answer.tail = committed
<1>1. PICK m : m = [call |-> f.call,
                    answer |-> [status |-> status, tail |-> IF f.op = "tail" THEN committed ELSE {}]]
  OBVIOUS
<1>2. m \in Answers /\ m.call = f.call /\ m.answer.status = status
  BY <1>1 DEF Answers, Frames, Slots, Statuses
<1>3. f.op = "tail" => m.answer.tail = committed
  BY <1>1
<1>4. Answered(f, status) = IF alive THEN Append(down, m) ELSE down
  BY <1>1 DEF Answered
<1>5. QED
  BY <1>2, <1>3, <1>4

\* What the announcement of a turn may be.
LEMMA AnnouncedMeans ==
  ASSUME NEW q \in Who, NEW s \in Announced(q)
  PROVE  /\ s \in Seq(Notes)
         /\ \A i \in DOMAIN s : s[i] \in {Finished(q), Note("tool", q)}
         /\ \/ Once(s, Finished(q))
            \/ Cardinality({i \in 1..Len(s) : s[i].channel = "turn_finished"}) = 2
<1>1. PICK f, n : f = Finished(q) /\ n = Note("tool", q)
  OBVIOUS
<1>2. f \in Notes /\ n \in Notes /\ f # n /\ f.channel = "turn_finished"
  BY <1>1 DEF Finished, Note, Notes
<1>3. s = <<f>> \/ s = <<n, f>> \/ s = <<>> \/ s = <<f, f>>
  BY <1>1 DEF Announced, Finished
<1>4. ASSUME s = <<f, f>> PROVE Cardinality({i \in 1..Len(s) : s[i].channel = "turn_finished"}) = 2
  <2>1. {i \in 1..Len(s) : s[i].channel = "turn_finished"} = 1 .. 2
    BY <1>2, <1>4
  <2>2. Cardinality(1 .. 2) = 2
    <3>1. 1 \in Int /\ 2 \in Int
      OBVIOUS
    <3>2. Cardinality(1 .. 2) = IF 1 > 2 THEN 0 ELSE 2 - 1 + 1
      BY <3>1, FS_Interval
    <3>3. QED
      BY <3>2
  <2>3. QED
    BY <2>1, <2>2
<1>5. s \in Seq(Notes) /\ \A i \in DOMAIN s : s[i] \in {f, n}
  <2>1. CASE s = <<>>
    BY <2>1
  <2>2. CASE s = <<f>>
    BY <1>2, <2>2
  <2>3. CASE s = <<n, f>>
    BY <1>2, <2>3
  <2>4. CASE s = <<f, f>>
    BY <1>2, <2>4
  <2>5. QED
    BY <1>3, <2>1, <2>2, <2>3, <2>4
<1>6. s # <<f, f>> => Once(s, f)
  BY <1>2, <1>3 DEF Once
<1>7. QED
  BY <1>1, <1>4, <1>5, <1>6

LEMMA ClientTypeStep ==
  ASSUME StagesInv, ClientTypeOK, HubTypeOK, [LoopNext]_loop
  PROVE  ClientTypeOK'
<1>0. Empty \in Slots /\ [Empty EXCEPT !.status = "error"] \in Slots
  BY DEF Empty, Slots, Statuses
<1>1. ASSUME NEW op \in Ops, Sending(op), events' \in Seq(Notes) PROVE ClientTypeOK'
  <2>1. PICK f : f = [call |-> calls + 1, op |-> op, by |-> request]
    OBVIOUS
  <2>2. f \in Frames /\ calls' \in Nat
    BY <1>1, <2>1 DEF Sending, Frames, Ops, ClientTypeOK
  <2>3. up' = up \/ up' = Append(up, f)
    BY <1>1, <2>1 DEF Sending
  <2>4. up' \in Seq(Frames)
    <3>1. up \in Seq(Frames)
      BY DEF ClientTypeOK
    <3>2. Append(up, f) \in Seq(Frames)
      BY <2>2, <3>1, AppendOf
    <3>3. QED
      BY <2>3, <3>1, <3>2
  <2>5. QED
    BY <1>0, <1>1, <2>2, <2>4 DEF Sending, ClientTypeOK
<1>2. ASSUME FirstCall \/ Subscribed \/ TakeTurn PROVE ClientTypeOK'
  <2>1. events' \in Seq(Notes)
    <3>1. events' = events \/ (events # <<>> /\ events' = Tail(events))
      BY <1>2 DEF FirstCall, Subscribed, TakeTurn
    <3>2. events \in Seq(Notes)
      BY DEF ClientTypeOK
    <3>3. events # <<>> => Tail(events) \in Seq(Notes)
      BY <3>2, TailOf
    <3>4. QED
      BY <3>1, <3>2, <3>3
  <2>2. QED
    BY <1>1, <1>2, <2>1, Senders
<1>3. ASSUME \/ Dispatch \/ Prompted \/ SkipEvent \/ Finish \/ GiveUpCall \/ GiveUpTurn
             \/ \E r \in Requests : Write(r)
      PROVE  ClientTypeOK'
  <2>1. events' \in Seq(Notes)
    <3>1. events' = events \/ (events # <<>> /\ events' = Tail(events))
      BY <1>3, QuietAdapter DEF SkipEvent
    <3>2. events \in Seq(Notes)
      BY DEF ClientTypeOK
    <3>3. events # <<>> => Tail(events) \in Seq(Notes)
      BY <3>2, TailOf
    <3>4. QED
      BY <3>1, <3>2, <3>3
  <2>2. QED
    BY <1>0, <1>3, <2>1, QuietAdapter DEF ClientTypeOK
<1>4. ASSUME ReadAnswer PROVE ClientTypeOK'
  <2>1. Head(down) \in Answers /\ Head(down).answer \in Slots /\ down' \in Seq(Answers \cup Relayed)
    BY <1>4, TailOf, DownKinds DEF ReadAnswer, ClientTypeOK
  <2>2. QED
    BY <1>4, <2>1 DEF ReadAnswer, ClientTypeOK
<1>5. ASSUME ReadEvent PROVE ClientTypeOK'
  <2>1. Head(down).event \in Notes /\ down' \in Seq(Answers \cup Relayed)
    BY <1>5, TailOf, DownKinds DEF ReadEvent, ClientTypeOK
  <2>2. events' \in Seq(Notes)
    BY <1>5, <2>1, AppendOf DEF ReadEvent, ClientTypeOK
  <2>3. QED
    BY <1>5, <2>1, <2>2 DEF ReadEvent, ClientTypeOK
<1>6. ASSUME Lose PROVE ClientTypeOK'
  BY <1>0, <1>6 DEF Lose, ClientTypeOK
<1>7. ASSUME NEW f \in Frames, NEW status \in {"ok", "error"}
      PROVE  Answered(f, status) \in Seq(Answers \cup Relayed)
  <2>1. down \in Seq(Answers \cup Relayed) /\ committed \subseteq Who
    BY DEF ClientTypeOK, HubTypeOK
  <2>2. ASSUME NEW m \in Answers PROVE Append(down, m) \in Seq(Answers \cup Relayed)
    <3>1. m \in Answers \cup Relayed
      OBVIOUS
    <3>2. QED
      BY <2>1, <3>1, AppendOf
  <2>3. QED
    BY <2>1, <2>2, AnsweredMeans
<1>8. ASSUME Serve PROVE ClientTypeOK'
  <2>1. PICK f \in Frames : f = Head(up)
    BY <1>8, TailOf DEF Serve, ClientTypeOK
  <2>2. up' \in Seq(Frames) /\ down' \in {down, Answered(f, "ok"), Answered(f, "error")}
    BY <1>8, <2>1, TailOf DEF Serve, ClientTypeOK
  <2>3. QED
    BY <1>7, <1>8, <2>2 DEF Serve, HubOnly, client, ClientTypeOK
<1>9. ASSUME TurnEnds \/ TurnFails PROVE ClientTypeOK'
  <2>1. \/ down' = down
        \/ serving # Silent /\ down' \in {Answered(serving, "ok"), Answered(serving, "error")}
    BY <1>9 DEF TurnEnds, TurnFails
  <2>2. down' \in Seq(Answers \cup Relayed)
    BY <1>7, <2>1 DEF ClientTypeOK, HubTypeOK
  <2>3. QED
    BY <1>9, <2>2 DEF TurnEnds, TurnFails, HubOnly, client, ClientTypeOK
<1>10. ASSUME Forward PROVE ClientTypeOK'
  <2>1. PICK m : m = [call |-> 0, event |-> Head(bus)]
    OBVIOUS
  <2>2. m \in Answers \cup Relayed
    BY <1>10, <2>1, TailOf DEF Forward, HubTypeOK, Relayed
  <2>3. down' \in Seq(Answers \cup Relayed)
    BY <1>10, <2>1, <2>2, AppendOf DEF Forward, ClientTypeOK
  <2>4. QED
    BY <1>10, <2>3 DEF Forward, HubOnly, client, ClientTypeOK
<1>11. ASSUME NEW q \in Foreign, ForeignPrompt(q) PROVE ClientTypeOK'
  BY <1>11 DEF ForeignPrompt, HubOnly, client, ClientTypeOK
<1>12. ASSUME UNCHANGED loop PROVE ClientTypeOK'
  BY <1>12 DEF loop, ClientTypeOK
<1>13. QED
  BY <1>2, <1>3, <1>4, <1>5, <1>6, <1>8, <1>9, <1>10, <1>11, <1>12, StepCases

\* The adapter and the reader leave the hub alone.
LEMMA HubKept ==
  ASSUME StagesInv,
         \/ Dispatch \/ FirstCall \/ Subscribed \/ Prompted \/ SkipEvent \/ TakeTurn
         \/ Finish \/ GiveUpCall \/ GiveUpTurn \/ ReadAnswer \/ ReadEvent \/ Lose
         \/ \E r \in Requests : Write(r)
         \/ UNCHANGED loop
  PROVE  UNCHANGED hubSide
<1>1. ASSUME FirstCall \/ Subscribed \/ TakeTurn PROVE UNCHANGED hubSide
  BY <1>1 DEF FirstCall, Subscribed, TakeTurn
<1>2. ASSUME \/ Dispatch \/ Prompted \/ SkipEvent \/ Finish \/ GiveUpCall \/ GiveUpTurn
             \/ \E r \in Requests : Write(r)
      PROVE  UNCHANGED hubSide
  BY <1>2, QuietAdapter
<1>3. ASSUME ReadAnswer \/ ReadEvent \/ Lose \/ UNCHANGED loop PROVE UNCHANGED hubSide
  BY <1>3 DEF ReadAnswer, ReadEvent, Lose, loop, hubSide
<1>4. QED
  BY <1>1, <1>2, <1>3

LEMMA HubTypeStep ==
  ASSUME StagesInv, ClientTypeOK, HubTypeOK, [LoopNext]_loop
  PROVE  HubTypeOK'
<1>1. ASSUME UNCHANGED hubSide PROVE HubTypeOK'
  BY <1>1 DEF hubSide, HubTypeOK
<1>2. ASSUME Serve PROVE HubTypeOK'
  <2>1. PICK f \in Frames : f = Head(up)
    BY <1>2, TailOf DEF Serve, ClientTypeOK
  <2>2. f.by \in Who
    BY <2>1 DEF Frames, Who
  <2>3. QED
    BY <1>2, <2>1, <2>2 DEF Serve, HubTypeOK
<1>3. ASSUME TurnEnds PROVE HubTypeOK'
  <2>1. running \in Who
    BY <1>3 DEF TurnEnds, HubTypeOK
  <2>2. PICK s \in Announced(running) : /\ bus' = IF subscribed THEN bus \o s ELSE bus
                                        /\ repeated' \in {repeated, repeated \cup {running}}
    BY <1>3 DEF TurnEnds
  <2>3. s \in Seq(Notes)
    BY <2>1, AnnouncedMeans
  <2>4. bus \o s \in Seq(Notes)
    BY <2>3 DEF HubTypeOK
  <2>5. QED
    BY <1>3, <2>1, <2>2, <2>4 DEF TurnEnds, HubTypeOK
<1>4. ASSUME TurnFails PROVE HubTypeOK'
  BY <1>4 DEF TurnFails, HubTypeOK
<1>5. ASSUME Forward PROVE HubTypeOK'
  BY <1>5, TailOf DEF Forward, HubTypeOK
<1>6. ASSUME NEW q \in Foreign, ForeignPrompt(q) PROVE HubTypeOK'
  BY <1>6 DEF ForeignPrompt, HubTypeOK, Who
<1>7. QED
  BY <1>1, <1>2, <1>3, <1>4, <1>5, <1>6, StepCases, HubKept

\* The frame the hub takes, and the answer it may give at once.
LEMMA Served ==
  ASSUME ClientTypeOK, HubTypeOK, Serve
  PROVE  \E f \in Frames :
           /\ f = up[1] /\ 1 \in DOMAIN up /\ up' = Tail(up)
           /\ DOMAIN up' = 1 .. Len(up) - 1
           /\ \A i \in DOMAIN up' : i \in Nat \ {0} /\ i + 1 \in DOMAIN up /\ up'[i] = up[i + 1]
           /\ serving' = serving \/ (serving' = f /\ f.op = "prompt")
           /\ \/ running' = running
              \/ running' = Silent
              \/ f.op = "prompt" /\ running' = f.by
           /\ \/ down' = down
              \/ \E m \in Answers :
                   /\ down' = Append(down, m) /\ m.call = f.call
                   /\ f.op = "tail" => m.answer.tail = committed
           /\ UNCHANGED <<bus, committed, repeated, calls, slot, events,
                          kind, inbox, ready, request, step, turn, answer>>
<1>1. PICK f \in Frames :
        /\ f = up[1] /\ f = Head(up) /\ 1 \in DOMAIN up /\ up' = Tail(up)
        /\ DOMAIN up' = 1 .. Len(up) - 1
        /\ \A i \in DOMAIN up' : i \in Nat \ {0} /\ i + 1 \in DOMAIN up /\ up'[i] = up[i + 1]
  <2>1. up \in Seq(Frames) /\ up # <<>> /\ up' = Tail(up)
    BY DEF Serve, ClientTypeOK
  <2>2. QED
    BY <2>1, TailOf
<1>2. /\ serving' = serving \/ (serving' = f /\ f.op = "prompt")
      /\ \/ running' = running
         \/ running' = Silent
         \/ f.op = "prompt" /\ running' = f.by
      /\ down' \in {down, Answered(f, "ok"), Answered(f, "error")}
      /\ UNCHANGED <<bus, committed, repeated>>
      /\ UNCHANGED <<calls, slot, events, kind, inbox, ready, request, step, turn, answer>>
  BY <1>1 DEF Serve, HubOnly, client, adapter
<1>3. \/ down' = down
      \/ \E m \in Answers :
           /\ down' = Append(down, m) /\ m.call = f.call
           /\ f.op = "tail" => m.answer.tail = committed
  <2>1. down \in Seq(Answers \cup Relayed) /\ committed \subseteq Who
    BY DEF ClientTypeOK, HubTypeOK
  <2>2. QED
    BY <1>2, <2>1, AnsweredMeans
<1>4. QED
  BY <1>1, <1>2, <1>3, Zenon

\* The end of a turn, and the answer that waited for it.
LEMMA Ended ==
  ASSUME ClientTypeOK, HubTypeOK, TurnEnds \/ TurnFails
  PROVE  /\ serving' = Silent /\ running' = Silent
         /\ \/ down' = down
            \/ \E m \in Answers :
                 down' = Append(down, m) /\ serving # Silent /\ m.call = serving.call
         /\ UNCHANGED <<up, calls, slot, events, kind, inbox, ready, request, step, turn, answer>>
<1>1. /\ serving' = Silent /\ running' = Silent
      /\ \/ down' = down
         \/ serving # Silent /\ down' \in {Answered(serving, "ok"), Answered(serving, "error")}
      /\ UNCHANGED <<up, calls, slot, events, kind, inbox, ready, request, step, turn, answer>>
  BY DEF TurnEnds, TurnFails, HubOnly, client, adapter
<1>2. serving # Silent => serving \in Frames
  BY DEF HubTypeOK
<1>3. ASSUME down' # down
      PROVE  \E m \in Answers : down' = Append(down, m) /\ serving # Silent /\ m.call = serving.call
  <2>1. down \in Seq(Answers \cup Relayed) /\ committed \subseteq Who
    BY DEF ClientTypeOK, HubTypeOK
  <2>2. QED
    BY <1>1, <1>2, <1>3, <2>1, AnsweredMeans
<1>4. QED
  BY <1>1, <1>3

LEMMA NumbersStep ==
  ASSUME StagesInv, FramesInv, [LoopNext]_loop
  PROVE  Numbers'
<1>0. /\ ClientTypeOK /\ HubTypeOK /\ Numbers
      /\ calls \in Nat /\ up \in Seq(Frames) /\ down \in Seq(Answers \cup Relayed)
      /\ \A i \in DOMAIN up : up[i] \in Frames
      /\ \A i \in DOMAIN down : down[i] \in Answers \cup Relayed
  BY DEF FramesInv, ClientTypeOK
<1>1. /\ \A i \in DOMAIN up : up[i].call \in Nat
      /\ \A i \in DOMAIN down : down[i].call \in Nat
      /\ serving # Silent => serving.call \in Nat
  BY <1>0 DEF Frames, Answers, Relayed, HubTypeOK
<1>2. ASSUME NEW op \in Ops, Sending(op) PROVE Numbers'
  <2>1. /\ calls' = calls + 1 /\ step' = op /\ down' = down /\ serving' = serving
        /\ \/ up' = up
           \/ up' = Append(up, [call |-> calls + 1, op |-> op, by |-> request])
    BY <1>2 DEF Sending, hubSide
  <2>2. \A i \in DOMAIN up' : /\ up'[i].call <= calls + 1
                              /\ up'[i].call = calls + 1 => up'[i].op = op
    <3>1. CASE up' = up
      BY <1>0, <1>1, <3>1 DEF Numbers
    <3>2. CASE up' = Append(up, [call |-> calls + 1, op |-> op, by |-> request])
      <4>1. PICK f : f = [call |-> calls + 1, op |-> op, by |-> request]
        OBVIOUS
      <4>2. f \in Frames /\ f.call = calls + 1 /\ f.op = op
        BY <1>0, <1>2, <4>1 DEF Frames, Ops, Sending
      <4>3. /\ DOMAIN up' = DOMAIN up \cup {Len(up) + 1}
            /\ up'[Len(up) + 1] = f
            /\ \A i \in DOMAIN up : up'[i] = up[i]
        BY <1>0, <3>2, <4>1, <4>2, AppendOf
      <4>4. QED
        BY <1>0, <1>1, <4>2, <4>3 DEF Numbers
    <3>3. QED
      BY <2>1, <3>1, <3>2
  <2>3. \A i \in DOMAIN down' : down'[i].call <= calls + 1
    BY <1>0, <1>1, <2>1 DEF Numbers
  <2>4. serving' # Silent => serving'.op = "prompt" /\ serving'.call <= calls + 1 /\ serving'.call # calls + 1
    BY <1>0, <1>1, <2>1 DEF Numbers
  <2>5. QED
    BY <2>1, <2>2, <2>3, <2>4 DEF Numbers
<1>3. ASSUME UNCHANGED <<up, down, serving, calls>>, InCall' => step' = step PROVE Numbers'
  BY <1>0, <1>3 DEF Numbers, InCall
<1>4. ASSUME \/ Dispatch \/ Prompted \/ SkipEvent \/ Finish \/ GiveUpCall \/ GiveUpTurn
             \/ \E r \in Requests : Write(r)
      PROVE  Numbers'
  <2>1. UNCHANGED <<up, down, serving, calls>> /\ (step' = step \/ step' \in {"read", "call", "turn"})
    BY <1>4, QuietAdapter DEF hubSide
  <2>2. QED
    BY <1>3, <2>1 DEF InCall
<1>5. ASSUME ReadAnswer \/ ReadEvent PROVE Numbers'
  <2>1. down # <<>> /\ down' = Tail(down) /\ UNCHANGED <<up, serving, calls, step>>
    BY <1>5 DEF ReadAnswer, ReadEvent, hubSide, adapter
  <2>2. \A i \in DOMAIN down' : i + 1 \in DOMAIN down /\ down'[i] = down[i + 1]
    BY <1>0, <2>1, TailOf
  <2>3. QED
    BY <1>0, <2>1, <2>2 DEF Numbers, InCall
<1>6. ASSUME Lose PROVE Numbers'
  BY <1>0, <1>6 DEF Lose, adapter, hubSide, Numbers, InCall
<1>7. ASSUME NEW m \in Answers \cup Relayed, m.call <= calls, down' = Append(down, m), calls' = calls
      PROVE  \A i \in DOMAIN down' : down'[i].call <= calls'
  <2>1. /\ DOMAIN down' = DOMAIN down \cup {Len(down) + 1}
        /\ down'[Len(down) + 1] = m
        /\ \A i \in DOMAIN down : down'[i] = down[i]
    BY <1>0, <1>7, AppendOf
  <2>2. QED
    BY <1>0, <1>7, <2>1 DEF Numbers
<1>8. ASSUME Serve PROVE Numbers'
  <2>1. PICK f \in Frames :
          /\ f = up[1] /\ 1 \in DOMAIN up
          /\ \A i \in DOMAIN up' : i + 1 \in DOMAIN up /\ up'[i] = up[i + 1]
          /\ serving' = serving \/ (serving' = f /\ f.op = "prompt")
          /\ \/ down' = down
             \/ \E m \in Answers : down' = Append(down, m) /\ m.call = f.call
          /\ UNCHANGED <<calls, step>>
    BY <1>0, <1>8, Served
  <2>2. f.call <= calls /\ (InCall /\ f.call = calls => f.op = step)
    BY <1>0, <2>1 DEF Numbers
  <2>3. \A i \in DOMAIN down' : down'[i].call <= calls'
    BY <1>0, <1>7, <2>1, <2>2 DEF Numbers
  <2>4. \A i \in DOMAIN up' : up'[i].call <= calls' /\ (InCall' /\ up'[i].call = calls' => up'[i].op = step')
    BY <1>0, <2>1 DEF Numbers, InCall
  <2>5. serving' # Silent =>
          /\ serving'.op = "prompt" /\ serving'.call <= calls'
          /\ InCall' /\ serving'.call = calls' => step' = "prompt"
    BY <1>0, <2>1, <2>2 DEF Numbers, InCall
  <2>6. QED
    BY <2>3, <2>4, <2>5 DEF Numbers
<1>9. ASSUME TurnEnds \/ TurnFails PROVE Numbers'
  <2>1. /\ serving' = Silent /\ UNCHANGED <<up, calls, step>>
        /\ \/ down' = down
           \/ \E m \in Answers :
                down' = Append(down, m) /\ serving # Silent /\ m.call = serving.call
    BY <1>0, <1>9, Ended
  <2>2. \A i \in DOMAIN down' : down'[i].call <= calls'
    BY <1>0, <1>7, <2>1 DEF Numbers
  <2>3. QED
    BY <1>0, <2>1, <2>2 DEF Numbers, InCall
<1>10. ASSUME Forward PROVE Numbers'
  <2>1. PICK m : m = [call |-> 0, event |-> Head(bus)]
    OBVIOUS
  <2>2. m \in Answers \cup Relayed /\ m.call <= calls
    BY <1>0, <1>10, <2>1, TailOf DEF Forward, HubTypeOK, Relayed
  <2>3. down' = Append(down, m) /\ UNCHANGED <<up, calls, step, serving>>
    BY <1>10, <2>1 DEF Forward, HubOnly, client, adapter
  <2>4. \A i \in DOMAIN down' : down'[i].call <= calls'
    BY <1>7, <2>2, <2>3
  <2>5. QED
    BY <1>0, <2>3, <2>4 DEF Numbers, InCall
<1>11. ASSUME NEW q \in Foreign, ForeignPrompt(q) PROVE Numbers'
  BY <1>3, <1>11 DEF ForeignPrompt, HubOnly, client, adapter, InCall
<1>12. ASSUME UNCHANGED loop PROVE Numbers'
  BY <1>3, <1>12 DEF loop, InCall
<1>13. QED
  BY <1>2, <1>4, <1>5, <1>6, <1>8, <1>9, <1>10, <1>11, <1>12, StepCases, Senders

LEMMA Grows ==
  ASSUME StagesInv, ClientTypeOK, HubTypeOK, [LoopNext]_loop
  PROVE  committed \subseteq committed' /\ repeated \subseteq repeated' /\ kind' = kind
<1>1. ASSUME UNCHANGED hubSide PROVE committed \subseteq committed' /\ repeated \subseteq repeated'
  BY <1>1 DEF hubSide
<1>2. ASSUME \/ Serve \/ TurnEnds \/ TurnFails \/ Forward
             \/ \E q \in Foreign : ForeignPrompt(q)
      PROVE  committed \subseteq committed' /\ repeated \subseteq repeated'
  BY <1>2 DEF Serve, TurnEnds, TurnFails, Forward, ForeignPrompt
<1>3. committed \subseteq committed' /\ repeated \subseteq repeated'
  BY <1>1, <1>2, StepCases, HubKept
<1>4. ASSUME \/ Dispatch \/ FirstCall \/ Subscribed \/ Prompted \/ SkipEvent \/ TakeTurn
             \/ Finish \/ GiveUpCall \/ GiveUpTurn
             \/ \E r \in Requests : Write(r)
      PROVE  kind' = kind
  BY <1>4 DEF Dispatch, FirstCall, Subscribed, Prompted, SkipEvent, TakeTurn, Finish, GiveUpCall,
              GiveUpTurn, Write, Reply
<1>5. kind' = kind
  BY <1>4, StepCases, OthersKeepAdapter
<1>6. QED
  BY <1>3, <1>5

LEMMA TailsStep ==
  ASSUME StagesInv, FramesInv, [LoopNext]_loop,
         \A q \in Who : Queued(q) => q \in committed
  PROVE  Tails'
<1>0. /\ AdapterTypeOK /\ Places /\ Handlers /\ ClientTypeOK /\ HubTypeOK /\ Numbers /\ Tails
      /\ calls \in Nat /\ slot \in Slots /\ down \in Seq(Answers \cup Relayed)
      /\ \A i \in DOMAIN down : down[i] \in Answers \cup Relayed
      /\ Silent \notin Requests /\ Silent \notin Who
  BY ClientLoopAssumption DEF FramesInv, StagesInv, ClientTypeOK, Who
<1>1. committed \subseteq committed' /\ kind' = kind
  BY <1>0, Grows
\* The turn was announced before it was taken.
<1>2. ASSUME TakeTurn PROVE turn' \in committed
  <2>1. /\ events \in Seq(Notes) /\ events # <<>>
        /\ Head(events).channel = "turn_finished" /\ turn' = Head(events).of
    BY <1>0, <1>2 DEF TakeTurn, ClientTypeOK
  <2>2. PICK e \in Notes : e = Head(events) /\ e = events[1] /\ 1 \in DOMAIN events
    BY <2>1, TailOf
  <2>3. e.of \in Who /\ e = Finished(e.of)
    BY <2>1, <2>2 DEF Notes, Finished, Note
  <2>4. Queued(e.of)
    BY <2>2, <2>3 DEF Queued, Has
  <2>5. QED
    BY <2>1, <2>2, <2>3, <2>4
<1>3. turn' # Silent => turn' \in committed'
  <2>1. turn' = Silent \/ turn' = turn \/ TakeTurn
    BY <1>0, AdapterMoves DEF Answering, Taking, GoingOn
  <2>2. QED
    BY <1>0, <1>1, <1>2, <2>1 DEF Tails
\* The answers given.
<1>4. ASSUME NEW r \in Requests, kind'[r] = "prompt", answer'[r].status = "ok"
      PROVE  answer'[r].turn \in answer'[r].tail
  <2>1. ASSUME answer'[r] = answer[r] PROVE answer'[r].turn \in answer'[r].tail
    BY <1>0, <1>1, <1>4, <2>1 DEF Tails
  <2>2. ASSUME NEW q \in Requests, NEW a \in Outcomes, Answering(q, a)
        PROVE  answer'[r].turn \in answer'[r].tail
    <3>1. CASE q # r
      BY <1>0, <2>1, <2>2, <3>1 DEF Answering, AdapterTypeOK
    <3>2. CASE q = r
      <4>1. answer'[r] = a
        BY <1>0, <2>2, <3>2 DEF Answering, AdapterTypeOK
      <4>2. a.status = "ok" /\ kind[r] = "prompt"
        BY <1>1, <1>4, <4>1
      <4>3. a # Error
        BY <4>2 DEF Error, Nil
      <4>4. request = r /\ Finish /\ a = [status |-> "ok", turn |-> turn, tail |-> slot.tail]
        BY <2>2, <3>2, <4>2, <4>3 DEF Answering
      <4>5. step = "tail" /\ slot.status = "ok" /\ turn # Silent
        BY <1>0, <4>2, <4>4 DEF Finish, Handlers
      <4>6. turn \in slot.tail
        BY <1>0, <4>5 DEF Tails
      <4>7. QED
        BY <4>1, <4>4, <4>6
    <3>3. QED
      BY <3>1, <3>2
  <2>3. QED
    BY <1>0, <2>1, <2>2, AdapterMoves DEF Taking, GoingOn
\* The answer awaited.
<1> DEFINE Reads == step' = "tail" /\ turn' # Silent =>
                      /\ slot'.status = "ok" => turn' \in slot'.tail
                      /\ \A i \in DOMAIN down' : HasTurn(down[i])'
<1>5. ASSUME NEW op \in Ops, Sending(op) PROVE Reads
  <2>1. slot'.status # "ok" /\ calls' = calls + 1 /\ down' = down
    BY <1>5 DEF Sending, Empty
  <2>2. \A i \in DOMAIN down : down[i].call <= calls /\ down[i].call \in Nat
    BY <1>0 DEF Numbers, Answers, Relayed
  <2>3. \A i \in DOMAIN down' : down'[i].call # calls'
    BY <1>0, <2>1, <2>2
  <2>4. QED
    BY <2>1, <2>3 DEF HasTurn
<1>6. ASSUME \/ Dispatch \/ Prompted \/ SkipEvent \/ Finish \/ GiveUpCall \/ GiveUpTurn
             \/ \E r \in Requests : Write(r)
      PROVE  Reads
  <2>1. /\ UNCHANGED <<calls, down>> /\ slot' \in {slot, Empty}
        /\ step' = step \/ step' \in {"read", "call", "turn"}
    BY <1>6, QuietAdapter
  <2>2. turn' # Silent => turn' = turn
    BY <1>6 DEF Dispatch, Prompted, SkipEvent, Finish, GiveUpCall, GiveUpTurn, Write, Reply, adapter
  <2>3. Empty.status # "ok"
    BY DEF Empty
  <2>4. QED
    BY <1>0, <2>1, <2>2, <2>3 DEF Tails, HasTurn
<1>7. ASSUME UNCHANGED <<step, turn, calls>>, slot' = slot \/ slot'.status # "ok",
             \A i \in DOMAIN down' : \/ \E j \in DOMAIN down : down'[i] = down[j]
                                     \/ step = "tail" /\ turn # Silent => HasTurn(down[i])'
      PROVE  Reads
  BY <1>0, <1>7 DEF Tails, HasTurn
<1>8. ASSUME ReadAnswer PROVE Reads
  <2>1. PICK m : m = Head(down) /\ m = down[1] /\ 1 \in DOMAIN down
    BY <1>0, <1>8, TailOf DEF ReadAnswer
  <2>2. /\ slot' = IF InCall /\ m.call = calls THEN m.answer ELSE slot
        /\ down' = Tail(down) /\ m.call # 0 /\ down # <<>>
        /\ UNCHANGED <<step, turn, calls>>
    BY <1>8, <2>1 DEF ReadAnswer, adapter
  <2>3. \A i \in DOMAIN down' : i + 1 \in DOMAIN down /\ down'[i] = down[i + 1]
    BY <1>0, <2>2, TailOf
  <2>4. step = "tail" /\ turn # Silent => HasTurn(m)
    BY <1>0, <2>1 DEF Tails
  <2>5. QED
    BY <1>0, <2>2, <2>3, <2>4 DEF Tails, HasTurn
<1>9. ASSUME ReadEvent PROVE Reads
  <2>1. down # <<>> /\ down' = Tail(down) /\ UNCHANGED <<step, turn, calls, slot>>
    BY <1>9 DEF ReadEvent, adapter
  <2>2. \A i \in DOMAIN down' : i + 1 \in DOMAIN down /\ down'[i] = down[i + 1]
    BY <1>0, <2>1, TailOf
  <2>3. QED
    BY <1>7, <2>1, <2>2
<1>10. ASSUME Lose PROVE Reads
  <2>1. /\ slot' = slot \/ slot' = [Empty EXCEPT !.status = "error"]
        /\ DOMAIN down' = {} /\ UNCHANGED <<step, turn, calls>>
    BY <1>10 DEF Lose, adapter
  <2>2. [Empty EXCEPT !.status = "error"].status # "ok"
    BY DEF Empty
  <2>3. /\ slot' = slot \/ slot'.status # "ok"
        /\ \A i \in DOMAIN down' : \E j \in DOMAIN down : down'[i] = down[j]
    BY <2>1, <2>2
  <2>4. QED
    BY <1>7, <2>1, <2>3
<1>11. ASSUME NEW m \in Answers \cup Relayed, down' = Append(down, m),
              step = "tail" /\ turn # Silent => HasTurn(m), UNCHANGED <<step, turn, calls, slot>>
       PROVE  Reads
  <2>1. /\ DOMAIN down' = DOMAIN down \cup {Len(down) + 1}
        /\ down'[Len(down) + 1] = m
        /\ \A i \in DOMAIN down : down'[i] = down[i]
    BY <1>0, <1>11, AppendOf
  <2>2. \A i \in DOMAIN down' : step = "tail" /\ turn # Silent => HasTurn(down'[i])
    BY <1>0, <1>11, <2>1 DEF Tails
  <2>3. QED
    BY <1>0, <1>11, <2>2 DEF Tails, HasTurn
<1>12. ASSUME Serve PROVE Reads
  <2>1. PICK f \in Frames :
          /\ f = up[1] /\ 1 \in DOMAIN up
          /\ \/ down' = down
             \/ \E m \in Answers :
                  /\ down' = Append(down, m) /\ m.call = f.call
                  /\ f.op = "tail" => m.answer.tail = committed
          /\ UNCHANGED <<calls, slot, step, turn>>
    BY <1>0, <1>12, Served
  <2>2. InCall /\ f.call = calls => f.op = step
    BY <1>0, <2>1 DEF Numbers
  <2>3. ASSUME NEW m \in Answers, m.call = f.call, f.op = "tail" => m.answer.tail = committed,
               step = "tail", turn # Silent
        PROVE  HasTurn(m)
    BY <1>0, <2>2, <2>3 DEF Tails, HasTurn, InCall
  <2>4. ASSUME down' = down PROVE Reads
    BY <1>7, <2>1, <2>4
  <2>5. ASSUME NEW m \in Answers, down' = Append(down, m), m.call = f.call,
               f.op = "tail" => m.answer.tail = committed
        PROVE  Reads
    <3>1. m \in Answers \cup Relayed
      OBVIOUS
    <3>2. step = "tail" /\ turn # Silent => HasTurn(m)
      BY <2>3, <2>5
    <3>3. QED
      BY <1>11, <2>1, <2>5, <3>1, <3>2
  <2>6. QED
    BY <2>1, <2>4, <2>5
<1>13. ASSUME TurnEnds \/ TurnFails PROVE Reads
  <2>1. /\ \/ down' = down
           \/ \E m \in Answers :
                down' = Append(down, m) /\ serving # Silent /\ m.call = serving.call
        /\ UNCHANGED <<calls, slot, step, turn>>
    BY <1>0, <1>13, Ended
  <2>2. ASSUME NEW m \in Answers, serving # Silent, m.call = serving.call, step = "tail"
        PROVE  HasTurn(m)
    BY <1>0, <2>2 DEF Numbers, HasTurn, InCall
  <2>3. ASSUME down' = down PROVE Reads
    BY <1>7, <2>1, <2>3
  <2>4. ASSUME NEW m \in Answers, down' = Append(down, m), serving # Silent, m.call = serving.call
        PROVE  Reads
    <3>1. m \in Answers \cup Relayed
      OBVIOUS
    <3>2. step = "tail" /\ turn # Silent => HasTurn(m)
      BY <2>2, <2>4
    <3>3. QED
      BY <1>11, <2>1, <2>4, <3>1, <3>2
  <2>5. QED
    BY <2>1, <2>3, <2>4
<1>14. ASSUME Forward PROVE Reads
  <2>1. PICK m : m = [call |-> 0, event |-> Head(bus)]
    OBVIOUS
  <2>2. m \in Answers \cup Relayed /\ m.call = 0
    BY <1>0, <1>14, <2>1, TailOf DEF Forward, HubTypeOK, Relayed
  <2>3. down' = Append(down, m) /\ UNCHANGED <<step, turn, calls, slot>>
    BY <1>14, <2>1 DEF Forward, HubOnly, client, adapter
  <2>4. HasTurn(m)
    BY <2>2 DEF HasTurn
  <2>5. QED
    BY <1>11, <2>2, <2>3, <2>4
<1>15. ASSUME NEW q \in Foreign, ForeignPrompt(q) PROVE Reads
  <2>1. UNCHANGED <<step, turn, calls, slot, down>>
    BY <1>15 DEF ForeignPrompt, HubOnly, client, adapter
  <2>2. QED
    BY <1>7, <2>1
<1>16. ASSUME UNCHANGED loop PROVE Reads
  <2>1. UNCHANGED <<step, turn, calls, slot, down>>
    BY <1>16 DEF loop
  <2>2. QED
    BY <1>7, <2>1
<1> HIDE DEF Reads
<1>17. Reads
  BY <1>5, <1>6, <1>8, <1>9, <1>10, <1>12, <1>13, <1>14, <1>15, <1>16, StepCases, Senders
<1>18. QED
  BY <1>3, <1>4, <1>17 DEF Tails, Reads

-----------------------------------------------------------------------------
(* Prompts and interrupts *)

\* What a step does to the turn and to the frames, but for the hub taking one.
LEMMA RunMoves ==
  ASSUME StagesInv, [LoopNext]_loop
  PROVE  \/ Serve
         \/ \E op \in Ops : Sending(op)
         \/ /\ up' = up \/ up' = <<>>
            /\ running' \in {running, Silent} \cup Foreign
            /\ \/ committed' = committed
               \/ running' = Silent /\ committed' = committed \cup {running}
<1> DEFINE Goal == /\ up' = up \/ up' = <<>>
                   /\ running' \in {running, Silent} \cup Foreign
                   /\ \/ committed' = committed
                      \/ running' = Silent /\ committed' = committed \cup {running}
<1>1. ASSUME \/ Dispatch \/ Prompted \/ SkipEvent \/ Finish \/ GiveUpCall \/ GiveUpTurn
             \/ \E r \in Requests : Write(r)
      PROVE  Goal
  BY <1>1, QuietAdapter DEF hubSide
<1>2. ASSUME ReadAnswer \/ ReadEvent \/ Lose \/ UNCHANGED loop PROVE Goal
  BY <1>2 DEF ReadAnswer, ReadEvent, Lose, loop, hubSide
<1>3. ASSUME TurnEnds \/ TurnFails \/ Forward \/ \E q \in Foreign : ForeignPrompt(q) PROVE Goal
  BY <1>3 DEF TurnEnds, TurnFails, Forward, ForeignPrompt
<1>4. QED
  BY <1>1, <1>2, <1>3, StepCases, Senders

\* What a step does to the prompts and interrupts on their way.
LEMMA FramesMove ==
  ASSUME up \in Seq(Frames), calls \in Nat, NEW r \in Requests
  PROVE  /\ up' = up => Prompting(r)' = Prompting(r)
         /\ up' = <<>> => Prompting(r)' = {}
         /\ \A op \in Ops : Sending(op) =>
              /\ \A i \in DOMAIN up : i \in DOMAIN up' /\ up'[i] = up[i]
              /\ \A i \in DOMAIN up' : i \notin DOMAIN up => up'[i].op = op /\ up'[i].by = request
              /\ \A i, j \in DOMAIN up' : i \notin DOMAIN up /\ j \notin DOMAIN up => i = j
              /\ ~ (op = "prompt" /\ request = r) => Prompting(r)' = Prompting(r)
<1>1. up' = up => Prompting(r)' = Prompting(r)
  BY DEF Prompting
<1>2. up' = <<>> => Prompting(r)' = {}
  BY DEF Prompting
<1>3. ASSUME NEW op \in Ops, Sending(op)
      PROVE  /\ \A i \in DOMAIN up : i \in DOMAIN up' /\ up'[i] = up[i]
             /\ \A i \in DOMAIN up' : i \notin DOMAIN up => up'[i].op = op /\ up'[i].by = request
             /\ \A i, j \in DOMAIN up' : i \notin DOMAIN up /\ j \notin DOMAIN up => i = j
  <2>1. PICK f : f = [call |-> calls + 1, op |-> op, by |-> request]
    OBVIOUS
  <2>2. f \in Frames /\ f.op = op /\ f.by = request /\ (up' = up \/ up' = Append(up, f))
    BY <1>3, <2>1 DEF Sending, Frames, Ops
  <2>3. CASE up' = up
    BY <2>3
  <2>4. CASE up' = Append(up, f)
    <3>1. /\ DOMAIN up' = DOMAIN up \cup {Len(up) + 1}
          /\ up'[Len(up) + 1] = f
          /\ \A i \in DOMAIN up : up'[i] = up[i]
      BY <2>2, <2>4, AppendOf
    <3>2. QED
      BY <2>2, <3>1
  <2>5. QED
    BY <2>2, <2>3, <2>4
<1>4. ASSUME NEW op \in Ops, Sending(op), ~ (op = "prompt" /\ request = r)
      PROVE  Prompting(r)' = Prompting(r)
  <2>1. /\ \A i \in DOMAIN up : i \in DOMAIN up' /\ up'[i] = up[i]
        /\ \A i \in DOMAIN up' : i \notin DOMAIN up => up'[i].op = op /\ up'[i].by = request
    BY <1>3, <1>4
  <2>2. QED
    BY <1>4, <2>1 DEF Prompting
<1>5. QED
  BY <1>1, <1>2, <1>3, <1>4

LEMMA ServeMoves ==
  ASSUME ClientTypeOK, HubTypeOK, Serve, NEW r \in Requests
  PROVE  /\ \A i \in DOMAIN up' : i + 1 \in DOMAIN up /\ up'[i] = up[i + 1] /\ i \in Nat \ {0}
         /\ \A i \in Prompting(r)' : i + 1 \in Prompting(r)
         /\ running' = r => running = r \/ 1 \in Prompting(r)
         /\ committed' = committed
<1>1. PICK f \in Frames :
        /\ f = up[1] /\ 1 \in DOMAIN up
        /\ \A i \in DOMAIN up' : i \in Nat \ {0} /\ i + 1 \in DOMAIN up /\ up'[i] = up[i + 1]
        /\ \/ running' = running
           \/ running' = Silent
           \/ f.op = "prompt" /\ running' = f.by
        /\ committed' = committed
  BY Served
<1>2. Silent # r
  BY ClientLoopAssumption
<1>3. running' = r => running = r \/ 1 \in Prompting(r)
  BY <1>1, <1>2 DEF Prompting
<1>4. \A i \in Prompting(r)' : i + 1 \in Prompting(r)
  BY <1>1 DEF Prompting
<1>5. QED
  BY <1>1, <1>3, <1>4

LEMMA PromptsStep ==
  ASSUME StagesInv, FramesInv, PromptsInv, [LoopNext]_loop
  PROVE  PromptsInv'
<1> SUFFICES ASSUME NEW r \in Requests PROVE PromptsOnce(r)'
  BY DEF PromptsInv
<1>0. /\ AdapterTypeOK /\ Places /\ ClientTypeOK /\ HubTypeOK /\ slot \in Slots
      /\ up \in Seq(Frames) /\ calls \in Nat /\ r # Silent /\ r \notin Foreign
  BY ClientLoopAssumption DEF StagesInv, FramesInv, ClientTypeOK
<1>1. (Untried(r)' => Untried(r)) /\ PromptsOnce(r)
  BY <1>0, AnswersKept DEF PromptsInv
<1>2. ASSUME \/ up' = up \/ up' = <<>>,
             running' \in {running, Silent} \cup Foreign,
             \/ committed' = committed
             \/ running' = Silent /\ committed' = committed \cup {running}
      PROVE  PromptsOnce(r)'
  <2>1. Prompting(r)' = Prompting(r) \/ Prompting(r)' = {}
    BY <1>0, <1>2, FramesMove
  <2>2. running' = r => running = r /\ committed' = committed
    BY <1>0, <1>2
  <2>3. running # r /\ r \notin committed => running' # r /\ r \notin committed'
    BY <1>0, <1>2
  <2>4. QED
    BY <1>1, <2>1, <2>2, <2>3 DEF PromptsOnce
<1>3. ASSUME NEW op \in Ops, Sending(op) PROVE PromptsOnce(r)'
  <2>1. running' = running /\ committed' = committed
    BY <1>3 DEF Sending, hubSide
  <2>2. CASE op = "prompt" /\ request = r
    <3>1. Untried(r) /\ ~ Untried(r)'
      BY <1>0, <1>3, <2>2 DEF Sending, Untried, Places
    <3>2. running # r /\ r \notin committed /\ Prompting(r) = {}
      BY <1>1, <3>1 DEF PromptsOnce
    <3>3. \A i, j \in Prompting(r)' : i = j
      <4>1. /\ \A i \in DOMAIN up : i \in DOMAIN up' /\ up'[i] = up[i]
            /\ \A i, j \in DOMAIN up' : i \notin DOMAIN up /\ j \notin DOMAIN up => i = j
        BY <1>0, <1>3, FramesMove
      <4>2. \A i \in Prompting(r)' : i \in DOMAIN up' /\ i \notin DOMAIN up
        BY <3>2, <4>1 DEF Prompting
      <4>3. QED
        BY <4>1, <4>2
    <3>4. QED
      BY <2>1, <3>1, <3>2, <3>3 DEF PromptsOnce
  <2>3. CASE ~ (op = "prompt" /\ request = r)
    <3>1. Prompting(r)' = Prompting(r)
      BY <1>0, <1>3, <2>3, FramesMove
    <3>2. QED
      BY <1>1, <2>1, <3>1 DEF PromptsOnce
  <2>4. QED
    BY <2>2, <2>3
<1>4. ASSUME Serve PROVE PromptsOnce(r)'
  <2>1. /\ \A i \in Prompting(r)' : i + 1 \in Prompting(r) /\ i \in Nat \ {0}
        /\ running' = r => running = r \/ 1 \in Prompting(r)
        /\ committed' = committed
    <3>1. \A i \in Prompting(r)' : i \in DOMAIN up'
      BY DEF Prompting
    <3>2. QED
      BY <1>0, <1>4, <3>1, ServeMoves
  <2>2. \A i, j \in Prompting(r)' : i = j
    <3>1. ASSUME NEW i \in Prompting(r)', NEW j \in Prompting(r)' PROVE i = j
      <4>1. i + 1 = j + 1 /\ i \in Nat /\ j \in Nat
        BY <1>1, <2>1 DEF PromptsOnce
      <4>2. QED
        BY <4>1
    <3>2. QED
      BY <3>1
  <2>3. Prompting(r)' # {} => running' # r /\ r \notin committed'
    <3>1. ASSUME NEW i \in Prompting(r)' PROVE running' # r /\ r \notin committed'
      <4>1. i + 1 \in Prompting(r) /\ i + 1 # 1
        BY <2>1
      <4>2. running # r /\ r \notin committed /\ 1 \notin Prompting(r)
        BY <1>1, <4>1 DEF PromptsOnce
      <4>3. QED
        BY <2>1, <4>2
    <3>2. QED
      BY <3>1
  <2>4. Untried(r)' => running' # r /\ r \notin committed' /\ Prompting(r)' = {}
    BY <1>1, <2>1 DEF PromptsOnce
  <2>5. running' = r => r \notin committed'
    BY <1>1, <2>1 DEF PromptsOnce
  <2>6. QED
    BY <2>2, <2>3, <2>4, <2>5 DEF PromptsOnce
<1>5. QED
  BY <1>2, <1>3, <1>4, RunMoves

LEMMA OwnAnswersStep ==
  ASSUME StagesInv, FramesInv, OwnAnswers, [LoopNext]_loop
  PROVE  OwnAnswers'
<1>0. /\ AdapterTypeOK /\ Tails /\ slot \in Slots /\ Silent \notin Requests
      /\ committed \subseteq committed'
  BY Grows, ClientLoopAssumption DEF StagesInv, FramesInv, ClientTypeOK
<1>1. ASSUME NEW r \in Requests, answer'[r].turn = r PROVE r \in committed'
  <2>1. ASSUME answer'[r] = answer[r] PROVE r \in committed'
    BY <1>0, <1>1, <2>1 DEF OwnAnswers
  <2>2. ASSUME NEW q \in Requests, NEW a \in Outcomes, Answering(q, a) PROVE r \in committed'
    <3>1. CASE q # r
      BY <1>0, <2>1, <2>2, <3>1 DEF Answering, AdapterTypeOK
    <3>2. CASE q = r
      <4>1. answer'[r] = a /\ a.turn = r
        BY <1>0, <1>1, <2>2, <3>2 DEF Answering, AdapterTypeOK
      <4>2. a.turn = Silent \/ a.turn = turn
        BY <2>2 DEF Answering, Error, Nil
      <4>3. QED
        BY <1>0, <4>1, <4>2 DEF Tails
    <3>3. QED
      BY <3>1, <3>2
  <2>3. QED
    BY <1>0, <2>1, <2>2, AdapterMoves DEF Taking, GoingOn
<1>2. QED
  BY <1>1 DEF OwnAnswers

\* Before a handler makes its first call every prompt there is was answered, and if it
\* has not ended yet, not with its own turn.
LEMMA Behind ==
  ASSUME StagesInv, OwnAnswers, step = "call", NEW r \in Requests, ~ Untried(r), r \notin committed
  PROVE  LeftBehind(r)
<1>1. answer[r] # Nil /\ answer[r].status \in Statuses
  BY DEF Untried, StagesInv, AdapterTypeOK, Outcomes
<1>2. answer[r].turn # r
  BY DEF OwnAnswers
<1>3. answer[r].status = "ok" \/ answer[r] = Error
  BY <1>1 DEF StagesInv, Places, Statuses
<1>4. QED
  BY <1>2, <1>3 DEF LeftBehind

LEMMA CancelStep ==
  ASSUME StagesInv, FramesInv, PromptsInv, OwnAnswers, CancelInv, [LoopNext]_loop
  PROVE  CancelInv'
<1> SUFFICES ASSUME NEW i \in DOMAIN up', NEW r \in Requests, up'[i].op = "interrupt",
                    running' = r \/ \E k \in Prompting(r)' : k < i
             PROVE  LeftBehind(r)'
  BY DEF CancelInv
<1>0. /\ AdapterTypeOK /\ ClientTypeOK /\ HubTypeOK /\ slot \in Slots
      /\ up \in Seq(Frames) /\ calls \in Nat /\ r # Silent /\ r \notin Foreign
  BY ClientLoopAssumption DEF StagesInv, FramesInv, ClientTypeOK
<1>1. (LeftBehind(r) => LeftBehind(r)') /\ PromptsOnce(r)
  BY <1>0, AnswersKept DEF PromptsInv
<1>2. ASSUME \/ up' = up \/ up' = <<>>,
             running' \in {running, Silent} \cup Foreign
      PROVE  LeftBehind(r)'
  <2>1. up' = up /\ Prompting(r)' = Prompting(r)
    BY <1>0, <1>2, FramesMove
  <2>2. running' = r => running = r
    BY <1>0, <1>2
  <2>3. LeftBehind(r)
    BY <2>1, <2>2 DEF CancelInv
  <2>4. QED
    BY <1>1, <2>3
<1>3. ASSUME NEW op \in Ops, Sending(op) PROVE LeftBehind(r)'
  <2>1. running' = running
    BY <1>3 DEF Sending, hubSide
  <2>2. /\ \A j \in DOMAIN up : j \in DOMAIN up' /\ up'[j] = up[j]
        /\ \A j \in DOMAIN up' : j \notin DOMAIN up => up'[j].op = op /\ up'[j].by = request
        /\ ~ (op = "prompt" /\ request = r) => Prompting(r)' = Prompting(r)
    BY <1>0, <1>3, FramesMove
  <2>3. CASE i \in DOMAIN up
    <3>1. up[i].op = "interrupt"
      BY <2>2, <2>3
    <3>2. ASSUME NEW k \in Prompting(r)', k < i PROVE k \in Prompting(r)
      <4>1. DOMAIN up = 1 .. Len(up) /\ DOMAIN up' \subseteq Nat \ {0}
        <5>1. up \in Seq(Frames) /\ up' \in Seq(Frames)
          BY <1>0, ClientTypeStep DEF ClientTypeOK
        <5>2. QED
          BY <5>1, LenProperties
      <4>2. k \in DOMAIN up' /\ k \in Nat \ {0}
        BY <4>1 DEF Prompting
      <4>3. k \in DOMAIN up
        BY <1>0, <2>3, <3>2, <4>1, <4>2, LenProperties
      <4>4. QED
        BY <2>2, <4>3 DEF Prompting
    <3>3. LeftBehind(r)
      BY <2>1, <2>3, <3>1, <3>2 DEF CancelInv
    <3>4. QED
      BY <1>1, <3>3
  <2>4. CASE i \notin DOMAIN up
    <3>1. op = "interrupt" /\ step = "call"
      BY <1>3, <2>2, <2>4 DEF Sending
    <3>2. Prompting(r)' = Prompting(r)
      BY <2>2, <3>1
    <3>3. ~ Untried(r) /\ r \notin committed
      BY <1>1, <2>1, <3>2 DEF PromptsOnce
    <3>4. LeftBehind(r)
      BY <3>1, <3>3, Behind
    <3>5. QED
      BY <1>1, <3>4
  <2>5. QED
    BY <2>3, <2>4
<1>4. ASSUME Serve PROVE LeftBehind(r)'
  <2>1. /\ i + 1 \in DOMAIN up /\ up'[i] = up[i + 1] /\ i \in Nat \ {0}
        /\ \A k \in Prompting(r)' : k + 1 \in Prompting(r)
        /\ running' = r => running = r \/ 1 \in Prompting(r)
    BY <1>0, <1>4, ServeMoves
  <2>2. running = r \/ \E k \in Prompting(r) : k < i + 1
    <3>1. CASE running' = r
      <4>1. 1 < i + 1
        BY <2>1
      <4>2. QED
        BY <2>1, <3>1, <4>1
    <3>2. ASSUME NEW k \in Prompting(r)', k < i PROVE \E j \in Prompting(r) : j < i + 1
      <4>1. k \in DOMAIN up' /\ k \in Nat
        BY <1>0, <1>4, ServeMoves DEF Prompting
      <4>2. k + 1 \in Prompting(r) /\ k + 1 < i + 1
        BY <2>1, <3>2, <4>1
      <4>3. QED
        BY <4>2
    <3>3. QED
      BY <3>1, <3>2
  <2>3. LeftBehind(r)
    BY <2>1, <2>2 DEF CancelInv
  <2>4. QED
    BY <1>1, <2>3
<1>5. QED
  BY <1>2, <1>3, <1>4, RunMoves

-----------------------------------------------------------------------------
(* Announcements *)

LEMMA HasConcat ==
  ASSUME NEW S, NEW s \in Seq(S), NEW u \in Seq(S), NEW e
  PROVE  /\ Has(s \o u, e) => Has(s, e) \/ Has(u, e)
         /\ Once(s, e) /\ Once(u, e) /\ ~ (Has(s, e) /\ Has(u, e)) => Once(s \o u, e)
<1>1. PICK m \in Nat, n \in Nat : m = Len(s) /\ n = Len(u)
  OBVIOUS
<1>2. PICK w : w = s \o u
  OBVIOUS
<1>3. /\ DOMAIN s = 1 .. m /\ DOMAIN u = 1 .. n /\ DOMAIN w = 1 .. m + n
      /\ \A i \in 1 .. m : w[i] = s[i]
      /\ \A i \in m + 1 .. m + n : w[i] = u[i - m]
  BY <1>1, <1>2, ConcatProperties, LenProperties
<1>4. ASSUME NEW i \in DOMAIN w, w[i] = e
      PROVE  \/ i \in DOMAIN s /\ s[i] = e
             \/ i - m \in DOMAIN u /\ u[i - m] = e
  <2>1. CASE i \in 1 .. m
    BY <1>3, <1>4, <2>1
  <2>2. CASE i \in m + 1 .. m + n
    <3>1. i - m \in 1 .. n /\ w[i] = u[i - m]
      BY <1>3, <2>2
    <3>2. QED
      BY <1>3, <1>4, <3>1
  <2>3. i \in 1 .. m \/ i \in m + 1 .. m + n
    BY <1>3, <1>4
  <2>4. QED
    BY <2>1, <2>2, <2>3
<1>5. Has(w, e) => Has(s, e) \/ Has(u, e)
  BY <1>4 DEF Has
<1>6. ASSUME Once(s, e), Once(u, e), ~ (Has(s, e) /\ Has(u, e)) PROVE Once(w, e)
  <2>1. ASSUME NEW i \in DOMAIN w, NEW j \in DOMAIN w, w[i] = e, w[j] = e PROVE i = j
    <3>1. i \in Nat /\ j \in Nat
      BY <1>3
    <3>2. \/ i \in DOMAIN s /\ s[i] = e
          \/ i - m \in DOMAIN u /\ u[i - m] = e
      BY <1>4, <2>1
    <3>3. \/ j \in DOMAIN s /\ s[j] = e
          \/ j - m \in DOMAIN u /\ u[j - m] = e
      BY <1>4, <2>1
    <3>4. CASE Has(s, e)
      <4>1. i \in DOMAIN s /\ s[i] = e /\ j \in DOMAIN s /\ s[j] = e
        BY <1>6, <3>2, <3>3, <3>4 DEF Has
      <4>2. QED
        BY <1>6, <4>1 DEF Once
    <3>5. CASE ~ Has(s, e)
      <4>1. i - m \in DOMAIN u /\ u[i - m] = e /\ j - m \in DOMAIN u /\ u[j - m] = e
        BY <3>2, <3>3, <3>5 DEF Has
      <4>2. i - m = j - m
        BY <1>6, <4>1 DEF Once
      <4>3. QED
        BY <3>1, <4>2
    <3>6. QED
      BY <3>4, <3>5
  <2>2. QED
    BY <2>1 DEF Once
<1>7. QED
  BY <1>2, <1>5, <1>6

\* Whoever has its own announcement took it just now or had it before.
LEMMA TookBefore ==
  ASSUME StagesInv, slot \in Slots, [LoopNext]_loop, NEW q \in Requests, TookOwn(q)'
  PROVE  TookOwn(q) \/ (TakeTurn /\ turn' = q)
<1>0. AdapterTypeOK /\ Places /\ Handlers /\ Silent # q
  BY ClientLoopAssumption DEF StagesInv
<1>1. ASSUME NEW r \in Requests, NEW a \in Outcomes, Answering(r, a) PROVE TookOwn(q)
  <2>1. answer'[q].turn = q
    BY <1>0, <1>1 DEF Answering, TookOwn
  <2>2. CASE q # r
    BY <1>0, <1>1, <2>1, <2>2 DEF Answering, TookOwn, AdapterTypeOK
  <2>3. CASE q = r
    <3>1. a.turn = q
      BY <1>0, <1>1, <2>1, <2>3 DEF Answering, AdapterTypeOK
    <3>2. request = q /\ turn = q
      BY <1>0, <1>1, <2>3, <3>1 DEF Answering, Error, Nil
    <3>3. QED
      BY <3>2 DEF TookOwn
  <2>4. QED
    BY <2>2, <2>3
<1>2. ASSUME Taking PROVE TookOwn(q)
  <2>1. turn = Silent /\ turn' = Silent
    BY <1>0, <1>2 DEF Taking, Places, Handlers
  <2>2. QED
    BY <1>0, <1>2, <2>1 DEF Taking, TookOwn
<1>3. ASSUME GoingOn PROVE TookOwn(q) \/ (TakeTurn /\ turn' = q)
  BY <1>3 DEF GoingOn, TookOwn
<1>4. QED
  BY <1>1, <1>2, <1>3, AdapterMoves

\* What only leaves its place, or stays there, is still in one place at most.
LEMMA NotesStay ==
  ASSUME NEW q, NoteOnce(q),
         OnBus(q)' => OnBus(q), OnWay(q)' => OnWay(q), Queued(q)' => Queued(q),
         Once(bus', Finished(q)), Once(down', Sent(q)), Once(events', Finished(q)),
         TookOwn(q)' => TookOwn(q)
  PROVE  NoteOnce(q)'
BY DEF NoteOnce, Waiting, Finished, Sent, Note

\* An answer is no announcement.
LEMMA AnswersPass ==
  ASSUME down \in Seq(Answers \cup Relayed), NEW q,
         down' = down \/ \E m \in Answers : down' = Append(down, m)
  PROVE  (OnWay(q)' => OnWay(q)) /\ (Once(down, Sent(q)) => Once(down', Sent(q)))
<1>1. CASE down' = down
  BY <1>1 DEF OnWay, Sent, Finished, Note
<1>2. ASSUME NEW m \in Answers, down' = Append(down, m)
      PROVE  (OnWay(q)' => OnWay(q)) /\ (Once(down, Sent(q)) => Once(down', Sent(q)))
  <2>1. m \in Answers \cup Relayed /\ m # Sent(q)
    BY DEF Answers, Sent
  <2>2. /\ Has(Append(down, m), Sent(q)) => Has(down, Sent(q))
        /\ Once(down, Sent(q)) => Once(Append(down, m), Sent(q))
    BY <2>1, HasAppend
  <2>3. QED
    BY <1>2, <2>2 DEF OnWay, Sent, Finished, Note
<1>3. QED
  BY <1>1, <1>2

\* The queues of announcements, one step at a time.
NotesKept(q) ==
  /\ OnBus(q)' => OnBus(q)
  /\ OnWay(q)' => OnWay(q)
  /\ Queued(q)' => Queued(q)
  /\ Once(bus, Finished(q)) => Once(bus', Finished(q))
  /\ Once(down, Sent(q)) => Once(down', Sent(q))
  /\ Once(events, Finished(q)) => Once(events', Finished(q))

LEMMA UnchangedNotes ==
  ASSUME NEW q
  PROVE  /\ bus' = bus => /\ OnBus(q)' => OnBus(q)
                          /\ Once(bus, Finished(q)) => Once(bus', Finished(q))
         /\ down' = down => /\ OnWay(q)' => OnWay(q)
                            /\ Once(down, Sent(q)) => Once(down', Sent(q))
         /\ events' = events => /\ Queued(q)' => Queued(q)
                                /\ Once(events, Finished(q)) => Once(events', Finished(q))
BY DEF OnBus, OnWay, Queued, Finished, Sent, Note

LEMMA DroppedNotes ==
  ASSUME NEW q, ClientTypeOK, HubTypeOK
  PROVE  /\ bus # <<>> /\ bus' = Tail(bus) =>
              /\ OnBus(q)' => OnBus(q)
              /\ Once(bus, Finished(q)) => Once(bus', Finished(q))
              /\ Head(bus) = Finished(q) => OnBus(q) /\ (Once(bus, Finished(q)) => ~ OnBus(q)')
         /\ down # <<>> /\ down' = Tail(down) =>
              /\ OnWay(q)' => OnWay(q)
              /\ Once(down, Sent(q)) => Once(down', Sent(q))
              /\ Head(down) = Sent(q) => OnWay(q) /\ (Once(down, Sent(q)) => ~ OnWay(q)')
         /\ events # <<>> /\ events' = Tail(events) =>
              /\ Queued(q)' => Queued(q)
              /\ Once(events, Finished(q)) => Once(events', Finished(q))
              /\ Head(events) = Finished(q) =>
                   Queued(q) /\ (Once(events, Finished(q)) => ~ Queued(q)')
<1>1. bus \in Seq(Notes) /\ down \in Seq(Answers \cup Relayed) /\ events \in Seq(Notes)
  BY DEF ClientTypeOK, HubTypeOK
<1>2. ASSUME bus # <<>>, bus' = Tail(bus)
      PROVE  /\ OnBus(q)' => OnBus(q)
             /\ Once(bus, Finished(q)) => Once(bus', Finished(q))
             /\ Head(bus) = Finished(q) => OnBus(q) /\ (Once(bus, Finished(q)) => ~ OnBus(q)')
  BY <1>1, <1>2, HasTail DEF OnBus, Finished, Note
<1>3. ASSUME down # <<>>, down' = Tail(down)
      PROVE  /\ OnWay(q)' => OnWay(q)
             /\ Once(down, Sent(q)) => Once(down', Sent(q))
             /\ Head(down) = Sent(q) => OnWay(q) /\ (Once(down, Sent(q)) => ~ OnWay(q)')
  <2>1. PICK e : e = Sent(q)
    OBVIOUS
  <2>2. /\ Has(Tail(down), e) => Has(down, e)
        /\ Once(down, e) => Once(Tail(down), e)
        /\ Once(down, e) /\ Head(down) = e => ~ Has(Tail(down), e)
        /\ Head(down) = e => Has(down, e)
    BY <1>1, <1>3, HasTail
  <2>3. OnWay(q) = Has(down, e) /\ OnWay(q)' = Has(down', e)
    BY <2>1 DEF OnWay, Sent, Finished, Note
  <2>4. QED
    BY <1>3, <2>1, <2>2, <2>3
<1>4. ASSUME events # <<>>, events' = Tail(events)
      PROVE  /\ Queued(q)' => Queued(q)
             /\ Once(events, Finished(q)) => Once(events', Finished(q))
             /\ Head(events) = Finished(q) =>
                  Queued(q) /\ (Once(events, Finished(q)) => ~ Queued(q)')
  BY <1>1, <1>4, HasTail DEF Queued, Finished, Note
<1>5. QED
  BY <1>2, <1>3, <1>4

\* The steps in which no announcement moves on.
LEMMA QuietNotes ==
  ASSUME StagesInv, ClientTypeOK, HubTypeOK, NEW q,
         \/ Dispatch \/ FirstCall \/ Subscribed \/ Prompted \/ SkipEvent
         \/ Finish \/ GiveUpCall \/ GiveUpTurn
         \/ ReadAnswer \/ Lose \/ Serve \/ TurnFails
         \/ \E r \in Requests : Write(r)
         \/ \E p \in Foreign : ForeignPrompt(p)
         \/ UNCHANGED loop
  PROVE  NotesKept(q)
<1>1. ASSUME UNCHANGED <<bus, down, events>> PROVE NotesKept(q)
  BY <1>1, UnchangedNotes DEF NotesKept
<1>2. ASSUME \/ Dispatch \/ Prompted \/ SkipEvent \/ Finish \/ GiveUpCall \/ GiveUpTurn
             \/ \E r \in Requests : Write(r)
      PROVE  NotesKept(q)
  <2>1. /\ UNCHANGED <<bus, down>>
        /\ events' = events \/ (events # <<>> /\ events' = Tail(events))
    BY <1>2, QuietAdapter DEF hubSide, SkipEvent
  <2>2. QED
    BY <2>1, UnchangedNotes, DroppedNotes DEF NotesKept
<1>3. ASSUME FirstCall \/ Subscribed PROVE NotesKept(q)
  <2>1. UNCHANGED <<bus, down, events>>
    BY <1>3 DEF FirstCall, Subscribed, Call, hubSide
  <2>2. QED
    BY <1>1, <2>1
<1>4. ASSUME ReadAnswer PROVE NotesKept(q)
  <2>1. UNCHANGED <<bus, events>> /\ down # <<>> /\ down' = Tail(down)
    BY <1>4 DEF ReadAnswer, hubSide
  <2>2. QED
    BY <2>1, UnchangedNotes, DroppedNotes DEF NotesKept
<1>5. ASSUME Lose PROVE NotesKept(q)
  <2>1. UNCHANGED <<bus, events>> /\ down' = <<>>
    BY <1>5 DEF Lose, hubSide
  <2>2. ~ OnWay(q)' /\ Once(down', Sent(q))
    BY <2>1 DEF OnWay, Has, Once
  <2>3. QED
    BY <2>1, <2>2, UnchangedNotes DEF NotesKept
<1>6. ASSUME Serve \/ TurnFails PROVE NotesKept(q)
  <2>1. /\ UNCHANGED <<bus, events>>
        /\ down' = down \/ \E m \in Answers : down' = Append(down, m)
    <3>1. CASE Serve
      BY <3>1, Served
    <3>2. CASE TurnFails
      <4>1. bus' = bus
        BY <3>2 DEF TurnFails
      <4>2. QED
        BY <3>2, <4>1, Ended
    <3>3. QED
      BY <1>6, <3>1, <3>2
  <2>2. (OnWay(q)' => OnWay(q)) /\ (Once(down, Sent(q)) => Once(down', Sent(q)))
    BY <2>1, AnswersPass DEF ClientTypeOK
  <2>3. QED
    BY <2>1, <2>2, UnchangedNotes DEF NotesKept
<1>7. ASSUME NEW p \in Foreign, ForeignPrompt(p) PROVE NotesKept(q)
  BY <1>1, <1>7 DEF ForeignPrompt, HubOnly, client
<1>8. ASSUME UNCHANGED loop PROVE NotesKept(q)
  BY <1>1, <1>8 DEF loop
<1>9. QED
  BY <1>2, <1>3, <1>4, <1>5, <1>6, <1>7, <1>8

LEMMA NoteTypes ==
  ASSUME NEW e \in Notes
  PROVE  /\ e.channel = "turn_finished" => e = Finished(e.of) /\ e.of \in Who
         /\ \A q : [call |-> 0, event |-> e] = Sent(q) <=> e = Finished(q)
         /\ \A q : e = Finished(q) => e.of = q /\ e.channel = "turn_finished"
<1>1. e.channel = "turn_finished" => e = Finished(e.of) /\ e.of \in Who
  BY DEF Notes, Finished, Note
<1>2. ASSUME NEW q PROVE [call |-> 0, event |-> e] = Sent(q) <=> e = Finished(q)
  <2>1. [call |-> 0, event |-> e].event = e /\ Sent(q).event = Finished(q)
    BY DEF Sent
  <2>2. QED
    BY <2>1 DEF Sent
<1>3. \A q : e = Finished(q) => e.of = q /\ e.channel = "turn_finished"
  BY DEF Finished, Note
<1>4. QED
  BY <1>1, <1>2, <1>3

\* An announcement read from the connection, or put on it.
LEMMA ReadMoves ==
  ASSUME ClientTypeOK, HubTypeOK, ReadEvent, NEW q
  PROVE  \/ NotesKept(q)
         \/ /\ OnBus(q)' => OnBus(q)
            /\ Once(bus, Finished(q)) => Once(bus', Finished(q))
            /\ OnWay(q) /\ (Once(down, Sent(q)) => ~ OnWay(q)' /\ Once(down', Sent(q)))
            /\ Once(events, Finished(q)) /\ ~ Queued(q) => Once(events', Finished(q))
<1>1. PICK m \in Answers \cup Relayed : m = Head(down)
  BY TailOf DEF ReadEvent, ClientTypeOK
<1>2. PICK e \in Notes : e = m.event /\ m = [call |-> 0, event |-> e]
  BY <1>1, DownKinds DEF ReadEvent
<1>3. /\ bus' = bus /\ down # <<>> /\ down' = Tail(down) /\ events' = Append(events, e)
      /\ events \in Seq(Notes)
  BY <1>1, <1>2 DEF ReadEvent, hubSide, ClientTypeOK
<1>4. m = Sent(q) <=> e = Finished(q)
  BY <1>2, NoteTypes
<1>5. /\ Has(events', Finished(q)) => Has(events, Finished(q)) \/ e = Finished(q)
      /\ Once(events, Finished(q)) /\ (e = Finished(q) => ~ Has(events, Finished(q))) =>
           Once(events', Finished(q))
  BY <1>3, HasAppend
<1>6. /\ OnBus(q)' => OnBus(q)
      /\ Once(bus, Finished(q)) => Once(bus', Finished(q))
      /\ OnWay(q)' => OnWay(q)
      /\ Once(down, Sent(q)) => Once(down', Sent(q))
      /\ m = Sent(q) => OnWay(q) /\ (Once(down, Sent(q)) => ~ OnWay(q)')
  BY <1>1, <1>3, UnchangedNotes, DroppedNotes
<1>7. CASE e = Finished(q)
  BY <1>4, <1>5, <1>6, <1>7 DEF Queued
<1>8. CASE e # Finished(q)
  <2>1. Queued(q)' => Queued(q)
    BY <1>5, <1>8 DEF Queued, Finished, Note
  <2>2. NotesKept(q)
    BY <1>5, <1>6, <1>8, <2>1 DEF NotesKept
  <2>3. QED
    BY <2>2
<1>9. QED
  BY <1>7, <1>8

LEMMA ForwardMoves ==
  ASSUME ClientTypeOK, HubTypeOK, Forward, NEW q
  PROVE  \/ NotesKept(q)
         \/ /\ Queued(q)' => Queued(q)
            /\ Once(events, Finished(q)) => Once(events', Finished(q))
            /\ OnBus(q) /\ (Once(bus, Finished(q)) => ~ OnBus(q)' /\ Once(bus', Finished(q)))
            /\ Once(down, Sent(q)) /\ ~ OnWay(q) => Once(down', Sent(q))
<1>1. PICK e \in Notes : e = Head(bus)
  BY TailOf DEF Forward, HubTypeOK
<1>2. PICK m : m = [call |-> 0, event |-> e]
  OBVIOUS
<1>3. /\ events' = events /\ bus # <<>> /\ bus' = Tail(bus) /\ down' = Append(down, m)
      /\ down \in Seq(Answers \cup Relayed) /\ m \in Answers \cup Relayed
  BY <1>1, <1>2 DEF Forward, HubOnly, client, ClientTypeOK, Relayed
<1>4. m = Sent(q) <=> e = Finished(q)
  BY <1>2, NoteTypes
<1>5. /\ Has(down', Sent(q)) => Has(down, Sent(q)) \/ m = Sent(q)
      /\ Once(down, Sent(q)) /\ (m = Sent(q) => ~ Has(down, Sent(q))) => Once(down', Sent(q))
  BY <1>3, HasAppend
<1>6. /\ Queued(q)' => Queued(q)
      /\ Once(events, Finished(q)) => Once(events', Finished(q))
      /\ OnBus(q)' => OnBus(q)
      /\ Once(bus, Finished(q)) => Once(bus', Finished(q))
      /\ e = Finished(q) => OnBus(q) /\ (Once(bus, Finished(q)) => ~ OnBus(q)')
  BY <1>1, <1>3, UnchangedNotes, DroppedNotes
<1>7. CASE e = Finished(q)
  BY <1>4, <1>5, <1>6, <1>7 DEF OnWay
<1>8. CASE e # Finished(q)
  <2>1. OnWay(q)' => OnWay(q)
    BY <1>4, <1>5, <1>8 DEF OnWay, Sent, Finished, Note
  <2>2. NotesKept(q)
    BY <1>4, <1>5, <1>6, <1>8, <2>1 DEF NotesKept
  <2>3. QED
    BY <2>2
<1>9. QED
  BY <1>7, <1>8

\* A turn that ends is announced; what was announced before stays.
LEMMA EndMoves ==
  ASSUME ClientTypeOK, HubTypeOK, TurnEnds, NEW q
  PROVE  /\ q # running => NotesKept(q)
         /\ OnWay(q)' => OnWay(q)
         /\ Queued(q)' => Queued(q)
         /\ Once(down, Sent(q)) => Once(down', Sent(q))
         /\ Once(events, Finished(q)) => Once(events', Finished(q))
         /\ ~ OnBus(q) /\ Once(bus, Finished(q)) /\ q \notin repeated' => Once(bus', Finished(q))
<1>1. running \in Who /\ events' = events
  BY DEF TurnEnds, HubTypeOK, HubOnly, client
<1>2. PICK s \in Announced(running) :
        /\ bus' = IF subscribed THEN bus \o s ELSE bus
        /\ repeated' = IF Cardinality({i \in 1..Len(s) : s[i].channel = "turn_finished"}) = 2
                       THEN repeated \cup {running} ELSE repeated
  BY DEF TurnEnds
<1>3. /\ s \in Seq(Notes)
      /\ \A i \in DOMAIN s : s[i] \in {Finished(running), Note("tool", running)}
      /\ running \notin repeated' => Once(s, Finished(running))
  BY <1>1, <1>2, AnnouncedMeans
<1>4. down' = down \/ \E m \in Answers : down' = Append(down, m)
  BY Ended
<1>5. (OnWay(q)' => OnWay(q)) /\ (Once(down, Sent(q)) => Once(down', Sent(q)))
  BY <1>4, AnswersPass DEF ClientTypeOK
<1>6. /\ Queued(q)' => Queued(q)
      /\ Once(events, Finished(q)) => Once(events', Finished(q))
  BY <1>1, UnchangedNotes
<1>7. bus \in Seq(Notes)
  BY DEF HubTypeOK
<1>8. /\ Has(bus \o s, Finished(q)) => Has(bus, Finished(q)) \/ Has(s, Finished(q))
      /\ Once(bus, Finished(q)) /\ Once(s, Finished(q)) /\ ~ (Has(bus, Finished(q)) /\ Has(s, Finished(q))) =>
           Once(bus \o s, Finished(q))
  BY <1>3, <1>7, HasConcat
<1>9. ASSUME q # running
      PROVE  /\ OnBus(q)' => OnBus(q)
             /\ Once(bus, Finished(q)) => Once(bus', Finished(q))
  <2>1. Finished(q) # Finished(running) /\ Finished(q) # Note("tool", running)
    BY <1>9 DEF Finished, Note
  <2>2. ~ Has(s, Finished(q)) /\ Once(s, Finished(q))
    BY <1>3, <2>1 DEF Has, Once
  <2>3. Has(bus', Finished(q)) => Has(bus, Finished(q))
    BY <1>2, <1>8, <2>2
  <2>4. QED
    BY <1>2, <1>8, <2>2, <2>3 DEF OnBus, Finished, Note
<1>10. ASSUME ~ OnBus(q), Once(bus, Finished(q)), q \notin repeated' PROVE Once(bus', Finished(q))
  <2>1. CASE q = running
    BY <1>2, <1>3, <1>8, <1>10, <2>1 DEF OnBus
  <2>2. CASE q # running
    BY <1>9, <1>10, <2>2
  <2>3. QED
    BY <2>1, <2>2
<1>11. QED
  BY <1>5, <1>6, <1>9, <1>10 DEF NotesKept

LEMMA KeptOnce ==
  ASSUME NEW q, NoteOnce(q), NotesKept(q), TookOwn(q)' => TookOwn(q)
  PROVE  NoteOnce(q)'
<1>1. Once(bus', Finished(q)) /\ Once(down', Sent(q)) /\ Once(events', Finished(q))
  BY DEF NoteOnce, NotesKept
<1>2. (OnBus(q)' => OnBus(q)) /\ (OnWay(q)' => OnWay(q)) /\ (Queued(q)' => Queued(q))
  BY DEF NotesKept
<1>3. QED
  BY <1>1, <1>2, NotesStay

\* What was taken from the queue is of the turn that was announced.
LEMMA TakenNote ==
  ASSUME ClientTypeOK, HubTypeOK, TakeTurn
  PROVE  /\ turn' \in Who
         /\ \A q : /\ NotesKept(q)
                   /\ turn' = q =>
                        Queued(q) /\ (Once(events, Finished(q)) => ~ Queued(q)')
<1>1. PICK e \in Notes : e = Head(events)
  BY TailOf DEF TakeTurn, ClientTypeOK
<1>2. e = Finished(e.of) /\ e.of \in Who /\ turn' = e.of
  BY <1>1, NoteTypes DEF TakeTurn
<1>3. UNCHANGED <<bus, down>> /\ events # <<>> /\ events' = Tail(events)
  BY DEF TakeTurn, Call, hubSide
<1>4. ASSUME NEW q
      PROVE  /\ NotesKept(q)
             /\ turn' = q => Queued(q) /\ (Once(events, Finished(q)) => ~ Queued(q)')
  <2>1. NotesKept(q)
    BY <1>3, UnchangedNotes, DroppedNotes DEF NotesKept
  <2>2. ASSUME turn' = q PROVE Queued(q) /\ (Once(events, Finished(q)) => ~ Queued(q)')
    <3>1. Head(events) = Finished(q)
      BY <1>1, <1>2, <2>2
    <3>2. QED
      BY <1>3, <3>1, DroppedNotes
  <2>3. QED
    BY <2>1, <2>2
<1>5. QED
  BY <1>2, <1>4

LEMMA NotesStep ==
  ASSUME StagesInv, FramesInv, PromptsInv, OwnAnswers, NotesInv, [LoopNext]_loop
  PROVE  NotesInv'
<1>0. /\ ClientTypeOK /\ HubTypeOK /\ Tails /\ slot \in Slots
      /\ committed \subseteq committed' /\ repeated \subseteq repeated'
      /\ Silent \notin Requests
  BY Grows, ClientLoopAssumption DEF FramesInv, ClientTypeOK
<1> DEFINE Quiet == \/ Dispatch \/ FirstCall \/ Subscribed \/ Prompted \/ SkipEvent
                    \/ Finish \/ GiveUpCall \/ GiveUpTurn
                    \/ ReadAnswer \/ Lose \/ Serve \/ TurnFails
                    \/ \E r \in Requests : Write(r)
                    \/ \E p \in Foreign : ForeignPrompt(p)
                    \/ UNCHANGED loop
<1>1. Quiet \/ TakeTurn \/ ReadEvent \/ Forward \/ TurnEnds
  BY StepCases
<1>2. ASSUME Quiet, NEW q PROVE NotesKept(q)
  BY <1>0, <1>2, QuietNotes
<1> HIDE DEF Quiet
<1>4. ASSUME NEW q \in Who, Waiting(q)' PROVE q \in committed'
  <2>1. ASSUME NotesKept(q) PROVE q \in committed'
    <3>1. Waiting(q)
      BY <1>4, <2>1 DEF NotesKept, Waiting
    <3>2. QED
      BY <1>0, <3>1 DEF NotesInv
  <2>2. ASSUME Waiting(q) PROVE q \in committed'
    BY <1>0, <2>2 DEF NotesInv
  <2>3. ASSUME ReadEvent PROVE q \in committed'
    BY <1>0, <2>1, <2>2, <2>3, ReadMoves DEF Waiting
  <2>4. ASSUME Forward PROVE q \in committed'
    BY <1>0, <2>1, <2>2, <2>4, ForwardMoves DEF Waiting
  <2>5. ASSUME TurnEnds PROVE q \in committed'
    <3>1. CASE q = running
      BY <2>5, <3>1 DEF TurnEnds
    <3>2. CASE q # running
      BY <1>0, <2>1, <2>5, <3>2, EndMoves
    <3>3. QED
      BY <3>1, <3>2
  <2>6. ASSUME TakeTurn PROVE q \in committed'
    BY <1>0, <2>1, <2>6, TakenNote
  <2>7. QED
    BY <1>1, <1>2, <2>1, <2>3, <2>4, <2>5, <2>6
<1>5. ASSUME NEW q \in Requests, q \notin repeated' PROVE NoteOnce(q)'
  <2>0. NoteOnce(q) /\ q \in Who
    BY <1>0, <1>5 DEF NotesInv, Who
  <2>1. TookOwn(q)' => TookOwn(q) \/ (TakeTurn /\ turn' = q)
    BY <1>0, TookBefore
  <2>2. ASSUME NotesKept(q), ~ TakeTurn PROVE NoteOnce(q)'
    BY <2>0, <2>1, <2>2, KeptOnce
  <2>3. ASSUME TakeTurn PROVE NoteOnce(q)'
    <3>1. NotesKept(q)
      BY <1>0, <2>3, TakenNote
    <3>2. CASE turn' # q
      BY <2>0, <2>1, <3>1, <3>2, KeptOnce
    <3>3. CASE turn' = q
      <4>1. Queued(q) /\ (Once(events, Finished(q)) => ~ Queued(q)')
        BY <1>0, <2>3, <3>3, TakenNote
      <4>2. ~ OnBus(q) /\ ~ OnWay(q) /\ ~ Queued(q)'
        BY <2>0, <4>1 DEF NoteOnce
      <4>3. ~ OnBus(q)' /\ ~ OnWay(q)' /\ ~ Queued(q)'
        BY <3>1, <4>2 DEF NotesKept
      <4>4. Once(bus', Finished(q)) /\ Once(down', Sent(q)) /\ Once(events', Finished(q))
        BY <2>0, <3>1 DEF NoteOnce, NotesKept
      <4>5. QED
        BY <4>3, <4>4 DEF NoteOnce, Waiting, Finished, Sent, Note
    <3>4. QED
      BY <3>2, <3>3
  <2>4. ASSUME ReadEvent PROVE NoteOnce(q)'
    <3>1. ~ TakeTurn
      BY <2>4, <1>0 DEF ReadEvent, TakeTurn, adapter
    <3>2. CASE NotesKept(q)
      BY <2>2, <3>1, <3>2
    <3>3. CASE ~ NotesKept(q)
      <4>1. /\ OnBus(q)' => OnBus(q)
            /\ Once(bus, Finished(q)) => Once(bus', Finished(q))
            /\ OnWay(q) /\ (Once(down, Sent(q)) => ~ OnWay(q)' /\ Once(down', Sent(q)))
            /\ Once(events, Finished(q)) /\ ~ Queued(q) => Once(events', Finished(q))
        BY <1>0, <2>4, <3>3, ReadMoves
      <4>2. ~ OnBus(q)' /\ ~ OnWay(q)' /\ ~ TookOwn(q)'
        BY <2>0, <2>1, <3>1, <4>1 DEF NoteOnce, Waiting
      <4>3. Once(bus', Finished(q)) /\ Once(down', Sent(q)) /\ Once(events', Finished(q))
        BY <2>0, <4>1 DEF NoteOnce
      <4>4. QED
        BY <4>2, <4>3 DEF NoteOnce, Waiting, Finished, Sent, Note
    <3>4. QED
      BY <3>2, <3>3
  <2>5. ASSUME Forward PROVE NoteOnce(q)'
    <3>1. ~ TakeTurn
      BY <2>5 DEF Forward, TakeTurn, HubOnly, adapter, client
    <3>2. CASE NotesKept(q)
      BY <2>2, <3>1, <3>2
    <3>3. CASE ~ NotesKept(q)
      <4>1. /\ Queued(q)' => Queued(q)
            /\ Once(events, Finished(q)) => Once(events', Finished(q))
            /\ OnBus(q) /\ (Once(bus, Finished(q)) => ~ OnBus(q)' /\ Once(bus', Finished(q)))
            /\ Once(down, Sent(q)) /\ ~ OnWay(q) => Once(down', Sent(q))
        BY <1>0, <2>5, <3>3, ForwardMoves
      <4>2. ~ OnBus(q)' /\ ~ Queued(q)' /\ ~ TookOwn(q)'
        BY <2>0, <2>1, <3>1, <4>1 DEF NoteOnce, Waiting
      <4>3. Once(bus', Finished(q)) /\ Once(down', Sent(q)) /\ Once(events', Finished(q))
        BY <2>0, <4>1 DEF NoteOnce
      <4>4. QED
        BY <4>2, <4>3 DEF NoteOnce, Waiting, Finished, Sent, Note
    <3>4. QED
      BY <3>2, <3>3
  <2>6. ASSUME TurnEnds PROVE NoteOnce(q)'
    <3>1. ~ TakeTurn
      BY <2>6 DEF TurnEnds, TakeTurn, HubOnly, adapter, client
    <3>2. CASE q # running
      BY <1>0, <2>2, <2>6, <3>1, <3>2, EndMoves
    <3>3. CASE q = running
      <4>1. q \notin committed
        BY <3>3 DEF PromptsInv, PromptsOnce
      <4>2. ~ Waiting(q) /\ ~ TookOwn(q)
        BY <1>0, <2>0, <4>1 DEF NotesInv, TookOwn, Tails, OwnAnswers
      <4>3. /\ OnWay(q)' => OnWay(q)
            /\ Queued(q)' => Queued(q)
            /\ Once(down, Sent(q)) => Once(down', Sent(q))
            /\ Once(events, Finished(q)) => Once(events', Finished(q))
            /\ ~ OnBus(q) /\ Once(bus, Finished(q)) /\ q \notin repeated' => Once(bus', Finished(q))
        BY <1>0, <2>6, EndMoves
      <4>4. ~ OnWay(q)' /\ ~ Queued(q)' /\ ~ TookOwn(q)'
        BY <2>1, <3>1, <4>2, <4>3 DEF Waiting
      <4>5. Once(bus', Finished(q)) /\ Once(down', Sent(q)) /\ Once(events', Finished(q))
        BY <1>5, <2>0, <4>2, <4>3 DEF NoteOnce, Waiting
      <4>6. QED
        BY <4>4, <4>5 DEF NoteOnce, Finished, Sent, Note
    <3>4. QED
      BY <3>2, <3>3
  <2>7. CASE Quiet
    <3>1. NotesKept(q)
      BY <1>2, <2>7
    <3>2. CASE TakeTurn
      BY <2>3, <3>2
    <3>3. CASE ~ TakeTurn
      BY <2>2, <3>1, <3>3
    <3>4. QED
      BY <3>2, <3>3
  <2>8. QED
    BY <1>1, <2>3, <2>4, <2>5, <2>6, <2>7
<1>6. QED
  BY <1>4, <1>5 DEF NotesInv

-----------------------------------------------------------------------------
(* Answers *)

\* Whose announcement another request takes was left behind, unless it came twice.
LEMMA OthersLeft ==
  ASSUME StagesInv, FramesInv, PromptsInv, NotesInv, TakeTurn,
         NEW q \in Requests, turn' = q, q # request, q \notin repeated
  PROVE  LeftBehind(q)
<1>1. NoteOnce(q) /\ PromptsOnce(q) /\ q \in Who
  BY DEF NotesInv, PromptsInv, Who
<1>2. Queued(q)
  BY TakenNote DEF FramesInv
<1>3. ~ TookOwn(q) /\ q \in committed
  BY <1>1, <1>2 DEF NoteOnce, Waiting, NotesInv
<1>4. answer[q] # Nil
  BY <1>1, <1>3 DEF PromptsOnce, Untried
<1>5. answer[q].turn # q
  BY <1>3 DEF TookOwn
<1>6. answer[q].status = "ok" \/ answer[q] = Error
  <2>1. answer[q].status \in Statuses
    BY DEF StagesInv, AdapterTypeOK, Outcomes
  <2>2. QED
    BY <1>4, <2>1 DEF StagesInv, Places, Statuses
<1>7. QED
  BY <1>5, <1>6 DEF LeftBehind

LEMMA AnswersStep ==
  ASSUME StagesInv, FramesInv, PromptsInv, NotesInv, AnswersInv, [LoopNext]_loop
  PROVE  AnswersInv'
<1>0. /\ ClientTypeOK /\ HubTypeOK /\ slot \in Slots /\ AdapterTypeOK /\ Places /\ Handlers
      /\ repeated \subseteq repeated' /\ kind' = kind
      /\ Silent \notin Requests
  BY Grows, ClientLoopAssumption DEF FramesInv, ClientTypeOK, StagesInv
<1>1. \A q \in Requests : LeftBehind(q) => LeftBehind(q)'
  BY <1>0, AnswersKept
<1>2. ASSUME NEW q \in Requests, turn' = q
      PROVE  q = request' \/ q \in repeated' \/ LeftBehind(q)'
  <2>1. ASSUME NEW r \in Requests, NEW a \in Outcomes, Answering(r, a) PROVE FALSE
    BY <1>0, <1>2, <2>1 DEF Answering
  <2>2. ASSUME Taking PROVE FALSE
    BY <1>0, <1>2, <2>2 DEF Taking, Places, Handlers
  <2>3. ASSUME GoingOn PROVE q = request' \/ q \in repeated' \/ LeftBehind(q)'
    <3>1. CASE turn' = turn
      BY <1>0, <1>1, <1>2, <2>3, <3>1 DEF GoingOn, AnswersInv
    <3>2. CASE TakeTurn
      <4>1. q = request \/ q \in repeated \/ LeftBehind(q)
        BY <1>2, <3>2, OthersLeft
      <4>2. QED
        BY <1>0, <1>1, <2>3, <4>1 DEF GoingOn
    <3>3. QED
      BY <2>3, <3>1, <3>2 DEF GoingOn
  <2>4. QED
    BY <1>0, <2>1, <2>2, <2>3, AdapterMoves
<1>3. ASSUME NEW r \in Requests, NEW q \in Requests,
             kind'[r] = "prompt", answer'[r].status = "ok", answer'[r].turn = q
      PROVE  q = r \/ q \in repeated' \/ LeftBehind(q)'
  <2>1. ASSUME answer'[r] = answer[r] PROVE q = r \/ q \in repeated' \/ LeftBehind(q)'
    BY <1>0, <1>1, <1>3, <2>1 DEF AnswersInv
  <2>2. ASSUME NEW p \in Requests, NEW a \in Outcomes, Answering(p, a)
        PROVE  q = r \/ q \in repeated' \/ LeftBehind(q)'
    <3>1. CASE p # r
      BY <1>0, <2>1, <2>2, <3>1 DEF Answering, AdapterTypeOK
    <3>2. CASE p = r
      <4>1. answer'[r] = a /\ a.status = "ok" /\ a.turn = q
        BY <1>0, <1>3, <2>2, <3>2 DEF Answering, AdapterTypeOK
      <4>2. request = r /\ turn = q
        BY <1>0, <1>3, <2>2, <3>2, <4>1 DEF Answering, Error, Nil
      <4>3. q = r \/ q \in repeated \/ LeftBehind(q)
        BY <4>2 DEF AnswersInv
      <4>4. QED
        BY <1>0, <1>1, <4>3
    <3>3. QED
      BY <3>1, <3>2
  <2>3. QED
    BY <1>0, <2>1, <2>2, AdapterMoves DEF Taking, GoingOn
<1>4. QED
  BY <1>2, <1>3 DEF AnswersInv

-----------------------------------------------------------------------------
(* The loop *)

LEMMA LoopInvStep == LoopInv /\ [LoopNext]_loop => LoopInv'
<1> SUFFICES ASSUME LoopInv, [LoopNext]_loop PROVE LoopInv'
  OBVIOUS
<1>0. /\ StagesInv /\ FramesInv /\ PromptsInv /\ OwnAnswers /\ CancelInv /\ NotesInv /\ AnswersInv
      /\ ClientTypeOK /\ HubTypeOK /\ Numbers
      /\ slot \in Slots /\ events \in Seq(Notes)
  BY DEF LoopInv, FramesInv, ClientTypeOK
<1>1. StagesInv'
  BY <1>0, StagesStep
<1>2. FramesInv'
  <2>1. ClientTypeOK'
    BY <1>0, ClientTypeStep
  <2>2. HubTypeOK'
    BY <1>0, HubTypeStep
  <2>3. Numbers'
    BY <1>0, NumbersStep
  <2>4. Tails'
    BY <1>0, TailsStep DEF NotesInv, Waiting
  <2>5. QED
    BY <2>1, <2>2, <2>3, <2>4 DEF FramesInv
<1>3. PromptsInv' /\ OwnAnswers' /\ CancelInv'
  BY <1>0, PromptsStep, OwnAnswersStep, CancelStep
<1>4. NotesInv'
  BY <1>0, NotesStep
<1>5. AnswersInv'
  BY <1>0, AnswersStep
<1>6. QED
  BY <1>1, <1>2, <1>3, <1>4, <1>5 DEF LoopInv

\* Whatever the requests, the other clients, the gateway behind the hub and the
\* notes lost or repeated on the way: a request of the adapter is in one place
\* and is answered once, an answer belongs to the call that has its number, a
\* request prompts once, and an announcement the hub did not repeat is in one
\* queue at most.
THEOREM LoopInvariant == LoopSpec => []LoopInv
<1>1. LoopInit => LoopInv
  BY LoopInitInv
<1>2. LoopInv /\ [LoopNext]_loop => LoopInv'
  BY LoopInvStep
<1>3. QED
  BY <1>1, <1>2, PTL DEF LoopSpec

\* session/prompt of the adapter answers with the turn its wait_turn_finished
\* took and with a transcript that has it; the turn is that of the prompt, or
\* of another client, or one the hub announced twice, or that of an earlier
\* request which gave up or took another turn itself.
THEOREM AnswersAreOwn == LoopSpec => []AnswerIsOwnTurn
<1>1. LoopInv => AnswerIsOwnTurn
  <2> SUFFICES ASSUME LoopInv, NEW r \in Requests, kind[r] = "prompt", answer[r].status = "ok"
               PROVE  /\ answer[r].turn \in answer[r].tail
                      /\ \/ answer[r].turn = r
                         \/ answer[r].turn \in Foreign \cup repeated
                         \/ LeftBehind(answer[r].turn)
    BY DEF AnswerIsOwnTurn
  <2>1. PICK q : q = answer[r].turn
    OBVIOUS
  <2>2. q \in answer[r].tail /\ answer[r].tail \subseteq Who
    BY <2>1 DEF LoopInv, FramesInv, Tails, StagesInv, AdapterTypeOK, Outcomes
  <2>3. q \in Requests => q = r \/ q \in repeated \/ LeftBehind(q)
    BY <2>1 DEF LoopInv, AnswersInv
  <2>4. QED
    BY <2>1, <2>2, <2>3 DEF Who
<1>2. QED
  BY <1>1, LoopInvariant, PTL

\* session/cancel of the adapter: the interrupt of a request that waits for its
\* turn comes after that prompt was answered, since the loop of the socket awaits
\* each dispatch.  So a turn of the adapter it meets is one left behind.
THEOREM CancelsComeLate == LoopSpec => []CancelComesLate
<1>1. LoopInv => CancelComesLate
  <2> SUFFICES ASSUME LoopInv, NEW i \in 1 .. Len(up), up[i].op = "interrupt", running \in Requests
               PROVE  LeftBehind(running)
    BY DEF CancelComesLate
  <2>1. i \in DOMAIN up
    BY LenProperties DEF LoopInv, FramesInv, ClientTypeOK
  <2>2. QED
    BY <2>1 DEF LoopInv, CancelInv
<1>2. QED
  BY <1>1, LoopInvariant, PTL
=============================================================================
