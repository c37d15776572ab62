----------------------------- MODULE ClientLoop -----------------------------
(***************************************************************************)
(* The Rust client of the hub (HubClient) and the ACP adapter that drives  *)
(* it.  The adapter reads one request after another from its own client    *)
(* and awaits each; session/prompt is the closed loop subscribe ->         *)
(* sendPrompt -> wait for hub:turn_finished -> getAgentTranscriptTail.     *)
(* The command line client runs the same loop once.                        *)
(*                                                                         *)
(* HubClient numbers its calls.  A reader task gives an answer to the call *)
(* that waits under its number and puts events in an unbounded queue; a    *)
(* call gives up after 60 s and the wait for an event after 30 s, and both *)
(* leave behind what they waited for.  Other clients prompt the same agent *)
(* meanwhile.  The hub is modelled by what it lets a connection see (the   *)
(* module HubEvents has the rest): it serves one frame at a time, in       *)
(* order, and puts events on the connection only between two frames.       *)
(***************************************************************************)
EXTENDS Naturals, FiniteSets, Sequences

CONSTANTS Requests,     \* requests of the ACP client
          Kinds,        \* "initialize", "prompt", "cancel", "tail"
          Foreign,      \* prompts of other clients of the hub
          Backends,     \* "sync": sendPrompt answers when the turn has ended
                        \* (box, cli); "async": when it was accepted (stub)
          Lossy,        \* events may get lost or be repeated on the way
          Silent        \* no request, no frame

ASSUME ClientLoopAssumption ==
  /\ Requests \cap Foreign = {} /\ Silent \notin Requests \cup Foreign
  /\ Kinds \subseteq {"initialize", "prompt", "cancel", "tail"}
  /\ Backends \subseteq {"sync", "async"} /\ Lossy \in BOOLEAN

VARIABLES backend,
          kind,         \* what each request asks for
          inbox,        \* requests on the adapter's socket
          ready,        \* initialize was answered
          request,      \* the request being dispatched
          step,         \* where its handler is
          turn,         \* the finished event its closed loop took
          answer,       \* what each request was answered
          calls,        \* next_id: calls made so far
          pending,      \* numbers with an entry in the pending map
          slot,         \* what the current call's receiver holds
          events,       \* the event queue
          alive,        \* the reader task runs
          up, down,     \* frames on their way to the hub and back
          serving,      \* the frame the hub awaits
          bus,          \* events for this connection the hub has not sent
          subscribed,
          running,      \* the agent's turn
          committed,    \* turns in the transcript
          started,      \* history: foreign prompts that were sent
          repeated      \* history: turns announced twice

client == <<calls, pending, slot, events, alive>>
adapter == <<inbox, ready, request, step, turn, answer>>
hubSide == <<serving, bus, subscribed, running, committed, started, repeated>>
loop == <<backend, kind, inbox, ready, request, step, turn, answer, calls,
          pending, slot, events, alive, up, down, serving, bus, subscribed,
          running, committed, started, repeated>>

Nil == [status |-> "none", turn |-> Silent, tail |-> {}]
Error == [Nil EXCEPT !.status = "error"]
Frame(n, op, r) == [call |-> n, op |-> op, by |-> r]
Empty == [status |-> "none", tail |-> {}]

LoopInit ==
  /\ backend \in Backends
  /\ kind \in [Requests -> Kinds]
  /\ inbox = <<>> /\ ready = FALSE
  /\ request = Silent /\ step = "read" /\ turn = Silent
  /\ answer = [r \in Requests |-> Nil]
  /\ calls = 0 /\ pending = {} /\ slot = Empty /\ events = <<>> /\ alive = TRUE
  /\ up = <<>> /\ down = <<>>
  /\ serving = Silent /\ bus = <<>> /\ subscribed = FALSE
  /\ running = Silent /\ committed = {} /\ started = {} /\ repeated = {}
-----------------------------------------------------------------------------
(* HubClient *)

\* rpc: the entry is made, then the frame is handed to the writer.  Once the
\* connection is gone nothing removes the entry, and the frame goes nowhere.
Call(op) ==
  /\ calls' = calls + 1
  /\ pending' = pending \cup {calls'}
  /\ slot' = Empty
  /\ up' = IF alive THEN Append(up, Frame(calls', op, request)) ELSE up
  /\ UNCHANGED <<alive, down>>

\* A handler awaits the answer to the last call made.
InCall == step \in {"subscribe", "prompt", "tail", "interrupt"}

\* Fault: the answer goes to whoever waits, its number is not looked at.
AnyAnswer ==
  /\ alive /\ down # <<>> /\ Head(down).call # 0
  /\ down' = Tail(down)
  /\ pending' = pending \ {Head(down).call}
  /\ slot' = IF InCall THEN Head(down).answer ELSE slot
  /\ UNCHANGED <<backend, kind, adapter, calls, events, alive, up, hubSide>>

\* The reader: an answer goes to the call of its number, if it still waits.
\* (A call that timed out has dropped its receiver: the answer is discarded.)
ReadAnswer ==
  /\ alive /\ down # <<>> /\ Head(down).call # 0
  /\ down' = Tail(down)
  /\ pending' = pending \ {Head(down).call}
  /\ slot' = IF InCall /\ Head(down).call = calls THEN Head(down).answer ELSE slot
  /\ UNCHANGED <<backend, kind, adapter, calls, events, alive, up, hubSide>>

ReadEvent ==
  /\ alive /\ down # <<>> /\ Head(down).call = 0
  /\ down' = Tail(down)
  /\ events' = Append(events, Head(down).event)
  /\ UNCHANGED <<backend, kind, adapter, calls, pending, slot, alive, up, hubSide>>

\* The connection ends: the reader fails whoever waits and stops.
Lose ==
  /\ alive
  /\ alive' = FALSE
  /\ slot' = IF InCall /\ calls \in pending THEN [Empty EXCEPT !.status = "error"] ELSE slot
  /\ pending' = {}
  /\ up' = <<>> /\ down' = <<>>
  /\ UNCHANGED <<backend, kind, adapter, calls, events, hubSide>>
-----------------------------------------------------------------------------
(* The adapter.  Each operator is one await of a handler.                  *)

\* The ACP client may write while the adapter is busy; what it writes waits.
Write(r) ==
  /\ answer[r] = Nil /\ request # r
  /\ \A i \in 1..Len(inbox) : inbox[i] # r
  /\ inbox' = Append(inbox, r)
  /\ UNCHANGED <<backend, kind, ready, request, step, turn, answer, client, up,
                 down, hubSide>>

\* The answer is sent, and the loop reads on.
Reply(r, a) ==
  /\ answer' = [answer EXCEPT ![r] = a]
  /\ request' = Silent /\ step' = "read" /\ turn' = Silent
  /\ UNCHANGED <<backend, kind, hubSide>>

FirstOp == [prompt |-> "subscribe", cancel |-> "interrupt", tail |-> "tail"]

\* Fault: the adapter reads on while a prompt waits for its turn.
ReadsOn == step \in {"read", "turn"}

\* The loop of the socket awaits dispatch before it reads the next message.
Reading == step = "read"

\* dispatch: the next request is taken only here.  A prompt before initialize,
\* like any request with a wrong session or no text, is refused at once.
Dispatch ==
  LET r == Head(inbox) IN
  /\ Reading /\ inbox # <<>>
  /\ inbox' = Tail(inbox)
  /\ \/ /\ kind[r] = "initialize"
        /\ ready' = TRUE
        /\ Reply(r, [Nil EXCEPT !.status = "ok"])
        /\ UNCHANGED <<client, up, down>>
     \/ /\ kind[r] = "prompt" /\ ~ready
        /\ Reply(r, Error)
        /\ UNCHANGED <<ready, client, up, down>>
     \/ /\ kind[r] # "initialize" /\ (kind[r] = "prompt" => ready)
        /\ request' = r /\ step' = "call"
        /\ UNCHANGED <<backend, kind, ready, turn, answer, client, up, down, hubSide>>

\* The handler makes its first call.
FirstCall ==
  /\ step = "call"
  /\ step' = FirstOp[kind[request]]
  /\ Call(FirstOp[kind[request]])
  /\ UNCHANGED <<backend, kind, inbox, ready, request, turn, answer, events, hubSide>>

\* subscribe answered -> sendPrompt; sendPrompt answered -> wait for the turn.
Subscribed ==
  /\ step = "subscribe" /\ slot.status = "ok"
  /\ step' = "prompt"
  /\ Call("prompt")
  /\ UNCHANGED <<backend, kind, inbox, ready, request, turn, answer, events, hubSide>>

Prompted ==
  /\ step = "prompt" /\ slot.status = "ok"
  /\ step' = "turn"
  /\ slot' = Empty
  /\ UNCHANGED <<backend, kind, inbox, ready, request, turn, answer, calls, pending,
                 events, alive, up, down, hubSide>>

\* wait_turn_finished takes the oldest event of the queue; other channels are
\* skipped.  The first finished turn of the agent is the answer, whosever.
SkipEvent ==
  /\ step = "turn" /\ events # <<>> /\ Head(events).channel # "turn_finished"
  /\ events' = Tail(events)
  /\ UNCHANGED <<backend, kind, adapter, calls, pending, slot, alive, up, down, hubSide>>

TakeTurn ==
  /\ step = "turn" /\ events # <<>> /\ Head(events).channel = "turn_finished"
  /\ turn' = Head(events).of
  /\ step' = "tail"
  /\ events' = Tail(events)
  /\ Call("tail")
  /\ UNCHANGED <<backend, kind, inbox, ready, request, answer, hubSide>>

\* The last call of the handler was answered.
Finish ==
  /\ step \in {"tail", "interrupt"} /\ slot.status = "ok"
  /\ Reply(request, [status |-> "ok", turn |-> turn, tail |-> slot.tail])
  /\ slot' = Empty
  /\ UNCHANGED <<inbox, ready, calls, pending, events, alive, up, down>>

\* Fault: a call waits for its answer without a timeout.
WaitsForever ==
  /\ InCall /\ slot.status = "error"
  /\ Reply(request, Error)
  /\ slot' = Empty
  /\ UNCHANGED <<inbox, ready, calls, pending, events, alive, up, down>>

\* A call answered with an error, or unanswered for 60 s, or an event that did
\* not come in 30 s or cannot come any more, ends the handler.
GiveUpCall ==
  /\ InCall /\ slot.status # "ok"
  /\ Reply(request, Error)
  /\ slot' = Empty
  /\ UNCHANGED <<inbox, ready, calls, pending, events, alive, up, down>>

GiveUpTurn ==
  /\ step = "turn"
  /\ Reply(request, Error)
  /\ UNCHANGED <<inbox, ready, client, up, down>>
-----------------------------------------------------------------------------
(* The hub, as this connection sees it. *)

HubOnly == UNCHANGED <<backend, kind, adapter, client>>

Answered(f, status) ==
  LET tail == IF f.op = "tail" THEN committed ELSE {} IN
  IF alive THEN Append(down, [call |-> f.call, answer |-> [status |-> status, tail |-> tail]])
           ELSE down

\* The loop of the socket takes the next frame.  All but a prompt to a gateway
\* that answers at the end of the turn are served in one go.
Serve ==
  LET f == Head(up) IN
  /\ alive /\ serving = Silent /\ up # <<>>
  /\ up' = Tail(up)
  /\ \/ /\ f.op \in {"subscribe", "tail"}
        /\ subscribed' = (subscribed \/ f.op = "subscribe")
        /\ down' = Answered(f, "ok")
        /\ UNCHANGED <<serving, running>>
     \/ /\ f.op = "interrupt"
        /\ running' = Silent
        /\ down' = Answered(f, "ok")
        /\ UNCHANGED <<serving, subscribed>>
     \/ /\ f.op = "prompt" /\ running # Silent
        /\ down' = Answered(f, "error")
        /\ UNCHANGED <<serving, subscribed, running>>
     \/ /\ f.op = "prompt" /\ running = Silent
        /\ running' = f.by
        /\ IF backend = "sync" THEN serving' = f /\ UNCHANGED down
                               ELSE down' = Answered(f, "ok") /\ UNCHANGED serving
        /\ UNCHANGED subscribed
  /\ UNCHANGED <<bus, committed, started, repeated>>
  /\ HubOnly

Note(channel, q) == [channel |-> channel, of |-> q]

\* A turn ends: it is committed, and announced to who has subscribed.  The
\* announcement may be lost (a full ring, the dedupe) or come twice (the hint
\* and the answer); events of the turn itself come before it.
Announced(q) ==
  LET finished == Note("turn_finished", q) IN
  {<<finished>>, <<Note("tool", q), finished>>}
    \cup IF Lossy THEN {<<>>, <<finished, finished>>} ELSE {}

TurnEnds ==
  /\ running # Silent
  /\ committed' = committed \cup {running}
  /\ \E s \in Announced(running) :
       /\ bus' = IF subscribed THEN bus \o s ELSE bus
       /\ repeated' = IF Cardinality({i \in 1..Len(s) : s[i].channel = "turn_finished"}) = 2
                      THEN repeated \cup {running} ELSE repeated
  /\ running' = Silent
  /\ serving' = Silent
  /\ down' = IF serving # Silent /\ serving.by = running
             THEN Answered(serving, "ok") ELSE down
  /\ UNCHANGED <<up, subscribed, started>>
  /\ HubOnly

\* The turn fails or another client interrupts it: nothing is announced.
TurnFails ==
  /\ running # Silent
  /\ running' = Silent /\ serving' = Silent
  /\ down' = IF serving # Silent /\ serving.by = running
             THEN Answered(serving, "error") ELSE down
  /\ UNCHANGED <<up, bus, subscribed, committed, started, repeated>>
  /\ HubOnly

\* Between two frames the loop forwards what is on the bus.
Forward ==
  /\ alive /\ serving = Silent /\ bus # <<>>
  /\ bus' = Tail(bus)
  /\ down' = Append(down, [call |-> 0, event |-> Head(bus)])
  /\ UNCHANGED <<up, serving, subscribed, running, committed, started, repeated>>
  /\ HubOnly

ForeignPrompt(q) ==
  /\ q \notin started /\ running = Silent
  /\ running' = q
  /\ started' = started \cup {q}
  /\ UNCHANGED <<up, down, serving, bus, subscribed, committed, repeated>>
  /\ HubOnly

Reader == ReadAnswer \/ ReadEvent
Adapter == Dispatch \/ FirstCall \/ Subscribed \/ Prompted \/ SkipEvent \/ TakeTurn
           \/ Finish \/ GiveUpCall \/ GiveUpTurn
Environment == Lose \/ Serve \/ TurnEnds \/ TurnFails \/ Forward

LoopNext ==
  \/ Reader \/ Adapter \/ Environment
  \/ \E r \in Requests : Write(r)
  \/ \E q \in Foreign : ForeignPrompt(q)

\* The runtime polls the reader and the adapter's loop, and its timers fire.
\* Nothing is asked of the hub.
LoopSpec == LoopInit /\ [][LoopNext]_loop /\ WF_loop(Adapter)
-----------------------------------------------------------------------------
\* Nobody waits any more for the announcement of r's turn: its prompt was
\* answered with an error, or with another turn.
LeftBehind(r) == \/ answer[r] = Error
                 \/ answer[r].status = "ok" /\ answer[r].turn # r

\* session/prompt answered with a turn and a transcript: the turn is the one
\* of this prompt, and the transcript has it.  It is another turn only if that
\* was prompted by another client, announced twice, or is that of an earlier
\* request which left it behind: the queue of events is never emptied, and the
\* wait takes what is in it.
AnswerIsOwnTurn ==
  \A r \in Requests : kind[r] = "prompt" /\ answer[r].status = "ok" =>
    LET q == answer[r].turn IN
    /\ q \in answer[r].tail
    /\ q = r \/ q \in Foreign \cup repeated \/ LeftBehind(q)

\* A cancel does not reach the turn it is meant for while its prompt waits to
\* be answered.  An interrupt that meets a turn of this adapter at the hub
\* meets one whose prompt was answered before: it was given up, or it took
\* another turn for its own.
CancelComesLate ==
  \A i \in 1..Len(up) : up[i].op = "interrupt" /\ running \in Requests =>
    LeftBehind(running)

\* Every request the adapter's client wrote is answered, whatever the hub does
\* and also when it has gone: each await of a handler has its timeout.
RequestIsAnswered ==
  \A r \in Requests : (\E i \in 1..Len(inbox) : inbox[i] = r) ~> answer[r] # Nil
=============================================================================
