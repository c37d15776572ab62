# Atlas Bot in TLA+

This directory models the logic of Atlas Bot between a client and a turn's result:
signing in, the connection to the hub, the turns and approvals of the three gateways
(box sidecar, CLI gateway, in-memory gateway), the events that come back, and what a
gateway keeps from one request to the next. `PROJECT.json` maps every definition to
the lines it models.

## The system

| component | state | operations | modelled in |
|---|---|---|---|
| box sidecar (`box_sidecar.rs`) | `is_running`, pending cancel senders, transcript, history, `session.jsonl`, workspace | `send_prompt`, `interrupt_agent_run`, tools | `BoxTurns` |
| tool approval (`tool_approval.rs`, `await_/submit_tool_approval`, `POST /approve`) | open slots, their oneshot channels, the injected decision | gate opens, decision, timeout, drop | `ToolApproval`, `ApprovalContract` |
| hub events (`atlas-bot-hub/src/lib.rs`, the socket loop in `bin/atlas-bot-hub.rs`, `event_ingest.rs`) | subscriptions and seq per (connection, agent), the broadcast ring, the dedupe of `hub:turn_finished` | subscribe, command, hint ingest, fan-out, receive, close | `HubEvents` |
| hub off-box cache (`lib.rs`) | cached entries per agent, roster membership | ingest, seed, append, cursor pages | `HubOffbox` |
| in-memory gateway (`atlas-bot-gateway/src/lib.rs`) | `is_running`, cancel senders, transcript | `send_prompt` (accepted, then echoed by a task), interrupt | `StubTurns` |
| CLI gateway (`cli_gateway.rs`) | the above, a child process, open approvals | `send_prompt` around a child, interrupt, soft timeout, gate | `CliTurns` |
| attachments (`lib.rs`, `box_sidecar.rs`) | the table of uploads, their directories on disk | `uploadAttachment`, `attachUpload`, sweep, restart | `Uploads`, in `GatewayStores` |
| VNC links (`vnc.rs`, the proxy page) | the map of tokens | probe and mint, look up, sweep | `VncTokens`, in `GatewayStores` |
| auth client, `login` and `logout`, hub auth (`auth.rs`), WeCom exchange | `credentials.json`, codes, keys, the bearer of a connection | authorize, call back, exchange, save, upgrade, hello | `Credentials`, `SignIn` |
| command line client, ACP adapter | call numbers, pending calls, the event queue, the request being served | call, read, wait for a turn, give up | `ClientLoop` |
| hub JSON-RPC dispatch | | the methods the Rust client calls | `ClientLoop`, `HubEvents` |
| HTTP gateway server and client, OpenAI gateway, channels, groups | | | not modelled, see the end |
| PC, Android and iOS clients | | | not modelled, see the end |
| vendored protocol types, packaging, scripts | | | out of scope: no behaviour of this program |

A person signs in with `login`, which stores a token that later commands present when
they open a WebSocket to the hub. A client says hello and subscribes to agents. Its
`bot.command` is awaited *inside* the socket loop, which calls the gateway (in process
or over HTTP). The gateway runs the turn under several short locks, none of which spans
the turn, and publishes hints (tool, delta, approval pending, finished) that come back
to the hub over `POST /internal/runtime-hint` or an in-process broadcast. The hub
numbers each hint per subscription and puts it on a ring that every socket loop reads.
Approvals go to the gateway's own HTTP port, past the hub. The ACP adapter and the
command line client prompt in a closed loop: subscribe, send, wait for
`hub:turn_finished`, read the transcript's tail.

What is hard here: several locks per turn and an interrupt that runs between them;
oneshot channels whose receiver resolves both when used and when dropped; timers that
race votes; futures dropped with their HTTP connection; hints and answers that carry
the same turn and arrive in either order; a lossy ring; a cache that is replaced by
pages read earlier; child processes that must not outlive the call; files written in
several steps that a crash may part; calls that give up and whose answers come later;
browser tabs that call back to the wrong login; keys that are read once.

What makes each part correct: at most one turn per agent and no agent that stays
running (turns); transcript, history, log and answers agree (turns); nothing runs
unvoted and one approver wins (approval); gapless numbering except after a lag, no
frame after close, no answered turn left unannounced without a reason and none announced
twice without one (hub events);
no entry twice, none lost but to a page (off-box cache); no process left behind (CLI);
a live record names a whole file, and whatever is refused or left over has a cause
(attachments, links); a login stores its own sign-in, the file is the newest one, and
the hub admits who was told "login ok" (signing in); every request is answered, with
the turn it asked for unless that one was announced to someone who had gone (clients).

## Modules

**`ApprovalContract`** is what a tool call may rely on: one vote, one verdict, and
`allowed` only after a vote for allow (in mode gate).

**`ToolApproval`** details it. A gate opens a slot (`OpenSlot`), announces it, hangs in
a `select!` of the channel and the timer (`Decide`, `Expire`), removes its slot
(`ClearSlot`), or is dropped (`Abandon`). An approver removes the slot (`TakeSlot`) and
sends on it in a second step (`SendDecision`); between the two the timer may fire.
`Contract` maps `accepted` to `vote` and the gate's outcome to `verdict`. A vote is
taken by the *approver* being accepted: an accepted allow whose gate timed out
meanwhile is answered ok and the tool is denied all the same. The contract allows it,
the runbook's "Allow: continue" does not mention it.

**`BoxTurns`** has one action for each statement that takes a lock in `send_prompt` and
`interrupt_agent_run`; `pc` is the turn's place in that function. `Drop` is an invoke
whose connection died while it was parked at an await; what it had set stays. The gate
of a tool is `ApprovalContract` (instance `Gate`), so the gate's races are checked once,
in `ToolApproval`. Two things in the code are left out: a drop of the *interrupt*
handler, and the echo guard at line 1435, which `chat_complete` has already applied.

**`StubTurns`** is the in-memory gateway: `send_prompt` answers at once and a spawned
task finishes the turn. `SenderGone` says when the task's receiver resolves: the sender
was used, or its holder left the table and nobody holds it. A handler dropped at a lock
before the answer spawns no task: `Drop` is a prompt dropped after `mark_running`, whose
flag stays up for ever, `DropCall` an interrupt dropped after it took the sender.
`FlagIsExact` keeps the books of the flag: turns exclude each other until an interrupt
begins, and at any time the prompts that took the flag are as many as the turns echoed,
the interrupts that found it up, and the flag itself: every raise is taken down once at
most, though, after an interrupt, not always by the turn it was raised for.

**`CliTurns`** is the CLI gateway: the child's stdout and exit, the biased `select!` of
the reading loop, the gate that hangs while the child runs, the kill signal, the soft
timeout around the reading, and the clean-up. Unlike the box, `run_cli` keeps its own
`Arc` of the pending record, so removing the record from the table cancels nothing.
Not modelled: building the command line, parsing stream-json, the closed-loop approval
hook, the standard error of a grandchild.

**`HubEvents`** keeps for every connection the frames its receiver has still to take
(`unread`) and whether older ones were overwritten (`behind`). `FanOut` stamps one frame
per subscriber under the lock of `subs`. The dedupe check and the fan-out are separate
steps, as their locks are. The gateway is a synchronous one (box, CLI). The socket
loop's `select!` prefers the ring, but a frame may arrive there just before or just
after a command was picked up, so either order is possible and the model takes both.
The dedupe compares previews: another turn of the agent with an equal text stands for
this one. A turn whose trimmed text is empty (`Blank`: a CLI stream of whitespace deltas
commits with it) announces nothing on the answer path, which skips an empty preview,
while its hint is announced. `AnsweredIsAnnounced` names both as causes.

**`HubOffbox`** is the cache of one agent. The gateway's transcript is only its length:
`BoxTurns` and `StubTurns` check that entry *k* has seq *k*. A tail command reads its
page in one step and replaces the cache in a later one.

**`GatewayStores`** composes what a gateway keeps beside its agents: **`Uploads`** and
**`VncTokens`**, both over **`GatewayProcess`**, which has the clock, the process being
up, and the number of restarts. A crash stops both and leaves the disk. In `Uploads`
writing a file is two steps (`std::fs::write` truncates, then writes), and removing a
directory removes its parts in any order. The mode tells the two implementations apart:
`memory` and `disk` of `lib.rs`, and `box`, which writes `meta.json` and never reads it
back. `name` is what the sanitiser lets through: an upload that is itself called
`meta.json` is overwritten by its own metadata, and `..` makes the write fail. In
`VncTokens` the probe is awaited before the map is locked, and the lookup clones its
record under a read lock. The crash is one of the process (what `write` returned from
survives), the wall clock is monotone and the time to live is the same after a restart.

**`Credentials`** is the file of the auth client: every save writes the same
`credentials.json.tmp` and renames it. The file names are inodes, so two saves may
write one inode or rename it from under each other. **`SignIn`** composes it with the
login command (loopback port, fresh or fixed; state; PKCE), the providers (OIDC, or
WeCom by way of the hub's exchange), key rotation, the hub's three auth modes and allow
list, and connections (upgrade, then hello). A code is named by the login whose URL it
answers. The hub reads the keys when it starts; a token without a known key id is
checked with the first of them. Keys given inline (`ATLAS_OIDC_JWKS_JSON`) may be a copy
older than the provider's. The allow list holds in every mode, for the fixed user of
`user_local_dev` too. `--bearer` and `ATLAS_HUB_BEARER` override the stored token, so a
connection may present any that was stored. The state is compared only if the callback
has one.
The client never looks at `expires_at`, and the hub looks at `exp` before hello only.

**`ClientLoop`** is the Rust `HubClient` (numbers, pending map, reader task, unbounded
event queue, 60 s per call, 30 s overall for a turn) under the loop of the ACP adapter,
which awaits one request before it reads the next. The hub is reduced to what a
connection sees: it serves one frame at a time in order and forwards events between
two. Events may be lost or repeated; the connection may end anywhere. Since the 30 s
run over the whole wait, `GiveUpTurn` is possible whenever the loop waits for a turn.
The command line client's `prompt` is the same loop, once.

`MCKeptState` explores the attachments, the links or signing in one at a time: the
first two share nothing but clock and crash, the last nothing with either. There a
connection is opened between logins only, which keeps the instance small.
`MCClientLoop` lets the requests be written in one order only. `MCHubEvents` has two
scenarios: `OnePrompt` with subscriptions, the bridge and any delay, and `TwoPrompts`
whose hints and answers race within the two seconds of the dedupe.

Definitions whose comment begins with "Fault:" belong to no specification. Each stands
for a plausible mistake in the definition after it and is used to see that the
properties would notice.

## Runs

| run | instance | what it shows |
|---|---|---|
| `tool_approval` | 2 gates, 2 approvers, 1 injected decision, all modes | types, one winner per id, a gate answerable from its announcement until it returns and never after, every gate returns, and the refinement of `ApprovalContract` (no allow without vote) |
| `box_turns` | 3 prompts, 2 interrupts, no gated tool, history of 2 | exclusion without interrupts; transcript, session log and answers agree (`TurnsAreRecorded`); the model's context is the recent history (`ContextIsRecent`) |
| `box_tools` | 2 prompts (one connection may die), 1 interrupt, model, gated tool, all modes | nothing runs unvoted, no flag or sender outlives its turn, every prompt returns, only a dropped call leaves the agent running |
| `hub_events` | 2 connections; 1 prompt, 2 subscriptions per connection, ring of 2, HTTP and bridge; or 2 prompts with equal, different or empty replies | gaps only after a lag, never backwards, nothing subscribed after close, every frame taken; an answered turn is announced, by itself or by an equal reply, unless its preview is empty; a repetition passes the dedupe only behind another reply or after two seconds |
| `hub_offbox` | 2 prompts, 1 tail page, 1 interrupt, 1 walk, default and created agent | no entry twice, answered turns readable unless a page wiped them, walks exact |
| `stub_turns` | 2 prompts, 2 interrupts | transcript and hints agree, turns exclude each other until an interrupt, each raise of the flag is taken down once at most, every task ends |
| `cli_turns` | 2 prompts, 1 interrupt, streaming or not, timeouts, dropped calls, all modes | no child left behind, answers match, interruptions, passes and leaked slots have a cause, prompts return if children exit |
| `kept_state` | 2 uploads and 1 reader in 3 modes; 2 links and 1 viewer; one restart. 2 logins, 1 connection, 1 key rotation, hub restarts | a live record names a whole file; refusals, misses and leftovers have a cause; a login stores its own sign-in, the file is the newest, and it is admitted |
| `client_loop` | 3 requests of any kinds, 1 prompt of another client, gateways that answer at once or at the end | an answer has its own turn, or one that was left behind; a cancel reaches no turn whose prompt still waits; every request is answered |
| `stub_wedge` (violation) | 2 prompts, no interrupt | `clear_pending` after the lock removes the *next* turn's sender: an accepted prompt is never echoed and the agent stays running |
| `hub_mid_turn` (violation) | 1 connection | the connection that sent a prompt receives its mid-turn frames, approval requests included, only after the answer |
| `cli_timeout` (violation) | 2 prompts | the soft timeout does not bound a turn whose child closed its stdout and stays |

The window of `stub_wedge` exists in the box as well (`box_sidecar.rs:1448`): there the
second prompt is answered `gateway/run-interrupted` although nobody interrupted it. The
properties of `BoxTurns` are stated so that they hold with it.

Bounds. Two turns of an agent are what every race here needs: one that cleans up and
one that begins; `box_turns` has a third so that the second can be cleaned up after as
well. Two interrupts are needed for one to take what the other missed. A ring of two
makes lag happen after three frames, which one prompt with two subscribers sends.
`HistoryMax = 2` makes the history overflow with the third commit, and lets it be
checked that two turns are remembered in their order. With `Ttl = 1`,
`VncTtl = 1` and `MaxNow = 2` a record expires and another, born later, does not;
`MaxEpoch = 1` (restarts) lets one crash fall between any two steps. Two uploads let
the sweep of one meet the files of the other; two logins are what a shared temporary
file, a strange tab and an overwritten sign-in need. `MaxKey = 1` and `MaxTime = 1`
give a token signed with the old key and one that has expired. Three requests let a
third take what the first left in the queue. `MaxEpoch` of `HubEvents` bounds new
subscriptions per connection and agent; otherwise everything is finite because the
sets of calls are. Deadlock is not checked: when all calls have been made the system
rests. Symmetry is used in two runs without liveness (`box_turns`, `hub_offbox`).

Fairness. Woken tasks are polled by the runtime, timers fire, and the model request
has a timeout: weak fairness of a turn's own steps. Nothing is assumed of clients,
approvers, interrupts or the loss of hints. In `cli_turns` the child is assumed to
exit, which the code cannot guarantee; `cli_timeout` shows what it loses without it.
In `client_loop` only the adapter's own steps are fair: its timeouts answer every
request whatever the hub does. `kept_state` assumes nothing and claims no liveness.

Other things the code does that the documents leave open, found on the way and
reflected in the models: an interrupt answered `killed: true` after the box's delay
window completes all the same (line 1403 keeps the receiver unpolled); an interrupt at
the CLI's gate ends in a completed turn and leaves its slot in the table
(`LeftSlotHasCause`); a late Finished hint is announced again when another reply was
announced in between (`RepeatsHaveCause`); an interrupted stub turn whose delay had
just elapsed echoes under the next prompt's flag; a repeated subscribe keeps its
counter although `docs/P1-runbook.md:110` says seq starts at 1 after each; memory mode
writes uploads to disk and never removes one, and the reload of `meta.json` after a
restart that `docs/P5-real-runbook.md:72` describes is that of disk mode only
(`LeftoverHasCause`, `MissHasCause`); a WeCom login on a fixed port whose callback has
no state stores the sign-in of whichever tab called (`StoredIsOwn`); after a key
rotation new logins are refused until the hub restarts, and after that restart older
tokens pass only if the provider names its keys (`SignInIsAdmitted`); a prompt of the adapter may be answered with a
turn that another prompt left in the queue (`AnswerIsOwnTurn`); `session/cancel` is
read only when the prompt it is for has been answered (`CancelComesLate`).

Some of what goes wrong is what the code does, and a property can only name it as a
cause. `TurnsAreRecorded` asks that a logged turn was committed once, so a line that the
log lost is admitted; `AnsweredIsCached` excuses what a page or `createAgent` wiped, and
`PagesAreExact` a walk that a replacement cut; `LeftoverHasCause` a removal whose error
was ignored; `FileIsNewest` says nothing after two saves overlapped. Hazards of this kind
stand in `PROJECT.json` with a note and, where nothing more is said of them, with no
property.

## Proofs

Each proof module extends one model (`KeptStateProofs` two) and proves invariants for
every value of its constants, from the assumptions named in that model. None of the
properties is inductive alone; each section says what it rests on. The step lemma has
one case for each action, and the theorem combines it with the initial states by
temporal logic. Every safety property that a passing run checks is a theorem, the
action property `GapMeansLag` and the refinement of `ApprovalContract` included.

The assumptions say that the values which stand for "nobody" or "nothing" are no
others, and of which set a constant is a member. Three say more. A hub has finitely
many connections (`ConnsAssumption`; it counts the frames of one fan-out). A history
holds at least one turn (`HistoryAssumption`), and the ring, the pages of a walk and a
time to live at least one element. Logins are not named like the contents a file may
have besides a login (`CredentialsAssumption`).

`ToolApprovalProofs`: `TypeOK`, `SingleAcceptance`, `AllowNeedsVote`, `SlotsMatchGates`,
and that the gate implements the contract. `IInv` says for each stage of a gate where
its slot, its channel and its accepted vote are: a slot exists only between opening and
return, a channel holds a decision only if the call that sent it removed the slot, and
at most one call ever removed it. Refinement follows from it, action by action.

`CliTurnsProofs`: `TypeOK`, no call ends with its child alive (`ChildReaped`), only an
interrupt answered killed cuts a prompt (`InterruptedByInterrupt`), a gated tool passes
only on an accepted allow (`NoPassWithoutAllow`), only interrupts and dropped calls leave
slots behind (`LeftSlotHasCause`). `IInv` adds: before the spawn there is no child; a
tool that was not read was put to no vote, an open slot was not voted on, and what a
gate heard is what was accepted; only mode gate hangs; a kill signal was sent by an
interrupt that holds the turn and takes no other. `AnswerMatchesTranscript` follows from
`KeptInv`, which adds that only an interrupted turn is about to leave a notice: a notice
or a pair is appended whole, so neither parts a pair that is there.

`BoxTurnsProofs`: `TurnsExclude`, `NothingOutlivesTurn`, `NoEffectWithoutAllow`, that the
transcript's entries are numbered without a hole, `TurnsAreRecorded` and
`ContextIsRecent`. `ControlInv` says what each stage of a turn and of an interrupt means
for the flag and the holder: a holder belongs to a turn that has not left, a raised flag
to a turn that is live or was dropped, and while nobody interrupts a live turn has the
flag. That is what excludes two: the running check and the raising of the flag are one
lock. `AllowedInv` follows a vote from the gate to the effect, `TranscriptInv` the
entries. `RecordInv` says at which stages a turn has its pair in the transcript and its
line in the session log, each once, and that before them it has neither. `ContextInv`
says that the history is the end of the committed turns, cut at `HistoryMax`; that what a
turn looked at was such an end when it looked; and that while nobody interrupts it is
the history still, because no other turn commits between the look and the commit.

`StubTurnsProofs`: `FlagIsExact`, the numbering of the transcript, and `TurnsAreRecorded`.
`OwnerInv` says that until an interrupt begins at most one task is live and the flag is
up under it. `CountInv` counts the prompts that took the flag against the turns echoed,
the interrupts that found it raised, and the flag itself. `HintInv` says that a turn's
pair is in the transcript from its finishing on, and that its hint follows one step later.

`HubEventsProofs`: `ClosedIsUnsubscribed`, `AnsweredIsAnnounced`, `RepeatsHaveCause` and
`GapMeansLag`. Subscribing needs a connection that listens; fan-out, which runs in tasks
that know nothing of the socket, counts up the subscriptions that exist and adds none.
`AnnounceInv` says that what the dedupe remembers of an agent was let past it, and that,
within the two seconds, a turn it let past is remembered until another reply of the
agent goes past; and that an answered turn was let past, or equals one that was, or has
an empty preview. `FramesInv` says of each connection and agent that the frames unread on
the ring are in the order of their numbers and end right below the next number; that
they have no hole; and that they begin right behind the last frame that was sent, unless
some were overwritten and the receiver has been told, or will be before its next frame.

`HubOffboxProofs`: `NoEntryTwice`, `AnsweredIsCached` and `PagesAreExact`. `LogInv` relates
prompts to the entries of the log they made. `CacheInv` says that neither the cache nor
a page on its way to replace it has an entry twice: an ingest appends only what is not
there. `WalkInv` says that what a walk has read is the cache up to its cursor; it holds
through the replacing writes because a walk they cut is no longer compared.

`KeptStateProofs`, on attachments and links: `TypeOK`, `UnexpiredHasFile`, `MissHasCause`,
`LeftoverHasCause`, `RefusalHasCause`. `UploadsInv` says for each stage of a call what lies
on the disk and that no call outlives its process; that the table has only ids that were
answered or whose answer a crash took; that a sweep removes only what has expired and
only under the write lock; and where the metadata of an answered upload went. `LinksInv`
says that a link that is not in the map was there before a restart, or a later mint found
it expired. On signing in: `FileIsNewest`, `StoredIsOwn` and `SignInIsAdmitted`. `FileInv`
says that while no two saves have overlapped the temporary name and the final name are
different inodes, what each stage of a save has written, and that the final one holds the
newest login; `OwnInv` follows a code from its tab to the token it was exchanged for;
`KeysInv` says which key that token was signed with and which keys a hub can have read.

`ClientLoopProofs`: `AnswerIsOwnTurn` and `CancelComesLate`, from seven invariants.
`StagesInv`: a request is in the inbox once, or being dispatched, or answered, and the
step of the handler fits what was asked. `FramesInv`: no frame or answer has a number
that was not given yet, the one with the number of the call awaited is of that call, and
the answer to a tail call has the turn that was taken, since the hub serves the frame
after it announced the turn. `PromptsInv`: a request sends one prompt, and its turn is
not committed while that prompt is on its way. `OwnAnswers`: an answer with the
request's own turn means the turn was committed. `CancelInv`: whatever runs, or stands as
a prompt before an interrupt in the queue to the hub, was left behind; that is so
when the interrupt is sent, since its handler began after every earlier request was
answered, and the queue keeps its order. `NotesInv`: an announcement that was not
repeated is on the bus, on its way, or in the event queue, once, or was taken; so whoever
takes the announcement of another takes it for good, and that other was left behind,
which is `AnswersInv`. The two theorems hold for any order in which requests are written.

Only model-checked: the liveness properties `GateReturns`, `PromptReturns` (box and CLI),
`IdleAgain`, `FramesAreTaken`, `TaskEnds` and `RequestIsAnswered`. Temporal reasoning under
fairness is out of the prover's reach. The three violations are TLC's counterexamples.

## Plan

Done, in this order: `ToolApproval`, `BoxTurns`, `HubEvents`, `StubTurns`, `CliTurns`,
`HubOffbox`, `GatewayStores`, `SignIn`, `ClientLoop`, and a proof of every safety property
of each of them.

What would come next: an abstract `TurnContract` (a prompt is accepted, and ends once as
completed, interrupted or failed) that `BoxTurns`, `CliTurns` and, apart from the wedge,
`StubTurns` implement, with the refinements proved; and `PcClient` (reconnect, stale
`onclose`, pending calls, the approval queue) in composition with the socket loop.

## Not modelled

- The HTTP gateway server and client are I/O around the modelled traits; a lost answer
  appears as a dropped invocation. A gateway that accepts a request and never answers
  holds the hub's connection, since the client has no timeout; that would need the
  client composed with the socket loop.
- The OpenAI gateway is a request and a response; its outcomes are choices of `BoxTurns`.
- Channels are a static list. Groups are membership lists and prompts sent one by one.
- The PC client runs in another language and runtime; the mobile clients speak the same
  protocol. Their hazards are listed where they were met.
- In parts that are modelled: the raw seeding of the cache when no entry of an answer
  parses, answers of the cache's gateways that are not completed, a second hello on a connection, `session/new` and
  `agents/list` of the adapter, OIDC discovery and the building of URLs, creating,
  renaming and deleting agents, a grandchild that keeps standard error open, sizes and
  Base64 of uploads, the RFB bytes and pages of the desktop, text and formatting.
- Installers, scripts, generated and vendored code have no behaviour of this program.
