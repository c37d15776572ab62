----------------------------- MODULE HubOffbox -----------------------------
(***************************************************************************)
(* The hub's off-box transcript cache (atlas-bot-hub, lib.rs), for one     *)
(* agent: Finished hints and sendPrompt answers ingest a turn's entries,   *)
(* createAgent and getAgentTranscriptTail replace the whole cache by what  *)
(* the gateway had said, an interrupt appends a notice, and               *)
(* bot.transcript.offbox pages through it without waking the gateway.      *)
(* Hub calls run in the tasks of different connections: every write is one *)
(* critical section, and nothing holds between the gateway's answer and    *)
(* the write it leads to.                                                  *)
(* The gateway's transcript is 1, 2, ..., log (TranscriptWellFormed of     *)
(* BoxTurns and StubTurns), so an entry is its number.                     *)
(***************************************************************************)
EXTENDS Naturals, Sequences, SequencesExt

CONSTANTS
  Prompts,     \* sendPrompt commands that complete
  Tails,       \* getAgentTranscriptTail commands
  Interrupts,  \* interruptAgentRun commands that hit a run
  Pagers,      \* clients walking through bot.transcript.offbox
  Limits,      \* page sizes the tail commands ask for
  PageSize,    \* OFFBOX_PAGE_SIZE
  Bridges      \* is the in-process hint bridge active? the values considered

ASSUME LimitsAssumption == Limits \subseteq Nat
ASSUME PageSizeAssumption == PageSize \in Nat \ {0}
ASSUME BridgesAssumption == Bridges \subseteq BOOLEAN

VARIABLES
  bridge,   \* Hub.turn_bridge_active, fixed when the hub starts
  log,      \* length of the gateway's transcript of the agent, 0 before it exists
  listed,   \* does Hub.roster have the agent?
  known,    \* does Hub.offbox have the agent?
  cache,    \* its entries there; the hub's own interrupt notice is 0
  create,   \* where createAgent stands; the default agent needs none
  prompt,   \* where each sendPrompt stands, and its user entry
  hint,     \* the Finished hint of each prompt
  tail,     \* where each tail command stands, and its answer
  int,      \* where each interrupt stands
  pager,    \* each walk: its stage, next cursor, entries read, was the cache replaced?
  wiped     \* history: answered prompts a command's page replaced in the cache

vars == <<bridge, log, listed, known, cache, create, prompt, hint, tail, int, pager, wiped>>
hub == <<listed, known, cache, wiped>>
calls == <<create, prompt, tail, int>>

Notice == 0

TypeOK ==
  /\ bridge \in Bridges
  /\ log \in Nat
  /\ listed \in BOOLEAN /\ known \in BOOLEAN
  /\ cache \in Seq(0 .. log)
  /\ create \in {"none", "created", "listed", "done"}
  /\ prompt \in [Prompts -> [at : {"new", "committed", "answered"}, user : 0 .. log]]
  /\ hint \in [Prompts -> {"none", "posted", "gone"}]
  /\ tail \in [Tails -> [at : {"new", "read", "done"}, page : Seq(1 .. log)]]
  /\ int \in [Interrupts -> {"new", "hit", "done"}]
  /\ pager \in [Pagers -> [at : {"new", "walking", "ended"}, cursor : Nat,
                           read : Seq(0 .. log), replaced : BOOLEAN]]
  /\ wiped \subseteq Prompts

\* The default agent is in the hub's cache and in the gateway from the start.
Init ==
  /\ bridge \in Bridges
  /\ \/ log = 1 /\ listed = TRUE /\ known = TRUE /\ cache = <<1>> /\ create = "done"
     \/ log = 0 /\ listed = FALSE /\ known = FALSE /\ cache = <<>> /\ create = "none"
  /\ prompt = [k \in Prompts |-> [at |-> "new", user |-> 0]]
  /\ hint = [k \in Prompts |-> "none"]
  /\ tail = [r \in Tails |-> [at |-> "new", page |-> <<>>]]
  /\ int = [i \in Interrupts |-> "new"]
  /\ pager = [p \in Pagers |-> [at |-> "new", cursor |-> 0, read |-> <<>>,
                                replaced |-> FALSE]]
  /\ wiped = {}

-----------------------------------------------------------------------------
(* Helpers *)

\* The user entry of a committed prompt and the reply that follows it.
Entries(k) == <<prompt[k].user, prompt[k].user + 1>>

\* Fault: entries are not looked up by id.
IngestAll(k) ==
  /\ known' = TRUE
  /\ cache' = cache \o Entries(k)
  /\ UNCHANGED <<listed, pager, wiped>>

\* ingest_turn_entries: an entry whose id is there is left out.
Ingest(k) ==
  LET new(e) == IF e \in Range(cache) THEN <<>> ELSE <<e>>
  IN /\ known' = TRUE
     /\ cache' = cache \o new(Entries(k)[1]) \o new(Entries(k)[2])
     /\ UNCHANGED <<listed, pager, wiped>>

\* seed_offbox: the walks under way go on over other entries.
Seed(entries) ==
  /\ known' = TRUE
  /\ cache' = entries
  /\ pager' = [p \in Pagers |-> [pager[p] EXCEPT !.replaced = @ \/ pager[p].at # "new"]]
  /\ UNCHANGED listed

Wipe(page) ==
  wiped' = wiped \cup {k \in Prompts : prompt[k].at = "answered"
                                       /\ ~(Range(Entries(k)) \subseteq Range(page))}

\* The last limit entries before a number.
TailPage(limit, before) ==
  LET n == before - 1
      skip == IF n > limit THEN n - limit ELSE 0
  IN [j \in 1 .. n - skip |-> skip + j]

-----------------------------------------------------------------------------
(* The gateway, as far as the hub sees it *)

CreateAgent ==
  /\ create = "none"
  /\ create' = "created"
  /\ log' = 1
  /\ UNCHANGED <<bridge, hub, prompt, hint, tail, int, pager>>

\* commit_turn, the Finished hint, and the answer with the same entries under way.
Commit(k) ==
  /\ log > 0
  /\ prompt[k].at = "new"
  /\ prompt' = [prompt EXCEPT ![k] = [at |-> "committed", user |-> log + 1]]
  /\ hint' = [hint EXCEPT ![k] = "posted"]
  /\ log' = log + 2
  /\ UNCHANGED <<bridge, hub, create, tail, int, pager>>

\* The POST fails, or the bridge's receiver lagged.
LoseHint(k) ==
  /\ hint[k] = "posted"
  /\ hint' = [hint EXCEPT ![k] = "gone"]
  /\ UNCHANGED <<bridge, log, hub, calls, pager>>

\* The page is read under the gateway's lock; its answer is then on its way.
ReadTail(r) ==
  /\ log > 0
  /\ tail[r].at = "new"
  /\ \E limit \in Limits, before \in 1 .. log + 1 :
       tail' = [tail EXCEPT ![r] = [at |-> "read", page |-> TailPage(limit, before)]]
  /\ UNCHANGED <<bridge, log, hub, create, prompt, hint, int, pager>>

\* The gateway writes its own notice, the box sidecar possibly later.
Interrupt(i) ==
  /\ log > 0
  /\ int[i] = "new"
  /\ int' = [int EXCEPT ![i] = "hit"]
  /\ log' \in {log, log + 1}
  /\ UNCHANGED <<bridge, hub, create, prompt, hint, tail, pager>>

-----------------------------------------------------------------------------
(* The hub: after_command_success and apply_runtime_hint *)

ListCreated ==
  /\ create = "created"
  /\ create' = "listed"
  /\ listed' = TRUE
  /\ UNCHANGED <<bridge, log, known, cache, prompt, hint, tail, int, pager, wiped>>

SeedCreated ==
  /\ create = "listed"
  /\ create' = "done"
  /\ Seed(<<1>>)
  /\ Wipe(<<1>>)
  /\ UNCHANGED <<bridge, log, prompt, hint, tail, int>>

ApplyHint(k) ==
  /\ hint[k] = "posted"
  /\ hint' = [hint EXCEPT ![k] = "gone"]
  /\ Ingest(k)
  /\ UNCHANGED <<bridge, log, calls>>

\* Fault: the answer's entries replace the cache, as raw entries would.
AnswerSeeds(k) ==
  /\ prompt[k].at = "committed"
  /\ prompt' = [prompt EXCEPT ![k].at = "answered"]
  /\ IF bridge THEN UNCHANGED <<listed, known, cache, pager>> ELSE Seed(Entries(k))
  /\ UNCHANGED <<bridge, log, create, hint, tail, int, wiped>>

\* With a bridge the entries are left to the hint.
Answer(k) ==
  /\ prompt[k].at = "committed"
  /\ prompt' = [prompt EXCEPT ![k].at = "answered"]
  /\ IF bridge THEN UNCHANGED <<hub, pager>> ELSE Ingest(k)
  /\ UNCHANGED <<bridge, log, create, hint, tail, int>>

SeedTail(r) ==
  /\ tail[r].at = "read"
  /\ tail' = [tail EXCEPT ![r].at = "done"]
  /\ Seed(tail[r].page)
  /\ Wipe(tail[r].page)
  /\ UNCHANGED <<bridge, log, create, prompt, hint, int>>

\* append_offbox_entry
NoteInterrupt(i) ==
  /\ int[i] = "hit"
  /\ int' = [int EXCEPT ![i] = "done"]
  /\ known' = TRUE
  /\ cache' = Append(cache, Notice)
  /\ UNCHANGED <<bridge, log, listed, create, prompt, hint, tail, pager, wiped>>

\* Fault: the next cursor skips an entry.
PageShort(p) ==
  /\ known
  /\ pager[p].at \in {"new", "walking"}
  /\ LET start == pager[p].cursor
         end == IF start + PageSize < Len(cache) THEN start + PageSize ELSE Len(cache)
     IN pager' = [pager EXCEPT ![p].at = IF end < Len(cache) THEN "walking" ELSE "ended",
                               ![p].cursor = end + 1,
                               ![p].read = @ \o SubSeq(cache, start + 1, end)]
  /\ UNCHANGED <<bridge, log, hub, calls, hint>>

\* bot.transcript.offbox with the cursor of the previous page; a cursor behind the
\* end gets an empty last page.
Page(p) ==
  /\ known
  /\ pager[p].at \in {"new", "walking"}
  /\ LET start == pager[p].cursor
         end == IF start + PageSize < Len(cache) THEN start + PageSize ELSE Len(cache)
     IN pager' = IF start >= Len(cache)
                 THEN [pager EXCEPT ![p].at = "ended"]
                 ELSE [pager EXCEPT ![p].at = IF end < Len(cache) THEN "walking" ELSE "ended",
                                    ![p].cursor = end,
                                    ![p].read = @ \o SubSeq(cache, start + 1, end)]
  /\ UNCHANGED <<bridge, log, hub, calls, hint>>

-----------------------------------------------------------------------------
Next ==
  \/ CreateAgent \/ ListCreated \/ SeedCreated
  \/ \E k \in Prompts : Commit(k) \/ LoseHint(k) \/ ApplyHint(k) \/ Answer(k)
  \/ \E r \in Tails : ReadTail(r) \/ SeedTail(r)
  \/ \E i \in Interrupts : Interrupt(i) \/ NoteInterrupt(i)
  \/ \E p \in Pagers : Page(p)

Spec == Init /\ [][Next]_vars

-----------------------------------------------------------------------------
(* Properties *)

\* No entry is cached twice, though each turn arrives by its hint and by its answer,
\* before or after a tail page that already holds it, in any order.
NoEntryTwice ==
  \A m, n \in DOMAIN cache : cache[m] = cache[n] /\ cache[m] # Notice => m = n

\* From its answer on, a prompt's entries can be read from the cache in whatever order
\* hints, answers and notices arrive; only the page of a tail command, or createAgent's
\* own transcript, that was read without them and handled later takes them away.
AnsweredIsCached ==
  \A k \in Prompts :
    prompt[k].at = "answered" /\ ~bridge /\ k \notin wiped =>
      Range(Entries(k)) \subseteq Range(cache)

\* The pages of a walk are consecutive and follow the cache: whatever is ingested
\* meanwhile, nothing is skipped or read twice, unless the cache was replaced.
PagesAreExact ==
  \A p \in Pagers :
    ~pager[p].replaced =>
      /\ pager[p].cursor <= Len(cache)
      /\ pager[p].read = SubSeq(cache, 1, pager[p].cursor)
=============================================================================
