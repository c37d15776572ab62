-------------------------- MODULE StubTurnsProofs ---------------------------
(***************************************************************************)
(* TLAPS proofs about StubTurns, for any turns and interrupts.  OwnerInv   *)
(* says what is_running is worth until the first interrupt; TranscriptInv  *)
(* is about the entries, interrupts or not, HintInv relates them to the    *)
(* stages of the turns and to the hints, and CountInv counts them against  *)
(* the prompts that took the flag and the interrupts that hit a run.       *)
(***************************************************************************)
EXTENDS StubTurns, FiniteSetTheorems, SequenceTheorems, TLAPS

Stages == {"idle", "busy", "marked", "cleared", "armed", "due", "finished", "cut", "done",
           "dropped"}

OwnerInv ==
  /\ at \in [Turns -> Stages] /\ running \in BOOLEAN
  /\ call \in [Interrupts -> {"idle", "taken", "signalled", "hit", "miss", "dropped"}]
  /\ (\A i \in Interrupts : call[i] = "idle") =>
       /\ \A t, u \in Live : t = u
       /\ Live # {} => running

Entry == [who : {"user", "assistant"}, turn : Turns \cup {Nobody}, seq : Nat]
         \cup [who : {"system"}, seq : Nat]

TranscriptInv == transcript \in Seq(Entry) /\ nextSeq \in Nat /\ TranscriptWellFormed
-----------------------------------------------------------------------------
(* The flag *)

LEMMA OwnerStep == OwnerInv /\ [Next]_vars => OwnerInv'
<1> SUFFICES ASSUME OwnerInv, [Next]_vars PROVE OwnerInv'
  OBVIOUS
<1> USE DEF OwnerInv, Live, Stages, Goto
<1>1. ASSUME NEW t \in Turns, NEW now \in BOOLEAN, MarkRunning(t, now) PROVE OwnerInv'
  <2>1. CASE running
    BY <1>1, <2>1 DEF MarkRunning
  <2>2. CASE ~running
    <3>1. /\ at[t] = "idle" /\ at' = [at EXCEPT ![t] = "marked"] /\ running' = TRUE /\ call' = call
      BY <1>1, <2>2 DEF MarkRunning
    <3>2. (\A i \in Interrupts : call[i] = "idle") => \A u \in Turns : u \notin Live
      BY <2>2
    <3>3. QED
      BY <3>1, <3>2
  <2>3. QED
    BY <2>1, <2>2
<1>2. ASSUME NEW t \in Turns, ClearOld(t) PROVE OwnerInv'
  BY <1>2 DEF ClearOld
<1>3. ASSUME NEW t \in Turns, Arm(t) \/ Drop(t) PROVE OwnerInv'
  BY <1>3 DEF Arm, Drop
<1>4. ASSUME NEW t \in Turns, DelayEnds(t) PROVE OwnerInv'
  BY <1>4 DEF DelayEnds
<1>5. ASSUME NEW t \in Turns, Cut(t) PROVE OwnerInv'
  BY <1>5 DEF Cut
<1>6. ASSUME NEW t \in Turns, Finish(t) PROVE OwnerInv'
  <2>1. /\ t \in Live /\ call' = call /\ running' = FALSE
        /\ at' = [at EXCEPT ![t] = "finished"] \/ at' = [at EXCEPT ![t] = "done"]
    BY <1>6 DEF Finish
  <2>2. (\A i \in Interrupts : call[i] = "idle") => \A u \in Turns : u # t => u \notin Live
    BY <2>1
  <2>3. QED
    BY <2>1, <2>2
<1>7. ASSUME NEW t \in Turns, Publish(t) PROVE OwnerInv'
  BY <1>7 DEF Publish
<1>8. ASSUME NEW i \in Interrupts, Interrupt(i) PROVE OwnerInv'
  <2>1. at' = at /\ running' \in BOOLEAN /\ call'[i] # "idle"
        /\ call' \in [Interrupts -> {"idle", "taken", "signalled", "hit", "miss", "dropped"}]
    BY <1>8 DEF Interrupt, TakePending, Signal, MarkIdle, DropCall
  <2>2. QED
    BY <2>1
<1>9. CASE UNCHANGED vars
  BY <1>9 DEF vars
<1> HIDE DEF OwnerInv
<1>10. QED
  BY <1>1, <1>2, <1>3, <1>4, <1>5, <1>6, <1>7, <1>8, <1>9 DEF Next, Prompt, Task

LEMMA OwnerIsOne == OwnerInv => OneLive
<1> SUFFICES ASSUME OwnerInv, \A i \in Interrupts : call[i] = "idle" PROVE Cardinality(Live) <= 1
  BY DEF OneLive, OwnerInv
<1>1. CASE Live = {}
  BY <1>1, FS_EmptySet
<1>2. ASSUME NEW t \in Live PROVE Cardinality(Live) <= 1
  <2>1. Live = {t}
    BY DEF OwnerInv
  <2>2. QED
    BY <2>1, FS_Singleton
<1>3. QED
  BY <1>1, <1>2
-----------------------------------------------------------------------------
(* The transcript *)

LEMMA TranscriptStep == TranscriptInv /\ [Next]_vars => TranscriptInv'
<1> SUFFICES ASSUME TranscriptInv, [Next]_vars PROVE TranscriptInv'
  OBVIOUS
<1>0. /\ transcript \in Seq(Entry) /\ nextSeq \in Nat /\ nextSeq = Len(transcript) + 1
      /\ \A k \in 1..Len(transcript) :
           /\ transcript[k].seq = k
           /\ transcript[k].who = "user" =>
                /\ k < Len(transcript) /\ transcript[k + 1].who = "assistant"
                /\ transcript[k + 1].turn = transcript[k].turn
  BY DEF TranscriptInv, TranscriptWellFormed
<1>1. ASSUME NEW t \in Turns, transcript' = transcript \o Pair(t), nextSeq' = nextSeq + 2
      PROVE TranscriptInv'
  <2> DEFINE u == [who |-> "user", turn |-> t, seq |-> nextSeq]
             v == [who |-> "assistant", turn |-> t, seq |-> nextSeq + 1]
  <2>1. /\ u \in Entry /\ v \in Entry /\ transcript' = transcript \o <<u, v>>
        /\ u.seq = nextSeq /\ v.seq = nextSeq + 1 /\ u.who = "user" /\ v.who = "assistant"
        /\ u.turn = v.turn
    BY <1>0, <1>1 DEF Entry, Pair
  <2> HIDE DEF u, v
  <2>2. transcript' \in Seq(Entry) /\ Len(transcript') = Len(transcript) + 2
    BY <1>0, <2>1
  <2>3. /\ \A k \in 1..Len(transcript) : transcript'[k] = transcript[k]
        /\ transcript'[Len(transcript) + 1] = u /\ transcript'[Len(transcript) + 2] = v
    BY <1>0, <2>1
  <2>4. ASSUME NEW k \in 1..Len(transcript')
        PROVE /\ transcript'[k].seq = k
              /\ transcript'[k].who = "user" =>
                   /\ k < Len(transcript') /\ transcript'[k + 1].who = "assistant"
                   /\ transcript'[k + 1].turn = transcript'[k].turn
    <3>1. CASE k \in 1..Len(transcript)
      BY <1>0, <2>2, <2>3, <3>1
    <3>2. CASE k = Len(transcript) + 1
      <4>1. k + 1 = Len(transcript) + 2 /\ k < Len(transcript')
        BY <1>0, <2>2, <3>2
      <4>2. transcript'[k] = u /\ transcript'[k + 1] = v /\ transcript'[k].seq = k
        BY <1>0, <2>1, <2>3, <3>2, <4>1
      <4>3. QED
        BY <2>1, <4>1, <4>2
    <3>3. CASE k = Len(transcript) + 2
      BY <1>0, <2>1, <2>2, <2>3, <3>3
    <3>4. QED
      BY <1>0, <2>2, <3>1, <3>2, <3>3
  <2>5. DOMAIN transcript' = 1..Len(transcript')
    BY <2>2
  <2>6. nextSeq' \in Nat /\ nextSeq' = Len(transcript') + 1
    BY <1>0, <1>1, <2>2
  <2>7. QED
    BY <2>2, <2>4, <2>5, <2>6 DEF TranscriptInv, TranscriptWellFormed
<1>2. ASSUME transcript' = Append(transcript, [who |-> "system", seq |-> nextSeq]),
             nextSeq' = nextSeq + 1
      PROVE TranscriptInv'
  <2> DEFINE u == [who |-> "system", seq |-> nextSeq]
  <2>1. u \in Entry /\ transcript' = Append(transcript, u) /\ u.seq = nextSeq /\ u.who # "user"
    BY <1>0, <1>2 DEF Entry
  <2> HIDE DEF u
  <2>2. /\ transcript' \in Seq(Entry) /\ Len(transcript') = Len(transcript) + 1
        /\ \A k \in 1..Len(transcript) : transcript'[k] = transcript[k]
        /\ transcript'[Len(transcript) + 1] = u
    BY <1>0, <2>1
  <2>3. ASSUME NEW k \in 1..Len(transcript')
        PROVE /\ transcript'[k].seq = k
              /\ transcript'[k].who = "user" =>
                   /\ k < Len(transcript') /\ transcript'[k + 1].who = "assistant"
                   /\ transcript'[k + 1].turn = transcript'[k].turn
    BY <1>0, <2>1, <2>2
  <2>4. QED
    BY <1>0, <1>2, <2>2, <2>3 DEF TranscriptInv, TranscriptWellFormed
<1>3. ASSUME UNCHANGED log PROVE TranscriptInv'
  BY <1>3 DEF log, TranscriptInv, TranscriptWellFormed
<1> HIDE DEF TranscriptInv
<1>4. QED
  BY <1>1, <1>2, <1>3
  DEF Next, Prompt, Task, Interrupt, MarkRunning, ClearOld, Arm, Drop, DelayEnds, Cut, Finish,
      Publish, TakePending, Signal, MarkIdle, DropCall, log, vars

\* finish_turn and interrupt_agent_run: the entries are numbered without a hole,
\* and a prompt is followed by its own echo, whatever interleaves.
THEOREM TranscriptsWellFormed == Spec => []TranscriptWellFormed
<1>1. Init => TranscriptInv
  BY DEF Init, TranscriptInv, TranscriptWellFormed, Entry
<1>2. TranscriptInv => TranscriptWellFormed
  BY DEF TranscriptInv
<1>3. QED
  BY <1>1, <1>2, TranscriptStep, PTL DEF Spec
-----------------------------------------------------------------------------
(* The hints *)

\* A turn is committed from finish_turn on, and hinted one step later.
HintInv ==
  /\ at \in [Turns -> Stages]
  /\ hints \in Seq(Turns)
  /\ \A t \in Turns :
       /\ Committed(t) => at[t] \in {"finished", "done"}
       /\ at[t] = "finished" => Committed(t)
  /\ HintsFollowCommits

\* What a step may do to the entries, as far as the commits go.
LEMMA PairCommits ==
  ASSUME TranscriptInv, NEW t \in Turns, transcript' = transcript \o Pair(t)
  PROVE  \A s \in Turns : Committed(s)' <=> Committed(s) \/ s = t
<1>1. PICK q \in Seq(Entry), x \in Entry, y \in Entry :
        /\ q = transcript /\ Pair(t) = <<x, y>>
        /\ x.who = "user" /\ y.who = "assistant" /\ y.turn = t
  BY DEF TranscriptInv, Entry, Pair
<1>2. PICK r : r = q \o <<x, y>>
  OBVIOUS
<1>3. PICK n \in Nat : n = Len(q)
  BY <1>1
<1>4. /\ DOMAIN q = 1 .. n /\ DOMAIN r = 1 .. n + 2
      /\ \A k \in 1 .. n : r[k] = q[k]
      /\ r[n + 1] = x /\ r[n + 2] = y
  <2>1. <<x, y>> \in Seq(Entry) /\ Len(<<x, y>>) = 2
    BY <1>1
  <2>2. QED
    BY <1>1, <1>2, <1>3, <2>1
<1>5. transcript = q /\ transcript' = r
  BY <1>1, <1>2
<1>6. ASSUME NEW s \in Turns, Committed(s) \/ s = t PROVE Committed(s)'
  <2>1. CASE s = t
    <3>1. n + 2 \in DOMAIN r /\ r[n + 2].who = "assistant" /\ r[n + 2].turn = s
      BY <1>1, <1>3, <1>4, <2>1
    <3>2. QED
      BY <1>5, <3>1 DEF Committed
  <2>2. CASE Committed(s)
    <3>1. PICK k \in 1 .. n : q[k].who = "assistant" /\ q[k].turn = s
      BY <1>4, <1>5, <2>2 DEF Committed
    <3>2. k \in DOMAIN r /\ r[k] = q[k]
      BY <1>3, <1>4
    <3>3. QED
      BY <1>5, <3>1, <3>2 DEF Committed
  <2>3. QED
    BY <1>6, <2>1, <2>2
<1>7. ASSUME NEW s \in Turns, Committed(s)', s # t PROVE Committed(s)
  <2>1. PICK k \in 1 .. n + 2 : r[k].who = "assistant" /\ r[k].turn = s
    BY <1>4, <1>5, <1>7 DEF Committed
  <2>2. k \in 1 .. n
    BY <1>1, <1>3, <1>4, <1>7, <2>1
  <2>3. QED
    BY <1>4, <1>5, <2>1, <2>2 DEF Committed
<1>8. QED
  BY <1>6, <1>7

LEMMA NoticeCommits ==
  ASSUME TranscriptInv, transcript' = Append(transcript, [who |-> "system", seq |-> nextSeq])
  PROVE  \A s \in Turns : Committed(s)' <=> Committed(s)
<1>1. PICK q \in Seq(Entry), x \in Entry :
        q = transcript /\ x = [who |-> "system", seq |-> nextSeq] /\ x.who = "system"
  BY DEF TranscriptInv, Entry
<1>2. PICK r : r = Append(q, x)
  OBVIOUS
<1>3. PICK n \in Nat : n = Len(q)
  BY <1>1
<1>4. /\ DOMAIN q = 1 .. n /\ DOMAIN r = 1 .. n + 1
      /\ \A k \in 1 .. n : r[k] = q[k]
      /\ r[n + 1] = x
  BY <1>1, <1>2, <1>3
<1>5. transcript = q /\ transcript' = r
  BY <1>1, <1>2
<1>6. QED
  BY <1>1, <1>3, <1>4, <1>5 DEF Committed

LEMMA HintedOnce ==
  ASSUME NEW S, NEW q \in Seq(S), NEW x \in S, IsInjective(q), x \notin Range(q)
  PROVE  /\ Append(q, x) \in Seq(S)
         /\ IsInjective(Append(q, x))
         /\ Range(Append(q, x)) = Range(q) \cup {x}
<1>1. PICK r : r = Append(q, x)
  OBVIOUS
<1>2. PICK n \in Nat : n = Len(q)
  OBVIOUS
<1>3. /\ r \in Seq(S) /\ DOMAIN q = 1 .. n /\ DOMAIN r = 1 .. n + 1
      /\ \A k \in 1 .. n : r[k] = q[k]
      /\ r[n + 1] = x
  BY <1>1, <1>2
<1>4. Range(q) = {q[k] : k \in 1 .. n} /\ Range(r) = {r[k] : k \in 1 .. n + 1}
  BY <1>3 DEF Range
<1>5. 1 .. n + 1 = (1 .. n) \cup {n + 1}
  BY <1>2
<1>6. IsInjective(r)
  BY <1>3, <1>4, <1>5 DEF IsInjective
<1>7. Range(r) = Range(q) \cup {x}
  BY <1>3, <1>4, <1>5
<1>8. QED
  BY <1>1, <1>3, <1>6, <1>7

LEMMA HintStep == TranscriptInv /\ HintInv /\ [Next]_vars => HintInv'
<1> SUFFICES ASSUME TranscriptInv, HintInv, [Next]_vars PROVE HintInv'
  OBVIOUS
<1>0. /\ at \in [Turns -> Stages] /\ hints \in Seq(Turns)
      /\ \A t \in Turns : /\ Committed(t) => at[t] \in {"finished", "done"}
                          /\ at[t] = "finished" => Committed(t)
      /\ IsInjective(hints) /\ Range(hints) = {t \in Turns : Committed(t) /\ at[t] = "done"}
  BY DEF HintInv, HintsFollowCommits
<1>1. ASSUME NEW t \in Turns, at[t] \notin {"finished", "done"},
             NEW stage \in Stages \ {"finished"}, at' = [at EXCEPT ![t] = stage],
             UNCHANGED <<transcript, hints>>
      PROVE  HintInv'
  <2>1. \A s \in Turns : Committed(s)' <=> Committed(s)
    BY <1>1 DEF Committed
  <2>2. {s \in Turns : Committed(s) /\ at[s] = "done"}
          = {s \in Turns : Committed(s)' /\ at'[s] = "done"}
    <3>1. ASSUME NEW s \in Turns PROVE at'[s] = "done" <=> at[s] = "done" \/ (s = t /\ stage = "done")
      BY <1>0, <1>1
    <3>2. Committed(t) => FALSE
      BY <1>1, Zenon DEF HintInv
    <3>3. ASSUME NEW s \in Turns
          PROVE  Committed(s) /\ at[s] = "done" <=> Committed(s)' /\ at'[s] = "done"
      BY <2>1, <3>1, <3>2
    <3>4. QED
      BY <3>3
  <2>3. QED
    BY <1>0, <1>1, <2>1, <2>2 DEF HintInv, HintsFollowCommits
<1>2. ASSUME NEW t \in Turns, Finish(t) PROVE HintInv'
  <2>1. CASE running
    <3>1. /\ at[t] = "due" /\ hints' = hints
          /\ \/ at' = [at EXCEPT ![t] = "finished"] /\ transcript' = transcript \o Pair(t)
             \/ ~running
      BY <1>2 DEF Finish, Goto
    <3>2. at' = [at EXCEPT ![t] = "finished"] /\ transcript' = transcript \o Pair(t)
      BY <2>1, <3>1
    <3>3. \A s \in Turns : Committed(s)' <=> Committed(s) \/ s = t
      BY <3>2, PairCommits
    <3>4. {s \in Turns : Committed(s) /\ at[s] = "done"}
            = {s \in Turns : Committed(s)' /\ at'[s] = "done"}
      BY <1>0, <3>1, <3>2, <3>3
    <3>5. at' \in [Turns -> Stages]
      BY <1>0, <3>2 DEF Stages
    <3>6. QED
      BY <1>0, <3>1, <3>2, <3>3, <3>4, <3>5 DEF HintInv, HintsFollowCommits
  <2>2. CASE ~running
    <3>1. at[t] = "due" /\ at' = [at EXCEPT ![t] = "done"] /\ UNCHANGED <<transcript, hints>>
      BY <1>2, <2>2 DEF Finish, Goto, log
    <3>2. QED
      BY <1>1, <3>1 DEF Stages
  <2>3. QED
    BY <2>1, <2>2
<1>3. ASSUME NEW t \in Turns, Publish(t) PROVE HintInv'
  <2>1. /\ at[t] = "finished" /\ at' = [at EXCEPT ![t] = "done"]
        /\ hints' = Append(hints, t) /\ transcript' = transcript
    BY <1>3 DEF Publish, Goto, log
  <2>2. \A s \in Turns : Committed(s)' <=> Committed(s)
    BY <2>1 DEF Committed
  <2>3. t \notin Range(hints)
    BY <1>0, <2>1
  <2>4. /\ hints' \in Seq(Turns) /\ IsInjective(hints')
        /\ Range(hints') = Range(hints) \cup {t}
    BY <1>0, <2>1, <2>3, HintedOnce
  <2>5. Range(hints') = {s \in Turns : Committed(s)' /\ at'[s] = "done"}
    <3>1. ASSUME NEW s \in Turns PROVE at'[s] = "done" <=> at[s] = "done" \/ s = t
      BY <1>0, <2>1
    <3>2. Committed(t)
      BY <2>1, Zenon DEF HintInv
    <3>3. ASSUME NEW s \in Turns
          PROVE  (Committed(s) /\ at[s] = "done") \/ s = t <=> Committed(s)' /\ at'[s] = "done"
      BY <2>2, <3>1, <3>2
    <3>4. Range(hints') = {s \in Turns : Committed(s) /\ at[s] = "done"} \cup {t}
      BY <1>0, <2>4
    <3>5. QED
      BY <3>3, <3>4
  <2>6. at' \in [Turns -> Stages]
    BY <1>0, <2>1 DEF Stages
  <2>7. QED
    BY <1>0, <2>1, <2>2, <2>4, <2>5, <2>6 DEF HintInv, HintsFollowCommits
<1>4. ASSUME UNCHANGED <<at, hints>>, \A s \in Turns : Committed(s)' <=> Committed(s)
      PROVE  HintInv'
  <2>1. {s \in Turns : Committed(s) /\ at[s] = "done"}
          = {s \in Turns : Committed(s)' /\ at'[s] = "done"}
    BY <1>4
  <2>2. QED
    BY <1>0, <1>4, <2>1 DEF HintInv, HintsFollowCommits
<1>5. ASSUME UNCHANGED <<at, hints, transcript>> PROVE HintInv'
  <2>1. \A s \in Turns : Committed(s)' <=> Committed(s)
    BY <1>5 DEF Committed
  <2>2. QED
    BY <1>4, <1>5, <2>1
<1>6. ASSUME NEW t \in Turns, NEW now \in BOOLEAN, MarkRunning(t, now) PROVE HintInv'
  <2>1. /\ at[t] = "idle" /\ UNCHANGED <<transcript, hints>>
        /\ at' = [at EXCEPT ![t] = "busy"] \/ at' = [at EXCEPT ![t] = "marked"]
    BY <1>6 DEF MarkRunning, Goto, log
  <2>2. QED
    BY <1>1, <2>1 DEF Stages
<1>7. ASSUME NEW t \in Turns, ClearOld(t) \/ Arm(t) \/ Drop(t) \/ DelayEnds(t) \/ Cut(t)
      PROVE  HintInv'
  <2>1. PICK stage \in {"cleared", "armed", "dropped", "due", "cut"} : at' = [at EXCEPT ![t] = stage]
    BY <1>7 DEF ClearOld, Arm, Drop, DelayEnds, Cut, Goto
  <2>2. at[t] \in {"marked", "cleared", "armed"} /\ UNCHANGED <<transcript, hints>>
    BY <1>7 DEF ClearOld, Arm, Drop, DelayEnds, Cut, log
  <2>3. QED
    BY <1>1, <2>1, <2>2 DEF Stages
<1>8. ASSUME NEW i \in Interrupts, Interrupt(i) PROVE HintInv'
  <2>1. /\ UNCHANGED <<at, hints>>
        /\ \/ transcript' = transcript
           \/ transcript' = Append(transcript, [who |-> "system", seq |-> nextSeq])
    BY <1>8 DEF Interrupt, TakePending, Signal, MarkIdle, DropCall, log
  <2>2. QED
    BY <1>4, <1>5, <2>1, NoticeCommits
<1> HIDE DEF HintInv
<1>9. QED
  BY <1>2, <1>3, <1>5, <1>6, <1>7, <1>8 DEF Next, Prompt, Task, vars, log

LEMMA HintInit == Init => HintInv
<1> SUFFICES ASSUME Init PROVE HintInv
  OBVIOUS
<1>1. \A t \in Turns : ~Committed(t) /\ at[t] = "idle"
  BY NobodyAssumption DEF Init, Committed
<1>2. hints \in Seq(Turns) /\ IsInjective(hints) /\ Range(hints) = {}
  BY DEF Init, IsInjective, Range
<1>3. QED
  BY <1>1, <1>2 DEF Init, HintInv, HintsFollowCommits, Stages

\* finish_turn, clear_pending and the hint: the hub is told of exactly the turns whose
\* entries are in the transcript, once each and after they are, and the transcript is
\* numbered without a hole.
THEOREM TurnsRecorded == Spec => []TurnsAreRecorded
<1>2. Init => TranscriptInv
  BY DEF Init, TranscriptInv, TranscriptWellFormed, Entry
<1>3. TranscriptInv /\ HintInv => TurnsAreRecorded
  BY DEF TranscriptInv, HintInv, TurnsAreRecorded
<1>4. QED
  BY <1>2, <1>3, HintInit, TranscriptStep, HintStep, PTL DEF Spec
-----------------------------------------------------------------------------
(* The books of the flag *)

Took == {t \in Turns : at[t] \notin {"idle", "busy"}}
Echoed == {t \in Turns : Committed(t)}
Hits == {i \in Interrupts : call[i] = "hit"}

CountInv ==
  /\ IsFiniteSet(Took) /\ IsFiniteSet(Echoed) /\ IsFiniteSet(Hits)
  /\ running \in BOOLEAN
  /\ Cardinality(Took) = Cardinality(Echoed) + Cardinality(Hits) + (IF running THEN 1 ELSE 0)

\* A step that changes neither the flag nor the sets.
LEMMA SameCount ==
  ASSUME CountInv, running' = running, Took' = Took, Echoed' = Echoed, Hits' = Hits
  PROVE  CountInv'
  BY DEF CountInv

\* The flag goes up for a prompt.
LEMMA FlagUp ==
  ASSUME CountInv, ~running, running' = TRUE, NEW t, t \notin Took, Took' = Took \cup {t},
         Echoed' = Echoed, Hits' = Hits
  PROVE  CountInv'
<1>1. IsFiniteSet(Took') /\ Cardinality(Took') = Cardinality(Took) + 1
  BY FS_AddElement DEF CountInv
<1>2. Cardinality(Echoed) \in Nat /\ Cardinality(Hits) \in Nat
  BY FS_CardinalityType DEF CountInv
<1>3. QED
  BY <1>1, <1>2 DEF CountInv

\* It comes down with an echo or for an interrupt.
LEMMA FlagDown ==
  ASSUME CountInv, running, running' = FALSE, Took' = Took, NEW x,
         \/ x \notin Echoed /\ Echoed' = Echoed \cup {x} /\ Hits' = Hits
         \/ x \notin Hits /\ Hits' = Hits \cup {x} /\ Echoed' = Echoed
  PROVE  CountInv'
<1>0. /\ IsFiniteSet(Took) /\ IsFiniteSet(Echoed) /\ IsFiniteSet(Hits)
      /\ Took' = Took /\ running' = FALSE
      /\ Cardinality(Took) = Cardinality(Echoed) + Cardinality(Hits) + 1
  BY DEF CountInv
<1>1. Cardinality(Echoed) \in Nat /\ Cardinality(Hits) \in Nat
  BY FS_CardinalityType DEF CountInv
<1>2. CASE x \notin Echoed /\ Echoed' = Echoed \cup {x} /\ Hits' = Hits
  <2>1. IsFiniteSet(Echoed') /\ Cardinality(Echoed') = Cardinality(Echoed) + 1
    BY <1>2, FS_AddElement DEF CountInv
  <2>2. Cardinality(Took') = Cardinality(Echoed') + Cardinality(Hits') + 0
    BY <1>1, <1>0, <1>2, <2>1
  <2>3. QED
    BY <1>0, <1>2, <2>1, <2>2 DEF CountInv
<1>3. CASE x \notin Hits /\ Hits' = Hits \cup {x} /\ Echoed' = Echoed
  <2>1. IsFiniteSet(Hits') /\ Cardinality(Hits') = Cardinality(Hits) + 1
    BY <1>3, FS_AddElement DEF CountInv
  <2>2. Cardinality(Took') = Cardinality(Echoed') + Cardinality(Hits') + 0
    BY <1>1, <1>0, <1>3, <2>1
  <2>3. QED
    BY <1>0, <1>3, <2>1, <2>2 DEF CountInv
<1>4. QED
  BY <1>2, <1>3

LEMMA CountStep == OwnerInv /\ TranscriptInv /\ HintInv /\ CountInv /\ [Next]_vars => CountInv'
<1> SUFFICES ASSUME OwnerInv, TranscriptInv, HintInv, CountInv, [Next]_vars PROVE CountInv'
  OBVIOUS
<1>0. /\ at \in [Turns -> Stages] /\ running \in BOOLEAN
      /\ call \in [Interrupts -> {"idle", "taken", "signalled", "hit", "miss", "dropped"}]
  BY DEF OwnerInv
<1>1. transcript' = transcript => Echoed' = Echoed
  BY DEF Echoed, Committed
<1>2. ASSUME NEW t \in Turns, NEW now \in BOOLEAN, MarkRunning(t, now) PROVE CountInv'
  <2>1. at[t] = "idle" /\ call' = call /\ Echoed' = Echoed /\ Hits' = Hits
    BY <1>1, <1>2 DEF MarkRunning, log, Hits
  <2>2. CASE running
    <3>1. at' = [at EXCEPT ![t] = "busy"] /\ running' = running
      BY <1>2, <2>2 DEF MarkRunning, Goto
    <3>2. Took' = Took
      BY <1>0, <2>1, <3>1 DEF Took
    <3>3. QED
      BY <2>1, <3>1, <3>2, SameCount
  <2>3. CASE ~running
    <3>1. at' = [at EXCEPT ![t] = "marked"] /\ running' = TRUE
      BY <1>2, <2>3 DEF MarkRunning, Goto
    <3>2. Took' = Took \cup {t} /\ t \notin Took
      BY <1>0, <2>1, <3>1 DEF Took
    <3>3. QED
      BY <2>1, <2>3, <3>1, <3>2, FlagUp
  <2>4. QED
    BY <2>2, <2>3
<1>3. ASSUME NEW t \in Turns, NEW stage \in Stages \ {"idle", "busy"}, at[t] \notin {"idle", "busy"},
             at' = [at EXCEPT ![t] = stage]
      PROVE  Took' = Took
  BY <1>0, <1>3 DEF Took
<1>4. ASSUME NEW t \in Turns, Finish(t), running PROVE CountInv'
  <2>1. /\ at[t] = "due" /\ running' = FALSE /\ call' = call /\ transcript' = transcript \o Pair(t)
        /\ at' = [at EXCEPT ![t] = "finished"]
    BY <1>4 DEF Finish, Goto
  <2>2. \A u \in Turns : Committed(u)' <=> Committed(u) \/ u = t
    BY <2>1, PairCommits
  <2>3. t \notin Echoed
    BY <2>1 DEF HintInv, Echoed
  <2>4. Echoed' = Echoed \cup {t}
    BY <2>2 DEF Echoed
  <2>5. Took' = Took /\ Hits' = Hits
    BY <1>3, <2>1 DEF Hits, Stages
  <2>6. QED
    BY <1>4, <2>1, <2>3, <2>4, <2>5, FlagDown
<1>5. ASSUME NEW t \in Turns,
             \/ ClearOld(t) \/ Arm(t) \/ Drop(t) \/ DelayEnds(t) \/ Cut(t) \/ Publish(t)
             \/ Finish(t) /\ ~running
      PROVE  CountInv'
  <2>1. /\ running' = running /\ call' = call /\ transcript' = transcript
        /\ at[t] \in {"marked", "cleared", "armed", "due", "finished"}
        /\ \E stage \in {"cleared", "armed", "dropped", "due", "cut", "done"} :
             at' = [at EXCEPT ![t] = stage]
    BY <1>5 DEF ClearOld, Arm, Drop, DelayEnds, Cut, Publish, Finish, Goto, log
  <2>2. Took' = Took
    BY <1>3, <2>1 DEF Stages
  <2>3. Hits' = Hits
    BY <2>1 DEF Hits
  <2>4. QED
    BY <1>1, <2>1, <2>2, <2>3, SameCount
<1>6. ASSUME NEW i \in Interrupts, MarkIdle(i), running PROVE CountInv'
  <2>1. /\ call[i] = "signalled" /\ call' = [call EXCEPT ![i] = "hit"] /\ running' = FALSE /\ at' = at
        /\ transcript' = Append(transcript, [who |-> "system", seq |-> nextSeq])
    BY <1>6 DEF MarkIdle
  <2>2. \A u \in Turns : Committed(u)' <=> Committed(u)
    BY <2>1, NoticeCommits
  <2>3. Echoed' = Echoed
    BY <2>2 DEF Echoed
  <2>4. i \notin Hits /\ Hits' = Hits \cup {i} /\ Took' = Took
    BY <1>0, <2>1 DEF Hits, Took
  <2>5. QED
    BY <1>6, <2>1, <2>3, <2>4, FlagDown
<1>7. ASSUME NEW i \in Interrupts,
             TakePending(i) \/ Signal(i) \/ DropCall(i) \/ (MarkIdle(i) /\ ~running)
      PROVE  CountInv'
  <2>1. /\ running' = running /\ at' = at /\ transcript' = transcript
        /\ call[i] \in {"idle", "taken", "signalled"}
        /\ \E stage \in {"taken", "signalled", "dropped", "miss"} : call' = [call EXCEPT ![i] = stage]
    BY <1>7 DEF TakePending, Signal, DropCall, MarkIdle, log
  <2>2. Hits' = Hits
    BY <1>0, <2>1 DEF Hits
  <2>3. Took' = Took
    BY <2>1 DEF Took
  <2>4. QED
    BY <1>1, <2>1, <2>2, <2>3, SameCount
<1>8. CASE UNCHANGED vars
  <2>1. Took' = Took /\ Hits' = Hits /\ running' = running /\ transcript' = transcript
    BY <1>8 DEF vars, log, Took, Hits
  <2>2. QED
    BY <1>1, <2>1, SameCount
<1>9. QED
  BY <1>2, <1>4, <1>5, <1>6, <1>7, <1>8 DEF Next, Prompt, Task, Interrupt

\* mark_running, finish_turn and interrupt_agent_run: until an interrupt begins no two
\* turns are under way at once and the flag does not drop under one of them, and at any
\* time the flag came down once for each time it went up, with an echo or with a
\* hadActiveRun, whatever calls were dropped between two locks.
THEOREM FlagIsOwned == Spec => []FlagIsExact
<1>1. Init => OwnerInv
  BY DEF Init, OwnerInv, Live, Stages
<1>2. Init => TranscriptInv
  BY DEF Init, TranscriptInv, TranscriptWellFormed, Entry
<1>3. Init => CountInv
  <2> SUFFICES ASSUME Init PROVE CountInv
    OBVIOUS
  <2>1. \A t \in Turns : ~Committed(t)
    BY NobodyAssumption DEF Init, Committed
  <2>2. Took = {} /\ Echoed = {} /\ Hits = {} /\ running = FALSE
    BY <2>1 DEF Init, Took, Echoed, Hits
  <2>3. QED
    <3>1. IsFiniteSet({}) /\ Cardinality({}) = 0
      BY FS_EmptySet
    <3>2. /\ IsFiniteSet(Took) /\ IsFiniteSet(Echoed) /\ IsFiniteSet(Hits)
          /\ Cardinality(Took) = 0 /\ Cardinality(Echoed) = 0 /\ Cardinality(Hits) = 0
      BY <2>2, <3>1
    <3>3. Cardinality(Took) = Cardinality(Echoed) + Cardinality(Hits) + 0
      BY <3>2
    <3>4. /\ running \in BOOLEAN
          /\ Cardinality(Took) = Cardinality(Echoed) + Cardinality(Hits) + (IF running THEN 1 ELSE 0)
      BY <2>2, <3>3
    <3>5. QED
      BY <3>2, <3>4, Zenon DEF CountInv
<1>4. OwnerInv /\ CountInv => FlagIsExact
  BY OwnerIsOne DEF CountInv, FlagIsExact, RunsAreAccounted, Took, Echoed, Hits
<1>5. QED
  BY <1>1, <1>2, <1>3, <1>4, HintInit, OwnerStep, TranscriptStep, HintStep, CountStep, PTL DEF Spec
=============================================================================
