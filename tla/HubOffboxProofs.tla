--------------------------- MODULE HubOffboxProofs ---------------------------
(***************************************************************************)
(* TLAPS proofs about HubOffbox, for any prompts, tail pages, interrupts,  *)
(* walks and page size.  CacheInv says that what the cache is made of has  *)
(* no entry twice: what it holds, the pages on their way to replace it,    *)
(* and the entries a prompt may still add.  WalkInv compares what a walk   *)
(* has read with the cache as it is now.                                   *)
(***************************************************************************)
EXTENDS HubOffbox, SequenceTheorems, TLAPS

Once(s) == \A m, n \in 1 .. Len(s) : s[m] = s[n] /\ s[m] # Notice => m = n

\* A prompt that was committed has two entries of the log, and a hint was
\* posted for nothing else; a gateway without the agent has no log.
LogInv ==
  /\ TypeOK
  /\ create = "none" <=> log = 0
  /\ \A k \in Prompts :
       /\ prompt[k].at # "new" => prompt[k].user \in 1 .. log - 1
       /\ hint[k] = "posted" => prompt[k].at # "new"

CacheInv == Once(cache) /\ \A r \in Tails : Once(tail[r].page)

\* A walk begins with the first entry, and has read what lies before its cursor.
WalkInv ==
  /\ \A p \in Pagers : pager[p].at = "new" => pager[p].cursor = 0 /\ pager[p].read = <<>>
  /\ PagesAreExact

OffboxInv == LogInv /\ CacheInv /\ AnsweredIsCached /\ WalkInv
-----------------------------------------------------------------------------
(* Sequences *)

\* A longer log has the entries of a shorter one.
LEMMA SeqGrows ==
  ASSUME NEW m \in Nat, NEW n \in Nat, m <= n
  PROVE  /\ \A s \in Seq(0 .. m) : s \in Seq(0 .. n)
         /\ \A s \in Seq(1 .. m) : s \in Seq(1 .. n)
<1>1. 0 .. m \subseteq 0 .. n /\ 1 .. m \subseteq 1 .. n
  OBVIOUS
<1>2. QED
  BY <1>1, SeqMonotonic

\* What is appended comes after all that was there.
LEMMA Appended ==
  ASSUME NEW S, NEW s \in Seq(S), NEW t \in Seq(S)
  PROVE  /\ s \o t \in Seq(S) /\ Len(s) <= Len(s \o t)
         /\ Range(s) \subseteq Range(s \o t)
         /\ \A n \in 0 .. Len(s) : SubSeq(s \o t, 1, n) = SubSeq(s, 1, n)
<1>1. /\ s \o t \in Seq(S) /\ Len(s \o t) = Len(s) + Len(t)
      /\ Len(s) \in Nat /\ Len(t) \in Nat
      /\ Range(s \o t) = Range(s) \cup Range(t)
  BY ConcatProperties, LenProperties, RangeConcatenation
<1>2. ASSUME NEW n \in 0 .. Len(s) PROVE SubSeq(s \o t, 1, n) = SubSeq(s, 1, n)
  <2>1. CASE n = 0
    BY <2>1, SubSeqEmpty
  <2>2. CASE n # 0
    BY <2>2, SubSeqOfConcat1
  <2>3. QED
    BY <2>1, <2>2
<1>3. QED
  BY <1>1, <1>2

\* A page that follows another continues it.
LEMMA PagesJoin ==
  ASSUME NEW S, NEW s \in Seq(S), NEW m \in 0 .. Len(s), NEW n \in m .. Len(s)
  PROVE  SubSeq(s, 1, m) \o SubSeq(s, m + 1, n) = SubSeq(s, 1, n)
BY ConcatAdjacentSubSeq, LenProperties

\* What Ingest makes of a cache s and one entry.
Add(s, e) == s \o (IF e \in Range(s) THEN <<>> ELSE <<e>>)

\* Adding what is not there adds it once.
LEMMA AddOnce ==
  ASSUME NEW S, NEW s \in Seq(S), Once(s), NEW e \in S
  PROVE  /\ Add(s, e) \in Seq(S) /\ Once(Add(s, e))
         /\ Range(Add(s, e)) = Range(s) \cup {e}
<1>1. CASE e \in Range(s)
  <2>1. Add(s, e) = s
    BY <1>1, ConcatEmptySeq DEF Add
  <2>2. QED
    BY <1>1, <2>1
<1>2. CASE e \notin Range(s)
  <2> DEFINE one == <<e>>
             t == s \o one
  <2>1. one \in Seq(S) /\ Len(one) = 1 /\ one[1] = e /\ Range(one) = {e}
    BY DEF Range
  <2>2. Add(s, e) = t
    BY <1>2 DEF Add
  <2> HIDE DEF one
  <2>3. t \in Seq(S) /\ Range(t) = Range(s) \cup {e}
    BY <2>1, ConcatProperties, RangeConcatenation
  <2>4. /\ Len(t) = Len(s) + Len(one) /\ Len(s) \in Nat
        /\ \A i \in 1 .. Len(s) + Len(one) : t[i] = IF i <= Len(s) THEN s[i] ELSE one[i - Len(s)]
    BY <2>1, ConcatProperties, LenProperties
  <2>5. \A i \in 1 .. Len(s) : s[i] # e
    BY <1>2, RangeEquality
  <2> HIDE DEF t
  <2>6. Once(t)
    BY <2>1, <2>4, <2>5 DEF Once
  <2>7. QED
    BY <2>2, <2>3, <2>6
<1>3. QED
  BY <1>1, <1>2
-----------------------------------------------------------------------------
(* The operators of the cache *)

LEMMA IngestStep ==
  ASSUME LogInv, Once(cache), NEW k \in Prompts, prompt[k].at # "new", Ingest(k)
  PROVE  /\ cache' \in Seq(0 .. log) /\ Once(cache')
         /\ \E new \in Seq(0 .. log) : cache' = cache \o new
         /\ Range(Entries(k)) \subseteq Range(cache')
<1> DEFINE u == prompt[k].user
           v == u + 1
           S == 0 .. log
           New(e) == IF e \in Range(cache) THEN <<>> ELSE <<e>>
<1>1. /\ u \in S /\ v \in S /\ u # v
      /\ Entries(k)[1] = u /\ Entries(k)[2] = v /\ Entries(k) = <<u, v>> /\ cache \in Seq(S)
  BY DEF LogInv, TypeOK, Entries
<1>2. cache' = cache \o New(u) \o New(v)
  BY <1>1 DEF Ingest
<1>3. Range(Entries(k)) = {u, v}
  BY <1>1 DEF Range
<1> HIDE DEF u, v, S
<1>4. New(u) \in Seq(S) /\ New(v) \in Seq(S)
  BY <1>1
<1>5. Add(cache, u) = cache \o New(u)
  BY DEF Add
<1>6. /\ Add(cache, u) \in Seq(S) /\ Once(Add(cache, u))
      /\ Range(Add(cache, u)) = Range(cache) \cup {u}
  BY <1>1, AddOnce
<1>7. cache' = Add(Add(cache, u), v)
  BY <1>1, <1>2, <1>5, <1>6 DEF Add
<1> DEFINE new == New(u) \o New(v)
<1>8. cache' \in Seq(S) /\ Once(cache') /\ Range(cache') = Range(cache) \cup {u, v}
  <2>1. PICK half \in Seq(S) : /\ half = Add(cache, u) /\ Once(half)
                               /\ Range(half) = Range(cache) \cup {u}
    BY <1>6
  <2>2. /\ Add(half, v) \in Seq(S) /\ Once(Add(half, v))
        /\ Range(Add(half, v)) = Range(half) \cup {v}
    <3>1. half \in Seq(S) /\ Once(half) /\ v \in S
      BY <1>1, <2>1
    <3>2. QED
      BY <3>1, AddOnce
  <2>3. cache' = Add(half, v)
    BY <1>7, <2>1
  <2>4. QED
    BY <2>1, <2>2, <2>3
<1> HIDE DEF New
<1>9. cache' = cache \o new
  BY <1>1, <1>2, <1>4, ConcatAssociative
<1>10. new \in Seq(S)
  BY <1>4, ConcatProperties
<1>11. QED
  BY <1>3, <1>8, <1>9, <1>10 DEF S

\* The last entries of the log are so many different ones.
LEMMA TailPageOnce ==
  ASSUME NEW limit \in Nat, NEW before \in 1 .. log + 1, log \in Nat
  PROVE  TailPage(limit, before) \in Seq(1 .. log) /\ Once(TailPage(limit, before))
<1> DEFINE n == before - 1
           skip == IF n > limit THEN n - limit ELSE 0
<1>1. n \in Nat /\ skip \in Nat /\ n - skip \in Nat /\ n <= log
  OBVIOUS
<1>2. TailPage(limit, before) = [j \in 1 .. n - skip |-> skip + j]
  BY DEF TailPage
<1>3. \A j \in 1 .. n - skip : skip + j \in 1 .. log
  BY <1>1
<1> HIDE DEF n, skip
<1>4. /\ TailPage(limit, before) \in Seq(1 .. log)
      /\ Len(TailPage(limit, before)) = n - skip
  BY <1>1, <1>2, <1>3
<1>5. QED
  BY <1>1, <1>2, <1>4 DEF Once
-----------------------------------------------------------------------------
(* The steps *)

LEMMA OffboxInit == Init => OffboxInv
<1> SUFFICES ASSUME Init PROVE OffboxInv
  OBVIOUS
<1>1. /\ cache \in Seq(0 .. log) /\ log \in Nat /\ Once(cache)
      /\ create \in {"none", "done"} /\ (create = "none" <=> log = 0)
      /\ listed \in BOOLEAN /\ known \in BOOLEAN
  <2>1. CASE log = 1 /\ cache = <<1>> /\ create = "done" /\ listed = TRUE /\ known = TRUE
    <3>1. <<1>> \in Seq(0 .. 1) /\ Once(<<1>>)
      BY DEF Once
    <3>2. QED
      BY <2>1, <3>1
  <2>2. CASE log = 0 /\ cache = <<>> /\ create = "none" /\ listed = FALSE /\ known = FALSE
    <3>1. <<>> \in Seq(0 .. 0) /\ Once(<<>>)
      BY DEF Once
    <3>2. QED
      BY <2>2, <3>1
  <2>3. QED
    BY <2>1, <2>2 DEF Init
<1>2. <<>> \in Seq(0 .. log) /\ <<>> \in Seq(1 .. log) /\ 0 \in 0 .. log
  BY <1>1
<1>3. TypeOK
  <2>1. /\ prompt \in [Prompts -> [at : {"new", "committed", "answered"}, user : 0 .. log]]
        /\ tail \in [Tails -> [at : {"new", "read", "done"}, page : Seq(1 .. log)]]
    BY <1>2 DEF Init
  <2>2. pager \in [Pagers -> [at : {"new", "walking", "ended"}, cursor : Nat,
                             read : Seq(0 .. log), replaced : BOOLEAN]]
    BY <1>2 DEF Init
  <2>3. QED
    BY <1>1, <2>1, <2>2 DEF Init, TypeOK
<1>4. LogInv /\ CacheInv
  BY <1>1, <1>3 DEF Init, LogInv, CacheInv, Once
<1>5. AnsweredIsCached
  BY DEF Init, AnsweredIsCached
<1>6. WalkInv
  <2>1. Len(cache) \in Nat
    BY <1>1, LenProperties
  <2>2. SubSeq(cache, 1, 0) = <<>>
    BY SubSeqEmpty
  <2>3. ASSUME NEW p \in Pagers
        PROVE  /\ pager[p].cursor = 0 /\ pager[p].read = <<>>
               /\ pager[p].cursor <= Len(cache)
               /\ pager[p].read = SubSeq(cache, 1, pager[p].cursor)
    <3>1. pager[p].cursor = 0 /\ pager[p].read = <<>>
      BY DEF Init
    <3>2. QED
      BY <2>1, <2>2, <3>1
  <2>4. QED
    BY <2>3 DEF WalkInv, PagesAreExact
<1>7. QED
  BY <1>4, <1>5, <1>6 DEF OffboxInv

\* Entries of a log are entries of the log it grows into.
LEMMA TypesGrow ==
  ASSUME TypeOK, NEW n \in Nat, log <= n
  PROVE  /\ cache \in Seq(0 .. n)
         /\ prompt \in [Prompts -> [at : {"new", "committed", "answered"}, user : 0 .. n]]
         /\ tail \in [Tails -> [at : {"new", "read", "done"}, page : Seq(1 .. n)]]
         /\ pager \in [Pagers -> [at : {"new", "walking", "ended"}, cursor : Nat,
                                  read : Seq(0 .. n), replaced : BOOLEAN]]
<1>1. log \in Nat
  BY DEF TypeOK
<1>2. cache \in Seq(0 .. n)
  BY <1>1, SeqGrows DEF TypeOK
<1>3. Seq(0 .. log) \subseteq Seq(0 .. n) /\ Seq(1 .. log) \subseteq Seq(1 .. n)
  BY <1>1, SeqGrows
<1>4. 0 .. log \subseteq 0 .. n
  BY <1>1
<1>5. QED
  BY <1>2, <1>3, <1>4 DEF TypeOK

\* The gateway's log grows: createAgent, a committed turn, its own notice.
LEMMA LogGrows ==
  ASSUME OffboxInv, \/ CreateAgent
                    \/ \E k \in Prompts : Commit(k)
                    \/ \E i \in Interrupts : Interrupt(i)
  PROVE  OffboxInv'
<1> USE DEF OffboxInv
<1>1. /\ log' \in Nat /\ log <= log' /\ log \in Nat
      /\ cache' = cache /\ tail' = tail /\ pager' = pager /\ wiped' = wiped /\ bridge' = bridge
      /\ known' = known /\ listed' = listed
  BY DEF LogInv, TypeOK, CreateAgent, Commit, Interrupt, hub
<1>2. CacheInv' /\ WalkInv'
  BY <1>1 DEF CacheInv, WalkInv, PagesAreExact, Once
<1>3. LogInv' /\ AnsweredIsCached'
  <2> DEFINE N == log'
  <2>1. /\ cache \in Seq(0 .. N)
        /\ prompt \in [Prompts -> [at : {"new", "committed", "answered"}, user : 0 .. N]]
        /\ tail \in [Tails -> [at : {"new", "read", "done"}, page : Seq(1 .. N)]]
        /\ pager \in [Pagers -> [at : {"new", "walking", "ended"}, cursor : Nat,
                                 read : Seq(0 .. N), replaced : BOOLEAN]]
    BY <1>1, TypesGrow DEF LogInv
  <2>2. CASE CreateAgent
    BY <1>1, <2>1, <2>2 DEF CreateAgent, LogInv, TypeOK, hub, AnsweredIsCached, Entries
  <2>3. ASSUME NEW k \in Prompts, Commit(k) PROVE LogInv' /\ AnsweredIsCached'
    <3>1. /\ prompt[k].at = "new" /\ prompt' = [prompt EXCEPT ![k] = [at |-> "committed", user |-> log + 1]]
          /\ hint' = [hint EXCEPT ![k] = "posted"] /\ N = log + 2 /\ log > 0
          /\ create' = create /\ int' = int
      BY <2>3 DEF Commit
    <3>2. TypeOK'
      BY <1>1, <2>1, <3>1 DEF LogInv, TypeOK
    <3>3. LogInv'
      BY <1>1, <3>1, <3>2 DEF LogInv, TypeOK
    <3>4. AnsweredIsCached'
      BY <1>1, <3>1 DEF LogInv, TypeOK, AnsweredIsCached, Entries
    <3>5. QED
      BY <3>3, <3>4
  <2>4. ASSUME NEW i \in Interrupts, Interrupt(i) PROVE LogInv' /\ AnsweredIsCached'
    BY <1>1, <2>1, <2>4 DEF Interrupt, LogInv, TypeOK, AnsweredIsCached, Entries
  <2>5. QED
    BY <2>2, <2>3, <2>4
<1>4. QED
  BY <1>2, <1>3

\* Entries are added at the end: walks go on, and what was readable stays so.
LEMMA CacheGrows ==
  ASSUME OffboxInv, NEW new \in Seq(0 .. log), cache' = cache \o new,
         pager' = pager, wiped' = wiped, bridge' = bridge
  PROVE  /\ cache' \in Seq(0 .. log) /\ WalkInv'
         /\ Range(cache) \subseteq Range(cache')
<1>1. cache \in Seq(0 .. log)
  BY DEF OffboxInv, LogInv, TypeOK
<1>2. /\ cache' \in Seq(0 .. log) /\ Len(cache) <= Len(cache')
      /\ Range(cache) \subseteq Range(cache')
      /\ \A n \in 0 .. Len(cache) : SubSeq(cache', 1, n) = SubSeq(cache, 1, n)
  BY <1>1, Appended
<1>3. \A p \in Pagers : pager[p].cursor \in Nat
  BY DEF OffboxInv, LogInv, TypeOK
<1>4. Len(cache) \in Nat /\ Len(cache') \in Nat
  BY <1>1, <1>2, LenProperties
<1>5. QED
  BY <1>2, <1>3, <1>4 DEF OffboxInv, WalkInv, PagesAreExact

\* A turn is ingested, from its hint or from its answer.
LEMMA TurnIngested ==
  ASSUME OffboxInv, NEW k \in Prompts,
         \/ ApplyHint(k)
         \/ Answer(k) /\ ~bridge
  PROVE  OffboxInv'
<1>1. prompt[k].at # "new" /\ Ingest(k) /\ bridge' = bridge /\ log' = log
  BY DEF OffboxInv, LogInv, ApplyHint, Answer
<1>2. LogInv /\ Once(cache)
  BY DEF OffboxInv, CacheInv
<1>3. /\ cache' \in Seq(0 .. log) /\ Once(cache')
      /\ \E new \in Seq(0 .. log) : cache' = cache \o new
      /\ Range(Entries(k)) \subseteq Range(cache')
  BY <1>1, <1>2, IngestStep
<1>4. known' = TRUE /\ listed' = listed /\ pager' = pager /\ wiped' = wiped
  BY <1>1 DEF Ingest
<1>5. WalkInv' /\ Range(cache) \subseteq Range(cache')
  <2>1. PICK new \in Seq(0 .. log) : cache' = cache \o new
    BY <1>3
  <2>2. QED
    BY <1>1, <1>4, <2>1, CacheGrows
<1>6. /\ hint' = hint \/ hint' = [hint EXCEPT ![k] = "gone"]
      /\ prompt' = prompt \/ prompt' = [prompt EXCEPT ![k].at = "answered"]
      /\ create' = create /\ tail' = tail /\ int' = int
  BY DEF ApplyHint, Answer, calls
<1>7. LogInv'
  <2>1. /\ hint' \in [Prompts -> {"none", "posted", "gone"}]
        /\ prompt' \in [Prompts -> [at : {"new", "committed", "answered"}, user : 0 .. log]]
    <3>1. /\ hint \in [Prompts -> {"none", "posted", "gone"}]
          /\ prompt \in [Prompts -> [at : {"new", "committed", "answered"}, user : 0 .. log]]
      BY <1>2 DEF LogInv, TypeOK
    <3>2. hint' \in [Prompts -> {"none", "posted", "gone"}]
      BY <1>6, <3>1
    <3>3. prompt' \in [Prompts -> [at : {"new", "committed", "answered"}, user : 0 .. log]]
      BY <1>6, <3>1
    <3>4. QED
      BY <3>2, <3>3
  <2>2. TypeOK'
    BY <1>1, <1>2, <1>3, <1>4, <1>6, <2>1 DEF LogInv, TypeOK
  <2>3. \A j \in Prompts : /\ prompt'[j].user = prompt[j].user
                           /\ prompt'[j].at = "new" <=> prompt[j].at = "new"
                           /\ hint'[j] = "posted" => hint[j] = "posted"
    <3>1. /\ hint \in [Prompts -> {"none", "posted", "gone"}]
          /\ prompt \in [Prompts -> [at : {"new", "committed", "answered"}, user : 0 .. log]]
      BY <1>2 DEF LogInv, TypeOK
    <3>2. \A j \in Prompts : hint'[j] = "posted" => hint[j] = "posted"
      BY <1>6, <3>1
    <3>3. \A j \in Prompts : /\ prompt'[j].user = prompt[j].user
                             /\ prompt'[j].at = "new" <=> prompt[j].at = "new"
      BY <1>1, <1>6, <3>1
    <3>4. QED
      BY <3>2, <3>3
  <2>4. QED
    BY <1>1, <1>2, <1>6, <2>2, <2>3 DEF LogInv
<1>8. CacheInv'
  BY <1>3, <1>6 DEF OffboxInv, CacheInv, Once
<1>9. AnsweredIsCached'
  <2>1. \A j \in Prompts : prompt'[j].user = prompt[j].user /\ (j # k => prompt'[j] = prompt[j])
    BY <1>2, <1>6 DEF LogInv, TypeOK
  <2>2. \A j \in Prompts : Entries(j)' = Entries(j)
    BY <2>1 DEF Entries
  <2>3. QED
    BY <1>1, <1>3, <1>4, <1>5, <2>1, <2>2 DEF OffboxInv, AnsweredIsCached
<1>10. QED
  BY <1>5, <1>7, <1>8, <1>9 DEF OffboxInv

\* A page takes the place of the cache, and the walks under way are lost.
LEMMA CacheReplaced ==
  ASSUME OffboxInv, NEW page \in Seq(0 .. log), Once(page), Seed(page), Wipe(page),
         prompt' = prompt, bridge' = bridge
  PROVE  /\ AnsweredIsCached' /\ WalkInv' /\ Once(cache') /\ cache' \in Seq(0 .. log)
         /\ pager' \in [Pagers -> [at : {"new", "walking", "ended"}, cursor : Nat,
                                  read : Seq(0 .. log), replaced : BOOLEAN]]
         /\ wiped' \subseteq Prompts
<1>1. cache' = page
  BY DEF Seed
<1>2. \A k \in Prompts : Entries(k)' = Entries(k)
  BY DEF Entries
<1>3. AnsweredIsCached'
  BY <1>1, <1>2 DEF AnsweredIsCached, Wipe
<1>4. /\ pager' = [p \in Pagers |-> [pager[p] EXCEPT !.replaced = @ \/ pager[p].at # "new"]]
      /\ pager \in [Pagers -> [at : {"new", "walking", "ended"}, cursor : Nat,
                               read : Seq(0 .. log), replaced : BOOLEAN]]
  BY DEF Seed, OffboxInv, LogInv, TypeOK
<1>5. pager' \in [Pagers -> [at : {"new", "walking", "ended"}, cursor : Nat,
                            read : Seq(0 .. log), replaced : BOOLEAN]]
  BY <1>4
<1>6. ASSUME NEW p \in Pagers
      PROVE  /\ pager'[p].at = pager[p].at /\ pager'[p].cursor = pager[p].cursor
             /\ pager'[p].read = pager[p].read
             /\ ~pager'[p].replaced => pager[p].at = "new"
  BY <1>4
<1>7. WalkInv'
  <2>1. Len(cache') \in Nat /\ SubSeq(cache', 1, 0) = <<>>
    BY <1>1, LenProperties, SubSeqEmpty
  <2>2. ASSUME NEW p \in Pagers, ~pager'[p].replaced
        PROVE  /\ pager'[p].cursor <= Len(cache')
               /\ pager'[p].read = SubSeq(cache', 1, pager'[p].cursor)
    <3>1. pager[p].at = "new"
      BY <1>6, <2>2
    <3>2. pager[p].cursor = 0 /\ pager[p].read = <<>>
      BY <3>1 DEF WalkInv, OffboxInv
    <3>3. pager'[p].cursor = 0 /\ pager'[p].read = <<>>
      BY <1>6, <3>2
    <3>4. QED
      BY <2>1, <3>3
  <2>3. \A p \in Pagers : pager'[p].at = "new" => pager'[p].cursor = 0 /\ pager'[p].read = <<>>
    <3>1. \A p \in Pagers : pager[p].at = "new" => pager[p].cursor = 0 /\ pager[p].read = <<>>
      BY DEF WalkInv, OffboxInv
    <3>2. QED
      BY <1>6, <3>1
  <2>4. QED
    BY <2>2, <2>3 DEF WalkInv, PagesAreExact
<1>8. wiped' \subseteq Prompts
  BY DEF Wipe, OffboxInv, LogInv, TypeOK
<1>9. Once(cache')
  BY <1>1 DEF Once
<1>10. QED
  BY <1>1, <1>3, <1>5, <1>7, <1>8, <1>9

LEMMA PageStep ==
  ASSUME OffboxInv, NEW p \in Pagers, Page(p)
  PROVE  OffboxInv'
<1> DEFINE start == pager[p].cursor
           end == IF start + PageSize < Len(cache) THEN start + PageSize ELSE Len(cache)
           Walk == [at : {"new", "walking", "ended"}, cursor : Nat,
                    read : Seq(0 .. log), replaced : BOOLEAN]
<1>1. /\ cache \in Seq(0 .. log) /\ pager \in [Pagers -> Walk] /\ pager[p].read \in Seq(0 .. log)
      /\ start \in Nat /\ Len(cache) \in Nat
  BY LenProperties DEF OffboxInv, LogInv, TypeOK
<1>2. /\ bridge' = bridge /\ log' = log /\ prompt' = prompt /\ tail' = tail /\ create' = create
      /\ int' = int /\ hint' = hint /\ cache' = cache /\ wiped' = wiped /\ listed' = listed
      /\ known' = known
  BY DEF Page, hub, calls
<1>3. CacheInv' /\ AnsweredIsCached'
  BY <1>2 DEF OffboxInv, CacheInv, Once, AnsweredIsCached, Entries
<1>4. CASE start >= Len(cache)
  <2>1. pager' = [pager EXCEPT ![p].at = "ended"]
    BY <1>4 DEF Page
  <2>2. pager' \in [Pagers -> Walk]
    BY <1>1, <2>1
  <2>3. WalkInv'
    BY <1>1, <1>2, <2>1 DEF OffboxInv, WalkInv, PagesAreExact
  <2>4. LogInv'
    BY <1>2, <2>2 DEF OffboxInv, LogInv, TypeOK
  <2>5. QED
    BY <1>3, <2>3, <2>4 DEF OffboxInv
<1>5. CASE start < Len(cache)
  <2> DEFINE page == SubSeq(cache, start + 1, end)
  <2>1. end \in Nat /\ end \in start .. Len(cache) /\ start \in 0 .. Len(cache)
    BY <1>1, <1>5, PageSizeAssumption
  <2>2. pager' = [pager EXCEPT ![p].at = IF end < Len(cache) THEN "walking" ELSE "ended",
                               ![p].cursor = end,
                               ![p].read = @ \o page]
    BY <1>1, <1>5 DEF Page
  <2> HIDE DEF end
  <2>3. page \in Seq(0 .. log)
    <3>1. \A i \in start + 1 .. end : cache[i] \in 0 .. log
      <4>1. \A i \in 1 .. Len(cache) : cache[i] \in 0 .. log
        BY <1>1, ElementOfSeq
      <4>2. QED
        BY <1>1, <2>1, <4>1
    <3>2. QED
      BY <1>1, <2>1, <3>1, SubSeqProperties
  <2>4. SubSeq(cache, 1, start) \o page = SubSeq(cache, 1, end)
    BY <1>1, <2>1, PagesJoin
  <2> HIDE DEF page
  <2>5. pager[p].read \o page \in Seq(0 .. log)
    BY <1>1, <2>3, ConcatProperties
  <2>6. /\ pager'[p].at \in {"walking", "ended"} /\ pager'[p].cursor = end
        /\ pager'[p].read = pager[p].read \o page /\ pager'[p].replaced = pager[p].replaced
        /\ pager' \in [Pagers -> Walk]
        /\ \A q \in Pagers \ {p} : pager'[q] = pager[q]
    BY <1>1, <2>1, <2>2, <2>5
  <2>7. WalkInv'
    <3>1. ~pager[p].replaced => pager[p].read = SubSeq(cache, 1, start)
      BY DEF OffboxInv, WalkInv, PagesAreExact
    <3>2. \A q \in Pagers \ {p} :
            /\ pager'[q].at = "new" => pager'[q].cursor = 0 /\ pager'[q].read = <<>>
            /\ ~pager'[q].replaced => /\ pager'[q].cursor <= Len(cache')
                                     /\ pager'[q].read = SubSeq(cache', 1, pager'[q].cursor)
      BY <1>2, <2>6 DEF OffboxInv, WalkInv, PagesAreExact
    <3>3. ~pager'[p].replaced => /\ pager'[p].cursor <= Len(cache')
                                 /\ pager'[p].read = SubSeq(cache', 1, pager'[p].cursor)
      <4>1. pager'[p].cursor <= Len(cache')
        BY <1>2, <2>1, <2>6
      <4>2. SUFFICES ASSUME ~pager'[p].replaced
                     PROVE  pager'[p].read = SubSeq(cache', 1, pager'[p].cursor)
        BY <4>1
      <4>3. pager[p].read = SubSeq(cache, 1, start)
        BY <2>6, <3>1, <4>2
      <4>4. pager'[p].read = SubSeq(cache, 1, end)
        BY <2>4, <2>6, <4>3
      <4>5. QED
        BY <1>2, <2>6, <4>4
    <3>4. pager'[p].at # "new"
      BY <2>6
    <3>5. QED
      BY <3>2, <3>3, <3>4 DEF WalkInv, PagesAreExact
  <2>8. LogInv'
    BY <1>2, <2>6 DEF OffboxInv, LogInv, TypeOK
  <2>9. QED
    BY <1>3, <2>7, <2>8 DEF OffboxInv
<1>6. QED
  BY <1>1, <1>4, <1>5

\* A tail page, or createAgent's transcript, replaces the cache.
LEMMA SeedStep ==
  ASSUME OffboxInv, SeedCreated \/ \E r \in Tails : SeedTail(r)
  PROVE  OffboxInv'
<1> DEFINE Pages == [Tails -> [at : {"new", "read", "done"}, page : Seq(1 .. log)]]
<1>1. \E page \in Seq(0 .. log) :
        /\ Once(page) /\ Seed(page) /\ Wipe(page)
        /\ create' \in {"none", "created", "listed", "done"} /\ (create' = "none" <=> create = "none")
        /\ tail' \in Pages
        /\ \A q \in Tails : tail'[q].page = tail[q].page
  <2>1. CASE SeedCreated
    <3>1. log \in Nat /\ log # 0 /\ tail \in Pages
      BY <2>1 DEF SeedCreated, OffboxInv, LogInv, TypeOK
    <3>2. <<1>> \in Seq(0 .. log)
      BY <3>1
    <3>3. Once(<<1>>)
      BY DEF Once
    <3>4. /\ Seed(<<1>>) /\ Wipe(<<1>>) /\ create = "listed" /\ create' = "done"
          /\ tail' = tail
      BY <2>1 DEF SeedCreated
    <3>5. QED
      BY <3>1, <3>2, <3>3, <3>4
  <2>2. ASSUME NEW r \in Tails, SeedTail(r)
        PROVE  \E page \in Seq(0 .. log) :
                 /\ Once(page) /\ Seed(page) /\ Wipe(page)
                 /\ create' \in {"none", "created", "listed", "done"}
                 /\ (create' = "none" <=> create = "none")
                 /\ tail' \in Pages
                 /\ \A q \in Tails : tail'[q].page = tail[q].page
    <3>1. /\ tail \in Pages /\ create \in {"none", "created", "listed", "done"}
      BY DEF OffboxInv, LogInv, TypeOK
    <3>2. tail[r].page \in Seq(0 .. log)
      <4>1. 1 .. log \subseteq 0 .. log
        BY DEF OffboxInv, LogInv, TypeOK
      <4>2. tail[r].page \in Seq(1 .. log)
        BY <3>1
      <4>3. QED
        BY <4>1, <4>2, SeqMonotonic
    <3>3. Once(tail[r].page)
      BY DEF OffboxInv, CacheInv
    <3>4. /\ Seed(tail[r].page) /\ Wipe(tail[r].page) /\ create' = create
          /\ tail' = [tail EXCEPT ![r].at = "done"]
      BY <2>2 DEF SeedTail
    <3>5. tail' \in Pages /\ \A q \in Tails : tail'[q].page = tail[q].page
      BY <3>1, <3>4
    <3>6. QED
      BY <3>1, <3>2, <3>3, <3>4, <3>5
  <2>3. QED
    BY <2>1, <2>2
<1>2. PICK page \in Seq(0 .. log) :
        /\ Once(page) /\ Seed(page) /\ Wipe(page)
        /\ create' \in {"none", "created", "listed", "done"} /\ (create' = "none" <=> create = "none")
        /\ tail' \in Pages
        /\ \A q \in Tails : tail'[q].page = tail[q].page
  BY <1>1
<1>3. /\ bridge' = bridge /\ log' = log /\ prompt' = prompt /\ hint' = hint /\ int' = int
  BY DEF SeedCreated, SeedTail
<1>4. known' = TRUE /\ listed' = listed
  BY <1>2 DEF Seed
<1>5. /\ AnsweredIsCached' /\ WalkInv' /\ Once(cache') /\ cache' \in Seq(0 .. log)
      /\ pager' \in [Pagers -> [at : {"new", "walking", "ended"}, cursor : Nat,
                               read : Seq(0 .. log), replaced : BOOLEAN]]
      /\ wiped' \subseteq Prompts
  BY <1>2, <1>3, CacheReplaced
<1>6. CacheInv'
  <2>1. \A q \in Tails : Once(tail[q].page)
    BY DEF OffboxInv, CacheInv
  <2>2. \A q \in Tails : Once(tail'[q].page)
    BY <1>2, <2>1
  <2>3. QED
    BY <1>5, <2>2 DEF CacheInv, Once
<1>7. LogInv'
  BY <1>2, <1>3, <1>4, <1>5 DEF OffboxInv, LogInv, TypeOK
<1>8. QED
  BY <1>5, <1>6, <1>7 DEF OffboxInv

\* The hub's own notice is appended; it is not an entry.
LEMMA NoteStep ==
  ASSUME OffboxInv, NEW i \in Interrupts, NoteInterrupt(i)
  PROVE  OffboxInv'
<1> DEFINE one == <<Notice>>
<1>1. /\ bridge' = bridge /\ log' = log /\ prompt' = prompt /\ hint' = hint /\ tail' = tail
      /\ create' = create /\ pager' = pager /\ wiped' = wiped /\ listed' = listed
      /\ known' = TRUE /\ int' = [int EXCEPT ![i] = "done"] /\ cache' = Append(cache, Notice)
  BY DEF NoteInterrupt
<1>2. cache \in Seq(0 .. log) /\ log \in Nat /\ Len(cache) \in Nat
  BY LenProperties DEF OffboxInv, LogInv, TypeOK
<1>3. one \in Seq(0 .. log) /\ cache' = cache \o one
  BY <1>1, <1>2 DEF Notice
<1> HIDE DEF one
<1>4. /\ cache' \in Seq(0 .. log) /\ WalkInv' /\ Range(cache) \subseteq Range(cache')
  BY <1>1, <1>3, CacheGrows
<1>5. CacheInv'
  <2>1. Len(cache') = Len(cache) + 1 /\ cache'[Len(cache) + 1] = Notice
        /\ \A n \in 1 .. Len(cache) : cache'[n] = cache[n]
    BY <1>1, <1>2
  <2>2. Once(cache')
    BY <1>2, <2>1 DEF OffboxInv, CacheInv, Once
  <2>3. QED
    BY <1>1, <2>2 DEF OffboxInv, CacheInv, Once
<1>6. AnsweredIsCached'
  BY <1>1, <1>4 DEF OffboxInv, AnsweredIsCached, Entries
<1>7. LogInv'
  BY <1>1, <1>4 DEF OffboxInv, LogInv, TypeOK
<1>8. QED
  BY <1>4, <1>5, <1>6, <1>7 DEF OffboxInv

\* A page that is read is a page of the log.
LEMMA ReadTailStep ==
  ASSUME OffboxInv, NEW r \in Tails, ReadTail(r)
  PROVE  OffboxInv'
<1> DEFINE Pages == [Tails -> [at : {"new", "read", "done"}, page : Seq(1 .. log)]]
<1>1. /\ bridge' = bridge /\ log' = log /\ prompt' = prompt /\ hint' = hint /\ int' = int
      /\ create' = create /\ pager' = pager /\ wiped' = wiped /\ listed' = listed
      /\ known' = known /\ cache' = cache
  BY DEF ReadTail, hub
<1>2. PICK limit \in Limits, before \in 1 .. log + 1 :
        tail' = [tail EXCEPT ![r] = [at |-> "read", page |-> TailPage(limit, before)]]
  BY DEF ReadTail
<1>3. tail \in Pages /\ log \in Nat /\ limit \in Nat
  BY LimitsAssumption DEF OffboxInv, LogInv, TypeOK
<1>4. TailPage(limit, before) \in Seq(1 .. log) /\ Once(TailPage(limit, before))
  BY <1>3, TailPageOnce
<1>5. PICK page \in Seq(1 .. log) : /\ Once(page)
                                    /\ tail' = [tail EXCEPT ![r] = [at |-> "read", page |-> page]]
  BY <1>2, <1>4
<1>6. tail' \in Pages
  BY <1>3, <1>5
<1>7. LogInv'
  BY <1>1, <1>6 DEF OffboxInv, LogInv, TypeOK
<1>8. \A q \in Tails : tail'[q].page = page \/ tail'[q] = tail[q]
  BY <1>3, <1>5
<1>9. \A q \in Tails : Once(tail'[q].page)
  BY <1>5, <1>8 DEF OffboxInv, CacheInv
<1>10. CacheInv'
  BY <1>1, <1>9 DEF OffboxInv, CacheInv, Once
<1>11. AnsweredIsCached' /\ WalkInv'
  BY <1>1 DEF OffboxInv, AnsweredIsCached, WalkInv, PagesAreExact, Entries
<1>12. QED
  BY <1>7, <1>10, <1>11 DEF OffboxInv

\* A hint is lost, the roster gets an agent, or an answer leaves its entries to the
\* bridge.
LEMMA OtherSteps ==
  ASSUME OffboxInv, \/ \E k \in Prompts : LoseHint(k) \/ (Answer(k) /\ bridge)
                    \/ ListCreated
                    \/ UNCHANGED vars
  PROVE  OffboxInv'
<1>1. /\ bridge' = bridge /\ log' = log /\ tail' = tail /\ int' = int
      /\ pager' = pager /\ wiped' = wiped /\ known' = known /\ cache' = cache
  BY DEF LoseHint, Answer, ListCreated, vars, hub, calls
<1>2. listed' \in BOOLEAN /\ create' \in {"none", "created", "listed", "done"}
      /\ (create' = "none" <=> create = "none")
  BY DEF LoseHint, Answer, ListCreated, vars, hub, calls, OffboxInv, LogInv, TypeOK
<1>3. /\ hint \in [Prompts -> {"none", "posted", "gone"}]
      /\ prompt \in [Prompts -> [at : {"new", "committed", "answered"}, user : 0 .. log]]
  BY DEF OffboxInv, LogInv, TypeOK
<1>4. /\ hint' \in [Prompts -> {"none", "posted", "gone"}]
      /\ \A k \in Prompts : hint'[k] = "posted" => hint[k] = "posted"
  BY <1>3 DEF LoseHint, Answer, ListCreated, vars, hub, calls
<1>5. prompt' = prompt \/ \E k \in Prompts : /\ prompt[k].at = "committed"
                                             /\ prompt' = [prompt EXCEPT ![k].at = "answered"]
  BY DEF LoseHint, Answer, ListCreated, vars, hub, calls
<1>6. prompt' \in [Prompts -> [at : {"new", "committed", "answered"}, user : 0 .. log]]
  BY <1>3, <1>5
<1>7. ASSUME NEW k \in Prompts
       PROVE  prompt'[k].user = prompt[k].user /\ (prompt'[k].at = "new" <=> prompt[k].at = "new")
  BY <1>3, <1>5
<1>8. LogInv'
  <2>1. TypeOK'
    BY <1>1, <1>2, <1>4, <1>6 DEF OffboxInv, LogInv, TypeOK
  <2>2. ASSUME NEW k \in Prompts
        PROVE  /\ prompt'[k].at # "new" => prompt'[k].user \in 1 .. log - 1
               /\ hint'[k] = "posted" => prompt'[k].at # "new"
    <3>1. /\ prompt[k].at # "new" => prompt[k].user \in 1 .. log - 1
          /\ hint[k] = "posted" => prompt[k].at # "new"
      BY DEF OffboxInv, LogInv
    <3>2. hint'[k] = "posted" => hint[k] = "posted"
      BY <1>4
    <3>3. QED
      BY <1>7, <3>1, <3>2
  <2>3. QED
    BY <1>1, <1>2, <2>1, <2>2 DEF OffboxInv, LogInv
<1>9. CacheInv' /\ WalkInv'
  BY <1>1 DEF OffboxInv, CacheInv, WalkInv, PagesAreExact, Once
<1>10. AnsweredIsCached'
  <2>1. prompt' = prompt \/ bridge
    BY DEF LoseHint, Answer, ListCreated, vars, hub, calls
  <2>2. QED
    BY <1>1, <2>1 DEF OffboxInv, AnsweredIsCached, Entries
<1>11. QED
  BY <1>8, <1>9, <1>10 DEF OffboxInv

LEMMA OffboxStep == OffboxInv /\ [Next]_vars => OffboxInv'
<1> SUFFICES ASSUME OffboxInv, [Next]_vars PROVE OffboxInv'
  OBVIOUS
<1>1. CASE CreateAgent \/ (\E k \in Prompts : Commit(k)) \/ (\E i \in Interrupts : Interrupt(i))
  BY <1>1, LogGrows
<1>2. ASSUME NEW k \in Prompts, ApplyHint(k) \/ (Answer(k) /\ ~bridge) PROVE OffboxInv'
  BY <1>2, TurnIngested
<1>3. CASE SeedCreated \/ \E r \in Tails : SeedTail(r)
  BY <1>3, SeedStep
<1>4. CASE \/ \E k \in Prompts : LoseHint(k) \/ (Answer(k) /\ bridge)
           \/ ListCreated
           \/ UNCHANGED vars
  BY <1>4, OtherSteps
<1>5. ASSUME NEW i \in Interrupts, NoteInterrupt(i) PROVE OffboxInv'
  BY <1>5, NoteStep
<1>6. ASSUME NEW r \in Tails, ReadTail(r) PROVE OffboxInv'
  BY <1>6, ReadTailStep
<1>7. ASSUME NEW p \in Pagers, Page(p) PROVE OffboxInv'
  BY <1>7, PageStep
<1>8. QED
  BY <1>1, <1>2, <1>3, <1>4, <1>5, <1>6, <1>7 DEF Next
-----------------------------------------------------------------------------
(* What holds in every state *)

LEMMA OffboxAlways == Spec => []OffboxInv
BY OffboxInit, OffboxStep, PTL DEF Spec

\* Hints, answers, tail pages and notices may come in any order: ingest_turn_entries
\* and seed_offbox never leave an entry in the cache twice.
THEOREM CachedOnce == Spec => []NoEntryTwice
<1>1. OffboxInv => NoEntryTwice
  <2> SUFFICES ASSUME OffboxInv PROVE NoEntryTwice
    OBVIOUS
  <2>1. DOMAIN cache = 1 .. Len(cache)
    BY LenProperties DEF OffboxInv, LogInv, TypeOK
  <2>2. QED
    BY <2>1 DEF OffboxInv, CacheInv, Once, NoEntryTwice
<1>2. QED
  BY <1>1, OffboxAlways, PTL

\* Once sendPrompt was answered, after_command_success or the hint before it has put
\* both entries into the cache, where only the page of another command removes them.
THEOREM AnsweredStay == Spec => []AnsweredIsCached
<1>1. OffboxInv => AnsweredIsCached
  BY DEF OffboxInv
<1>2. QED
  BY <1>1, OffboxAlways, PTL

\* page_offbox: a client that follows the cursors reads the cache from its first entry,
\* each entry once, whatever is ingested between two of its calls.
THEOREM WalksAreExact == Spec => []PagesAreExact
<1>1. OffboxInv => PagesAreExact
  BY DEF OffboxInv, WalkInv
<1>2. QED
  BY <1>1, OffboxAlways, PTL
=============================================================================
