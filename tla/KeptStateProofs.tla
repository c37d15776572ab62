-------------------------- MODULE KeptStateProofs ---------------------------
(***************************************************************************)
(* TLAPS proofs about what is kept from one request to the next.           *)
(*                                                                         *)
(* GatewayStores, for any uploads, readers, links and viewers, any bounds  *)
(* and any time to live: UploadsInv says what lies on the disk at each     *)
(* stage of a call and that only expired uploads are removed; LinksInv     *)
(* says where a link that is not in the map went.                          *)
(*                                                                         *)
(* SignIn, for any logins, connections, gates and bounds: FileInv follows  *)
(* the two inodes a save deals with, for as long as no two saves have met; *)
(* OwnInv follows a code from the browser tab it was issued to, to the     *)
(* login it lands at and the token it is exchanged for; KeysInv says which *)
(* key that token is signed with and which keys the hub may hold.          *)
(***************************************************************************)
EXTENDS GatewayStores, SignIn, TLAPS

-----------------------------------------------------------------------------
(* Attachments and links *)

\* The bytes the answered upload has.
Good(u) == IF name[u] = "meta" /\ WritesMeta THEN "lost" ELSE "whole"

\* What the stage of a call says about the disk; no call outlives the process.
StagesOnDisk ==
  \A u \in Files :
    /\ ~up => call[u] \notin Working
    /\ call[u] \in {"idle", "swept", "accepted"} => ~dir[u]
    /\ call[u] \in {"idle", "swept", "accepted", "made", "writing", "written"} =>
         meta[u] = "none"
    /\ call[u] \in {"made", "writing", "written", "recording", "recorded"} => dir[u]
    /\ call[u] = "written" => file[u] = "whole"
    /\ call[u] \in {"recording", "recorded"} => file[u] = Good(u) /\ WritesMeta
    /\ call[u] = "recorded" => meta[u] = "whole"
    /\ call[u] \in {"recording", "failed"} => meta[u] # "whole"

\* Only what was answered, or lost after it was whole, is ever in the table;
\* only what has expired is removed, and under the lock.
HandledUploads ==
  /\ removing # {} => lock # Nobody
  /\ \A u \in Files :
    /\ u \in table \cup removing => call[u] \in {"answered", "lost"}
    /\ u \in removing => Expired(u) /\ mode # "memory"
    /\ u \in table /\ call[u] = "lost" => Expired(u) \/ meta[u] = "whole"

\* An upload with whole metadata is whole, and an answered one stays so, until
\* it expires.
WholeUntilExpired ==
  \A u \in Files :
    /\ meta[u] = "whole" /\ ~Expired(u) => file[u] = Good(u)
    /\ call[u] = "answered" /\ mode = "memory" => file[u] = "whole"
    /\ call[u] = "answered" /\ mode # "memory" /\ ~Expired(u) =>
         meta[u] = "whole" /\ dir[u]

\* An answered upload is in the table, or there is a cause why not; its
\* metadata is on the disk unless a removal reached it.
AnsweredIsFound ==
  \A u \in Files :
    /\ age[u] <= epoch
    /\ call[u] = "answered" /\ up /\ ~Expired(u) =>
         u \in table \/ (mode # "disk" /\ age[u] < epoch)
    /\ call[u] = "answered" /\ dir[u] /\ mode # "memory" =>
         meta[u] = "whole" \/ u \in removing \cup spared

\* Readers ask for ids that were answered.
ReadersAsk ==
  \A r \in Readers : read[r] # "idle" => want[r] \in Files /\ call[want[r]] = "answered"

UploadsInv ==
  /\ StagesOnDisk
  /\ HandledUploads
  /\ WholeUntilExpired
  /\ AnsweredIsFound
  /\ ReadersAsk
  /\ MissHasCause
  /\ LeftoverHasCause

\* A link that is not in the map was there before a restart, or a later mint
\* found it expired.
MissingLinkHasCause ==
  \A t \in Mints :
    /\ minted[t] <= epoch
    /\ mint[t] = "linked" /\ up /\ t \notin tokens =>
         minted[t] < epoch \/ (~Live(t) /\ \E m \in Mints \ {t} :
                                 mint[m] = "linked" /\ expires[m] >= expires[t] + VncTtl)

\* Pages show links.
PagesShowLinks ==
  \A v \in Viewers : page[v].status # 0 => page[v].of \in Mints /\ mint[page[v].of] = "linked"

LinksInv == MissingLinkHasCause /\ PagesShowLinks /\ RefusalHasCause

-----------------------------------------------------------------------------
(* Types *)

\* Every step on the attachments keeps their types.
LEMMA UploadsTypeStep ==
  ASSUME ProcessTypeOK, UploadsTypeOK, UploadsNext
  PROVE ProcessTypeOK' /\ UploadsTypeOK'
<1> USE ProcessAssumption, UploadsAssumption
    DEF ProcessTypeOK, UploadsTypeOK, process, storage, Goes, Working, Content, OnDisk
<1>1. ASSUME NEW u \in Files, UploadSweeps(u) PROVE ProcessTypeOK' /\ UploadsTypeOK'
  BY <1>1 DEF UploadSweeps, Sweep
<1>2. ASSUME NEW u \in Files, Reject(u) PROVE ProcessTypeOK' /\ UploadsTypeOK'
  BY <1>2 DEF Reject
<1>3. ASSUME NEW u \in Files, \E n \in Names : Accept(u, n) PROVE ProcessTypeOK' /\ UploadsTypeOK'
  BY <1>3 DEF Accept
<1>4. ASSUME NEW u \in Files, MakeDir(u) PROVE ProcessTypeOK' /\ UploadsTypeOK'
  BY <1>4 DEF MakeDir, OnlyStorage
<1>5. ASSUME NEW u \in Files, BeginFile(u) PROVE ProcessTypeOK' /\ UploadsTypeOK'
  BY <1>5 DEF BeginFile, OnlyStorage
<1>6. ASSUME NEW u \in Files, EndFile(u) PROVE ProcessTypeOK' /\ UploadsTypeOK'
  BY <1>6 DEF EndFile, OnlyStorage
<1>7. ASSUME NEW u \in Files, BeginMeta(u) PROVE ProcessTypeOK' /\ UploadsTypeOK'
  BY <1>7 DEF BeginMeta, OnlyStorage
<1>8. ASSUME NEW u \in Files, EndMeta(u) PROVE ProcessTypeOK' /\ UploadsTypeOK'
  BY <1>8 DEF EndMeta, OnlyStorage
<1>9. ASSUME NEW u \in Files, DiskFails(u) PROVE ProcessTypeOK' /\ UploadsTypeOK'
  BY <1>9 DEF DiskFails, OnlyStorage
<1>10. ASSUME NEW u \in Files, Record(u) PROVE ProcessTypeOK' /\ UploadsTypeOK'
  BY <1>10 DEF Record
<1>11. ASSUME NEW u \in Files, \E what \in {"file", "meta"} : RemoveEntry(u, what) PROVE ProcessTypeOK' /\ UploadsTypeOK'
  BY <1>11 DEF RemoveEntry, Without
<1>12. ASSUME NEW u \in Files, RemoveDir(u) PROVE ProcessTypeOK' /\ UploadsTypeOK'
  BY <1>12 DEF RemoveDir
<1>13. ASSUME NEW u \in Files, RemovalFails(u) PROVE ProcessTypeOK' /\ UploadsTypeOK'
  BY <1>13 DEF RemovalFails, Without
<1>14. ASSUME NEW r \in Readers, NEW u \in Files, AttachSweeps(r, u) PROVE ProcessTypeOK' /\ UploadsTypeOK'
  BY <1>14 DEF AttachSweeps, Sweep
<1>15. ASSUME NEW r \in Readers, Attach(r) PROVE ProcessTypeOK' /\ UploadsTypeOK'
  BY <1>15 DEF Attach
<1>16. QED
  BY <1>1, <1>2, <1>3, <1>4, <1>5, <1>6, <1>7, <1>8, <1>9, <1>10, <1>11, <1>12, <1>13, <1>14, <1>15 DEF UploadsNext, Removal, UploadStep, AttachStep

\* And so does every step on the links.
LEMMA LinksTypeStep ==
  ASSUME ProcessTypeOK, VncTypeOK, VncNext
  PROVE ProcessTypeOK' /\ VncTypeOK'
<1> USE ProcessAssumption, VncAssumption DEF ProcessTypeOK, VncTypeOK, process
<1>1. ASSUME NEW m \in Mints, MintBegins(m) \/ Probe(m) \/ MintStub(m)
      PROVE ProcessTypeOK' /\ VncTypeOK'
  BY <1>1 DEF MintBegins, Probe, MintStub
<1>2. ASSUME NEW m \in Mints, MintLink(m) PROVE ProcessTypeOK' /\ VncTypeOK'
  BY <1>2 DEF MintLink
<1>3. ASSUME NEW v \in Viewers, NEW t \in Mints, OpenPage(v, t)
      PROVE ProcessTypeOK' /\ VncTypeOK'
  BY <1>3 DEF OpenPage, Lookup
<1>4. QED
  BY <1>1, <1>2, <1>3 DEF VncNext

\* No step on the attachments moves the process or its clock.
LEMMA UploadsKeepProcess == UploadsNext => UNCHANGED process
  BY DEF UploadsNext, Removal, RemoveEntry, RemoveDir, RemovalFails, UploadStep, UploadSweeps,
         Sweep, Reject, Accept, MakeDir, BeginFile, EndFile, BeginMeta, EndMeta, DiskFails,
         OnlyStorage, Record, AttachStep, AttachSweeps, Attach

LEMMA TypeStep == TypeOK /\ [Next]_vars => TypeOK'
<1> SUFFICES ASSUME TypeOK, [Next]_vars PROVE TypeOK'
  OBVIOUS
<1>1. ASSUME UploadsNext, UNCHANGED vnc PROVE TypeOK'
  BY <1>1, UploadsTypeStep DEF TypeOK, VncTypeOK, vnc
<1>2. ASSUME VncNext, UNCHANGED uploads PROVE TypeOK'
  BY <1>2, LinksTypeStep DEF TypeOK, UploadsTypeOK, uploads, storage
<1>3. CASE Tick
  BY <1>3, ProcessAssumption DEF Tick, Elapse, TypeOK, ProcessTypeOK, UploadsTypeOK, VncTypeOK, uploads, storage, vnc
<1>4. CASE Crash
  <2> USE <1>4 DEF Crash, Stop, TypeOK
  <2>1. ProcessTypeOK'
    BY DEF ProcessTypeOK
  <2>2. UploadsTypeOK'
    BY DEF UploadsStop, Crashed, UploadsTypeOK, storage, Working
  <2>3. VncTypeOK'
    BY DEF VncStop, VncTypeOK
  <2>4. QED
    BY <2>1, <2>2, <2>3
<1>5. CASE Restart
  <2> USE <1>5 DEF Restart, Start, TypeOK
  <2>1. ProcessTypeOK'
    BY ProcessAssumption DEF ProcessTypeOK
  <2>2. UploadsTypeOK'
    BY DEF UploadsStart, Reloaded, UploadsTypeOK, storage
  <2>3. VncTypeOK'
    BY DEF VncTypeOK, vnc
  <2>4. QED
    BY <2>1, <2>2, <2>3
<1>6. CASE UNCHANGED vars
  BY <1>6 DEF vars, process, uploads, storage, vnc, TypeOK, ProcessTypeOK, UploadsTypeOK, VncTypeOK
<1>7. QED
  BY <1>1, <1>2, <1>3, <1>4, <1>5, <1>6 DEF Next
-----------------------------------------------------------------------------
(* Invariants *)

StoresInv == TypeOK /\ UploadsInv /\ LinksInv

LEMMA InitEstablishes == Init => StoresInv
<1> SUFFICES ASSUME Init PROVE StoresInv
  OBVIOUS
<1> USE ProcessAssumption, UploadsAssumption, VncAssumption
    DEF Init, UploadsInit, VncInit, ProcessInit
<1>1. TypeOK
  BY DEF TypeOK, ProcessTypeOK, UploadsTypeOK, VncTypeOK, Working, Content, NoPage
<1>2. UploadsInv
  BY DEF UploadsInv, StagesOnDisk, HandledUploads, WholeUntilExpired, AnsweredIsFound,
         ReadersAsk, MissHasCause, LeftoverHasCause
<1>3. LinksInv
  BY DEF LinksInv, MissingLinkHasCause, PagesShowLinks, RefusalHasCause, NoPage
<1>4. QED
  BY <1>1, <1>2, <1>3 DEF StoresInv

\* Every step on the attachments keeps their invariant.
LEMMA UploadsInvStep ==
  ASSUME TypeOK, UploadsInv, UploadsNext
  PROVE UploadsInv'
<1> USE ProcessAssumption, UploadsAssumption
    DEF TypeOK, ProcessTypeOK, UploadsTypeOK, process, storage, Goes, Working, Content,
        OnDisk, UploadsInv, StagesOnDisk, HandledUploads, WholeUntilExpired,
        AnsweredIsFound, ReadersAsk, MissHasCause, LeftoverHasCause, Expired, Good,
        WritesMeta
<1>1. ASSUME NEW u \in Files, UploadSweeps(u) PROVE UploadsInv'
  <2> USE <1>1 DEF UploadSweeps, Sweep
  <2>1. StagesOnDisk'
    OBVIOUS
  <2>2. HandledUploads'
    OBVIOUS
  <2>3. WholeUntilExpired'
    OBVIOUS
  <2>4. AnsweredIsFound'
    OBVIOUS
  <2>5. ReadersAsk'
    OBVIOUS
  <2>6. MissHasCause'
    OBVIOUS
  <2>7. LeftoverHasCause'
    OBVIOUS
  <2>8. QED
    BY <2>1, <2>2, <2>3, <2>4, <2>5, <2>6, <2>7
<1>2. ASSUME NEW u \in Files, Reject(u) PROVE UploadsInv'
  BY <1>2 DEF Reject
<1>3. ASSUME NEW u \in Files, \E n \in Names : Accept(u, n) PROVE UploadsInv'
  BY <1>3 DEF Accept
<1>4. ASSUME NEW u \in Files, MakeDir(u) PROVE UploadsInv'
  BY <1>4 DEF MakeDir, OnlyStorage
<1>5. ASSUME NEW u \in Files, BeginFile(u) PROVE UploadsInv'
  BY <1>5 DEF BeginFile, OnlyStorage
<1>6. ASSUME NEW u \in Files, EndFile(u) PROVE UploadsInv'
  <2> USE <1>6 DEF EndFile, OnlyStorage
  <2>1. StagesOnDisk'
    OBVIOUS
  <2>2. HandledUploads'
    OBVIOUS
  <2>3. WholeUntilExpired'
    OBVIOUS
  <2>4. AnsweredIsFound'
    OBVIOUS
  <2>5. ReadersAsk'
    OBVIOUS
  <2>6. MissHasCause'
    OBVIOUS
  <2>7. LeftoverHasCause'
    OBVIOUS
  <2>8. QED
    BY <2>1, <2>2, <2>3, <2>4, <2>5, <2>6, <2>7
<1>7. ASSUME NEW u \in Files, BeginMeta(u) PROVE UploadsInv'
  BY <1>7 DEF BeginMeta, OnlyStorage
<1>8. ASSUME NEW u \in Files, EndMeta(u) PROVE UploadsInv'
  BY <1>8 DEF EndMeta, OnlyStorage
<1>9. ASSUME NEW u \in Files, DiskFails(u) PROVE UploadsInv'
  BY <1>9 DEF DiskFails, OnlyStorage
<1>10. ASSUME NEW u \in Files, Record(u) PROVE UploadsInv'
  BY <1>10 DEF Record
<1>11. ASSUME NEW u \in Files, \E what \in {"file", "meta"} : RemoveEntry(u, what) PROVE UploadsInv'
  BY <1>11 DEF RemoveEntry, Without
<1>12. ASSUME NEW u \in Files, RemoveDir(u) PROVE UploadsInv'
  BY <1>12 DEF RemoveDir
<1>13. ASSUME NEW u \in Files, RemovalFails(u) PROVE UploadsInv'
  BY <1>13 DEF RemovalFails, Without
<1>14. ASSUME NEW r \in Readers, NEW u \in Files, AttachSweeps(r, u) PROVE UploadsInv'
  <2> USE <1>14 DEF AttachSweeps, Sweep
  <2>1. StagesOnDisk'
    OBVIOUS
  <2>2. HandledUploads'
    OBVIOUS
  <2>3. WholeUntilExpired'
    OBVIOUS
  <2>4. AnsweredIsFound'
    OBVIOUS
  <2>5. ReadersAsk'
    OBVIOUS
  <2>6. MissHasCause'
    OBVIOUS
  <2>7. LeftoverHasCause'
    OBVIOUS
  <2>8. QED
    BY <2>1, <2>2, <2>3, <2>4, <2>5, <2>6, <2>7
<1>15. ASSUME NEW r \in Readers, Attach(r) PROVE UploadsInv'
  BY <1>15 DEF Attach
<1> HIDE DEF TypeOK, UploadsInv
<1>16. QED
  BY <1>1, <1>2, <1>3, <1>4, <1>5, <1>6, <1>7, <1>8, <1>9, <1>10, <1>11, <1>12, <1>13, <1>14, <1>15 DEF UploadsNext, Removal, UploadStep, AttachStep

\* And every step on the links theirs.
LEMMA LinksInvStep ==
  ASSUME TypeOK, LinksInv, VncNext
  PROVE LinksInv'
<1> USE ProcessAssumption, VncAssumption
    DEF TypeOK, ProcessTypeOK, VncTypeOK, process, LinksInv, MissingLinkHasCause,
        PagesShowLinks, RefusalHasCause, Live
<1>1. ASSUME NEW m \in Mints, MintBegins(m) \/ Probe(m) \/ MintStub(m) PROVE LinksInv'
  BY <1>1 DEF MintBegins, Probe, MintStub
<1>2. ASSUME NEW m \in Mints, MintLink(m) PROVE LinksInv'
  BY <1>2 DEF MintLink
<1>3. ASSUME NEW v \in Viewers, NEW t \in Mints, OpenPage(v, t) PROVE LinksInv'
  BY <1>3 DEF OpenPage, Lookup
<1>4. QED
  BY <1>1, <1>2, <1>3 DEF VncNext

\* Where only the clock advances, nothing that has expired comes back.
LEMMA TickStep == ASSUME StoresInv, Tick PROVE UploadsInv' /\ LinksInv'
<1> USE ProcessAssumption, UploadsAssumption, VncAssumption
    DEF StoresInv, TypeOK, ProcessTypeOK, UploadsTypeOK, VncTypeOK, Tick, Elapse, uploads,
        storage, vnc, Expired, Good, WritesMeta, Live
<1>1. \A u \in Files : Expired(u) => Expired(u)'
  OBVIOUS
<1>2. StagesOnDisk' /\ HandledUploads' /\ ReadersAsk'
  BY <1>1 DEF UploadsInv, StagesOnDisk, HandledUploads, ReadersAsk
<1>3. WholeUntilExpired' /\ AnsweredIsFound'
  BY <1>1 DEF UploadsInv, WholeUntilExpired, AnsweredIsFound
<1>4. MissHasCause' /\ LeftoverHasCause'
  BY <1>1 DEF UploadsInv, MissHasCause, LeftoverHasCause, ReadersAsk
<1>5. \A t \in Mints : ~Live(t) => ~Live(t)'
  OBVIOUS
<1>6. LinksInv'
  BY <1>5 DEF LinksInv, MissingLinkHasCause, PagesShowLinks, RefusalHasCause
<1>7. QED
  BY <1>2, <1>3, <1>4, <1>6 DEF UploadsInv

\* The disk is what the crash left of it, and every upload that is in the
\* memory is one that was answered.
LEMMA CrashStep == ASSUME StoresInv, Crash PROVE UploadsInv' /\ LinksInv'
<1> USE DEF StoresInv, TypeOK, ProcessTypeOK, UploadsTypeOK, VncTypeOK, Crash, Stop, UploadsStop,
            VncStop, Crashed, Working, storage, Expired, Good, WritesMeta, Live
<1>1. StagesOnDisk' /\ HandledUploads'
  BY DEF UploadsInv, StagesOnDisk, HandledUploads
<1>2. WholeUntilExpired' /\ AnsweredIsFound'
  BY DEF UploadsInv, WholeUntilExpired, AnsweredIsFound
<1>3. ReadersAsk' /\ MissHasCause' /\ LeftoverHasCause'
  BY DEF UploadsInv, ReadersAsk, MissHasCause, LeftoverHasCause
<1>4. LinksInv'
  BY DEF LinksInv, MissingLinkHasCause, PagesShowLinks, RefusalHasCause
<1>5. QED
  BY <1>1, <1>2, <1>3, <1>4 DEF UploadsInv

\* What a restart reads back is whole, and it misses nothing that has not
\* expired; what it does not read back is of an earlier epoch.
LEMMA RestartStep == ASSUME StoresInv, Restart PROVE UploadsInv' /\ LinksInv'
<1> USE DEF StoresInv, TypeOK, ProcessTypeOK, UploadsTypeOK, VncTypeOK, Restart, Start, UploadsStart,
            Reloaded, storage, vnc, Expired, Good, WritesMeta, Live
<1>1. StagesOnDisk' /\ HandledUploads'
  BY DEF UploadsInv, StagesOnDisk, HandledUploads, Working
<1>2. WholeUntilExpired' /\ AnsweredIsFound'
  BY DEF UploadsInv, WholeUntilExpired, AnsweredIsFound
<1>3. ReadersAsk' /\ MissHasCause'
  BY DEF UploadsInv, ReadersAsk, MissHasCause
<1>4. LeftoverHasCause'
  <2> SUFFICES ASSUME NEW u \in Files, dir[u], u \notin table' \cup removing,
                      call[u] = "answered", mode # "memory"
               PROVE u \in spared \/ (mode = "box" /\ age[u] < epoch + 1)
    BY DEF UploadsInv, StagesOnDisk, LeftoverHasCause, Working
  <2>1. age[u] < epoch + 1
    BY DEF UploadsInv, AnsweredIsFound
  <2>2. mode = "disk" => u \in spared
    BY DEF UploadsInv, AnsweredIsFound
  <2>3. QED
    BY <2>1, <2>2, UploadsAssumption
<1>5. LinksInv'
  BY DEF LinksInv, MissingLinkHasCause, PagesShowLinks, RefusalHasCause
<1>6. QED
  BY <1>1, <1>2, <1>3, <1>4, <1>5 DEF UploadsInv

LEMMA InvariantStep == StoresInv /\ [Next]_vars => StoresInv'
<1> SUFFICES ASSUME StoresInv, [Next]_vars PROVE UploadsInv' /\ LinksInv'
  BY TypeStep DEF StoresInv
<1>1. ASSUME UploadsNext, UNCHANGED vnc PROVE UploadsInv' /\ LinksInv'
  <2>1. UNCHANGED process
    BY <1>1, UploadsKeepProcess
  <2>2. LinksInv'
    BY <1>1, <2>1 DEF StoresInv, LinksInv, vnc, process, MissingLinkHasCause, PagesShowLinks,
                      RefusalHasCause, Live
  <2>3. QED
    BY <1>1, <2>2, UploadsInvStep DEF StoresInv
<1>2. ASSUME VncNext, UNCHANGED uploads PROVE UploadsInv' /\ LinksInv'
  <2>1. UNCHANGED process
    BY <1>2 DEF VncNext, MintBegins, Probe, MintLink, MintStub, OpenPage
  <2>2. UploadsInv'
    BY <1>2, <2>1 DEF StoresInv, uploads, process, storage, UploadsInv, StagesOnDisk,
         HandledUploads, WholeUntilExpired, AnsweredIsFound, ReadersAsk, MissHasCause,
         LeftoverHasCause, Expired, Good, WritesMeta
  <2>3. QED
    BY <1>2, <2>2, LinksInvStep DEF StoresInv
<1>3. CASE Tick
  BY <1>3, TickStep
<1>4. CASE Crash
  BY <1>4, CrashStep
<1>5. CASE Restart
  BY <1>5, RestartStep
<1>6. CASE UNCHANGED vars
  BY <1>6 DEF vars, process, uploads, storage, vnc, StoresInv, UploadsInv, LinksInv,
       StagesOnDisk, HandledUploads, WholeUntilExpired, AnsweredIsFound, ReadersAsk,
       MissHasCause, LeftoverHasCause, Expired, Good, WritesMeta, MissingLinkHasCause,
       PagesShowLinks, RefusalHasCause, Live
<1>7. QED
  BY <1>1, <1>2, <1>3, <1>4, <1>5, <1>6 DEF Next

THEOREM StoresInvariant == Spec => []StoresInv
<1>1. QED
  BY InitEstablishes, InvariantStep, PTL DEF Spec
-----------------------------------------------------------------------------
(* What follows *)

\* The stores keep their types, and the process is down only where it can
\* still be started again.
THEOREM TypesHold == Spec => []TypeOK
<1>1. StoresInv => TypeOK
  BY DEF StoresInv
<1>2. QED
  BY <1>1, StoresInvariant, PTL

\* uploadAttachment and load_disk_uploads: a record that has not expired names
\* a file that is whole, whatever a crash cut short.
THEOREM RecordsNameWholeFiles == Spec => []UnexpiredHasFile
<1>1. StoresInv => UnexpiredHasFile
  BY DEF StoresInv, UploadsInv, HandledUploads, WholeUntilExpired, UnexpiredHasFile, Good,
         TypeOK, UploadsTypeOK, WritesMeta
<1>2. QED
  BY <1>1, StoresInvariant, PTL

\* attachUpload: an answered id is refused only once it has expired or, where
\* nothing is read back, after a restart.
THEOREM MissesHaveCause == Spec => []MissHasCause
<1>1. StoresInv => MissHasCause
  BY DEF StoresInv, UploadsInv
<1>2. QED
  BY <1>1, StoresInvariant, PTL

\* sweep_expired_uploads: nothing without a record stays on the disk without a
\* failure, a crash, or a mode that never looks back.
THEOREM LeftoversHaveCause == Spec => []LeftoverHasCause
<1>1. StoresInv => LeftoverHasCause
  BY DEF StoresInv, UploadsInv
<1>2. QED
  BY <1>1, StoresInvariant, PTL

\* lookup_vnc_token: a link is refused only when it has expired or the gateway
\* was restarted; no mint drops a live one.
THEOREM RefusalsHaveCause == Spec => []RefusalHasCause
<1>1. StoresInv => RefusalHasCause
  BY DEF StoresInv, LinksInv
<1>2. QED
  BY <1>1, StoresInvariant, PTL

-----------------------------------------------------------------------------
(* Signing in *)

\* One save at a time: it has the temporary file, which is not the kept one,
\* and the kept one is the newest.
FileInv ==
  /\ CredentialsTypeOK
  /\ \A l \in Logins : (tmp = l \/ kept = l) => save[l] # "none"
  /\ overlapped \/
       /\ \A k, l \in Logins : Saving(k) /\ Saving(l) => k = l
       /\ \A l \in Logins : Saving(l) =>
            /\ tmp # Nothing /\ open[l] = tmp
            /\ save[l] = "opened" => data[tmp] = "empty"
            /\ save[l] = "written" => data[tmp] = l
       /\ tmp # Nothing => tmp # kept
       /\ kept = Nothing <=> newest = Nothing
       /\ kept # Nothing => data[kept] = newest

StagesTypeOK ==
  /\ stage \in [Logins -> Over \cup {"waiting", "exchanging", "saving"}]
  /\ via \in [Logins -> {"oidc", "wecom"}]
  /\ tabs \subseteq Logins /\ codes \subseteq Logins
  /\ landed \in [Logins -> Logins \cup {Nothing}]
  /\ reply \in [Logins -> {"none", "token", "error"}]

\* A code belongs to a login that began, lands elsewhere only on a shared port
\* without a state, and becomes a token of its own provider only.
OwnInv ==
  /\ StagesTypeOK
  /\ \A l \in tabs \cup codes : stage[l] # "idle"
  /\ \A l \in Logins :
       /\ stage[l] \in {"idle", "waiting"} => reply[l] = "none"
       /\ stage[l] \in {"saving", "done"} => reply[l] = "token"
       /\ stage[l] = "idle" => landed[l] = Nothing
       /\ stage[l] = "exchanging" => landed[l] \in Logins
       /\ landed[l] # Nothing =>
            /\ stage[landed[l]] # "idle"
            /\ landed[l] = l \/ (fixed /\ ~echoes)
       /\ reply[l] = "token" =>
            /\ landed[l] # Nothing
            /\ via[l] = "oidc" => landed[l] = l
            /\ via[l] = "wecom" => via[landed[l]] = "wecom"

\* Who was last told "login ok" has its token; a WeCom login has one of the hub,
\* and an OIDC hub holds what the provider once published, or nothing.
KeysInv ==
  /\ key \in Nat
  /\ loaded = <<>> \/ loaded = <<0>> \/ \E k \in Nat : k > 0 /\ loaded = <<k, k - 1>>
  /\ newest # Nothing => stage[newest] = "done"
  /\ signed \in [Logins -> Nat]
  /\ \A l \in Logins : reply[l] = "token" /\ via[l] = "wecom" => signed[landed[l]] = Secret
-----------------------------------------------------------------------------
(* The credentials file *)

LEMMA FileInit == SignInInit => FileInv
<1> SUFFICES ASSUME CredentialsInit PROVE FileInv
  BY DEF SignInInit
<1>1. CredentialsTypeOK
  BY DEF CredentialsInit, CredentialsTypeOK
<1>2. \A l \in Logins : tmp # l /\ kept # l /\ ~Saving(l)
  BY CredentialsAssumption DEF CredentialsInit, Saving
<1>3. QED
  BY <1>1, <1>2 DEF CredentialsInit, FileInv

LEMMA FileStep == FileInv /\ [SignInNext]_signIn => FileInv'
<1> SUFFICES ASSUME FileInv, [SignInNext]_signIn PROVE FileInv'
  OBVIOUS
<1> USE CredentialsAssumption DEF FileInv, CredentialsTypeOK, Saving
<1>1. ASSUME NEW l \in Logins, OpenTmp(l) PROVE FileInv'
  BY <1>1 DEF OpenTmp
<1>2. ASSUME NEW l \in Logins, WriteTmp(l) PROVE FileInv'
  <2>1. PICK c : /\ c = l \/ c = "mixed"
                 /\ data[open[l]] = "empty" => c = l
                 /\ data' = [data EXCEPT ![open[l]] = c]
    BY <1>2 DEF WriteTmp
  <2>2. /\ save[l] = "opened" /\ save' = [save EXCEPT ![l] = "written"]
        /\ UNCHANGED <<tmp, kept, open, overlapped, newest>>
    BY <1>2 DEF WriteTmp
  <2>3. CredentialsTypeOK' /\ \A k \in Logins : (tmp' = k \/ kept' = k) => save'[k] # "none"
    BY <2>1, <2>2
  <2>4. CASE overlapped
    BY <2>2, <2>3, <2>4
  <2>5. CASE ~overlapped
    <3>1. open[l] = tmp /\ tmp \in Logins /\ data'[tmp] = l /\ tmp # kept
      BY <2>1, <2>2, <2>5
    <3>2. \A k \in Logins : save'[k] \in {"opened", "written"} => k = l
      BY <2>2, <2>5
    <3>3. kept # Nothing => data'[kept] = data[kept]
      BY <2>1, <3>1
    <3>4. QED
      BY <2>2, <2>3, <2>5, <3>1, <3>2, <3>3
  <2>6. QED
    BY <2>4, <2>5
<1>3. ASSUME NEW l \in Logins, Rename(l) PROVE FileInv'
  BY <1>3 DEF Rename
<1>4. ASSUME NEW l \in Logins, SaveFails(l) PROVE FileInv'
  BY <1>4 DEF SaveFails
<1>5. CASE Delete
  BY <1>5 DEF Delete
<1>6. CASE UNCHANGED credentials
  BY <1>6 DEF credentials
<1> HIDE DEF FileInv
<1>7. QED
  BY <1>1, <1>2, <1>3, <1>4, <1>5, <1>6
  DEF SignInNext, Begin, CallBack, Authorize, CallBackLost, GiveUp, Fail, Redeem, ExchangeByHub,
      TakeToken, ExchangeFails, Save, Upgrade, Hello, Disconnect, Logout, HubRestarts, Rotate, Pass,
      signIn

\* save_credentials and load_credentials: as long as no two saves overlap, what
\* the next command reads is the record of the login last told "login ok".
THEOREM NewestIsKept == SignInSpec => []FileIsNewest
<1>1. FileInv => FileIsNewest
  BY CredentialsAssumption DEF FileInv, CredentialsTypeOK, FileIsNewest, Stored
<1>2. QED
  BY <1>1, FileInit, FileStep, PTL DEF SignInSpec
-----------------------------------------------------------------------------
(* The codes *)

LEMMA OwnInit == SignInInit => OwnInv
  BY CredentialsAssumption DEF SignInInit, OwnInv, StagesTypeOK, Over

LEMMA OwnStep == OwnInv /\ [SignInNext]_signIn => OwnInv'
<1> SUFFICES ASSUME OwnInv, [SignInNext]_signIn PROVE OwnInv'
  OBVIOUS
<1> USE CredentialsAssumption, SignInAssumption DEF OwnInv, StagesTypeOK, Over, exchange, provider
<1>1. ASSUME NEW l \in Logins, NEW p \in Providers, Begin(l, p) PROVE OwnInv'
  BY <1>1 DEF Begin
<1>2. ASSUME NEW l \in Logins, Authorize(l) PROVE OwnInv'
  BY <1>2 DEF Authorize
<1>3. ASSUME NEW l \in Logins, NEW c \in Logins, CallBack(c, l) PROVE OwnInv'
  BY <1>3 DEF CallBack, Reached, Listening
<1>4. ASSUME NEW c \in Logins, CallBackLost(c) PROVE OwnInv'
  BY <1>4 DEF CallBackLost
<1>5. ASSUME NEW l \in Logins, GiveUp(l) \/ ExchangeFails(l) PROVE OwnInv'
  BY <1>5 DEF GiveUp, ExchangeFails, Fail
<1>6. ASSUME NEW l \in Logins, Redeem(l) PROVE OwnInv'
  BY <1>6 DEF Redeem, Verified
<1>7. ASSUME NEW l \in Logins, ExchangeByHub(l) PROVE OwnInv'
  BY <1>7 DEF ExchangeByHub
<1>8. ASSUME NEW l \in Logins, TakeToken(l) PROVE OwnInv'
  BY <1>8 DEF TakeToken
<1>9. ASSUME NEW l \in Logins, Save(l) PROVE OwnInv'
  BY <1>9 DEF Save
<1>10. CASE UNCHANGED <<stage, via, tabs, landed, codes, reply, fixed, echoes>>
  BY <1>10
<1> HIDE DEF OwnInv, StagesTypeOK
<1>11. QED
  BY <1>1, <1>2, <1>3, <1>4, <1>5, <1>6, <1>7, <1>8, <1>9, <1>10
  DEF SignInNext, Upgrade, Hello, Disconnect, Logout, HubRestarts, Rotate, Pass, signIn

\* The login command: what it stores is the sign-in its own page was used for,
\* except with WeCom on a shared port when the state does not come back.
THEOREM OwnIsStored == SignInSpec => []StoredIsOwn
<1>1. OwnInv => StoredIsOwn
  BY DEF OwnInv, StagesTypeOK, StoredIsOwn
<1>2. QED
  BY <1>1, OwnInit, OwnStep, PTL DEF SignInSpec
-----------------------------------------------------------------------------
(* The keys *)

LEMMA KeysInit == SignInInit => KeysInv
<1> SUFFICES ASSUME SignInInit PROVE KeysInv
  OBVIOUS
<1>1. key = 0 /\ loaded \in {<<>>, <<0>>} /\ newest = Nothing
  BY DEF SignInInit, CredentialsInit, KeysRead, Published
<1>2. Secret \in Nat
  BY SignInAssumption DEF Secret
<1>3. QED
  BY <1>1, <1>2 DEF SignInInit, KeysInv

\* What a starting hub reads is what KeysInv says.
LEMMA KeysAreRead ==
  ASSUME key \in Nat, NEW r \in KeysRead
  PROVE  r = <<>> \/ r = <<0>> \/ \E k \in Nat : k > 0 /\ r = <<k, k - 1>>
<1>1. r = <<>> \/ \E k \in 0..key : r = Published(k)
  BY DEF KeysRead
<1>2. QED
  BY <1>1 DEF Published

LEMMA KeysStep ==
  ASSUME FileInv, OwnInv, OwnInv', KeysInv, [SignInNext]_signIn
  PROVE  KeysInv'
<1> USE CredentialsAssumption, SignInAssumption DEF KeysInv, exchange, provider, hub
<1>1. ASSUME NEW l \in Logins, NEW p \in Providers, Begin(l, p) PROVE KeysInv'
  BY <1>1 DEF Begin, OwnInv, StagesTypeOK, credentials, Over
<1>2. ASSUME NEW l \in Logins, NEW c \in Logins, CallBack(c, l) PROVE KeysInv'
  <2>1. UNCHANGED <<key, loaded, newest, signed, reply, via>>
    BY <1>2 DEF CallBack, credentials
  <2>2. newest # Nothing => stage'[newest] = "done"
    BY <1>2 DEF CallBack, FileInv, CredentialsTypeOK, OwnInv, StagesTypeOK
  <2>3. ASSUME NEW k \in Logins, reply[k] = "token" PROVE landed'[k] = landed[k]
    BY <1>2, <2>3 DEF CallBack, OwnInv, StagesTypeOK
  <2>4. QED
    BY <2>1, <2>2, <2>3
<1>3. ASSUME NEW l \in Logins, GiveUp(l) \/ ExchangeFails(l) PROVE KeysInv'
  <2>1. UNCHANGED <<key, loaded, newest, signed, reply, via, landed>>
    BY <1>3 DEF GiveUp, ExchangeFails, Fail, credentials
  <2>2. newest # Nothing => stage'[newest] = "done"
    BY <1>3 DEF GiveUp, ExchangeFails, Fail, FileInv, CredentialsTypeOK, OwnInv, StagesTypeOK
  <2>3. QED
    BY <2>1, <2>2
<1>4. ASSUME NEW l \in Logins, Redeem(l) PROVE KeysInv'
  BY <1>4 DEF Redeem, OwnInv, StagesTypeOK, credentials, Over
<1>5. ASSUME NEW l \in Logins, ExchangeByHub(l) PROVE KeysInv'
  <2>1. /\ UNCHANGED <<key, loaded, newest, stage, via, landed>>
        /\ stage[l] = "exchanging" /\ landed[l] \in Logins /\ Secret \in Nat
    BY <1>5 DEF ExchangeByHub, OwnInv, credentials, Secret
  <2>2. \/ signed' = signed /\ reply' = [reply EXCEPT ![l] = "error"]
        \/ signed' = [signed EXCEPT ![landed[l]] = Secret] /\ reply' = [reply EXCEPT ![l] = "token"]
    BY <1>5 DEF ExchangeByHub
  <2>3. CASE signed' = signed /\ reply' = [reply EXCEPT ![l] = "error"]
    BY <2>1, <2>3 DEF OwnInv, StagesTypeOK
  <2>4. CASE signed' = [signed EXCEPT ![landed[l]] = Secret] /\ reply' = [reply EXCEPT ![l] = "token"]
    <3>1. signed' \in [Logins -> Nat]
      BY <2>1, <2>4
    <3>2. ASSUME NEW k \in Logins, reply'[k] = "token", via[k] = "wecom"
          PROVE  signed'[landed[k]] = Secret
      BY <2>1, <2>4, <3>2 DEF OwnInv, StagesTypeOK
    <3>3. QED
      BY <2>1, <3>1, <3>2
  <2>5. QED
    BY <2>2, <2>3, <2>4
<1>6. ASSUME NEW l \in Logins, TakeToken(l) PROVE KeysInv'
  BY <1>6 DEF TakeToken, OwnInv, StagesTypeOK, credentials, Over
<1>7. ASSUME NEW l \in Logins, Save(l) PROVE KeysInv'
  BY <1>7 DEF Save, OpenTmp, WriteTmp, Rename, SaveFails, FileInv, CredentialsTypeOK, OwnInv,
              StagesTypeOK, Over
<1>8. CASE Logout
  BY <1>8 DEF Logout, Delete
<1>9. CASE HubRestarts
  BY <1>9, KeysAreRead DEF HubRestarts, credentials
<1>10. CASE Rotate
  BY <1>10 DEF Rotate, credentials
<1>11. CASE UNCHANGED <<key, loaded, newest, stage, signed, reply, via, landed>>
  BY <1>11
<1> HIDE DEF KeysInv
<1>12. QED
  BY <1>1, <1>2, <1>3, <1>4, <1>5, <1>6, <1>7, <1>8, <1>9, <1>10, <1>11
  DEF SignInNext, Authorize, CallBackLost, Upgrade, Hello, Disconnect, Pass, signIn, credentials

\* finish_login, resolve_bearer and the gate: who was last told "login ok" is
\* admitted with what the file holds, if the hub trusts the provider, knows the
\* subject and holds the key, until the token expires.
THEOREM SignInAdmits == SignInSpec => []SignInIsAdmitted
<1>1. FileInv /\ OwnInv /\ KeysInv => SignInIsAdmitted
  <2> SUFFICES ASSUME FileInv, OwnInv, KeysInv, NEW l \in Logins,
                      newest = l, ~overlapped, landed[l] \in Enrolled, time <= expiry[landed[l]],
                      \/ gate = "static" /\ via[l] = "wecom"
                      \/ /\ gate = "oidc" /\ via[l] = "oidc" /\ loaded # <<>>
                         /\ signed[landed[l]] \in {loaded[1]} \cup
                               (IF kids /\ loaded[1] > 0 THEN {loaded[1] - 1} ELSE {})
               PROVE  Gate(landed[Stored]) = "admitted"
    BY DEF SignInIsAdmitted
  <2>1. Stored = l
    BY CredentialsAssumption DEF FileInv, Stored
  <2>2. PICK t \in Logins : t = landed[l] /\ t \in Enrolled /\ t # "none"
    <3>1. stage[l] = "done"
      BY CredentialsAssumption DEF KeysInv
    <3>2. landed[l] \in Logins
      BY <3>1 DEF OwnInv, StagesTypeOK
    <3>3. QED
      BY <3>2, CredentialsAssumption
  <2>3. reply[l] = "token"
    BY CredentialsAssumption DEF KeysInv, OwnInv
  <2>4. Verdict(t) = "admitted"
    <3>1. CASE gate = "static" /\ via[l] = "wecom"
      <4>1. signed[t] = Secret
        BY <2>2, <2>3, <3>1 DEF KeysInv
      <4>2. QED
        BY <2>2, <3>1, <4>1 DEF Verdict
    <3>2. CASE /\ gate = "oidc" /\ loaded # <<>>
               /\ signed[t] \in {loaded[1]} \cup
                     (IF kids /\ loaded[1] > 0 THEN {loaded[1] - 1} ELSE {})
      <4>1. KeyFor(t) = signed[t]
        <5>1. CASE signed[t] = loaded[1]
          BY <5>1 DEF KeyFor
        <5>2. CASE kids /\ loaded[1] > 0 /\ signed[t] = loaded[1] - 1
          <6>1. PICK k \in Nat : k > 0 /\ loaded = <<k, k - 1>>
            BY <3>2, <5>2 DEF KeysInv
          <6>2. Len(loaded) = 2 /\ loaded[2] = signed[t]
            BY <5>2, <6>1
          <6>3. \E i \in 1..Len(loaded) : loaded[i] = signed[t]
            BY <6>2
          <6>4. QED
            BY <5>2, <6>3 DEF KeyFor
        <5>3. QED
          BY <3>2, <5>1, <5>2
      <4>2. QED
        BY <2>2, <3>2, <4>1 DEF Verdict
    <3>3. QED
      BY <2>2, <3>1, <3>2
  <2>5. QED
    BY <2>1, <2>2, <2>4 DEF Gate, Subject
<1>2. SignInSpec => []FileInv
  BY FileInit, FileStep, PTL DEF SignInSpec
<1>3. SignInSpec => []OwnInv
  BY OwnInit, OwnStep, PTL DEF SignInSpec
<1>4. QED
  BY <1>1, <1>2, <1>3, KeysInit, KeysStep, PTL DEF SignInSpec
=============================================================================
