------------------------------ MODULE Uploads -------------------------------
(***************************************************************************)
(* Attachments: uploadAttachment writes a file and records it in a table,  *)
(* attachUpload looks a record up, and every call of either first sweeps   *)
(* away what has outlived the time to live.  Two gateways implement this   *)
(* with nearly the same text: lib.rs (InMemoryGateway, attach mode memory  *)
(* or disk) and box_sidecar.rs.  They differ in three points, which the    *)
(* mode tells apart: who writes meta.json, what a sweep removes from the   *)
(* disk, and what a restart reads back.                                    *)
(*                                                                         *)
(* std::fs::write truncates and then writes, and remove_dir_all removes    *)
(* one entry after another in no given order, so both are several steps: a *)
(* crash may fall between them, and other calls run meanwhile (the sweep   *)
(* holds the table's write lock, the writing of a file holds nothing).     *)
(* The crash is one of the process: what write() returned from survives.   *)
(***************************************************************************)
EXTENDS GatewayProcess, FiniteSets

CONSTANTS Files,        \* uploads; an id stands for the uuid of its call
          Readers,      \* calls of attachUpload
          Ttl,          \* attach_ttl
          Names,        \* what the sanitised filename may be
          Modes,        \* "memory", "disk" (lib.rs) or "box" (box_sidecar.rs)
          Nobody

\* "plain": a file beside meta.json.  "meta": the upload is itself called
\* meta.json, a name the sanitising lets through, as it does "..", which is
\* the directory above.
ASSUME UploadsAssumption ==
  /\ Ttl \in Nat \ {0}
  /\ Names \subseteq {"plain", "meta", "dotdot"}
  /\ Modes \subseteq {"memory", "disk", "box"}
  /\ Files \cap Readers = {}
  /\ Nobody \notin Files \cup Readers

VARIABLES mode,
          call,         \* where each uploadAttachment call is
          name,         \* its sanitised filename
          born,         \* its created_at
          age,          \* the epoch it was answered in
          table,        \* Inner.uploads: the ids with a record in memory
          dir, file, meta,   \* what is on the disk for each id
          lock,         \* the call that holds the write lock across a sweep
          removing,     \* swept ids whose directory is still to be removed
          spared,       \* history: ids whose removal failed or was cut short
          read,         \* where each attachUpload call is
          want          \* the id it asks for

storage == <<dir, file, meta>>
uploads == <<mode, call, name, born, age, table, dir, file, meta, lock,
             removing, spared, read, want>>

Working == {"swept", "accepted", "made", "writing", "written", "recording",
            "recorded"}
Content == {"none", "part", "whole", "lost"}    \* "lost": other bytes

Expired(u) == now - born[u] >= Ttl

UploadsInit ==
  /\ ProcessInit
  /\ mode \in Modes
  /\ call = [u \in Files |-> "idle"]
  /\ name = [u \in Files |-> "plain"]
  /\ born = [u \in Files |-> 0]
  /\ age = [u \in Files |-> 0]
  /\ table = {}
  /\ dir = [u \in Files |-> FALSE]
  /\ file = [u \in Files |-> "none"]
  /\ meta = [u \in Files |-> "none"]
  /\ lock = Nobody
  /\ removing = {}
  /\ spared = {}
  /\ read = [r \in Readers |-> "idle"]
  /\ want = [r \in Readers |-> Nobody]
-----------------------------------------------------------------------------
(* sweep_expired_uploads.  Under the write lock the expired records leave  *)
(* the table, and their directories the disk: never in memory mode, by the *)
(* id in disk mode, by the parent of the recorded path in the box.         *)

\* Fault: the records go, their directories stay.
OnlyRecords == {}

OnDisk == IF mode = "memory" THEN {} ELSE table

\* A sweep with nothing to remove is over at once; the others keep the lock.
Sweep(c) ==
  LET old == {u \in table : Expired(u)}
      gone == old \cap OnDisk IN
  /\ up /\ lock = Nobody
  /\ table' = table \ old
  /\ removing' = gone
  /\ lock' = IF gone = {} THEN Nobody ELSE c
  /\ UNCHANGED <<process, mode, name, born, age, storage, spared>>

\* What is left of the entry `what' once it is removed; an upload called
\* meta.json has only one.
Without(u, what) ==
  /\ file' = [file EXCEPT ![u] = IF what = "file" \/ name[u] = "meta"
                                 THEN "none" ELSE @]
  /\ meta' = [meta EXCEPT ![u] = IF what = "meta" \/ name[u] = "meta"
                                 THEN "none" ELSE @]

RemoveEntry(u, what) ==
  /\ up /\ u \in removing
  /\ (what = "file" /\ file[u] # "none") \/ (what = "meta" /\ meta[u] # "none")
  /\ Without(u, what)
  /\ UNCHANGED <<process, mode, call, name, born, age, table, dir, lock,
                 removing, spared, read, want>>

\* The directory goes last, and the sweep ends with its last directory.
RemoveDir(u) ==
  /\ up /\ u \in removing
  /\ file[u] = "none" /\ meta[u] = "none"
  /\ dir' = [dir EXCEPT ![u] = FALSE]
  /\ removing' = removing \ {u}
  /\ lock' = IF removing' = {} THEN Nobody ELSE lock
  /\ UNCHANGED <<process, mode, call, name, born, age, table, file, meta,
                 spared, read, want>>

\* An error of the removal is ignored (let _ =): the record is gone, the rest
\* stays.  In disk mode the file itself is tried once more.
RemovalFails(u) ==
  /\ up /\ u \in removing
  /\ \/ UNCHANGED <<file, meta>>
     \/ mode = "disk" /\ Without(u, "file")
  /\ removing' = removing \ {u}
  /\ lock' = IF removing' = {} THEN Nobody ELSE lock
  /\ spared' = spared \cup {u}
  /\ UNCHANGED <<process, mode, call, name, born, age, table, dir, read, want>>
-----------------------------------------------------------------------------
(* uploadAttachment *)

Goes(u, from, to) == up /\ call[u] = from /\ call' = [call EXCEPT ![u] = to]

UploadSweeps(u) ==
  /\ Goes(u, "idle", "swept")
  /\ Sweep(u)
  /\ UNCHANGED <<read, want>>

\* The sweep of this very call is over when it does not hold the lock.
\* Arguments too long, no filename, no base64, or an object too large.
Reject(u) ==
  /\ lock # u
  /\ Goes(u, "swept", "failed")
  /\ UNCHANGED <<process, mode, name, born, age, table, storage, lock,
                 removing, spared, read, want>>

Accept(u, n) ==
  /\ lock # u
  /\ Goes(u, "swept", "accepted")
  /\ name' = [name EXCEPT ![u] = n]
  /\ born' = [born EXCEPT ![u] = now]
  /\ UNCHANGED <<process, mode, age, table, storage, lock, removing, spared,
                 read, want>>

\* The steps on the disk: each may fail, and none cleans up after itself.
OnlyStorage(u) ==
  UNCHANGED <<process, mode, name, born, age, table, lock, removing, spared,
              read, want>>

MakeDir(u) ==
  /\ Goes(u, "accepted", "made")
  /\ dir' = [dir EXCEPT ![u] = TRUE]
  /\ UNCHANGED <<file, meta>>
  /\ OnlyStorage(u)

BeginFile(u) ==
  /\ name[u] # "dotdot"
  /\ Goes(u, "made", "writing")
  /\ file' = [file EXCEPT ![u] = "part"]
  /\ UNCHANGED <<dir, meta>>
  /\ OnlyStorage(u)

EndFile(u) ==
  /\ Goes(u, "writing", "written")
  /\ file' = [file EXCEPT ![u] = "whole"]
  /\ UNCHANGED <<dir, meta>>
  /\ OnlyStorage(u)

\* lib.rs writes the metadata in disk mode only, box_sidecar.rs always.  An
\* upload called meta.json is overwritten by it.
WritesMeta == mode # "memory"

BeginMeta(u) ==
  /\ WritesMeta
  /\ Goes(u, "written", "recording")
  /\ meta' = [meta EXCEPT ![u] = "part"]
  /\ file' = [file EXCEPT ![u] = IF name[u] = "meta" THEN "lost" ELSE @]
  /\ UNCHANGED dir
  /\ OnlyStorage(u)

EndMeta(u) ==
  /\ Goes(u, "recording", "recorded")
  /\ meta' = [meta EXCEPT ![u] = "whole"]
  /\ UNCHANGED <<dir, file>>
  /\ OnlyStorage(u)

\* mkdir, write or meta: the error is the answer, what was written stays.
DiskFails(u) ==
  /\ \E from \in {"accepted", "made", "writing", "recording"} :
       Goes(u, from, "failed")
  /\ UNCHANGED storage
  /\ OnlyStorage(u)

\* The record enters the table under the write lock, and the id is answered.
Record(u) ==
  /\ Goes(u, IF WritesMeta THEN "recorded" ELSE "written", "answered")
  /\ lock = Nobody
  /\ table' = table \cup {u}
  /\ age' = [age EXCEPT ![u] = epoch]
  /\ UNCHANGED <<process, mode, name, born, storage, lock, removing, spared,
                 read, want>>
-----------------------------------------------------------------------------
(* attachUpload.  A client asks for an id it was answered.                 *)

AttachSweeps(r, u) ==
  /\ read[r] \in {"idle", "served", "missed"}
  /\ call[u] = "answered"
  /\ Sweep(r)
  /\ read' = [read EXCEPT ![r] = "swept"]
  /\ want' = [want EXCEPT ![r] = u]
  /\ UNCHANGED call

\* The lookup takes the read lock, which a sweep in progress denies.
Attach(r) ==
  /\ up /\ read[r] = "swept" /\ lock = Nobody
  /\ read' = [read EXCEPT ![r] =
                IF want[r] \in table /\ ~Expired(want[r])
                THEN "served" ELSE "missed"]
  /\ UNCHANGED <<process, mode, call, name, born, age, table, storage, lock,
                 removing, spared, want>>
-----------------------------------------------------------------------------
(* The process. *)

Crashed(c) == [u \in Files |-> IF c[u] \in Working THEN "lost" ELSE c[u]]

UploadsStop ==
  /\ call' = Crashed(call)
  /\ read' = [r \in Readers |-> IF read[r] = "swept" THEN "idle" ELSE read[r]]
  /\ table' = {}
  /\ lock' = Nobody
  /\ spared' = spared \cup removing
  /\ removing' = {}
  /\ UNCHANGED <<mode, name, born, age, storage, want>>

\* Fault: every directory is taken for an upload.
ByDirectory == {u \in Files : dir[u]}

\* load_disk_uploads: every directory with a meta.json that can be parsed.
\* What is not parsed is skipped.  The box reads nothing back.
Reloaded == {u \in Files : dir[u] /\ meta[u] = "whole"}

\* Fault: a restart reads nothing back.
StartsEmpty ==
  /\ table' = {}
  /\ UNCHANGED <<mode, call, name, born, age, storage, lock, removing, spared,
                 read, want>>

UploadsStart ==
  /\ table' = IF mode = "disk" THEN Reloaded ELSE {}
  /\ UNCHANGED <<mode, call, name, born, age, storage, lock, removing, spared,
                 read, want>>

Removal == \E u \in Files :
  \/ \E what \in {"file", "meta"} : RemoveEntry(u, what)
  \/ RemoveDir(u)
  \/ RemovalFails(u)

UploadStep == \E u \in Files :
  \/ UploadSweeps(u) \/ Reject(u) \/ \E n \in Names : Accept(u, n)
  \/ MakeDir(u) \/ BeginFile(u) \/ EndFile(u)
  \/ BeginMeta(u) \/ EndMeta(u) \/ DiskFails(u) \/ Record(u)

AttachStep == \E r \in Readers : Attach(r) \/ \E u \in Files : AttachSweeps(r, u)

UploadsNext == Removal \/ UploadStep \/ AttachStep
-----------------------------------------------------------------------------
UploadsTypeOK ==
  /\ mode \in Modes
  /\ call \in [Files -> Working \cup {"idle", "answered", "failed", "lost"}]
  /\ name \in [Files -> Names \cup {"plain"}]
  /\ born \in [Files -> 0..MaxNow]
  /\ age \in [Files -> 0..MaxEpoch]
  /\ table \subseteq Files
  /\ dir \in [Files -> BOOLEAN]
  /\ file \in [Files -> Content]
  /\ meta \in [Files -> {"none", "part", "whole"}]
  /\ lock \in Files \cup Readers \cup {Nobody}
  /\ removing \subseteq Files
  /\ spared \subseteq Files
  /\ read \in [Readers -> {"idle", "swept", "served", "missed"}]
  /\ want \in [Readers -> Files \cup {Nobody}]

\* A record that has not expired names a file that is whole: through the
\* order of the two writes, a crash between any two steps of a write or of a
\* removal, and the reload after it.  The one exception is the upload called
\* meta.json, whose bytes its own metadata has replaced.
UnexpiredHasFile ==
  \A u \in table : ~Expired(u) => file[u] = IF name[u] = "meta" /\ WritesMeta
                                            THEN "lost" ELSE "whole"

\* attachUpload refuses an id that uploadAttachment has answered only once it
\* has expired or, where nothing is read back (lib.rs in memory mode, and the
\* box, which writes meta.json and never reads it), after a restart.
MissHasCause ==
  \A r \in Readers : read[r] = "missed" =>
    LET u == want[r] IN
    Expired(u) \/ (mode # "disk" /\ age[u] < epoch)

\* What lies on the disk without a record, and is on no sweep's list, is there
\* for a reason: its call is under way, it failed or a crash cut it short, its
\* removal failed or was cut short, or nothing ever removes it (memory mode)
\* or remembers it (the box after a restart).
LeftoverHasCause ==
  \A u \in Files : up /\ dir[u] /\ u \notin table \cup removing =>
    \/ call[u] \in Working \cup {"failed", "lost"}
    \/ u \in spared
    \/ mode = "memory"
    \/ mode = "box" /\ age[u] < epoch
=============================================================================
