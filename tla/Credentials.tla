---------------------------- MODULE Credentials -----------------------------
(***************************************************************************)
(* The credentials file of the command line client.  A save writes a       *)
(* temporary file, syncs it and renames it over credentials.json.  The     *)
(* temporary file has one name for all, so two logins that save at the     *)
(* same time share an inode; nothing locks it.                             *)
(*                                                                         *)
(* A path is an inode or Nothing.  An inode is named by the login that     *)
(* created it; its content is the record of a login, "empty", or "mixed"   *)
(* where two records were written over each other.                         *)
(***************************************************************************)
EXTENDS Naturals, FiniteSets

CONSTANTS Logins,       \* runs of the login command
          Nothing

ASSUME CredentialsAssumption ==
  Nothing \notin Logins /\ {"empty", "mixed", "none", "unreadable"} \cap Logins = {}

VARIABLES save,         \* where the save of each login is
          tmp,          \* credentials.json.tmp
          kept,         \* credentials.json
          open,         \* the inode each save has open
          data,         \* the content of each inode
          overlapped,   \* history: two saves had the temporary file at once
          newest        \* history: the login last told "login ok"

credentials == <<save, tmp, kept, open, data, overlapped, newest>>

CredentialsInit ==
  /\ save = [l \in Logins |-> "none"]
  /\ tmp = Nothing /\ kept = Nothing
  /\ open = [l \in Logins |-> Nothing]
  /\ data = [l \in Logins |-> "empty"]
  /\ overlapped = FALSE
  /\ newest = Nothing

Saving(l) == save[l] \in {"opened", "written"}

\* File::create truncates the file that is there or creates a new one.
OpenTmp(l) ==
  LET inode == IF tmp = Nothing THEN l ELSE tmp IN
  /\ save[l] = "none"
  /\ save' = [save EXCEPT ![l] = "opened"]
  /\ tmp' = inode
  /\ open' = [open EXCEPT ![l] = inode]
  /\ data' = [data EXCEPT ![inode] = "empty"]
  /\ overlapped' = (overlapped \/ \E k \in Logins : Saving(k))
  /\ UNCHANGED <<kept, newest>>

\* Each writer writes from the start: a record over another one replaces it,
\* or leaves the end of a longer one behind.
WriteTmp(l) ==
  /\ save[l] = "opened"
  /\ save' = [save EXCEPT ![l] = "written"]
  /\ \E c \in IF data[open[l]] = "empty" THEN {l} ELSE {l, "mixed"} :
       data' = [data EXCEPT ![open[l]] = c]
  /\ UNCHANGED <<tmp, kept, open, overlapped, newest>>

\* Fault: the rename does not wait for the record to be written.
RenameEarly(l) ==
  /\ Saving(l) /\ tmp # Nothing
  /\ save' = [save EXCEPT ![l] = "saved"]
  /\ kept' = tmp /\ tmp' = Nothing /\ newest' = l
  /\ UNCHANGED <<open, data, overlapped>>

\* The rename takes whatever inode has the temporary name now; there may be
\* none any more, and then the login is told so.
Rename(l) ==
  /\ save[l] = "written"
  /\ IF tmp = Nothing
     THEN save' = [save EXCEPT ![l] = "failed"] /\ UNCHANGED <<tmp, kept, newest>>
     ELSE /\ save' = [save EXCEPT ![l] = "saved"]
          /\ kept' = tmp /\ tmp' = Nothing /\ newest' = l
  /\ UNCHANGED <<open, data, overlapped>>

\* A full disk, or the process is killed: the temporary file stays as it is.
SaveFails(l) ==
  /\ Saving(l)
  /\ save' = [save EXCEPT ![l] = "failed"]
  /\ UNCHANGED <<tmp, kept, open, data, overlapped, newest>>

\* logout
Delete ==
  /\ kept # Nothing
  /\ kept' = Nothing /\ newest' = Nothing
  /\ UNCHANGED <<save, tmp, open, data, overlapped>>

\* load_credentials: no file, a record, or an error of the parser.
Stored == IF kept = Nothing THEN "none"
          ELSE IF data[kept] \in Logins THEN data[kept] ELSE "unreadable"

CredentialsTypeOK ==
  /\ save \in [Logins -> {"none", "opened", "written", "saved", "failed"}]
  /\ tmp \in Logins \cup {Nothing} /\ kept \in Logins \cup {Nothing}
  /\ open \in [Logins -> Logins \cup {Nothing}]
  /\ data \in [Logins -> Logins \cup {"empty", "mixed"}]
  /\ overlapped \in BOOLEAN /\ newest \in Logins \cup {Nothing}

\* What the next command reads is the whole record of the login that was last
\* told "login ok", or nothing after a logout, whatever saves failed or were
\* killed in between.  Only two saves at once can break it: the file is then
\* cut short or mixed until the other has written, or holds the record of a
\* login that was told its save failed.
FileIsNewest ==
  overlapped \/ Stored = (IF newest = Nothing THEN "none" ELSE newest)
=============================================================================
