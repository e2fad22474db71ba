----------------------------- MODULE FileStore -----------------------------
(***************************************************************************)
(* Content-addressed files: uploads write a file under the hash of its     *)
(* content and register it in table files.                                 *)
(*                                                                         *)
(* The handlers of one worker run store_file to its end, but another       *)
(* worker's, a dying worker and a full disk come in between the test for   *)
(* the path, its creation and the end of the write.  A path that exists is *)
(* taken for a stored file from its creation on, and nothing removes one.  *)
(***************************************************************************)
EXTENDS Naturals

CONSTANTS
  Uploads,   \* POST /api/upload
  Workers,   \* uvicorn processes
  Contents,  \* sha256 of uploaded bytes
  ContentOf, \* ContentOf[u]: the bytes of upload u
  Compress,  \* Compress[u]: whether the media type is one that is compressed
  WorkerOf   \* WorkerOf[u]: the process that handles it

ASSUME UploadAssumption ==
  /\ ContentOf \in [Uploads -> Contents]
  /\ Compress \in [Uploads -> BOOLEAN]
  /\ WorkerOf \in [Uploads -> Workers]

Paths     == Contents \X BOOLEAN
PathOf(u) == <<ContentOf[u], Compress[u]>>

VARIABLES
  disk,     \* what is under a path
  upload,   \* where an upload stands
  late,     \* writing uploads whose file another one has truncated since
  measured, \* stored_size: of all the file, or of what there was of it
  file      \* rows of table files

files == <<disk, upload, late, measured, file>>

Step == {"start", "exists", "open", "write", "register", "stored", "refused", "failed", "torn"}
Size == {"unknown", "whole", "partial"}

NoFile == [compressed |-> FALSE, size |-> "unknown", refs |-> 0]

FilesTypeOK ==
  /\ disk \in [Paths -> {"absent", "partial", "whole"}]
  /\ upload \in [Uploads -> Step]
  /\ late \subseteq Uploads
  /\ measured \in [Uploads -> Size]
  /\ file \in [Contents -> [compressed : BOOLEAN, size : Size, refs : Nat]]

FilesInit ==
  /\ disk = [p \in Paths |-> "absent"]
  /\ upload = [u \in Uploads |-> "start"]
  /\ late = {}
  /\ measured = [u \in Uploads |-> "unknown"]
  /\ file = [c \in Contents |-> NoFile]

-----------------------------------------------------------------------------
(* Uploading *)

Proceed(u, step) == upload' = [upload EXCEPT ![u] = step]

\* The size limit of the plan.
AcceptUpload(u) ==
  /\ upload[u] = "start"
  /\ Proceed(u, "exists") \/ Proceed(u, "refused")
  /\ UNCHANGED <<disk, late, measured, file>>

\* store_file has no await: its worker does nothing else meanwhile.
Busy(w) == \E u \in Uploads : WorkerOf[u] = w /\ upload[u] \in {"open", "write"}

\* path.exists(), and the size of what exists.  (Plausible bug first: a file
\* under either suffix will do.)
FindFileAnySuffix(u) ==
  /\ upload[u] = "exists"
  /\ ~Busy(WorkerOf[u])
  /\ IF \E z \in BOOLEAN : disk[<<ContentOf[u], z>>] # "absent"
       THEN measured' = [measured EXCEPT ![u] = "whole"] /\ Proceed(u, "register")
       ELSE UNCHANGED measured /\ Proceed(u, "open")
  /\ UNCHANGED <<disk, late, file>>

FindFile(u) ==
  /\ upload[u] = "exists"
  /\ ~Busy(WorkerOf[u])
  /\ IF disk[PathOf(u)] # "absent"
       THEN measured' = [measured EXCEPT ![u] = disk[PathOf(u)]] /\ Proceed(u, "register")
       ELSE UNCHANGED measured /\ Proceed(u, "open")
  /\ UNCHANGED <<disk, late, file>>

Writers(p) == {u \in Uploads : upload[u] = "write" /\ PathOf(u) = p}

\* write_bytes opens the file, which empties it, and writes.
OpenFile(u) ==
  /\ upload[u] = "open"
  /\ disk' = [disk EXCEPT ![PathOf(u)] = "partial"]
  /\ late' = late \cup Writers(PathOf(u))
  /\ Proceed(u, "write")
  /\ UNCHANGED <<measured, file>>

\* All writers of a path write the same bytes (the time in a gzip header apart), so
\* the last one to open it makes it whole; an earlier one may leave a hole where it
\* had written before.
WriteFile(u) ==
  /\ upload[u] = "write"
  /\ \/ disk' = [disk EXCEPT ![PathOf(u)] = "whole"]
     \/ u \in late /\ UNCHANGED disk
  /\ late' = late \ {u}
  /\ measured' = [measured EXCEPT ![u] = "whole"]
  /\ Proceed(u, "register")
  /\ UNCHANGED file

\* The disk is full: a 500, and what has been written stays.  (Plausible bug
\* first: the error is swallowed.)
WriteFailsSilently(u) ==
  /\ upload[u] = "write"
  /\ late' = late \ {u}
  /\ Proceed(u, "register")
  /\ UNCHANGED <<disk, measured, file>>

WriteFails(u) ==
  /\ upload[u] = "write"
  /\ late' = late \ {u}
  /\ Proceed(u, "torn")
  /\ UNCHANGED <<disk, measured, file>>

\* The row of a content after another upload of it: the first one's stays, and is
\* counted.
RowAfter(u) ==
  LET r == file[ContentOf[u]] IN
  IF r.refs = 0
    THEN [compressed |-> Compress[u], size |-> measured[u], refs |-> 1]
    ELSE [r EXCEPT !.refs = @ + 1]

\* FileRepository.register.
Register(u) ==
  /\ upload[u] = "register"
  /\ file' = [file EXCEPT ![ContentOf[u]] = RowAfter(u)]
  /\ Proceed(u, "stored")
  /\ UNCHANGED <<disk, late, measured>>

RegisterFails(u) ==
  /\ upload[u] = "register"
  /\ Proceed(u, "failed")
  /\ UNCHANGED <<disk, late, measured, file>>

\* A worker process stops.
StopWorker(w) ==
  /\ \E u \in Uploads : WorkerOf[u] = w /\ upload[u] \in {"exists", "open", "write", "register"}
  /\ upload' = [u \in Uploads |->
       CASE WorkerOf[u] = w /\ upload[u] = "write"                         -> "torn"
         [] WorkerOf[u] = w /\ upload[u] \in {"exists", "open", "register"} -> "failed"
         [] OTHER                                                          -> upload[u]]
  /\ late' = {u \in late : WorkerOf[u] # w}
  /\ UNCHANGED <<disk, measured, file>>

UploadStep(u) ==
  \/ FindFile(u) \/ OpenFile(u) \/ WriteFile(u) \/ WriteFails(u)
  \/ Register(u) \/ RegisterFails(u)

-----------------------------------------------------------------------------
(* Properties *)

Registered(c) == file[c].refs > 0
PathOfRow(c)  == <<c, file[c].compressed>>

\* Whoever reads a registered file finds one: uploads of the same bytes as text
\* and as something else use two paths and one row, and the row keeps saying
\* the path that its first upload stored (storage.py:46, files.py:23-27).
RowHasItsPath ==
  \A c \in Contents : Registered(c) => disk[PathOfRow(c)] # "absent"

\* A registered file is whole, unless an upload is writing its path just now or
\* has been torn off: the same bytes written twice at once do no harm, a writer
\* that dies or runs out of space does, for good (storage.py:49).
WholeUnlessTorn ==
  \A c \in Contents : Registered(c) /\ disk[PathOfRow(c)] # "whole" =>
    \E u \in Uploads : PathOf(u) = PathOfRow(c) /\ upload[u] \in {"write", "torn"}

-----------------------------------------------------------------------------
(* The inductive invariant *)

\* The last upload to open a partial file is still writing it, or was torn off.
PartialHasWriter ==
  \A p \in Paths : disk[p] = "partial" =>
    \E u \in Uploads : PathOf(u) = p /\ (upload[u] = "torn" \/ u \in Writers(p) \ late)

WrittenExists ==
  \A u \in Uploads : upload[u] \in {"write", "register", "stored"} => disk[PathOf(u)] # "absent"

FilesInv ==
  /\ FilesTypeOK
  /\ \A u \in late : upload[u] = "write"
  /\ PartialHasWriter
  /\ WrittenExists
  /\ RowHasItsPath

=============================================================================
