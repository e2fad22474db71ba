---------------------------- MODULE MCWorkspace ----------------------------
(* Workspace on a small instance: two administrators, one of whom also       *)
(* studies; bob registers twice at once; the same bytes are uploaded as text *)
(* by two workers and as an image; one chat is long enough for its first     *)
(* message to leave the window.                                              *)
EXTENDS Workspace, TLC

MCEmailOf    == [x \in {"root", "ann", "bob", "bob2", "back"} |-> IF x \in {"root", "ann"} THEN x ELSE "bob"]
MCNameOf     == [x \in {"root", "ann", "bob", "bob2"} |-> IF x \in {"root", "ann"} THEN x ELSE "bob"]
MCContentOf  == [u \in Uploads |-> "bytes"]
MCCompress   == [u \in Uploads |-> u # "image"]
MCWorkerOf   == [u \in Uploads |-> IF u = "text2" THEN "w2" ELSE "w1"]
MCUploaderOf == [u \in Uploads |-> "ann"]
MCOwnerOf    == [c \in Chats |-> IF c = "talk" THEN "root" ELSE "ann"]
MCTeacherOf  == [k \in Courses |-> IF k = "hers" THEN "ann" ELSE "root"]
MCAskerOf    == [t \in Traces |-> t]
MCSenderOf   == [s \in Signals |-> "ann"]
MCAuthorOf   == [d \in Documents |-> IF d = "script" THEN "root" ELSE "ann"]

MCAlike == Permutations(Commands) \cup Permutations(Regenerations)
=============================================================================
