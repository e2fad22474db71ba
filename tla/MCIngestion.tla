---------------------------- MODULE MCIngestion ----------------------------
(* Ingestion on small instances.  Upload 1 puts notes into a course of ann,  *)
(* upload 2 attaches the same notes to a chat of hers, and upload 3 adds     *)
(* slides of bob that overlap with them to the global knowledge base.  The   *)
(* chat has a course of its own or is linked to that of the first upload.    *)
EXTENDS Ingestion, TLC

MCText ==
  ("notes"  :> <<"intro", "limits", "intro">>) @@
  ("slides" :> <<"intro", "series">>)

MCPictures == ("notes" :> {"plot"}) @@ ("slides" :> {})

MCSourceOf    == [d \in Documents |-> IF d = 3 THEN "slides" ELSE "notes"]
MCCourseOf    == [d \in Documents |-> CASE d = 1 -> "calculus" [] d = 2 -> "chat" [] d = 3 -> NoCourse]
MCOneCourseOf == [d \in Documents |-> IF d = 3 THEN NoCourse ELSE "calculus"]
MCUserOf      == [d \in Documents |-> IF d = 3 THEN "bob" ELSE "ann"]
MCOwnerOf     == [c \in Courses |-> "ann"]
=============================================================================
