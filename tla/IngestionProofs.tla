-------------------------- MODULE IngestionProofs --------------------------
(***************************************************************************)
(* Proofs about Ingestion for every set of uploads, sources, users and     *)
(* courses, every overlap of their texts and pictures, and with faults.    *)
(***************************************************************************)
EXTENDS Ingestion, FiniteSetTheorems, FunctionTheorems, TLAPS

-----------------------------------------------------------------------------
(* The constants *)

LEMMA ContentsTyped ==
  ASSUME NEW d \in Documents
  PROVE  Contents(d) \subseteq Chunks /\ Shots(d) \subseteq Images
<1>1. SourceOf[d] \in Sources
  BY UploadAssumption
<1> QED
  BY <1>1 DEF Contents, Shots, Chunks, Images

LEMMA TimesTyped ==
  ASSUME NEW d \in Documents, NEW h
  PROVE  Times(d, h) \in Nat
<1> DEFINE T == Text[SourceOf[d]]
           P == {i \in DOMAIN T : T[i] = h}
<1>1. SourceOf[d] \in Sources
  BY UploadAssumption
<1>2. T \in Seq(Chunks)
  BY <1>1, TextAssumption
<1>3. Len(T) \in Nat /\ DOMAIN T = 1..Len(T)
  BY <1>2
<1>4. IsFiniteSet(DOMAIN T)
  BY <1>3, FS_Interval
<1>5. IsFiniteSet(P)
  BY <1>4, FS_Subset
<1>6. Cardinality(P) \in Nat
  BY <1>5, FS_CardinalityType
<1> QED
  BY <1>6 DEF Times

-----------------------------------------------------------------------------
(* Types *)

LEMMA TypeInit == Init => TypeOK
<1> SUFFICES ASSUME Init PROVE TypeOK
  OBVIOUS
<1>1. \A d \in Documents : Shots(d) \subseteq Images
  BY ContentsTyped
<1>2. course \in [Documents -> Courses \cup {NoCourse}]
  BY UploadAssumption DEF Init
<1> QED
  BY <1>1, <1>2 DEF Init, TypeOK, Stage, Status

LEMMA StatusTyped ==
  ASSUME TypeOK, NEW d \in Documents, NEW s \in Status, SetStatus(d, s)
  PROVE  status' \in [Documents -> Status]
BY DEF TypeOK, SetStatus

LEMMA FinishTyped ==
  ASSUME TypeOK, NEW d \in Documents, NEW s \in Stage, Finish(d, s)
  PROVE  /\ pc' \in [Documents -> Stage]
         /\ known' \in [Documents -> SUBSET ChunkIds]
         /\ ids' \in [Documents -> SUBSET ChunkIds]
         /\ todo' \in [Documents -> SUBSET Images]
         /\ image' \in [Documents -> ImageIds \cup {NoImage}]
         /\ s \notin {"caption", "link"} =>
              \A e \in Documents : pc'[e] \in {"caption", "link"} => image'[e] \in ImageIds
BY DEF TypeOK, Finish, Goto

LEMMA CascadeTyped ==
  ASSUME TypeOK, NEW gone, Cascade(gone)
  PROVE  /\ status' \in [Documents -> Status]
         /\ holder' \in [Chunks -> Documents \cup {NoDocument}]
         /\ sources' \in [Chunks -> Nat]
         /\ shown' \in [Images -> Documents \cup {NoDocument}]
         /\ links' \subseteq ChunkIds \X ImageIds
BY DEF TypeOK, Cascade, Status

LEMMA TypeStep == TypeOK /\ [Next]_vars => TypeOK'
<1> SUFFICES ASSUME TypeOK, [Next]_vars PROVE TypeOK'
  OBVIOUS
<1> USE DEF people, rows, task, store
<1>1. ASSUME NEW d \in Documents, Check(d) PROVE TypeOK'
  BY <1>1 DEF TypeOK, Check, Goto, Stage
<1>2. ASSUME NEW d \in Documents, Lookup(d) PROVE TypeOK'
  BY <1>2 DEF TypeOK, Lookup, Goto, Stage
<1>3. ASSUME NEW d \in Documents, Create(d) PROVE TypeOK'
  BY <1>3 DEF TypeOK, Create, Goto, Stage, Status
<1>4. ASSUME NEW d \in Documents, StartIndexing(d) PROVE TypeOK'
  <2>1. CASE SetStatus(d, "indexing") /\ Goto(d, "search") /\ UNCHANGED task
    BY <1>4, <2>1, StatusTyped DEF TypeOK, StartIndexing, Goto, Stage, Status
  <2>2. CASE UNCHANGED status /\ Finish(d, "silent")
    BY <1>4, <2>2, FinishTyped DEF TypeOK, StartIndexing, Stage
  <2> QED
    BY <1>4, <2>1, <2>2 DEF StartIndexing
<1>5. ASSUME NEW d \in Documents, Search(d) PROVE TypeOK'
  <2>1. {<<h, holder[h]>> : h \in {g \in Contents(d) : holder[g] # NoDocument}} \in SUBSET ChunkIds
    BY ContentsTyped DEF TypeOK, ChunkIds
  <2>2. known' \in [Documents -> SUBSET ChunkIds] /\ known'[d] \in SUBSET ChunkIds
    BY <1>5, <2>1 DEF Search, TypeOK
  <2>3. ids' \in [Documents -> SUBSET ChunkIds]
    BY <1>5, <2>2 DEF Search, TypeOK
  <2>4. pc' \in [Documents -> Stage]
    BY <1>5 DEF Search, TypeOK, Goto, Stage
  <2> QED
    BY <1>5, <2>2, <2>3, <2>4 DEF Search, TypeOK, Goto
<1>6. ASSUME NEW d \in Documents, Store(d) PROVE TypeOK'
  <2>1. holder' \in [Chunks -> Documents \cup {NoDocument}]
    BY <1>6 DEF Store, HolderAfter, TypeOK
  <2>2. sources' \in [Chunks -> Nat]
    <3>1. \A h \in Chunks : sources[h] \in Nat /\ Times(d, h) \in Nat
      BY TimesTyped DEF TypeOK
    <3> QED
      BY <1>6, <3>1 DEF Store
  <2>3. {<<h, holder'[h]>> : h \in New(d)} \in SUBSET ChunkIds
    <3> SUFFICES ASSUME NEW h \in New(d) PROVE <<h, holder'[h]>> \in ChunkIds
      OBVIOUS
    <3>1. h \in Chunks
      BY ContentsTyped DEF New
    <3>2. holder'[h] \in Documents
      BY <1>6, <3>1 DEF Store, HolderAfter, TypeOK
    <3> QED
      BY <3>1, <3>2 DEF ChunkIds
  <2>4. ids' \in [Documents -> SUBSET ChunkIds]
    BY <1>6, <2>3 DEF Store, TypeOK
  <2>5. pc' \in [Documents -> Stage]
    BY <1>6 DEF Store, TypeOK, Goto, Stage
  <2> QED
    BY <1>6, <2>1, <2>2, <2>4, <2>5 DEF Store, TypeOK, Goto
<1>7. ASSUME NEW d \in Documents, Count(d) PROVE TypeOK'
  BY <1>7 DEF TypeOK, Count, Goto, Stage
<1>8. ASSUME NEW d \in Documents, NEW i \in Images, FindPicture(d, i) PROVE TypeOK'
  <2>1. <<i, IF shown[i] = NoDocument THEN d ELSE shown[i]>> \in ImageIds
    BY DEF TypeOK, ImageIds
  <2>2. pc' \in [Documents -> Stage]
    BY <1>8 DEF FindPicture, TypeOK, Goto, Stage
  <2> QED
    BY <1>8, <2>1, <2>2 DEF FindPicture, TypeOK, Goto
<1>9. ASSUME NEW d \in Documents, StorePicture(d) PROVE TypeOK'
  <2> DEFINE i == image[d][1]
  <2>1. i \in Images
    BY <1>9 DEF TypeOK, StorePicture, ImageIds
  <2>2. shown' \in [Images -> Documents \cup {NoDocument}] /\ shown'[i] \in Documents
    BY <1>9, <2>1 DEF StorePicture, TypeOK
  <2>3. <<i, shown'[i]>> \in ImageIds
    BY <2>1, <2>2 DEF ImageIds
  <2>4. pc' \in [Documents -> Stage]
    BY <1>9 DEF StorePicture, TypeOK, Goto, Stage
  <2> QED
    BY <1>9, <2>2, <2>3, <2>4 DEF StorePicture, TypeOK, Goto
<1>10. ASSUME NEW d \in Documents, LinkPicture(d) PROVE TypeOK'
  <2>1. Linked(d) \subseteq ChunkIds /\ image[d] \in ImageIds
    BY <1>10 DEF TypeOK, LinkPicture, Linked
  <2>2. links' \subseteq ChunkIds \X ImageIds
    BY <1>10, <2>1 DEF LinkPicture, TypeOK
  <2>3. pc' \in [Documents -> Stage]
    BY <1>10 DEF LinkPicture, TypeOK, Goto, Stage
  <2>4. todo' \in [Documents -> SUBSET Images] /\ image' \in [Documents -> ImageIds \cup {NoImage}]
    BY <1>10 DEF LinkPicture, TypeOK
  <2> QED
    BY <1>10, <2>2, <2>3, <2>4 DEF LinkPicture, TypeOK, Goto
<1>11. ASSUME NEW d \in Documents, MarkReady(d) PROVE TypeOK'
  BY <1>11, StatusTyped, FinishTyped DEF TypeOK, MarkReady, Status, Stage
<1>12. ASSUME NEW d \in Documents, Fail(d) PROVE TypeOK'
  <2>1. CASE SetStatus(d, "error") /\ Finish(d, "end")
    BY <1>12, <2>1, StatusTyped, FinishTyped DEF TypeOK, Fail, Status, Stage
  <2>2. CASE UNCHANGED status /\ Finish(d, "silent")
    BY <1>12, <2>2, FinishTyped DEF TypeOK, Fail, Stage
  <2> QED
    BY <1>12, <2>1, <2>2 DEF Fail
<1>13. ASSUME NEW d \in Documents, Die(d) PROVE TypeOK'
  BY <1>13, FinishTyped DEF TypeOK, Die, Stage
<1>14. ASSUME NEW d \in Documents, DeleteDocument(d) PROVE TypeOK'
  BY <1>14, CascadeTyped DEF TypeOK, DeleteDocument
<1>15. ASSUME NEW c \in Courses, DeleteCourse(c) PROVE TypeOK'
  BY <1>15 DEF TypeOK, DeleteCourse
<1>16. ASSUME NEW u \in Users, DeleteUser(u) PROVE TypeOK'
  BY <1>16, CascadeTyped DEF TypeOK, DeleteUser
<1>17. CASE UNCHANGED vars
  BY <1>17 DEF TypeOK, vars
<1> QED
  BY <1>1, <1>2, <1>3, <1>4, <1>5, <1>6, <1>7, <1>8, <1>9, <1>10, <1>11, <1>12, <1>13,
     <1>14, <1>15, <1>16, <1>17
     DEF Next, Upload, Progress

\* Every variable keeps its type, and an image in work is always known by its id.
THEOREM TypeCorrect == Spec => []TypeOK
BY TypeInit, TypeStep, PTL DEF Spec

-----------------------------------------------------------------------------
(* What a step can do to the rows that others rely on *)

\* Only three kinds of steps touch the chunks and pictures: an upsert of the
\* document's own content, the counting and linking, and a deletion.
LEMMA StoreKinds ==
  ASSUME TypeOK, [Next]_vars
  PROVE  \/ UNCHANGED <<holder, shown>> /\ \A e \in Documents : Exists(e) => Exists(e)'
         \/ \E d \in Documents : Store(d)
         \/ \E d \in Documents : StorePicture(d)
         \/ \E gone \in SUBSET Documents : (\A d \in gone : Exists(d)) /\ Cascade(gone)
<1> USE DEF people, rows, task, store, Exists, Row, TypeOK
<1> DEFINE Quiet == UNCHANGED <<holder, shown>> /\ \A e \in Documents : Exists(e) => Exists(e)'
<1>1. ASSUME NEW d \in Documents, DeleteDocument(d)
      PROVE  \E gone \in SUBSET Documents : (\A e \in gone : Exists(e)) /\ Cascade(gone)
  <2> WITNESS {d} \in SUBSET Documents
  <2> QED BY <1>1 DEF DeleteDocument
<1>2. ASSUME NEW u \in Users, DeleteUser(u)
      PROVE  \E gone \in SUBSET Documents : (\A e \in gone : Exists(e)) /\ Cascade(gone)
  <2> WITNESS {d \in Documents : Exists(d) /\ UserOf[d] = u} \in SUBSET Documents
  <2> QED BY <1>2 DEF DeleteUser
<1>3. ASSUME NEW d \in Documents, Progress(d), ~Store(d), ~StorePicture(d)
      PROVE  Quiet
  BY <1>3 DEF Progress, StartIndexing, Search, Count, FindPicture, LinkPicture, MarkReady, Fail,
              SetStatus
<1>4. ASSUME NEW d \in Documents, Upload(d) \/ Die(d)
      PROVE  Quiet
  BY <1>4 DEF Upload, Check, Lookup, Create, Die
<1>5. ASSUME NEW c \in Courses, DeleteCourse(c)
      PROVE  Quiet
  BY <1>5 DEF DeleteCourse
<1>6. CASE UNCHANGED vars
  BY <1>6 DEF vars
<1> QED
  BY <1>1, <1>2, <1>3, <1>4, <1>5, <1>6 DEF Next

\* A document that has been deleted never comes back, and one that exists only
\* changes its status or is deleted.
LEMMA StatusSteps ==
  ASSUME TypeOK, TaskInv, [Next]_vars, NEW e \in Documents
  PROVE  /\ status[e] = "deleted" => status'[e] = "deleted"
         /\ Exists(e) => Exists(e)' \/ status'[e] = "deleted"
<1> USE DEF people, rows, task, store, Exists, Row, TypeOK
<1>1. ASSUME NEW d \in Documents, Upload(d)
      PROVE  /\ status[e] = "deleted" => status'[e] = "deleted"
             /\ Exists(e) => Exists(e)'
  <2>1. CASE Create(d)
    BY <2>1 DEF Create, TaskInv, TaskOf, Uploading
  <2> QED
    BY <1>1, <2>1 DEF Upload, Check, Lookup
<1>2. ASSUME NEW d \in Documents, Progress(d) \/ Die(d)
      PROVE  /\ status[e] = "deleted" => status'[e] = "deleted"
             /\ Exists(e) => Exists(e)'
  BY <1>2 DEF Progress, StartIndexing, Search, Store, Count, FindPicture, StorePicture,
              LinkPicture, MarkReady, Fail, Die, SetStatus
<1>3. ASSUME NEW gone, Cascade(gone)
      PROVE  /\ status[e] = "deleted" => status'[e] = "deleted"
             /\ Exists(e) => Exists(e)' \/ status'[e] = "deleted"
  BY <1>3 DEF Cascade
<1>4. ASSUME NEW c \in Courses, DeleteCourse(c)
      PROVE  status' = status
  BY <1>4 DEF DeleteCourse
<1>5. CASE UNCHANGED vars
  BY <1>5 DEF vars
<1> QED
  BY <1>1, <1>2, <1>3, <1>4, <1>5 DEF Next, DeleteDocument, DeleteUser

\* What has been stored, or lost with a deletion, stays so.
LEMMA KeptSteps ==
  ASSUME TypeOK, TaskInv, NoOrphanRows, [Next]_vars
  PROVE  /\ \A h \in Chunks : Kept(h) => Kept(h)'
         /\ \A i \in Images : KeptImage(i) => KeptImage(i)'
<1>1. \A e \in Documents : status[e] = "deleted" => status'[e] = "deleted"
  BY StatusSteps
<1>2. CASE UNCHANGED <<holder, shown>>
  BY <1>1, <1>2 DEF Kept, KeptImage
<1>3. ASSUME NEW d \in Documents, Store(d)
      PROVE  /\ \A h \in Chunks : Kept(h) => Kept(h)'
             /\ \A i \in Images : KeptImage(i) => KeptImage(i)'
  <2>1. \A h \in Chunks : holder[h] # NoDocument => holder'[h] # NoDocument
    BY <1>3 DEF Store, HolderAfter, TypeOK
  <2>2. shown' = shown
    BY <1>3 DEF Store
  <2> QED
    BY <1>1, <2>1, <2>2 DEF Kept, KeptImage
<1>4. ASSUME NEW d \in Documents, StorePicture(d)
      PROVE  /\ \A h \in Chunks : Kept(h) => Kept(h)'
             /\ \A i \in Images : KeptImage(i) => KeptImage(i)'
  <2>1. \A i \in Images : shown[i] # NoDocument => shown'[i] # NoDocument
    BY <1>4 DEF StorePicture, TypeOK
  <2>2. holder' = holder
    BY <1>4 DEF StorePicture
  <2> QED
    BY <1>1, <2>1, <2>2 DEF Kept, KeptImage
<1>5. ASSUME NEW gone \in SUBSET Documents, Cascade(gone), \A d \in gone : Exists(d)
      PROVE  /\ \A h \in Chunks : Kept(h) => Kept(h)'
             /\ \A i \in Images : KeptImage(i) => KeptImage(i)'
  <2>1. \A e \in gone : status'[e] = "deleted"
    BY <1>5 DEF Cascade
  <2>2. \A h \in Chunks : holder[h] # NoDocument =>
          h \in Contents(holder[h]) /\ holder[h] \in Documents
    BY DEF NoOrphanRows, Holds, TypeOK
  <2>3. \A i \in Images : shown[i] # NoDocument =>
          i \in Shots(shown[i]) /\ shown[i] \in Documents
    BY DEF NoOrphanRows, HoldsImage, TypeOK
  <2>4. \A h \in Chunks : Kept(h) => Kept(h)'
    BY <1>1, <1>5, <2>1, <2>2 DEF Kept, Cascade
  <2>5. \A i \in Images : KeptImage(i) => KeptImage(i)'
    BY <1>1, <1>5, <2>1, <2>3 DEF KeptImage, Cascade
  <2> QED
    BY <2>4, <2>5
<1> QED
  BY <1>2, <1>3, <1>4, <1>5, StoreKinds

-----------------------------------------------------------------------------
(* No orphan rows *)

LEMMA OrphanStep ==
  ASSUME TypeOK, TaskInv, NoOrphanRows, [Next]_vars
  PROVE  NoOrphanRows'
<1>1. ASSUME UNCHANGED <<holder, shown>>, \A e \in Documents : Exists(e) => Exists(e)'
      PROVE  NoOrphanRows'
  <2>1. \A h \in Chunks : holder[h] # NoDocument => holder[h] \in Documents
    BY DEF TypeOK
  <2>2. \A i \in Images : shown[i] # NoDocument => shown[i] \in Documents
    BY DEF TypeOK
  <2> QED
    BY <1>1, <2>1, <2>2 DEF NoOrphanRows, Holds, HoldsImage
<1>2. ASSUME NEW d \in Documents, Store(d) PROVE NoOrphanRows'
  <2>1. status' = status /\ shown' = shown
    BY <1>2 DEF Store, rows
  <2>2. ASSUME NEW h \in Chunks, holder'[h] # NoDocument
        PROVE  (Exists(holder[h]) /\ Holds(holder[h], h))'
    <3>1. CASE h \in New(d) /\ holder[h] = NoDocument
      <4>1. holder'[h] = d /\ Exists(d) /\ h \in Contents(d)
        BY <1>2, <3>1 DEF Store, HolderAfter, New
      <4> QED BY <2>1, <4>1 DEF Exists, Holds
    <3>2. CASE ~(h \in New(d) /\ holder[h] = NoDocument)
      <4>1. holder'[h] = holder[h]
        BY <1>2, <3>2 DEF Store, HolderAfter
      <4> QED BY <2>1, <2>2, <4>1 DEF NoOrphanRows, Exists, Holds
    <3> QED BY <3>1, <3>2
  <2> QED
    BY <2>1, <2>2 DEF NoOrphanRows, Exists, HoldsImage
<1>3. ASSUME NEW d \in Documents, StorePicture(d) PROVE NoOrphanRows'
  <2> DEFINE i == image[d][1]
  <2>1. status' = status /\ holder' = holder
    BY <1>3 DEF StorePicture, rows
  <2>2. i \in Shots(d)
    BY <1>3 DEF StorePicture, TaskInv, TaskOf
  <2>3. ASSUME NEW j \in Images, shown'[j] # NoDocument
        PROVE  (Exists(shown[j]) /\ HoldsImage(shown[j], j))'
    <3>1. CASE j = i /\ shown[j] = NoDocument
      <4>1. shown'[j] = d /\ Exists(d)
        BY <1>3, <3>1 DEF StorePicture, TypeOK
      <4> QED BY <2>1, <2>2, <3>1, <4>1 DEF Exists, HoldsImage
    <3>2. CASE ~(j = i /\ shown[j] = NoDocument)
      <4>1. shown'[j] = shown[j]
        BY <1>3, <3>2 DEF StorePicture, TypeOK
      <4> QED BY <2>1, <2>3, <4>1 DEF NoOrphanRows, Exists, HoldsImage
    <3> QED BY <3>1, <3>2
  <2> QED
    BY <2>1, <2>3 DEF NoOrphanRows, Exists, Holds
<1>4. ASSUME NEW gone \in SUBSET Documents, Cascade(gone) PROVE NoOrphanRows'
  <2>1. \A e \in Documents \ gone : status'[e] = status[e]
    BY <1>4 DEF Cascade
  <2>2. \A h \in Chunks : holder'[h] # NoDocument => holder'[h] = holder[h] /\ holder[h] \in Documents \ gone
    BY <1>4 DEF Cascade, TypeOK
  <2>3. \A i \in Images : shown'[i] # NoDocument => shown'[i] = shown[i] /\ shown[i] \in Documents \ gone
    BY <1>4 DEF Cascade, TypeOK
  <2> QED
    BY <2>1, <2>2, <2>3 DEF NoOrphanRows, Exists, Holds, HoldsImage
<1> QED
  BY <1>1, <1>2, <1>3, <1>4, StoreKinds

-----------------------------------------------------------------------------
(* What the tasks know *)

\* A step that leaves the variables of e alone keeps its part of TaskInv.
LEMMA TaskFrame ==
  ASSUME TypeOK, NEW e \in Documents, TaskOf(e),
         \A h \in Chunks : Kept(h) => Kept(h)',
         \A i \in Images : KeptImage(i) => KeptImage(i)',
         pc'[e] = pc[e], known'[e] = known[e], ids'[e] = ids[e], todo'[e] = todo[e],
         image'[e] = image[e], status'[e] = status[e] \/ status[e] # "absent"
  PROVE  TaskOf(e)'
<1>1. Contents(e) \subseteq Chunks /\ Shots(e) \subseteq Images
  BY ContentsTyped
<1>2. Contents(e)' = Contents(e) /\ Shots(e)' = Shots(e) /\ New(e)' = New(e)
  BY DEF Contents, Shots, New
<1>3. \A id \in known[e] : id[1] \in Contents(e) /\ Kept(id[1])'
  BY <1>1 DEF TaskOf
<1>4. pc[e] \in {"picture", "caption", "link"} => \A h \in Contents(e) : Kept(h)'
  BY <1>1 DEF TaskOf
<1>5. pc[e] \in Active => \A i \in Shots(e) \ todo[e] : KeptImage(i)'
  BY <1>1 DEF TaskOf
<1>6. pc[e] = "link" => KeptImage(image[e][1])'
  <2>1. KeptImage(image[e][1])' <=> \E i \in {image[e][1]} : KeptImage(i)'
    BY DEF KeptImage
  <2> QED
    BY <1>1, <2>1 DEF TaskOf
<1> QED
  BY <1>2, <1>3, <1>4, <1>5, <1>6 DEF TaskOf

LEMMA TaskInit == Init => TaskInv
<1> SUFFICES ASSUME Init, NEW e \in Documents PROVE TaskOf(e)
  BY DEF TaskInv
<1> QED
  BY DEF Init, TaskOf

LEMMA TaskStep ==
  ASSUME TypeOK, TaskInv, NoOrphanRows, [Next]_vars
  PROVE  TaskInv'
<1> SUFFICES ASSUME NEW e \in Documents PROVE TaskOf(e)'
  BY DEF TaskInv
<1> USE DEF people, rows, task, store
<1>1. TaskOf(e)
  BY DEF TaskInv
<1>2. \A h \in Chunks : Kept(h) => Kept(h)'
  BY KeptSteps
<1>3. \A i \in Images : KeptImage(i) => KeptImage(i)'
  BY KeptSteps
<1>4. ASSUME pc'[e] = pc[e], known'[e] = known[e], ids'[e] = ids[e], todo'[e] = todo[e],
             image'[e] = image[e], status'[e] = status[e] \/ status[e] # "absent"
      PROVE  TaskOf(e)'
  BY <1>1, <1>2, <1>3, <1>4, TaskFrame
<1>5. Contents(e) \subseteq Chunks /\ Shots(e) \subseteq Images
  BY ContentsTyped
<1>6. Contents(e)' = Contents(e) /\ Shots(e)' = Shots(e)
  BY DEF Contents, Shots
<1>7. \A i \in Shots(e) : KeptImage(i) => KeptImage(i)'
  BY <1>3, <1>5
<1>8. \A h \in Contents(e) : Kept(h) => Kept(h)'
  BY <1>2, <1>5
<1>9. ASSUME NEW d \in Documents, d # e, Upload(d) \/ Progress(d) \/ Die(d)
      PROVE  TaskOf(e)'
  <2>1. pc'[e] = pc[e] /\ known'[e] = known[e] /\ ids'[e] = ids[e] /\ todo'[e] = todo[e]
        /\ image'[e] = image[e] /\ status'[e] = status[e]
    BY <1>9 DEF TypeOK, Upload, Check, Lookup, Create, Progress, StartIndexing, Search, Store, Count,
                FindPicture, StorePicture, LinkPicture, MarkReady, Fail, Die, Goto, Finish, SetStatus
  <2> QED
    BY <1>4, <2>1
<1>10. ASSUME Upload(e) PROVE TaskOf(e)'
  <2>1. known'[e] = known[e] /\ ids'[e] = ids[e] /\ todo'[e] = todo[e] /\ image'[e] = image[e]
    BY <1>10 DEF Upload, Check, Lookup, Create
  <2>2. pc[e] \in Active
    BY <1>10 DEF Upload, Check, Lookup, Create, Active, Uploading
  <2>3. pc'[e] \in Uploading \cup {"task", "search", "end"}
    BY <1>10 DEF TypeOK, Upload, Check, Lookup, Create, Goto, Uploading
  <2>4. pc'[e] \in Uploading => status'[e] = "absent"
    BY <1>1, <1>10 DEF TypeOK, Upload, Check, Lookup, Create, Goto, Uploading, TaskOf
  <2>5. \A id \in known[e] : id[1] \in Contents(e) /\ Kept(id[1])'
    BY <1>1, <1>8 DEF TaskOf
  <2>6. \A i \in Shots(e) \ todo[e] : KeptImage(i)'
    BY <1>1, <1>7, <2>2 DEF TaskOf
  <2> QED
    BY <1>1, <1>6, <2>1, <2>3, <2>4, <2>5, <2>6 DEF TaskOf, Uploading
<1>11. ASSUME Search(e) PROVE TaskOf(e)'
  <2>1. \A id \in known'[e] : id[1] \in Contents(e) /\ Kept(id[1])'
    <3> SUFFICES ASSUME NEW h \in Contents(e), holder[h] # NoDocument PROVE Kept(h)'
      BY <1>11 DEF Search, TypeOK
    <3> QED
      BY <1>8 DEF Kept
  <2>2. ids'[e] = known'[e] /\ todo'[e] = todo[e]
    BY <1>11 DEF Search, TypeOK
  <2>3. pc'[e] = (IF New(e)' = {} THEN "count" ELSE "embed") /\ pc[e] \in Active
    BY <1>11 DEF Search, TypeOK, Goto, Active
  <2>4. \A i \in Shots(e) \ todo[e] : KeptImage(i)'
    BY <1>1, <1>7, <2>3 DEF TaskOf
  <2> QED
    BY <1>1, <1>6, <2>1, <2>2, <2>3, <2>4 DEF TaskOf, Uploading
<1>12. ASSUME Store(e) PROVE TaskOf(e)'
  <2>1. \A h \in New(e) : holder'[h] # NoDocument
    BY <1>5, <1>12, NullAssumption DEF Store, HolderAfter, New
  <2>2. \A h \in Contents(e) : Kept(h)'
    <3>1. \A h \in New(e) : Kept(h)'
      BY <2>1 DEF Kept
    <3>2. \A h \in Contents(e) \ New(e) : Kept(h)
      BY <1>1 DEF TaskOf, New
    <3> QED
      BY <1>8, <3>1, <3>2
  <2>3. known'[e] = known[e] /\ todo'[e] = todo[e] /\ pc[e] \in Active /\ pc'[e] = "picture"
    BY <1>12 DEF Store, TypeOK, Goto, Active
  <2>4. \A id \in ids'[e] : id[1] \in Contents(e)
    <3>1. ids'[e] = known[e] \cup {<<h, holder'[h]>> : h \in New(e)}
      BY <1>12 DEF Store, TypeOK
    <3>2. \A id \in known[e] : id[1] \in Contents(e)
      BY <1>1 DEF TaskOf
    <3>3. \A h \in New(e) : <<h, holder'[h]>>[1] \in Contents(e)
      BY DEF New
    <3> QED
      BY <3>1, <3>2, <3>3
  <2>5. \A i \in Shots(e) \ todo[e] : KeptImage(i)'
    BY <1>1, <1>7, <2>3 DEF TaskOf
  <2>6. \A id \in known[e] : id[1] \in Contents(e) /\ Kept(id[1])'
    BY <1>1, <1>8 DEF TaskOf
  <2> QED
    BY <1>1, <1>6, <2>2, <2>3, <2>4, <2>5, <2>6 DEF TaskOf, Uploading
<1>13. ASSUME Count(e) PROVE TaskOf(e)'
  <2>1. \A h \in Contents(e) : Kept(h)'
    BY <1>1, <1>8, <1>13 DEF TaskOf, Count, New
  <2>2. known'[e] = known[e] /\ ids'[e] = ids[e] /\ todo'[e] = todo[e] /\ pc[e] \in Active
        /\ pc'[e] = "picture"
    BY <1>13 DEF Count, TypeOK, Goto, Active
  <2>3. \A i \in Shots(e) \ todo[e] : KeptImage(i)'
    BY <1>1, <1>7, <2>2 DEF TaskOf
  <2> QED
    BY <1>1, <1>6, <2>1, <2>2, <2>3 DEF TaskOf, Uploading
<1>14. ASSUME NEW i \in Images, FindPicture(e, i) PROVE TaskOf(e)'
  <2>1. known'[e] = known[e] /\ ids'[e] = ids[e] /\ todo'[e] = todo[e] /\ image'[e][1] = i
        /\ pc[e] \in Active /\ pc[e] = "picture"
    BY <1>14 DEF FindPicture, TypeOK, Active
  <2>2. pc'[e] = (IF shown[i] = NoDocument THEN "caption" ELSE "link") /\ i \in Shots(e)
    BY <1>1, <1>14 DEF FindPicture, TypeOK, Goto, TaskOf
  <2>3. shown[i] # NoDocument => KeptImage(i)'
    BY <1>14 DEF FindPicture, KeptImage
  <2>4. \A h \in Contents(e) : Kept(h)'
    BY <1>1, <1>8, <2>1 DEF TaskOf
  <2>5. \A j \in Shots(e) \ todo[e] : KeptImage(j)'
    BY <1>1, <1>7, <2>1 DEF TaskOf
  <2>6. KeptImage(image[e][1])' <=> KeptImage(i)'
    BY <2>1 DEF KeptImage
  <2> QED
    BY <1>1, <1>6, <2>1, <2>2, <2>3, <2>4, <2>5, <2>6 DEF TaskOf, Uploading
<1>15. ASSUME StorePicture(e) PROVE TaskOf(e)'
  <2> PICK i : i = image[e][1]
    OBVIOUS
  <2>1. known'[e] = known[e] /\ ids'[e] = ids[e] /\ todo'[e] = todo[e] /\ image'[e][1] = i
        /\ pc[e] = "caption" /\ pc[e] \in Active /\ pc'[e] = "link"
    BY <1>15 DEF StorePicture, TypeOK, Active, Goto
  <2>2. i \in Shots(e) /\ i \in Images
    BY <1>1, <1>5, <2>1 DEF TaskOf
  <2>3. shown'[i] # NoDocument
    BY <1>15, <2>2, NullAssumption DEF StorePicture, TypeOK
  <2>4. KeptImage(image[e][1])'
    BY <2>1, <2>3 DEF KeptImage
  <2>5. \A h \in Contents(e) : Kept(h)'
    BY <1>1, <1>8, <2>1 DEF TaskOf
  <2>6. \A j \in Shots(e) \ todo[e] : KeptImage(j)'
    BY <1>1, <1>7, <2>1 DEF TaskOf
  <2> QED
    BY <1>1, <1>6, <2>1, <2>2, <2>4, <2>5, <2>6 DEF TaskOf, Uploading
<1>16. ASSUME LinkPicture(e) PROVE TaskOf(e)'
  <2>1. PICK i : i = image[e][1]
    OBVIOUS
  <2>2. known'[e] = known[e] /\ ids'[e] = ids[e] /\ todo'[e] = todo[e] \ {i}
        /\ pc[e] = "link" /\ pc[e] \in Active /\ pc'[e] = "picture"
    BY <1>16, <2>1 DEF LinkPicture, TypeOK, Active, Goto
  <2>3. i \in Shots(e) /\ KeptImage(i)
    BY <1>1, <2>1, <2>2 DEF TaskOf, KeptImage
  <2>4. \A j \in Shots(e) \ todo'[e] : KeptImage(j)'
    BY <1>1, <1>7, <2>2, <2>3 DEF TaskOf
  <2>5. \A h \in Contents(e) : Kept(h)'
    BY <1>1, <1>8, <2>2 DEF TaskOf
  <2> QED
    BY <1>1, <1>6, <2>2, <2>4, <2>5 DEF TaskOf, Uploading
<1>17. ASSUME MarkReady(e) \/ Fail(e) \/ Die(e) PROVE TaskOf(e)'
  <2>1. known'[e] = {} /\ ids'[e] = {} /\ todo'[e] = {} /\ pc'[e] \in {"end", "silent"}
    BY <1>17 DEF MarkReady, Fail, Die, Finish, Goto, TypeOK
  <2> QED
    BY <2>1 DEF TaskOf, Uploading, Active
<1>18. ASSUME NEW gone \in SUBSET Documents, Cascade(gone), \A d \in gone : Exists(d),
              UNCHANGED <<pc, task>>
       PROVE  TaskOf(e)'
  <2>1. status'[e] = status[e] \/ status[e] # "absent"
    BY <1>18 DEF Cascade, Exists, Row
  <2> QED
    BY <1>4, <1>18, <2>1
<1>19. ASSUME NEW d \in Documents, DeleteDocument(d) PROVE TaskOf(e)'
  BY <1>18, <1>19 DEF DeleteDocument
<1>20. ASSUME NEW u \in Users, DeleteUser(u) PROVE TaskOf(e)'
  <2>1. Cascade({d \in Documents : Exists(d) /\ UserOf[d] = u}) /\ UNCHANGED <<pc, task>>
    BY <1>20 DEF DeleteUser
  <2> QED
    BY <1>18, <2>1
<1>21. ASSUME NEW c \in Courses, DeleteCourse(c) PROVE TaskOf(e)'
  BY <1>4, <1>21 DEF DeleteCourse
<1>22. CASE UNCHANGED vars
  BY <1>4, <1>22 DEF vars
<1>23. ASSUME StartIndexing(e) PROVE TaskOf(e)'
  <2>2. CASE Goto(e, "search") /\ UNCHANGED task
    <3>1. /\ pc[e] = "task" /\ pc'[e] = "search"
          /\ known'[e] = known[e] /\ ids'[e] = ids[e] /\ todo'[e] = todo[e]
      BY <1>23, <2>2 DEF StartIndexing, Goto, TypeOK
    <3>2. \A id \in known[e] : id[1] \in Contents(e) /\ Kept(id[1])'
      BY <1>1, <1>8 DEF TaskOf
    <3> QED
      BY <1>1, <1>6, <1>7, <3>1, <3>2 DEF TaskOf, Uploading, Active
  <2>3. CASE Finish(e, "silent")
    <3>1. known'[e] = {} /\ ids'[e] = {} /\ todo'[e] = {} /\ pc'[e] = "silent"
      BY <2>3 DEF Finish, Goto, TypeOK
    <3> QED
      BY <3>1 DEF TaskOf, Uploading, Active
  <2> QED
    BY <1>23, <2>2, <2>3 DEF StartIndexing
<1>24. ASSUME NEW d \in Documents, d = e, Progress(d) PROVE TaskOf(e)'
  BY <1>11, <1>12, <1>13, <1>14, <1>15, <1>16, <1>17, <1>23, <1>24 DEF Progress
<1> QED
  BY <1>9, <1>10, <1>17, <1>19, <1>20, <1>21, <1>22, <1>24 DEF Next

-----------------------------------------------------------------------------
(* Ready documents and links *)

\* A document becomes ready only through its own task, which has then stored
\* all its chunks and processed all its pictures.
LEMMA ReadySteps ==
  ASSUME TypeOK, [Next]_vars, NEW e \in Documents, status'[e] = "ready"
  PROVE  status[e] = "ready" \/ MarkReady(e)
<1> USE DEF people, rows, task, store, TypeOK
<1>1. ASSUME NEW d \in Documents, Upload(d) \/ Die(d) PROVE status[e] = "ready"
  BY <1>1 DEF Upload, Check, Lookup, Create, Die
<1>2. ASSUME NEW d \in Documents, Progress(d) PROVE status[e] = "ready" \/ MarkReady(e)
  BY <1>2 DEF Progress, StartIndexing, Search, Store, Count, FindPicture, StorePicture,
              LinkPicture, MarkReady, Fail, SetStatus
<1>3. ASSUME NEW gone, Cascade(gone) PROVE status[e] = "ready"
  BY <1>3 DEF Cascade
<1>4. ASSUME NEW c \in Courses, DeleteCourse(c) PROVE status[e] = "ready"
  BY <1>4 DEF DeleteCourse
<1>5. CASE UNCHANGED vars
  BY <1>5 DEF vars
<1> QED
  BY <1>1, <1>2, <1>3, <1>4, <1>5 DEF Next, DeleteDocument, DeleteUser

LEMMA ReadyStep ==
  ASSUME TypeOK, TaskInv, NoOrphanRows, ReadyIsComplete, [Next]_vars
  PROVE  ReadyIsComplete'
<1> SUFFICES ASSUME NEW e \in Documents, status'[e] = "ready"
             PROVE  (\A h \in Contents(e) : Kept(h)') /\ (\A i \in Shots(e) : KeptImage(i)')
  BY DEF ReadyIsComplete, Contents, Shots
<1>1. Contents(e) \subseteq Chunks /\ Shots(e) \subseteq Images
  BY ContentsTyped
<1>2. (\A h \in Contents(e) : Kept(h)) /\ (\A i \in Shots(e) : KeptImage(i))
  <2>1. CASE status[e] = "ready"
    BY <2>1 DEF ReadyIsComplete
  <2>2. CASE MarkReady(e)
    BY <2>2 DEF MarkReady, TaskInv, TaskOf, Active
  <2> QED
    BY <2>1, <2>2, ReadySteps
<1> QED
  BY <1>1, <1>2, KeptSteps

LEMMA LinksStep ==
  ASSUME TypeOK, TaskInv, NoOrphanRows, LinksAreGrounded, [Next]_vars
  PROVE  LinksAreGrounded'
<1> USE DEF people, rows, task, store
<1> SUFFICES ASSUME NEW l \in links'
             PROVE  /\ holder'[l[1][1]] = l[1][2]
                    /\ shown'[l[2][1]] = l[2][2]
                    /\ \E d \in Documents : l[1][1] \in Contents(d) /\ l[2][1] \in Shots(d)
  BY DEF LinksAreGrounded, Contents, Shots
<1>1. ASSUME l \in links
      PROVE  /\ l[1][1] \in Chunks /\ l[1][2] \in Documents /\ l[2][1] \in Images /\ l[2][2] \in Documents
             /\ holder[l[1][1]] = l[1][2]
             /\ shown[l[2][1]] = l[2][2]
             /\ \E d \in Documents : l[1][1] \in Contents(d) /\ l[2][1] \in Shots(d)
  BY <1>1 DEF LinksAreGrounded, TypeOK, ChunkIds, ImageIds
<1>2. CASE UNCHANGED <<holder, shown>> /\ l \in links
  BY <1>1, <1>2
<1>3. ASSUME NEW d \in Documents, Store(d) PROVE l \in links /\ shown' = shown
                                           /\ holder'[l[1][1]] = l[1][2]
  <2>1. l \in links /\ shown' = shown
    BY <1>3 DEF Store
  <2> QED
    BY <1>1, <1>3, <2>1, NullAssumption DEF Store, HolderAfter
<1>4. ASSUME NEW d \in Documents, StorePicture(d) PROVE l \in links /\ holder' = holder
                                                  /\ shown'[l[2][1]] = l[2][2]
  <2>1. l \in links /\ holder' = holder
    BY <1>4 DEF StorePicture
  <2> QED
    BY <1>1, <1>4, <2>1, NullAssumption DEF StorePicture, TypeOK
<1>5. ASSUME NEW gone, Cascade(gone)
      PROVE  l \in links /\ holder'[l[1][1]] = l[1][2] /\ shown'[l[2][1]] = l[2][2]
  <2>1. l \in links /\ l[1][2] \notin gone /\ l[2][2] \notin gone
    BY <1>5 DEF Cascade
  <2> QED
    BY <1>1, <1>5, <2>1 DEF Cascade
<1>6. ASSUME NEW d \in Documents, LinkPicture(d), l \notin links
      PROVE  /\ holder'[l[1][1]] = l[1][2]
             /\ shown'[l[2][1]] = l[2][2]
             /\ l[1][1] \in Contents(d) /\ l[2][1] \in Shots(d)
  <2>1. holder' = holder /\ shown' = shown /\ pc[d] = "link"
    BY <1>6 DEF LinkPicture
  <2>2. PICK c \in Linked(d) :
          l = <<c, image[d]>> /\ holder[c[1]] = c[2] /\ shown[image[d][1]] = image[d][2]
    BY <1>6 DEF LinkPicture
  <2>3. c[1] \in Contents(d) /\ image[d][1] \in Shots(d)
    BY <2>1 DEF Linked, TaskInv, TaskOf
  <2> QED
    BY <2>1, <2>2, <2>3
<1>7. ASSUME NEW d \in Documents, Progress(d), ~Store(d), ~StorePicture(d), ~LinkPicture(d)
      PROVE  UNCHANGED <<holder, shown, links>>
  BY <1>7 DEF Progress, StartIndexing, Search, Count, FindPicture, MarkReady, Fail
<1>8. ASSUME NEW d \in Documents, Upload(d) \/ Die(d)
      PROVE  UNCHANGED <<holder, shown, links>>
  BY <1>8 DEF Upload, Check, Lookup, Create, Die
<1>9. ASSUME NEW c \in Courses, DeleteCourse(c)
      PROVE  UNCHANGED <<holder, shown, links>>
  BY <1>9 DEF DeleteCourse
<1>10. CASE UNCHANGED vars
  BY <1>1, <1>10 DEF vars
<1>11. ASSUME NEW d \in Documents, LinkPicture(d), l \in links
       PROVE  UNCHANGED <<holder, shown>>
  BY <1>11 DEF LinkPicture
<1> QED
  BY <1>1, <1>2, <1>3, <1>4, <1>5, <1>6, <1>7, <1>8, <1>9, <1>10, <1>11
     DEF Next, DeleteDocument, DeleteUser

-----------------------------------------------------------------------------
(* The theorems *)

-----------------------------------------------------------------------------
(* The row of a document and its task *)

\* A task is started with its row, and the row is marked by the task's last step only.
LEMMA RowsStep ==
  ASSUME TypeOK, RowsAwaitTasks, [Next]_vars
  PROVE  RowsAwaitTasks'
<1> SUFFICES ASSUME NEW e \in Documents
             PROVE  (pc[e] \in Active \ Uploading => status[e] \in {"pending", "indexing", "deleted"})'
  BY DEF RowsAwaitTasks
<1> DEFINE Waits == pc[e] \in Active \ Uploading => status[e] \in {"pending", "indexing", "deleted"}
<1>0. Waits  BY DEF RowsAwaitTasks
<1> USE DEF people, rows, task, store, Active, Uploading, TypeOK
<1>1. ASSUME NEW d \in Documents, Upload(d) PROVE Waits'
  BY <1>0, <1>1 DEF Upload, Check, Lookup, Create, Goto
<1>2. ASSUME NEW d \in Documents, Progress(d) PROVE Waits'
  <2>1. CASE StartIndexing(d)
    BY <1>0, <2>1 DEF StartIndexing, SetStatus, Finish, Goto, Exists
  <2>2. CASE MarkReady(d) \/ Fail(d)
    BY <1>0, <2>2 DEF MarkReady, Fail, SetStatus, Finish, Goto
  <2>3. CASE Search(d) \/ Store(d) \/ Count(d) \/ StorePicture(d) \/ LinkPicture(d)
    BY <1>0, <2>3 DEF Search, Store, Count, StorePicture, LinkPicture, Goto
  <2>4. ASSUME NEW i \in Images, FindPicture(d, i) PROVE Waits'
    BY <1>0, <2>4 DEF FindPicture, Goto
  <2> QED BY <1>2, <2>1, <2>2, <2>3, <2>4 DEF Progress
<1>3. ASSUME NEW d \in Documents, Die(d) PROVE Waits'
  BY <1>0, <1>3 DEF Die, Finish, Goto
<1>4. ASSUME NEW gone, Cascade(gone), pc' = pc PROVE Waits'
  BY <1>0, <1>4 DEF Cascade
<1>5. ASSUME NEW c \in Courses, DeleteCourse(c) PROVE Waits'
  BY <1>0, <1>5 DEF DeleteCourse
<1>6. CASE UNCHANGED vars  BY <1>0, <1>6 DEF vars
<1> QED BY <1>1, <1>2, <1>3, <1>4, <1>5, <1>6 DEF Next, DeleteDocument, DeleteUser

-----------------------------------------------------------------------------
LEMMA IngestInit == Init => IngestInv
<1> SUFFICES ASSUME Init PROVE IngestInv
  OBVIOUS
<1>1. RowsAwaitTasks /\ NoOrphanRows /\ ReadyIsComplete /\ LinksAreGrounded
  BY DEF Init, RowsAwaitTasks, Active, Uploading, NoOrphanRows, ReadyIsComplete, LinksAreGrounded
<1> QED
  BY <1>1, TypeInit, TaskInit DEF IngestInv

\* The invariant the results below follow from: types, what each task knows, rows that
\* wait for their tasks, no orphan rows, complete ready documents and grounded links.
THEOREM IngestInvariant == Spec => []IngestInv
<1>1. IngestInv /\ [Next]_vars => IngestInv'
  BY TypeStep, TaskStep, RowsStep, OrphanStep, ReadyStep, LinksStep DEF IngestInv
<1> QED
  BY <1>1, IngestInit, PTL DEF Spec

\* A ready document has each of its chunks and pictures in the store, unless a
\* document with the same content has been deleted (rag.py:315-471 with any
\* number of concurrent tasks, deletions and crashes).
THEOREM ReadyDocumentsAreComplete == Spec => []ReadyIsComplete
<1>1. IngestInv => ReadyIsComplete
  BY DEF IngestInv
<1> QED
  BY <1>1, IngestInvariant, PTL

\* No chunk and no picture outlives or precedes the document that holds it, even
\* when the document is deleted while its task runs (schema.py:43, 64).
THEOREM DeletionsAreComplete == Spec => []NoOrphanRows
<1>1. IngestInv => NoOrphanRows
  BY DEF IngestInv
<1> QED
  BY <1>1, IngestInvariant, PTL

\* Links join existing rows with a document in common, whatever was deleted and
\* stored again between finding and linking (rag.py:444-452).
THEOREM LinksStayGrounded == Spec => []LinksAreGrounded
<1>1. IngestInv => LinksAreGrounded
  BY DEF IngestInv
<1> QED
  BY <1>1, IngestInvariant, PTL

\* A chunk is never taken over by a later upload (rag_ingestion.py:62-63).
THEOREM HoldersStay == Spec => HoldersNeverMove
<1> DEFINE Stays(h) == \/ holder'[h] = holder[h]
                       \/ holder'[h] = NoDocument /\ status'[holder[h]] = "deleted"
<1>1. ASSUME IngestInv, [Next]_vars
      PROVE  \A h \in Chunks : holder[h] # NoDocument => Stays(h)
  <2> SUFFICES ASSUME NEW h \in Chunks, holder[h] # NoDocument PROVE Stays(h)
    OBVIOUS
  <2>1. holder[h] \in Documents
    BY <1>1 DEF IngestInv, TypeOK
  <2>2. ASSUME NEW d \in Documents, Store(d) PROVE Stays(h)
    BY <2>2 DEF Store, HolderAfter
  <2>3. ASSUME NEW d \in Documents, StorePicture(d) PROVE Stays(h)
    BY <2>3 DEF StorePicture
  <2>4. ASSUME NEW gone \in SUBSET Documents, \A d \in gone : Exists(d), Cascade(gone)
        PROVE  Stays(h)
    BY <2>1, <2>4 DEF Cascade
  <2>5. CASE UNCHANGED <<holder, shown>>
    BY <2>5
  <2> QED
    BY <1>1, <2>2, <2>3, <2>4, <2>5, StoreKinds DEF IngestInv
<1>2. IngestInv /\ [Next]_vars =>
        [\A h \in Chunks : holder[h] # NoDocument => Stays(h)]_vars
  BY <1>1
<1> QED
  BY <1>2, IngestInvariant, PTL DEF Spec, HoldersNeverMove

-----------------------------------------------------------------------------
(* The counters of the chunks *)

\* Where h occurs in the text of d: what upsert_chunks adds for a new chunk.
Places(d, h) == {<<d, i>> : i \in {j \in DOMAIN Text[SourceOf[d]] : Text[SourceOf[d]][j] = h}}

CountInv == TypeOK /\ IsFiniteSet(Counted) /\ SourcesBounded

LEMMA PlacesCounted ==
  ASSUME NEW d \in Documents, NEW h
  PROVE  IsFiniteSet(Places(d, h)) /\ Cardinality(Places(d, h)) = Times(d, h)
<1> DEFINE T == Text[SourceOf[d]]
           P == {j \in DOMAIN T : T[j] = h}
           f == [j \in P |-> <<d, j>>]
<1>1. SourceOf[d] \in Sources
  BY UploadAssumption
<1>2. T \in Seq(Chunks)
  BY <1>1, TextAssumption
<1>3. Len(T) \in Nat /\ DOMAIN T = 1..Len(T)
  BY <1>2
<1>4. IsFiniteSet(P)
  <2>1. IsFiniteSet(DOMAIN T)
    BY <1>3, FS_Interval
  <2> QED
    BY <2>1, FS_Subset
<1>5. Places(d, h) = {<<d, i>> : i \in P}
  BY DEF Places
<1>6. f \in Bijection(P, Places(d, h))
  <2>1. f \in [P -> Places(d, h)]
    BY <1>5
  <2>2. \A a, b \in P : f[a] = f[b] => a = b
    OBVIOUS
  <2>3. \A t \in Places(d, h) : \E a \in P : f[a] = t
    BY <1>5
  <2> QED
    BY <2>1, <2>2, <2>3, Fun_IsBij
<1>7. ExistsBijection(P, Places(d, h))
  BY <1>6 DEF ExistsBijection
<1>8. IsFiniteSet(Places(d, h)) /\ Cardinality(Places(d, h)) = Cardinality(P)
  <2> HIDE DEF P
  <2> QED BY <1>4, <1>7, FS_Bijection
<1> QED
  BY <1>8 DEF Times

\* A chunk of a document occurs in it.
LEMMA ContentsOccur ==
  ASSUME NEW d \in Documents, NEW h \in Contents(d)
  PROVE  Times(d, h) >= 1
<1>1. PICK i \in DOMAIN Text[SourceOf[d]] : Text[SourceOf[d]][i] = h
  BY DEF Contents
<1>2. <<d, i>> \in Places(d, h)
  BY <1>1 DEF Places
<1>3. Places(d, h) # {}
  BY <1>2
<1>4. Cardinality(Places(d, h)) # 0
  BY <1>3, PlacesCounted, FS_EmptySet
<1> QED
  BY <1>4, PlacesCounted, TimesTyped

LEMMA OccurrencesFinite ==
  ASSUME IsFiniteSet(Counted), NEW h
  PROVE  IsFiniteSet(Occurrences(h)) /\ Cardinality(Occurrences(h)) \in Nat
<1> DEFINE f == [d \in Counted |-> Places(d, h)]
           PP == {Places(d, h) : d \in Counted}
<1>1. IsFiniteSet(PP)
  <2>1. f \in [Counted -> PP] /\ \A t \in PP : \E d \in Counted : f[d] = t
    OBVIOUS
  <2>2. f \in Surjection(Counted, PP)
    BY <2>1, Fun_IsSurj
  <2> HIDE DEF f, PP
  <2> QED
    BY <2>2, FS_Surjection
<1>2. \A p \in PP : IsFiniteSet(p)
  BY PlacesCounted DEF Counted
<1>3. Occurrences(h) = UNION PP
  BY DEF Occurrences, Places
<1>4. IsFiniteSet(UNION PP)
  <2> HIDE DEF PP
  <2> QED BY <1>1, <1>2, FS_UNION
<1> QED
  BY <1>3, <1>4, FS_CardinalityType

\* One more document is counted: its occurrences come on top.
LEMMA OccurrencesGrow ==
  ASSUME IsFiniteSet(Counted), NEW d \in Documents, d \notin Counted,
         Counted' = Counted \cup {d}, NEW h
  PROVE  /\ IsFiniteSet(Occurrences(h)')
         /\ Cardinality(Occurrences(h)') = Cardinality(Occurrences(h)) + Times(d, h)
<1>1. Occurrences(h)' = UNION {Places(e, h) : e \in Counted'}
  BY DEF Occurrences, Places
<1>2. Occurrences(h) = UNION {Places(e, h) : e \in Counted}
  BY DEF Occurrences, Places
<1>3. Occurrences(h)' = Occurrences(h) \cup Places(d, h)
  BY <1>1, <1>2
<1>4. Occurrences(h) \cap Places(d, h) = {}
  BY DEF Occurrences, Places
<1>5. IsFiniteSet(Occurrences(h)) /\ Cardinality(Occurrences(h)) \in Nat
  BY OccurrencesFinite
<1>6. /\ IsFiniteSet(Occurrences(h) \cup Places(d, h))
      /\ Cardinality(Occurrences(h) \cup Places(d, h)) =
           Cardinality(Occurrences(h)) + Cardinality(Places(d, h))
  BY <1>4, <1>5, PlacesCounted, TimesTyped, FS_Union, FS_EmptySet
<1> QED
  BY <1>3, <1>6, PlacesCounted

\* Where a step moves an upload, and what it does to the counters.
LEMMA CountSteps ==
  ASSUME TypeOK, [Next]_vars
  PROVE  \/ \E d \in Documents : Store(d)
         \/ \E d \in Documents : Count(d)
         \/ /\ \A h \in Chunks : sources'[h] = sources[h] \/ sources'[h] = 0
            /\ \/ Counted' = Counted
               \/ \E d \in Documents \ Counted : Counted' = Counted \cup {d}
<1> USE DEF people, rows, task, store, TypeOK
<1> DEFINE Still == \A h \in Chunks : sources'[h] = sources[h] \/ sources'[h] = 0
           One == \/ Counted' = Counted
                  \/ \E d \in Documents \ Counted : Counted' = Counted \cup {d}
<1>1. ASSUME NEW d \in Documents, NEW s \in Stage, Goto(d, s), d \in Counted => s \in {"picture", "caption", "link", "end", "silent"}
      PROVE  One
  <2>1. \A e \in Documents : pc'[e] = IF e = d THEN s ELSE pc[e]
    BY <1>1 DEF Goto
  <2>2. CASE s \in {"picture", "caption", "link", "end", "silent"}
    <3>1. Counted' = Counted \cup {d}
      BY <2>1, <2>2 DEF Counted
    <3> QED
      BY <3>1
  <2>3. CASE s \notin {"picture", "caption", "link", "end", "silent"}
    BY <1>1, <2>1, <2>3 DEF Counted
  <2> QED
    BY <2>2, <2>3
<1>2. ASSUME NEW d \in Documents, Upload(d)
      PROVE  Still /\ One
  <2>1. \/ Counted' = Counted
        \/ \E s \in Stage : Goto(d, s) /\ d \notin Counted
    BY <1>2 DEF Upload, Check, Lookup, Create, Counted, Stage
  <2>2. Still
    BY <1>2 DEF Upload, Check, Lookup, Create
  <2> QED
    BY <1>1, <2>1, <2>2
<1>3. ASSUME NEW d \in Documents, Progress(d), ~Store(d), ~Count(d)
      PROVE  Still /\ One
  <2>1. \E s \in Stage : Goto(d, s) /\ (d \in Counted => s \in {"picture", "caption", "link", "end", "silent"})
    BY <1>3 DEF Progress, StartIndexing, Search, FindPicture, StorePicture, LinkPicture, MarkReady,
                Fail, Finish, Counted, Stage
  <2>2. Still
    BY <1>3 DEF Progress, StartIndexing, Search, FindPicture, StorePicture, LinkPicture, MarkReady, Fail
  <2> QED
    BY <1>1, <2>1, <2>2
<1>4. ASSUME NEW d \in Documents, Die(d)
      PROVE  Still /\ One
  <2>1. Goto(d, "silent")
    BY <1>4 DEF Die, Finish
  <2>2. Still
    BY <1>4 DEF Die
  <2> QED
    BY <1>1, <2>1, <2>2 DEF Stage
<1>5. ASSUME NEW d \in Documents, DeleteDocument(d)
      PROVE  Still /\ One
  BY <1>5 DEF DeleteDocument, Cascade, Counted
<1>6. ASSUME NEW c \in Courses, DeleteCourse(c)
      PROVE  Still /\ One
  BY <1>6 DEF DeleteCourse, Counted
<1>7. ASSUME NEW u \in Users, DeleteUser(u)
      PROVE  Still /\ One
  BY <1>7 DEF DeleteUser, Cascade, Counted
<1>8. CASE UNCHANGED vars
  BY <1>8 DEF vars, Counted
<1> QED
  BY <1>2, <1>3, <1>4, <1>5, <1>6, <1>7, <1>8 DEF Next

LEMMA CountInit == Init => CountInv
<1> SUFFICES ASSUME Init PROVE CountInv
  OBVIOUS
<1>1. Counted = {}
  BY DEF Init, Counted
<1>2. IsFiniteSet(Counted)
  BY <1>1, FS_EmptySet
<1>3. SourcesBounded
  BY <1>2, OccurrencesFinite DEF Init, SourcesBounded
<1> QED
  BY <1>2, <1>3, TypeInit DEF CountInv

LEMMA CountStep == CountInv /\ [Next]_vars => CountInv'
<1> SUFFICES ASSUME CountInv, [Next]_vars PROVE CountInv'
  OBVIOUS
<1>1. TypeOK /\ IsFiniteSet(Counted) /\ TypeOK'
  BY TypeStep DEF CountInv
<1>2. \A h \in Chunks : /\ sources[h] \in Nat
                        /\ sources[h] <= Cardinality(Occurrences(h))
                        /\ Cardinality(Occurrences(h)) \in Nat
  BY <1>1, OccurrencesFinite DEF CountInv, SourcesBounded, TypeOK
<1>3. ASSUME NEW d \in Documents \ Counted, Counted' = Counted \cup {d},
             \A h \in Chunks : sources'[h] <= sources[h] + Times(d, h)
      PROVE  CountInv'
  <2>1. IsFiniteSet(Counted')
    BY <1>1, <1>3, FS_AddElement
  <2>2. ASSUME NEW h \in Chunks PROVE sources'[h] <= Cardinality(Occurrences(h)')
    <3>1. Cardinality(Occurrences(h)') = Cardinality(Occurrences(h)) + Times(d, h)
      BY <1>1, <1>3, OccurrencesGrow
    <3>2. sources'[h] \in Nat /\ Times(d, h) \in Nat
      BY <1>1, TimesTyped DEF TypeOK
    <3> QED
      BY <1>2, <1>3, <3>1, <3>2
  <2> QED
    BY <1>1, <2>1, <2>2 DEF CountInv, SourcesBounded
<1>4. ASSUME NEW d \in Documents, Store(d)
      PROVE  CountInv'
  <2>1. d \notin Counted /\ Counted' = Counted \cup {d}
    BY <1>1, <1>4 DEF Store, Goto, Counted, TypeOK
  <2>2. ASSUME NEW h \in Chunks PROVE sources'[h] <= sources[h] + Times(d, h)
    BY <1>2, <1>4, TimesTyped DEF Store
  <2> QED
    BY <1>3, <2>1, <2>2
<1>5. ASSUME NEW d \in Documents, Count(d)
      PROVE  CountInv'
  <2>1. d \notin Counted /\ Counted' = Counted \cup {d}
    BY <1>1, <1>5 DEF Count, Goto, Counted, TypeOK
  <2>2. ASSUME NEW h \in Chunks PROVE sources'[h] <= sources[h] + Times(d, h)
    <3>1. h \in Contents(d) => Times(d, h) >= 1
      BY ContentsOccur
    <3> QED
      BY <1>2, <1>5, <3>1, TimesTyped DEF Count
  <2> QED
    BY <1>3, <2>1, <2>2
<1>6. ASSUME \A h \in Chunks : sources'[h] = sources[h] \/ sources'[h] = 0, Counted' = Counted
      PROVE  CountInv'
  <2>1. \A h \in Chunks : Occurrences(h)' = Occurrences(h)
    BY <1>6 DEF Occurrences
  <2> QED
    BY <1>1, <1>2, <1>6, <2>1 DEF CountInv, SourcesBounded
<1>7. ASSUME \A h \in Chunks : sources'[h] = sources[h] \/ sources'[h] = 0,
             NEW d \in Documents \ Counted, Counted' = Counted \cup {d}
      PROVE  CountInv'
  <2>1. \A h \in Chunks : sources'[h] <= sources[h] + Times(d, h)
    BY <1>2, <1>7, TimesTyped
  <2> QED
    BY <1>3, <1>7, <2>1
<1> QED
  BY <1>1, <1>4, <1>5, <1>6, <1>7, CountSteps

THEOREM CountInvariant == Spec => []CountInv
BY CountInit, CountStep, PTL DEF Spec

\* source_count is at most the number of occurrences of the chunk in the documents
\* whose chunks have been stored or counted: whatever tasks overlap, none is
\* counted twice (rag_ingestion.py:60-75, rag.py:365-395).
THEOREM SourcesStayBounded == Spec => []SourcesBounded
<1>1. CountInv => SourcesBounded
  BY DEF CountInv
<1> QED
  BY <1>1, CountInvariant, PTL

-----------------------------------------------------------------------------
(* The knowledge base implements a store of shared contents *)

\* The status of the abstract store.
Abstract(s) == IF s \in {"pending", "indexing"} THEN "work" ELSE s

LEMMA StoreInit == Init => Shared!Init
  BY DEF Init, Shared!Init

\* Statuses change as the abstract ones do, or not at all.
LEMMA MarkedStatus ==
  ASSUME TypeOK, NEW d \in Documents, NEW s \in Status, SetStatus(d, s)
  PROVE  [e \in Documents |-> Abstract(status[e])]' =
           IF Exists(d) THEN [[e \in Documents |-> Abstract(status[e])] EXCEPT ![d] = Abstract(s)]
           ELSE [e \in Documents |-> Abstract(status[e])]
  BY DEF TypeOK, SetStatus

\* An upload and the end of a task accept, finish or give up a document.
LEMMA StatusRefines ==
  ASSUME IngestInv, NEW d \in Documents,
         Create(d) \/ StartIndexing(d) \/ MarkReady(d) \/ Fail(d)
  PROVE  [Shared!Next]_(Shared!vars)
<1> DEFINE abstract == [e \in Documents |-> Abstract(status[e])]
<1> USE DEF IngestInv, Abstract
<1>0. /\ UNCHANGED <<holder, shown, links>>
      /\ pc[d] \in Stage /\ status[d] \in Status
  BY DEF Create, StartIndexing, MarkReady, Fail, store, TypeOK
<1>1. ASSUME status' = status PROVE UNCHANGED Shared!vars
  BY <1>0, <1>1 DEF Shared!vars
<1>2. CASE Create(d)
  <2>1. CASE status' = [status EXCEPT ![d] = "pending"]
    <3>1. status[d] = "absent"  BY <1>2 DEF Create, TaskInv, TaskOf, Uploading
    <3>2. abstract[d] = "absent" /\ abstract' = [abstract EXCEPT ![d] = "work"]
      BY <2>1, <3>1 DEF TypeOK
    <3>3. Shared!Accept(d)  BY <1>0, <3>2 DEF Shared!Accept
    <3> QED BY <3>3 DEF Shared!Next
  <2> QED BY <1>1, <1>2, <2>1 DEF Create
<1>3. CASE StartIndexing(d) /\ status' # status
  <2>1. SetStatus(d, "indexing") /\ status[d] \in {"pending", "indexing", "deleted"}
    BY <1>3 DEF StartIndexing, RowsAwaitTasks, Active, Uploading
  <2>2. abstract' = abstract
    <3>1. CASE Exists(d)
      <4>1. abstract' = [abstract EXCEPT ![d] = "work"]
        BY <2>1, <3>1, MarkedStatus DEF Status
      <4>2. abstract[d] = "work"
        BY <2>1, <3>1 DEF Exists, Row
      <4> HIDE DEF abstract
      <4>3. abstract \in [Documents -> Status \cup {"work"}]
        BY DEF TypeOK, abstract
      <4> QED BY <4>1, <4>2, <4>3
    <3>2. CASE ~Exists(d)
      BY <2>1, <3>2, MarkedStatus DEF Status
    <3> QED BY <3>1, <3>2
  <2> QED BY <1>0, <2>2 DEF Shared!vars
<1>4. CASE MarkReady(d)
  <2>1. SetStatus(d, "ready") /\ status[d] \in {"pending", "indexing", "deleted"}
    BY <1>4 DEF MarkReady, RowsAwaitTasks, Active, Uploading
  <2>2. CASE Exists(d)
    <3>1. abstract[d] = "work" /\ abstract' = [abstract EXCEPT ![d] = "ready"]
      BY <2>1, <2>2, MarkedStatus DEF Exists, Row, Status
    <3>2. /\ \A h \in Contents(d) : Kept(h)
          /\ \A i \in Shots(d) : KeptImage(i)
      BY <1>4 DEF MarkReady, TaskInv, TaskOf, Active
    <3>3. \A e \in Documents : abstract[e] = "deleted" <=> status[e] = "deleted"
      OBVIOUS
    <3>4. Shared!Complete(d)
      BY <3>2, <3>3 DEF Shared!Complete, Shared!Lost, Kept, KeptImage
    <3>5. Shared!Finish(d)  BY <1>0, <3>1, <3>4 DEF Shared!Finish
    <3> QED BY <3>5 DEF Shared!Next
  <2>3. CASE ~Exists(d)  BY <1>1, <2>1, <2>3 DEF SetStatus
  <2> QED BY <2>2, <2>3
<1>5. CASE Fail(d) /\ status' # status
  <2>1. SetStatus(d, "error") /\ status[d] \in {"pending", "indexing", "deleted"}
    BY <1>5 DEF Fail, RowsAwaitTasks, Active, Uploading
  <2>2. CASE Exists(d)
    <3>1. abstract[d] = "work" /\ abstract' = [abstract EXCEPT ![d] = "error"]
      BY <2>1, <2>2, MarkedStatus DEF Exists, Row, Status
    <3>2. Shared!GiveUp(d)  BY <1>0, <3>1 DEF Shared!GiveUp
    <3> QED BY <3>2 DEF Shared!Next
  <2>3. CASE ~Exists(d)  BY <1>1, <2>1, <2>3 DEF SetStatus
  <2> QED BY <2>2, <2>3
<1> QED BY <1>1, <1>2, <1>3, <1>4, <1>5

\* The upserts take what is missing, and the links join what is there.
LEMMA TakingRefines ==
  ASSUME IngestInv, NEW d \in Documents, Store(d) \/ StorePicture(d) \/ LinkPicture(d)
  PROVE  [Shared!Next]_(Shared!vars)
<1> DEFINE abstract == [e \in Documents |-> Abstract(status[e])]
<1> USE DEF IngestInv, Abstract
<1>0. /\ abstract' = abstract
      /\ status[d] \in {"pending", "indexing", "deleted"}
      /\ abstract[d] \in {"work", "deleted"}
      /\ Exists(d) => abstract[d] = "work"
  BY DEF Store, StorePicture, LinkPicture, rows, RowsAwaitTasks, Active, Uploading, Exists, Row
<1>1. CASE Store(d)
  <2> DEFINE new == {h \in New(d) : holder[h] = NoDocument}
  <2>1. holder' = [h \in Chunks |-> IF h \in new THEN d ELSE holder[h]] /\ UNCHANGED <<shown, links>>
    BY <1>1 DEF Store, HolderAfter
  <2>2. CASE Exists(d)
    <3>1. new \in SUBSET Contents(d)  BY DEF New
    <3>2. Shared!TakeChunks(d, new)
      BY <1>0, <2>1, <2>2, <3>1 DEF Shared!TakeChunks
    <3> QED BY <3>1, <3>2 DEF Shared!Next
  <2>3. CASE ~Exists(d)
    <3>1. new = {}  BY <1>1, <2>3 DEF Store
    <3>2. holder' = holder  BY <2>1, <3>1 DEF TypeOK
    <3> QED BY <1>0, <2>1, <3>2 DEF Shared!vars
  <2> QED BY <2>2, <2>3
<1>2. CASE StorePicture(d)
  <2> DEFINE i == image[d][1]
  <2>1. i \in Shots(d) /\ i \in Images
    <3>1. i \in Shots(d)  BY <1>2 DEF StorePicture, TaskInv, TaskOf
    <3> QED BY <3>1, ContentsTyped
  <2>2. UNCHANGED <<holder, links>>  BY <1>2 DEF StorePicture
  <2>3. CASE shown[i] = NoDocument
    <3>1. Exists(d) /\ shown' = [shown EXCEPT ![i] = d]
      BY <1>2, <2>1, <2>3 DEF StorePicture, TypeOK
    <3>2. Shared!TakePicture(d, i)
      BY <1>0, <2>1, <2>2, <2>3, <3>1 DEF Shared!TakePicture
    <3> QED BY <2>1, <3>2 DEF Shared!Next
  <2>4. CASE shown[i] # NoDocument
    <3>1. shown' = shown  BY <1>2, <2>1, <2>4 DEF StorePicture, TypeOK
    <3> QED BY <1>0, <2>2, <3>1 DEF Shared!vars
  <2> QED BY <2>3, <2>4
<1>3. CASE LinkPicture(d)
  <2>1. UNCHANGED <<holder, shown>> /\ links \subseteq links'  BY <1>3 DEF LinkPicture
  <2>2. ASSUME NEW l \in links' \ links PROVE Shared!Joined(d, l)
    <3>1. PICK id \in Linked(d) :
            /\ l = <<id, image[d]>>
            /\ holder[id[1]] = id[2] /\ shown[image[d][1]] = image[d][2]
      BY <1>3, <2>2 DEF LinkPicture
    <3>2. id[1] \in Contents(d)  BY <3>1 DEF Linked, TaskInv, TaskOf
    <3>3. image[d][1] \in Shots(d)  BY <1>3 DEF LinkPicture, TaskInv, TaskOf
    <3> QED BY <3>1, <3>2, <3>3 DEF Shared!Joined
  <2>3. Shared!Link(d)  BY <1>0, <2>1, <2>2 DEF Shared!Link
  <2> QED BY <2>3 DEF Shared!Next
<1> QED BY <1>1, <1>2, <1>3

\* A deletion takes the rows with all that they hold.
LEMMA DeletingRefines ==
  ASSUME IngestInv, NEW gone \in SUBSET Documents, \A d \in gone : Exists(d), Cascade(gone)
  PROVE  [Shared!Next]_(Shared!vars)
<1> DEFINE abstract == [e \in Documents |-> Abstract(status[e])]
<1> USE DEF Abstract
<1>1. \A d \in gone : abstract[d] \in {"work", "ready", "error"}
  BY DEF Exists, Row
<1>2. \A d \in Documents : status'[d] = IF d \in gone THEN "deleted" ELSE status[d]
  BY DEF Cascade
<1>3. abstract' = [d \in Documents |-> IF d \in gone THEN "deleted" ELSE abstract[d]]
  BY <1>2
<1>4. Shared!Delete(gone)
  BY <1>1, <1>3 DEF Shared!Delete, Cascade
<1> QED BY <1>4 DEF Shared!Next

LEMMA StoreStep ==
  ASSUME IngestInv, [Next]_vars
  PROVE  [Shared!Next]_(Shared!vars)
<1> USE DEF people, rows, task, store
<1>1. ASSUME UNCHANGED <<status, holder, shown, links>> PROVE UNCHANGED Shared!vars
  BY <1>1 DEF Shared!vars
<1>2. ASSUME NEW d \in Documents, Upload(d) \/ Die(d) PROVE [Shared!Next]_(Shared!vars)
  BY <1>1, <1>2, StatusRefines DEF Upload, Check, Lookup, Die
<1>3. ASSUME NEW d \in Documents, Progress(d) PROVE [Shared!Next]_(Shared!vars)
  <2>1. ASSUME Search(d) \/ Count(d) \/ \E i \in Images : FindPicture(d, i)
        PROVE  [Shared!Next]_(Shared!vars)
    BY <1>1, <2>1 DEF Search, Count, FindPicture
  <2> QED BY <1>3, <2>1, StatusRefines, TakingRefines DEF Progress
<1>4. ASSUME NEW d \in Documents, DeleteDocument(d) PROVE [Shared!Next]_(Shared!vars)
  <2>1. {d} \in SUBSET Documents /\ (\A e \in {d} : Exists(e)) /\ Cascade({d})
    BY <1>4 DEF DeleteDocument
  <2> QED BY <2>1, DeletingRefines
<1>5. ASSUME NEW u \in Users, DeleteUser(u) PROVE [Shared!Next]_(Shared!vars)
  <2> DEFINE gone == {d \in Documents : Exists(d) /\ UserOf[d] = u}
  <2>1. gone \in SUBSET Documents /\ (\A d \in gone : Exists(d)) /\ Cascade(gone)
    BY <1>5 DEF DeleteUser
  <2> HIDE DEF gone
  <2> QED BY <2>1, DeletingRefines
<1>6. ASSUME NEW c \in Courses, DeleteCourse(c) PROVE [Shared!Next]_(Shared!vars)
  BY <1>1, <1>6 DEF DeleteCourse
<1>7. CASE UNCHANGED vars  BY <1>1, <1>7 DEF vars
<1> QED BY <1>2, <1>3, <1>4, <1>5, <1>6, <1>7 DEF Next

\* Concurrent uploads, tasks, deletions and crashes look like documents that take what
\* is missing, are finished when complete and go with all they hold.
THEOREM IngestionImplementsStore == Spec => ImplementsStore
<1>1. IngestInv /\ [Next]_vars => [Shared!Next]_(Shared!vars)
  BY StoreStep
<1> QED BY StoreInit, <1>1, IngestInvariant, PTL DEF Spec, ImplementsStore, Shared!Spec
=============================================================================
