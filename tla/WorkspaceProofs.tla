--------------------------- MODULE WorkspaceProofs --------------------------
(* WorkspaceInv is inductive.  Each component has a lemma for the steps that *)
(* leave it alone, lemmas for its own actions, and one for a step of the     *)
(* whole, which is a step of the component or leaves it alone.               *)
EXTENDS Workspace, TLAPS

-----------------------------------------------------------------------------
(* Accounts *)

LEMMA AccountsUnchanged == ASSUME AccountsInv, UNCHANGED accounts PROVE AccountsInv'
BY DEF AccountsInv, AccountsTypeOK, UniqueAccounts, NobodyOrdersHimself, LoginsHaveRows, Present,
       accounts, table, visit

\* A registration or a login takes a step.
LEMMA AccountsVisit ==
  ASSUME AccountsInv, NEW s \in Sessions,
         \/ s \in Registrations /\ (BeginRegistration(s) \/ CheckEmail(s) \/ CheckUsername(s) \/ InsertUser(s))
         \/ s \in Logins /\ ReadCredentials(s)
         \/ AnswerSession(s)
  PROVE  AccountsInv'
<1> USE AccountAssumption DEF AccountsInv, AccountsTypeOK, Users, Sessions, Stage, Row,
                              table, visit, Move
<1>1. CASE s \in Registrations /\ InsertUser(s)
  <2>1. CASE Rivals(s) = {}
    <3>1. /\ account' = [account EXCEPT ![s] = "present"]
          /\ session' = [session EXCEPT ![s] = "payload"]
          /\ UNCHANGED <<blocked, admins, found, tokens, command>>
      BY <1>1, <2>1 DEF InsertUser
    <3>2. AccountsTypeOK'  BY <1>1, <3>1
    <3>3. \A u \in Present : EmailOf[u] # EmailOf[s] /\ NameOf[u] # NameOf[s]
      BY <2>1 DEF Rivals
    <3>4. Present' = Present \cup {s}  BY <1>1, <3>1 DEF Present
    <3>5. UniqueAccounts'  BY <3>3, <3>4 DEF UniqueAccounts
    <3>6. NobodyOrdersHimself'  BY <3>1 DEF NobodyOrdersHimself
    <3>7. LoginsHaveRows'  BY <1>1, <3>1 DEF LoginsHaveRows
    <3> QED BY <3>2, <3>5, <3>6, <3>7
  <2>2. CASE Rivals(s) # {}
    <3>1. /\ session' = [session EXCEPT ![s] = "error"]
          /\ UNCHANGED <<account, blocked, admins, found, tokens, command>>
      BY <1>1, <2>2 DEF InsertUser
    <3>2. AccountsTypeOK'  BY <1>1, <3>1
    <3>3. UniqueAccounts' /\ NobodyOrdersHimself'
      BY <3>1 DEF UniqueAccounts, NobodyOrdersHimself, Present
    <3>4. LoginsHaveRows'  BY <1>1, <3>1 DEF LoginsHaveRows
    <3> QED BY <3>2, <3>3, <3>4
  <2> QED BY <2>1, <2>2
<1>2. ASSUME UNCHANGED table, UNCHANGED command PROVE UniqueAccounts' /\ NobodyOrdersHimself'
  BY <1>2 DEF UniqueAccounts, NobodyOrdersHimself, Present
<1>3. CASE s \in Registrations /\ (BeginRegistration(s) \/ CheckEmail(s) \/ CheckUsername(s))
  <2>1. UNCHANGED <<table, found, tokens, command>>
    BY <1>3 DEF BeginRegistration, CheckEmail, CheckUsername
  <2>2. \E stage \in Stage : session' = [session EXCEPT ![s] = stage]
    BY <1>3 DEF BeginRegistration, CheckEmail, CheckUsername
  <2>3. AccountsTypeOK'  BY <2>1, <2>2
  <2>4. LoginsHaveRows'  BY <1>3, <2>1, <2>2 DEF LoginsHaveRows
  <2> QED BY <1>2, <2>1, <2>3, <2>4
<1>4. CASE s \in Logins /\ ReadCredentials(s)
  <2>1. UNCHANGED <<table, tokens, command>>  BY <1>4 DEF ReadCredentials
  <2>2. \/ \E u \in Users : /\ found' = [found EXCEPT ![s] = u]
                           /\ session' = [session EXCEPT ![s] = "payload"]
        \/ UNCHANGED found /\ session' = [session EXCEPT ![s] = "refused"]
    BY <1>4 DEF ReadCredentials, Present
  <2>3. AccountsTypeOK'  BY <1>4, <2>1, <2>2
  <2>4. LoginsHaveRows'  BY <1>4, <2>2 DEF LoginsHaveRows
  <2> QED BY <1>2, <2>1, <2>3, <2>4
<1>5. CASE AnswerSession(s)
  <2>1. session[s] = "payload" /\ UNCHANGED <<table, found, command>>  BY <1>5 DEF AnswerSession
  <2>2. (IF s \in Logins THEN found[s] ELSE s) \in Users  BY <2>1 DEF LoginsHaveRows
  <2>3. tokens' \subseteq Users  BY <1>5, <2>2 DEF AnswerSession
  <2>4. \E stage \in {"token", "error"} : session' = [session EXCEPT ![s] = stage]
    BY <1>5 DEF AnswerSession
  <2>5. AccountsTypeOK'  BY <2>1, <2>3, <2>4
  <2>6. LoginsHaveRows'  BY <2>1, <2>4 DEF LoginsHaveRows
  <2> QED BY <1>2, <2>1, <2>5, <2>6
<1> QED BY <1>1, <1>3, <1>4, <1>5

LEMMA AccountsOrder ==
  ASSUME AccountsInv, NEW c \in Commands, NEW a \in Users, NEW v \in Verb, NEW u \in Users,
         OrderCommand(c, a, v, u)
  PROVE  AccountsInv'
<1> USE DEF AccountsInv, AccountsTypeOK, OrderCommand, table, visit, Present, LoginsHaveRows
<1>1. AccountsTypeOK'  BY DEF Order
<1>2. UniqueAccounts'  BY DEF UniqueAccounts
<1>3. NobodyOrdersHimself'  BY DEF NobodyOrdersHimself
<1> QED BY <1>1, <1>2, <1>3

LEMMA AccountsCommand ==
  ASSUME AccountsInv, NEW c \in Commands, RunCommand(c)
  PROVE  AccountsInv'
<1> USE DEF AccountsInv, AccountsTypeOK, RunCommand, table, visit, LoginsHaveRows
<1>1. UNCHANGED visit /\ UNCHANGED tokens /\ command' = [command EXCEPT ![c] = NoCommand]
  OBVIOUS
<1>2. account' \in [Users -> Row] /\ blocked' \subseteq Users /\ admins' \subseteq Users
  <2>1. CASE command[c].to \in Present
    <3>1. command[c].to \in Users  BY <2>1 DEF Present
    <3>2. account' \in [Users -> Row]  BY <2>1 DEF Row
    <3>3. blocked' \subseteq Users /\ admins' \subseteq Users  BY <2>1, <3>1 DEF SetField
    <3> QED BY <3>2, <3>3
  <2> QED BY <2>1
<1>3. Present' \subseteq Present  BY DEF Present
<1>4. AccountsTypeOK'  BY <1>1, <1>2
<1>5. UniqueAccounts'  BY <1>3 DEF UniqueAccounts
<1>6. NobodyOrdersHimself'  BY <1>1 DEF NobodyOrdersHimself
<1> QED BY <1>4, <1>5, <1>6

LEMMA AccountsStep == ASSUME WorkspaceInv, [Next]_vars PROVE AccountsInv'
<1>0. AccountsInv  BY DEF WorkspaceInv
<1>1. ASSUME UNCHANGED accounts PROVE AccountsInv'  BY <1>0, <1>1, AccountsUnchanged
<1>2. CASE UNCHANGED vars  BY <1>1, <1>2 DEF vars
<1>3. ASSUME NEW s \in Sessions, Visit(s) \/ ContinueVisit(s) PROVE AccountsInv'
  BY <1>0, <1>3, AccountsVisit DEF Visit, ContinueVisit, Sessions
<1>4. ASSUME NEW c \in Commands, Administer(c) \/ Execute(c) PROVE AccountsInv'
  BY <1>0, <1>4, AccountsOrder, AccountsCommand DEF Administer, Execute
<1>5. ASSUME NEW u \in Uploads, SendFile(u) \/ ContinueUpload(u) PROVE AccountsInv'
  BY <1>1, <1>5 DEF SendFile, ContinueUpload
<1>6. ASSUME NEW c \in Chats, OpenChat(c) \/ SendMessage(c) \/ DeleteChat(c) PROVE AccountsInv'
  BY <1>1, <1>6 DEF OpenChat, SendMessage, DeleteChat
<1>7. ASSUME NEW k \in Courses, OpenCourse(k) \/ DeleteCourse(k) PROVE AccountsInv'
  BY <1>1, <1>7 DEF OpenCourse, DeleteCourse
<1>8. ASSUME NEW d \in Documents, SendDocument(d) \/ DeleteDocument(d) \/ ContinueDocument(d) PROVE AccountsInv'
  BY <1>1, <1>8 DEF SendDocument, DeleteDocument, ContinueDocument
<1>9. ASSUME NEW l \in Links, ContinueLink(l) \/ \E c \in Chats : Link(l, c) PROVE AccountsInv'
  BY <1>1, <1>9 DEF ContinueLink, Link
<1>10. ASSUME NEW t \in Traces, Ask(t) \/ ContinueTrace(t) PROVE AccountsInv'
  BY <1>1, <1>10 DEF Ask, ContinueTrace
<1>11. ASSUME NEW s \in Signals, SendSignal(s) \/ ContinueSignal(s) PROVE AccountsInv'
  BY <1>1, <1>11 DEF SendSignal, ContinueSignal
<1>12. ASSUME NEW g \in Regenerations, ContinueRegeneration(g) \/ \E c \in Chats : Regenerate(g, c) PROVE AccountsInv'
  BY <1>1, <1>12 DEF ContinueRegeneration, Regenerate
<1>13. ASSUME NEW w \in Workers, Crash(w) PROVE AccountsInv'
  BY <1>1, <1>13 DEF Crash
<1> QED BY <1>2, <1>3, <1>4, <1>5, <1>6, <1>7, <1>8, <1>9, <1>10, <1>11, <1>12, <1>13 DEF Next

-----------------------------------------------------------------------------
(* Files *)

LEMMA FilesUnchanged == ASSUME FilesInv, UNCHANGED files PROVE FilesInv'
BY DEF FilesInv, FilesTypeOK, PartialHasWriter, WrittenExists, RowHasItsPath,
       Writers, Registered, PathOfRow, files

LEMMA PathsOfUploads == \A u \in Uploads : PathOf(u) \in Paths
<1> SUFFICES ASSUME NEW u \in Uploads PROVE PathOf(u) \in Paths
  OBVIOUS
<1> QED BY UploadAssumption DEF PathOf, Paths

\* An upload takes a step before its row is written, and the file of no other path.
LEMMA FilesStepType ==
  ASSUME FilesTypeOK, NEW u \in Uploads,
         AcceptUpload(u) \/ FindFile(u) \/ OpenFile(u) \/ WriteFile(u) \/ WriteFails(u) \/ RegisterFails(u)
  PROVE  FilesTypeOK'
<1> USE UploadAssumption, PathsOfUploads DEF FilesTypeOK, Proceed, Step, Size
<1>1. CASE AcceptUpload(u)   BY <1>1 DEF AcceptUpload
<1>2. CASE FindFile(u)
  <2>1. disk[PathOf(u)] # "absent" => disk[PathOf(u)] \in Size  BY DEF Size
  <2> QED BY <1>2, <2>1 DEF FindFile
<1>3. CASE OpenFile(u)
  <2>1. Writers(PathOf(u)) \subseteq Uploads  BY DEF Writers
  <2> QED BY <1>3, <2>1 DEF OpenFile
<1>4. CASE WriteFile(u)      BY <1>4 DEF WriteFile
<1>5. CASE WriteFails(u)     BY <1>5 DEF WriteFails
<1>6. CASE RegisterFails(u)  BY <1>6 DEF RegisterFails
<1> QED BY <1>1, <1>2, <1>3, <1>4, <1>5, <1>6

LEMMA FilesRegistering ==
  ASSUME FilesInv, NEW u \in Uploads, Register(u)
  PROVE  FilesInv'
<1> USE UploadAssumption DEF FilesInv, FilesTypeOK, Register, Proceed
<1> DEFINE c == ContentOf[u]
<1>1. c \in Contents /\ upload[u] = "register" /\ UNCHANGED <<disk, late, measured>>
  OBVIOUS
<1>2. /\ file'[c] = RowAfter(u)
      /\ file[c] \in [compressed : BOOLEAN, size : Size, refs : Nat]
  BY <1>1
<1>3. /\ file'[c] \in [compressed : BOOLEAN, size : Size, refs : Nat]
      /\ file'[c].refs = file[c].refs + 1
      /\ file[c].refs = 0 => file'[c].compressed = Compress[u]
      /\ file[c].refs # 0 => file'[c].compressed = file[c].compressed
  <2>1. CASE file[c].refs = 0
    <3>1. file'[c] = [compressed |-> Compress[u], size |-> measured[u], refs |-> 1]
      BY <1>2, <2>1 DEF RowAfter
    <3>2. measured[u] \in Size /\ Compress[u] \in BOOLEAN  OBVIOUS
    <3>3. file'[c].refs = 1  BY <3>1
    <3>4. file'[c] \in [compressed : BOOLEAN, size : Size, refs : Nat]  BY <3>1, <3>2
    <3>5. file'[c].compressed = Compress[u]  BY <3>1
    <3> QED BY <2>1, <3>3, <3>4, <3>5
  <2>2. CASE file[c].refs # 0
    <3>1. file'[c] = [file[c] EXCEPT !.refs = @ + 1]  BY <1>2, <2>2 DEF RowAfter
    <3> QED BY <1>2, <2>2, <3>1
  <2> QED BY <2>1, <2>2
<1>4. \A d \in Contents \ {c} : file'[d] = file[d]  BY <1>1
<1>5. upload' = [upload EXCEPT ![u] = "stored"]  OBVIOUS
<1>6. FilesTypeOK'
  <2>1. file' \in [Contents -> [compressed : BOOLEAN, size : Size, refs : Nat]]
    BY <1>1, <1>3, <1>4
  <2> QED BY <2>1, <1>1, <1>5 DEF Step
<1>7. \A v \in late' : upload'[v] = "write"  BY <1>1, <1>5
<1>8. PartialHasWriter'
  BY <1>1, <1>5 DEF PartialHasWriter, Writers
<1>9. WrittenExists'  BY <1>1, <1>5 DEF WrittenExists
<1>10. RowHasItsPath'
  <2> SUFFICES ASSUME NEW d \in Contents, Registered(d)' PROVE disk[PathOfRow(d)'] # "absent"
    BY <1>1 DEF RowHasItsPath, PathOfRow
  <2>1. CASE d # c  BY <2>1, <1>4 DEF RowHasItsPath, Registered, PathOfRow
  <2>2. CASE d = c /\ file[c].refs = 0
    <3>1. PathOfRow(d)' = PathOf(u)  BY <2>2, <1>3 DEF PathOfRow, PathOf
    <3> QED BY <3>1, <1>1 DEF WrittenExists
  <2>3. CASE d = c /\ file[c].refs # 0
    <3>1. PathOfRow(d)' = PathOfRow(d)  BY <2>3, <1>3 DEF PathOfRow
    <3>2. Registered(d)  BY <2>3, <1>2 DEF Registered
    <3> QED BY <3>1, <3>2 DEF RowHasItsPath
  <2> QED BY <2>1, <2>2, <2>3
<1> QED BY <1>6, <1>7, <1>8, <1>9, <1>10

LEMMA RowsKeepPaths ==
  ASSUME FilesInv, UNCHANGED file,
         \A p \in Paths : disk[p] # "absent" => disk'[p] # "absent"
  PROVE  RowHasItsPath'
<1>1. \A c \in Contents : PathOfRow(c) \in Paths
  BY DEF FilesInv, FilesTypeOK, PathOfRow, Paths
<1> QED BY <1>1 DEF FilesInv, RowHasItsPath, Registered, PathOfRow

LEMMA FilesUploading ==
  ASSUME FilesInv, NEW u \in Uploads,
         AcceptUpload(u) \/ FindFile(u) \/ OpenFile(u) \/ WriteFile(u) \/ WriteFails(u) \/ RegisterFails(u)
  PROVE  FilesInv'
<1> USE UploadAssumption, PathsOfUploads DEF FilesInv, Proceed
<1>1. FilesTypeOK'  BY FilesStepType
<1>3. \A p \in Paths : disk[p] # "absent" => disk'[p] # "absent"
  BY DEF FilesTypeOK, AcceptUpload, FindFile, OpenFile, WriteFile, WriteFails, RegisterFails
<1>4. UNCHANGED file
  BY DEF AcceptUpload, FindFile, OpenFile, WriteFile, WriteFails, RegisterFails
<1>5. RowHasItsPath'  BY <1>3, <1>4, RowsKeepPaths
<1> USE DEF FilesTypeOK, PartialHasWriter, WrittenExists, Writers
<1>6. (\A v \in late : upload[v] = "write")' /\ PartialHasWriter' /\ WrittenExists'
  <2>1. CASE AcceptUpload(u)   BY <2>1 DEF AcceptUpload
  <2>2. CASE FindFile(u)
    <3>1. /\ upload[u] = "exists" /\ UNCHANGED <<disk, late>>
          /\ \/ upload' = [upload EXCEPT ![u] = "register"] /\ disk[PathOf(u)] # "absent"
             \/ upload' = [upload EXCEPT ![u] = "open"]
      BY <2>2 DEF FindFile
    <3> QED BY <3>1
  <2>3. CASE OpenFile(u)
    <3>1. /\ upload[u] = "open" /\ upload' = [upload EXCEPT ![u] = "write"]
          /\ disk' = [disk EXCEPT ![PathOf(u)] = "partial"]
          /\ late' = late \cup Writers(PathOf(u))
      BY <2>3 DEF OpenFile
    <3>2. u \notin late'  BY <3>1
    <3>3. PartialHasWriter'
      <4> SUFFICES ASSUME NEW p \in Paths, disk'[p] = "partial"
                   PROVE  \E v \in Uploads : PathOf(v) = p
                            /\ (upload'[v] = "torn" \/ (upload'[v] = "write" /\ v \notin late'))
        OBVIOUS
      <4>1. CASE p = PathOf(u)  BY <4>1, <3>1, <3>2
      <4>2. CASE p # PathOf(u)
        <5>1. PICK v \in Uploads : PathOf(v) = p
                /\ (upload[v] = "torn" \/ (upload[v] = "write" /\ v \notin late))
          BY <4>2, <3>1
        <5>2. v # u /\ (v \in late' => v \in late)  BY <4>2, <5>1, <3>1
        <5> QED BY <5>1, <5>2, <3>1
      <4> QED BY <4>1, <4>2
    <3>4. \A v \in late' : upload'[v] = "write"  BY <3>1
    <3>5. WrittenExists'  BY <3>1
    <3> QED BY <3>3, <3>4, <3>5
  <2>4. CASE WriteFile(u)
    <3>1. /\ upload[u] = "write" /\ upload' = [upload EXCEPT ![u] = "register"]
          /\ late' = late \ {u}
          /\ \/ disk' = [disk EXCEPT ![PathOf(u)] = "whole"]
             \/ u \in late /\ UNCHANGED disk
      BY <2>4 DEF WriteFile
    <3>2. PartialHasWriter'
      <4> SUFFICES ASSUME NEW p \in Paths, disk'[p] = "partial"
                   PROVE  \E v \in Uploads : PathOf(v) = p
                            /\ (upload'[v] = "torn" \/ (upload'[v] = "write" /\ v \notin late'))
        OBVIOUS
      <4>1. disk[p] = "partial" /\ (p # PathOf(u) \/ u \in late)  BY <3>1
      <4>2. PICK v \in Uploads : PathOf(v) = p
                /\ (upload[v] = "torn" \/ (upload[v] = "write" /\ v \notin late))
        BY <4>1
      <4>3. v # u  BY <4>1, <4>2, <3>1
      <4> QED BY <4>2, <4>3, <3>1
    <3>3. \A v \in late' : upload'[v] = "write"  BY <3>1
    <3>4. WrittenExists'  BY <3>1, <1>3
    <3> QED BY <3>2, <3>3, <3>4
  <2>5. CASE WriteFails(u)
    <3>1. /\ upload[u] = "write" /\ upload' = [upload EXCEPT ![u] = "torn"]
          /\ late' = late \ {u} /\ UNCHANGED disk
      BY <2>5 DEF WriteFails
    <3> QED BY <3>1
  <2>6. CASE RegisterFails(u)  BY <2>6 DEF RegisterFails
  <2> QED BY <2>1, <2>2, <2>3, <2>4, <2>5, <2>6
<1> QED BY <1>1, <1>5, <1>6

LEMMA FilesCrash == ASSUME FilesInv, NEW w \in Workers, StopWorker(w) PROVE FilesInv'
<1> USE DEF FilesInv, FilesTypeOK
<1>1. /\ upload' \in [Uploads -> Step]
      /\ UNCHANGED <<disk, measured, file>>
      /\ late' \subseteq late
  BY DEF StopWorker, Step
<1>2. \A u \in Uploads :
        /\ upload'[u] \in {upload[u], "torn", "failed"}
        /\ upload[u] \in {"stored", "torn"} => upload'[u] = upload[u]
        /\ upload[u] = "write" => upload'[u] = "torn" \/ (upload'[u] = "write" /\ WorkerOf[u] # w)
        /\ WorkerOf[u] # w => upload'[u] = upload[u]
  BY DEF StopWorker
<1>3. FilesTypeOK'  BY <1>1
<1>4. \A v \in late' : upload'[v] = "write"  BY <1>1, <1>2 DEF StopWorker
<1>5. RowHasItsPath'  BY <1>1, RowsKeepPaths
<1>6. PartialHasWriter'  BY <1>1, <1>2 DEF PartialHasWriter, Writers
<1>7. WrittenExists'  BY <1>1, <1>2 DEF WrittenExists
<1> QED BY <1>3, <1>4, <1>5, <1>6, <1>7

LEMMA FilesStep == ASSUME WorkspaceInv, [Next]_vars PROVE FilesInv'
<1>0. FilesInv  BY DEF WorkspaceInv
<1>1. ASSUME UNCHANGED files PROVE FilesInv'  BY <1>0, <1>1, FilesUnchanged
<1>2. CASE UNCHANGED vars  BY <1>1, <1>2 DEF vars
<1>3. ASSUME NEW u \in Uploads, SendFile(u) \/ ContinueUpload(u) PROVE FilesInv'
  BY <1>0, <1>3, FilesUploading, FilesRegistering DEF SendFile, ContinueUpload, UploadStep
<1>4. ASSUME NEW w \in Workers, Crash(w) PROVE FilesInv'  BY <1>0, <1>4, FilesCrash DEF Crash
<1>5. ASSUME NEW s \in Sessions, Visit(s) \/ ContinueVisit(s) PROVE FilesInv'
  BY <1>1, <1>5 DEF Visit, ContinueVisit
<1>6. ASSUME NEW c \in Commands, Administer(c) \/ Execute(c) PROVE FilesInv'
  BY <1>1, <1>6 DEF Administer, Execute
<1>7. ASSUME NEW c \in Chats, OpenChat(c) \/ SendMessage(c) \/ DeleteChat(c) PROVE FilesInv'
  BY <1>1, <1>7 DEF OpenChat, SendMessage, DeleteChat
<1>8. ASSUME NEW k \in Courses, OpenCourse(k) \/ DeleteCourse(k) PROVE FilesInv'
  BY <1>1, <1>8 DEF OpenCourse, DeleteCourse
<1>9. ASSUME NEW d \in Documents, SendDocument(d) \/ DeleteDocument(d) \/ ContinueDocument(d) PROVE FilesInv'
  BY <1>1, <1>9 DEF SendDocument, DeleteDocument, ContinueDocument
<1>10. ASSUME NEW l \in Links, ContinueLink(l) \/ \E c \in Chats : Link(l, c) PROVE FilesInv'
  BY <1>1, <1>10 DEF ContinueLink, Link
<1>11. ASSUME NEW t \in Traces, Ask(t) \/ ContinueTrace(t) PROVE FilesInv'
  BY <1>1, <1>11 DEF Ask, ContinueTrace
<1>12. ASSUME NEW s \in Signals, SendSignal(s) \/ ContinueSignal(s) PROVE FilesInv'
  BY <1>1, <1>12 DEF SendSignal, ContinueSignal
<1>13. ASSUME NEW g \in Regenerations, ContinueRegeneration(g) \/ \E c \in Chats : Regenerate(g, c) PROVE FilesInv'
  BY <1>1, <1>13 DEF ContinueRegeneration, Regenerate
<1> QED BY <1>2, <1>3, <1>4, <1>5, <1>6, <1>7, <1>8, <1>9, <1>10, <1>11, <1>12, <1>13 DEF Next

-----------------------------------------------------------------------------
(* Mindmaps *)

LEMMA MapsUnchanged == ASSUME MindmapInv, UNCHANGED maps PROVE MindmapInv'
BY DEF MindmapInv, MindmapTypeOK, MapCoversItsChat, RunOf, OpenChats, maps

\* A chat is created or gets a message.
LEMMA MapsGrow ==
  ASSUME MindmapInv, NEW c \in Chats, CreateChat(c) \/ AddMessage(c)
  PROVE  MindmapInv'
<1> USE MindmapAssumption DEF MindmapInv, MindmapTypeOK
<1>1. CASE CreateChat(c)
  <2>1. /\ chat[c] = "absent" /\ chat' = [chat EXCEPT ![c] = "open"]
        /\ UNCHANGED <<size, map, run, chatOf, seen, base>>
    BY <1>1 DEF CreateChat
  <2>2. MapCoversItsChat'  BY <2>1 DEF MapCoversItsChat
  <2>3. ASSUME NEW g \in Regenerations PROVE RunOf(g)'
    <3>1. RunOf(g)  OBVIOUS
    <3>2. run[g] # "idle" => chatOf[g] # c  BY <3>1, <2>1 DEF RunOf
    <3> QED BY <3>1, <3>2, <2>1 DEF RunOf, OpenChats
  <2> QED BY <2>1, <2>2, <2>3
<1>2. CASE AddMessage(c)
  <2>1. /\ size[c] < MaxMessages /\ size' = [size EXCEPT ![c] = @ + 1]
        /\ UNCHANGED <<chat, map, run, chatOf, seen, base>>
    BY <1>2 DEF AddMessage
  <2>2. size' \in [Chats -> 0 .. MaxMessages]  BY <2>1
  <2>3. \A d \in Chats : 1 .. size[d] \subseteq 1 .. size'[d]  BY <2>1, <2>2
  <2>4. MapCoversItsChat'  BY <2>1, <2>3 DEF MapCoversItsChat
  <2>5. ASSUME NEW g \in Regenerations PROVE RunOf(g)'
    <3>1. RunOf(g)  OBVIOUS
    <3> QED BY <3>1, <2>1, <2>3 DEF RunOf, OpenChats
  <2> QED BY <2>1, <2>2, <2>4, <2>5
<1> QED BY <1>1, <1>2

LEMMA MapsShrink ==
  ASSUME MindmapInv, NEW gone, gone \subseteq OpenChats, RemoveChats(gone)
  PROVE  MindmapInv'
<1> USE MindmapAssumption DEF MindmapInv, MindmapTypeOK, RemoveChats
<1>1. MindmapTypeOK'  OBVIOUS
<1>2. \A c \in Chats : (c \in gone /\ size'[c] = 0 /\ map'[c] = {}) \/ (c \notin gone /\ size'[c] = size[c] /\ map'[c] = map[c])
  OBVIOUS
<1>3. MapCoversItsChat'  BY <1>2 DEF MapCoversItsChat
<1>4. OpenChats' \subseteq OpenChats /\ \A c \in OpenChats' : c \notin gone  BY DEF OpenChats
<1>5. ASSUME NEW g \in Regenerations PROVE RunOf(g)'
  <2>1. RunOf(g)  OBVIOUS
  <2>2. OpenChats' \subseteq Chats  BY DEF OpenChats
  <2>3. chatOf[g] \in OpenChats' => chatOf[g] \in OpenChats /\ size'[chatOf[g]] = size[chatOf[g]]
    BY <1>2, <1>4, <2>2
  <2>4. \A c \in Chats : chat[c] # "absent" => chat'[c] # "absent"  OBVIOUS
  <2>5. UNCHANGED <<run, chatOf, seen, base>>  OBVIOUS
  <2> HIDE DEF RemoveChats
  <2> QED BY <2>1, <2>3, <2>4, <2>5 DEF RunOf
<1> QED BY <1>1, <1>3, <1>5

LEMMA MapsRegenerating ==
  ASSUME MindmapInv, NEW g \in Regenerations,
         (\E c \in Chats : QueueRegeneration(g, c)) \/ RegenerationStep(g)
  PROVE  MindmapInv'
<1> USE MindmapAssumption DEF MindmapInv, MindmapTypeOK
<1>0. \A h \in Regenerations : RunOf(h)  OBVIOUS
<1>1. ASSUME NEW c \in Chats, QueueRegeneration(g, c) PROVE MindmapInv'
  <2>1. /\ run' = [run EXCEPT ![g] = "messages"] /\ chatOf' = [chatOf EXCEPT ![g] = c]
        /\ chat[c] = "open" /\ UNCHANGED <<chat, size, map, seen, base>>
    BY <1>1 DEF QueueRegeneration, OpenChats
  <2>2. MindmapTypeOK'  BY <2>1 DEF Phase
  <2>3. MapCoversItsChat'  BY <2>1 DEF MapCoversItsChat
  <2>4. \A h \in Regenerations : RunOf(h)'  BY <1>0, <2>1 DEF RunOf, OpenChats
  <2> QED BY <2>2, <2>3, <2>4
<1>2. CASE ReadMessages(g)
  <2>1. /\ run[g] = "messages" /\ UNCHANGED <<chat, size, map, chatOf, base>>
        /\ run' = [run EXCEPT ![g] = IF size[chatOf[g]] < 2 THEN "done" ELSE "existing"]
        /\ seen' = [seen EXCEPT ![g] = {i \in Messages : size[chatOf[g]] - Window < i /\ i <= size[chatOf[g]]}]
    BY <1>2 DEF ReadMessages
  <2>2. chatOf[g] \in Chats /\ size[chatOf[g]] \in 0 .. MaxMessages  BY <1>0, <2>1 DEF RunOf
  <2>3. seen'[g] \subseteq 1 .. size[chatOf[g]] /\ seen'[g] \subseteq Messages  BY <2>1, <2>2 DEF Messages
  <2>4. MindmapTypeOK'  BY <2>1, <2>3 DEF Phase
  <2>5. MapCoversItsChat'  BY <2>1 DEF MapCoversItsChat
  <2>6. ASSUME NEW h \in Regenerations PROVE RunOf(h)'
    <3>1. RunOf(h)  OBVIOUS
    <3>2. CASE h = g
      <4>1. run'[g] \in {"existing", "done"}  BY <2>1
      <4> QED BY <3>1, <3>2, <4>1, <2>1, <2>2, <2>3 DEF RunOf, OpenChats
    <3>3. CASE h # g  BY <3>1, <3>3, <2>1 DEF RunOf, OpenChats
    <3> QED BY <3>2, <3>3
  <2> QED BY <2>4, <2>5, <2>6
<1>3. CASE ReadMap(g)
  <2>1. /\ run[g] = "existing" /\ UNCHANGED <<chat, size, map, chatOf, seen>>
        /\ run' = [run EXCEPT ![g] = "model"] /\ base' = [base EXCEPT ![g] = map[chatOf[g]]]
    BY <1>3 DEF ReadMap
  <2>2. chatOf[g] \in Chats  BY <1>0, <2>1 DEF RunOf
  <2>3. MindmapTypeOK'  BY <2>1, <2>2 DEF Phase
  <2>4. MapCoversItsChat'  BY <2>1 DEF MapCoversItsChat
  <2>5. ASSUME NEW h \in Regenerations PROVE RunOf(h)'
    <3>1. RunOf(h)  OBVIOUS
    <3>2. CASE h = g  BY <3>1, <3>2, <2>1, <2>2 DEF RunOf, OpenChats, MapCoversItsChat
    <3>3. CASE h # g  BY <3>1, <3>3, <2>1 DEF RunOf, OpenChats
    <3> QED BY <3>2, <3>3
  <2> QED BY <2>3, <2>4, <2>5
<1>4. CASE AskForMap(g)
  <2>1. PICK phase \in {"save", "done"} :
          run[g] = "model" /\ run' = [run EXCEPT ![g] = phase] /\ UNCHANGED <<chat, size, map, chatOf, seen, base>>
    BY <1>4 DEF AskForMap
  <2>2. MindmapTypeOK'  BY <2>1 DEF Phase
  <2>3. MapCoversItsChat'  BY <2>1 DEF MapCoversItsChat
  <2>4. \A h \in Regenerations : RunOf(h)'  BY <1>0, <2>1 DEF RunOf, OpenChats
  <2> QED BY <2>2, <2>3, <2>4
<1>5. CASE SaveMap(g)
  <2>1. /\ run[g] = "save" /\ UNCHANGED <<chat, size, chatOf, seen, base>>
        /\ run' = [run EXCEPT ![g] = "done"]
        /\ IF chatOf[g] \in OpenChats
             THEN \E draft \in Drafts(g) : map' = [map EXCEPT ![chatOf[g]] = draft]
             ELSE UNCHANGED map
    BY <1>5 DEF SaveMap
  <2>2. \A draft \in Drafts(g) :
          /\ draft \subseteq Messages
          /\ chatOf[g] \in OpenChats => draft \subseteq 1 .. size[chatOf[g]]
    BY <1>0, <2>1 DEF RunOf, Drafts
  <2>4. MindmapTypeOK'  BY <2>1, <2>2 DEF Phase
  <2>5. MapCoversItsChat'  BY <2>1, <2>2 DEF MapCoversItsChat
  <2>6. \A h \in Regenerations : RunOf(h)'  BY <1>0, <2>1 DEF RunOf, OpenChats
  <2> QED BY <2>4, <2>5, <2>6
<1> QED BY <1>1, <1>2, <1>3, <1>4, <1>5 DEF RegenerationStep

LEMMA MapsStep == ASSUME WorkspaceInv, [Next]_vars PROVE MindmapInv'
<1>0. MindmapInv  BY DEF WorkspaceInv
<1>1. ASSUME UNCHANGED maps PROVE MindmapInv'  BY <1>0, <1>1, MapsUnchanged
<1>2. CASE UNCHANGED vars  BY <1>1, <1>2 DEF vars, rest
<1>3. ASSUME NEW c \in Chats, OpenChat(c) \/ SendMessage(c) PROVE MindmapInv'
  BY <1>0, <1>3, MapsGrow DEF OpenChat, SendMessage
<1>4. ASSUME NEW c \in Chats, DeleteChat(c) PROVE MindmapInv'
  <2>1. {c} \cap OpenChats \subseteq OpenChats  OBVIOUS
  <2> QED BY <1>0, <1>4, <2>1, MapsShrink DEF DeleteChat
<1>5. ASSUME NEW c \in Commands, Execute(c) PROVE MindmapInv'
  <2>1. {d \in OpenChats : Leaves(OwnerOf[d])} \subseteq OpenChats  OBVIOUS
  <2> QED BY <1>0, <1>5, <2>1, MapsShrink DEF Execute
<1>6. ASSUME NEW c \in Commands, Administer(c) PROVE MindmapInv'
  BY <1>1, <1>6 DEF Administer, rest
<1>7. ASSUME NEW g \in Regenerations, ContinueRegeneration(g) \/ \E c \in Chats : Regenerate(g, c) PROVE MindmapInv'
  BY <1>0, <1>7, MapsRegenerating DEF ContinueRegeneration, Regenerate
<1>8. ASSUME NEW s \in Sessions, Visit(s) \/ ContinueVisit(s) PROVE MindmapInv'
  BY <1>1, <1>8 DEF Visit, ContinueVisit, rest
<1>9. ASSUME NEW u \in Uploads, SendFile(u) \/ ContinueUpload(u) PROVE MindmapInv'
  BY <1>1, <1>9 DEF SendFile, ContinueUpload, rest
<1>10. ASSUME NEW k \in Courses, OpenCourse(k) \/ DeleteCourse(k) PROVE MindmapInv'
  BY <1>1, <1>10 DEF OpenCourse, DeleteCourse
<1>11. ASSUME NEW d \in Documents, SendDocument(d) \/ DeleteDocument(d) \/ ContinueDocument(d) PROVE MindmapInv'
  BY <1>1, <1>11 DEF SendDocument, DeleteDocument, ContinueDocument
<1>12. ASSUME NEW l \in Links, ContinueLink(l) \/ \E c \in Chats : Link(l, c) PROVE MindmapInv'
  BY <1>1, <1>12 DEF ContinueLink, Link
<1>13. ASSUME NEW t \in Traces, Ask(t) \/ ContinueTrace(t) PROVE MindmapInv'
  BY <1>1, <1>13 DEF Ask, ContinueTrace
<1>14. ASSUME NEW s \in Signals, SendSignal(s) \/ ContinueSignal(s) PROVE MindmapInv'
  BY <1>1, <1>14 DEF SendSignal, ContinueSignal
<1>15. ASSUME NEW w \in Workers, Crash(w) PROVE MindmapInv'
  BY <1>1, <1>15 DEF Crash, rest
<1> QED BY <1>2, <1>3, <1>4, <1>5, <1>6, <1>7, <1>8, <1>9, <1>10, <1>11, <1>12, <1>13, <1>14, <1>15 DEF Next

-----------------------------------------------------------------------------
(* Courses *)

LEMMA CoursesUnchanged == ASSUME CoursesInv, UNCHANGED shelves PROVE CoursesInv'
BY DEF CoursesInv, CoursesTypeOK, NamedCoursesExist, Opened, OwnShelf, OwnLink, shelves

LEMMA CoursesOpening ==
  ASSUME CoursesInv, NEW k \in Courses, CreateCourse(k)
  PROVE  CoursesInv'
<1> USE DEF CoursesInv, CoursesTypeOK
<1>1. /\ course' = [course EXCEPT ![k] = "present"]
      /\ UNCHANGED <<row, shelf, public, link, filing, linking>>
  BY DEF CreateCourse
<1>2. CoursesTypeOK'  BY <1>1 DEF Existence
<1>3. Opened \subseteq Opened'  BY <1>1 DEF Opened
<1>4. NamedCoursesExist'  BY <1>1, <1>3 DEF NamedCoursesExist
<1> QED BY <1>1, <1>2, <1>4 DEF OwnShelf, OwnLink

\* Whatever goes, a reference to it goes with it.
LEMMA CoursesShrink ==
  ASSUME CoursesInv, NEW ks, NEW ds, NEW cs, RemoveRows(ks, ds, cs)
  PROVE  CoursesInv'
<1> USE DEF CoursesInv, CoursesTypeOK
<1>1. /\ course' = [c \in Courses |-> IF c \in ks \cap Opened THEN "deleted" ELSE course[c]]
      /\ row' = [d \in Documents |-> IF d \in ds \cap Filed THEN "deleted" ELSE row[d]]
      /\ shelf' = [d \in Documents |-> IF shelf[d] \in ks \/ d \in ds THEN NoCourse ELSE shelf[d]]
      /\ link' = [c \in Chats |-> IF link[c] \in ks \/ c \in cs THEN NoCourse ELSE link[c]]
      /\ public' = public \ ds
      /\ UNCHANGED <<filing, linking>>
  BY DEF RemoveRows
<1>2. CoursesTypeOK'  BY <1>1 DEF Existence, Place
<1>3. \A k \in Opened : k \in Opened' \/ k \in ks  BY <1>1 DEF Opened
<1>4. \A d \in Documents : shelf'[d] = NoCourse \/ (shelf'[d] = shelf[d] /\ shelf[d] \notin ks)
  BY <1>1
<1>5. \A c \in Chats : link'[c] = NoCourse \/ (link'[c] = link[c] /\ link[c] \notin ks)
  BY <1>1
<1>6. NamedCoursesExist'  BY <1>3, <1>4, <1>5 DEF NamedCoursesExist
<1>7. \A d \in Documents : (OwnShelf(d, shelf[d]) /\ OwnShelf(d, filing[d].to))'
  BY <1>1, <1>4 DEF OwnShelf
<1>8. \A c \in Chats : OwnLink(c, link[c])'  BY <1>5 DEF OwnLink
<1>9. \A l \in Links : linking'[l].busy => OwnLink(linking[l].chat, linking[l].to)'
  BY <1>1 DEF OwnLink
<1> QED BY <1>2, <1>6, <1>7, <1>8, <1>9

LEMMA CoursesFiling ==
  ASSUME CoursesInv, NEW d \in Documents, NEW k \in Place, NEW shared \in BOOLEAN,
         StartFiling(d, k, shared), OwnShelf(d, k)
  PROVE  CoursesInv'
<1> USE DEF CoursesInv, CoursesTypeOK
<1>1. /\ filing' = [filing EXCEPT ![d] = [busy |-> TRUE, to |-> k]]
      /\ public' = IF shared THEN public \cup {d} ELSE public
      /\ UNCHANGED <<course, row, shelf, link, linking>>
  BY DEF StartFiling
<1>2. filing' \in [Documents -> Filing]
  <2>1. [busy |-> TRUE, to |-> k] \in Filing  BY DEF Filing
  <2> QED BY <1>1, <2>1
<1>3. CoursesTypeOK'  BY <1>1, <1>2
<1>4. NamedCoursesExist'  BY <1>1 DEF NamedCoursesExist, Opened
<1>5. \A e \in Documents : filing'[e].to = filing[e].to \/ (e = d /\ filing'[e].to = k)  BY <1>1
<1> QED BY <1>1, <1>3, <1>4, <1>5 DEF OwnShelf, OwnLink

LEMMA CoursesInserting ==
  ASSUME CoursesInv, NEW d \in Documents, NEW exists, InsertDocument(d, exists)
  PROVE  CoursesInv'
<1> USE DEF CoursesInv, CoursesTypeOK
<1>1. /\ filing' = [filing EXCEPT ![d] = Idle]
      /\ UNCHANGED <<course, public, link, linking>>
      /\ \/ /\ filing[d].to \in Opened \cup {NoCourse}
            /\ row' = [row EXCEPT ![d] = "present"]
            /\ shelf' = [shelf EXCEPT ![d] = filing[d].to]
         \/ row' = [row EXCEPT ![d] = "deleted"] /\ UNCHANGED shelf
  BY DEF InsertDocument
<1>2. filing' \in [Documents -> Filing] /\ filing'[d].to = NoCourse
  <2>1. Idle \in Filing /\ Idle.to = NoCourse  BY DEF Filing, Idle, Place
  <2> QED BY <1>1, <2>1
<1>3. filing[d].to \in Place  BY DEF Filing
<1>4. CoursesTypeOK'  BY <1>1, <1>2, <1>3 DEF Existence
<1>5. \A e \in Documents :
        shelf'[e] = shelf[e] \/ (e = d /\ shelf'[e] = filing[e].to /\ shelf'[e] \in Opened \cup {NoCourse})
  BY <1>1
<1>6. NamedCoursesExist'  BY <1>1, <1>5 DEF NamedCoursesExist, Opened
<1>7. \A e \in Documents : filing'[e].to = filing[e].to \/ filing'[e].to = NoCourse  BY <1>1, <1>2
<1> QED BY <1>1, <1>4, <1>5, <1>6, <1>7 DEF OwnShelf, OwnLink

LEMMA CoursesLinking ==
  ASSUME CoursesInv, NEW l \in Links,
         (\E c \in Chats, k \in Place : StartLinking(l, c, k)) \/ LinkChat(l)
  PROVE  CoursesInv'
<1> USE DEF CoursesInv, CoursesTypeOK
<1>1. ASSUME NEW c \in Chats, NEW k \in Place, StartLinking(l, c, k) PROVE CoursesInv'
  <2> DEFINE order == [busy |-> TRUE, to |-> k, chat |-> c]
  <2>1. linking' = [linking EXCEPT ![l] = order] /\ UNCHANGED <<course, row, shelf, public, link, filing>>
    BY <1>1 DEF StartLinking
  <2>2. OwnLink(c, k)  BY <1>1 DEF StartLinking, MayLink, OwnLink
  <2>3. order \in Linking /\ order.to = k /\ order.chat = c  BY DEF Linking
  <2>4. CoursesTypeOK'  BY <2>1, <2>3
  <2>5. NamedCoursesExist'  BY <2>1 DEF NamedCoursesExist, Opened
  <2>6. \A m \in Links : linking'[m] = linking[m] \/ linking'[m] = order  BY <2>1
  <2>7. \A m \in Links : linking'[m].busy => OwnLink(linking'[m].chat, linking'[m].to)
    BY <2>2, <2>3, <2>6
  <2> QED BY <2>1, <2>4, <2>5, <2>7 DEF OwnShelf, OwnLink
<1>2. CASE LinkChat(l)
  <2> DEFINE c == linking[l].chat
             k == linking[l].to
  <2>1. /\ linking[l].busy
        /\ linking' = [linking EXCEPT ![l] = Idle]
        /\ UNCHANGED <<course, row, shelf, public, filing>>
        /\ \/ c \in OpenChats /\ k \in Opened \cup {NoCourse} /\ link' = [link EXCEPT ![c] = k]
           \/ UNCHANGED link
    BY <1>2 DEF LinkChat
  <2>2. OwnLink(c, k)  BY <2>1
  <2>3. Idle \in Linking /\ ~Idle.busy  BY DEF Linking, Idle
  <2>4. link' \in [Chats -> Place]  BY <2>1 DEF Opened, Place
  <2>5. CoursesTypeOK'  BY <2>1, <2>3, <2>4
  <2>6. \A d \in Chats : link'[d] = link[d] \/ (d = c /\ link'[d] = k /\ k \in Opened \cup {NoCourse})
    BY <2>1
  <2>7. NamedCoursesExist'  BY <2>1, <2>6 DEF NamedCoursesExist, Opened
  <2>8. \A d \in Chats : OwnLink(d, link[d])'  BY <2>2, <2>6 DEF OwnLink
  <2>9. \A m \in Links : linking'[m].busy => linking'[m] = linking[m]  BY <2>1, <2>3
  <2> QED BY <2>1, <2>5, <2>7, <2>8, <2>9 DEF OwnShelf, OwnLink
<1> QED BY <1>1, <1>2

LEMMA CoursesStep == ASSUME WorkspaceInv, [Next]_vars PROVE CoursesInv'
<1>0. CoursesInv  BY DEF WorkspaceInv
<1>1. ASSUME UNCHANGED shelves PROVE CoursesInv'  BY <1>0, <1>1, CoursesUnchanged
<1>2. CASE UNCHANGED vars  BY <1>1, <1>2 DEF vars, rest
<1>3. ASSUME NEW k \in Courses, OpenCourse(k) \/ DeleteCourse(k) PROVE CoursesInv'
  BY <1>0, <1>3, CoursesOpening, CoursesShrink DEF OpenCourse, DeleteCourse, RemoveCourse
<1>4. ASSUME NEW d \in Documents, SendDocument(d) PROVE CoursesInv'
  <2>1. ASSUME NEW k \in Courses, NEW shared \in BOOLEAN, FileInCourse(d, k, shared) PROVE CoursesInv'
    BY <1>0, <2>1, CoursesFiling DEF FileInCourse, OwnShelf, Place
  <2>2. CASE FilePublic(d)  BY <1>0, <2>2, CoursesFiling DEF FilePublic, OwnShelf, Place
  <2>3. ASSUME NEW c \in Chats, FileWithMessage(d, c) PROVE CoursesInv'
    <3>1. OwnLink(c, link[c]) /\ link[c] \in Place  BY <1>0 DEF CoursesInv, CoursesTypeOK
    <3>2. OwnShelf(d, link[c])  BY <2>3, <3>1 DEF FileWithMessage, OwnLink, OwnShelf
    <3> QED BY <1>0, <2>3, <3>1, <3>2, CoursesFiling DEF FileWithMessage
  <2> QED BY <1>4, <2>1, <2>2, <2>3 DEF SendDocument
<1>5. ASSUME NEW d \in Documents, DeleteDocument(d) \/ ContinueDocument(d) PROVE CoursesInv'
  BY <1>0, <1>5, CoursesShrink, CoursesInserting DEF DeleteDocument, RemoveDocument, ContinueDocument
<1>6. ASSUME NEW l \in Links, ContinueLink(l) \/ \E c \in Chats : Link(l, c) PROVE CoursesInv'
  BY <1>0, <1>6, CoursesLinking DEF ContinueLink, Link
<1>7. ASSUME NEW c \in Chats, OpenChat(c) \/ SendMessage(c) PROVE CoursesInv'
  BY <1>1, <1>7 DEF OpenChat, SendMessage
<1>8. ASSUME NEW c \in Chats, DeleteChat(c) PROVE CoursesInv'
  BY <1>0, <1>8, CoursesShrink DEF DeleteChat
<1>9. ASSUME NEW c \in Commands, Execute(c) PROVE CoursesInv'
  BY <1>0, <1>9, CoursesShrink DEF Execute
<1>10. ASSUME NEW c \in Commands, Administer(c) PROVE CoursesInv'
  BY <1>1, <1>10 DEF Administer, rest
<1>11. ASSUME NEW s \in Sessions, Visit(s) \/ ContinueVisit(s) PROVE CoursesInv'
  BY <1>1, <1>11 DEF Visit, ContinueVisit, rest
<1>12. ASSUME NEW u \in Uploads, SendFile(u) \/ ContinueUpload(u) PROVE CoursesInv'
  BY <1>1, <1>12 DEF SendFile, ContinueUpload, rest
<1>13. ASSUME NEW t \in Traces, Ask(t) \/ ContinueTrace(t) PROVE CoursesInv'
  BY <1>1, <1>13 DEF Ask, ContinueTrace
<1>14. ASSUME NEW s \in Signals, SendSignal(s) \/ ContinueSignal(s) PROVE CoursesInv'
  BY <1>1, <1>14 DEF SendSignal, ContinueSignal
<1>15. ASSUME NEW g \in Regenerations, ContinueRegeneration(g) \/ \E c \in Chats : Regenerate(g, c) PROVE CoursesInv'
  BY <1>1, <1>15 DEF ContinueRegeneration, Regenerate
<1>16. ASSUME NEW w \in Workers, Crash(w) PROVE CoursesInv'
  BY <1>1, <1>16 DEF Crash, rest
<1> QED BY <1>2, <1>3, <1>4, <1>5, <1>6, <1>7, <1>8, <1>9, <1>10, <1>11, <1>12, <1>13, <1>14, <1>15, <1>16 DEF Next

-----------------------------------------------------------------------------
(* Feedback *)

LEMMA FeedbackUnchanged == ASSUME FeedbackInv, UNCHANGED opinions PROVE FeedbackInv'
BY DEF FeedbackInv, FeedbackTypeOK, OwnTrace, opinions

LEMMA FeedbackTracing ==
  ASSUME FeedbackInv, NEW t \in Traces, AnswerQuestion(t) \/ RecordTrace(t)
  PROVE  FeedbackInv'
<1> USE DEF FeedbackInv, FeedbackTypeOK
<1>1. /\ UNCHANGED <<signal, about>>
      /\ trace[t] # "recorded"
      /\ \E stage \in {"answered", "recorded"} : trace' = [trace EXCEPT ![t] = stage]
  BY DEF AnswerQuestion, RecordTrace
<1>2. FeedbackTypeOK'  BY <1>1
<1>3. \A s \in Signals : about[s] # NoTrace /\ OwnTrace(s) => OwnTrace(s)'
  BY <1>1 DEF OwnTrace
<1> QED BY <1>1, <1>2, <1>3

LEMMA FeedbackSignalling ==
  ASSUME FeedbackInv, NEW s \in Signals, NEW exists,
         \/ \E t \in Traces \cup {NoTrace} : SubmitSignal(s, t)
         \/ VerifyTrace(s)
         \/ InsertSignal(s, exists)
  PROVE  FeedbackInv'
<1> USE DEF FeedbackInv, FeedbackTypeOK
<1>1. ASSUME NEW t \in Traces \cup {NoTrace}, SubmitSignal(s, t) PROVE FeedbackInv'
  <2>1. /\ about' = [about EXCEPT ![s] = t] /\ UNCHANGED trace
        /\ signal' = [signal EXCEPT ![s] = IF t = NoTrace THEN "insert" ELSE "verify"]
    BY <1>1 DEF SubmitSignal
  <2>2. FeedbackTypeOK'  BY <2>1
  <2> QED BY <2>1, <2>2 DEF OwnTrace
<1>2. CASE VerifyTrace(s)
  <2>1. /\ UNCHANGED <<trace, about>>
        /\ \/ OwnTrace(s) /\ signal' = [signal EXCEPT ![s] = "insert"]
           \/ signal' = [signal EXCEPT ![s] = "refused"]
    BY <1>2 DEF VerifyTrace
  <2>2. FeedbackTypeOK'  BY <2>1
  <2> QED BY <2>1, <2>2 DEF OwnTrace
<1>3. CASE InsertSignal(s, exists)
  <2>1. /\ UNCHANGED <<trace, about>> /\ signal[s] = "insert"
        /\ \E stage \in {"recorded", "refused"} : signal' = [signal EXCEPT ![s] = stage]
    BY <1>3 DEF InsertSignal
  <2>2. FeedbackTypeOK'  BY <2>1
  <2> QED BY <2>1, <2>2 DEF OwnTrace
<1> QED BY <1>1, <1>2, <1>3

LEMMA FeedbackShrink ==
  ASSUME FeedbackInv, NEW gone, RemoveSignals(gone)
  PROVE  FeedbackInv'
BY DEF FeedbackInv, FeedbackTypeOK, RemoveSignals, OwnTrace

LEMMA FeedbackStep == ASSUME WorkspaceInv, [Next]_vars PROVE FeedbackInv'
<1>0. FeedbackInv  BY DEF WorkspaceInv
<1>1. ASSUME UNCHANGED opinions PROVE FeedbackInv'  BY <1>0, <1>1, FeedbackUnchanged
<1>2. CASE UNCHANGED vars  BY <1>1, <1>2 DEF vars, rest
<1>3. ASSUME NEW t \in Traces, Ask(t) \/ ContinueTrace(t) PROVE FeedbackInv'
  BY <1>0, <1>3, FeedbackTracing DEF Ask, ContinueTrace
<1>4. ASSUME NEW s \in Signals, SendSignal(s) \/ ContinueSignal(s) PROVE FeedbackInv'
  BY <1>0, <1>4, FeedbackSignalling DEF SendSignal, ContinueSignal
<1>5. ASSUME NEW c \in Commands, Execute(c) PROVE FeedbackInv'
  BY <1>0, <1>5, FeedbackShrink DEF Execute
<1>6. ASSUME NEW c \in Commands, Administer(c) PROVE FeedbackInv'
  BY <1>1, <1>6 DEF Administer, rest
<1>7. ASSUME NEW s \in Sessions, Visit(s) \/ ContinueVisit(s) PROVE FeedbackInv'
  BY <1>1, <1>7 DEF Visit, ContinueVisit, rest
<1>8. ASSUME NEW u \in Uploads, SendFile(u) \/ ContinueUpload(u) PROVE FeedbackInv'
  BY <1>1, <1>8 DEF SendFile, ContinueUpload, rest
<1>9. ASSUME NEW c \in Chats, OpenChat(c) \/ SendMessage(c) \/ DeleteChat(c) PROVE FeedbackInv'
  BY <1>1, <1>9 DEF OpenChat, SendMessage, DeleteChat
<1>10. ASSUME NEW k \in Courses, OpenCourse(k) \/ DeleteCourse(k) PROVE FeedbackInv'
  BY <1>1, <1>10 DEF OpenCourse, DeleteCourse
<1>11. ASSUME NEW d \in Documents, SendDocument(d) \/ DeleteDocument(d) \/ ContinueDocument(d) PROVE FeedbackInv'
  BY <1>1, <1>11 DEF SendDocument, DeleteDocument, ContinueDocument
<1>12. ASSUME NEW l \in Links, ContinueLink(l) \/ \E c \in Chats : Link(l, c) PROVE FeedbackInv'
  BY <1>1, <1>12 DEF ContinueLink, Link
<1>13. ASSUME NEW g \in Regenerations, ContinueRegeneration(g) \/ \E c \in Chats : Regenerate(g, c) PROVE FeedbackInv'
  BY <1>1, <1>13 DEF ContinueRegeneration, Regenerate
<1>14. ASSUME NEW w \in Workers, Crash(w) PROVE FeedbackInv'
  BY <1>1, <1>14 DEF Crash, rest
<1> QED BY <1>2, <1>3, <1>4, <1>5, <1>6, <1>7, <1>8, <1>9, <1>10, <1>11, <1>12, <1>13, <1>14 DEF Next

-----------------------------------------------------------------------------
(* Owners *)

\* Nobody leaves, and what comes into being belongs to somebody.
LEMMA OwnersKept ==
  ASSUME OwnersExist, Present \subseteq Present',
         \A c \in OpenChats' : c \in OpenChats \/ OwnerOf[c] \in Present,
         \A k \in Opened' : k \in Opened \/ TeacherOf[k] \in Present,
         \A d \in Filed' : d \in Filed \/ AuthorOf[d] \in Present,
         \A s \in Recorded' : s \in Recorded \/ SenderOf[s] \in Present
  PROVE  OwnersExist'
BY DEF OwnersExist

\* Who leaves takes along what is his, and only he leaves.
LEMMA OwnersLeaving ==
  ASSUME WorkspaceInv, NEW c \in Commands, Execute(c)
  PROVE  OwnersExist'
<1> USE DEF WorkspaceInv
<1>1. \A u \in Present : u \in Present' \/ Leaves(u)
  BY DEF Execute, RunCommand, table, Present, Leaves, AccountsInv, AccountsTypeOK
<1>2. \A u \in Users : Leaves(u) => u \notin Present'
  BY DEF Present, Leaves
<1>3. \A d \in OpenChats' : d \in OpenChats /\ ~Leaves(OwnerOf[d])
  BY DEF Execute, RemoveChats, OpenChats, MindmapInv, MindmapTypeOK
<1>4. \A k \in Opened' : k \in Opened /\ ~Leaves(TeacherOf[k])
  BY DEF Execute, RemoveRows, Opened, CoursesInv, CoursesTypeOK
<1>5. \A d \in Filed' : d \in Filed /\ ~Leaves(AuthorOf[d])
  BY DEF Execute, RemoveRows, Filed, CoursesInv, CoursesTypeOK
<1>6. \A s \in Recorded' : s \in Recorded /\ ~Leaves(SenderOf[s])
  BY DEF Execute, RemoveSignals, Recorded, FeedbackInv, FeedbackTypeOK
<1> QED BY <1>1, <1>3, <1>4, <1>5, <1>6 DEF OwnersExist

LEMMA OwnersStep == ASSUME WorkspaceInv, [Next]_vars PROVE OwnersExist'
<1>0. /\ OwnersExist
      /\ account \in [Users -> Row]
      /\ chat \in [Chats -> {"absent", "open", "deleted"}]
      /\ course \in [Courses -> Existence]
      /\ row \in [Documents -> Existence]
      /\ signal \in [Signals -> {"start", "verify", "insert", "recorded", "refused", "deleted"}]
  BY DEF WorkspaceInv, AccountsInv, AccountsTypeOK, MindmapInv, MindmapTypeOK, CoursesInv, CoursesTypeOK,
         FeedbackInv, FeedbackTypeOK
<1> DEFINE Same == /\ UNCHANGED chat /\ UNCHANGED course /\ UNCHANGED row /\ UNCHANGED signal
<1>1. ASSUME Same, Present \subseteq Present' PROVE OwnersExist'
  BY <1>0, <1>1, OwnersKept DEF OpenChats, Opened, Filed, Recorded
<1>2. CASE UNCHANGED vars
  BY <1>1, <1>2 DEF vars, rest, maps, shelves, opinions, accounts, table, Present
<1>3. ASSUME NEW s \in Sessions, Visit(s) \/ ContinueVisit(s) PROVE OwnersExist'
  <2>1. Same  BY <1>3 DEF Visit, ContinueVisit, rest, maps, shelves, opinions
  <2>2. UNCHANGED account \/ account' = [account EXCEPT ![s] = "present"]
    BY <1>3 DEF Visit, ContinueVisit, BeginRegistration, ReadCredentials, CheckEmail, CheckUsername,
                InsertUser, AnswerSession, table
  <2>3. Present \subseteq Present'  BY <1>0, <2>2 DEF Present
  <2> QED BY <1>1, <2>1, <2>3
<1>4. ASSUME NEW c \in Commands, Administer(c) PROVE OwnersExist'
  <2>1. Same /\ UNCHANGED account
    BY <1>4 DEF Administer, OrderCommand, table, rest, maps, shelves, opinions
  <2> QED BY <1>1, <2>1 DEF Present
<1>5. ASSUME NEW c \in Commands, Execute(c) PROVE OwnersExist'
  BY <1>5, OwnersLeaving
<1>6. ASSUME NEW u \in Uploads, SendFile(u) \/ ContinueUpload(u) PROVE OwnersExist'
  <2>1. Same /\ UNCHANGED account
    BY <1>6 DEF SendFile, ContinueUpload, accounts, table, rest, maps, shelves, opinions
  <2> QED BY <1>1, <2>1 DEF Present
<1>7. ASSUME NEW c \in Chats, OpenChat(c) PROVE OwnersExist'
  <2>1. /\ OwnerOf[c] \in Present
        /\ chat' = [chat EXCEPT ![c] = "open"]
        /\ UNCHANGED <<account, course, row, signal>>
    BY <1>7 DEF OpenChat, CreateChat, Authorised, accounts, table, shelves, opinions
  <2> QED BY <1>0, <2>1, OwnersKept DEF Present, OpenChats, Opened, Filed, Recorded
<1>8. ASSUME NEW c \in Chats, SendMessage(c) PROVE OwnersExist'
  <2>1. Same /\ UNCHANGED account
    BY <1>8 DEF SendMessage, AddMessage, accounts, table, shelves, opinions
  <2> QED BY <1>1, <2>1 DEF Present
<1>9. ASSUME NEW c \in Chats, DeleteChat(c) PROVE OwnersExist'
  <2>1. /\ \A d \in Chats : chat'[d] = "open" => chat[d] = "open"
        /\ \A k \in Courses : course'[k] = "present" => course[k] = "present"
        /\ \A d \in Documents : row'[d] = "present" => row[d] = "present"
        /\ UNCHANGED <<account, signal>>
    BY <1>9 DEF DeleteChat, RemoveChats, RemoveRows, accounts, table, opinions
  <2> QED BY <1>0, <2>1, OwnersKept DEF Present, OpenChats, Opened, Filed, Recorded
<1>10. ASSUME NEW k \in Courses, OpenCourse(k) PROVE OwnersExist'
  <2>1. /\ TeacherOf[k] \in Present
        /\ course' = [course EXCEPT ![k] = "present"]
        /\ UNCHANGED <<account, chat, row, signal>>
    BY <1>10 DEF OpenCourse, CreateCourse, Authorised, accounts, table, maps, opinions
  <2> QED BY <1>0, <2>1, OwnersKept DEF Present, OpenChats, Opened, Filed, Recorded
<1>11. ASSUME NEW ks, NEW ds, NEW cs, RemoveRows(ks, ds, cs), UNCHANGED <<account, chat, signal>>
       PROVE  OwnersExist'
  <2>1. /\ \A k \in Courses : course'[k] = "present" => course[k] = "present"
        /\ \A d \in Documents : row'[d] = "present" => row[d] = "present"
    BY <1>11 DEF RemoveRows
  <2> QED BY <1>0, <1>11, <2>1, OwnersKept DEF Present, OpenChats, Opened, Filed, Recorded
<1>12. ASSUME NEW k \in Courses, DeleteCourse(k) PROVE OwnersExist'
  BY <1>11, <1>12 DEF DeleteCourse, RemoveCourse, accounts, table, maps, opinions
<1>13. ASSUME NEW d \in Documents, DeleteDocument(d) PROVE OwnersExist'
  BY <1>11, <1>13 DEF DeleteDocument, RemoveDocument, accounts, table, maps, opinions
<1>14. ASSUME NEW d \in Documents, SendDocument(d) PROVE OwnersExist'
  <2>1. Same /\ UNCHANGED account
    BY <1>14 DEF SendDocument, FileInCourse, FilePublic, FileWithMessage, StartFiling,
                 accounts, table, maps, opinions
  <2> QED BY <1>1, <2>1 DEF Present
<1>15. ASSUME NEW d \in Documents, ContinueDocument(d) PROVE OwnersExist'
  <2>1. /\ \/ AuthorOf[d] \in Present /\ row' = [row EXCEPT ![d] = "present"]
           \/ row' = [row EXCEPT ![d] = "deleted"]
        /\ UNCHANGED <<account, chat, course, signal>>
    BY <1>15 DEF ContinueDocument, InsertDocument, accounts, table, maps, opinions
  <2> QED BY <1>0, <2>1, OwnersKept DEF Present, OpenChats, Opened, Filed, Recorded
<1>16. ASSUME NEW l \in Links, ContinueLink(l) \/ \E c \in Chats : Link(l, c) PROVE OwnersExist'
  <2>1. Same /\ UNCHANGED account
    BY <1>16 DEF ContinueLink, Link, StartLinking, LinkChat, accounts, table, maps, opinions
  <2> QED BY <1>1, <2>1 DEF Present
<1>17. ASSUME NEW t \in Traces, Ask(t) \/ ContinueTrace(t) PROVE OwnersExist'
  <2>1. Same /\ UNCHANGED account
    BY <1>17 DEF Ask, ContinueTrace, AnswerQuestion, RecordTrace, accounts, table, maps, shelves
  <2> QED BY <1>1, <2>1 DEF Present
<1>18. ASSUME NEW s \in Signals, SendSignal(s) \/ ContinueSignal(s) PROVE OwnersExist'
  <2>1. /\ \/ SenderOf[s] \in Present /\ signal' = [signal EXCEPT ![s] = "recorded"]
           \/ \E stage \in {"verify", "insert", "refused"} : signal' = [signal EXCEPT ![s] = stage]
        /\ UNCHANGED <<account, chat, course, row>>
    BY <1>18 DEF SendSignal, ContinueSignal, SubmitSignal, VerifyTrace, InsertSignal,
                 accounts, table, maps, shelves
  <2> QED BY <1>0, <2>1, OwnersKept DEF Present, OpenChats, Opened, Filed, Recorded
<1>19. ASSUME NEW g \in Regenerations, ContinueRegeneration(g) \/ \E c \in Chats : Regenerate(g, c) PROVE OwnersExist'
  <2>1. Same /\ UNCHANGED account
    BY <1>19 DEF ContinueRegeneration, Regenerate, QueueRegeneration, RegenerationStep, ReadMessages, ReadMap,
                 AskForMap, SaveMap, accounts, table, shelves, opinions
  <2> QED BY <1>1, <2>1 DEF Present
<1>20. ASSUME NEW w \in Workers, Crash(w) PROVE OwnersExist'
  <2>1. Same /\ UNCHANGED account
    BY <1>20 DEF Crash, accounts, table, rest, maps, shelves, opinions
  <2> QED BY <1>1, <2>1 DEF Present
<1> QED BY <1>2, <1>3, <1>4, <1>5, <1>6, <1>7, <1>8, <1>9, <1>10, <1>12, <1>13, <1>14, <1>15, <1>16,
           <1>17, <1>18, <1>19, <1>20 DEF Next

-----------------------------------------------------------------------------
(* The whole *)

LEMMA RequestsStep == ASSUME WorkspaceInv, [Next]_vars PROVE requests' \in 0 .. MaxRequests
<1>1. ASSUME Enter PROVE requests' \in 0 .. MaxRequests
  BY <1>1, WorkspaceAssumption DEF Enter, WorkspaceInv
<1>2. Enter \/ UNCHANGED requests
  BY DEF Next, vars, Visit, ContinueVisit, Administer, Execute, SendFile, ContinueUpload, OpenChat, SendMessage,
         DeleteChat, OpenCourse, DeleteCourse, SendDocument, DeleteDocument, ContinueDocument, ContinueLink, Link,
         Ask, ContinueTrace, SendSignal, ContinueSignal, ContinueRegeneration, Regenerate, Crash
<1> QED BY <1>1, <1>2 DEF WorkspaceInv

LEMMA InitWorkspace == Init => WorkspaceInv
<1> SUFFICES ASSUME Init PROVE WorkspaceInv  OBVIOUS
<1>1. AccountsInv
  <2> USE AccountAssumption DEF Init, AccountsInit
  <2>1. Present = Founders  BY DEF Present, Users
  <2>2. AccountsTypeOK  BY DEF AccountsTypeOK, Users, Row, Stage
  <2>3. UniqueAccounts  BY <2>1, FounderAssumption DEF UniqueAccounts
  <2>4. NobodyOrdersHimself  BY DEF NobodyOrdersHimself
  <2>5. LoginsHaveRows  BY DEF LoginsHaveRows, Sessions
  <2> QED BY <2>2, <2>3, <2>4, <2>5 DEF AccountsInv
<1>2. FilesInv
  <2> USE DEF Init, FilesInit
  <2>1. FilesTypeOK  BY DEF FilesTypeOK, Step, Size, NoFile
  <2>2. PartialHasWriter /\ WrittenExists  BY PathsOfUploads DEF PartialHasWriter, WrittenExists
  <2>3. RowHasItsPath  BY DEF RowHasItsPath, Registered, NoFile
  <2> QED BY <2>1, <2>2, <2>3 DEF FilesInv
<1>3. MindmapInv
  <2> USE MindmapAssumption DEF Init, MindmapInit
  <2>1. size \in [Chats -> 0 .. MaxMessages]  OBVIOUS
  <2>2. \A c \in Chats : map[c] = 1 .. size[c]  OBVIOUS
  <2>3. map \in [Chats -> SUBSET Messages]  BY <2>1, <2>2 DEF Messages
  <2>4. MindmapTypeOK  BY <2>1, <2>3 DEF MindmapTypeOK, Phase
  <2>5. MapCoversItsChat  BY <2>2 DEF MapCoversItsChat
  <2>6. \A g \in Regenerations : RunOf(g)  BY DEF RunOf
  <2> QED BY <2>4, <2>5, <2>6 DEF MindmapInv
<1>4. CoursesInv
  <2> USE CourseAssumption DEF Init, CoursesInit
  <2>1. CoursesTypeOK  BY DEF CoursesTypeOK, Existence, Place, Filing, Linking, Idle
  <2>2. NamedCoursesExist  BY DEF NamedCoursesExist
  <2>3. \A d \in Documents : OwnShelf(d, shelf[d]) /\ OwnShelf(d, filing[d].to)  BY DEF OwnShelf, Idle
  <2>4. \A c \in Chats : OwnLink(c, link[c])  BY DEF OwnLink
  <2>5. \A l \in Links : linking[l].busy => OwnLink(linking[l].chat, linking[l].to)  BY DEF Idle
  <2> QED BY <2>1, <2>2, <2>3, <2>4, <2>5 DEF CoursesInv
<1>5. FeedbackInv  BY DEF Init, FeedbackInit, FeedbackInv, FeedbackTypeOK
<1>6. OwnersExist
  <2>1. Present = Founders  BY AccountAssumption DEF Init, AccountsInit, Present, Users
  <2>2. Opened = OldCourses  BY CourseAssumption DEF Init, CoursesInit, Opened
  <2>3. Filed = {} /\ Recorded = {}  BY DEF Init, CoursesInit, FeedbackInit, Filed, Recorded
  <2> QED BY <2>1, <2>2, <2>3 DEF Init, OwnersExist
<1>7. requests \in 0 .. MaxRequests  BY WorkspaceAssumption DEF Init
<1> QED BY <1>1, <1>2, <1>3, <1>4, <1>5, <1>6, <1>7 DEF WorkspaceInv

\* The inductive invariant of accounts, files, mindmaps, courses and feedback, for any
\* number of users, uploads, chats, courses, documents and requests.
THEOREM WorkspaceInvariant == Spec => []WorkspaceInv
<1>1. WorkspaceInv /\ [Next]_vars => WorkspaceInv'
  BY AccountsStep, FilesStep, MapsStep, CoursesStep, FeedbackStep, OwnersStep, RequestsStep DEF WorkspaceInv
<1> QED BY InitWorkspace, <1>1, PTL DEF Spec

\* No two accounts share an address or a name.
THEOREM AccountsAreUnique == Spec => []UniqueAccounts
<1>1. WorkspaceInv => UniqueAccounts  BY DEF WorkspaceInv, AccountsInv
<1> QED BY <1>1, WorkspaceInvariant, PTL

\* The path that a row of table files names exists.
THEOREM RowsHavePaths == Spec => []RowHasItsPath
<1>1. WorkspaceInv => RowHasItsPath  BY DEF WorkspaceInv, FilesInv
<1> QED BY <1>1, WorkspaceInvariant, PTL

\* A registered file that is not whole has an upload that is writing it or was torn off.
THEOREM FilesAreWhole == Spec => []WholeUnlessTorn
<1>1. WorkspaceInv => WholeUnlessTorn
  <2> SUFFICES ASSUME WorkspaceInv, NEW c \in Contents, Registered(c), disk[PathOfRow(c)] # "whole"
               PROVE  \E u \in Uploads : PathOf(u) = PathOfRow(c) /\ upload[u] \in {"write", "torn"}
    BY DEF WholeUnlessTorn
  <2>1. PathOfRow(c) \in Paths  BY DEF WorkspaceInv, FilesInv, FilesTypeOK, PathOfRow, Paths
  <2>2. disk[PathOfRow(c)] = "partial"
    BY <2>1 DEF WorkspaceInv, FilesInv, FilesTypeOK, RowHasItsPath
  <2> QED BY <2>1, <2>2 DEF WorkspaceInv, FilesInv, PartialHasWriter, Writers
<1> QED BY <1>1, WorkspaceInvariant, PTL

\* A mindmap covers messages of its own chat.
THEOREM MapsStayInTheirChats == Spec => []MapCoversItsChat
<1>1. WorkspaceInv => MapCoversItsChat  BY DEF WorkspaceInv, MindmapInv
<1> QED BY <1>1, WorkspaceInvariant, PTL

\* Nothing that belongs to a user outlives him.
THEOREM NothingIsOrphaned == Spec => []OwnersExist
<1>1. WorkspaceInv => OwnersExist  BY DEF WorkspaceInv
<1> QED BY <1>1, WorkspaceInvariant, PTL

\* No row names a course that has gone.
THEOREM CoursesAreKnown == Spec => []NamedCoursesExist
<1>1. WorkspaceInv => NamedCoursesExist  BY DEF WorkspaceInv, CoursesInv
<1> QED BY <1>1, WorkspaceInvariant, PTL

\* A user reaches only documents that are his, public or on a public course.
THEOREM DocumentsArePrivate == Spec => []ReachIsPermitted
<1>1. WorkspaceInv => ReachIsPermitted
  <2> SUFFICES ASSUME WorkspaceInv, NEW u \in Readers, NEW d \in Reach(u)
               PROVE  d \in public \/ AuthorOf[d] = u \/ shelf[d] \in OpenScope
    BY DEF ReachIsPermitted
  <2> USE DEF WorkspaceInv, CoursesInv
  <2>1. CASE d \in Illustrated(u)  BY <2>1 DEF Illustrated, Filed, OwnShelf
  <2>2. ASSUME NEW c \in ChatsOf(u), d \in Searched(c)
        PROVE  d \in public \/ AuthorOf[d] = u \/ shelf[d] \in OpenScope
    <3>1. c \in Chats /\ OwnerOf[c] = u  BY DEF ChatsOf, OpenChats
    <3>2. CASE d \in OnShelf(link[c])
      <4>1. d \in Documents /\ link[c] # NoCourse /\ shelf[d] = link[c]  BY <3>2 DEF OnShelf, Filed
      <4>2. OwnLink(c, link[c]) /\ OwnShelf(d, link[c])  BY <3>1, <4>1
      <4> QED BY <3>1, <4>1, <4>2 DEF OwnLink, OwnShelf
    <3> QED BY <2>2, <3>2 DEF Searched
  <2>3. d \in Illustrated(u) \/ \E c \in ChatsOf(u) : d \in Searched(c)
    BY DEF Reach, Listed
  <2> QED BY <2>1, <2>2, <2>3
<1> QED BY <1>1, WorkspaceInvariant, PTL

\* The last administrator goes only when who sends the command is one no more.
THEOREM AdministratorsRemain == Spec => LastAdminFallsToARace
<1>1. WorkspaceInv /\ [Next]_vars =>
        [admins # {} /\ admins' = {} =>
           \E c \in Commands : command[c] # command'[c] /\ command[c].by \notin admins]_accounts
  <2> SUFFICES ASSUME WorkspaceInv, [Next]_vars, admins # {}, admins' = {}
               PROVE  \E c \in Commands : command[c] # command'[c] /\ command[c].by \notin admins
    OBVIOUS
  <2>1. PICK c \in Commands : RunCommand(c)
    <3>1. (\E c \in Commands : RunCommand(c)) \/ UNCHANGED admins
      BY DEF Next, vars, accounts, table, Visit, ContinueVisit, Administer, Execute, SendFile, ContinueUpload,
             OpenChat, SendMessage, DeleteChat, OpenCourse, DeleteCourse, SendDocument, DeleteDocument,
             ContinueDocument, ContinueLink, Link, Ask, ContinueTrace, SendSignal, ContinueSignal,
             ContinueRegeneration, Regenerate, Crash, BeginRegistration, CheckEmail, CheckUsername, InsertUser,
             ReadCredentials, AnswerSession, OrderCommand
    <3> QED BY <3>1
  <2>2. /\ command[c] # NoCommand /\ command[c].verb \in {"revoke", "delete"}
        /\ admins' = admins \ {command[c].to}
    BY <2>1 DEF RunCommand, SetField, table
  <2>3. command'[c] = NoCommand
    BY <2>1 DEF RunCommand, WorkspaceInv, AccountsInv, AccountsTypeOK
  <2>4. command[c].by # command[c].to
    BY <2>2 DEF WorkspaceInv, AccountsInv, NobodyOrdersHimself
  <2>5. admins \subseteq {command[c].to}  BY <2>2
  <2> QED BY <2>2, <2>3, <2>4, <2>5
<1> QED BY <1>1, WorkspaceInvariant, PTL DEF Spec, LastAdminFallsToARace

=============================================================================
