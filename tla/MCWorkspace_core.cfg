SPECIFICATION Spec
CONSTANTS
  Founders = {"root", "ann"}
  Registrations = {"bob", "bob2"}
  Logins = {"back"}
  Commands = {c1, c2}
  EmailOf <- MCEmailOf
  NameOf <- MCNameOf
  NoUser = "nobody"
  Uploads = {"text1", "text2", "image"}
  Workers = {"w1", "w2"}
  Contents = {"bytes"}
  ContentOf <- MCContentOf
  Compress <- MCCompress
  WorkerOf <- MCWorkerOf
  Chats = {"chat", "talk"}
  Regenerations = {g1, g2}
  Window = 2
  MaxMessages = 3
  NoChat = "no chat"
  UploaderOf <- MCUploaderOf
  OwnerOf <- MCOwnerOf
  Courses = {"hers", "his", "open"}
  OldCourses = {"his", "open"}
  NoCourse = "none"
  TeacherOf <- MCTeacherOf
  OpenScope = {"open"}
  Documents = {"notes", "script"}
  AuthorOf <- MCAuthorOf
  Links = {"link"}
  Traces = {"root", "ann"}
  AskerOf <- MCAskerOf
  Signals = {"like"}
  SenderOf <- MCSenderOf
  NoTrace = "none"
  MaxRequests = 3
INVARIANTS RowHasItsPath WholeUnlessTorn MapCoversItsChat OwnersExist ReachIsPermitted WorkspaceInv
PROPERTY LastAdminFallsToARace
SYMMETRY MCAlike
CHECK_DEADLOCK FALSE
