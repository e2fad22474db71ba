SPECIFICATION FairSpec
CONSTANTS
  Documents = {1, 2, 3}
  Users = {"ann", "bob"}
  Courses = {"calculus"}
  NoCourse = "none"
  NoDocument = 0
  Sources = {"notes", "slides"}
  Text <- MCText
  Pictures <- MCPictures
  SourceOf <- MCSourceOf
  CourseOf <- MCOneCourseOf
  UserOf <- MCUserOf
  OwnerOf <- MCOwnerOf
  FromChat = {2}
  IsPublic = {3}
  Faults = TRUE
INVARIANTS ReadyIsComplete NoOrphanRows LinksAreGrounded SourcesBounded IngestInv
PROPERTIES HoldersNeverMove ImplementsStore IngestionsEnd
CHECK_DEADLOCK FALSE
