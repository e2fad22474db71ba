SPECIFICATION Spec
CONSTANTS
  Documents = {1, 2}
  Users = {"ann"}
  Courses = {"calculus", "chat"}
  NoCourse = "none"
  NoDocument = 0
  Sources = {"notes", "slides"}
  Text <- MCText
  Pictures <- MCPictures
  SourceOf <- MCSourceOf
  CourseOf <- MCCourseOf
  UserOf <- MCUserOf
  OwnerOf <- MCOwnerOf
  FromChat = {2}
  IsPublic = {}
  Faults = FALSE
INVARIANTS AttachmentsParticipate
CHECK_DEADLOCK FALSE
