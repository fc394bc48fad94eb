SPECIFICATION LoginFair
CONSTANTS
  p1 = p1
  Program = {p1}
  server = p1
  DB = 1
  Split = TRUE
  Typed <- AnyLine
  MaxChats = 1
  MaxRoom = 1
INVARIANTS LoginTypeOK AcceptedIsRight AnswersReachPrompts NoStandoff ChatsLoggedIn PasswordStaysPrivate NothingLeftBehind NodeIsServed
PROPERTIES ClientFollows QuitEnds DepartureIsSeen
