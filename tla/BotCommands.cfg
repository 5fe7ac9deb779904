SPECIFICATION MCSpec
CONSTANTS
  a1 = a1
  a2 = a2
  u1 = u1
  u2 = u2
  t1 = t1
  t2 = t2
  t3 = t3
  t4 = t4
  NoTask = NoTask
  NoCaller = NoCaller
  NoName = NoName
  Callers <- MCCallers
  MayAsk <- MCMayAsk
  Users <- MCUsers
  Chats <- MCChats
  Texts <- MCTexts
  Affirmative <- Yes
  Negative <- No
  Terminal <- Ends
  Numeric <- Numbers
  Unparsable <- Half
  Labels <- Seven
  Emails <- Mail
  Right <- Seven
  MaxFailed = 1
  FirstWords <- MCFirstWords
  Commands <- MCCommands
  Hidden <- MCHidden
  Help <- HelpCmd
  Says <- MCSays
  DefaultWord <- MCDefaultWord
  DocumentedWord <- MCDocumentedWord
  Threshold = 40
  MaxTurns = 5
  HistoryTasks <- MCHistoryTasks
  MaxLists = 3
  SynonymTasks <- MCSynonymTasks
  Cmds <- MCCmds
  Visible <- MCVisible
  Words <- MCWords
  CodeSyns <- MCCodeSyns
  Askers <- MCCallers
  Uuids <- MCUuids
  Digits <- MCDigits
  Given <- MCGiven
  MaxCrashes = 1
INVARIANTS Types Reachable Registered MarkHasQuestion
  IsDistance GuessIsSafe EchoEnds HistoryIsExact AllStored
  OneCommandPerWord LinksAreKept NamesLeadBack
PROPERTIES FirstAnswerWins OrphansStay CanBeStopped DanglingStays
CHECK_DEADLOCK FALSE
