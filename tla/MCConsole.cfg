SPECIFICATION Spec
CONSTANTS
  COLS = 3
  ROWS = 4
  Printable = {"a", "b", "c", "$", "?", "!"}
  Newline = "newline"
  Copyright <- MCCopyright
  Banner <- MCBanner
  Prompt <- MCPrompt
  NotACommand <- MCNotACommand
  PanicText <- MCPanicText
  CenteredLengths = {1, 6}
  BLANK = BLANK
  OVERPRINT = OVERPRINT
  MaxKeys = 4
INVARIANT TypeOK
PROPERTIES
  ShowsThePaper
  PanicResets
CHECK_DEADLOCK FALSE
