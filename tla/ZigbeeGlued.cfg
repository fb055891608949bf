CONSTANTS
  a = a  b = b  CR = CR  LF = LF
  Chars <- MCChars
  MaxLine = 2
  PollBytes = 3
  Commands <- MCCommands
  MaxRx = 0
  MaxTx = 2
SPECIFICATION Spec
CHECK_DEADLOCK FALSE
INVARIANT SentIsOneLine
