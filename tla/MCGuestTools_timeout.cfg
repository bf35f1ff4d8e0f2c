SPECIFICATION ToolsSpec
CONSTANTS
  Cap = 2
  PipeRoom = 2
  Input = 3
  MaxWritten = 2
  Drop = TRUE
  Root = TRUE
  BytesOn <- MCBytesOn
  f1 = f1
  big = big
  gone = gone
  out = out
  txt = txt
  away = away
  Files <- MCFiles
  FileClass <- MCFileClass
  ServerIds = {2, 9}
  MaxDispatches = 2
  MaxExtra = 1
PROPERTY CommandAnswered
CHECK_DEADLOCK FALSE
