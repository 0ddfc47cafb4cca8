\* A file that needs two reads, or comes in two pieces.
SPECIFICATION FairSpec
CONSTANTS
  Loops = 2
  BufSize = 2
  FileSizes = {0, 2, 3}
  OutSizes = {0, 1, 3}
  Timeout = 2
PROPERTIES
  EveryUploadReceived
\* The client ends, or the server waits for bytes that never come.
CHECK_DEADLOCK FALSE
