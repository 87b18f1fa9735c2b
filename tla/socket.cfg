SPECIFICATION SocketSpec
CONSTANTS
  MaxWord = 2
  Magic = 2
  Codes = {0}
  Alphabet = {1, 2}
  MaxFrames = 2
  Deadlines = TRUE
INVARIANTS FramesIntact Aligned FlushedIsReadable
CHECK_DEADLOCK FALSE
