CONSTANTS
  Fps = 30
  TickMax = 2147483647
  Recordings <- MCRecordings
  SendLimit = 2
  AudioLimit = 2
  Preroll = 2
  Room = 3
  Step = 16667
  MaxCommands = 3
  MaxFaults = 1
SPECIFICATION Spec
INVARIANTS
  ReadBack
  DecoderFollows
  SoundFollowsPicture
  NothingLeft
PROPERTIES
  PlayEnds
