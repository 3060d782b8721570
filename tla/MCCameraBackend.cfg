SPECIFICATION Spec
CONSTANTS
  pic = pic
  single = single
  e1 = e1
  e2 = e2
  Modes = {pic, single}
  Stitched = {pic}
  PictureMode = pic
  Encoders = {e1, e2}
  ProfileEncoder <- MCProfileEncoder
  NoEncoder = NoEncoder
  Inputs = {mic, usb}
  DefaultInput = mic
  NoDevice = NoDevice
  ValidationPolls = 2
INVARIANTS
  RecordingOwnsHardware
  RunningIsLiveUnlessLeaked
  OpenDeviceIsReported
PROPERTIES
  StopKeepsFrames
  UpdateEndsWithVerdict
  RecordingKeepsSettings
  FailureIsNoticed
