SPECIFICATION ExposureSpec
CONSTANTS
  Modes = {"photo", "night"}
  MaxFaults = 1
INVARIANTS
  PreviewOnlyInNight
PROPERTIES
  PhotoHasItsPair
  NightPhotoAsShown
  ServedMeansRestored
