CONSTANTS
  Choices = 2
  Networks = 2
SPECIFICATION Spec
PROPERTIES
  NothingLeftOver
