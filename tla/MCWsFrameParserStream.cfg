SPECIFICATION Spec
CONSTANTS
  MaxFrames = 3
  DataKinds <- StreamDataKinds
  ControlKinds <- StreamControlKinds
  Scripts <- MCScripts
PROPERTIES
  ImplementsMessageStream
  ParseTerminates
CHECK_DEADLOCK FALSE
