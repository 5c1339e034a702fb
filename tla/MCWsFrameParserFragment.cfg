SPECIFICATION Spec
CONSTANTS
  MaxFrames = 2
  DataKinds <- FragmentKinds
  ControlKinds = {}
  Scripts <- MCScripts
INVARIANT
  ContentUnmasked
CHECK_DEADLOCK FALSE
