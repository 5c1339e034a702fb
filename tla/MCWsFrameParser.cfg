SPECIFICATION Spec
CONSTANTS
  MaxFrames = 3
  DataKinds <- AllDataKinds
  ControlKinds <- AllControlKinds
  Scripts <- MCScripts
INVARIANTS
  TypeOK
  StepAsserts
  KindIsFresh
  MessageAsserts
  WholeMessagesDelivered
  AlignedContentUnmasked
CHECK_DEADLOCK FALSE
