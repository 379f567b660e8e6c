SPECIFICATION Spec
INVARIANTS ModeHeldInMotion LimitsHold
PROPERTIES ImplementsLock  ControlEnds StateLossEndsControl RelayEnds
