SPECIFICATION Spec
CHECK_DEADLOCK FALSE
INVARIANTS EngineAgrees CloseIsAnswer SplitAsWhole NetmapSound
PROPERTIES EndpointKept
