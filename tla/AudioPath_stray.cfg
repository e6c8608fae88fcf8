SPECIFICATION Spec
CONSTANT MaxPackets = 2
CONSTANT MaxWire = 2
CONSTANT Budget <- PathBudget
CHECK_DEADLOCK FALSE
INVARIANT NoStrayChunk
