\* the session, with every write outcome.
CONSTANT WriteOutcomes <- MCAllWrites
SPECIFICATION Spec
INVARIANTS Released NoDoubleFree
