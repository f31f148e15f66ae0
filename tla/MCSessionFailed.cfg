\* the session, with writes that may fail.
CONSTANT WriteOutcomes <- MCFailedWrites
SPECIFICATION Spec
INVARIANT RunningConfigured
