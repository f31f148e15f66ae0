\* the session, with writes that may be cut short.
CONSTANT WriteOutcomes <- MCShortWrites
SPECIFICATION Spec
INVARIANT CommandsTakeEffect
