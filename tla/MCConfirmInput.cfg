SPECIFICATION Spec
INVARIANT GateMatchesSpec
