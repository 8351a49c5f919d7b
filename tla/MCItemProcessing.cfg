SPECIFICATION Spec
CONSTANTS
    Alphabet <- MCAlphabet
    Schemas <- MCSchemas
    Data <- MCData
    Hints = {"WARN", "DROP", "FAIL", "ERROR", "NONE"}
INVARIANT PlansLink
INVARIANT NoSilentFieldLoss
INVARIANT DeleteIsNotSilent
INVARIANT RequiredIsNotSilentlyOmitted
INVARIANT RuleOrderIsCanonical
PROPERTY ChainTypesAreSound
PROPERTY ValidationContract
CHECK_DEADLOCK FALSE
