SPECIFICATION Spec
CONSTANTS
    Null = Null
    Whole = 2
    Runs <- MCRuns
    Templates <- MCTemplates
    Counts = {1, 2}
    Measures <- MCMeasures
    MaxEdits = 4
INVARIANTS
    Published
    ValidatorsAgree
    PassIsBacked
PROPERTIES
    MeaningStays
CHECK_DEADLOCK FALSE
