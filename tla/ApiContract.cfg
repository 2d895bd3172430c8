SPECIFICATION Spec
CONSTANTS
    None = None
INVARIANTS
    ModelMeansSuccess
    FormIsUnderstood
