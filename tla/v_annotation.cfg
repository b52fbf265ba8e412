SPECIFICATION Spec
CONSTANTS
    Envs <- OnlyOpenShift
    Specs <- AnnotationSpecs
    MaxChurn = 1
    None = None
INVARIANTS
    SpeakerAsksForSCC
CHECK_DEADLOCK FALSE
