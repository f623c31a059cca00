SPECIFICATION Spec
CONSTANT Counts = {0, 2, 16}
INVARIANTS
    TypeOK
    ResumeClearsPatch
    LoadsHitTheirLiteral
    OverlayIsLoop
    MigrationExact
CHECK_DEADLOCK FALSE
