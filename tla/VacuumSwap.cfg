SPECIFICATION Spec
CONSTANTS
    Txns = {t0, t1}
    Base = {t0}
    Writers = {w1, w2}
SYMMETRY Interchangeable
INVARIANTS
    TypeOK
    BackupCoversUnverified
    NoLostCommit
    CanonicalWhole
    ForeignTargetKept
    SuccessKeepsPromisedFiles
