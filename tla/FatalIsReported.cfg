SPECIFICATION Spec
CONSTANTS
    Txns = {t0, t1}
    Base = {t0}
    Writers = {w1}
INVARIANT FatalIsReported
