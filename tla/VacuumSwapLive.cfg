SPECIFICATION FairSpec
CONSTANTS
    Txns = {t0, t1}
    Base = {t0}
    Writers = {w1}
PROPERTIES
    CancelBeforeSwapIsFinal
    Terminates
    ImplementsContract
