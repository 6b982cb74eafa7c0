CONSTANTS
    Printers = {t1}
    Guards = {g1, g2}
    None = none
SPECIFICATION Spec
INVARIANTS
    OnKeepsOther
