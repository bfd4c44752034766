SPECIFICATION Spec
CONSTANTS
    Message = {126}
    Damage <- MCDamage
    MaxLen = 16
INVARIANTS BurstDetected Residue IsRemainder
CHECK_DEADLOCK FALSE
