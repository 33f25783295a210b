SPECIFICATION Spec
INVARIANTS ClientKeepsUp LastWordStands
CHECK_DEADLOCK FALSE
