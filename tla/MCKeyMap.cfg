SPECIFICATION Spec
INVARIANTS TypesItsLabel
