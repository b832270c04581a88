SPECIFICATION Spec
INVARIANTS TypeOK UnitUsesCurrentFiles IInv
