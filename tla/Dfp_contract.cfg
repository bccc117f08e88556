\* Every package of MC_Dfp, written as a v6 and, where the layout can hold it, as a v5 container, and loaded.
CONSTANT Junk = Junk
SPECIFICATION Spec
INVARIANT DfpLoadsAsWritten
CHECK_DEADLOCK FALSE
