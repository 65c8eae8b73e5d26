CONSTANTS Width = 8
SPECIFICATION Spec
INVARIANT QueryExact
