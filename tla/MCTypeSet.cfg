\* Every Set reachable from INVALID by |, &, ! and for_value over all seven
\* types, in a 16-bit word (TLC integers are 32-bit signed; 16 bits leave
\* nine unused high bits for the complement to set).
CONSTANT Width = 16
SPECIFICATION Spec
INVARIANT MatchesSetSemantics
INVARIANT QueriesMatchSetSemantics
