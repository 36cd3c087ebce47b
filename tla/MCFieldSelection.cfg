\* Up to three projections over two pointers, one of them the key: enough
\* for a user-provided and a generated projection to share a pointer, and
\* for two user-provided ones to share it.
CONSTANTS
    FieldNames = {f1, f2, f3}
    Ptrs = {k, a}
    KeyPtrs = {k}
    MaxProjections = 3
SPECIFICATION Spec
INVARIANTS PreselectionDeduplicatesByPointer
\* interactive_select_projections returns once the user accepts or cancels.
CHECK_DEADLOCK FALSE
