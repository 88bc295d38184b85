CONSTANT Calls <- MCCalls
SPECIFICATION Spec
INVARIANTS
    RowsAligned
    RowsIndependent
    ErrorsAreTypeErrors
    BoundCallsSucceed
