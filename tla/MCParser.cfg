CONSTANT Inputs <- MCInputs
SPECIFICATION Spec
INVARIANTS
    TypeOK
    WindowsNested
    AllocationBound
    GuardAdmits
    FieldsHaveExtensions
PROPERTIES
    ImplementsReference
    Progress
    Terminates
