CONSTANT Documents <- MCDocuments
SPECIFICATION Spec
PROPERTY ReadsBack
CHECK_DEADLOCK FALSE
