SPECIFICATION Spec
CONSTANT Input <- Calls
INVARIANT CallsKept
