SPECIFICATION Spec
INVARIANT ExtensionsKeepSpelling
CHECK_DEADLOCK FALSE
