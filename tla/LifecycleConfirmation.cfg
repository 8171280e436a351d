SPECIFICATION Spec
CONSTANT SigningDisabled = FALSE
INVARIANT ConfirmationVisible
CHECK_DEADLOCK FALSE
