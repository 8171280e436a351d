SPECIFICATION Spec
CONSTANT SigningDisabled = FALSE
INVARIANT AdmissionStaysClosed
CHECK_DEADLOCK FALSE
