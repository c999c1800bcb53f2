SPECIFICATION Spec
CONSTANT BITS = 8
INVARIANTS ExpectationsAgree UpdatesAgree
