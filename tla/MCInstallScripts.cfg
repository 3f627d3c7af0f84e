SPECIFICATION Spec
CONSTANT Archives <- MCArchives
INVARIANTS RunWhenDue
