\* The comment on the audit's status node, against the code.
SPECIFICATION Spec
CONSTANTS
  MaxTurns = 2
  MaxSockets = 1
  Length = 1
INVARIANT
  AuditResolved
