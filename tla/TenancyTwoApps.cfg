CONSTANTS
  ann = ann
  bob = bob
  cat = cat
  op = op
  v1 = v1
  v2 = v2
  Visitor <- MCVisitor
  Operator <- MCOperator
  Person <- MCPerson
  Above <- MCAbove
  Standing = {"owner", "manager", "viewer"}
  Start <- MCStart
  Value <- MCValue
  Field = {"name", "slug"}
  First = v1
  MaxWrites = 1
  MaxCalls = 2
  Faults = {"read"}

SPECIFICATION Spec
INVARIANTS TypeOK AnswerFindsItsDialog OneWriteAtATime RefusedOnlyWhenStale
