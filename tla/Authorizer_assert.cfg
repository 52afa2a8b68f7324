SPECIFICATION Spec
CONSTANTS
  Users = {u1}
  Requests = {q1}
  Resources = {"*", "db"}
  AnyResource = "*"
  Actions = {"Any", "Read"}
  Grants <- SomeGrants
  MaxPolicies = 4
INVARIANTS
  TypeOK
  AnswerWasRight
CHECK_DEADLOCK FALSE
