SPECIFICATION Spec
CONSTANTS
  Emails = {e1}
  Names = {n1}
  Nobody = Nobody
  Calls = {c1}
  Operations = {"register"}
  MaxCalls = 1
  Attempts = 3
  MaxStalled = 1
PROPERTIES
  MailIsRetried
CHECK_DEADLOCK FALSE
