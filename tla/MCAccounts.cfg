SPECIFICATION Spec
CONSTANTS
  Emails = {e1, e2}
  Names = {n1, n2}
  Nobody = Nobody
  Calls = {c1, c2}
  Operations = {"register",
                "registerWithGoogle",
                "login",
                "loginGoogle",
                "refreshToken",
                "confirmEmail",
                "resendConfirmMail",
                "sendForgotPasswordCode",
                "changePassword",
                "updateUserAgeAndGender",
                "editProfile"}
  MaxCalls = 4
  Attempts = 1
  MaxStalled = 0
SYMMETRY AccountSymmetry
INVARIANTS
  TypeOK
  RegistrationIsWhole
  UnconfirmedCanConfirm
  OnlyItsMailConfirms
  StoredTokenIsKnown
PROPERTIES
  WritesLandAtTheirUser
  ResetErasesItsCode
  CodeIsSpent
CHECK_DEADLOCK FALSE
