CONSTANTS
    Grade = {admin, member}
    Allowed = {admin}
SPECIFICATION AdmissionSpec
INVARIANT MfaTokensAdmitted
