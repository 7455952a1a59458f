\* One version in two envelopes, two stores that may refuse and come back, a
\* reviewer who may also be signed in as the contributor.
SPECIFICATION ModeratedSpec
CONSTANTS
    v1 = v1
    c1 = c1
    c2 = c2
    Version = {v1}
    Contribution = {c1, c2}
    CardOf <- OneVersion
    Store = {s1, s2}
    Grants <- SomeGrants
    CanFail = {"put", "withdraw", "quarantine"}
    Person = {ann, bob}
    Reviewer = {ann}
    k1 = k1
    Case = {k1}
    About <- OneCase
CHECK_DEADLOCK FALSE
INVARIANTS WithdrawnIsRecalled DecidedByAnother EarlierCasesAreClosed
PROPERTY WithdrawalSettles
