SPECIFICATION Spec
CONSTANTS
    None = None
    Signups = {s1, s2, s3}
    Labels = {l1, l2}
    Codes = {i1}
    Open = FALSE
    MaxUses = 2
    MaxAdmin = 2
    Envs <- MCEnvs
SYMMETRY Symmetry
INVARIANTS
    OneAccountPerHost
    InvitesConserved
    LabelsNameAccounts
CHECK_DEADLOCK FALSE
