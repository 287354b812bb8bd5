SPECIFICATION Spec
CONSTANTS
    Users = {u1}
    CustomRoles = {c1}
    Grants <- MCGrants
    MaxChanges = 1
INVARIANTS ServedAsDocumented RemovedIsOut DeadCredentialIsOut KeyStaysInScope RightsAgree
