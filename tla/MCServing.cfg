SPECIFICATION Spec
CONSTANTS
    analyst = analyst
    approver = approver
    ann = ann
    bank = bank
    c1 = c1
    Persona = {analyst, approver}
    DefaultPersona = analyst
    Subject = {ann}
    Tenant = {bank}
    Call <- OneCall
    Environments <- MCEnvironments
    Shells <- MCShells
    Files <- MCFiles
    Callers <- MCCallers
INVARIANTS
    TypeOK
    PrincipalIsEarned
    StrangersAreVerified
    ConsentIsNeeded
    EmptiedIsNotUnset
    HandOffIsConfigured
    UnavailableToAll
CHECK_DEADLOCK FALSE
