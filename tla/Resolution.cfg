CONSTANTS
    DB = {d1, d2}
    NoDB = none
    MaxIdentities = 2
SPECIFICATION FairSpec
INVARIANTS TypeOK IdentityDurable
PROPERTIES EventuallyResolved
