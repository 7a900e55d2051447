CONSTANTS
    DB = {d1}
    NoDB = none
    MaxIdentities = 1
SPECIFICATION FairSpec
PROPERTIES TornIdentityReplaced
