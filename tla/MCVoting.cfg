CONSTANTS
    v1 = v1  v2 = v2  v3 = v3  v4 = v4
    b1 = b1  b2 = b2  i0 = i0
    genesis = genesis  Genesis = genesis
    Validators = {v1, v2, v3, v4}
    Faulty = 1
    NormalBlocks = {b1, b2}
    ImpeachBlocks = {i0}
    Number <- MCNumber
    Parent <- MCParent
SPECIFICATION VotingSpec
SYMMETRY Symmetry
INVARIANTS VotingInv NormalAgreement
