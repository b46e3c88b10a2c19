SPECIFICATION Spec
CONSTANTS
    b1 = b1
    b2 = b2
    w1 = w1
    w2 = w2
    w3 = w3
    NoWallet = NoWallet
    Batch = {b1, b2}
    Wallet = {w1, w2, w3}
    WalletsOf <- FourLookups
    Funder <- FunderOfW1
    Slots = 2
    MaxConsecFail = 2
INVARIANTS
    TypeOK
    FetchesBounded
    OnlyErrorsDegrade
    EntriesAreLed
    AnswersAreTrue
