CONSTANTS
    Words <- MCWords
    Chars <- MCChars
    MaxChars = 17
    clean_token <- MCToken
    Empty = Empty
    Lower <- MCLower
    KeywordLike = {"rust", "news", "code"}
    EntityLike = {"Find", "Rust", "EU", "Eu", "UN", "US"}
    Instructions = {"find"}
    MaxKeywords = 2
    MaxEntities = 2
    MaxInputs = 3
    Queries <- MCQueries
    Settings <- MCSettings
    Dimensions <- MCDimensions
    Models <- MCModels
    Damaged <- MCDamaged
    Epsilon = 1
    NaN = NaN
SPECIFICATION Spec
INVARIANTS
    ViewsAreComplete
    EachVectorReachesItsInput
    GoodAnswersAreUsed
    FailsClosed
