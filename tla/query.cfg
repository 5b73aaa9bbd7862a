\* One query after another over two chunks, every mode and setting; one behaviour
\* follows one component (MCQuery.tla).  The prompt's packing and the vocabulary's
\* writers come to their end.
CONSTANTS
    Sources <- TwoSources
    RrfK = 60
    Unit <- RankUnit
    WindowCap = 50
    MaxReranked = 20
    Items = {"f", "q"}
    Qualifiers = {"q"}
    QuestionTerms = {"q"}
    NoProfile = NoProfile
    DefaultPolicy <- Default
    ProfilePolicies <- Profiled
    Contents <- ChunkTexts
    MaxScore = 2
    Settings <- QuerySettings
    RerankLimit = 1
    Assertions = {"f", "w"}
    Cases <- GoldCases
    Evidence = {1, 2, 3}
    Lengths = {0, 2, 5}
    Budgets = {0, 4, 9}
    Prefix = 1
    Catalog = {"llama", "qwen"}
    GenerationModel = "llama"
    Pulls = {1}
    Terms = {"a", "b"}
    Texts <- MCVocabularyTexts
    Threads = {1, 2}
    MaxStarts = 2
SPECIFICATION MCQuerySpec
CHECK_DEADLOCK FALSE
INVARIANTS
    FusionKeepsTheBetter
    GateSeesTheBestScore
    AskedOnlyOverSafeEvidence
    PassMeansGrounded
    BlamedStageLostTheFact
    PromptFitsBudget
    FairShare
    FailedProbeIsNews
    DrawerIsTruthful
    FeaturesKeepTheirTerm
