CONSTANTS
    c1 = c1
    c2 = c2
    c3 = c3
    p1 = p1
    e1 = e1
    e2 = e2
    asked = asked
    rewritten = rewritten
    Rows <- MCRows
    Group <- MCGroup
    Entities = {e1, e2}
    Mentions <- MCMentions
    Related <- MCRelated
    Queries = {asked, rewritten}
    Asked = asked
    Rel <- MCRel
    Sim <- MCSim
    K = 10
    TopK = 2
    MaxSubs = 2
    RerankTop = 2
    MmrTop = 3
    MmrFast = 2
    FinalTop = 2
    Lambda = 7
SPECIFICATION FairSpec
\* Hold too on this instance: TypeOK, IInv, PromotionNeverHurts.
INVARIANTS
    DominantComesFirst
    FullAnswer
    BestFirst
PROPERTIES
    SearchFinishes
CHECK_DEADLOCK FALSE
