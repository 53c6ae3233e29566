SPECIFICATION FairSpec
CONSTANTS
    Turns = {t1, t2, t3}
    Streamed = {t3}
    Rewriters = {r1}
    MaxMessages = 4
    ShortChat = 2
    MaxCrashes = 1
\* Hold too on this instance: IInv, TypeOK, DeletedStaysDeleted, QuestionEnds.
INVARIANTS
    CountsAgree
    AnswerFollowsQuestion
    SaidOnce
    LostOnlyByRewrite
PROPERTIES
    Implements
CHECK_DEADLOCK FALSE
