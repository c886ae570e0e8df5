SPECIFICATION FairSpec
CONSTANTS
    Session = {s1, s2, s3}
    Caller = {c1, c2}
    None = None
    LostReplies = 1
INVARIANTS
    DeletedMeansGone
PROPERTIES
    StartSparesUnfinishedLevel
    OverIsOver
    CallsReturn
    LevelsRunTheirCourse
