SPECIFICATION DecideSpec
CONSTANTS
    chat = chat
    decide = decide
    b1 = b1
    b2 = b2
    b3 = b3
    t1 = t1
    t2 = t2
    p1 = p1
    p2 = p2
    budget = budget
    Threads = {t1, t2}
    Others = {p1, p2}
    Procs = {t1, t2, p1, p2}
    Scenarios <- MCScenarios
    Requests <- MCRequests
    Replies <- MCReplies
    Fallbacks <- MCFallbacks
    NoThread = NoThread
    NoProc = NoProc
    Raws <- MCRaws
    First <- MCFirst
    MaxWrites = 2
    Names <- MCNames
    Daily = {budget}
    Window = 1
    LastTime = 2
    DayOf <- MCDayOf
INVARIANTS
    SameStatSameContent
    AnswersAreEarned
    SilenceIsEarned
PROPERTIES
    
    
    NeverGoesBack
    
    
CHECK_DEADLOCK FALSE
