SPECIFICATION FairSpec
CONSTANTS
    Answers <- MCAnswers
    Window = 3
    ScanBack = 2
    ScanUser = 1
    MaxBullets = 2
    MaxIter = 3
    MaxRetries = 1
    MaxTasks = 2
    MaxItems = 11
INVARIANTS
    
    NothingForgotten
    
    AnthropicAlternates

    
CHECK_DEADLOCK FALSE
