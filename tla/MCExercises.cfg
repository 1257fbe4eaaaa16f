SPECIFICATION Spec
CONSTANTS
    Buses <- TwoBuses
    BlockLength = 512
    Lbas <- FourBlocks
    MaxRuns = 4
    MaxUnread = 3
    Plugged <- ThreeLists
    Apps = {app1, app2}
    MaxLoads = 2
    Slots <- TwoSlots
    LastFunction = 2
    Cards <- ThreeMachines
INVARIANTS TypeOK OverwritesOnOwnAnswers FaultlessRunWrites FlashLeavesNothing
    MouseReleasesAll TextsAsAsked FilesHaveTheirModule SettingsOffAtEnd
    
CHECK_DEADLOCK FALSE
