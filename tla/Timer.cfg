SPECIFICATION TimerSpec
CONSTANTS
    Intervals = {1, 2}
    Second = 4
    Milli = 2
    DelayRange = 8
    MaxTime = 11
    MaxChanges = 3
INVARIANTS ChannelsAccounted AnnouncedTwiceAtMost
PROPERTIES SilentOnceStopped
CHECK_DEADLOCK FALSE
