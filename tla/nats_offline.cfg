CONSTANTS
    i1 = i1
    i2 = i2
    s1 = s1
    open = open
    join = join
    leave = leave
    shut = shut
    c1 = c1
    None = None
    Instances <- OneInstance
    Sockets <- OneSocket
    Messages <- Life
    Kind <- KindOf
    From <- FromOf
    Wants <- WantsOf
    Calls <- OneCall
    Loads <- JustEvents
    Behaviours = {}
    MaxCrashes = 0
SPECIFICATION Spec
INVARIANT NotLost
CHECK_DEADLOCK FALSE
