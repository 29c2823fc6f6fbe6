CONSTANTS
    i1 = i1
    i2 = i2
    s1 = s1
    open = open
    join = join
    leave = leave
    shut = shut
    c1 = c1
    None = None
    Instances <- TwoInstances
    Sockets <- OneSocket
    Messages <- Life
    Kind <- KindOf
    From <- FromOf
    Wants <- WantsOf
    Calls <- OneCall
    Loads <- TwoAtATime
    Behaviours = {"garbled", "throw", "mute", "unsendable"}
    MaxCrashes = 1
SPECIFICATION Spec
INVARIANTS TypeOK AnsweredOnce NoFalseConfirmation SuccessMeansDone
PROPERTIES Consumed
CHECK_DEADLOCK FALSE
