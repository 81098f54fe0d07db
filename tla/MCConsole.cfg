SPECIFICATION ConsoleSpec
CONSTANTS
    t1 = t1
    t2 = t2
    k1 = k1
    k2 = k2
    rename = rename
    web = web
    other = other
    Nil = Nil
    Threads <- MCThreads
    Turns <- MCTurns
    Writers <- MCWriters
    Clients <- MCClients
    Renamer = rename
    Web = web
    Follower = other
    MaxConns = 2
    MaxEvents = 8
    Scenes <- MCScenes
INVARIANTS
    ViewIsPrefix
    NoneMissed
    DecidedAsShown
CHECK_DEADLOCK FALSE
