\* One session that is stopped and one after it.
SPECIFICATION WatchSpec
CONSTANTS
    b1 = b1
    b2 = b2
    f1 = f1
    f2 = f2
    Stop = Stop
    Books <- MCBooks
    Flushes <- MCFlushes
    MaxStarts = 2
    MaxEvents = 3
INVARIANTS WatchTypeOK SentOncePerEvent
PROPERTIES NewBooksAnswered
CHECK_DEADLOCK FALSE
