\* Two sockets and the handler of the program's own code. A batch of two has a
\* second event to meet what the first one's callbacks did; three numbers leave
\* one over, so that a number is given again or is not. Two datagrams are the
\* fewest of which one may be left behind, and one may wait in each socket. Two
\* buffers fill the array and leave one to a waiter. The proofs cover epoll_ctl's
\* failures too, which here make the states half as many again.
CONSTANTS
    Object = {s, t}
    App = app
    Nil = nil
    Fd = {1, 2, 3}
    MaxEvents = 2
    Faults = {"alloc_cb", "malloc", "recvmsg"}
    Buffers = 2
    Room = 1
    Readers = 1
    Load = 2
SPECIFICATION Spec
INVARIANT NothingWaitsUnseen
INVARIANT ClosedIsQuiet
INVARIANT DescriptorsMatch
INVARIANT BuffersAccounted
PROPERTY EverythingRead
\* A loop that is closed stops.
CHECK_DEADLOCK FALSE
