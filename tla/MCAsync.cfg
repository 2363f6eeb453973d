\* Three handlers, two sending threads besides the loop's own.
CONSTANTS
    N = 3
    Thread = {t1, t2}
    Loop = loop
SPECIFICATION Spec
INVARIANT TypeOK
INVARIANT NoLostSend
INVARIANT OneOwner
INVARIANT SpinsOnOthers
INVARIANT EventfdBounded
PROPERTY ImplementsAsyncSpec
