----------------------------- MODULE UdpProofs ------------------------------
(***************************************************************************)
(* Proofs about Udp, for any sockets, descriptor numbers, batches, buffers *)
(* and failures: descriptors and buffers are accounted for, the closed are *)
(* quiet, and the loop never waits while something it should hear of is    *)
(* unread.                                                                 *)
(***************************************************************************)
EXTENDS Udp, WellFoundedInduction, TLAPS

Places == {"user", "register", "wait", "dispatch", "stopped", "app", "alloc", "recvmsg", "recover"}

LoopTypes ==
    /\ mon \subseteq Handler
    /\ reg \subseteq Fd
    /\ closed \in BOOLEAN
    /\ pc \in Places
    /\ self \in Handler \cup {Nil}
    /\ batch \subseteq Handler

KernelTypes ==
    /\ key \in [Handler -> Fd \cup {Nil}]
    /\ file \in [Fd -> Handler \cup {Nil}]
    /\ interest \in [Fd -> Handler \cup {Nil}]
    /\ ready \subseteq Fd
    /\ data \in [Handler -> Nat]

SocketTypes ==
    /\ life \in [Object -> {"new", "open", "receiving", "closed", "kept"}]
    /\ bound \subseteq Object
    /\ left \in Nat

BufferTypes ==
    /\ held \in BOOLEAN /\ chanClosed \in BOOLEAN
    /\ free \in Nat /\ queued \in Nat /\ leftover \in Nat
    /\ asking \in Nat /\ handed \in Nat
    /\ lost \in Nat /\ dropped \in Nat

(* Who has a descriptor, and who listens to it or may come to.             *)
Has(i) == i = App \/ life[i] \in {"open", "receiving", "kept"}

Hears(i) == i = App \/ life[i] \in {"open", "receiving"}

(* Numbers and handlers that have one are in one-to-one correspondence.    *)
Numbers ==
    /\ \A i \in Handler : Has(i) => key[i] \in Fd /\ file[key[i]] = i
    /\ \A k \in Fd : file[k] # Nil => Has(file[k]) /\ key[file[k]] = k
    /\ mon = {App} \cup {s \in Object : life[s] = "receiving"}
    /\ \A s \in bound : life[s] \in {"open", "receiving"}

(* epoll keeps the addresses of handlers in mon only.                      *)
Registered ==
    /\ \A k \in Fd : interest[k] # Nil => interest[k] \in mon /\ key[interest[k]] = k
    /\ \A k \in ready : interest[k] # Nil

(* Whom the loop serves, and will serve in this batch: handlers that are   *)
(* in mon, or were when the batch began and have still their old number.   *)
Served ==
    /\ pc \in {"alloc", "recvmsg"} => self \in Object
    /\ pc \in {"user", "register", "wait", "dispatch", "stopped"} => self = Nil
    /\ pc \in {"user", "register", "wait", "stopped"} => batch = {}
    /\ \A i \in ended : i \in Handler /\ key[i] \in Fd
    /\ batch \cup {self} \subseteq mon \cup ended \cup {Nil}

(* A number in reg is its handler's, unless it was in reg before or        *)
(* epoll_ctl failed.  Between Register and the wait all of mon is in reg   *)
(* but those without memory for their marks.  What is unread in a          *)
(* registered socket is in sight: epoll will report it, its event is in    *)
(* the batch, or its callback has not come to the end.                     *)
InSight(i) ==
    \/ key[i] \in ready
    \/ i \in batch
    \/ i = self /\ pc \in {"alloc", "recvmsg"}
    \/ i \in starved

Heard ==
    ~closed =>
        /\ \A i \in Handler :
               Hears(i) /\ key[i] \in reg => interest[key[i]] = i \/ i \in unheard
        /\ pc = "wait" => \A i \in mon : key[i] \in reg \/ i \in denied
        /\ \A i \in mon : interest[key[i]] = i /\ data[i] > 0 => InSight(i)

HeldInRecvmsg == held <=> pc = "recvmsg"

IInv ==
    /\ LoopTypes /\ KernelTypes /\ SocketTypes /\ BufferTypes
    /\ Numbers /\ Registered /\ Served /\ Heard
    /\ HeldInRecvmsg /\ BuffersAccounted

-----------------------------------------------------------------------------
(* LowestOf gives a member of its set.                                     *)
LEMMA LowestIsMember ==
  ASSUME NEW S \in SUBSET Nat, S # {}
  PROVE  LowestOf(S) \in S
<1>1. \E x \in S : \A y \in S : ~ (<<y, x>> \in OpToRel(<, Nat))
  BY NatLessThanWellFounded, WFMin
<1>2. PICK x \in S : \A y \in S : ~ (<<y, x>> \in OpToRel(<, Nat))
  BY <1>1
<1>3. ASSUME NEW y \in S PROVE x <= y
  <2>1. <<y, x>> \notin OpToRel(<, Nat)
    BY <1>2, <1>3
  <2>2. ~ (y < x)
    BY <2>1 DEF OpToRel
  <2> QED
    BY <2>2
<1> QED
  BY <1>2, <1>3 DEF LowestOf

(* A push takes the receive loop's buffer and leaves it in one place.      *)
LEMMA PushAccounts ==
    BufferTypes /\ BuffersAccounted /\ held /\ Push
        => BufferTypes' /\ BuffersAccounted' /\ held' = FALSE
<1> SUFFICES ASSUME BufferTypes, BuffersAccounted, held, Push
             PROVE  BufferTypes' /\ BuffersAccounted' /\ held' = FALSE
  OBVIOUS
<1> USE UdpAssumption
<1>h. held' = FALSE /\ chanClosed' = chanClosed
  BY DEF Push
<1>b. held' \in BOOLEAN
  BY <1>h, Zenon
<1>s. free + 1 + queued + leftover + handed + lost + dropped = Buffers
  BY DEF BufferTypes, BuffersAccounted
<1>1. /\ free' + queued' + leftover' + handed' + lost' + dropped' = Buffers
      /\ free' \in Nat /\ queued' \in Nat /\ leftover' \in Nat
      /\ asking' \in Nat /\ handed' \in Nat /\ lost' \in Nat /\ dropped' \in Nat
  <2> USE <1>s DEF BufferTypes
  <2>1. CASE chanClosed /\ lost' = lost + 1 /\ UNCHANGED <<free, queued, leftover, asking, handed, dropped>>
    BY <2>1
  <2>2. CASE PushToReader /\ UNCHANGED <<free, queued, lost>>
    BY <2>2 DEF PushToReader, LeftToWriters
  <2>3. CASE PushToQueue /\ UNCHANGED <<free, leftover, asking, handed, lost, dropped>>
    BY <2>3 DEF PushToQueue
  <2>4. CASE LeftToWriters /\ UNCHANGED <<free, queued, asking, handed, lost>>
    BY <2>4 DEF LeftToWriters
  <2> QED
    BY <2>1, <2>2, <2>3, <2>4 DEF Push
<1>2. /\ lost' > 0 => chanClosed'
      /\ chanClosed' => leftover' = 0 /\ asking' = 0
      /\ queued' <= Room
  BY <1>h DEF Push, PushToReader, PushToQueue, BufferTypes, BuffersAccounted
<1>3. dropped' > 0 => "malloc" \in Faults
  BY DEF Push, PushToReader, PushToQueue, LeftToWriters, BuffersAccounted
<1>4. BufferTypes'
  BY <1>b, <1>h, <1>1 DEF BufferTypes
<1>5. free' + (IF held' THEN 1 ELSE 0) + queued' + leftover' + handed' + lost' + dropped' = Buffers
  <2>1. ~ held'
    BY <1>h, Zenon
  <2> QED
    BY ONLY <1>1, <2>1
<1> QED
  BY <1>h, <1>2, <1>3, <1>4, <1>5 DEF BuffersAccounted

(* The invariant holds when the program starts ...                         *)
LEMMA Initially == Init => IInv
<1> SUFFICES ASSUME Init PROVE IInv
  OBVIOUS
<1>1. LowestOf(Fd) \in Fd
  BY IoAssumption, LowestIsMember
<1> USE IoAssumption, UdpAssumption, <1>1 DEF Init, IoInit, Handler
<1>2. LoopTypes /\ KernelTypes /\ SocketTypes /\ BufferTypes
  BY DEF LoopTypes, KernelTypes, SocketTypes, BufferTypes, Places
<1>3. Numbers /\ Registered /\ Served /\ Heard
  BY DEF Numbers, Registered, Served, Heard, Has, Hears, InSight
<1>4. HeldInRecvmsg /\ BuffersAccounted
  BY DEF HeldInRecvmsg, BuffersAccounted
<1> QED
  BY <1>2, <1>3, <1>4 DEF IInv

(* ... and through every step of the program, the loop and the kernel.     *)
LEMMA Preserved == IInv /\ [Next]_vars => IInv'
<1> SUFFICES ASSUME IInv, [Next]_vars PROVE IInv'
  OBVIOUS
<1> USE IoAssumption, UdpAssumption
    DEF IInv, Handler, vars, iovars, loopvars, kernel, history, sockets, buffers, chan
<1>1. ASSUME NEW s \in Object, Open(s)
      PROVE  IInv'
  <2> DEFINE k == LowestOf(Free)
  <2>k. k \in Fd /\ file[k] = Nil
    <3>1. Free # {} /\ Free \in SUBSET Nat
      BY <1>1 DEF Open, Socket, Free
    <3> QED
      BY <3>1, LowestIsMember DEF Free
  <2>n. /\ life[s] = "new"
        /\ key' = [key EXCEPT ![s] = k]
        /\ file' = [file EXCEPT ![k] = s]
        /\ unheard' = IF k \in reg THEN unheard \cup {s} ELSE unheard
        /\ life' = [life EXCEPT ![s] = "open"]
        /\ UNCHANGED <<loopvars, interest, ready, data, denied, ended, bound, left, buffers, starved>>
    BY <1>1 DEF Open, Socket
  <2> HIDE DEF k
  <2>1. LoopTypes'
    BY <2>k, <2>n DEF LoopTypes, Places
  <2>2. KernelTypes'
    BY <2>k, <2>n DEF KernelTypes, LoopTypes
  <2>3. SocketTypes' /\ BufferTypes'
    BY <2>k, <2>n DEF SocketTypes, BufferTypes
  <2>4. Numbers'
    BY <2>k, <2>n DEF LoopTypes, KernelTypes, SocketTypes, Numbers, Has
  <2>5. Registered'
    BY <2>k, <2>n DEF LoopTypes, KernelTypes, SocketTypes, Numbers, Has,
       Registered
  <2>6. Served'
    BY <2>k, <2>n DEF LoopTypes, Served
  <2>7. Heard'
    BY <2>k, <2>n DEF LoopTypes, KernelTypes, SocketTypes, Numbers, Has,
       Registered, Served, Heard, Hears, InSight
  <2>8. HeldInRecvmsg' /\ BuffersAccounted'
    BY <2>k, <2>n DEF BufferTypes, HeldInRecvmsg, BuffersAccounted,
       LoopTypes
  <2> QED
    BY <2>1, <2>2, <2>3, <2>4, <2>5, <2>6, <2>7, <2>8
<1>2. ASSUME NEW s \in Object, Bind(s)
      PROVE  IInv'
  <2>1. LoopTypes' /\ KernelTypes' /\ SocketTypes' /\ BufferTypes'
    BY <1>2 DEF Bind, InUserCode, LoopTypes, Places, KernelTypes, SocketTypes,
       BufferTypes
  <2>2. Numbers' /\ Registered' /\ Served'
    BY <1>2 DEF Bind, InUserCode, LoopTypes, KernelTypes, SocketTypes, Numbers,
       Has, Registered, Served
  <2>3. Heard'
    BY <1>2 DEF Bind, InUserCode, LoopTypes, KernelTypes, SocketTypes, Numbers,
       Has, Registered, Served, Heard, Hears, InSight
  <2>4. HeldInRecvmsg' /\ BuffersAccounted'
    BY <1>2 DEF Bind, InUserCode, BufferTypes, HeldInRecvmsg, BuffersAccounted,
       LoopTypes
  <2> QED
    BY <2>1, <2>2, <2>3, <2>4
<1>3. ASSUME NEW s \in Object, Receive(s)
      PROVE  IInv'
  <2>m. mon' = mon \cup {s}
    BY <1>3 DEF Receive, IoStart, Monitored, Numbers, Has, LoopTypes
  <2>1. LoopTypes' /\ KernelTypes' /\ SocketTypes' /\ BufferTypes'
    BY <1>3 DEF Receive, IoStart, InUserCode, LoopTypes, Places, KernelTypes,
       SocketTypes, BufferTypes
  <2>2. Numbers'
    BY <1>3, <2>m DEF Receive, LoopTypes, KernelTypes, SocketTypes, Numbers, Has
  <2>3. Registered'
    BY <1>3 DEF Receive, IoStart, InUserCode, LoopTypes, KernelTypes,
       SocketTypes, Numbers, Has, Registered
  <2>4. Served'
    BY <1>3 DEF Receive, IoStart, InUserCode, LoopTypes, Served
  <2>5. Heard'
    <3>1. /\ pc # "wait" /\ life[s] = "open" /\ s \notin mon
          /\ life' = [life EXCEPT ![s] = "receiving"]
          /\ UNCHANGED <<key, reg, closed, pc, self, batch, kernel, history, starved>>
      BY <1>3 DEF Receive, InUserCode, Numbers, SocketTypes
    <3>2. \A i \in Handler : Hears(i)' => Hears(i)
      BY <3>1 DEF Hears, SocketTypes
    <3>3. interest[key[s]] # s
      BY <3>1 DEF Registered, Numbers, Has
    <3>4. \A i \in mon' : interest[key[i]] = i => i \in mon
      BY <2>m, <3>3
    <3> QED
      BY <3>1, <3>2, <3>4 DEF Heard, InSight
  <2>6. HeldInRecvmsg' /\ BuffersAccounted'
    BY <1>3 DEF Receive, IoStart, InUserCode, BufferTypes, HeldInRecvmsg,
       BuffersAccounted, LoopTypes
  <2> QED
    BY <2>1, <2>2, <2>3, <2>4, <2>5, <2>6
<1>4. ASSUME NEW s \in Object, Close(s)
      PROVE  IInv'
  <2> DEFINE k == key[s]
  <2>k. k \in Fd /\ file[k] = s /\ (Monitored(s) <=> life[s] = "receiving")
    BY <1>4 DEF Close, Monitored, Numbers, Has
  <2>n. /\ life[s] \in {"open", "receiving"}
        /\ pc \in {"user", "app", "alloc", "recover"}
        /\ life' = [life EXCEPT ![s] = IF life[s] = "receiving" THEN "closed" ELSE "kept"]
        /\ bound' = bound \ {s}
        /\ UNCHANGED <<key, reg, closed, pc, self, batch, unheard, denied, left, buffers, starved>>
    BY <1>4 DEF Close, InUserCode, SocketTypes
  <2>o. CASE life[s] = "open"
    <3>1. UNCHANGED <<mon, ended, kernel>>
      BY <1>4, <2>k, <2>o DEF Close, IoStop
    <3>2. LoopTypes' /\ KernelTypes' /\ SocketTypes' /\ BufferTypes'
      BY <2>n, <3>1 DEF LoopTypes, Places, KernelTypes, SocketTypes, BufferTypes
    <3>3. Numbers'
      BY <2>n, <2>o, <3>1 DEF Numbers, Has, SocketTypes
    <3>4. Registered' /\ Served'
      BY <2>n, <3>1 DEF Registered, Served
    <3>5. Heard'
      BY <2>n, <2>o, <3>1 DEF Heard, Hears, InSight, SocketTypes
    <3>6. HeldInRecvmsg' /\ BuffersAccounted'
      BY <2>n DEF HeldInRecvmsg, BuffersAccounted
    <3> QED
      BY <3>2, <3>3, <3>4, <3>5, <3>6
  <2>r. CASE life[s] = "receiving"
    <3>1. /\ mon' = mon \ {s}
          /\ file' = [file EXCEPT ![k] = Nil]
          /\ interest' = [interest EXCEPT ![k] = Nil]
          /\ ready' = ready \ {k}
          /\ data' = [i \in Handler |-> IF i = s THEN 0 ELSE data[i]]
          /\ ended' = ended \cup {s}
      BY <1>4, <2>k, <2>r DEF Close, IoStop, CloseFd
    <3> HIDE DEF k
    <3>2. LoopTypes' /\ KernelTypes' /\ SocketTypes' /\ BufferTypes'
      BY <2>k, <2>n, <3>1 DEF LoopTypes, Places, KernelTypes, SocketTypes, BufferTypes
    <3>3. Numbers'
      BY <2>k, <2>n, <2>r, <3>1 DEF Numbers, Has, SocketTypes, KernelTypes, k
    <3>4. Registered'
      BY <2>k, <2>n, <3>1 DEF Registered, KernelTypes, k
    <3>5. Served'
      BY <2>k, <2>n, <3>1 DEF Served, k
    <3>6. Heard'
      BY <2>k, <2>n, <2>r, <3>1 DEF Heard, Hears, InSight, Numbers, Has, SocketTypes, KernelTypes, k
    <3>7. HeldInRecvmsg' /\ BuffersAccounted'
      BY <2>n DEF HeldInRecvmsg, BuffersAccounted
    <3> QED
      BY <3>2, <3>3, <3>4, <3>5, <3>6, <3>7
  <2> QED
    BY <2>n, <2>o, <2>r
<1>5. ASSUME CloseChan
      PROVE  IInv'
  <2>1. LoopTypes' /\ KernelTypes' /\ SocketTypes' /\ BufferTypes'
    BY <1>5 DEF CloseChan, InUserCode, LoopTypes, Places, KernelTypes,
       SocketTypes, BufferTypes
  <2>2. Numbers' /\ Registered' /\ Served'
    BY <1>5 DEF CloseChan, InUserCode, LoopTypes, KernelTypes, SocketTypes,
       Numbers, Has, Registered, Served
  <2>3. Heard'
    BY <1>5 DEF CloseChan, InUserCode, LoopTypes, KernelTypes, SocketTypes,
       Numbers, Has, Registered, Served, Heard, Hears, InSight
  <2>4. HeldInRecvmsg' /\ BuffersAccounted'
    BY <1>5 DEF CloseChan, InUserCode, BufferTypes, HeldInRecvmsg,
       BuffersAccounted, LoopTypes
  <2> QED
    BY <2>1, <2>2, <2>3, <2>4
<1>6. ASSUME CloseLoop
      PROVE  IInv'
  <2>1. LoopTypes' /\ KernelTypes' /\ SocketTypes' /\ BufferTypes'
    BY <1>6 DEF CloseLoop, EloopClose, InUserCode, LoopTypes, Places,
       KernelTypes, SocketTypes, BufferTypes
  <2>2. Numbers' /\ Registered' /\ Served'
    BY <1>6 DEF CloseLoop, EloopClose, InUserCode, LoopTypes, KernelTypes,
       SocketTypes, Numbers, Has, Registered, Served
  <2>3. Heard'
    BY <1>6 DEF CloseLoop, EloopClose, InUserCode, LoopTypes, KernelTypes,
       SocketTypes, Numbers, Has, Registered, Served, Heard, Hears, InSight
  <2>4. HeldInRecvmsg' /\ BuffersAccounted'
    BY <1>6 DEF CloseLoop, EloopClose, InUserCode, BufferTypes, HeldInRecvmsg,
       BuffersAccounted, LoopTypes
  <2> QED
    BY <2>1, <2>2, <2>3, <2>4
<1>7. ASSUME Pop
      PROVE  IInv'
  <2>1. LoopTypes' /\ KernelTypes' /\ SocketTypes' /\ BufferTypes'
    BY <1>7 DEF Pop, LoopTypes, Places, KernelTypes, SocketTypes,
       BufferTypes
  <2>2. Numbers' /\ Registered' /\ Served'
    BY <1>7 DEF Pop, LoopTypes, KernelTypes, SocketTypes, Numbers, Has,
       Registered, Served
  <2>3. Heard'
    BY <1>7 DEF Pop, LoopTypes, KernelTypes, SocketTypes, Numbers, Has,
       Registered, Served, Heard, Hears, InSight
  <2>4. HeldInRecvmsg' /\ BuffersAccounted'
    BY <1>7 DEF Pop, BufferTypes, HeldInRecvmsg, BuffersAccounted, LoopTypes
  <2> QED
    BY <2>1, <2>2, <2>3, <2>4
<1>7r. ASSUME PopResumes
      PROVE  IInv'
  <2>1. LoopTypes' /\ KernelTypes' /\ SocketTypes' /\ BufferTypes'
    BY <1>7r DEF PopResumes, LoopTypes, Places, KernelTypes, SocketTypes,
       BufferTypes
  <2>2. Numbers' /\ Registered' /\ Served'
    BY <1>7r DEF PopResumes, LoopTypes, KernelTypes, SocketTypes, Numbers, Has,
       Registered, Served
  <2>3. Heard'
    BY <1>7r DEF PopResumes, LoopTypes, KernelTypes, SocketTypes, Numbers, Has,
       Registered, Served, Heard, Hears, InSight
  <2>4. HeldInRecvmsg' /\ BuffersAccounted'
    BY <1>7r DEF PopResumes, BufferTypes, HeldInRecvmsg, BuffersAccounted, LoopTypes
  <2> QED
    BY <2>1, <2>2, <2>3, <2>4
<1>8. ASSUME UdpCallback
      PROVE  IInv'
  <2>1. LoopTypes' /\ KernelTypes' /\ SocketTypes' /\ BufferTypes'
    BY <1>8 DEF UdpCallback, Dispatch, LoopTypes, Places, KernelTypes,
       SocketTypes, BufferTypes
  <2>2. Numbers' /\ Registered'
    BY <1>8 DEF UdpCallback, Dispatch, LoopTypes, KernelTypes, SocketTypes,
       Numbers, Has, Registered
  <2>3. Served'
    BY <1>8 DEF UdpCallback, Dispatch, LoopTypes, Served
  <2>4. Heard'
    BY <1>8 DEF UdpCallback, Dispatch, LoopTypes, KernelTypes, SocketTypes,
       Numbers, Has, Registered, Served, Heard, Hears, InSight
  <2>5. HeldInRecvmsg' /\ BuffersAccounted'
    BY <1>8 DEF UdpCallback, Dispatch, BufferTypes, HeldInRecvmsg,
       BuffersAccounted, LoopTypes
  <2> QED
    BY <2>1, <2>2, <2>3, <2>4, <2>5
<1>9. ASSUME AppCallback
      PROVE  IInv'
  <2>1. LoopTypes' /\ KernelTypes' /\ SocketTypes' /\ BufferTypes'
    BY <1>9 DEF AppCallback, Dispatch, LoopTypes, Places, KernelTypes,
       SocketTypes, BufferTypes
  <2>2. Numbers' /\ Registered'
    BY <1>9 DEF AppCallback, Dispatch, LoopTypes, KernelTypes, SocketTypes,
       Numbers, Has, Registered
  <2>3. Served'
    BY <1>9 DEF AppCallback, Dispatch, LoopTypes, Served
  <2>4. Heard'
    BY <1>9 DEF AppCallback, Dispatch, LoopTypes, KernelTypes, SocketTypes,
       Numbers, Has, Registered, Served, Heard, Hears, InSight
  <2>5. HeldInRecvmsg' /\ BuffersAccounted'
    BY <1>9 DEF AppCallback, Dispatch, BufferTypes, HeldInRecvmsg,
       BuffersAccounted, LoopTypes
  <2> QED
    BY <2>1, <2>2, <2>3, <2>4, <2>5
<1>10. ASSUME UserReturns
      PROVE  IInv'
  <2>1. LoopTypes' /\ KernelTypes' /\ SocketTypes' /\ BufferTypes'
    BY <1>10 DEF UserReturns, LoopTypes, Places, KernelTypes, SocketTypes,
       BufferTypes
  <2>2. Numbers' /\ Registered' /\ Served'
    BY <1>10 DEF UserReturns, LoopTypes, KernelTypes, SocketTypes, Numbers, Has,
       Registered, Served
  <2>3. Heard'
    BY <1>10 DEF UserReturns, LoopTypes, KernelTypes, SocketTypes, Numbers, Has,
       Registered, Served, Heard, Hears, InSight
  <2>4. HeldInRecvmsg' /\ BuffersAccounted'
    BY <1>10 DEF UserReturns, BufferTypes, HeldInRecvmsg, BuffersAccounted,
       LoopTypes
  <2> QED
    BY <2>1, <2>2, <2>3, <2>4
<1>11. ASSUME Alloc
      PROVE  IInv'
  <2>1. LoopTypes' /\ KernelTypes' /\ SocketTypes' /\ BufferTypes'
    BY <1>11 DEF Alloc, ReturnsTo, LoopTypes, Places, KernelTypes, SocketTypes,
       BufferTypes
  <2>2. Numbers' /\ Registered' /\ Served'
    BY <1>11 DEF Alloc, ReturnsTo, LoopTypes, KernelTypes, SocketTypes, Numbers,
       Has, Registered, Served
  <2>3. Heard'
    BY <1>11 DEF Alloc, ReturnsTo, LoopTypes, KernelTypes, SocketTypes, Numbers,
       Has, Registered, Served, Heard, Hears, InSight
  <2>4. HeldInRecvmsg' /\ BuffersAccounted'
    BY <1>11 DEF Alloc, ReturnsTo, BufferTypes, HeldInRecvmsg, BuffersAccounted,
       LoopTypes
  <2> QED
    BY <2>1, <2>2, <2>3, <2>4
<1>12. ASSUME AllocFails
      PROVE  IInv'
  <2>1. LoopTypes' /\ KernelTypes' /\ SocketTypes' /\ BufferTypes'
    BY <1>12 DEF AllocFails, ReturnsTo, LoopTypes, Places, KernelTypes,
       SocketTypes, BufferTypes
  <2>2. Numbers' /\ Registered' /\ Served'
    BY <1>12 DEF AllocFails, ReturnsTo, LoopTypes, KernelTypes, SocketTypes,
       Numbers, Has, Registered, Served
  <2>3. Heard'
    BY <1>12 DEF AllocFails, ReturnsTo, LoopTypes, KernelTypes, SocketTypes,
       Numbers, Has, Registered, Served, Heard, Hears, InSight
  <2>4. HeldInRecvmsg' /\ BuffersAccounted'
    BY <1>12 DEF AllocFails, ReturnsTo, BufferTypes, HeldInRecvmsg,
       BuffersAccounted, LoopTypes
  <2> QED
    BY <2>1, <2>2, <2>3, <2>4
<1>13. ASSUME Received
      PROVE  IInv'
  <2>b. BufferTypes' /\ BuffersAccounted' /\ held' = FALSE /\ UNCHANGED sockets
    BY <1>13, PushAccounts DEF Received, HeldInRecvmsg
  <2>d. \E i \in Handler : /\ data[i] > 0
                           /\ data' = [data EXCEPT ![i] = data[i] - 1]
                           /\ UNCHANGED <<key, file, interest, ready>>
    <3>1. key[self] \in Fd /\ file[key[self]] # Nil
      BY <1>13 DEF Received, Source, Served, Numbers, Has
    <3>2. Source \in Handler
      BY <3>1 DEF Source, KernelTypes
    <3> QED
      BY <1>13, <3>2 DEF Received
  <2>1. LoopTypes'
    BY <1>13 DEF Received, LoopTypes, Places
  <2>2. KernelTypes'
    BY <2>d DEF KernelTypes, LoopTypes
  <2>3. SocketTypes' /\ BufferTypes'
    BY <2>b DEF SocketTypes
  <2>4. Numbers' /\ Registered' /\ Served'
    BY <1>13 DEF Received, Source, LoopTypes, KernelTypes, SocketTypes,
       Numbers, Has, Registered, Served
  <2>5. Heard'
    BY <1>13 DEF Received, Source, LoopTypes, KernelTypes, SocketTypes,
       Numbers, Has, Registered, Served, Heard, Hears, InSight
  <2>6. HeldInRecvmsg' /\ BuffersAccounted'
    BY <1>13, <2>b DEF Received, HeldInRecvmsg
  <2> QED
    BY <2>1, <2>2, <2>3, <2>4, <2>5, <2>6
<1>14. ASSUME ReceivedEmpty
      PROVE  IInv'
  <2>b. /\ held' = FALSE
        /\ free' = free + 1
        /\ UNCHANGED <<chan, sockets>>
    BY <1>14 DEF ReceivedEmpty
  <2>h. held' \in BOOLEAN
    BY <2>b, Zenon
  <2>d. \E i \in Handler : /\ data[i] > 0
                           /\ data' = [data EXCEPT ![i] = data[i] - 1]
                           /\ UNCHANGED <<key, file, interest, ready>>
    <3>1. key[self] \in Fd /\ file[key[self]] # Nil
      BY <1>14 DEF ReceivedEmpty, Source, Served, Numbers, Has
    <3>2. Source \in Handler
      BY <3>1 DEF Source, KernelTypes
    <3> QED
      BY <1>14, <3>2 DEF ReceivedEmpty
  <2>1. LoopTypes'
    BY <1>14 DEF ReceivedEmpty, LoopTypes, Places
  <2>2. KernelTypes'
    BY <2>d DEF KernelTypes, LoopTypes
  <2>3. SocketTypes' /\ BufferTypes'
    BY <1>14, <2>b, <2>h DEF SocketTypes, BufferTypes
  <2>4. Numbers' /\ Registered' /\ Served'
    BY <1>14 DEF ReceivedEmpty, Source, LoopTypes, KernelTypes, SocketTypes,
       Numbers, Has, Registered, Served
  <2>5. Heard'
    BY <1>14 DEF ReceivedEmpty, Source, LoopTypes, KernelTypes, SocketTypes,
       Numbers, Has, Registered, Served, Heard, Hears, InSight
  <2>6. HeldInRecvmsg' /\ BuffersAccounted'
    BY <1>14 DEF ReceivedEmpty, Source, BufferTypes, HeldInRecvmsg,
       BuffersAccounted, LoopTypes
  <2> QED
    BY <2>1, <2>2, <2>3, <2>4, <2>5, <2>6
<1>15. ASSUME NothingLeft
      PROVE  IInv'
  <2>b. /\ held' = FALSE
        /\ free' = free + 1
        /\ UNCHANGED <<chan, sockets>>
    BY <1>15 DEF NothingLeft, ReturnsTo
  <2>h. held' \in BOOLEAN
    BY <2>b, Zenon
  <2>1. LoopTypes'
    BY <1>15 DEF NothingLeft, ReturnsTo, LoopTypes, Places
  <2>2. KernelTypes'
    BY <1>15 DEF NothingLeft, ReturnsTo, KernelTypes, LoopTypes
  <2>3. SocketTypes' /\ BufferTypes'
    BY <1>15, <2>b, <2>h DEF SocketTypes, BufferTypes
  <2>4. Numbers' /\ Registered' /\ Served'
    BY <1>15 DEF NothingLeft, ReturnsTo, Source, LoopTypes, KernelTypes,
       SocketTypes, Numbers, Has, Registered, Served
  <2>5. Heard'
    BY <1>15 DEF NothingLeft, ReturnsTo, Source, LoopTypes, KernelTypes,
       SocketTypes, Numbers, Has, Registered, Served, Heard, Hears, InSight
  <2>6. HeldInRecvmsg' /\ BuffersAccounted'
    BY <1>15 DEF NothingLeft, ReturnsTo, Source, BufferTypes, HeldInRecvmsg,
       BuffersAccounted, LoopTypes
  <2> QED
    BY <2>1, <2>2, <2>3, <2>4, <2>5, <2>6
<1>16. ASSUME ReceiveFails
      PROVE  IInv'
  <2>b. BufferTypes' /\ BuffersAccounted' /\ held' = FALSE /\ UNCHANGED sockets
    BY <1>16, PushAccounts DEF ReceiveFails, HeldInRecvmsg
  <2>1. LoopTypes'
    BY <1>16 DEF ReceiveFails, LoopTypes, Places
  <2>2. KernelTypes'
    BY <1>16 DEF ReceiveFails, KernelTypes, LoopTypes
  <2>3. SocketTypes' /\ BufferTypes'
    BY <2>b DEF SocketTypes
  <2>4. Numbers' /\ Registered' /\ Served'
    BY <1>16 DEF ReceiveFails, Source, LoopTypes, KernelTypes,
       SocketTypes, Numbers, Has, Registered, Served
  <2>5. Heard'
    BY <1>16 DEF ReceiveFails, Source, LoopTypes, KernelTypes,
       SocketTypes, Numbers, Has, Registered, Served, Heard, Hears, InSight
  <2>6. HeldInRecvmsg' /\ BuffersAccounted'
    BY <1>16, <2>b DEF ReceiveFails, HeldInRecvmsg
  <2> QED
    BY <2>1, <2>2, <2>3, <2>4, <2>5, <2>6
<1>17. ASSUME NEW unmarked \in SUBSET Unregistered,
              NEW refused \in SUBSET (Unregistered \ unmarked),
              Register(unmarked, refused), UNCHANGED <<sockets, buffers, starved>>
      PROVE  IInv'
  <2> DEFINE marked == Unregistered \ unmarked
             new == marked \ refused
             added == {key[i] : i \in new}
             owner(x) == CHOOSE i \in new : key[i] = x
  <2>c. /\ new \subseteq mon /\ marked \subseteq mon /\ mon \subseteq Handler
        /\ added \subseteq Fd /\ {key[i] : i \in marked} \subseteq Fd
    BY DEF Numbers, Has, Unregistered
  <2>o. \A x \in added : owner(x) \in new /\ key[owner(x)] = x
    OBVIOUS
  <2>d. /\ pc = "register" /\ ~closed
        /\ reg' = reg \cup {key[i] : i \in marked}
        /\ interest' = [x \in Fd |-> IF x \in added THEN owner(x) ELSE interest[x]]
        /\ ready' = ready \cup {x \in added : Readable(x)}
        /\ unheard' = unheard \cup refused
        /\ denied' = unmarked
        /\ pc' = "wait"
        /\ UNCHANGED <<key, mon, closed, self, batch, file, data, ended, sockets, buffers, starved>>
    BY <1>17 DEF Register
  <2>e. \A i \in mon : key[i] \in Fd /\ file[key[i]] = i
    BY DEF Numbers, Has
  <2>f. \A i \in mon : key[i] \in reg \/ i \in unmarked \/ i \in marked
    BY DEF Unregistered
  <2>g. /\ \A i \in new : i \in mon /\ key[i] \in added /\ owner(key[i]) = i
        /\ \A i \in Handler : Hears(i) /\ key[i] \in added => i \in new
        /\ \A i \in Handler : Hears(i) /\ key[i] \in {key[j] : j \in marked} => i \in marked
        /\ \A i \in marked : i \in new \/ i \in refused
        /\ \A x \in added : x \notin reg
    BY <2>c, <2>o, <2>e DEF Numbers, Has, Hears, Unregistered
  <2> HIDE DEF marked, new, added, owner
  <2>1. LoopTypes'
    BY <2>c, <2>d DEF LoopTypes, Places
  <2>2. KernelTypes'
    BY <2>c, <2>o, <2>d DEF KernelTypes, LoopTypes
  <2>3. SocketTypes' /\ BufferTypes'
    BY <2>d DEF SocketTypes, BufferTypes
  <2>4. Numbers'
    BY <2>d DEF LoopTypes, KernelTypes, SocketTypes, Numbers, Has
  <2>5. Registered'
    BY <2>c, <2>o, <2>d DEF LoopTypes, KernelTypes, SocketTypes, Numbers,
       Has, Registered
  <2>6. Served'
    BY <2>d DEF LoopTypes, Served
  <2>7. Heard'
    BY <2>c, <2>o, <2>d, <2>e, <2>f, <2>g DEF Readable, LoopTypes,
       KernelTypes, SocketTypes, Numbers, Has, Registered, Served, Heard, Hears,
       InSight
  <2>8. HeldInRecvmsg' /\ BuffersAccounted'
    BY <2>d DEF BufferTypes, HeldInRecvmsg, BuffersAccounted, LoopTypes
  <2> QED
    BY <2>1, <2>2, <2>3, <2>4, <2>5, <2>6, <2>7, <2>8
<1>18. ASSUME NEW events \in SUBSET ready, EpollWait(events), UNCHANGED <<sockets, buffers, starved>>
      PROVE  IInv'
  <2>m. batch' \subseteq mon
    BY <1>18 DEF EpollWait, Reported, Registered, KernelTypes
  <2>1. LoopTypes'
    BY <1>18, <2>m DEF EpollWait, LoopTypes, Places
  <2>2. KernelTypes'
    BY <1>18 DEF EpollWait, Reported, Readable, KernelTypes, LoopTypes
  <2>3. SocketTypes' /\ BufferTypes'
    BY <1>18 DEF EpollWait, Reported, Readable, SocketTypes, BufferTypes
  <2>4. Numbers'
    BY <1>18 DEF EpollWait, Reported, Readable, LoopTypes, KernelTypes,
       SocketTypes, Numbers, Has
  <2>5. Registered'
    BY <1>18 DEF EpollWait, Reported, Readable, LoopTypes, KernelTypes,
       SocketTypes, Numbers, Has, Registered
  <2>6. Served'
    BY <1>18, <2>m DEF EpollWait, LoopTypes, Served
  <2>7. Heard'
    BY <1>18 DEF EpollWait, Reported, Readable, LoopTypes, KernelTypes,
       SocketTypes, Numbers, Has, Registered, Served, Heard, Hears, InSight
  <2>8. HeldInRecvmsg' /\ BuffersAccounted'
    BY <1>18 DEF EpollWait, Reported, Readable, BufferTypes, HeldInRecvmsg,
       BuffersAccounted, LoopTypes
  <2> QED
    BY <2>1, <2>2, <2>3, <2>4, <2>5, <2>6, <2>7, <2>8
<1>19. ASSUME BatchDone, UNCHANGED <<sockets, buffers, starved>>
      PROVE  IInv'
  <2>1. LoopTypes' /\ KernelTypes' /\ SocketTypes' /\ BufferTypes'
    BY <1>19 DEF BatchDone, LoopTypes, Places, KernelTypes, SocketTypes,
       BufferTypes
  <2>2. Numbers' /\ Registered' /\ Served'
    BY <1>19 DEF BatchDone, LoopTypes, KernelTypes, SocketTypes, Numbers, Has,
       Registered, Served
  <2>3. Heard'
    BY <1>19 DEF BatchDone, LoopTypes, KernelTypes, SocketTypes, Numbers, Has,
       Registered, Served, Heard, Hears, InSight
  <2>4. HeldInRecvmsg' /\ BuffersAccounted'
    BY <1>19 DEF BatchDone, BufferTypes, HeldInRecvmsg, BuffersAccounted,
       LoopTypes
  <2> QED
    BY <2>1, <2>2, <2>3, <2>4
<1>20. ASSUME Run, UNCHANGED <<sockets, buffers, starved>>
      PROVE  IInv'
  <2>1. LoopTypes' /\ KernelTypes' /\ SocketTypes' /\ BufferTypes'
    BY <1>20 DEF Run, LoopTypes, Places, KernelTypes, SocketTypes, BufferTypes
  <2>2. Numbers' /\ Registered' /\ Served'
    BY <1>20 DEF Run, LoopTypes, KernelTypes, SocketTypes, Numbers, Has,
       Registered, Served
  <2>3. Heard'
    BY <1>20 DEF Run, LoopTypes, KernelTypes, SocketTypes, Numbers, Has,
       Registered, Served, Heard, Hears, InSight
  <2>4. HeldInRecvmsg' /\ BuffersAccounted'
    BY <1>20 DEF Run, BufferTypes, HeldInRecvmsg, BuffersAccounted, LoopTypes
  <2> QED
    BY <2>1, <2>2, <2>3, <2>4
<1>21. ASSUME NEW s \in Object, Datagram(s)
      PROVE  IInv'
  <2>k. key[s] \in Fd
    BY <1>21 DEF Datagram, Numbers, Has
  <2>1. LoopTypes'
    BY <1>21 DEF Datagram, Arrives, LoopTypes, Places
  <2>2. KernelTypes'
    <3>1. data' \in [Handler -> Nat]
      <4>1. data' = [data EXCEPT ![s] = data[s] + 1] /\ data \in [Handler -> Nat]
        BY <1>21 DEF Datagram, Arrives, KernelTypes
      <4> QED
        BY <4>1
    <3>2. ready' \subseteq Fd
      BY <1>21, <2>k DEF Datagram, Arrives, KernelTypes
    <3> QED
      BY <1>21, <3>1, <3>2 DEF Datagram, KernelTypes
  <2>3. SocketTypes' /\ BufferTypes'
    BY <1>21 DEF Datagram, Arrives, SocketTypes, BufferTypes
  <2>4. Numbers' /\ Registered'
    BY <1>21 DEF Datagram, Arrives, LoopTypes, KernelTypes, SocketTypes,
       Numbers, Has, Registered
  <2>5. Served'
    BY <1>21 DEF Datagram, Arrives, LoopTypes, Served
  <2>6. Heard'
    BY <1>21 DEF Datagram, Arrives, LoopTypes, KernelTypes, SocketTypes,
       Numbers, Has, Registered, Served, Heard, Hears, InSight
  <2>7. HeldInRecvmsg' /\ BuffersAccounted'
    BY <1>21 DEF Datagram, Arrives, BufferTypes, HeldInRecvmsg,
       BuffersAccounted, LoopTypes
  <2> QED
    BY <2>1, <2>2, <2>3, <2>4, <2>5, <2>6, <2>7
<1>22. ASSUME AppEvent
      PROVE  IInv'
  <2>k. key[App] \in Fd
    BY <1>22 DEF AppEvent, Numbers, Has
  <2>1. LoopTypes'
    BY <1>22 DEF AppEvent, Arrives, LoopTypes, Places
  <2>2. KernelTypes'
    <3>1. data' \in [Handler -> Nat]
      <4>1. data' = [data EXCEPT ![App] = data[App] + 1] /\ data \in [Handler -> Nat]
        BY <1>22 DEF AppEvent, Arrives, KernelTypes
      <4> QED
        BY <4>1
    <3>2. ready' \subseteq Fd
      BY <1>22, <2>k DEF AppEvent, Arrives, KernelTypes
    <3> QED
      BY <1>22, <3>1, <3>2 DEF AppEvent, KernelTypes
  <2>3. SocketTypes' /\ BufferTypes'
    BY <1>22 DEF AppEvent, Arrives, SocketTypes, BufferTypes
  <2>4. Numbers' /\ Registered'
    BY <1>22 DEF AppEvent, Arrives, LoopTypes, KernelTypes, SocketTypes,
       Numbers, Has, Registered
  <2>5. Served'
    BY <1>22 DEF AppEvent, Arrives, LoopTypes, Served
  <2>6. Heard'
    BY <1>22 DEF AppEvent, Arrives, LoopTypes, KernelTypes, SocketTypes,
       Numbers, Has, Registered, Served, Heard, Hears, InSight
  <2>7. HeldInRecvmsg' /\ BuffersAccounted'
    BY <1>22 DEF AppEvent, Arrives, BufferTypes, HeldInRecvmsg,
       BuffersAccounted, LoopTypes
  <2> QED
    BY <2>1, <2>2, <2>3, <2>4, <2>5, <2>6, <2>7
<1>23. ASSUME Signal
      PROVE  IInv'
  <2>1. LoopTypes' /\ KernelTypes' /\ SocketTypes' /\ BufferTypes'
    BY <1>23 DEF Signal, Interrupted, LoopTypes, Places, KernelTypes,
       SocketTypes, BufferTypes
  <2>2. Numbers' /\ Registered' /\ Served'
    BY <1>23 DEF Signal, Interrupted, LoopTypes, KernelTypes, SocketTypes,
       Numbers, Has, Registered, Served
  <2>3. Heard'
    BY <1>23 DEF Signal, Interrupted, LoopTypes, KernelTypes, SocketTypes,
       Numbers, Has, Registered, Served, Heard, Hears, InSight
  <2>4. HeldInRecvmsg' /\ BuffersAccounted'
    BY <1>23 DEF Signal, Interrupted, BufferTypes, HeldInRecvmsg,
       BuffersAccounted, LoopTypes
  <2> QED
    BY <2>1, <2>2, <2>3, <2>4
<1>24. CASE UNCHANGED vars
  BY <1>24 DEF LoopTypes, KernelTypes, SocketTypes, BufferTypes, Numbers, Has, Registered, Served, Heard,
     Hears, InSight, HeldInRecvmsg, BuffersAccounted
<1> QED
  BY <1>1, <1>2, <1>3, <1>4, <1>5, <1>6, <1>7, <1>8, <1>9, <1>10, <1>11, <1>12,
     <1>13, <1>14, <1>15, <1>16, <1>17, <1>18, <1>19, <1>20, <1>21, <1>22, <1>23, <1>24, <1>7r
     DEF Next, LoopStep, Failing, Callback, Program, Environment

-----------------------------------------------------------------------------
(* Hence the invariant always holds.                                       *)
LEMMA Invariance == Spec => []IInv
<1> QED
  BY Initially, Preserved, PTL DEF Spec

(* Whatever is opened, closed, received or refused, and whichever numbers  *)
(* the kernel gives again: a socket's descriptor is its own from its       *)
(* opening to its close, and the loop listens to those that receive.       *)
THEOREM Descriptors == Spec => []DescriptorsMatch
<1>1. ASSUME IInv PROVE DescriptorsMatch
  <2>1. ASSUME NEW s \in Object, life[s] \in {"open", "receiving", "kept"}
        PROVE  key[s] \in Fd /\ file[key[s]] = s
    BY <1>1, <2>1 DEF IInv, Numbers, Has, Handler
  <2>2. ASSUME NEW s \in Object, NEW k \in Fd, file[k] = s
        PROVE  life[s] \in {"open", "receiving", "kept"}
    BY <1>1, <2>2, IoAssumption DEF IInv, Numbers, Has, Handler
  <2> QED
    BY <1>1, <2>1, <2>2 DEF IInv, DescriptorsMatch, Numbers
<1> QED
  BY <1>1, Invariance, PTL

(* Each buffer of alloc_cb is in one place, for any number of buffers, any *)
(* room in the channel, any readers and any failures; and if it is gone,   *)
(* the channel was closed or malloc failed for its waiter.                 *)
THEOREM Buffered == Spec => []BuffersAccounted
<1>1. IInv => BuffersAccounted
  BY DEF IInv
<1> QED
  BY <1>1, Invariance, PTL

(* A socket closed in one batch is never called back in a later one, and   *)
(* epoll keeps no address of a socket that was closed.                     *)
THEOREM Quiet == Spec => []ClosedIsQuiet
<1>1. IInv => ClosedIsQuiet
  BY IoAssumption DEF IInv, ClosedIsQuiet, Numbers, Registered, Served, Handler
<1> QED
  BY <1>1, Invariance, PTL

(* With edges that are reported once, the loop never waits while something *)
(* is unread of which nothing will tell it, but in the sockets known deaf. *)
THEOREM Seen == Spec => []NothingWaitsUnseen
<1>1. IInv => NothingWaitsUnseen
  BY IoAssumption DEF IInv, NothingWaitsUnseen, Numbers, Served, Heard, Hears, InSight, Deaf, Handler
<1> QED
  BY <1>1, Invariance, PTL
=============================================================================
