---------------------------- MODULE AsyncProofs ----------------------------
(***************************************************************************)
(* Proofs about Async, for any number of handlers and any set of sending   *)
(* threads: no send is lost, a claim has exactly one owner, the loop never *)
(* waits for itself, and each step is a step of AsyncSpec or stutters.     *)
(***************************************************************************)
EXTENDS Async, FiniteSets, FiniteSetTheorems, TLAPS

(* The loop's place in its list, and its own sends.                        *)
Places ==
    /\ lpc \in {"cas", "cb"} => pos <= reg
    /\ ~InUserCode => spc[Loop] = "idle"

(* Claims and senders are in one-to-one correspondence.                    *)
Claims ==
    /\ \A s \in Sender : Busy(s) => /\ tgt[s] \in 1..reg
                                    /\ hstat[tgt[s]] = "WORKING"
    /\ \A s, t \in Sender : Busy(s) /\ Busy(t) /\ tgt[s] = tgt[t] => s = t
    /\ \A h \in Handler : hstat[h] = "WORKING" =>
                              \E s \in Sender : Busy(s) /\ tgt[s] = h
    /\ \A h \in Handler : h > reg => hstat[h] = "NO_PADDING"

(* The requests of AsyncSpec are the handlers that are not NO_PADDING.     *)
Asked == \A h \in Handler : h \in asked <=> hstat[h] # "NO_PADDING"

IInv == TypeOK /\ Places /\ Claims /\ Asked /\ NoLostSend

-----------------------------------------------------------------------------
(* The type invariant needs to know where the loop is: after a handler was *)
(* taken or passed over, the position moves on by one.                     *)
LEMMA TypeInit == Init => TypeOK /\ Places
  BY AsyncAssumption DEF Init, TypeOK, Places, InUserCode, Sender

LEMMA TypeStep == TypeOK /\ Places /\ [Next]_vars => TypeOK' /\ Places'
<1> SUFFICES ASSUME TypeOK, Places, [Next]_vars
             PROVE  TypeOK' /\ Places'
  OBVIOUS
<1> USE AsyncAssumption DEF TypeOK, Places, InUserCode, Sender
<1>1. CASE AsyncInit
  BY <1>1 DEF AsyncInit
<1>2. ASSUME NEW s \in Sender, NEW h \in Handler, SendClaim(s, h)
      PROVE  TypeOK' /\ Places'
  <2>1. h \in 1..N
    BY DEF Handler
  <2>2. CASE hstat[h] = "NO_PADDING"
    BY <1>2, <2>1, <2>2 DEF SendClaim
  <2>3. CASE hstat[h] # "NO_PADDING"
    BY <1>2, <2>1, <2>3 DEF SendClaim
  <2> QED
    BY <2>2, <2>3
<1>3. ASSUME NEW s \in Sender, SendStep(s)
      PROVE  TypeOK' /\ Places'
  <2>1. CASE SendWrite(s)
    BY <2>1 DEF SendWrite
  <2>2. CASE SendFinish(s)
    BY <2>2 DEF SendFinish
  <2> QED
    BY <1>3, <2>1, <2>2 DEF SendStep
<1>4. CASE EpollReport
  BY <1>4 DEF EpollReport
<1>5. CASE EventfdRead
  BY <1>5 DEF EventfdRead
<1>6. CASE SpinRead
  BY <1>6 DEF SpinRead
<1>7. CASE SpinCasTakes
  BY <1>7 DEF SpinCasTakes
<1>8. CASE SpinCasFails
  BY <1>8 DEF SpinCasFails
<1>9. CASE CallbackReturns
  BY <1>9 DEF CallbackReturns
<1>10. CASE ScanEnds
  BY <1>10 DEF ScanEnds
<1>11. CASE UNCHANGED vars
  BY <1>11 DEF vars
<1> QED
  BY <1>1, <1>2, <1>3, <1>4, <1>5, <1>6, <1>7, <1>8, <1>9, <1>10, <1>11
     DEF Next, LoopStep

(* Every reachable state is well typed.                                    *)
THEOREM TypeCorrect == Spec => []TypeOK
<1>1. Spec => [](TypeOK /\ Places)
  BY TypeInit, TypeStep, PTL DEF Spec
<1> QED
  BY <1>1, PTL

-----------------------------------------------------------------------------
(* A claim is made only on an unclaimed handler, by a sender that had none *)
(* before; it ends when that sender publishes.  The loop changes only the  *)
(* status of handlers that are DONE.                                       *)
LEMMA ClaimsStep ==
    TypeOK /\ Places /\ Claims /\ Asked /\ [Next]_vars => Claims' /\ Asked'
<1> SUFFICES ASSUME TypeOK, Places, Claims, Asked, [Next]_vars
             PROVE  Claims' /\ Asked'
  OBVIOUS
<1> USE AsyncAssumption DEF TypeOK, Claims, Asked, Busy
<1>1. CASE AsyncInit
  <2>1. /\ reg' = reg + 1
        /\ hstat' = hstat /\ spc' = spc /\ tgt' = tgt /\ asked' = asked
    BY <1>1 DEF AsyncInit
  <2>2. \A s \in Sender : Busy(s)' => /\ tgt'[s] \in 1..reg'
                                      /\ hstat'[tgt'[s]] = "WORKING"
    BY <2>1
  <2>3. \A h \in Handler : h > reg' => hstat'[h] = "NO_PADDING"
    BY <2>1 DEF Handler
  <2> QED
    BY <2>1, <2>2, <2>3
<1>2. ASSUME NEW s \in Sender, NEW h \in Handler, SendClaim(s, h)
      PROVE  Claims' /\ Asked'
  <2>1. CASE hstat[h] = "NO_PADDING"
    <3>1. /\ spc' = [spc EXCEPT ![s] = "write"]
          /\ tgt' = [tgt EXCEPT ![s] = h]
          /\ hstat' = [hstat EXCEPT ![h] = "WORKING"]
          /\ reg' = reg /\ h \in 1..reg
      BY <1>2, <2>1 DEF SendClaim, Handler
    <3>2. \A t \in Sender : Busy(t)' /\ t # s =>
              Busy(t) /\ tgt'[t] = tgt[t] /\ tgt[t] # h
      BY <2>1, <3>1
    <3>3. \A t \in Sender : Busy(t)' => /\ tgt'[t] \in 1..reg
                                        /\ hstat'[tgt'[t]] = "WORKING"
      BY <3>1, <3>2 DEF Handler
    <3>4. \A t, u \in Sender :
              Busy(t)' /\ Busy(u)' /\ tgt'[t] = tgt'[u] => t = u
      <4>1. ASSUME NEW t \in Sender, NEW u \in Sender,
                   Busy(t)', Busy(u)', tgt'[t] = tgt'[u], t # u
            PROVE  FALSE
        <5>1. CASE t = s
          BY <3>1, <3>2, <4>1, <5>1
        <5>2. CASE u = s
          BY <3>1, <3>2, <4>1, <5>2
        <5>3. CASE t # s /\ u # s
          BY <3>2, <4>1, <5>3
        <5> QED
          BY <5>1, <5>2, <5>3
      <4> QED
        BY <4>1
    <3>5. \A g \in Handler : hstat'[g] = "WORKING" =>
              \E t \in Sender : Busy(t)' /\ tgt'[t] = g
      <4>1. TAKE g \in Handler
      <4>2. HAVE hstat'[g] = "WORKING"
      <4>3. CASE g = h
        BY <3>1, <4>3
      <4>4. CASE g # h
        <5>1. PICK t \in Sender : Busy(t) /\ tgt[t] = g
          BY <3>1, <4>2, <4>4
        <5>2. t # s
          BY <1>2, <5>1 DEF SendClaim
        <5> QED
          BY <3>1, <5>1, <5>2
      <4> QED
        BY <4>3, <4>4
    <3>6. Asked'
      BY <1>2, <2>1 DEF SendClaim
    <3>7. \A g \in Handler : g > reg' => hstat'[g] = "NO_PADDING"
      BY <3>1
    <3> QED
      BY <3>1, <3>3, <3>4, <3>5, <3>6, <3>7
  <2>2. CASE hstat[h] # "NO_PADDING"
    BY <1>2, <2>2 DEF SendClaim
  <2> QED
    BY <2>1, <2>2
<1>3. ASSUME NEW s \in Sender, SendStep(s)
      PROVE  Claims' /\ Asked'
  <2>1. CASE SendWrite(s)
    BY <2>1 DEF SendWrite
  <2>2. CASE SendFinish(s)
    <3>1. /\ spc' = [spc EXCEPT ![s] = "idle"]
          /\ hstat' = [hstat EXCEPT ![tgt[s]] = "DONE"]
          /\ tgt' = tgt /\ reg' = reg /\ asked' = asked
      BY <2>2 DEF SendFinish
    <3>2. \A t \in Sender : Busy(t)' => Busy(t) /\ tgt[t] # tgt[s]
      BY <2>2, <3>1 DEF SendFinish
    <3> QED
      BY <2>2, <3>1, <3>2 DEF SendFinish
  <2> QED
    BY <1>3, <2>1, <2>2 DEF SendStep
<1>4. CASE EpollReport
  BY <1>4 DEF EpollReport
<1>5. CASE EventfdRead
  BY <1>5 DEF EventfdRead
<1>6. CASE SpinRead
  BY <1>6 DEF SpinRead
<1>7. CASE SpinCasTakes
  BY <1>7 DEF SpinCasTakes
<1>8. CASE SpinCasFails
  BY <1>8 DEF SpinCasFails
<1>9. CASE CallbackReturns
  BY <1>9 DEF CallbackReturns
<1>10. CASE ScanEnds
  BY <1>10 DEF ScanEnds
<1>11. CASE UNCHANGED vars
  BY <1>11 DEF vars
<1> QED
  BY <1>1, <1>2, <1>3, <1>4, <1>5, <1>6, <1>7, <1>8, <1>9, <1>10, <1>11
     DEF Next, LoopStep

(* A written send is covered by the eventfd until the loop reads it, and   *)
(* by the walk from then on.                                               *)
LEMMA NoLostSendStep ==
    TypeOK /\ Places /\ Claims /\ NoLostSend /\ [Next]_vars => NoLostSend'
<1> SUFFICES ASSUME TypeOK, Places, Claims, NoLostSend, [Next]_vars,
                    NEW h \in 1..reg', Written(h)'
             PROVE  \/ counter' > 0 /\ (edge' = "raised" \/ lpc' = "read")
                    \/ WillVisit(h)'
  BY DEF NoLostSend
<1> USE AsyncAssumption DEF TypeOK, Places, Busy, InUserCode
<1> DEFINE Covered == \/ counter > 0 /\ (edge = "raised" \/ lpc = "read")
                      \/ WillVisit(h)
<1>0. h \in 1..reg /\ Written(h) => Covered
  BY DEF NoLostSend
<1>1. CASE AsyncInit
  <2>1. Written(h)
    BY <1>1 DEF AsyncInit, Written
  <2>2. h \in 1..reg
    BY <1>1, <2>1 DEF AsyncInit, Written, Claims, Handler
  <2> QED
    BY <1>0, <1>1, <2>1, <2>2 DEF AsyncInit, WillVisit
<1>2. ASSUME NEW s \in Sender, NEW g \in Handler, SendClaim(s, g)
      PROVE  Covered'
  <2>1. Written(h) /\ h \in 1..reg
    <3>1. CASE hstat[g] = "NO_PADDING"
      <4>1. /\ spc' = [spc EXCEPT ![s] = "write"]
            /\ tgt' = [tgt EXCEPT ![s] = g]
            /\ hstat' = [hstat EXCEPT ![g] = "WORKING"]
            /\ reg' = reg
        BY <1>2, <3>1 DEF SendClaim
      <4>2. \A t \in Sender : spc'[t] = "finish" => spc[t] = "finish"
                                                  /\ tgt'[t] = tgt[t]
        BY <4>1
      <4>3. hstat'[h] = "DONE" => hstat[h] = "DONE"
        BY <4>1 DEF Handler
      <4> QED
        BY <4>1, <4>2, <4>3 DEF Written
    <3>2. CASE hstat[g] # "NO_PADDING"
      BY <1>2, <3>2 DEF SendClaim, Written
    <3> QED
      BY <3>1, <3>2
  <2>2. hstat[h] = "DONE" => hstat'[h] = "DONE"
    <3>1. CASE hstat[g] = "NO_PADDING"
      BY <1>2, <3>1 DEF SendClaim, Handler
    <3>2. CASE hstat[g] # "NO_PADDING"
      BY <1>2, <3>2 DEF SendClaim
    <3> QED
      BY <3>1, <3>2
  <2> QED
    BY <1>0, <1>2, <2>1, <2>2 DEF SendClaim, WillVisit
<1>3. ASSUME NEW s \in Sender, SendStep(s)
      PROVE  Covered'
  <2>1. CASE SendWrite(s)
    BY <2>1 DEF SendWrite
  <2>2. CASE SendFinish(s)
    <3>1. Written(h) /\ h \in 1..reg
      BY <2>2 DEF SendFinish, Written, Claims
    <3>2. hstat[h] = "DONE" => hstat'[h] = "DONE"
      BY <2>2 DEF SendFinish
    <3> QED
      BY <1>0, <2>2, <3>1, <3>2 DEF SendFinish, WillVisit
  <2> QED
    BY <1>3, <2>1, <2>2 DEF SendStep
<1>4. CASE EpollReport
  BY <1>0, <1>4 DEF EpollReport, Written, WillVisit
<1>5. CASE EventfdRead
  BY <1>0, <1>5 DEF EventfdRead, Written, WillVisit
<1>6. CASE SpinRead
  <2>1. Written(h) /\ h \in 1..reg
    BY <1>6 DEF SpinRead, Written
  <2>2. h = pos => hstat[h] = "DONE"
    BY <1>6, <2>1 DEF SpinRead, Written, Claims
  <2> QED
    BY <1>0, <1>6, <2>1, <2>2 DEF SpinRead, WillVisit
<1>7. CASE SpinCasTakes
  <2>1. /\ hstat[pos] = "DONE" /\ hstat' = [hstat EXCEPT ![pos] = "NO_PADDING"]
        /\ spc' = spc /\ tgt' = tgt /\ reg' = reg
    BY <1>7 DEF SpinCasTakes
  <2>2. h # pos
    <3>1. SUFFICES ASSUME h = pos PROVE FALSE
      OBVIOUS
    <3>2. hstat'[h] = "NO_PADDING" /\ hstat[h] = "DONE"
      BY <2>1, <3>1 DEF Handler
    <3>3. PICK s \in Sender : spc[s] = "finish" /\ tgt[s] = h
      BY <2>1, <3>2 DEF Written
    <3> QED
      BY <3>2, <3>3 DEF Claims
  <2>3. Written(h) /\ h \in 1..reg
    BY <2>1, <2>2 DEF Written, Handler
  <2> QED
    BY <1>0, <1>7, <2>1, <2>2, <2>3 DEF SpinCasTakes, WillVisit
<1>8. CASE SpinCasFails
  BY <1>0, <1>8 DEF SpinCasFails, Written, WillVisit
<1>9. CASE CallbackReturns
  BY <1>0, <1>9 DEF CallbackReturns, Written, WillVisit
<1>10. CASE ScanEnds
  BY <1>0, <1>10 DEF ScanEnds, Written, WillVisit
<1>11. CASE UNCHANGED vars
  BY <1>0, <1>11 DEF vars, Written, WillVisit
<1> QED
  BY <1>1, <1>2, <1>3, <1>4, <1>5, <1>6, <1>7, <1>8, <1>9, <1>10, <1>11
     DEF Next, LoopStep

-----------------------------------------------------------------------------
LEMMA InvInit == Init => IInv
<1>1. Init => Claims /\ Asked /\ NoLostSend
  BY AsyncAssumption DEF Init, Claims, Busy, Asked, NoLostSend, Handler
<1> QED
  BY <1>1, TypeInit DEF IInv

LEMMA InvStep == IInv /\ [Next]_vars => IInv'
  BY TypeStep, ClaimsStep, NoLostSendStep DEF IInv

LEMMA InvHolds == Spec => []IInv
  BY InvInit, InvStep, PTL DEF Spec

(* No send is ever lost: from the eventfd write on, the handler is covered *)
(* by the eventfd's count or by the walk, for any handlers and threads     *)
(* (lc_async.c:26-42 against lc_eloop.c:57-99).                            *)
THEOREM SendNeverLost == Spec => []NoLostSend
<1>1. IInv => NoLostSend
  BY DEF IInv
<1> QED
  BY <1>1, InvHolds, PTL

(* A claimed handler has exactly one sender, so that the second CAS of a   *)
(* send never fails (lc_async.c:37).                                       *)
THEOREM ClaimHasOneOwner == Spec => []OneOwner
<1>1. IInv => OneOwner
  <2> SUFFICES ASSUME IInv, NEW h \in Handler
               PROVE  IF hstat[h] = "WORKING"
                      THEN \E s \in Sender : /\ Busy(s) /\ tgt[s] = h
                                             /\ \A t \in Sender :
                                                 Busy(t) /\ tgt[t] = h => t = s
                      ELSE \A s \in Sender : Busy(s) => tgt[s] # h
    BY DEF OneOwner
  <2>1. CASE hstat[h] = "WORKING"
    <3>1. PICK s \in Sender : Busy(s) /\ tgt[s] = h
      BY <2>1 DEF IInv, Claims
    <3>2. \A t \in Sender : Busy(t) /\ tgt[t] = h => t = s
      BY <3>1 DEF IInv, Claims
    <3> QED
      BY <2>1, <3>1, <3>2
  <2>2. CASE hstat[h] # "WORKING"
    BY <2>2 DEF IInv, Claims
  <2> QED
    BY <2>1, <2>2
<1> QED
  BY <1>1, InvHolds, PTL

(* Whoever the loop spins on is another thread, in the middle of a send    *)
(* (lc_eloop.c:88-99).                                                     *)
THEOREM LoopNeverWaitsForItself == Spec => []SpinsOnOthers
<1>1. IInv => SpinsOnOthers
  <2> SUFFICES ASSUME IInv, lpc \in {"scan", "cas"}, pos <= reg,
                      hstat[pos] = "WORKING"
               PROVE  \E s \in Thread : Busy(s) /\ tgt[s] = pos
    BY DEF SpinsOnOthers
  <2>1. PICK s \in Sender : Busy(s) /\ tgt[s] = pos
    BY AsyncAssumption DEF IInv, TypeOK, Claims, Handler
  <2>2. s # Loop
    BY <2>1 DEF IInv, Places, InUserCode, Busy
  <2> QED
    BY <2>1, <2>2 DEF Sender
<1> QED
  BY <1>1, InvHolds, PTL

(* Each step of the three-step send and of the walk is, for the set of     *)
(* handlers asked for, a step of AsyncSpec or a stuttering step.           *)
THEOREM StepsImplementAsyncSpec == Spec => A!Init /\ [][A!Next]_asked
<1>1. Init => A!Init
  BY DEF Init, A!Init
<1>2. IInv /\ [Next]_vars => [A!Next]_asked
  <2> SUFFICES ASSUME IInv, [Next]_vars, asked' # asked
               PROVE  A!Next
    OBVIOUS
  <2>1. ASSUME NEW s \in Sender, NEW h \in Handler, SendClaim(s, h)
        PROVE  A!Next
    BY <2>1 DEF SendClaim, A!Next, A!Send
  <2>2. CASE SpinCasTakes
    <3>1. pos \in Handler
      BY <2>2, AsyncAssumption
         DEF SpinCasTakes, IInv, TypeOK, Places, Handler
    <3>2. pos \in asked
      BY <2>2, <3>1 DEF SpinCasTakes, IInv, Asked
    <3>3. A!Serve(pos)
      BY <2>2, <3>2 DEF SpinCasTakes, A!Serve
    <3> QED
      BY <3>1, <3>3 DEF A!Next
  <2>3. ASSUME NEW s \in Sender, SendStep(s)
        PROVE  A!Next
    BY <2>3 DEF SendStep, SendWrite, SendFinish
  <2>4. CASE AsyncInit \/ EpollReport \/ EventfdRead \/ SpinRead
             \/ SpinCasFails \/ CallbackReturns \/ ScanEnds
    BY <2>4 DEF AsyncInit, EpollReport, EventfdRead, SpinRead, SpinCasFails,
                CallbackReturns, ScanEnds
  <2> QED
    BY <2>1, <2>2, <2>3, <2>4 DEF Next, LoopStep, vars
<1> QED
  BY <1>1, <1>2, InvHolds, PTL DEF Spec

-----------------------------------------------------------------------------
(* The value of the eventfd counts sends: at most one for each handler the *)
(* walk has passed since it was read, and those written and not yet taken. *)
Pending == {h \in 1..reg : Written(h)}

Passed ==
    IF lpc \in {"wait", "read"} THEN reg ELSE IF lpc = "cb" THEN pos ELSE pos - 1

Counted ==
    /\ lpc = "scan" => pos <= reg + 1
    /\ counter <= Passed + Cardinality(Pending)

LEMMA CountUpTo ==
    ASSUME NEW n \in Nat, NEW S \in SUBSET (1..n)
    PROVE  IsFiniteSet(S) /\ Cardinality(S) \in Nat /\ Cardinality(S) <= n
<1>1. IsFiniteSet(1..n) /\ Cardinality(1..n) = n
  BY FS_Interval
<1> QED
  BY <1>1, FS_Subset, FS_CardinalityType

LEMMA CountedStep ==
    TypeOK /\ Places /\ Claims /\ Counted /\ [Next]_vars => Counted'
<1> SUFFICES ASSUME TypeOK, Places, Claims, Counted, [Next]_vars
             PROVE  Counted'
  OBVIOUS
<1>1. TypeOK'
  BY TypeStep
<1>2. /\ reg \in Nat /\ reg' \in Nat /\ counter \in Nat
      /\ pos \in Nat \ {0} /\ pos' \in Nat \ {0}
  BY <1>1, AsyncAssumption DEF TypeOK
<1>3. /\ IsFiniteSet(Pending) /\ IsFiniteSet(Pending')
      /\ Cardinality(Pending) \in Nat /\ Cardinality(Pending') \in Nat
  BY <1>2, CountUpTo DEF Pending
(* A step that adds nothing and leaves the written handlers written.       *)
<1>4. ASSUME Pending \subseteq Pending', counter' = counter,
             lpc' = "scan" => pos' <= reg' + 1, Passed <= Passed'
      PROVE  Counted'
  <2>1. Cardinality(Pending) <= Cardinality(Pending')
    BY <1>3, <1>4, FS_Subset
  <2>2. Passed \in Int /\ Passed' \in Int
    BY <1>2 DEF Passed
  <2>3. Passed + Cardinality(Pending) <= Passed' + Cardinality(Pending')
    BY <1>3, <1>4, <2>1, <2>2
  <2>4. counter <= Passed' + Cardinality(Pending')
    BY <1>2, <1>3, <2>2, <2>3 DEF Counted
  <2> QED
    BY <1>4, <2>4 DEF Counted
<1>5. CASE AsyncInit
  <2>1. Pending \subseteq Pending'
    BY <1>2, <1>5 DEF AsyncInit, Pending, Written
  <2> QED
    BY <1>2, <1>4, <1>5, <2>1 DEF AsyncInit, InUserCode, Passed
<1>6. ASSUME NEW s \in Sender, NEW h \in Handler, SendClaim(s, h)
      PROVE  Counted'
  <2>1. Pending \subseteq Pending'
    <3>1. CASE hstat[h] = "NO_PADDING"
      <4>1. /\ spc[s] = "idle" /\ reg' = reg
            /\ spc' = [spc EXCEPT ![s] = "write"]
            /\ tgt' = [tgt EXCEPT ![s] = h]
            /\ hstat' = [hstat EXCEPT ![h] = "WORKING"]
        BY <1>6, <3>1 DEF SendClaim
      <4>2. ASSUME NEW g \in 1..reg, Written(g) PROVE Written(g)'
        <5>1. g \in Handler
          BY AsyncAssumption DEF TypeOK, Handler
        <5>2. CASE hstat[g] = "DONE"
          BY <3>1, <4>1, <5>1, <5>2 DEF TypeOK, Written
        <5>3. CASE \E t \in Sender : spc[t] = "finish" /\ tgt[t] = g
          BY <4>1, <5>3 DEF TypeOK, Written
        <5> QED
          BY <4>2, <5>2, <5>3 DEF Written
      <4> QED
        BY <4>1, <4>2 DEF Pending
    <3>2. CASE hstat[h] # "NO_PADDING"
      BY <1>6, <3>2 DEF SendClaim, Pending, Written
    <3> QED
      BY <3>1, <3>2
  <2>2. UNCHANGED <<reg, counter, lpc, pos>>
    BY <1>6 DEF SendClaim
  <2> QED
    BY <1>2, <1>4, <2>1, <2>2 DEF Passed, Counted
<1>7. ASSUME NEW s \in Sender, SendWrite(s)
      PROVE  Counted'
  <2>1. /\ spc[s] = "write" /\ spc' = [spc EXCEPT ![s] = "finish"]
        /\ counter' = counter + 1
        /\ UNCHANGED <<reg, hstat, tgt, lpc, pos>>
    BY <1>7 DEF SendWrite
  <2>2. tgt[s] \in 1..reg /\ hstat[tgt[s]] = "WORKING"
    BY <2>1 DEF Claims, Busy
  <2>3. tgt[s] \notin Pending
    <3>1. ASSUME NEW t \in Sender, spc[t] = "finish", tgt[t] = tgt[s]
          PROVE  FALSE
      BY <2>1, <3>1 DEF Claims, Busy
    <3> QED
      BY <2>2, <3>1 DEF Pending, Written
  <2>4. Pending \cup {tgt[s]} \subseteq Pending'
    <3>1. \A t \in Sender : spc[t] = "finish" => spc'[t] = "finish"
      BY <2>1 DEF TypeOK
    <3>2. spc'[s] = "finish"
      BY <2>1 DEF TypeOK
    <3> QED
      BY <2>1, <2>2, <3>1, <3>2 DEF Pending, Written
  <2>5. /\ IsFiniteSet(Pending \cup {tgt[s]})
        /\ Cardinality(Pending \cup {tgt[s]}) = Cardinality(Pending) + 1
    BY <1>3, <2>3, FS_AddElement
  <2>6. Cardinality(Pending) + 1 <= Cardinality(Pending')
    BY <1>3, <2>4, <2>5, FS_Subset
  <2>7. Passed' = Passed /\ Passed \in Int
    BY <1>2, <2>1 DEF Passed
  <2> QED
    BY <1>2, <1>3, <2>1, <2>6, <2>7 DEF Counted
<1>8. ASSUME NEW s \in Sender, SendFinish(s)
      PROVE  Counted'
  <2>1. /\ spc[s] = "finish" /\ spc' = [spc EXCEPT ![s] = "idle"]
        /\ hstat[tgt[s]] = "WORKING"
        /\ hstat' = [hstat EXCEPT ![tgt[s]] = "DONE"]
        /\ UNCHANGED <<reg, counter, tgt, lpc, pos>>
    BY <1>8 DEF SendFinish, Claims, Busy
  <2>2. ASSUME NEW g \in 1..reg, Written(g) PROVE Written(g)'
    <3>1. g \in Handler
      BY AsyncAssumption DEF TypeOK, Handler
    <3>2. CASE hstat[g] = "DONE" \/ tgt[s] = g
      BY <2>1, <3>1, <3>2 DEF TypeOK, Written
    <3>3. CASE \E t \in Sender : spc[t] = "finish" /\ tgt[t] = g /\ t # s
      BY <2>1, <3>3 DEF TypeOK, Written
    <3> QED
      BY <2>2, <3>2, <3>3 DEF Written
  <2>3. Pending \subseteq Pending'
    BY <2>1, <2>2 DEF Pending
  <2> QED
    BY <1>2, <1>4, <2>1, <2>3 DEF Passed, Counted
<1>9. CASE EpollReport \/ SpinRead \/ UNCHANGED vars
  <2>1. UNCHANGED <<reg, counter, spc, tgt, hstat, pos>>
    BY <1>9 DEF EpollReport, SpinRead, vars
  <2>2. Passed' = Passed /\ Pending' = Pending
    BY <1>9, <2>1 DEF EpollReport, SpinRead, vars, Passed, Pending, Written
  <2>3. lpc' = "scan" => lpc = "scan"
    BY <1>9 DEF EpollReport, SpinRead, vars
  <2> QED
    BY <2>1, <2>2, <2>3 DEF Counted
<1>10. CASE EventfdRead
  <2>1. counter' = 0 /\ Passed' \in Nat
    BY <1>2, <1>10 DEF EventfdRead, Passed
  <2> QED
    BY <1>2, <1>3, <1>10, <2>1 DEF EventfdRead, Counted
<1>11. CASE SpinCasTakes
  <2>1. /\ lpc = "cas" /\ lpc' = "cb" /\ hstat[pos] = "DONE"
        /\ hstat' = [hstat EXCEPT ![pos] = "NO_PADDING"]
        /\ UNCHANGED <<reg, counter, spc, tgt, pos>>
    BY <1>11 DEF SpinCasTakes
  <2>2. ASSUME NEW g \in 1..reg, Written(g), g # pos PROVE Written(g)'
    <3>1. g \in Handler
      BY AsyncAssumption DEF TypeOK, Handler
    <3> QED
      BY <2>1, <2>2, <3>1 DEF TypeOK, Written
  <2>3. Pending \ {pos} \subseteq Pending'
    BY <2>1, <2>2 DEF Pending
  <2>4. /\ IsFiniteSet(Pending \ {pos})
        /\ Cardinality(Pending) <= Cardinality(Pending \ {pos}) + 1
    <3>1. /\ IsFiniteSet(Pending \ {pos})
          /\ Cardinality(Pending \ {pos}) =
                 IF pos \in Pending THEN Cardinality(Pending) - 1
                                   ELSE Cardinality(Pending)
      BY <1>3, FS_RemoveElement
    <3> QED
      BY <1>3, <3>1
  <2>5. /\ Cardinality(Pending \ {pos}) <= Cardinality(Pending')
        /\ Cardinality(Pending \ {pos}) \in Nat
    BY <1>3, <2>3, <2>4, FS_Subset, FS_CardinalityType
  <2>6. Passed = pos - 1 /\ Passed' = pos
    BY <2>1 DEF Passed
  <2> QED
    BY <1>2, <1>3, <2>1, <2>4, <2>5, <2>6 DEF Counted
<1>12. CASE SpinCasFails \/ CallbackReturns \/ ScanEnds
  <2>1. /\ UNCHANGED <<reg, counter, spc, tgt, hstat>>
        /\ lpc' = "scan" => pos' = pos + 1 /\ lpc \in {"cas", "cb"}
    BY <1>12 DEF SpinCasFails, CallbackReturns, ScanEnds
  <2>2. Pending' = Pending
    BY <2>1 DEF Pending, Written
  <2>3. lpc = "scan" => pos <= reg + 1
    BY DEF Counted
  <2>4. Passed <= Passed'
    <3>1. CASE SpinCasFails \/ CallbackReturns
      <4>1. lpc \in {"cas", "cb"} /\ lpc' = "scan" /\ pos' = pos + 1
        BY <3>1 DEF SpinCasFails, CallbackReturns
      <4>2. Passed \in {pos - 1, pos} /\ Passed' = pos' - 1
        BY <4>1 DEF Passed
      <4> QED
        BY <1>2, <4>1, <4>2
    <3>2. CASE ScanEnds
      BY <1>2, <2>3, <3>2 DEF ScanEnds, Passed
    <3> QED
      BY <1>12, <3>1, <3>2
  <2> QED
    BY <1>2, <1>4, <2>1, <2>2, <2>4 DEF Places
<1> QED
  BY <1>5, <1>6, <1>7, <1>8, <1>9, <1>10, <1>11, <1>12
     DEF Next, SendStep, LoopStep

(* The eventfd never holds more than twice the number of handlers, however *)
(* many threads send and however the walk is cut, so that the write of a   *)
(* send never finds it full (lc_eloop.c:81-86).                            *)
THEOREM EventfdStaysSmall == Spec => []EventfdBounded
<1>1. Init => IInv /\ Counted
  <2>1. ASSUME Init PROVE Counted
    <3>1. reg = 0 /\ counter = 0 /\ lpc = "wait"
      BY <2>1 DEF Init
    <3>2. Pending = {}
      BY <3>1 DEF Pending
    <3> QED
      BY <3>1, <3>2, FS_EmptySet DEF Counted, Passed
  <2> QED
    BY <2>1, InvInit
<1>2. IInv /\ Counted /\ [Next]_vars => IInv' /\ Counted'
  BY InvStep, CountedStep DEF IInv
<1>3. IInv /\ Counted => EventfdBounded
  <2> SUFFICES ASSUME IInv, Counted PROVE EventfdBounded
    OBVIOUS
  <2>1. reg \in Nat /\ pos \in Nat \ {0} /\ counter \in Nat
    BY AsyncAssumption DEF IInv, TypeOK
  <2>2. Cardinality(Pending) \in Nat /\ Cardinality(Pending) <= reg
    BY <2>1, CountUpTo DEF Pending
  <2>3. Passed \in Int /\ Passed <= reg
    BY <2>1 DEF IInv, TypeOK, Places, Counted, Passed
  <2> QED
    BY <2>1, <2>2, <2>3 DEF Counted, EventfdBounded
<1> QED
  BY <1>1, <1>2, <1>3, PTL DEF Spec
=============================================================================
