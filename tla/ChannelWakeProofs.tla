------------------------- MODULE ChannelWakeProofs -------------------------
(***************************************************************************)
(* Proofs about Channel that follow a coroutine from its block to the      *)
(* ready queue and back: who is in the lists, who is woken, and that the   *)
(* runtime loses none of those it can run; and then an element from its    *)
(* push to the pop that returns it: it is in one place at a time, and      *)
(* while the channel is open it is in one.  For any coroutines, threads,   *)
(* callbacks, channels and capacities; a theorem that needs malloc not to  *)
(* fail, or needs the loop's thread to be alone, says so.                  *)
(***************************************************************************)
EXTENDS ChannelProofs, FiniteSetTheorems

(* The coroutines of a list of waiters, and that each is in it once.       *)
Cos(s) == {s[i].co : i \in 1..Len(s)} \ {None}

OnceIn(s) ==
    \A i, j \in 1..Len(s) : s[i].co = s[j].co /\ s[i].co # None => i = j

(* The coroutine has blocked in a call on the channel, and not returned.   *)
Sleeps(c, k) == c \in Co /\ pc[c] \in {"parked", "asleep"} /\ ch[c] = k

(* Who is in a list of waiters sleeps in a call of that kind.              *)
WaitersSleep ==
    \A k \in Chan, c \in Co :
        /\ c \in Cos(w[k]) =>
               Sleeps(c, k) /\ op[c] = "push" /\ status[c] = "WAITING"
        /\ c \in Cos(r[k]) =>
               Sleeps(c, k) /\ op[c] = "pop" /\ status[c] = "WAITING"

ListedOnce == \A k \in Chan : OnceIn(w[k]) /\ OnceIn(r[k])

(* A pop has no element before it is given one.                            *)
ReadersEmpty ==
    /\ \A k \in Chan, c \in Co : c \in Cos(r[k]) => ele[c] = None
    /\ \A a \in Actor :
           op[a] \in Pops /\ pc[a] \in {"lock", "refused"} => ele[a] = None

(* Whoever has been taken out of a list sleeps until it is woken, and      *)
(* cannot return before its waker has released the mutex.                  *)
Woken_OK(a) ==
    pc[a] \in {"wake", "join"} /\ tgt[a].co # None =>
        /\ Sleeps(tgt[a].co, ch[a])
        /\ tgt[a].co \notin Cos(w[ch[a]]) \cup Cos(r[ch[a]])
        /\ pc[a] = "wake" => status[tgt[a].co] = "WAITING"

WokenSleep == \A a \in Actor : Woken_OK(a)

NoSpin == \A a \in Actor : pc[a] # "spin"

(* The status of the coroutine that runs.  A thread may wake one that has  *)
(* parked and not switched contexts yet.                                   *)
RunnerRuns ==
    loop = "run" /\ cur \in Co => status[cur] = "RUNNING" \/ pc[cur] = "parked"

Sleepers ==
    WaitersSleep /\ ListedOnce /\ ReadersEmpty /\ WokenSleep /\ NoSpin /\ RunnerRuns

-----------------------------------------------------------------------------
(* What the first waiter of a list leaves when it is taken out, and a new  *)
(* waiter adds at the front.                                               *)
LEMMA CosTail ==
    ASSUME NEW s \in Seq(Waiter), s # <<>>
    PROVE  /\ Head(s) \in Waiter
           /\ Cos(s) = Cos(Tail(s)) \cup ({Head(s).co} \ {None})
           /\ OnceIn(s) => OnceIn(Tail(s)) /\ Head(s).co \notin Cos(Tail(s))
<1>1. /\ Len(s) \in Nat \ {0} /\ Head(s) = s[1] /\ Len(Tail(s)) = Len(s) - 1
      /\ \A i \in 1..Len(Tail(s)) : Tail(s)[i] = s[i + 1] /\ i + 1 \in 1..Len(s)
      /\ 1 \in 1..Len(s) /\ s[1] \in Waiter
  OBVIOUS
<1>2. \A i \in 1..Len(s) : i = 1 \/ (i - 1 \in 1..Len(Tail(s)) /\ Tail(s)[i - 1] = s[i])
  BY <1>1
<1>3. Cos(s) \subseteq Cos(Tail(s)) \cup ({Head(s).co} \ {None})
  BY <1>1, <1>2 DEF Cos
<1>4. Cos(Tail(s)) \cup ({Head(s).co} \ {None}) \subseteq Cos(s)
  BY <1>1 DEF Cos
<1>5. OnceIn(s) => OnceIn(Tail(s))
  BY <1>1 DEF OnceIn
<1>6. OnceIn(s) => Head(s).co \notin Cos(Tail(s))
  BY <1>1 DEF OnceIn, Cos
<1> QED
  BY <1>1, <1>3, <1>4, <1>5, <1>6

LEMMA CosPush ==
    ASSUME NEW s \in Seq(Waiter), NEW x \in Waiter
    PROVE  /\ Cos(<<x>> \o s) = Cos(s) \cup ({x.co} \ {None})
           /\ OnceIn(s) /\ x.co \notin Cos(s) => OnceIn(<<x>> \o s)
<1> DEFINE t == <<x>> \o s
<1>1. /\ Len(s) \in Nat /\ Len(t) = Len(s) + 1 /\ t[1] = x
      /\ \A i \in 1..Len(s) : t[i + 1] = s[i] /\ i + 1 \in 1..Len(t)
      /\ 1 \in 1..Len(t)
  OBVIOUS
<1> HIDE DEF t
<1>2. \A i \in 1..Len(t) : i = 1 \/ (i - 1 \in 1..Len(s) /\ s[i - 1] = t[i])
  BY <1>1
<1>3. Cos(t) \subseteq Cos(s) \cup ({x.co} \ {None})
  BY <1>1, <1>2 DEF Cos
<1>4. Cos(s) \cup ({x.co} \ {None}) \subseteq Cos(t)
  BY <1>1 DEF Cos
<1>5. OnceIn(s) /\ x.co \notin Cos(s) => OnceIn(t)
  <2> SUFFICES ASSUME OnceIn(s), x.co \notin Cos(s),
                      NEW i \in 1..Len(t), NEW j \in 1..Len(t),
                      t[i].co = t[j].co, t[i].co # None
               PROVE  i = j
    BY DEF OnceIn
  <2>1. CASE i = 1 /\ j # 1
    BY <1>1, <1>2, <2>1 DEF Cos
  <2>2. CASE i # 1 /\ j = 1
    BY <1>1, <1>2, <2>2 DEF Cos
  <2>3. CASE i # 1 /\ j # 1
    <3>1. /\ i - 1 \in 1..Len(s) /\ s[i - 1] = t[i]
          /\ j - 1 \in 1..Len(s) /\ s[j - 1] = t[j]
      BY <1>2, <2>3
    <3>2. i - 1 = j - 1
      BY <3>1 DEF OnceIn
    <3> QED
      BY <1>1, <3>2
  <2> QED
    BY <2>1, <2>2, <2>3
<1> QED
  BY <1>3, <1>4, <1>5 DEF t

(* Everything of the other actors stays, and the call of a is over.        *)
Others(a) ==
    \A b \in Actor \ {a} : /\ pc'[b] = pc[b] /\ op'[b] = op[b] /\ ch'[b] = ch[b]
                           /\ ele'[b] = ele[b] /\ tgt'[b] = tgt[b]

LEMMA NoneNotOp == None \notin Op /\ None \notin Co /\ None \notin Actor
  BY RuntimeAssumption, ChannelAssumption DEF Actor

LEMMA ReturnMoves ==
    ASSUME TypeOK, NEW a \in Actor, NEW acc, NEW rec, Return(a, acc, rec)
    PROVE  /\ pc'[a] = "user" /\ op'[a] = None /\ op'[a] \notin Pops
           /\ Others(a)
  BY NoneNotOp DEF Return, TypeOK, CallTypeOK, Others, Pops, Op

LEMMA ServedMoves ==
    ASSUME TypeOK, PlainTargets, NEW a \in Actor, Served(a), pc[a] \in {"wake", "join"}
    PROVE  /\ pc'[a] \in {"user", "drain"} /\ op'[a] \notin Pops
           /\ Others(a)
<1>1. tgt[a].kind # "select"
  BY DEF PlainTargets
<1>2. CASE op[a] = "close"
  BY <1>2 DEF Served, HoldAt, acvars, TypeOK, CallTypeOK, Others, Pops
<1>3. CASE op[a] # "close"
  BY <1>1, <1>3, ReturnMoves DEF Served
<1> QED
  BY <1>2, <1>3

(* A step of actors that do not sleep, and that leaves the lists and the   *)
(* status of the sleepers, keeps the sleepers where they are.              *)
LEMMA AwakeMoves ==
    ASSUME TypeOK, CallsOK, Sleepers, NEW M \in SUBSET Actor,
           \A b \in Actor \ M : /\ pc'[b] = pc[b] /\ op'[b] = op[b]
                                /\ ch'[b] = ch[b] /\ ele'[b] = ele[b]
                                /\ tgt'[b] = tgt[b],
           \A a \in M : /\ pc[a] \notin {"parked", "asleep"}
                        /\ pc'[a] \notin {"wake", "join", "spin"}
                        /\ op'[a] \in Pops /\ pc'[a] \in {"lock", "refused"} =>
                               ele'[a] = None,
           \A k \in Chan : Cos(w'[k]) = Cos(w[k]) /\ Cos(r'[k]) = Cos(r[k]),
           \A k \in Chan : OnceIn(w'[k]) /\ OnceIn(r'[k]),
           \A c \in Co : status[c] = "WAITING" => status'[c] = "WAITING",
           UNCHANGED <<status, loop, cur>> \/ RunnerRuns'
    PROVE  Sleepers'
<1>1. \A c \in Co, k \in Chan : Sleeps(c, k) =>
          Sleeps(c, k)' /\ op'[c] = op[c] /\ ele'[c] = ele[c]
  BY DEF Sleeps, Actor
<1>2. WaitersSleep'
  BY <1>1 DEF Sleepers, WaitersSleep
<1>3. ReadersEmpty'
  <2>1. \A k \in Chan, c \in Co : c \in Cos(r'[k]) => ele'[c] = None
    BY <1>1 DEF Sleepers, WaitersSleep, ReadersEmpty
  <2> QED
    BY <2>1 DEF Sleepers, ReadersEmpty
<1>4. NoSpin'
  BY DEF Sleepers, NoSpin
<1>5. ASSUME NEW a \in Actor PROVE Woken_OK(a)'
  <2>1. CASE pc'[a] \in {"wake", "join"} /\ tgt'[a].co # None
    <3>1. pc'[a] = pc[a] /\ ch'[a] = ch[a] /\ tgt'[a] = tgt[a]
      BY <2>1
    <3>2. /\ Sleeps(tgt[a].co, ch[a])
          /\ tgt[a].co \notin Cos(w[ch[a]]) \cup Cos(r[ch[a]])
          /\ pc[a] = "wake" => status[tgt[a].co] = "WAITING"
      BY <2>1, <3>1 DEF Sleepers, WokenSleep, Woken_OK
    <3>3. tgt[a].co \in Co /\ ch[a] \in Chan
      BY <2>1, <3>1, <3>2 DEF Sleeps, CallsOK, Call_OK, Holding
    <3>4. Sleeps(tgt[a].co, ch[a])'
      BY <1>1, <3>1, <3>2, <3>3 DEF Sleeps
    <3> QED
      BY <3>1, <3>2, <3>3, <3>4 DEF Woken_OK
  <2> QED
    BY <2>1 DEF Woken_OK
<1>6. RunnerRuns'
  <2>1. CASE UNCHANGED <<status, loop, cur>>
    BY <2>1 DEF Sleepers, RunnerRuns, Actor
  <2> QED
    BY <2>1
<1> QED
  BY <1>2, <1>3, <1>4, <1>5, <1>6 DEF Sleepers, ListedOnce, WokenSleep

(* The actor a takes the waiter x out of a list of channel k, to wake it.  *)
Takes(a, k, x) ==
    /\ k = ch[a] /\ pc[a] \in {"lock", "drain"}
    /\ lock[k] = None \/ pc[a] \in Holding
    /\ pc' = [pc EXCEPT ![a] = "wake"]
    /\ tgt' = [tgt EXCEPT ![a] = x]
    /\ UNCHANGED <<op, ch, rtvars>>
    /\ \A j \in Chan \ {k} : w'[j] = w[j] /\ r'[j] = r[j]
    /\ OnceIn(w'[k]) /\ OnceIn(r'[k])
    /\ x.co \notin Cos(w'[k]) \cup Cos(r'[k])
    /\ Cos(w[k]) \cup Cos(r[k]) =
           Cos(w'[k]) \cup Cos(r'[k]) \cup ({x.co} \ {None})
    /\ Cos(w'[k]) \subseteq Cos(w[k]) /\ Cos(r'[k]) \subseteq Cos(r[k])
    /\ \A b \in Actor \ {a, x.co} : ele'[b] = ele[b]

LEMMA TakesWriter ==
    ASSUME TypeOK, CallsOK, Sleepers,
           NEW a \in Actor, DrainWriter(a) \/ PopFromWriter(a)
    PROVE  \E k \in Chan, x \in Waiter : Takes(a, k, x)
<1>1. /\ ch[a] \in Chan /\ w[ch[a]] # <<>> /\ pc[a] \in {"lock", "drain"}
      /\ lock[ch[a]] = None \/ pc[a] \in Holding
      /\ pc' = [pc EXCEPT ![a] = "wake"]
      /\ w' = [w EXCEPT ![ch[a]] = Tail(@)]
      /\ tgt' = [tgt EXCEPT ![a] = Head(w[ch[a]])]
      /\ UNCHANGED <<op, ch, r, rtvars>>
      /\ \A b \in Actor \ {a} : ele'[b] = ele[b]
  BY DEF DrainWriter, PopFromWriter, Enters, HoldAt, Holding, CallsOK, Call_OK,
         TypeOK, CallTypeOK
<1>2. PICK k \in Chan : k = ch[a]
  BY <1>1
<1>3. PICK x : x = Head(w[k])
  OBVIOUS
<1>4. /\ w[k] \in Seq(Waiter) /\ w'[k] = Tail(w[k]) /\ r'[k] = r[k]
      /\ \A j \in Chan \ {k} : w'[j] = w[j] /\ r'[j] = r[j]
      /\ OnceIn(w[k]) /\ OnceIn(r[k])
  BY <1>1, <1>2 DEF TypeOK, ChannelTypeOK, Sleepers, ListedOnce
<1>5. /\ x \in Waiter /\ OnceIn(w'[k]) /\ x.co \notin Cos(w'[k])
      /\ Cos(w[k]) = Cos(w'[k]) \cup ({x.co} \ {None})
  BY <1>1, <1>2, <1>3, <1>4, CosTail
<1>6. x.co \notin Cos(r[k])
  <2>1. x.co \in Cos(w[k]) \/ x.co = None
    BY <1>5
  <2> QED
    BY <1>5, <2>1 DEF Waiter, Cos, Sleepers, WaitersSleep
<1>7. Takes(a, k, x)
  BY <1>1, <1>2, <1>3, <1>4, <1>5, <1>6 DEF Takes
<1> QED
  BY <1>5, <1>7

LEMMA TakesReader ==
    ASSUME TypeOK, CallsOK, Sleepers,
           NEW a \in Actor, DrainReader(a) \/ PushToReader(a)
    PROVE  \E k \in Chan, x \in Waiter : Takes(a, k, x)
<1>1. /\ ch[a] \in Chan /\ r[ch[a]] # <<>> /\ pc[a] \in {"lock", "drain"}
      /\ lock[ch[a]] = None \/ pc[a] \in Holding
      /\ pc' = [pc EXCEPT ![a] = "wake"]
      /\ r' = [r EXCEPT ![ch[a]] = Tail(@)]
      /\ tgt' = [tgt EXCEPT ![a] = Head(r[ch[a]])]
      /\ UNCHANGED <<op, ch, w, rtvars>>
      /\ \A b \in Actor \ {Head(r[ch[a]]).co} : ele'[b] = ele[b]
  BY DEF DrainReader, PushToReader, Enters, HoldAt, Holding, CallsOK, Call_OK,
         TypeOK, CallTypeOK
<1>2. PICK k \in Chan : k = ch[a]
  BY <1>1
<1>3. PICK x : x = Head(r[k])
  OBVIOUS
<1>4. /\ r[k] \in Seq(Waiter) /\ r'[k] = Tail(r[k]) /\ w'[k] = w[k]
      /\ \A j \in Chan \ {k} : w'[j] = w[j] /\ r'[j] = r[j]
      /\ OnceIn(w[k]) /\ OnceIn(r[k])
  BY <1>1, <1>2 DEF TypeOK, ChannelTypeOK, Sleepers, ListedOnce
<1>5. /\ x \in Waiter /\ OnceIn(r'[k]) /\ x.co \notin Cos(r'[k])
      /\ Cos(r[k]) = Cos(r'[k]) \cup ({x.co} \ {None})
  BY <1>1, <1>2, <1>3, <1>4, CosTail
<1>6. x.co \notin Cos(w[k])
  <2>1. x.co \in Cos(r[k]) \/ x.co = None
    BY <1>5
  <2> QED
    BY <1>5, <2>1 DEF Waiter, Cos, Sleepers, WaitersSleep
<1>7. Takes(a, k, x)
  BY <1>1, <1>2, <1>3, <1>4, <1>5, <1>6 DEF Takes
<1> QED
  BY <1>5, <1>7

LEMMA TakeMoves ==
    ASSUME TypeOK, CallsOK, Mutex, Sleepers,
           NEW a \in Actor, NEW k \in Chan, NEW x \in Waiter, Takes(a, k, x)
    PROVE  Sleepers'
<1> USE DEF Takes, rtvars
<1>1. \A c \in Co, j \in Chan : Sleeps(c, j) => Sleeps(c, j)' /\ c # a
  BY DEF Sleeps, TypeOK, CallTypeOK, Actor
<1>2. \A b \in Actor \ {a} : pc'[b] = pc[b] /\ tgt'[b] = tgt[b]
  BY DEF TypeOK, CallTypeOK
<1>3. pc'[a] = "wake" /\ tgt'[a] = x
  BY DEF TypeOK, CallTypeOK
<1>4. \A j \in Chan : Cos(w'[j]) \subseteq Cos(w[j]) /\ Cos(r'[j]) \subseteq Cos(r[j])
  OBVIOUS
<1>5. WaitersSleep'
  BY <1>1, <1>4 DEF Sleepers, WaitersSleep
<1>6. ListedOnce'
  BY DEF Sleepers, ListedOnce
(* Whoever is in a list sleeps in a call on that list's channel.           *)
<1>7. \A j \in Chan \ {k} : x.co \notin Cos(w[j]) \cup Cos(r[j])
  <2>1. CASE x.co \in Cos(w[k]) \cup Cos(r[k])
    <3>1. PICK c : c = x.co
      OBVIOUS
    <3>2. c \in Co /\ k \in Chan
      BY <2>1, <3>1 DEF Waiter, Cos
    <3>3. \A j \in Chan : c \in Cos(w[j]) \cup Cos(r[j]) => ch[c] = j
      BY ONLY Sleepers, <3>2 DEF Sleepers, WaitersSleep, Sleeps
    <3> QED
      BY ONLY <2>1, <3>1, <3>2, <3>3
  <2>2. CASE x.co = None
    BY <2>2 DEF Cos
  <2> QED
    BY <2>1, <2>2
<1>8. ReadersEmpty'
  <2>1. ASSUME NEW j \in Chan, NEW c \in Co, c \in Cos(r'[j])
        PROVE  ele'[c] = None
    <3>1. c \in Cos(r[j]) /\ Sleeps(c, j)
      BY <1>4, <2>1 DEF Sleepers, WaitersSleep
    <3>2. c # a /\ c # x.co
      BY <1>1, <1>7, <2>1, <3>1
    <3>3. ele'[c] = ele[c]
      BY <3>2 DEF Actor
    <3> QED
      BY <3>1, <3>3 DEF Sleepers, ReadersEmpty
  <2>2. ASSUME NEW b \in Actor, op'[b] \in Pops, pc'[b] \in {"lock", "refused"}
        PROVE  ele'[b] = None
    <3>1. b # a /\ pc[b] \in {"lock", "refused"} /\ op[b] \in Pops
      BY <1>2, <1>3, <2>2
    <3>2. b \in Co => b # x.co
      <4>1. b \in Co /\ b = x.co => Sleeps(b, k)
        BY NoneNotOp DEF Sleepers, WaitersSleep
      <4> QED
        BY <3>1, <4>1 DEF Sleeps
    <3>3. b # x.co
      BY <3>2, NoneNotOp DEF Waiter
    <3> QED
      BY <3>1, <3>3 DEF Sleepers, ReadersEmpty
  <2> QED
    BY <2>1, <2>2 DEF ReadersEmpty
<1>9. NoSpin'
  BY <1>2, <1>3 DEF Sleepers, NoSpin
<1>10. ASSUME NEW b \in Actor PROVE Woken_OK(b)'
  <2>1. CASE b = a
    <3>1. x.co # None => x.co \in Co /\ (x.co \in Cos(w[k]) \/ x.co \in Cos(r[k]))
      BY DEF Waiter
    <3>2. x.co # None => Sleeps(x.co, k) /\ status[x.co] = "WAITING"
      BY <3>1 DEF Sleepers, WaitersSleep
    <3>3. x.co # None => Sleeps(x.co, k)'
      BY <1>1, <3>1, <3>2
    <3> QED
      BY <1>3, <2>1, <3>2, <3>3 DEF Woken_OK, Sleeps
  <2>2. CASE b # a
    <3>1. CASE pc'[b] \in {"wake", "join"} /\ tgt'[b].co # None
      <4>1. pc[b] \in Holding /\ ch[b] \in Chan /\ ch[b] # k
        BY <1>2, <2>2, <3>1, Elsewhere DEF Holding
      <4>2. /\ Sleeps(tgt[b].co, ch[b])
            /\ tgt[b].co \notin Cos(w[ch[b]]) \cup Cos(r[ch[b]])
            /\ pc[b] = "wake" => status[tgt[b].co] = "WAITING"
        BY <1>2, <2>2, <3>1 DEF Sleepers, WokenSleep, Woken_OK
      <4>3. Sleeps(tgt[b].co, ch[b])'
        BY <1>1, <1>2, <2>2, <4>1, <4>2 DEF Sleeps
      <4> QED
        BY <1>2, <2>2, <4>1, <4>2, <4>3 DEF Woken_OK
    <3> QED
      BY <3>1 DEF Woken_OK
  <2> QED
    BY <2>1, <2>2
<1>11. RunnerRuns'
  <2>1. cur \in Co /\ pc[cur] = "parked" => pc'[cur] = "parked"
    BY <1>2 DEF Actor
  <2> QED
    BY <2>1 DEF Sleepers, RunnerRuns
<1> QED
  BY <1>5, <1>6, <1>8, <1>9, <1>10, <1>11 DEF Sleepers, WokenSleep

(* A wake makes its sleeper READY, for good: nobody else has it.           *)
LEMMA WakeMoves ==
    ASSUME TypeOK, CallsOK, Mutex, Sleepers, NEW a \in Actor, Wake(a)
    PROVE  /\ Sleepers'
           /\ tgt[a].co \in Co /\ status[tgt[a].co] = "WAITING"
           /\ status' = [status EXCEPT ![tgt[a].co] = "READY"]
           /\ pc' = [pc EXCEPT ![a] = "join"]
<1> DEFINE c == tgt[a].co
<1>1. pc[a] = "wake" /\ c # None /\ ch[a] \in Chan /\ a \in Actor
  BY DEF Wake, Sleepers, NoSpin, CallsOK, Call_OK, Holding
<1>2. Sleeps(c, ch[a]) /\ c \notin Cos(w[ch[a]]) \cup Cos(r[ch[a]])
      /\ status[c] = "WAITING" /\ c \in Co
  BY <1>1 DEF Sleepers, WokenSleep, Woken_OK, Sleeps
<1>3. /\ status' = [status EXCEPT ![c] = "READY"]
      /\ pc' = [pc EXCEPT ![a] = "join"]
      /\ UNCHANGED <<op, ch, ele, tgt, w, r, loop, cur>>
  BY <1>2 DEF Wake, HoldAt, chvars, acvars
<1>4. \A d \in Co, k \in Chan : Sleeps(d, k) => Sleeps(d, k)'
  BY <1>1, <1>3 DEF Sleeps, TypeOK, CallTypeOK, Actor
<1>5. \A d \in Co \ {c} : status'[d] = status[d]
  BY <1>3 DEF TypeOK, RuntimeTypeOK
<1>6. \A k \in Chan : c \notin Cos(w[k]) \cup Cos(r[k])
  BY <1>2 DEF Sleeps, Sleepers, WaitersSleep
<1>7. WaitersSleep'
  <2> SUFFICES ASSUME NEW k \in Chan, NEW d \in Co
               PROVE  /\ d \in Cos(w'[k]) =>
                            Sleeps(d, k)' /\ op'[d] = "push" /\ status'[d] = "WAITING"
                      /\ d \in Cos(r'[k]) =>
                            Sleeps(d, k)' /\ op'[d] = "pop" /\ status'[d] = "WAITING"
    BY DEF WaitersSleep
  <2>1. d \in Cos(w[k]) \cup Cos(r[k]) => d # c
    BY <1>6
  <2> QED
    BY <1>3, <1>4, <1>5, <2>1 DEF Sleepers, WaitersSleep
<1>8. ASSUME NEW b \in Actor PROVE Woken_OK(b)'
  <2>1. CASE b = a
    BY <1>1, <1>2, <1>3, <1>4, <2>1 DEF Woken_OK, TypeOK, CallTypeOK
  <2>2. CASE b # a /\ pc'[b] \in {"wake", "join"} /\ tgt'[b].co # None
    <3>1. pc'[b] = pc[b] /\ ch[b] \in Chan /\ ch[b] # ch[a] /\ pc[b] \in Holding
      BY <1>1, <1>3, <2>2, Elsewhere DEF TypeOK, CallTypeOK, Holding
    <3>2. /\ Sleeps(tgt[b].co, ch[b])
          /\ tgt[b].co \notin Cos(w[ch[b]]) \cup Cos(r[ch[b]])
          /\ pc[b] = "wake" => status[tgt[b].co] = "WAITING"
      BY <1>3, <2>2, <3>1 DEF Sleepers, WokenSleep, Woken_OK
    <3>3. tgt[b].co # c /\ tgt[b].co \in Co
      BY <1>2, <3>1, <3>2 DEF Sleeps
    <3> QED
      BY <1>3, <1>4, <1>5, <3>1, <3>2, <3>3 DEF Woken_OK
  <2> QED
    BY <2>1, <2>2 DEF Woken_OK
<1>9. ReadersEmpty' /\ ListedOnce' /\ NoSpin'
  BY <1>1, <1>3 DEF Sleepers, ReadersEmpty, ListedOnce, NoSpin, TypeOK, CallTypeOK
<1>10. RunnerRuns'
  <2>1. loop = "run" /\ cur = c => pc[c] = "parked" /\ pc'[c] = "parked"
    BY <1>1, <1>2, <1>3 DEF Sleepers, RunnerRuns, TypeOK, CallTypeOK, Sleeps, Actor
  <2>2. cur \in Co /\ pc[cur] = "parked" => pc'[cur] = "parked"
    BY <1>1, <1>3 DEF TypeOK, CallTypeOK, Actor
  <2> QED
    BY <1>3, <1>5, <2>1, <2>2 DEF Sleepers, RunnerRuns
<1> QED
  BY <1>2, <1>3, <1>7, <1>8, <1>9, <1>10 DEF Sleepers, WokenSleep

(* A coroutine that blocks was in no list, and goes into one at most.      *)
LEMMA BlockMoves ==
    ASSUME TypeOK, CallsOK, Sleepers, NEW a \in Co, NEW malloc \in Mallocs,
           Block(a, malloc)
    PROVE  Sleepers'
<1>1. /\ a \in Actor /\ ch[a] \in Chan /\ pc[a] = "refused"
      /\ op[a] \in {"push", "pop"} /\ loop = "run" /\ cur = a
      /\ status' = [status EXCEPT ![a] = "WAITING"]
      /\ pc' = [pc EXCEPT ![a] = "parked"]
      /\ UNCHANGED <<op, ch, ele, tgt, loop, cur>>
  BY ChannelAssumption
     DEF Block, Executes, Actor, CallsOK, Call_OK, Holding, acvars
<1>2. PICK k \in Chan : k = ch[a]
  BY <1>1
<1>3. PICK x : x = [co |-> a, ele |-> ele[a], kind |-> "plain"]
  OBVIOUS
<1>4. x \in Waiter /\ x.co = a
  BY <1>1, <1>3 DEF Waiter, TypeOK, CallTypeOK
<1>5. /\ w[k] \in Seq(Waiter) /\ r[k] \in Seq(Waiter)
      /\ \A j \in Chan : OnceIn(w[j]) /\ OnceIn(r[j])
      /\ \A j \in Chan : a \notin Cos(w[j]) \cup Cos(r[j])
  BY <1>1, <1>2 DEF TypeOK, ChannelTypeOK, Sleepers, ListedOnce, WaitersSleep, Sleeps
<1>6. /\ w' = IF op[a] = "push" /\ malloc = "ok"
              THEN [w EXCEPT ![k] = <<x>> \o @] ELSE w
      /\ r' = IF op[a] = "pop" /\ malloc = "ok"
              THEN [r EXCEPT ![k] = <<x>> \o @] ELSE r
  BY <1>2, <1>3 DEF Block
<1>7. /\ \A j \in Chan : OnceIn(w'[j])
      /\ \A j \in Chan : \/ Cos(w'[j]) = Cos(w[j])
                         \/ /\ j = k /\ op[a] = "push"
                            /\ Cos(w'[j]) = Cos(w[j]) \cup {a}
  <2>1. CASE w' = w
    BY <1>5, <2>1
  <2>2. CASE op[a] = "push" /\ malloc = "ok"
    <3>1. \A j \in Chan : w'[j] = IF j = k THEN <<x>> \o w[j] ELSE w[j]
      BY <1>6, <2>2 DEF TypeOK, ChannelTypeOK
    <3>2. /\ Cos(<<x>> \o w[k]) = Cos(w[k]) \cup {a}
          /\ OnceIn(<<x>> \o w[k])
      BY <1>4, <1>5, CosPush, NoneNotOp
    <3> QED
      BY <1>5, <2>2, <3>1, <3>2
  <2> QED
    BY <1>6, <2>1, <2>2
<1>8. /\ \A j \in Chan : OnceIn(r'[j])
      /\ \A j \in Chan : \/ Cos(r'[j]) = Cos(r[j])
                         \/ /\ j = k /\ op[a] = "pop"
                            /\ Cos(r'[j]) = Cos(r[j]) \cup {a}
  <2>1. CASE r' = r
    BY <1>5, <2>1
  <2>2. CASE op[a] = "pop" /\ malloc = "ok"
    <3>1. \A j \in Chan : r'[j] = IF j = k THEN <<x>> \o r[j] ELSE r[j]
      BY <1>6, <2>2 DEF TypeOK, ChannelTypeOK
    <3>2. /\ Cos(<<x>> \o r[k]) = Cos(r[k]) \cup {a}
          /\ OnceIn(<<x>> \o r[k])
      BY <1>4, <1>5, CosPush, NoneNotOp
    <3> QED
      BY <1>5, <2>2, <3>1, <3>2
  <2> QED
    BY <1>6, <2>1, <2>2
<1>9. /\ \A c \in Co, j \in Chan : Sleeps(c, j) => Sleeps(c, j)' /\ c # a
      /\ Sleeps(a, k)' /\ status'[a] = "WAITING"
      /\ \A c \in Co \ {a} : status'[c] = status[c]
      /\ \A b \in Actor \ {a} : pc'[b] = pc[b]
      /\ pc'[a] = "parked"
  BY <1>1, <1>2 DEF Sleeps, TypeOK, CallTypeOK, RuntimeTypeOK, Actor
<1>10. WaitersSleep'
  <2> SUFFICES ASSUME NEW j \in Chan, NEW c \in Co
               PROVE  /\ c \in Cos(w'[j]) =>
                            Sleeps(c, j)' /\ op'[c] = "push" /\ status'[c] = "WAITING"
                      /\ c \in Cos(r'[j]) =>
                            Sleeps(c, j)' /\ op'[c] = "pop" /\ status'[c] = "WAITING"
    BY DEF WaitersSleep
  <2>1. CASE c = a
    BY <1>1, <1>5, <1>7, <1>8, <1>9, <2>1
  <2>2. CASE c # a
    BY <1>1, <1>7, <1>8, <1>9, <2>2 DEF Sleepers, WaitersSleep
  <2> QED
    BY <2>1, <2>2
<1>11. ReadersEmpty'
  <2>1. op[a] = "pop" => ele[a] = None
    BY <1>1 DEF Sleepers, ReadersEmpty, Pops
  <2>2. \A j \in Chan, c \in Co : c \in Cos(r'[j]) => ele'[c] = None
    BY <1>1, <1>8, <2>1 DEF Sleepers, ReadersEmpty
  <2>3. \A b \in Actor :
            op'[b] \in Pops /\ pc'[b] \in {"lock", "refused"} => ele'[b] = None
    BY <1>1, <1>9 DEF Sleepers, ReadersEmpty
  <2> QED
    BY <2>2, <2>3 DEF ReadersEmpty
<1>12. ASSUME NEW b \in Actor PROVE Woken_OK(b)'
  <2>1. CASE pc'[b] \in {"wake", "join"} /\ tgt'[b].co # None
    <3>1. b # a /\ pc'[b] = pc[b] /\ ch[b] \in Chan
      BY <1>9, <2>1 DEF CallsOK, Call_OK, Holding
    <3>2. /\ Sleeps(tgt[b].co, ch[b])
          /\ tgt[b].co \notin Cos(w[ch[b]]) \cup Cos(r[ch[b]])
          /\ pc[b] = "wake" => status[tgt[b].co] = "WAITING"
      BY <1>1, <2>1, <3>1 DEF Sleepers, WokenSleep, Woken_OK
    <3>3. tgt[b].co \in Co /\ tgt[b].co # a /\ Sleeps(tgt[b].co, ch[b])'
      BY <1>1, <1>9, <3>1, <3>2 DEF Sleeps
    <3> QED
      BY <1>1, <1>7, <1>8, <1>9, <3>1, <3>2, <3>3 DEF Woken_OK
  <2> QED
    BY <2>1 DEF Woken_OK
<1>13. ListedOnce' /\ NoSpin' /\ RunnerRuns'
  BY <1>1, <1>7, <1>8, <1>9 DEF Sleepers, ListedOnce, NoSpin, RunnerRuns
<1> QED
  BY <1>10, <1>11, <1>12, <1>13 DEF Sleepers, WokenSleep

(* A coroutine that gets back from its block is in no list, and no waker   *)
(* is at work on it: the mutex is free.                                    *)
LEMMA RelockMoves ==
    ASSUME TypeOK, CallsOK, Mutex, Sleepers, NEW a \in Co, Relock(a)
    PROVE  Sleepers'
<1>1. /\ a \in Actor /\ ch[a] \in Chan /\ pc[a] = "asleep"
      /\ loop = "run" /\ cur = a /\ lock[ch[a]] = None
      /\ UNCHANGED <<w, r, status, loop, cur>>
  BY ChannelAssumption
     DEF Relock, Executes, Actor, CallsOK, Call_OK, rtvars, chvars
<1>2. status[a] = "RUNNING"
  BY <1>1 DEF Sleepers, RunnerRuns
<1>3. pc'[a] = "user" /\ op'[a] \notin Pops /\ Others(a)
  BY <1>1, ReturnMoves DEF Relock
<1>4. \A c \in Co, j \in Chan : c # a /\ Sleeps(c, j) => Sleeps(c, j)'
  BY <1>3 DEF Sleeps, Others, Actor
<1>5. \A j \in Chan : a \notin Cos(w[j]) \cup Cos(r[j])
  BY <1>2 DEF Sleepers, WaitersSleep
<1>6. WaitersSleep'
  BY <1>1, <1>3, <1>4, <1>5 DEF Sleepers, WaitersSleep, Others, Actor
<1>7. ReadersEmpty'
  <2>1. \A j \in Chan, c \in Co : c \in Cos(r'[j]) => ele'[c] = None
    BY <1>1, <1>3, <1>5 DEF Sleepers, ReadersEmpty, Others, Actor
  <2>2. \A b \in Actor :
            op'[b] \in Pops /\ pc'[b] \in {"lock", "refused"} => ele'[b] = None
    BY <1>3 DEF Sleepers, ReadersEmpty, Others
  <2> QED
    BY <2>1, <2>2 DEF ReadersEmpty
<1>8. ASSUME NEW b \in Actor PROVE Woken_OK(b)'
  <2>1. CASE pc'[b] \in {"wake", "join"} /\ tgt'[b].co # None
    <3>1. b # a /\ pc'[b] = pc[b] /\ ch'[b] = ch[b] /\ tgt'[b] = tgt[b]
      BY <1>3, <2>1 DEF Others
    <3>2. /\ Sleeps(tgt[b].co, ch[b])
          /\ tgt[b].co \notin Cos(w[ch[b]]) \cup Cos(r[ch[b]])
          /\ pc[b] = "wake" => status[tgt[b].co] = "WAITING"
      BY <2>1, <3>1 DEF Sleepers, WokenSleep, Woken_OK
    <3>3. tgt[b].co # a
      BY <1>1, <2>1, <3>1, <3>2, NoneNotOp DEF Sleeps, Mutex, Holding
    <3>4. Sleeps(tgt[b].co, ch[b])'
      BY <3>1, <3>2, <3>3, <1>3 DEF Sleeps, Others, Actor
    <3> QED
      BY <1>1, <3>1, <3>2, <3>4 DEF Woken_OK
  <2> QED
    BY <2>1 DEF Woken_OK
<1>9. ListedOnce' /\ NoSpin' /\ RunnerRuns'
  BY <1>1, <1>2, <1>3 DEF Sleepers, ListedOnce, NoSpin, RunnerRuns, Others
<1> QED
  BY <1>6, <1>7, <1>8, <1>9 DEF Sleepers, WokenSleep

(* A coroutine that has parked switches contexts.                          *)
LEMMA ParkMoves ==
    ASSUME TypeOK, Sleepers, NEW a \in Co, Park(a)
    PROVE  Sleepers'
<1>1. /\ a \in Actor /\ pc[a] = "parked" /\ cur = a /\ loop' = "resumed"
      /\ pc' = [pc EXCEPT ![a] = "asleep"]
      /\ status' = [status EXCEPT ![a] = IF status[a] = "RUNNING" THEN "READY"
                                         ELSE status[a]]
      /\ UNCHANGED <<op, ch, ele, tgt, w, r>>
  BY ChannelAssumption DEF Park, Executes, Actor, SwapOut, chvars, acvars
<1>2. /\ \A c \in Co, j \in Chan : Sleeps(c, j) => Sleeps(c, j)'
      /\ \A c \in Co : status[c] = "WAITING" => status'[c] = "WAITING"
      /\ \A b \in Actor : pc'[b] = pc[b] \/ pc'[b] = "asleep"
  BY <1>1 DEF Sleeps, TypeOK, CallTypeOK, RuntimeTypeOK, Actor
<1>3. WaitersSleep'
  BY <1>1, <1>2 DEF Sleepers, WaitersSleep
<1>4. ReadersEmpty' /\ ListedOnce' /\ NoSpin' /\ RunnerRuns'
  BY <1>1, <1>2 DEF Sleepers, ReadersEmpty, ListedOnce, NoSpin, RunnerRuns
<1>5. ASSUME NEW b \in Actor PROVE Woken_OK(b)'
  <2>1. CASE pc'[b] \in {"wake", "join"} /\ tgt'[b].co # None
    <3>1. pc'[b] = pc[b]
      BY <1>2, <2>1
    <3>2. /\ Sleeps(tgt[b].co, ch[b])
          /\ tgt[b].co \notin Cos(w[ch[b]]) \cup Cos(r[ch[b]])
          /\ pc[b] = "wake" => status[tgt[b].co] = "WAITING"
      BY <1>1, <2>1, <3>1 DEF Sleepers, WokenSleep, Woken_OK
    <3>3. tgt[b].co \in Co /\ Sleeps(tgt[b].co, ch[b])'
      BY <1>1, <3>2 DEF Sleeps, TypeOK, CallTypeOK, Actor
    <3> QED
      BY <1>1, <1>2, <3>1, <3>2, <3>3 DEF Woken_OK
  <2> QED
    BY <2>1 DEF Woken_OK
<1> QED
  BY <1>3, <1>4, <1>5 DEF Sleepers, WokenSleep

(* After every step of an actor, of the loop or of the user.               *)
LEMMA SleepersStep == IInv /\ Sleepers /\ [Next]_vars => Sleepers'
<1> SUFFICES ASSUME TypeOK, CallsOK, Mutex, PlainTargets, Sleepers, [Next]_vars
             PROVE  Sleepers'
  BY DEF IInv
<1> USE DEF rtvars, chvars, acvars, history
(* An actor that does not sleep moves, and the lists stay.                 *)
<1>0. ASSUME NEW a \in Actor, Others(a), UNCHANGED <<w, r, status, loop, cur>>,
             pc[a] \notin {"parked", "asleep"},
             pc'[a] \notin {"wake", "join", "spin"},
             op'[a] \in Pops /\ pc'[a] \in {"lock", "refused"} => ele'[a] = None
      PROVE  Sleepers'
  <2>1. {a} \in SUBSET Actor
    OBVIOUS
  <2>2. \A b \in Actor \ {a} : /\ pc'[b] = pc[b] /\ op'[b] = op[b] /\ ch'[b] = ch[b]
                               /\ ele'[b] = ele[b] /\ tgt'[b] = tgt[b]
    BY <1>0 DEF Others
  <2>3. \A k \in Chan : OnceIn(w'[k]) /\ OnceIn(r'[k])
    BY <1>0 DEF Sleepers, ListedOnce
  <2> QED
    BY <1>0, <2>1, <2>2, <2>3, AwakeMoves
(* No actor moves.                                                         *)
<1>00. ASSUME UNCHANGED <<pc, op, ch, ele, tgt, w, r>>,
              \A c \in Co : status[c] = "WAITING" => status'[c] = "WAITING",
              UNCHANGED <<status, loop, cur>> \/ RunnerRuns'
       PROVE  Sleepers'
  <2>1. \A k \in Chan : OnceIn(w'[k]) /\ OnceIn(r'[k])
    BY <1>00 DEF Sleepers, ListedOnce
  <2>2. {} \in SUBSET Actor
    OBVIOUS
  <2> HIDE DEF rtvars, chvars, acvars, history
  <2> QED
    BY <1>00, <2>1, <2>2, AwakeMoves
<1>1. ASSUME NEW a \in Actor, EnterClosed(a) \/ PushToQueue(a) \/ PopFromQueue(a)
                              \/ GiveUp(a) \/ Drained(a)
      PROVE  Sleepers'
  <2>1. pc'[a] = "user" /\ op'[a] \notin Pops /\ Others(a)
    BY <1>1, ReturnMoves DEF EnterClosed, PushToQueue, PopFromQueue, GiveUp, Drained
  <2>2. pc[a] \in {"lock", "refused", "drain"} /\ UNCHANGED <<w, r, status, loop, cur>>
    BY <1>1 DEF EnterClosed, PushToQueue, PopFromQueue, GiveUp, Drained, Enters
  <2> QED
    BY <1>0, <2>1, <2>2
<1>2. ASSUME NEW a \in Actor, EnterRefused(a) \/ Close(a)
      PROVE  Sleepers'
  <2>1. /\ pc[a] = "lock" /\ pc'[a] \in {"refused", "drain"} /\ Others(a)
        /\ UNCHANGED <<op, ele, w, r, status, loop, cur>>
    BY <1>2 DEF EnterRefused, Close, Enters, HoldAt, Others, TypeOK, CallTypeOK
  <2>2. op[a] \in Pops => ele[a] = None
    BY <2>1 DEF Sleepers, ReadersEmpty
  <2> QED
    BY <1>0, <2>1, <2>2
<1>3. ASSUME NEW a \in Actor,
             WakeNobody(a) \/ \E malloc \in Mallocs : Join(a, malloc)
      PROVE  Sleepers'
  <2>1. /\ pc[a] \in {"wake", "join"} /\ Served(a)
        /\ UNCHANGED <<w, r, status, loop, cur>>
    BY <1>3 DEF WakeNobody, Join
  <2>2. pc'[a] \in {"user", "drain"} /\ op'[a] \notin Pops /\ Others(a)
    BY <2>1, ServedMoves
  <2> QED
    BY <1>0, <2>1, <2>2
<1>4. ASSUME NEW a \in Actor, NEW malloc \in Mallocs, LeaveElement(a, malloc)
      PROVE  Sleepers'
  <2>1. /\ pc[a] = "refused" /\ ch[a] \in Chan /\ ele[a] \in Elem
        /\ UNCHANGED <<r, status, loop, cur>>
    BY <1>4 DEF LeaveElement, CallsOK, Call_OK, Holding, Pushes
  <2>2. pc'[a] = "user" /\ op'[a] \notin Pops /\ Others(a)
    BY <1>4, ReturnMoves DEF LeaveElement
  <2>3. PICK x \in Waiter : /\ x.co = None
                            /\ w' = w \/ w' = [w EXCEPT ![ch[a]] = <<x>> \o @]
    <3>1. [co |-> None, ele |-> ele[a], kind |-> "plain"] \in Waiter
      BY <2>1 DEF Waiter
    <3> QED
      BY <1>4, <3>1 DEF LeaveElement
  <2>4. \A k \in Chan : Cos(w'[k]) = Cos(w[k]) /\ OnceIn(w'[k])
    <3>1. \A k \in Chan : w'[k] = w[k] \/ w'[k] = <<x>> \o w[k]
      BY <2>1, <2>3 DEF TypeOK, ChannelTypeOK
    <3>2. ASSUME NEW k \in Chan
          PROVE  /\ Cos(<<x>> \o w[k]) = Cos(w[k])
                 /\ OnceIn(<<x>> \o w[k]) /\ OnceIn(w[k])
      <4>1. w[k] \in Seq(Waiter) /\ OnceIn(w[k]) /\ None \notin Cos(w[k])
        BY DEF TypeOK, ChannelTypeOK, Sleepers, ListedOnce, Cos
      <4>2. /\ Cos(<<x>> \o w[k]) = Cos(w[k]) \cup ({x.co} \ {None})
            /\ x.co \notin Cos(w[k]) => OnceIn(<<x>> \o w[k])
        BY <4>1, CosPush
      <4> QED
        BY <2>3, <4>1, <4>2
    <3> QED
      BY <3>1, <3>2
  <2>5. {a} \in SUBSET Actor
    OBVIOUS
  <2>6. \A b \in Actor \ {a} : /\ pc'[b] = pc[b] /\ op'[b] = op[b] /\ ch'[b] = ch[b]
                               /\ ele'[b] = ele[b] /\ tgt'[b] = tgt[b]
    BY <2>2 DEF Others
  <2>7. \A k \in Chan : Cos(r'[k]) = Cos(r[k]) /\ OnceIn(r'[k])
    BY <2>1 DEF Sleepers, ListedOnce
  <2> QED
    BY <2>1, <2>2, <2>4, <2>5, <2>6, <2>7, AwakeMoves
<1>5. ASSUME NEW a \in Actor, NEW o \in Op, NEW c \in Chan, Call(a, o, c)
      PROVE  Sleepers'
  <2>1. CASE c \in closed
    <3>1. UNCHANGED <<pc, op, ch, ele, tgt, w, r, status, loop, cur>>
      BY <1>5, <2>1 DEF Call, Begin
    <3> QED
      BY <1>00, <3>1
  <2>2. CASE c \notin closed
    <3>1. /\ pc[a] = "user" /\ pc'[a] = "lock" /\ op'[a] = o /\ Others(a)
          /\ o \in Pops => ele'[a] = None
          /\ UNCHANGED <<w, r, status, loop, cur>>
      BY <1>5, <2>2 DEF Call, Begin, Others, TypeOK, CallTypeOK, Pops, Pushes
    <3> QED
      BY <1>0, <3>1
  <2> QED
    BY <2>1, <2>2
<1>6. ASSUME NEW c \in Co, Spawn(c)
      PROVE  Sleepers'
  <2>1. /\ c \in Actor /\ pc[c] = "new" /\ pc'[c] = "user" /\ Others(c)
        /\ UNCHANGED <<w, r, status, loop, cur>>
    BY <1>6 DEF Spawn, Actor, Others, TypeOK, CallTypeOK
  <2> QED
    BY <1>0, <2>1
<1>7. ASSUME NEW c \in Co, Yield(c) \/ Terminate(c)
      PROVE  Sleepers'
  <2>1. /\ c \in Actor /\ pc[c] = "user" /\ loop = "run" /\ cur = c
        /\ pc'[c] \in {"user", "dead"} /\ loop' = "resumed" /\ Others(c)
        /\ UNCHANGED <<w, r>>
        /\ \A d \in Co \ {c} : status'[d] = status[d]
    BY <1>7, ChannelAssumption
       DEF Yield, Terminate, Executes, SwapOut, Actor, Others, TypeOK, CallTypeOK,
           RuntimeTypeOK
  <2>2. status[c] = "RUNNING"
    BY <2>1 DEF Sleepers, RunnerRuns
  <2>3. RunnerRuns'
    BY <2>1 DEF RunnerRuns
  <2>4. {c} \in SUBSET Actor
    BY <2>1
  <2>5. \A b \in Actor \ {c} : /\ pc'[b] = pc[b] /\ op'[b] = op[b] /\ ch'[b] = ch[b]
                               /\ ele'[b] = ele[b] /\ tgt'[b] = tgt[b]
    BY <2>1 DEF Others
  <2>6. \A k \in Chan : OnceIn(w'[k]) /\ OnceIn(r'[k])
    BY <2>1 DEF Sleepers, ListedOnce
  <2>7. \A d \in Co : status[d] = "WAITING" => status'[d] = "WAITING"
    BY <2>1, <2>2
  <2> QED
    BY <2>1, <2>3, <2>4, <2>5, <2>6, <2>7, AwakeMoves
<1>8. CASE LoopThread
  <2>1. UNCHANGED <<pc, op, ch, ele, tgt, w, r>>
    BY <1>8 DEF LoopThread
  <2>2. \A c \in Co : status[c] = "WAITING" => status'[c] = "WAITING"
    BY <1>8 DEF LoopThread, LoopStep, Callback, Pop, Resume, ResumeTerminated, Resumed,
                FlushOne, FlushEnd, TypeOK, RuntimeTypeOK
  <2>3. RunnerRuns'
    <3>1. CASE Resume
      BY <3>1 DEF Resume, RunnerRuns, TypeOK, RuntimeTypeOK
    <3>2. CASE ~Resume
      <4>1. loop' # "run"
        BY <1>8, <3>2 DEF LoopThread, LoopStep, Callback, Pop, ResumeTerminated,
                          Resumed, FlushOne, FlushEnd
      <4> QED
        BY <4>1 DEF RunnerRuns
    <3> QED
      BY <3>1, <3>2
  <2> QED
    BY <1>00, <2>1, <2>2, <2>3
<1>9. ASSUME NEW h \in Hdl, HandlerStep(h)
      PROVE  Sleepers'
  <2>1. UNCHANGED <<pc, op, ch, ele, tgt, w, r, status>>
    BY <1>9 DEF HandlerStep, HandlerEnters, HandlerReturns
  <2>2. RunnerRuns'
    BY <1>9, RuntimeAssumption
       DEF HandlerStep, HandlerEnters, HandlerReturns, RunnerRuns
  <2> QED
    BY <1>00, <2>1, <2>2
<1>10. CASE UNCHANGED vars
  BY <1>00, <1>10 DEF vars
<1> QED
  BY <1>1, <1>2, <1>3, <1>4, <1>5, <1>6, <1>7, <1>8, <1>9, <1>10,
     TakesWriter, TakesReader, TakeMoves, WakeMoves, BlockMoves, RelockMoves, ParkMoves
     DEF Next, ActorStep, CoroutineStep

LEMMA SleepersInit == Init => Sleepers
  BY DEF Init, RuntimeInit, Sleepers, WaitersSleep, ListedOnce, ReadersEmpty,
         WokenSleep, Woken_OK, NoSpin, RunnerRuns, Cos, OnceIn

LEMMA SleepersHold == Spec => [](IInv /\ Sleepers)
  BY InvHolds, SleepersInit, SleepersStep, PTL DEF Spec

(* Whoever a caller takes out of a list to wake is WAITING, and no caller  *)
(* spins in liteco_set_status with the mutex in hand, for any coroutines   *)
(* and any threads beside the loop's (lc_channel.c:102-107).               *)
THEOREM WakersFindSleepers == Spec => []WakesOnlyWaiting
<1>1. Sleepers => WakesOnlyWaiting
  BY NoneNotOp DEF Sleepers, WokenSleep, Woken_OK, NoSpin, WakesOnlyWaiting, WokenBy
<1> QED
  BY <1>1, SleepersHold, PTL

-----------------------------------------------------------------------------
(* The sleepers that are WAITING are in a list or about to be woken.       *)
Listed(c) == \E k \in Chan : c \in Cos(w[k]) \cup Cos(r[k])

Recorded ==
    \A c \in Co : status[c] = "WAITING" =>
        Listed(c) \/ \E a \in Actor : WokenBy(a, c, {"wake"})

LEMMA RecordedKept ==
    ASSUME Recorded,
           \A k \in Chan : Cos(w[k]) \subseteq Cos(w'[k]) /\ Cos(r[k]) \subseteq Cos(r'[k]),
           \A c \in Co : status'[c] = "WAITING" => status[c] = "WAITING",
           \A a \in Actor : pc[a] = "wake" /\ tgt[a].co # None =>
                                pc'[a] = "wake" /\ tgt'[a] = tgt[a]
    PROVE  Recorded'
<1> SUFFICES ASSUME NEW c \in Co, status'[c] = "WAITING"
             PROVE  Listed(c)' \/ \E a \in Actor : WokenBy(a, c, {"wake"})'
  BY DEF Recorded
<1>1. CASE Listed(c)
  BY <1>1 DEF Listed
<1>2. ASSUME NEW a \in Actor, WokenBy(a, c, {"wake"})
      PROVE  WokenBy(a, c, {"wake"})'
  BY <1>2, NoneNotOp DEF WokenBy
<1> QED
  BY <1>1, <1>2 DEF Recorded

(* A coroutine becomes WAITING when wblock or rblock has put it in a list; *)
(* it leaves the list only in the hands of a waker.                        *)
LEMMA RecordedStep ==
    Mallocs \subseteq {"ok"} /\ IInv /\ Sleepers /\ Recorded /\ [Next]_vars
        => Recorded'
<1> SUFFICES ASSUME Mallocs \subseteq {"ok"}, IInv, Sleepers, Recorded, [Next]_vars
             PROVE  Recorded'
  OBVIOUS
<1> USE DEF IInv, rtvars, chvars, acvars, history
<1>0. ASSUME NEW a \in Actor, Others(a), UNCHANGED <<w, r, status>>,
             pc[a] # "wake" \/ tgt[a].co = None
      PROVE  Recorded'
  BY <1>0, RecordedKept DEF Others
<1>1. ASSUME NEW a \in Actor, EnterClosed(a) \/ PushToQueue(a) \/ PopFromQueue(a)
                              \/ GiveUp(a) \/ Drained(a)
      PROVE  Recorded'
  <2>1. Others(a) /\ pc[a] # "wake" /\ UNCHANGED <<w, r, status>>
    BY <1>1, ReturnMoves DEF EnterClosed, PushToQueue, PopFromQueue, GiveUp,
                             Drained, Enters
  <2> QED
    BY <1>0, <2>1
<1>2. ASSUME NEW a \in Actor, EnterRefused(a) \/ Close(a)
      PROVE  Recorded'
  <2>1. Others(a) /\ pc[a] # "wake" /\ UNCHANGED <<w, r, status>>
    BY <1>2 DEF EnterRefused, Close, Enters, HoldAt, Others, TypeOK, CallTypeOK
  <2> QED
    BY <1>0, <2>1
<1>3. ASSUME NEW a \in Actor,
             WakeNobody(a) \/ \E malloc \in Mallocs : Join(a, malloc)
      PROVE  Recorded'
  <2>1. /\ pc[a] \in {"wake", "join"} /\ Served(a) /\ UNCHANGED <<w, r, status>>
        /\ pc[a] # "wake" \/ tgt[a].co = None
    BY <1>3 DEF WakeNobody, Join
  <2>2. Others(a)
    BY <2>1, ServedMoves
  <2> QED
    BY <1>0, <2>1, <2>2
<1>4. ASSUME NEW a \in Actor, NEW malloc \in Mallocs, LeaveElement(a, malloc)
      PROVE  Recorded'
  <2>1. Others(a) /\ pc[a] = "refused" /\ ch[a] \in Chan /\ ele[a] \in Elem
        /\ UNCHANGED <<r, status>>
    BY <1>4, ReturnMoves
       DEF LeaveElement, CallsOK, Call_OK, Holding, Pushes
  <2>2. PICK x \in Waiter : w' = w \/ w' = [w EXCEPT ![ch[a]] = <<x>> \o @]
    <3>1. [co |-> None, ele |-> ele[a], kind |-> "plain"] \in Waiter
      BY <2>1 DEF Waiter
    <3> QED
      BY <1>4, <3>1 DEF LeaveElement
  <2>3. ASSUME NEW k \in Chan PROVE Cos(w[k]) \subseteq Cos(w'[k])
    <3>1. w'[k] = w[k] \/ w'[k] = <<x>> \o w[k]
      BY <2>1, <2>2 DEF TypeOK, ChannelTypeOK
    <3>2. w[k] \in Seq(Waiter)
      BY DEF TypeOK, ChannelTypeOK
    <3>3. Cos(<<x>> \o w[k]) = Cos(w[k]) \cup ({x.co} \ {None})
      BY <3>2, CosPush
    <3> QED
      BY <3>1, <3>3
  <2>4. \A b \in Actor : pc[b] = "wake" /\ tgt[b].co # None =>
                             pc'[b] = "wake" /\ tgt'[b] = tgt[b]
    BY <2>1 DEF Others
  <2> QED
    BY <2>1, <2>3, <2>4, RecordedKept
<1>5. ASSUME NEW a \in Actor, NEW k \in Chan, NEW x \in Waiter, Takes(a, k, x)
      PROVE  Recorded'
  <2> SUFFICES ASSUME NEW c \in Co, status'[c] = "WAITING"
               PROVE  Listed(c)' \/ \E b \in Actor : WokenBy(b, c, {"wake"})'
    BY DEF Recorded
  <2>1. status[c] = "WAITING"
    BY <1>5 DEF Takes
  <2>2. CASE c = x.co
    BY <1>5, <2>2 DEF Takes, WokenBy, TypeOK, CallTypeOK
  <2>3. CASE Listed(c) /\ c # x.co
    BY <1>5, <2>3 DEF Takes, Listed
  <2>4. ASSUME NEW b \in Actor, WokenBy(b, c, {"wake"})
        PROVE  WokenBy(b, c, {"wake"})'
    BY <1>5, <2>4 DEF Takes, WokenBy, TypeOK, CallTypeOK
  <2> QED
    BY <2>1, <2>2, <2>3, <2>4 DEF Recorded
<1>6. ASSUME NEW a \in Co, NEW malloc \in Mallocs, Block(a, malloc)
      PROVE  Recorded'
  <2>1. /\ a \in Actor /\ ch[a] \in Chan /\ pc[a] = "refused" /\ malloc = "ok"
        /\ op[a] \in {"push", "pop"}
        /\ \A c \in Co \ {a} : status'[c] = status[c]
        /\ \A b \in Actor \ {a} : pc'[b] = pc[b] /\ tgt'[b] = tgt[b]
    BY <1>6 DEF Block, Actor, CallsOK, Call_OK, Holding, TypeOK, RuntimeTypeOK,
                CallTypeOK
  <2>2. PICK x : x = [co |-> a, ele |-> ele[a], kind |-> "plain"]
    OBVIOUS
  <2>3. x \in Waiter /\ x.co = a /\ a # None
    BY <2>1, <2>2, NoneNotOp DEF Waiter, TypeOK, CallTypeOK
  <2>4. /\ w' = IF op[a] = "push" THEN [w EXCEPT ![ch[a]] = <<x>> \o @] ELSE w
        /\ r' = IF op[a] = "pop" THEN [r EXCEPT ![ch[a]] = <<x>> \o @] ELSE r
    BY <1>6, <2>1, <2>2 DEF Block
  <2>5. ASSUME NEW k \in Chan
        PROVE  /\ Cos(w[k]) \subseteq Cos(w'[k]) /\ Cos(r[k]) \subseteq Cos(r'[k])
               /\ k = ch[a] => a \in Cos(w'[k]) \cup Cos(r'[k])
    <3>1. w[k] \in Seq(Waiter) /\ r[k] \in Seq(Waiter)
      BY DEF TypeOK, ChannelTypeOK
    <3>2. /\ w'[k] = IF k = ch[a] /\ op[a] = "push" THEN <<x>> \o w[k] ELSE w[k]
          /\ r'[k] = IF k = ch[a] /\ op[a] = "pop" THEN <<x>> \o r[k] ELSE r[k]
      BY <2>4 DEF TypeOK, ChannelTypeOK
    <3>3. /\ Cos(<<x>> \o w[k]) = Cos(w[k]) \cup {a}
          /\ Cos(<<x>> \o r[k]) = Cos(r[k]) \cup {a}
      BY <2>3, <3>1, CosPush
    <3> QED
      BY <2>1, <3>2, <3>3
  <2> SUFFICES ASSUME NEW c \in Co, status'[c] = "WAITING"
               PROVE  Listed(c)' \/ \E b \in Actor : WokenBy(b, c, {"wake"})'
    BY DEF Recorded
  <2>6. CASE c = a
    BY <2>1, <2>5, <2>6 DEF Listed
  <2>7. CASE c # a /\ Listed(c)
    BY <2>5, <2>7 DEF Listed
  <2>8. ASSUME NEW b \in Actor, WokenBy(b, c, {"wake"})
        PROVE  WokenBy(b, c, {"wake"})'
    BY <2>1, <2>8 DEF WokenBy
  <2> QED
    BY <2>1, <2>6, <2>7, <2>8 DEF Recorded
<1>7. ASSUME NEW a \in Actor, Wake(a)
      PROVE  Recorded'
  <2>1. /\ tgt[a].co \in Co
        /\ status' = [status EXCEPT ![tgt[a].co] = "READY"]
        /\ pc' = [pc EXCEPT ![a] = "join"] /\ UNCHANGED <<w, r, tgt>>
    BY <1>7, WakeMoves DEF Wake
  <2> SUFFICES ASSUME NEW c \in Co, status'[c] = "WAITING"
               PROVE  Listed(c)' \/ \E b \in Actor : WokenBy(b, c, {"wake"})'
    BY DEF Recorded
  <2>2. c # tgt[a].co /\ status[c] = "WAITING"
    BY <2>1 DEF TypeOK, RuntimeTypeOK
  <2>3. CASE Listed(c)
    BY <2>1, <2>3 DEF Listed
  <2>4. ASSUME NEW b \in Actor, WokenBy(b, c, {"wake"})
        PROVE  WokenBy(b, c, {"wake"})'
    BY <2>1, <2>2, <2>4 DEF WokenBy, TypeOK, CallTypeOK
  <2> QED
    BY <2>2, <2>3, <2>4 DEF Recorded
<1>8. ASSUME NEW a \in Co, Relock(a) \/ Spawn(a)
      PROVE  Recorded'
  <2>1. /\ a \in Actor /\ Others(a) /\ pc[a] # "wake" /\ UNCHANGED <<w, r, status>>
    <3>1. a \in Actor
      BY DEF Actor
    <3> QED
      BY <1>8, <3>1, ReturnMoves DEF Relock, Spawn, Others, TypeOK, CallTypeOK
  <2> QED
    BY <1>0, <2>1
<1>9. ASSUME NEW a \in Co, Park(a) \/ Yield(a) \/ Terminate(a)
      PROVE  Recorded'
  <2>1. /\ a \in Actor /\ Others(a) /\ pc[a] # "wake" /\ UNCHANGED <<w, r>>
        /\ \A c \in Co : status'[c] = "WAITING" => status[c] = "WAITING"
    BY <1>9, ChannelAssumption
       DEF Park, Yield, Terminate, Executes, SwapOut, Others, Actor, TypeOK,
           CallTypeOK, RuntimeTypeOK
  <2> QED
    BY <2>1, RecordedKept DEF Others
<1>10. ASSUME NEW a \in Actor, NEW o \in Op, NEW c \in Chan, Call(a, o, c)
       PROVE  Recorded'
  <2>1. Others(a) /\ pc[a] # "wake" /\ UNCHANGED <<w, r, status>>
    BY <1>10 DEF Call, Begin, Others, TypeOK, CallTypeOK
  <2> QED
    BY <1>0, <2>1
<1>11. CASE LoopThread
  <2>1. /\ UNCHANGED <<pc, tgt, w, r>>
        /\ \A c \in Co : status'[c] = "WAITING" => status[c] = "WAITING"
    BY <1>11 DEF LoopThread, LoopStep, Callback, Pop, Resume, ResumeTerminated,
                 Resumed, FlushOne, FlushEnd, TypeOK, RuntimeTypeOK
  <2> QED
    BY <2>1, RecordedKept
<1>12. ASSUME (\E h \in Hdl : HandlerStep(h)) \/ UNCHANGED vars
       PROVE  Recorded'
  <2>1. UNCHANGED <<pc, tgt, w, r, status>>
    BY <1>12 DEF HandlerStep, HandlerEnters, HandlerReturns, vars
  <2> QED
    BY <2>1, RecordedKept
<1> QED
  BY <1>1, <1>2, <1>3, <1>4, <1>5, <1>6, <1>7, <1>8, <1>9, <1>10, <1>11, <1>12,
     TakesWriter, TakesReader
     DEF Next, ActorStep, CoroutineStep

(* While malloc does not fail, a coroutine that is WAITING is in the list  *)
(* of a channel or in the hands of a caller about to wake it, so that it   *)
(* can be reached, whatever threads call (lc_channel.c:86-90, 192-196).    *)
(* With a malloc that fails it can be in neither: see MCChannelNoMem.      *)
THEOREM SleepersStayRecorded ==
    Mallocs \subseteq {"ok"} => (Spec => []SleepersRecorded)
<1> SUFFICES ASSUME Mallocs \subseteq {"ok"} PROVE Spec => []SleepersRecorded
  OBVIOUS
<1>1. Init => Recorded
  BY DEF Init, RuntimeInit, Recorded
<1>2. IInv /\ Sleepers /\ Recorded /\ [Next]_vars => Recorded'
  BY RecordedStep
<1>3. Recorded => SleepersRecorded
  BY DEF Recorded, SleepersRecorded, Listed, Registered, Cos
<1> QED
  BY <1>1, <1>2, <1>3, SleepersHold, PTL DEF Spec

-----------------------------------------------------------------------------
(* What the loop's place says of the runtime's variables: its callback is  *)
(* due or runs as long as a queue has entries.                             *)
LoopOK ==
    /\ loop \in {"poll", "pop", "flush"} => cur = None
    /\ loop \in {"resume", "resumed"} => cur \in Co
    /\ loop = "run" => cur \in Co \cup Hdl
    /\ rq # <<>> => CallbackRuns \/ async = "DONE"
    /\ yielded # <<>> => CallbackRuns
    /\ loop \in {"run", "resumed"} /\ cur \in Co => status[cur] # "STARTING"

(* A coroutine can run, and the runtime or a waker has it.                 *)
Runnable(c) == status[c] = "READY" \/ (status[c] = "STARTING" /\ pc[c] # "new")

HasIt(c) ==
    \/ \E a \in Actor : WokenBy(a, c, {"join"})
    \/ cur = c
    \/ InQueue(c, yielded)
    \/ InQueue(c, rq)

RunnableHeld == \A c \in Co : Runnable(c) => HasIt(c)

LEMMA QueueAppend ==
    ASSUME NEW S, NEW q \in Seq(S), NEW d \in S
    PROVE  \A c : InQueue(c, Append(q, d)) <=> InQueue(c, q) \/ c = d
<1> SUFFICES ASSUME NEW c
             PROVE  InQueue(c, Append(q, d)) <=> InQueue(c, q) \/ c = d
  OBVIOUS
<1>1. /\ Len(q) \in Nat /\ Len(Append(q, d)) = Len(q) + 1
      /\ Append(q, d)[Len(q) + 1] = d
      /\ \A i \in 1..Len(q) : Append(q, d)[i] = q[i]
  OBVIOUS
<1>2. ASSUME NEW i \in 1..Len(q) + 1 PROVE i \in 1..Len(q) \/ i = Len(q) + 1
  BY <1>1
<1> QED
  BY <1>1, <1>2 DEF InQueue

LEMMA QueueTail ==
    ASSUME NEW S, NEW q \in Seq(S), q # <<>>
    PROVE  \A c : InQueue(c, q) <=> c = Head(q) \/ InQueue(c, Tail(q))
<1> SUFFICES ASSUME NEW c
             PROVE  InQueue(c, q) <=> c = Head(q) \/ InQueue(c, Tail(q))
  OBVIOUS
<1>1. /\ Len(q) \in Nat \ {0} /\ Head(q) = q[1] /\ Len(Tail(q)) = Len(q) - 1
      /\ \A i \in 1..Len(Tail(q)) : Tail(q)[i] = q[i + 1] /\ i + 1 \in 1..Len(q)
      /\ 1 \in 1..Len(q)
  OBVIOUS
<1>2. \A i \in 1..Len(q) : i = 1 \/ (i - 1 \in 1..Len(Tail(q)) /\ Tail(q)[i - 1] = q[i])
  BY <1>1
<1> QED
  BY <1>1, <1>2 DEF InQueue

LEMMA JoinQueues ==
    ASSUME TypeOK, NEW d \in Co, NEW malloc, JoinRuntime(d, malloc)
    PROVE  /\ \A c : InQueue(c, rq) => InQueue(c, rq')
           /\ \A c : InQueue(c, rq') => InQueue(c, rq) \/ c = d
           /\ malloc # "fails" => InQueue(d, rq')
           /\ (rq' = rq /\ async' = async) \/ async' = "DONE"
<1>1. \A c : InQueue(c, Append(rq, d)) <=> InQueue(c, rq) \/ c = d
  BY QueueAppend DEF TypeOK, RuntimeTypeOK
<1>2. CASE InQueue(d, rq) \/ malloc = "fails"
  BY <1>2 DEF JoinRuntime
<1>3. CASE ~(InQueue(d, rq) \/ malloc = "fails")
  BY <1>1, <1>3 DEF JoinRuntime
<1> QED
  BY <1>2, <1>3

(* The loop's place after each step.                                       *)
LEMMA LoopStepOK == TypeOK /\ CallsOK /\ LoopOK /\ [Next]_vars => LoopOK'
<1> SUFFICES ASSUME TypeOK, CallsOK, LoopOK, [Next]_vars PROVE LoopOK'
  OBVIOUS
<1> USE DEF rtvars, CallbackRuns
<1>0. ASSUME UNCHANGED <<rq, yielded, async, loop, cur>>,
             \A c \in Co : status'[c] = "STARTING" => status[c] = "STARTING"
      PROVE  LoopOK'
  BY <1>0 DEF LoopOK
<1>1. ASSUME NEW a \in Actor,
             \/ EnterClosed(a) \/ EnterRefused(a) \/ PushToReader(a) \/ PushToQueue(a)
             \/ PopFromWriter(a) \/ PopFromQueue(a) \/ GiveUp(a) \/ WakeNobody(a)
             \/ Close(a) \/ DrainWriter(a) \/ DrainReader(a) \/ Drained(a)
             \/ \E malloc \in Mallocs : LeaveElement(a, malloc)
             \/ \E o \in Op, c \in Chan : Call(a, o, c)
             \/ a \in Co /\ Relock(a)
      PROVE  LoopOK'
  <2>1. UNCHANGED rtvars
    BY <1>1 DEF EnterClosed, EnterRefused, PushToReader, PushToQueue, PopFromWriter,
                PopFromQueue, GiveUp, WakeNobody, Close, DrainWriter, DrainReader,
                Drained, LeaveElement, Call, Relock
  <2> QED
    BY <1>0, <2>1
<1>2. ASSUME NEW a \in Actor, Wake(a)
      PROVE  LoopOK'
  BY <1>0, <1>2 DEF Wake, TypeOK, RuntimeTypeOK
<1>3. ASSUME NEW a \in Co, NEW malloc \in Mallocs, Block(a, malloc)
      PROVE  LoopOK'
  BY <1>0, <1>3 DEF Block, TypeOK, RuntimeTypeOK
<1>4. ASSUME NEW c \in Co, NEW malloc, JoinRuntime(c, malloc),
             UNCHANGED <<status, yielded, loop, cur>>
      PROVE  LoopOK'
  <2>1. (rq' = rq /\ async' = async) \/ async' = "DONE"
    BY <1>4, JoinQueues
  <2> QED
    BY <1>4, <2>1 DEF LoopOK
<1>5. ASSUME NEW a \in Actor, NEW malloc \in Mallocs, Join(a, malloc)
      PROVE  LoopOK'
  <2>1. tgt[a].co \in Co
    BY <1>5 DEF Join, CallsOK, Call_OK
  <2> QED
    BY <1>4, <1>5, <2>1 DEF Join
<1>6. ASSUME NEW c \in Co, Spawn(c)
      PROVE  LoopOK'
  BY <1>4, <1>6 DEF Spawn
<1>7. ASSUME NEW c \in Co, Park(c) \/ Yield(c) \/ Terminate(c)
      PROVE  LoopOK'
  <2>1. /\ loop = "run" /\ cur = c /\ loop' = "resumed" /\ cur' = c
        /\ UNCHANGED <<rq, yielded, async>>
        /\ status'[c] \in {"READY", "TERMINATE", status[c]}
    BY <1>7, ChannelAssumption
       DEF Park, Yield, Terminate, Executes, SwapOut, TypeOK, RuntimeTypeOK
  <2> QED
    BY <2>1 DEF LoopOK
<1>8. CASE LoopThread
  <2>1. CASE Callback \/ ResumeTerminated \/ FlushEnd
    BY <2>1, RuntimeAssumption DEF Callback, ResumeTerminated, FlushEnd, LoopOK
  <2>2. CASE Pop
    <3>1. CASE rq = <<>>
      BY <2>2, <3>1 DEF Pop, LoopOK
    <3>2. CASE rq # <<>>
      <4>1. /\ loop' = "resume" /\ cur' = Head(rq) /\ Head(rq) \in Co
            /\ UNCHANGED <<status, yielded, async>>
        BY <2>2, <3>2 DEF Pop, TypeOK, RuntimeTypeOK
      <4> QED
        BY <4>1, RuntimeAssumption DEF LoopOK
    <3> QED
      BY <3>1, <3>2
  <2>3. CASE Resume
    BY <2>3, RuntimeAssumption DEF Resume, LoopOK, TypeOK, RuntimeTypeOK
  <2>4. CASE Resumed
    BY <2>4, RuntimeAssumption DEF Resumed, LoopOK
  <2>5. CASE FlushOne
    <3>1. loop = "flush" /\ UNCHANGED <<status, async, loop, cur>>
      BY <2>5 DEF FlushOne
    <3> QED
      BY <3>1, RuntimeAssumption DEF LoopOK
  <2> QED
    BY <1>8, <2>1, <2>2, <2>3, <2>4, <2>5 DEF LoopThread, LoopStep
<1>9. ASSUME NEW h \in Hdl, HandlerStep(h)
      PROVE  LoopOK'
  BY <1>9, RuntimeAssumption DEF HandlerStep, HandlerEnters, HandlerReturns, LoopOK
<1>10. CASE UNCHANGED vars
  BY <1>0, <1>10 DEF vars
<1> QED
  BY <1>1, <1>2, <1>3, <1>5, <1>6, <1>7, <1>8, <1>9, <1>10
     DEF Next, ActorStep, CoroutineStep, Actor

(* A coroutine that can run is passed from its waker to the ready queue,   *)
(* to the loop, to the callback's list and back, with no gap.              *)
LEMMA RunnableStep ==
    Mallocs \subseteq {"ok"} /\ IInv /\ Sleepers /\ LoopOK /\ RunnableHeld /\ [Next]_vars
        => RunnableHeld'
<1> SUFFICES ASSUME Mallocs \subseteq {"ok"}, IInv, Sleepers, LoopOK, RunnableHeld,
                    [Next]_vars
             PROVE  RunnableHeld'
  OBVIOUS
<1> USE DEF IInv, rtvars
<1>0. ASSUME NEW a \in Actor, Others(a), UNCHANGED rtvars, pc[a] \notin {"join", "new"}
      PROVE  RunnableHeld'
  <2> SUFFICES ASSUME NEW c \in Co, Runnable(c)' PROVE HasIt(c)'
    BY DEF RunnableHeld
  <2>1. Runnable(c)
    BY <1>0 DEF Runnable, Others, Actor
  <2>2. ASSUME NEW b \in Actor, WokenBy(b, c, {"join"})
        PROVE  WokenBy(b, c, {"join"})'
    BY <1>0, <2>2 DEF WokenBy, Others
  <2> QED
    BY <1>0, <2>1, <2>2 DEF RunnableHeld, HasIt
<1>1. ASSUME NEW a \in Actor,
             EnterClosed(a) \/ PushToQueue(a) \/ PopFromQueue(a) \/ GiveUp(a)
             \/ Drained(a) \/ \E malloc \in Mallocs : LeaveElement(a, malloc)
      PROVE  RunnableHeld'
  <2>1. Others(a) /\ pc[a] \notin {"join", "new"} /\ UNCHANGED rtvars
    BY <1>1, ReturnMoves DEF EnterClosed, PushToQueue, PopFromQueue, GiveUp,
                             Drained, LeaveElement, Enters
  <2> QED
    BY <1>0, <2>1
<1>2. ASSUME NEW a \in Actor,
             EnterRefused(a) \/ Close(a) \/ \E o \in Op, c \in Chan : Call(a, o, c)
      PROVE  RunnableHeld'
  <2>1. Others(a) /\ pc[a] \notin {"join", "new"} /\ UNCHANGED rtvars
    BY <1>2 DEF EnterRefused, Close, Enters, HoldAt, Call, Begin, Others, TypeOK,
                CallTypeOK, acvars
  <2> QED
    BY <1>0, <2>1
<1>3. ASSUME NEW a \in Actor, WakeNobody(a)
      PROVE  RunnableHeld'
  <2>1. Others(a)
    BY <1>3, ServedMoves DEF WakeNobody
  <2> QED
    BY <1>0, <1>3, <2>1 DEF WakeNobody
<1>4. ASSUME NEW a \in Actor, NEW k \in Chan, NEW x \in Waiter, Takes(a, k, x)
      PROVE  RunnableHeld'
  <2> SUFFICES ASSUME NEW c \in Co, Runnable(c)' PROVE HasIt(c)'
    BY DEF RunnableHeld
  <2>1. Runnable(c)
    BY <1>4 DEF Runnable, Takes, TypeOK, CallTypeOK, Actor
  <2>2. ASSUME NEW b \in Actor, WokenBy(b, c, {"join"})
        PROVE  WokenBy(b, c, {"join"})'
    BY <1>4, <2>2 DEF WokenBy, Takes, TypeOK, CallTypeOK
  <2> QED
    BY <1>4, <2>1, <2>2 DEF RunnableHeld, HasIt, Takes
<1>5. ASSUME NEW d \in Co, JoinRuntime(d, "ok"), UNCHANGED <<status, yielded, loop, cur>>,
             \A c \in Co \ {d} : pc'[c] # "new" => pc[c] # "new",
             \A a \in Actor : \A c \in Co \ {d} :
                 WokenBy(a, c, {"join"}) => WokenBy(a, c, {"join"})'
      PROVE  RunnableHeld'
  <2> SUFFICES ASSUME NEW c \in Co, Runnable(c)' PROVE HasIt(c)'
    BY DEF RunnableHeld
  <2>1. InQueue(d, rq') /\ (InQueue(c, rq) => InQueue(c, rq'))
    BY <1>5, JoinQueues
  <2>2. CASE c = d
    BY <2>1, <2>2 DEF HasIt
  <2>3. CASE c # d
    <3>1. Runnable(c)
      BY <1>5, <2>3 DEF Runnable
    <3>2. \A a \in Actor : WokenBy(a, c, {"join"}) => WokenBy(a, c, {"join"})'
      BY <1>5, <2>3
    <3>3. HasIt(c)
      BY <3>1 DEF RunnableHeld
    <3> QED
      BY <1>5, <2>1, <3>2, <3>3 DEF HasIt
  <2> QED
    BY <2>2, <2>3
<1>6. ASSUME NEW a \in Actor, NEW malloc \in Mallocs, Join(a, malloc)
      PROVE  RunnableHeld'
  <2>1. /\ malloc = "ok" /\ tgt[a].co \in Co /\ pc[a] = "join" /\ Served(a)
        /\ UNCHANGED <<status, yielded, loop, cur>>
    BY <1>6 DEF Join, CallsOK, Call_OK
  <2>2. Others(a) /\ pc'[a] # "new"
    BY <2>1, ServedMoves
  <2>3. \A c \in Co \ {tgt[a].co} : pc'[c] # "new" => pc[c] # "new"
    BY <2>1, <2>2 DEF Others, Actor
  <2>4. ASSUME NEW b \in Actor, NEW c \in Co \ {tgt[a].co}, WokenBy(b, c, {"join"})
        PROVE  WokenBy(b, c, {"join"})'
    BY <2>2, <2>4 DEF Others, WokenBy
  <2> QED
    BY <1>5, <1>6, <2>1, <2>3, <2>4 DEF Join
<1>7. ASSUME NEW d \in Co, Spawn(d)
      PROVE  RunnableHeld'
  <2>1. /\ d \in Actor /\ JoinRuntime(d, "ok") /\ pc' = [pc EXCEPT ![d] = "user"]
        /\ pc[d] = "new" /\ UNCHANGED <<status, yielded, loop, cur, tgt>>
    BY <1>7 DEF Spawn, acvars, Actor
  <2>2. ASSUME NEW b \in Actor, NEW c \in Co \ {d}, WokenBy(b, c, {"join"})
        PROVE  WokenBy(b, c, {"join"})'
    BY <2>1, <2>2 DEF WokenBy, TypeOK, CallTypeOK
  <2>3. \A c \in Co \ {d} : pc'[c] = pc[c]
    BY <2>1 DEF TypeOK, CallTypeOK, Actor
  <2> QED
    BY <1>5, <2>1, <2>2, <2>3
<1>8. ASSUME NEW a \in Actor, Wake(a)
      PROVE  RunnableHeld'
  <2>1. /\ tgt[a].co \in Co /\ pc[a] \in {"wake", "spin"}
        /\ status' = [status EXCEPT ![tgt[a].co] = "READY"]
        /\ pc' = [pc EXCEPT ![a] = "join"]
        /\ UNCHANGED <<tgt, rq, yielded, loop, cur>>
    BY <1>8, WakeMoves DEF Wake, acvars
  <2> SUFFICES ASSUME NEW c \in Co, Runnable(c)' PROVE HasIt(c)'
    BY DEF RunnableHeld
  <2>2. CASE c = tgt[a].co
    BY <2>1, <2>2 DEF HasIt, WokenBy, TypeOK, CallTypeOK
  <2>3. CASE c # tgt[a].co
    <3>1. Runnable(c)
      BY <2>1, <2>3 DEF Runnable, TypeOK, RuntimeTypeOK, CallTypeOK
    <3>2. ASSUME NEW b \in Actor, WokenBy(b, c, {"join"})
          PROVE  WokenBy(b, c, {"join"})'
      BY <2>1, <3>2 DEF WokenBy, TypeOK, CallTypeOK
    <3> QED
      BY <2>1, <3>1, <3>2 DEF RunnableHeld, HasIt
  <2> QED
    BY <2>2, <2>3
<1>9. ASSUME NEW a \in Co, (\E malloc \in Mallocs : Block(a, malloc)) \/ Park(a)
                           \/ Yield(a) \/ Terminate(a)
      PROVE  RunnableHeld'
  <2>1. /\ a \in Actor /\ cur = a /\ cur' = cur /\ pc[a] \in {"refused", "parked", "user"}
        /\ \A c \in Co \ {a} : status'[c] = status[c] /\ pc'[c] = pc[c]
        /\ \A b \in Actor \ {a} : pc'[b] = pc[b]
        /\ UNCHANGED <<tgt, rq, yielded>>
    BY <1>9, ChannelAssumption
       DEF Block, Park, Yield, Terminate, Executes, SwapOut, Actor, acvars, TypeOK,
           RuntimeTypeOK, CallTypeOK
  <2> SUFFICES ASSUME NEW c \in Co, Runnable(c)' PROVE HasIt(c)'
    BY DEF RunnableHeld
  <2>2. CASE c = a
    BY <2>1, <2>2 DEF HasIt
  <2>3. CASE c # a
    <3>1. Runnable(c)
      BY <2>1, <2>3 DEF Runnable
    <3>2. ASSUME NEW b \in Actor, WokenBy(b, c, {"join"})
          PROVE  WokenBy(b, c, {"join"})'
      BY <2>1, <3>2 DEF WokenBy
    <3> QED
      BY <2>1, <3>1, <3>2 DEF RunnableHeld, HasIt
  <2> QED
    BY <2>2, <2>3
<1>10. ASSUME NEW a \in Co, Relock(a)
       PROVE  RunnableHeld'
  <2>1. a \in Actor
    BY DEF Actor
  <2>2. Others(a) /\ pc[a] = "asleep" /\ UNCHANGED rtvars
    BY <1>10, <2>1, ReturnMoves DEF Relock
  <2> QED
    BY <1>0, <2>1, <2>2
<1>11. ASSUME UNCHANGED <<pc, tgt>>, \A c \in Co : Runnable(c)' => Runnable(c),
              \A c \in Co : InQueue(c, yielded) =>
                                InQueue(c, yielded') \/ InQueue(c, rq'),
              \A c \in Co : InQueue(c, rq) => InQueue(c, rq') \/ cur' = c,
              \A c \in Co : cur = c /\ Runnable(c)' => cur' = c \/ InQueue(c, yielded')
       PROVE  RunnableHeld'
  <2> SUFFICES ASSUME NEW c \in Co, Runnable(c)' PROVE HasIt(c)'
    BY DEF RunnableHeld
  <2>1. \A b \in Actor : WokenBy(b, c, {"join"}) => WokenBy(b, c, {"join"})'
    BY <1>11 DEF WokenBy
  <2> QED
    BY <1>11, <2>1 DEF RunnableHeld, HasIt
<1>12. CASE LoopThread
  <2>1. UNCHANGED <<pc, tgt>>
    BY <1>12 DEF LoopThread, acvars
  <2>2. \A c \in Co : Runnable(c)' => Runnable(c)
    BY <1>12, <2>1
       DEF LoopThread, LoopStep, Callback, Pop, Resume, ResumeTerminated, Resumed,
           FlushOne, FlushEnd, Runnable, TypeOK, RuntimeTypeOK
  <2>3. CASE Callback \/ Resume \/ FlushEnd
    BY <1>11, <2>1, <2>2, <2>3 DEF Callback, Resume, FlushEnd
  <2>4. CASE Pop
    <3>1. CASE rq = <<>>
      BY <1>11, <2>1, <2>2, <2>4, <3>1 DEF Pop
    <3>2. CASE rq # <<>>
      <4>1. /\ rq \in Seq(Co) /\ rq' = Tail(rq) /\ cur' = Head(rq)
            /\ yielded' = yielded /\ cur = None
        BY <2>4, <3>2 DEF Pop, LoopOK, TypeOK, RuntimeTypeOK
      <4>2. \A c : InQueue(c, rq) <=> c = Head(rq) \/ InQueue(c, Tail(rq))
        BY <3>2, <4>1, QueueTail
      <4> QED
        BY <1>11, <2>1, <2>2, <4>1, <4>2, NoneNotOp
    <3> QED
      BY <3>1, <3>2
  <2>5. CASE ResumeTerminated
    <3>1. \A c \in Co : cur = c => ~Runnable(c)'
      BY <2>5 DEF ResumeTerminated, Runnable
    <3> QED
      BY <1>11, <2>1, <2>2, <2>5, <3>1 DEF ResumeTerminated
  <2>6. CASE Resumed
    <3>1. /\ cur \in Co /\ status[cur] # "STARTING" /\ status' = status /\ rq' = rq
          /\ yielded \in Seq(Co)
          /\ yielded' = IF status[cur] = "READY" THEN Append(yielded, cur) ELSE yielded
      BY <2>6 DEF Resumed, LoopOK, TypeOK, RuntimeTypeOK
    <3>2. \A c : InQueue(c, Append(yielded, cur)) <=> InQueue(c, yielded) \/ c = cur
      BY <3>1, QueueAppend
    <3>3. \A c \in Co : cur = c /\ Runnable(c)' => status[cur] = "READY"
      BY <3>1 DEF Runnable
    <3> QED
      BY <1>11, <2>1, <2>2, <3>1, <3>2, <3>3
  <2>7. CASE FlushOne
    <3>1. /\ yielded \in Seq(Co) /\ yielded # <<>> /\ rq \in Seq(Co) /\ cur' = cur
          /\ yielded' = Tail(yielded) /\ Head(yielded) \in Co
      BY <2>7 DEF FlushOne, TypeOK, RuntimeTypeOK
    <3>2. \A c : InQueue(c, yielded) <=> c = Head(yielded) \/ InQueue(c, Tail(yielded))
      BY <3>1, QueueTail
    <3>3. \A c : InQueue(c, Append(rq, Head(yielded))) <=>
                     InQueue(c, rq) \/ c = Head(yielded)
      BY <3>1, QueueAppend
    <3>4. \A c : InQueue(c, rq) \/ c = Head(yielded) => InQueue(c, rq')
      BY <2>7, <3>3 DEF FlushOne
    <3> QED
      BY <1>11, <2>1, <2>2, <3>1, <3>2, <3>4
  <2> QED
    BY <1>12, <2>3, <2>4, <2>5, <2>6, <2>7 DEF LoopThread, LoopStep
<1>13. ASSUME NEW h \in Hdl, HandlerStep(h)
       PROVE  RunnableHeld'
  <2>1. UNCHANGED <<pc, tgt, status, rq, yielded>> /\ cur \notin Co
    BY <1>13, NoneNotOp, RuntimeAssumption
       DEF HandlerStep, HandlerEnters, HandlerReturns, LoopOK, acvars
  <2> QED
    BY <1>11, <2>1 DEF Runnable
<1>14. CASE UNCHANGED vars
  BY <1>11, <1>14 DEF vars, acvars, Runnable
<1> QED
  BY <1>1, <1>2, <1>3, <1>4, <1>6, <1>7, <1>8, <1>9, <1>10, <1>12, <1>13, <1>14,
     TakesWriter, TakesReader
     DEF Next, ActorStep, CoroutineStep

LEMMA LoopHolds == Spec => [](IInv /\ Sleepers /\ LoopOK)
<1>1. Init => LoopOK
  BY RuntimeAssumption DEF Init, RuntimeInit, LoopOK
<1>2. IInv /\ LoopOK /\ [Next]_vars => LoopOK'
  BY LoopStepOK DEF IInv
<1> QED
  BY <1>1, <1>2, SleepersHold, PTL DEF Spec

(* While malloc does not fail, a coroutine that can run is never lost      *)
(* between its waker, the ready queue, the loop and the callback's list,   *)
(* and the callback is due whenever a queue has it (lc_runtime.c:47-121).  *)
THEOREM RunnableNotLost ==
    Mallocs \subseteq {"ok"} => (Spec => []NoLostRunnable)
<1> SUFFICES ASSUME Mallocs \subseteq {"ok"} PROVE Spec => []NoLostRunnable
  OBVIOUS
<1>1. Init => RunnableHeld
  BY DEF Init, RuntimeInit, RunnableHeld, Runnable, Actor
<1>2. IInv /\ Sleepers /\ LoopOK /\ RunnableHeld /\ [Next]_vars => RunnableHeld'
  BY RunnableStep
<1>3. LoopOK /\ RunnableHeld => NoLostRunnable
  <2> SUFFICES ASSUME LoopOK, RunnableHeld, NEW c \in Co, Runnable(c)
               PROVE  \/ \E a \in Actor : WokenBy(a, c, {"join"})
                      \/ cur = c
                      \/ InQueue(c, yielded) /\ CallbackRuns
                      \/ InQueue(c, rq) /\ (CallbackRuns \/ async = "DONE")
    BY DEF NoLostRunnable, Runnable
  <2>1. /\ InQueue(c, yielded) => yielded # <<>>
        /\ InQueue(c, rq) => rq # <<>>
    BY DEF InQueue
  <2> QED
    BY <2>1 DEF LoopOK, RunnableHeld, HasIt
<1> QED
  BY <1>1, <1>2, <1>3, LoopHolds, PTL DEF Spec

-----------------------------------------------------------------------------
(* Without other threads, the code of one actor runs at a time, and nobody *)
(* but the coroutine that runs is between its block and its context switch.*)
Alone_OK(a) ==
    /\ pc[a] \in {"lock", "parked"} \cup Holding => loop = "run" /\ cur = a
    /\ pc[a] = "join" => status[tgt[a].co] = "READY"

RunnerStatus ==
    loop = "run" /\ cur \in Co =>
        status[cur] = "RUNNING" \/ (status[cur] = "WAITING" /\ pc[cur] = "parked")

Alone == (\A a \in Actor : Alone_OK(a)) /\ RunnerStatus

(* The running actor moves and goes on running.                            *)
LEMMA AloneMoves ==
    ASSUME Alone, NEW a \in Actor, loop = "run", cur = a, UNCHANGED <<loop, cur>>,
           \A b \in Actor \ {a} : pc'[b] = pc[b],
           pc'[a] = "join" => status'[tgt'[a].co] = "READY",
           a \in Co => \/ pc'[a] # "parked" /\ pc[a] # "parked" /\ status'[a] = status[a]
                       \/ pc'[a] = "parked" /\ status'[a] = "WAITING"
    PROVE  Alone'
<1>1. ASSUME NEW b \in Actor PROVE Alone_OK(b)'
  <2>1. CASE b = a
    BY <2>1 DEF Alone_OK
  <2>2. CASE b # a
    <3>1. pc'[b] \notin {"lock", "parked"} \cup Holding
      BY <2>2 DEF Alone, Alone_OK
    <3> QED
      BY <3>1 DEF Alone_OK, Holding
  <2> QED
    BY <2>1, <2>2
<1>2. RunnerStatus'
  BY DEF Alone, RunnerStatus
<1> QED
  BY <1>1, <1>2 DEF Alone

(* The loop's thread moves with no actor inside a call, but for those that *)
(* sleep.                                                                  *)
LEMMA AloneOutside ==
    ASSUME \A a \in Actor : pc'[a] \notin {"lock", "parked"} \cup Holding, RunnerStatus'
    PROVE  Alone'
  BY DEF Alone, Alone_OK, Holding

LEMMA AloneStep ==
    Thr = {} /\ IInv /\ Sleepers /\ Alone /\ [Next]_vars => Alone'
<1> SUFFICES ASSUME Thr = {}, IInv, Sleepers, Alone, [Next]_vars
             PROVE  Alone'
  OBVIOUS
<1> USE DEF IInv, rtvars
<1>1. ASSUME NEW a \in Actor, Executes(a) PROVE loop = "run" /\ cur = a
  BY <1>1 DEF Executes
<1>2. ASSUME NEW a \in Actor, Others(a), Executes(a), UNCHANGED rtvars,
             pc[a] # "parked", pc'[a] \notin {"join", "parked"}
      PROVE  Alone'
  <2>1. loop = "run" /\ cur = a
    BY <1>1, <1>2
  <2>2. \A b \in Actor \ {a} : pc'[b] = pc[b]
    BY <1>2 DEF Others
  <2> QED
    BY <1>2, <2>1, <2>2, AloneMoves
<1>3. ASSUME NEW a \in Actor,
             EnterClosed(a) \/ PushToQueue(a) \/ PopFromQueue(a) \/ GiveUp(a)
             \/ Drained(a) \/ \E malloc \in Mallocs : LeaveElement(a, malloc)
      PROVE  Alone'
  <2>1. /\ Executes(a) /\ Others(a) /\ pc'[a] = "user" /\ pc[a] # "parked"
        /\ UNCHANGED rtvars
    BY <1>3, ReturnMoves DEF EnterClosed, PushToQueue, PopFromQueue, GiveUp,
                             Drained, LeaveElement, Enters
  <2> QED
    BY <1>2, <2>1
<1>4. ASSUME NEW a \in Actor,
             EnterRefused(a) \/ Close(a) \/ \E o \in Op, c \in Chan : Call(a, o, c)
      PROVE  Alone'
  <2>1. /\ Executes(a) /\ Others(a) /\ pc'[a] \in {"refused", "drain", "lock", "user"}
        /\ pc[a] # "parked" /\ UNCHANGED rtvars
    BY <1>4 DEF EnterRefused, Close, Enters, HoldAt, Call, Begin, Others, TypeOK,
                CallTypeOK, acvars
  <2> QED
    BY <1>2, <2>1
<1>5. ASSUME NEW a \in Actor, WakeNobody(a)
      PROVE  Alone'
  <2>1. Executes(a) /\ pc[a] = "wake" /\ Served(a) /\ UNCHANGED rtvars
    BY <1>5 DEF WakeNobody
  <2>2. Others(a) /\ pc'[a] \in {"user", "drain"}
    BY <2>1, ServedMoves
  <2> QED
    BY <1>2, <2>1, <2>2
<1>6. ASSUME NEW a \in Actor, NEW k \in Chan, NEW x \in Waiter, Takes(a, k, x),
             Executes(a)
      PROVE  Alone'
  <2>1. loop = "run" /\ cur = a
    BY <1>1, <1>6
  <2>2. /\ pc'[a] = "wake" /\ \A b \in Actor \ {a} : pc'[b] = pc[b]
        /\ pc[a] # "parked" /\ UNCHANGED <<status, loop, cur>>
    BY <1>6 DEF Takes, TypeOK, CallTypeOK
  <2> QED
    BY <2>1, <2>2, AloneMoves
<1>7. ASSUME NEW a \in Actor, NEW malloc \in Mallocs, Join(a, malloc)
      PROVE  Alone'
  <2>1. /\ loop = "run" /\ cur = a /\ pc[a] = "join" /\ Served(a)
        /\ UNCHANGED <<status, loop, cur>>
    BY <1>1, <1>7 DEF Join
  <2>2. Others(a) /\ pc'[a] \in {"user", "drain"}
    BY <2>1, ServedMoves
  <2>3. \A b \in Actor \ {a} : pc'[b] = pc[b]
    BY <2>2 DEF Others
  <2> QED
    BY <2>1, <2>2, <2>3, AloneMoves
<1>8. ASSUME NEW a \in Actor, Wake(a)
      PROVE  Alone'
  <2>1. /\ loop = "run" /\ cur = a /\ tgt[a].co \in Co /\ pc[a] \in {"wake", "spin"}
        /\ status' = [status EXCEPT ![tgt[a].co] = "READY"]
        /\ pc' = [pc EXCEPT ![a] = "join"]
        /\ UNCHANGED <<tgt, loop, cur>>
    BY <1>1, <1>8, WakeMoves DEF Wake, acvars
  <2>2. tgt[a].co # a
    BY <2>1, NoneNotOp DEF Sleepers, NoSpin, WokenSleep, Woken_OK, Sleeps
  <2>3. /\ pc'[a] = "join" /\ status'[tgt'[a].co] = "READY"
        /\ \A b \in Actor \ {a} : pc'[b] = pc[b]
        /\ a \in Co => status'[a] = status[a]
    BY <2>1, <2>2 DEF TypeOK, CallTypeOK, RuntimeTypeOK
  <2> QED
    BY <2>1, <2>3, AloneMoves
<1>9. ASSUME NEW a \in Co, NEW malloc \in Mallocs, Block(a, malloc)
      PROVE  Alone'
  <2>1. /\ a \in Actor /\ Executes(a) /\ status'[a] = "WAITING"
        /\ pc' = [pc EXCEPT ![a] = "parked"] /\ UNCHANGED <<loop, cur>>
    BY <1>9 DEF Block, Actor, TypeOK, RuntimeTypeOK
  <2>2. pc'[a] = "parked" /\ \A b \in Actor \ {a} : pc'[b] = pc[b]
    BY <2>1 DEF TypeOK, CallTypeOK
  <2>3. loop = "run" /\ cur = a
    BY <1>1, <2>1
  <2> QED
    BY <2>1, <2>2, <2>3, AloneMoves
<1>10. ASSUME NEW a \in Co, Relock(a)
       PROVE  Alone'
  <2>1. a \in Actor
    BY DEF Actor
  <2>2. Others(a) /\ Executes(a) /\ pc[a] = "asleep" /\ pc'[a] = "user" /\ UNCHANGED rtvars
    BY <1>10, <2>1, ReturnMoves DEF Relock
  <2> QED
    BY <1>2, <2>1, <2>2
<1>11. ASSUME NEW a \in Co, Park(a) \/ Yield(a) \/ Terminate(a)
       PROVE  Alone'
  <2>1. /\ a \in Actor /\ loop = "run" /\ cur = a /\ loop' = "resumed"
        /\ pc'[a] \in {"asleep", "user", "dead"}
        /\ \A b \in Actor \ {a} : pc'[b] = pc[b]
    BY <1>11, ChannelAssumption
       DEF Park, Yield, Terminate, Executes, SwapOut, Actor, TypeOK, CallTypeOK
  <2>2. \A b \in Actor : pc'[b] \notin {"lock", "parked"} \cup Holding
    BY <2>1 DEF Alone, Alone_OK, Holding
  <2> QED
    BY <2>1, <2>2, AloneOutside DEF RunnerStatus
<1>12. ASSUME NEW d \in Co, Spawn(d)
       PROVE  Alone'
  <2>1. /\ d \in Actor /\ pc[d] = "new" /\ pc'[d] = "user"
        /\ \A b \in Actor \ {d} : pc'[b] = pc[b]
        /\ UNCHANGED <<status, loop, cur, tgt>>
    BY <1>12 DEF Spawn, Actor, TypeOK, CallTypeOK, acvars
  <2>2. ASSUME NEW b \in Actor PROVE Alone_OK(b)'
    <3>1. CASE b = d
      BY <2>1, <3>1 DEF Alone_OK, Holding
    <3>2. CASE b # d
      BY <2>1, <3>2 DEF Alone, Alone_OK
    <3> QED
      BY <3>1, <3>2
  <2>3. RunnerStatus'
    BY <2>1 DEF Alone, RunnerStatus, Actor
  <2> QED
    BY <2>2, <2>3 DEF Alone
<1>13. CASE LoopThread
  <2>1. pc' = pc /\ loop # "run"
    BY <1>13 DEF LoopThread, LoopStep, Callback, Pop, Resume, ResumeTerminated, Resumed,
                 FlushOne, FlushEnd
  <2>2. \A b \in Actor : pc'[b] \notin {"lock", "parked"} \cup Holding
    BY <2>1 DEF Alone, Alone_OK
  <2>3. RunnerStatus'
    <3>1. CASE Resume
      BY <3>1 DEF Resume, RunnerStatus, TypeOK, RuntimeTypeOK
    <3>2. CASE ~Resume
      <4>1. loop' # "run"
        BY <1>13, <3>2 DEF LoopThread, LoopStep, Callback, Pop, ResumeTerminated,
                           Resumed, FlushOne, FlushEnd
      <4> QED
        BY <4>1 DEF RunnerStatus
    <3> QED
      BY <3>1, <3>2
  <2> QED
    BY <2>2, <2>3, AloneOutside
<1>14. ASSUME NEW h \in Hdl, HandlerStep(h)
       PROVE  Alone'
  <2>1. /\ pc' = pc /\ (loop = "poll" \/ (loop = "run" /\ cur = h /\ pc[h] = "user"))
        /\ loop' = "run" => cur' = h
    BY <1>14 DEF HandlerStep, HandlerEnters, HandlerReturns
  <2>2. \A b \in Actor : pc'[b] \notin {"lock", "parked"} \cup Holding
    BY <2>1 DEF Alone, Alone_OK, Holding
  <2>3. RunnerStatus'
    BY <2>1, RuntimeAssumption DEF RunnerStatus
  <2> QED
    BY <2>2, <2>3, AloneOutside
<1>15. CASE UNCHANGED vars
  BY <1>15 DEF vars, acvars, Alone, Alone_OK, RunnerStatus
<1>16. ASSUME NEW a \in Actor,
              PushToReader(a) \/ PopFromWriter(a) \/ DrainWriter(a) \/ DrainReader(a)
       PROVE  Alone'
  <2>1. Executes(a)
    BY <1>16 DEF PushToReader, PopFromWriter, DrainWriter, DrainReader, Enters
  <2>2. \E k \in Chan, x \in Waiter : Takes(a, k, x)
    BY <1>16, TakesWriter, TakesReader
  <2> QED
    BY <1>6, <2>1, <2>2
<1> QED
  BY <1>3, <1>4, <1>5, <1>7, <1>8, <1>9, <1>10, <1>11, <1>12, <1>13, <1>14, <1>15,
     <1>16
     DEF Next, ActorStep, CoroutineStep

(* The ready queue and the callback's list hold who can run, once; and not *)
(* who runs, who has not been given to the runtime, or who is to be joined.*)
OnceQueued(q) == \A i, j \in 1..Len(q) : q[i] = q[j] => i = j

Queued(c) == InQueue(c, rq) \/ InQueue(c, yielded)

Queue_OK(c) ==
    /\ ~(InQueue(c, rq) /\ InQueue(c, yielded))
    /\ Queued(c) =>
           /\ status[c] \in {"STARTING", "READY"} /\ cur # c /\ pc[c] # "new"
           /\ \A a \in Actor : ~WokenBy(a, c, {"join"})
    /\ loop = "resume" /\ cur = c => status[c] \in {"STARTING", "READY"}
    /\ pc[c] = "new" => status[c] = "STARTING" /\ cur # c

QueuesOK ==
    /\ OnceQueued(rq) /\ OnceQueued(yielded)
    /\ \A c \in Co : Queue_OK(c)

LEMMA OnceAppend ==
    ASSUME NEW S, NEW q \in Seq(S), NEW d \in S, OnceQueued(q), ~InQueue(d, q)
    PROVE  OnceQueued(Append(q, d))
<1>1. /\ Len(q) \in Nat /\ Len(Append(q, d)) = Len(q) + 1
      /\ Append(q, d)[Len(q) + 1] = d
      /\ \A i \in 1..Len(q) : Append(q, d)[i] = q[i] /\ q[i] # d
  BY DEF InQueue
<1>2. ASSUME NEW i \in 1..Len(q) + 1 PROVE i \in 1..Len(q) \/ i = Len(q) + 1
  BY <1>1
<1> QED
  BY <1>1, <1>2 DEF OnceQueued

LEMMA OnceTail ==
    ASSUME NEW S, NEW q \in Seq(S), q # <<>>, OnceQueued(q)
    PROVE  OnceQueued(Tail(q)) /\ ~InQueue(Head(q), Tail(q))
<1>1. /\ Len(q) \in Nat \ {0} /\ Head(q) = q[1] /\ Len(Tail(q)) = Len(q) - 1
      /\ \A i \in 1..Len(Tail(q)) : /\ Tail(q)[i] = q[i + 1]
                                    /\ i + 1 \in 1..Len(q) /\ i + 1 # 1
      /\ 1 \in 1..Len(q)
  OBVIOUS
<1>2. ~InQueue(Head(q), Tail(q))
  BY <1>1 DEF InQueue, OnceQueued
<1>3. OnceQueued(Tail(q))
  BY <1>1 DEF OnceQueued
<1> QED
  BY <1>2, <1>3

(* The queues and who runs stay; nobody is new or woken that was not.      *)
LEMMA QueuesKept ==
    ASSUME QueuesOK, UNCHANGED <<rq, yielded, cur>>,
           loop' = "resume" => loop = "resume",
           \A c \in Co : /\ pc'[c] = "new" => pc[c] = "new"
                         /\ status[c] \in {"STARTING", "READY"} /\ cur # c =>
                                status'[c] = status[c]
                         /\ \A a \in Actor : WokenBy(a, c, {"join"})' =>
                                \/ WokenBy(a, c, {"join"})
                                \/ status[c] = "WAITING",
           loop' = "resume" => status' = status
    PROVE  QueuesOK'
<1>1. ASSUME NEW c \in Co PROVE Queue_OK(c)'
  <2>1. Queued(c) => status[c] # "WAITING"
    BY DEF QueuesOK, Queue_OK
  <2>2. Queued(c)' <=> Queued(c)
    BY DEF Queued
  <2> QED
    BY <2>1, <2>2 DEF QueuesOK, Queue_OK
<1> QED
  BY <1>1 DEF QueuesOK

(* A coroutine that can run, and that nobody else has, joins the queue.    *)
LEMMA QueuesJoin ==
    ASSUME TypeOK, QueuesOK, NEW d \in Co, NEW malloc, JoinRuntime(d, malloc),
           UNCHANGED <<status, yielded, loop, cur>>,
           status[d] \in {"STARTING", "READY"}, cur # d, pc'[d] # "new",
           ~InQueue(d, yielded),
           \A c \in Co : pc'[c] = "new" => pc[c] = "new",
           \A a \in Actor : ~WokenBy(a, d, {"join"})',
           \A c \in Co : \A a \in Actor :
               WokenBy(a, c, {"join"})' => WokenBy(a, c, {"join"})
    PROVE  QueuesOK'
<1>1. rq' = rq \/ (~InQueue(d, rq) /\ rq' = Append(rq, d))
  BY DEF JoinRuntime
<1>2. OnceQueued(rq')
  BY <1>1, OnceAppend DEF QueuesOK, TypeOK, RuntimeTypeOK
<1>3. \A c : InQueue(c, rq') => InQueue(c, rq) \/ c = d
  BY JoinQueues
<1>4. ASSUME NEW c \in Co PROVE Queue_OK(c)'
  <2>1. CASE c = d
    BY <2>1, <1>3 DEF QueuesOK, Queue_OK, Queued
  <2>2. CASE c # d
    BY <2>2, <1>3 DEF QueuesOK, Queue_OK, Queued
  <2> QED
    BY <2>1, <2>2
<1> QED
  BY <1>2, <1>4 DEF QueuesOK

LEMMA QueuesStep ==
    Thr = {} /\ IInv /\ Sleepers /\ Alone /\ QueuesOK /\ LoopOK /\ [Next]_vars
        => QueuesOK'
<1> SUFFICES ASSUME Thr = {}, IInv, Sleepers, Alone, QueuesOK, LoopOK, [Next]_vars
             PROVE  QueuesOK'
  OBVIOUS
<1> USE DEF IInv, rtvars
<1>0. ASSUME NEW a \in Actor, Others(a), UNCHANGED rtvars, pc'[a] \notin {"join", "new"}
      PROVE  QueuesOK'
  <2>1. \A c \in Co : pc'[c] = "new" => pc[c] = "new"
    BY <1>0 DEF Others, Actor
  <2>2. \A c \in Co, b \in Actor : WokenBy(b, c, {"join"})' => WokenBy(b, c, {"join"})
    BY <1>0 DEF Others, WokenBy
  <2> QED
    BY <1>0, <2>1, <2>2, QueuesKept
<1>1. ASSUME NEW a \in Actor,
             EnterClosed(a) \/ PushToQueue(a) \/ PopFromQueue(a) \/ GiveUp(a)
             \/ Drained(a) \/ \E malloc \in Mallocs : LeaveElement(a, malloc)
      PROVE  QueuesOK'
  <2>1. Others(a) /\ pc'[a] = "user" /\ UNCHANGED rtvars
    BY <1>1, ReturnMoves DEF EnterClosed, PushToQueue, PopFromQueue, GiveUp,
                             Drained, LeaveElement, Enters
  <2> QED
    BY <1>0, <2>1
<1>2. ASSUME NEW a \in Actor,
             EnterRefused(a) \/ Close(a) \/ \E o \in Op, c \in Chan : Call(a, o, c)
      PROVE  QueuesOK'
  <2>1. /\ Others(a) /\ pc'[a] \in {"refused", "drain", "lock", "user"}
        /\ UNCHANGED rtvars
    BY <1>2 DEF EnterRefused, Close, Enters, HoldAt, Call, Begin, Others, TypeOK,
                CallTypeOK, acvars
  <2> QED
    BY <1>0, <2>1
<1>3. ASSUME NEW a \in Actor, WakeNobody(a)
      PROVE  QueuesOK'
  <2>1. Others(a) /\ pc'[a] \in {"user", "drain"} /\ UNCHANGED rtvars
    BY <1>3, ServedMoves DEF WakeNobody
  <2> QED
    BY <1>0, <2>1
<1>4. ASSUME NEW a \in Actor, NEW k \in Chan, NEW x \in Waiter, Takes(a, k, x)
      PROVE  QueuesOK'
  <2>1. /\ \A c \in Co : pc'[c] = "new" => pc[c] = "new"
        /\ \A c \in Co, b \in Actor :
               WokenBy(b, c, {"join"})' => WokenBy(b, c, {"join"})
        /\ UNCHANGED rtvars
    BY <1>4 DEF Takes, WokenBy, TypeOK, CallTypeOK, Actor
  <2> QED
    BY <2>1, QueuesKept
<1>5. ASSUME NEW a \in Actor, NEW malloc \in Mallocs, Join(a, malloc)
      PROVE  QueuesOK'
  <2>1. PICK d \in Co : d = tgt[a].co
    BY <1>5 DEF Join, CallsOK, Call_OK
  <2>2. /\ loop = "run" /\ cur = a /\ pc[a] = "join" /\ Served(a)
        /\ JoinRuntime(d, malloc) /\ UNCHANGED <<status, yielded, loop, cur>>
    BY <1>5, <2>1 DEF Join, Executes
  <2>3. Others(a) /\ pc'[a] \in {"user", "drain"}
    BY <2>2, ServedMoves
  <2>4. status[d] = "READY" /\ pc[d] \in {"parked", "asleep"} /\ WokenBy(a, d, {"join"})
    BY <2>1, <2>2, NoneNotOp
       DEF Alone, Alone_OK, Sleepers, WokenSleep, Woken_OK, Sleeps, WokenBy
  <2>5. cur # d /\ ~Queued(d) /\ d \in Actor
    BY <2>2, <2>4 DEF QueuesOK, Queue_OK, Actor
  <2>6. \A b \in Actor \ {a} : pc[b] # "join" /\ pc'[b] = pc[b] /\ tgt'[b] = tgt[b]
    BY <2>2, <2>3 DEF Alone, Alone_OK, Holding, Others
  <2>7. /\ \A b \in Actor : pc'[b] # "join"
        /\ \A c \in Co : pc'[c] = "new" => pc[c] = "new"
        /\ pc'[d] # "new"
    BY <2>3, <2>4, <2>5, <2>6 DEF Actor
  <2>8. \A c \in Co, b \in Actor : ~WokenBy(b, c, {"join"})'
    BY <2>7 DEF WokenBy
  <2> QED
    BY <2>2, <2>4, <2>5, <2>7, <2>8, QueuesJoin DEF Queued
<1>6. ASSUME NEW d \in Co, Spawn(d)
      PROVE  QueuesOK'
  <2>1. /\ d \in Actor /\ JoinRuntime(d, "ok") /\ pc' = [pc EXCEPT ![d] = "user"]
        /\ pc[d] = "new" /\ UNCHANGED <<status, yielded, loop, cur, tgt>>
    BY <1>6 DEF Spawn, acvars, Actor
  <2>2. status[d] = "STARTING" /\ cur # d /\ ~Queued(d)
    BY <2>1 DEF QueuesOK, Queue_OK
  <2>3. /\ \A b \in Actor : pc'[b] = pc[b] \/ pc'[b] = "user"
        /\ pc'[d] = "user"
    BY <2>1 DEF TypeOK, CallTypeOK
  <2>4. \A c \in Co, b \in Actor : WokenBy(b, c, {"join"})' => WokenBy(b, c, {"join"})
    BY <2>1, <2>3 DEF WokenBy
  <2>5. \A b \in Actor : ~WokenBy(b, d, {"join"})
    BY <2>1, NoneNotOp DEF WokenBy, Sleepers, WokenSleep, Woken_OK, Sleeps
  <2> QED
    BY <2>1, <2>2, <2>3, <2>4, <2>5, QueuesJoin DEF Queued, Actor
<1>7. ASSUME NEW a \in Actor, Wake(a)
      PROVE  QueuesOK'
  <2>1. /\ loop = "run" /\ tgt[a].co \in Co /\ status[tgt[a].co] = "WAITING"
        /\ status' = [status EXCEPT ![tgt[a].co] = "READY"]
        /\ pc' = [pc EXCEPT ![a] = "join"]
        /\ UNCHANGED <<tgt, rq, yielded, loop, cur>>
    BY <1>7, WakeMoves DEF Wake, acvars, Executes
  <2>2. \A c \in Co : /\ pc'[c] = "new" => pc[c] = "new"
                      /\ status[c] \in {"STARTING", "READY"} => status'[c] = status[c]
    BY <2>1 DEF TypeOK, RuntimeTypeOK, CallTypeOK, Actor
  <2>3. ASSUME NEW c \in Co, NEW b \in Actor, WokenBy(b, c, {"join"})'
        PROVE  WokenBy(b, c, {"join"}) \/ status[c] = "WAITING"
    BY <2>1, <2>3 DEF WokenBy, TypeOK, CallTypeOK
  <2> QED
    BY <2>1, <2>2, <2>3, QueuesKept
<1>8. ASSUME NEW a \in Co, (\E malloc \in Mallocs : Block(a, malloc)) \/ Park(a)
                           \/ Yield(a) \/ Terminate(a)
      PROVE  QueuesOK'
  <2>1. /\ a \in Actor /\ cur = a /\ cur' = cur /\ loop' # "resume"
        /\ pc'[a] \notin {"new", "join"}
        /\ \A c \in Co \ {a} : status'[c] = status[c]
        /\ \A b \in Actor \ {a} : pc'[b] = pc[b]
        /\ UNCHANGED <<tgt, rq, yielded>>
    BY <1>8, ChannelAssumption
       DEF Block, Park, Yield, Terminate, Executes, SwapOut, Actor, acvars, TypeOK,
           RuntimeTypeOK, CallTypeOK
  <2>2. \A c \in Co : pc'[c] = "new" => pc[c] = "new"
    BY <2>1 DEF Actor
  <2>3. \A c \in Co, b \in Actor : WokenBy(b, c, {"join"})' => WokenBy(b, c, {"join"})
    BY <2>1 DEF WokenBy
  <2> QED
    BY <2>1, <2>2, <2>3, QueuesKept
<1>9. ASSUME NEW a \in Co, Relock(a)
      PROVE  QueuesOK'
  <2>1. a \in Actor
    BY DEF Actor
  <2>2. Others(a) /\ pc'[a] = "user" /\ UNCHANGED rtvars
    BY <1>9, <2>1, ReturnMoves DEF Relock
  <2> QED
    BY <1>0, <2>1, <2>2
<1>10. CASE LoopThread
  <2>1. UNCHANGED <<pc, tgt>> /\ loop # "run"
    BY <1>10 DEF LoopThread, LoopStep, Callback, Pop, Resume, ResumeTerminated,
                 Resumed, FlushOne, FlushEnd, acvars
  <2>2. /\ \A c \in Co, b \in Actor :
               WokenBy(b, c, {"join"})' => WokenBy(b, c, {"join"})
        /\ \A c \in Co, b \in Actor : ~WokenBy(b, c, {"join"})'
    BY <2>1 DEF WokenBy, Alone, Alone_OK, Holding
  <2>3. CASE Callback \/ FlushEnd
    <3>1. UNCHANGED <<status, rq, yielded, cur>> /\ loop' # "resume"
      BY <2>3 DEF Callback, FlushEnd
    <3> QED
      BY <2>1, <2>2, <3>1, QueuesKept
  <2>4. CASE Pop
    <3>1. CASE rq = <<>>
      <4>1. UNCHANGED <<status, rq, yielded, cur>> /\ loop' # "resume"
        BY <2>4, <3>1 DEF Pop
      <4> QED
        BY <2>1, <2>2, <4>1, QueuesKept
    <3>2. CASE rq # <<>>
      <4>1. /\ rq \in Seq(Co) /\ rq' = Tail(rq) /\ cur' = Head(rq)
            /\ UNCHANGED <<status, yielded>> /\ cur = None
        BY <2>4, <3>2 DEF Pop, LoopOK, TypeOK, RuntimeTypeOK
      <4>2. /\ \A c : InQueue(c, rq) <=> c = Head(rq) \/ InQueue(c, rq')
            /\ OnceQueued(rq') /\ ~InQueue(cur', rq')
        BY <3>2, <4>1, QueueTail, OnceTail DEF QueuesOK
      <4>3. ASSUME NEW c \in Co PROVE Queue_OK(c)'
        BY <2>1, <2>2, <4>1, <4>2 DEF QueuesOK, Queue_OK, Queued
      <4> QED
        BY <4>1, <4>2, <4>3 DEF QueuesOK
    <3> QED
      BY <3>1, <3>2
  <2>5. CASE Resume
    <3>1. /\ cur \in Co /\ loop' = "run" /\ UNCHANGED <<rq, yielded, cur>>
          /\ \A c \in Co \ {cur} : status'[c] = status[c]
      BY <2>5 DEF Resume, LoopOK, TypeOK, RuntimeTypeOK
    <3> QED
      BY <2>1, <2>2, <3>1, QueuesKept
  <2>6. CASE ResumeTerminated
    <3>1. \A c \in Co : Queue_OK(c)'
      BY <2>1, <2>2, <2>6, NoneNotOp DEF ResumeTerminated, QueuesOK, Queue_OK, Queued
    <3> QED
      BY <2>6, <3>1 DEF ResumeTerminated, QueuesOK
  <2>7. CASE Resumed
    <3>1. /\ cur \in Co /\ status' = status /\ rq' = rq /\ cur' = None
          /\ loop' = "pop" /\ yielded \in Seq(Co)
          /\ yielded' = IF status[cur] = "READY" THEN Append(yielded, cur) ELSE yielded
      BY <2>7 DEF Resumed, LoopOK, TypeOK, RuntimeTypeOK
    <3>2. ~Queued(cur) /\ pc[cur] # "new"
      BY <3>1 DEF QueuesOK, Queue_OK
    <3>3. /\ \A c : InQueue(c, yielded') =>
                        InQueue(c, yielded) \/ (c = cur /\ status[cur] = "READY")
          /\ OnceQueued(yielded')
      BY <3>1, <3>2, QueueAppend, OnceAppend DEF QueuesOK, Queued
    <3>4. ASSUME NEW c \in Co PROVE Queue_OK(c)'
      BY <2>1, <2>2, <3>1, <3>2, <3>3, NoneNotOp DEF QueuesOK, Queue_OK, Queued
    <3> QED
      BY <3>1, <3>3, <3>4 DEF QueuesOK
  <2>8. CASE FlushOne
    <3>1. /\ yielded \in Seq(Co) /\ yielded # <<>> /\ rq \in Seq(Co)
          /\ yielded' = Tail(yielded) /\ Head(yielded) \in Co
          /\ UNCHANGED <<status, loop, cur>> /\ loop = "flush"
      BY <2>8 DEF FlushOne, TypeOK, RuntimeTypeOK
    <3>2. /\ \A c : InQueue(c, yielded) <=> c = Head(yielded) \/ InQueue(c, yielded')
          /\ OnceQueued(yielded') /\ ~InQueue(Head(yielded), yielded')
      BY <3>1, QueueTail, OnceTail DEF QueuesOK
    <3>3. ~InQueue(Head(yielded), rq)
      BY <3>1, <3>2 DEF QueuesOK, Queue_OK
    <3>4. rq' = Append(rq, Head(yielded))
      BY <2>8, <3>3 DEF FlushOne
    <3>5. /\ \A c : InQueue(c, rq') <=> InQueue(c, rq) \/ c = Head(yielded)
          /\ OnceQueued(rq')
      BY <3>1, <3>3, <3>4, QueueAppend, OnceAppend DEF QueuesOK
    <3>6. ASSUME NEW c \in Co PROVE Queue_OK(c)'
      BY <2>1, <2>2, <3>1, <3>2, <3>5 DEF QueuesOK, Queue_OK, Queued
    <3> QED
      BY <3>2, <3>5, <3>6 DEF QueuesOK
  <2> QED
    BY <1>10, <2>3, <2>4, <2>5, <2>6, <2>7, <2>8 DEF LoopThread, LoopStep
<1>11. ASSUME NEW h \in Hdl, HandlerStep(h)
       PROVE  QueuesOK'
  <2>1. /\ UNCHANGED <<pc, tgt, status, rq, yielded>> /\ cur' \notin Co
        /\ loop' # "resume"
    BY <1>11, RuntimeAssumption DEF HandlerStep, HandlerEnters, HandlerReturns, acvars
  <2>2. \A c \in Co, b \in Actor : WokenBy(b, c, {"join"})' <=> WokenBy(b, c, {"join"})
    BY <2>1 DEF WokenBy
  <2>3. ASSUME NEW c \in Co PROVE Queue_OK(c)'
    BY <2>1, <2>2 DEF QueuesOK, Queue_OK, Queued
  <2> QED
    BY <2>1, <2>3 DEF QueuesOK
<1>12. CASE UNCHANGED vars
  <2>1. \A c \in Co, b \in Actor : WokenBy(b, c, {"join"})' => WokenBy(b, c, {"join"})
    BY <1>12 DEF vars, acvars, WokenBy
  <2> QED
    BY <1>12, <2>1, QueuesKept DEF vars
<1> QED
  BY <1>1, <1>2, <1>3, <1>4, <1>5, <1>6, <1>7, <1>8, <1>9, <1>10, <1>11, <1>12,
     TakesWriter, TakesReader
     DEF Next, ActorStep, CoroutineStep

(* When no other threads call, what the callback resumes can be resumed:   *)
(* liteco_resume never spins on a coroutine that sleeps in a channel       *)
(* (lc_coroutine.c:77, lc_runtime.c:97-104), however many coroutines and   *)
(* callbacks share the loop and whatever malloc does.                      *)
THEOREM QueuedCanRun == Thr = {} => (Spec => []OnlyRunnableQueued)
<1> SUFFICES ASSUME Thr = {} PROVE Spec => []OnlyRunnableQueued
  OBVIOUS
<1>1. Init => Alone /\ QueuesOK
  <2> SUFFICES ASSUME Init PROVE Alone /\ QueuesOK
    OBVIOUS
  <2>1. /\ rq = <<>> /\ yielded = <<>> /\ loop = "poll" /\ cur = None
        /\ \A c \in Co : status[c] = "STARTING"
        /\ \A a \in Actor : pc[a] \in {"new", "user"}
    BY DEF Init, RuntimeInit
  <2>2. Alone
    BY <2>1 DEF Alone, Alone_OK, RunnerStatus, Holding
  <2>3. QueuesOK
    BY <2>1, NoneNotOp DEF QueuesOK, Queue_OK, Queued, InQueue, OnceQueued
  <2> QED
    BY <2>2, <2>3
<1>2. IInv /\ Sleepers /\ LoopOK /\ Alone /\ QueuesOK /\ [Next]_vars
          => (Alone /\ QueuesOK)'
  BY AloneStep, QueuesStep
<1>3. QueuesOK => OnlyRunnableQueued
  BY DEF QueuesOK, Queue_OK, Queued, OnlyRunnableQueued
<1> QED
  BY <1>1, <1>2, <1>3, LoopHolds, PTL DEF Spec

-----------------------------------------------------------------------------

(* The elements of a list of waiting writers, and that each is in it once. *)
Offers(e, s) == \E i \in 1..Len(s) : s[i].ele = e

OnceOffered(s) == \A i, j \in 1..Len(s) : s[i].ele = s[j].ele => i = j

(* The places of an element: the buffer, a waiting writer, a pop that has  *)
(* not returned, or a pop that has.                                        *)
Buffered(e) == InQueue(e, queue[e.on])
Offered(e) == Offers(e, w[e.on])
Held(e) == \E a \in Actor : op[a] \in Pops /\ ele[a] = e
Popped(e) == e \in received

Present(e) == Buffered(e) \/ Offered(e) \/ Held(e) \/ Popped(e)

(* No element is in two places, or twice in one.                           *)
Apart(e) ==
    /\ ~(Buffered(e) /\ Offered(e)) /\ ~(Buffered(e) /\ Held(e))
    /\ ~(Buffered(e) /\ Popped(e)) /\ ~(Offered(e) /\ Held(e))
    /\ ~(Offered(e) /\ Popped(e)) /\ ~(Held(e) /\ Popped(e))

OneHolder ==
    \A a, b \in Actor :
        op[a] \in Pops /\ op[b] \in Pops /\ ele[a] = ele[b] /\ ele[a] # None => a = b

(* A buffer and the writers of a channel have elements pushed to it, once, *)
(* and its readers are coroutines.                                         *)
Lists_OK(k) ==
    /\ OnceQueued(queue[k]) /\ OnceOffered(w[k])
    /\ \A e : InQueue(e, queue[k]) => e \in Elem /\ e.on = k
    /\ \A e : Offers(e, w[k]) => e \in Elem /\ e.on = k
    /\ \A i \in 1..Len(r[k]) : r[k][i].co # None

ListsOK == \A k \in Chan : Lists_OK(k)

(* An element is in a place only after the call that pushes it, and what a *)
(* push has not delivered yet is in none.                                  *)
Pushed_OK(a) ==
    /\ pc[a] \in {"new", "user", "dead"} => op[a] = None
    /\ op[a] \in Pushes =>
           /\ ele[a] \in Elem /\ ele[a].by = a /\ ele[a].on = ch[a]
           /\ ele[a].n = left[a] + 1
    /\ op[a] \in Pushes /\ pc[a] \in {"lock", "refused"} => ~Present(ele[a])

PushedOK == \A a \in Actor : Pushed_OK(a)

ElementsOK == \A e \in Elem : Apart(e) /\ (Present(e) => e.n > left[e.by])

Delivery == ListsOK /\ OneHolder /\ PushedOK /\ ElementsOK

-----------------------------------------------------------------------------
LEMMA OffersTail ==
    ASSUME NEW s \in Seq(Waiter), s # <<>>
    PROVE  /\ \A e : Offers(e, s) <=> e = Head(s).ele \/ Offers(e, Tail(s))
           /\ OnceOffered(s) => /\ OnceOffered(Tail(s))
                                /\ ~Offers(Head(s).ele, Tail(s))
<1>1. /\ Len(s) \in Nat \ {0} /\ Head(s) = s[1] /\ Len(Tail(s)) = Len(s) - 1
      /\ \A i \in 1..Len(Tail(s)) : /\ Tail(s)[i] = s[i + 1]
                                    /\ i + 1 \in 1..Len(s) /\ i + 1 # 1
      /\ 1 \in 1..Len(s)
  OBVIOUS
<1>2. \A i \in 1..Len(s) : i = 1 \/ (i - 1 \in 1..Len(Tail(s)) /\ Tail(s)[i - 1] = s[i])
  BY <1>1
<1>3. \A e : Offers(e, s) <=> e = Head(s).ele \/ Offers(e, Tail(s))
  BY <1>1, <1>2 DEF Offers
<1>4. OnceOffered(s) => OnceOffered(Tail(s)) /\ ~Offers(Head(s).ele, Tail(s))
  BY <1>1 DEF OnceOffered, Offers
<1> QED
  BY <1>3, <1>4

LEMMA OffersPush ==
    ASSUME NEW s \in Seq(Waiter), NEW x \in Waiter
    PROVE  /\ \A e : Offers(e, <<x>> \o s) <=> e = x.ele \/ Offers(e, s)
           /\ OnceOffered(s) /\ ~Offers(x.ele, s) => OnceOffered(<<x>> \o s)
<1> DEFINE t == <<x>> \o s
<1>1. /\ Len(s) \in Nat /\ Len(t) = Len(s) + 1 /\ t[1] = x
      /\ \A i \in 1..Len(s) : t[i + 1] = s[i] /\ i + 1 \in 1..Len(t)
      /\ 1 \in 1..Len(t)
  OBVIOUS
<1> HIDE DEF t
<1>2. \A i \in 1..Len(t) : i = 1 \/ (i - 1 \in 1..Len(s) /\ s[i - 1] = t[i])
  BY <1>1
<1>3. \A e : Offers(e, t) <=> e = x.ele \/ Offers(e, s)
  BY <1>1, <1>2 DEF Offers
<1>4. OnceOffered(s) /\ ~Offers(x.ele, s) => OnceOffered(t)
  <2> SUFFICES ASSUME OnceOffered(s), ~Offers(x.ele, s),
                      NEW i \in 1..Len(t), NEW j \in 1..Len(t), t[i].ele = t[j].ele
               PROVE  i = j
    BY DEF OnceOffered
  <2>1. CASE i = 1 /\ j # 1
    BY <1>1, <1>2, <2>1 DEF Offers
  <2>2. CASE i # 1 /\ j = 1
    BY <1>1, <1>2, <2>2 DEF Offers
  <2>3. CASE i # 1 /\ j # 1
    <3>1. /\ i - 1 \in 1..Len(s) /\ s[i - 1] = t[i]
          /\ j - 1 \in 1..Len(s) /\ s[j - 1] = t[j]
      BY <1>2, <2>3
    <3>2. i - 1 = j - 1
      BY <3>1 DEF OnceOffered
    <3> QED
      BY <1>1, <3>2
  <2> QED
    BY <2>1, <2>2, <2>3
<1> QED
  BY <1>3, <1>4 DEF t

(* A list of readers that are coroutines stays one.                        *)
LEMMA ReadersTail ==
    ASSUME NEW s \in Seq(Waiter), s # <<>>, \A i \in 1..Len(s) : s[i].co # None
    PROVE  \A i \in 1..Len(Tail(s)) : Tail(s)[i].co # None
  OBVIOUS

LEMMA ReadersPush ==
    ASSUME NEW s \in Seq(Waiter), \A i \in 1..Len(s) : s[i].co # None,
           NEW x \in Waiter, x.co # None
    PROVE  \A i \in 1..Len(<<x>> \o s) : (<<x>> \o s)[i].co # None
  OBVIOUS

-----------------------------------------------------------------------------
(* A step of the actor a that moves at most the element x, which was in a  *)
(* place or is what a pushes, and that leaves the other actors' pushes.    *)
LEMMA ElementsMove ==
    ASSUME TypeOK, Delivery, NEW a \in Actor, NEW x, ListsOK', OneHolder', Pushed_OK(a)',
           left' = left,
           \A b \in Actor \ {a} : /\ pc'[b] = pc[b] /\ op'[b] = op[b] /\ ch'[b] = ch[b]
                                  /\ op[b] \in Pushes => ele'[b] = ele[b],
           \A e \in Elem \ {x} : /\ Buffered(e)' => Buffered(e)
                                 /\ Offered(e)' => Offered(e)
                                 /\ Held(e)' => Held(e)
                                 /\ Popped(e)' => Popped(e),
           x \in Elem => /\ Apart(x)'
                         /\ Present(x) \/ (op[a] \in Pushes /\ x = ele[a])
    PROVE  Delivery'
<1>1. ASSUME NEW e \in Elem PROVE Apart(e)' /\ (Present(e)' => e.n > left'[e.by])
  <2>1. CASE e = x
    <3>1. op[a] \in Pushes /\ x = ele[a] => x.n > left[x.by]
      BY <2>1, ChannelAssumption
         DEF Delivery, PushedOK, Pushed_OK, Elem, TypeOK, CallTypeOK
    <3> QED
      BY <2>1, <3>1 DEF Delivery, ElementsOK
  <2>2. CASE e # x
    BY <2>2 DEF Delivery, ElementsOK, Apart, Present
  <2> QED
    BY <2>1, <2>2
<1>2. ASSUME NEW b \in Actor PROVE Pushed_OK(b)'
  <2>1. CASE b = a
    BY <2>1
  <2>2. CASE b # a
    <3>1. /\ Pushed_OK(b) /\ pc'[b] = pc[b] /\ op'[b] = op[b] /\ ch'[b] = ch[b]
          /\ op[b] \in Pushes => ele'[b] = ele[b]
      BY <2>2 DEF Delivery, PushedOK
    <3>2. op[b] \in Pushes /\ pc[b] \in {"lock", "refused"} => ~Present(ele[b])'
      <4> SUFFICES ASSUME op[b] \in Pushes, pc[b] \in {"lock", "refused"}
                   PROVE  ~Present(ele[b])'
        OBVIOUS
      <4>1. PICK y \in Elem : y = ele[b] /\ y = ele'[b]
        BY <3>1 DEF Pushed_OK
      <4>2. y.by = b /\ ~Present(y)
        BY <3>1, <4>1 DEF Pushed_OK
      <4>3. y # x
        BY <2>2, <4>2 DEF Delivery, PushedOK, Pushed_OK
      <4>4. ~Present(y)'
        BY <4>2, <4>3 DEF Present
      <4> QED
        BY <4>1, <4>4 DEF Present, Buffered, Offered, Held, Popped
    <3> QED
      BY <3>1, <3>2 DEF Pushed_OK
  <2> QED
    BY <2>1, <2>2
<1> QED
  BY <1>1, <1>2 DEF Delivery, PushedOK, ElementsOK

(* The call of a is over: no pop of a holds an element any more.           *)
LEMMA CallOver ==
    ASSUME TypeOK, OneHolder, NEW a \in Actor, NEW acc, NEW rec, Return(a, acc, rec)
    PROVE  /\ Others(a) /\ OneHolder' /\ Pushed_OK(a)'
           /\ \A e \in Elem : Held(e)' => Held(e)
           /\ op[a] \in Pops => \A e \in Elem : e = ele[a] => ~Held(e)'
           /\ received' = received \cup (rec \ {None})
<1>1. /\ pc'[a] = "user" /\ op'[a] = None /\ op'[a] \notin Pops /\ Others(a)
      /\ None \notin Pushes
  BY ReturnMoves, NoneNotOp DEF Pushes, Op
<1>2. OneHolder'
  BY <1>1 DEF OneHolder, Others
<1>3. \A e \in Elem : Held(e)' => Held(e)
  BY <1>1 DEF Held, Others
<1>4. op[a] \in Pops => \A e \in Elem : e = ele[a] => ~Held(e)'
  BY <1>1, ElemAssumption DEF Held, OneHolder, Others
<1>5. Pushed_OK(a)'
  BY <1>1 DEF Pushed_OK
<1> QED
  BY <1>1, <1>2, <1>3, <1>4, <1>5 DEF Return

LEMMA ListsKept == ListsOK /\ UNCHANGED <<queue, w, r>> => ListsOK'
  BY DEF ListsOK, Lists_OK

(* A call returns; a pop with what it holds, if anything.                  *)
LEMMA ReturnDelivers ==
    ASSUME TypeOK, Delivery, NEW a \in Actor, NEW acc, NEW rec, Return(a, acc, rec),
           UNCHANGED <<queue, w, r, left>>,
           rec \subseteq {None} \/ (op[a] \in Pops /\ rec = {ele[a]})
    PROVE  Delivery'
<1>1. /\ Others(a) /\ OneHolder' /\ Pushed_OK(a)' /\ ListsOK'
      /\ \A e \in Elem : Held(e)' => Held(e)
      /\ op[a] \in Pops => \A e \in Elem : e = ele[a] => ~Held(e)'
      /\ received' = received \cup (rec \ {None})
  BY CallOver, ListsKept DEF Delivery
<1>2. \A b \in Actor \ {a} : /\ pc'[b] = pc[b] /\ op'[b] = op[b] /\ ch'[b] = ch[b]
                             /\ op[b] \in Pushes => ele'[b] = ele[b]
  BY <1>1 DEF Others
<1>3. \A e \in Elem : (Buffered(e)' <=> Buffered(e)) /\ (Offered(e)' <=> Offered(e))
  BY DEF Buffered, Offered
<1>4. CASE rec \subseteq {None}
  <2>1. \A e \in Elem : Popped(e)' => Popped(e)
    BY <1>1, <1>4 DEF Popped
  <2> QED
    BY <1>1, <1>2, <1>3, <2>1, ElementsMove, ElemAssumption
<1>5. CASE op[a] \in Pops /\ rec = {ele[a]}
  <2>1. PICK x : x = ele[a]
    OBVIOUS
  <2>2. \A e \in Elem \ {x} : Popped(e)' => Popped(e)
    BY <1>1, <1>5, <2>1 DEF Popped
  <2>3. x \in Elem => Held(x) /\ ~Held(x)'
    BY <1>1, <1>5, <2>1 DEF Held
  <2>4. x \in Elem => Apart(x)' /\ Present(x)
    BY <1>3, <2>3 DEF Delivery, ElementsOK, Apart, Present
  <2> QED
    BY <1>1, <1>2, <1>3, <2>2, <2>4, ElementsMove
<1> QED
  BY <1>4, <1>5

(* An actor goes from one place to another with its call and its element.  *)
LEMMA PlaceDelivers ==
    ASSUME TypeOK, Delivery, NEW a \in Actor, UNCHANGED <<op, ch, ele, queue, w, r, left,
                                                          received>>,
           \A b \in Actor \ {a} : pc'[b] = pc[b],
           \/ pc'[a] \notin {"new", "user", "dead", "lock", "refused"}
           \/ pc'[a] = "refused" /\ pc[a] = "lock"
           \/ pc'[a] \in {"user", "dead"} /\ pc[a] \in {"new", "user"}
    PROVE  Delivery'
<1>1. ListsOK' /\ OneHolder'
  BY ListsKept DEF Delivery, OneHolder
<1>2. \A e : /\ (Buffered(e)' <=> Buffered(e)) /\ (Offered(e)' <=> Offered(e))
             /\ (Held(e)' <=> Held(e)) /\ (Popped(e)' <=> Popped(e))
  BY DEF Buffered, Offered, Held, Popped
<1>3. \A e : Present(e)' <=> Present(e)
  BY <1>2 DEF Present
<1>4. Pushed_OK(a)'
  <2>1. Pushed_OK(a)
    BY DEF Delivery, PushedOK
  <2>2. ASSUME op'[a] \in Pushes, pc'[a] \in {"lock", "refused"}
        PROVE  ~Present(ele[a])'
    <3>1. PICK y : y = ele[a] /\ y = ele'[a]
      OBVIOUS
    <3>2. ~Present(y)'
      BY <1>3, <2>1, <2>2, <3>1 DEF Pushed_OK
    <3> QED
      BY <3>1, <3>2 DEF Present, Buffered, Offered, Held, Popped
  <2> QED
    BY <2>1, <2>2 DEF Pushed_OK
<1> QED
  BY <1>1, <1>2, <1>4, ElementsMove, ElemAssumption

LEMMA ServedDelivers ==
    ASSUME TypeOK, CallsOK, PlainTargets, Delivery, NEW a \in Actor, Served(a),
           pc[a] \in {"wake", "join"}, UNCHANGED <<chvars, left>>
    PROVE  Delivery'
<1>1. tgt[a].kind # "select" /\ op[a] \in Op
  BY DEF CallsOK, Call_OK, Holding, PlainTargets
<1>2. CASE op[a] = "close"
  <2>1. /\ pc' = [pc EXCEPT ![a] = "drain"]
        /\ UNCHANGED <<op, ch, ele, queue, w, r, left, received>>
    BY <1>2 DEF Served, HoldAt, acvars, chvars, history
  <2>2. pc'[a] = "drain" /\ \A b \in Actor \ {a} : pc'[b] = pc[b]
    BY <2>1 DEF TypeOK, CallTypeOK
  <2> QED
    BY <2>1, <2>2, PlaceDelivers
<1>3. CASE op[a] \in Pushes
  <2>1. Return(a, {ele[a]}, {}) /\ UNCHANGED <<queue, w, r, left>>
    BY <1>1, <1>3 DEF Served, Pushes, chvars
  <2>2. {} \subseteq {None}
    OBVIOUS
  <2> QED
    BY <2>1, <2>2, ReturnDelivers
<1>4. CASE op[a] \in Pops
  <2>1. Return(a, {}, {ele[a]}) /\ UNCHANGED <<queue, w, r, left>>
    BY <1>1, <1>4 DEF Served, Pushes, Pops, chvars
  <2> QED
    BY <1>4, <2>1, ReturnDelivers
<1> QED
  BY <1>1, <1>2, <1>3, <1>4 DEF Op, Pushes, Pops

-----------------------------------------------------------------------------
(* An element goes into the buffer; it was in no place.                    *)
LEMMA PushQueueDelivers ==
    ASSUME IInv, Delivery, NEW a \in Actor, PushToQueue(a)
    PROVE  Delivery'
<1> USE DEF IInv
<1>1. /\ op[a] \in Pushes /\ pc[a] = "lock" /\ ch[a] \in Chan
      /\ Return(a, {ele[a]}, {}) /\ UNCHANGED <<w, r, left>>
      /\ queue' = [queue EXCEPT ![ch[a]] = Append(@, ele[a])]
  BY DEF PushToQueue, Enters, CallsOK, Call_OK
<1>2. PICK k \in Chan, x \in Elem : k = ch[a] /\ x = ele[a]
  BY <1>1 DEF CallsOK, Call_OK
<1>3. /\ queue'[k] = Append(queue[k], x) /\ queue[k] \in Seq(Elem)
      /\ \A j \in Chan \ {k} : queue'[j] = queue[j]
      /\ x.on = k /\ ~Present(x)
  BY <1>1, <1>2 DEF TypeOK, ChannelTypeOK, Delivery, PushedOK, Pushed_OK
<1>4. /\ \A e : InQueue(e, queue'[k]) <=> InQueue(e, queue[k]) \/ e = x
      /\ OnceQueued(queue'[k])
  BY <1>3, QueueAppend, OnceAppend
     DEF Delivery, ListsOK, Lists_OK, Present, Buffered
<1>5. ListsOK'
  BY <1>1, <1>3, <1>4 DEF Delivery, ListsOK, Lists_OK
<1>6. /\ Others(a) /\ OneHolder' /\ Pushed_OK(a)'
      /\ \A e \in Elem : Held(e)' => Held(e)
      /\ received' = received
  <2>1. received' = received
    BY <1>1 DEF Return
  <2> QED
    BY <1>1, <2>1, CallOver DEF Delivery
<1>7. \A e \in Elem : /\ Buffered(e)' => Buffered(e) \/ e = x
                      /\ Offered(e)' <=> Offered(e)
                      /\ Popped(e)' <=> Popped(e)
  BY <1>1, <1>3, <1>4, <1>6 DEF Buffered, Offered, Popped, Elem
<1>8. Apart(x)'
  BY <1>3, <1>6, <1>7 DEF Apart, Present
<1>9. \A b \in Actor \ {a} : /\ pc'[b] = pc[b] /\ op'[b] = op[b] /\ ch'[b] = ch[b]
                             /\ op[b] \in Pushes => ele'[b] = ele[b]
  BY <1>6 DEF Others
<1> QED
  BY <1>1, <1>2, <1>5, <1>6, <1>7, <1>8, <1>9, ElementsMove

(* An element leaves the buffer with the pop that returns it.              *)
LEMMA PopQueueDelivers ==
    ASSUME IInv, Delivery, NEW a \in Actor, PopFromQueue(a)
    PROVE  Delivery'
<1> USE DEF IInv
<1>1. /\ ch[a] \in Chan /\ queue[ch[a]] # <<>>
      /\ Return(a, {}, {Head(queue[ch[a]])}) /\ UNCHANGED <<w, r, left>>
      /\ queue' = [queue EXCEPT ![ch[a]] = Tail(@)]
  BY DEF PopFromQueue, Enters, CallsOK, Call_OK
<1>2. PICK k \in Chan : k = ch[a]
  BY <1>1
<1>3. PICK x : x = Head(queue[k])
  OBVIOUS
<1>4. /\ queue'[k] = Tail(queue[k]) /\ queue[k] \in Seq(Elem) /\ queue[k] # <<>>
      /\ \A j \in Chan \ {k} : queue'[j] = queue[j]
  BY <1>1, <1>2 DEF TypeOK, ChannelTypeOK
<1>5. /\ \A e : InQueue(e, queue[k]) <=> e = x \/ InQueue(e, queue'[k])
      /\ OnceQueued(queue'[k]) /\ ~InQueue(x, queue'[k])
  BY <1>3, <1>4, QueueTail, OnceTail DEF Delivery, ListsOK, Lists_OK
<1>6. x \in Elem /\ x.on = k /\ Buffered(x) /\ ~Buffered(x)'
  BY <1>5 DEF Delivery, ListsOK, Lists_OK, Buffered
<1>7. ListsOK'
  BY <1>1, <1>4, <1>5 DEF Delivery, ListsOK, Lists_OK
<1>8. /\ Others(a) /\ OneHolder' /\ Pushed_OK(a)'
      /\ \A e \in Elem : Held(e)' => Held(e)
      /\ received' = received \cup ({x} \ {None})
  BY <1>1, <1>2, <1>3, CallOver DEF Delivery
<1>9. \A e \in Elem : /\ Buffered(e)' => Buffered(e)
                      /\ Offered(e)' <=> Offered(e)
                      /\ Popped(e)' => Popped(e) \/ e = x
  BY <1>1, <1>4, <1>5, <1>8 DEF Buffered, Offered, Popped, Elem
<1>10. Apart(x)' /\ Present(x)
  BY <1>6, <1>8, <1>9 DEF Delivery, ElementsOK, Apart, Present
<1>11. \A b \in Actor \ {a} : /\ pc'[b] = pc[b] /\ op'[b] = op[b] /\ ch'[b] = ch[b]
                              /\ op[b] \in Pushes => ele'[b] = ele[b]
  BY <1>8 DEF Others
<1> QED
  BY <1>1, <1>7, <1>8, <1>9, <1>10, <1>11, ElementsMove

(* The list of writers of a channel loses its first element, or gets a     *)
(* new one.                                                                *)
LEMMA WritersTail ==
    ASSUME TypeOK, ListsOK, NEW k \in Chan, w[k] # <<>>,
           w' = [w EXCEPT ![k] = Tail(@)], UNCHANGED <<queue, r>>
    PROVE  \E x \in Elem :
               /\ x = Head(w[k]).ele /\ x.on = k /\ Offered(x) /\ ~Offered(x)'
               /\ ListsOK'
               /\ \A e \in Elem : /\ Offered(e)' => Offered(e)
                                  /\ Offered(e) => Offered(e)' \/ e = x
                                  /\ Buffered(e)' <=> Buffered(e)
<1>1. PICK x : x = Head(w[k]).ele
  OBVIOUS
<1>2. /\ w'[k] = Tail(w[k]) /\ w[k] \in Seq(Waiter)
      /\ \A j \in Chan \ {k} : w'[j] = w[j]
  BY DEF TypeOK, ChannelTypeOK
<1>3. /\ \A e : Offers(e, w[k]) <=> e = x \/ Offers(e, w'[k])
      /\ OnceOffered(w'[k]) /\ ~Offers(x, w'[k])
  BY <1>1, <1>2, OffersTail DEF ListsOK, Lists_OK
<1>4. x \in Elem /\ x.on = k /\ Offered(x) /\ ~Offered(x)'
  BY <1>3 DEF ListsOK, Lists_OK, Offered
<1>5. ListsOK'
  BY <1>2, <1>3 DEF ListsOK, Lists_OK
<1>6. \A e \in Elem : /\ Offered(e)' => Offered(e)
                      /\ Offered(e) => Offered(e)' \/ e = x
                      /\ Buffered(e)' <=> Buffered(e)
  BY <1>2, <1>3 DEF Offered, Buffered, Elem
<1> QED
  BY <1>1, <1>4, <1>5, <1>6

LEMMA WritersPush ==
    ASSUME TypeOK, ListsOK, NEW k \in Chan, NEW y \in Waiter, y.ele \in Elem,
           y.ele.on = k, ~Offered(y.ele),
           w' = [w EXCEPT ![k] = <<y>> \o @], UNCHANGED <<queue, r>>
    PROVE  /\ ListsOK' /\ Offered(y.ele)'
           /\ \A e \in Elem : /\ Offered(e)' <=> Offered(e) \/ e = y.ele
                              /\ Buffered(e)' <=> Buffered(e)
<1>1. PICK x \in Elem : x = y.ele
  OBVIOUS
<1>2. /\ w'[k] = <<y>> \o w[k] /\ w[k] \in Seq(Waiter)
      /\ \A j \in Chan \ {k} : w'[j] = w[j]
  BY DEF TypeOK, ChannelTypeOK
<1>3. /\ \A e : Offers(e, w'[k]) <=> e = x \/ Offers(e, w[k])
      /\ OnceOffered(w'[k])
  BY <1>1, <1>2, OffersPush DEF ListsOK, Lists_OK, Offered
<1>4. ListsOK'
  BY <1>1, <1>2, <1>3 DEF ListsOK, Lists_OK
<1>5. \A e \in Elem : /\ Offered(e)' <=> Offered(e) \/ e = x
                      /\ Buffered(e)' <=> Buffered(e)
  BY <1>1, <1>2, <1>3 DEF Offered, Buffered, Elem
<1> QED
  BY <1>1, <1>4, <1>5

(* The list of readers of a channel loses its first, or gets a new one.    *)
LEMMA ReadersShrink ==
    ASSUME TypeOK, ListsOK, NEW k \in Chan, r[k] # <<>>,
           r' = [r EXCEPT ![k] = Tail(@)], UNCHANGED <<queue, w>>
    PROVE  ListsOK'
<1>1. r[k] \in Seq(Waiter) /\ \A i \in 1..Len(r[k]) : r[k][i].co # None
  BY DEF TypeOK, ChannelTypeOK, ListsOK, Lists_OK
<1>2. \A i \in 1..Len(Tail(r[k])) : Tail(r[k])[i].co # None
  BY <1>1, ReadersTail
<1>3. r'[k] = Tail(r[k]) /\ \A j \in Chan \ {k} : r'[j] = r[j]
  BY DEF TypeOK, ChannelTypeOK
<1>4. ASSUME NEW j \in Chan PROVE Lists_OK(j)'
  BY <1>2, <1>3 DEF ListsOK, Lists_OK
<1> QED
  BY <1>4 DEF ListsOK

LEMMA ReadersGrow ==
    ASSUME TypeOK, ListsOK, NEW k \in Chan, NEW x \in Waiter, x.co # None,
           r' = [r EXCEPT ![k] = <<x>> \o @], UNCHANGED <<queue, w>>
    PROVE  ListsOK'
<1>1. r[k] \in Seq(Waiter) /\ \A i \in 1..Len(r[k]) : r[k][i].co # None
  BY DEF TypeOK, ChannelTypeOK, ListsOK, Lists_OK
<1>2. \A i \in 1..Len(<<x>> \o r[k]) : (<<x>> \o r[k])[i].co # None
  BY <1>1, ReadersPush
<1>3. r'[k] = <<x>> \o r[k] /\ \A j \in Chan \ {k} : r'[j] = r[j]
  BY DEF TypeOK, ChannelTypeOK
<1>4. ASSUME NEW j \in Chan PROVE Lists_OK(j)'
  <2>1. CASE j = k
    <3>1. \A i \in 1..Len(r'[j]) : r'[j][i].co # None
      BY <1>2, <1>3, <2>1
    <3> QED
      BY <3>1 DEF ListsOK, Lists_OK
  <2>2. CASE j # k
    BY <1>3, <2>2 DEF ListsOK, Lists_OK
  <2> QED
    BY <2>1, <2>2
<1> QED
  BY <1>4 DEF ListsOK

(* A waiting writer's element goes to the pop that takes it.               *)
LEMMA PopWriterDelivers ==
    ASSUME IInv, Sleepers, Delivery, NEW a \in Actor, PopFromWriter(a)
    PROVE  Delivery'
<1> USE DEF IInv
<1>1. /\ op[a] \in Pops /\ pc[a] = "lock" /\ ch[a] \in Chan /\ w[ch[a]] # <<>>
      /\ w' = [w EXCEPT ![ch[a]] = Tail(@)] /\ UNCHANGED <<queue, r, op, ch, left, received>>
      /\ pc' = [pc EXCEPT ![a] = "wake"]
      /\ ele' = IF Head(w[ch[a]]).kind = "plain"
                THEN [ele EXCEPT ![a] = Head(w[ch[a]]).ele] ELSE ele
  BY DEF PopFromWriter, Enters, HoldAt, CallsOK, Call_OK, history
<1>2. PICK k \in Chan : k = ch[a]
  BY <1>1
<1>3. PICK x \in Elem :
          /\ x = Head(w[k]).ele /\ x.on = k /\ Offered(x) /\ ~Offered(x)' /\ ListsOK'
          /\ \A e \in Elem : /\ Offered(e)' => Offered(e)
                             /\ Offered(e) => Offered(e)' \/ e = x
                             /\ Buffered(e)' <=> Buffered(e)
  BY <1>1, <1>2, WritersTail DEF Delivery
<1>4. Head(w[k]).kind = "plain"
  <2>1. w[k] \in Seq(Waiter) /\ w[k] # <<>> /\ \A i \in 1..Len(w[k]) : w[k][i].kind = "plain"
    BY <1>1, <1>2 DEF PlainWaiters, TypeOK, ChannelTypeOK
  <2>2. Head(w[k]) = w[k][1] /\ 1 \in 1..Len(w[k])
    BY <2>1
  <2> QED
    BY <2>1, <2>2
<1>5. ele'[a] = x /\ \A b \in Actor \ {a} : pc'[b] = pc[b] /\ ele'[b] = ele[b]
  BY <1>1, <1>2, <1>3, <1>4 DEF TypeOK, CallTypeOK
<1>6. ~Held(x)
  BY <1>3 DEF Delivery, ElementsOK, Apart
<1>7. OneHolder'
  BY <1>1, <1>5, <1>6 DEF Delivery, OneHolder, Held
<1>8. Pushed_OK(a)'
  BY <1>1 DEF Pushed_OK, Pushes, Pops, TypeOK, CallTypeOK
<1>9. \A e \in Elem : /\ Held(e)' => Held(e) \/ e = x
                      /\ Popped(e)' <=> Popped(e)
  BY <1>1, <1>5 DEF Held, Popped
<1>10. Apart(x)' /\ Present(x)
  BY <1>3, <1>9 DEF Delivery, ElementsOK, Apart, Present
<1> QED
  BY <1>1, <1>3, <1>5, <1>7, <1>8, <1>9, <1>10, ElementsMove

(* A push gives its element to a waiting reader, which had none.           *)
HandedTo(a, d, x) ==
    /\ op[a] \in Pushes /\ x = ele[a] /\ x.by = a /\ ~Present(x)
    /\ d \in Actor /\ d # a /\ op[d] = "pop" /\ ele[d] = None
    /\ ele'[d] = x /\ \A b \in Actor \ {d} : ele'[b] = ele[b]
    /\ pc'[a] = "wake" /\ \A b \in Actor \ {a} : pc'[b] = pc[b]
    /\ UNCHANGED <<queue, w, op, ch, left, received, closed, accepted>>

LEMMA ReaderGets ==
    ASSUME IInv, Sleepers, Delivery, NEW a \in Actor, PushToReader(a)
    PROVE  ListsOK' /\ \E d \in Co, x \in Elem : HandedTo(a, d, x)
<1> USE DEF IInv
<1>1. /\ op[a] \in Pushes /\ pc[a] = "lock" /\ ch[a] \in Chan /\ r[ch[a]] # <<>>
      /\ r' = [r EXCEPT ![ch[a]] = Tail(@)]
      /\ UNCHANGED <<queue, w, op, ch, left, received, closed, accepted>>
      /\ pc' = [pc EXCEPT ![a] = "wake"]
      /\ ele' = IF Head(r[ch[a]]).kind = "plain"
                THEN [ele EXCEPT ![Head(r[ch[a]]).co] = ele[a]] ELSE ele
  BY DEF PushToReader, Enters, HoldAt, CallsOK, Call_OK, history
<1>2. PICK k \in Chan, x \in Elem : k = ch[a] /\ x = ele[a]
  BY <1>1 DEF CallsOK, Call_OK
<1>3. x.by = a /\ ~Present(x)
  BY <1>1, <1>2 DEF Delivery, PushedOK, Pushed_OK
<1>4. /\ r[k] \in Seq(Waiter) /\ r[k] # <<>>
      /\ \A i \in 1..Len(r[k]) : r[k][i].kind = "plain" /\ r[k][i].co # None
  BY <1>1, <1>2 DEF PlainWaiters, TypeOK, ChannelTypeOK, Delivery, ListsOK, Lists_OK
<1>5. /\ Head(r[k]) = r[k][1] /\ 1 \in 1..Len(r[k]) /\ r[k][1] \in Waiter
      /\ r[k][1].kind = "plain" /\ r[k][1].co # None
  BY <1>4
<1>6. PICK d \in Co : d = Head(r[k]).co /\ d \in Cos(r[k])
  BY <1>5 DEF Waiter, Cos
<1>7. op[d] = "pop" /\ ele[d] = None /\ d \in Actor /\ d # a
  BY <1>1, <1>6 DEF Sleepers, WaitersSleep, ReadersEmpty, Sleeps, Actor, Pushes
<1>8. /\ ele'[d] = x /\ \A b \in Actor \ {d} : ele'[b] = ele[b]
      /\ pc'[a] = "wake" /\ \A b \in Actor \ {a} : pc'[b] = pc[b]
  BY <1>1, <1>2, <1>5, <1>6, <1>7 DEF TypeOK, CallTypeOK
<1>9. ListsOK'
  BY <1>1, <1>2, ReadersShrink DEF Delivery
<1>10. HandedTo(a, d, x)
  BY <1>1, <1>2, <1>3, <1>7, <1>8 DEF HandedTo
<1> QED
  BY <1>9, <1>10

LEMMA PushReaderDelivers ==
    ASSUME IInv, Sleepers, Delivery, NEW a \in Actor, PushToReader(a)
    PROVE  Delivery'
<1> USE DEF IInv
<1>1. ListsOK' /\ \E d \in Co, x \in Elem : HandedTo(a, d, x)
  BY ReaderGets
<1>2. PICK d \in Co, x \in Elem : HandedTo(a, d, x)
  BY <1>1
<1>3. /\ op[a] \in Pushes /\ x = ele[a] /\ x.by = a /\ ~Present(x)
      /\ d \in Actor /\ d # a /\ op[d] = "pop" /\ ele'[d] = x
      /\ \A b \in Actor \ {d} : ele'[b] = ele[b]
      /\ pc'[a] = "wake" /\ \A b \in Actor \ {a} : pc'[b] = pc[b]
      /\ UNCHANGED <<queue, w, op, ch, left, received>>
  BY <1>2 DEF HandedTo
<1>4. OneHolder'
  <2>1. ~Held(x)
    BY <1>3 DEF Present
  <2> QED
    BY <1>3, <2>1 DEF Delivery, OneHolder, Held
<1>5. \A e \in Elem : /\ Held(e)' => Held(e) \/ e = x
                      /\ Popped(e)' <=> Popped(e)
                      /\ Buffered(e)' <=> Buffered(e)
                      /\ Offered(e)' <=> Offered(e)
  BY <1>3 DEF Held, Popped, Buffered, Offered
<1>6. Apart(x)'
  BY <1>3, <1>5 DEF Apart, Present
<1>7. Pushed_OK(a)'
  BY <1>3 DEF Delivery, PushedOK, Pushed_OK
<1>8. \A b \in Actor \ {a} : /\ pc'[b] = pc[b] /\ op'[b] = op[b] /\ ch'[b] = ch[b]
                             /\ op[b] \in Pushes => ele'[b] = ele[b]
  BY <1>3 DEF Pushes
<1> QED
  BY <1>1, <1>3, <1>4, <1>5, <1>6, <1>7, <1>8, ElementsMove

(* close takes a waiter out of a list; a writer's element goes with it.    *)
LEMMA DrainDelivers ==
    ASSUME IInv, Delivery, NEW a \in Actor, DrainWriter(a) \/ DrainReader(a)
    PROVE  Delivery'
<1> USE DEF IInv
<1>1. /\ op[a] = "close" /\ ch[a] \in Chan /\ pc' = [pc EXCEPT ![a] = "wake"]
      /\ UNCHANGED <<queue, op, ch, ele, left, received>>
      /\ \/ r[ch[a]] # <<>> /\ r' = [r EXCEPT ![ch[a]] = Tail(@)] /\ w' = w
         \/ w[ch[a]] # <<>> /\ w' = [w EXCEPT ![ch[a]] = Tail(@)] /\ r' = r
  BY DEF DrainWriter, DrainReader, HoldAt, CallsOK, Call_OK, Holding, history
<1>2. PICK k \in Chan : k = ch[a]
  BY <1>1
<1>3. pc'[a] = "wake" /\ \A b \in Actor \ {a} : pc'[b] = pc[b]
  BY <1>1 DEF TypeOK, CallTypeOK
<1>4. OneHolder' /\ Pushed_OK(a)'
  BY <1>1, <1>3 DEF Delivery, OneHolder, Pushed_OK, Pushes
<1>5. \A e \in Elem : (Held(e)' <=> Held(e)) /\ (Popped(e)' <=> Popped(e))
  BY <1>1 DEF Held, Popped
<1>6. ListsOK' /\ \A e \in Elem : /\ Offered(e)' => Offered(e)
                                  /\ Buffered(e)' <=> Buffered(e)
  <2>1. CASE w[k] # <<>> /\ w' = [w EXCEPT ![k] = Tail(@)] /\ r' = r
    BY <1>1, <2>1, WritersTail DEF Delivery
  <2>2. CASE r[k] # <<>> /\ r' = [r EXCEPT ![k] = Tail(@)] /\ w' = w
    <3>1. ListsOK'
      BY <1>1, <2>2, ReadersShrink DEF Delivery
    <3> QED
      BY <1>1, <2>2, <3>1 DEF Offered, Buffered
  <2> QED
    BY <1>1, <1>2, <2>1, <2>2
<1> QED
  BY <1>1, <1>3, <1>4, <1>5, <1>6, ElementsMove, ElemAssumption

(* A refused unenforceable_push leaves its element with the writers.       *)
LEMMA LeaveDelivers ==
    ASSUME IInv, Delivery, NEW a \in Actor, NEW malloc, LeaveElement(a, malloc)
    PROVE  Delivery'
<1> USE DEF IInv
<1>1. /\ op[a] = "upush" /\ op[a] \in Pushes /\ pc[a] = "refused" /\ ch[a] \in Chan
      /\ Return(a, {ele[a]}, {}) /\ UNCHANGED <<queue, r, left>>
  BY DEF LeaveElement, CallsOK, Call_OK, Pushes, Holding
<1>2. PICK k \in Chan, x \in Elem : k = ch[a] /\ x = ele[a]
  BY <1>1 DEF CallsOK, Call_OK
<1>3. x.on = k /\ ~Present(x)
  BY <1>1, <1>2 DEF Delivery, PushedOK, Pushed_OK
<1>4. PICK y \in Waiter : y = [co |-> None, ele |-> x, kind |-> "plain"]
  BY DEF Waiter
<1>5. w' = w \/ w' = [w EXCEPT ![k] = <<y>> \o @]
  BY <1>2, <1>4 DEF LeaveElement
<1>6. received' = received
  BY <1>1 DEF Return
<1>7. CASE w' = w
  <2>1. {} \subseteq {None}
    OBVIOUS
  <2> QED
    BY <1>1, <1>7, <2>1, ReturnDelivers
<1>8. CASE w' = [w EXCEPT ![k] = <<y>> \o @]
  <2>1. y.ele = x /\ ~Offered(x)
    BY <1>3, <1>4 DEF Present
  <2>2. /\ ListsOK'
        /\ \A e \in Elem : /\ Offered(e)' <=> Offered(e) \/ e = x
                           /\ Buffered(e)' <=> Buffered(e)
    BY <1>1, <1>3, <1>8, <2>1, WritersPush DEF Delivery
  <2>3. /\ Others(a) /\ OneHolder' /\ Pushed_OK(a)'
        /\ \A e \in Elem : Held(e)' => Held(e)
    BY <1>1, CallOver DEF Delivery
  <2>4. \A e \in Elem : Popped(e)' <=> Popped(e)
    BY <1>6 DEF Popped
  <2>5. Apart(x)'
    BY <1>3, <2>2, <2>3, <2>4 DEF Apart, Present
  <2>6. \A b \in Actor \ {a} : /\ pc'[b] = pc[b] /\ op'[b] = op[b] /\ ch'[b] = ch[b]
                               /\ op[b] \in Pushes => ele'[b] = ele[b]
    BY <2>3 DEF Others
  <2> QED
    BY <1>1, <1>2, <2>2, <2>3, <2>4, <2>5, <2>6, ElementsMove
<1> QED
  BY <1>5, <1>7, <1>8

(* A refused push that blocks offers its element; a refused pop does not.  *)
LEMMA BlockDelivers ==
    ASSUME IInv, Delivery, NEW a \in Co, NEW malloc, Block(a, malloc)
    PROVE  Delivery'
<1> USE DEF IInv
<1>1. /\ a \in Actor /\ op[a] \in {"push", "pop"} /\ pc[a] = "refused" /\ ch[a] \in Chan
      /\ pc' = [pc EXCEPT ![a] = "parked"]
      /\ UNCHANGED <<queue, op, ch, ele, left, received>>
  BY DEF Block, Actor, CallsOK, Call_OK, Holding, acvars, history
<1>2. PICK k \in Chan : k = ch[a]
  BY <1>1
<1>3. PICK y \in Waiter : y = [co |-> a, ele |-> ele[a], kind |-> "plain"]
  BY <1>1 DEF Waiter, TypeOK, CallTypeOK
<1>4. /\ w' = IF op[a] = "push" /\ malloc = "ok" THEN [w EXCEPT ![k] = <<y>> \o @] ELSE w
      /\ r' = IF op[a] = "pop" /\ malloc = "ok" THEN [r EXCEPT ![k] = <<y>> \o @] ELSE r
  BY <1>2, <1>3 DEF Block
<1>5. pc'[a] = "parked" /\ \A b \in Actor \ {a} : pc'[b] = pc[b]
  BY <1>1 DEF TypeOK, CallTypeOK
<1>6. OneHolder' /\ Pushed_OK(a)'
  BY <1>1, <1>5 DEF Delivery, OneHolder, PushedOK, Pushed_OK
<1>7. \A e \in Elem : (Held(e)' <=> Held(e)) /\ (Popped(e)' <=> Popped(e))
  BY <1>1 DEF Held, Popped
<1>8. CASE malloc # "ok"
  BY <1>1, <1>4, <1>5, <1>8, PlaceDelivers
<1>9. CASE op[a] = "pop" /\ malloc = "ok"
  <2>1. w' = w /\ r' = [r EXCEPT ![k] = <<y>> \o @] /\ y.co # None
    BY <1>3, <1>4, <1>9, NoneNotOp
  <2>2. ListsOK'
    BY <1>1, <2>1, ReadersGrow DEF Delivery
  <2>3. \A e \in Elem : (Offered(e)' <=> Offered(e)) /\ (Buffered(e)' <=> Buffered(e))
    BY <1>1, <2>1 DEF Offered, Buffered
  <2> QED
    BY <1>1, <1>5, <1>6, <1>7, <2>2, <2>3, ElementsMove, ElemAssumption
<1>10. CASE op[a] = "push" /\ malloc = "ok"
  <2>1. w' = [w EXCEPT ![k] = <<y>> \o @] /\ r' = r /\ op[a] \in Pushes
    BY <1>4, <1>10 DEF Pushes
  <2>2. PICK x \in Elem : x = ele[a] /\ x = y.ele
    BY <1>3, <2>1 DEF CallsOK, Call_OK, Actor
  <2>3. x.on = k /\ ~Present(x)
    BY <1>1, <1>2, <2>1, <2>2 DEF Delivery, PushedOK, Pushed_OK
  <2>4. /\ ListsOK'
        /\ \A e \in Elem : /\ Offered(e)' <=> Offered(e) \/ e = x
                           /\ Buffered(e)' <=> Buffered(e)
    <3>1. ~Offered(x)
      BY <2>3 DEF Present
    <3> QED
      BY <1>1, <2>1, <2>2, <2>3, <3>1, WritersPush DEF Delivery
  <2>5. Apart(x)'
    BY <1>7, <2>3, <2>4 DEF Apart, Present
  <2> QED
    BY <1>1, <1>5, <1>6, <1>7, <2>1, <2>2, <2>4, <2>5, ElementsMove
<1> QED
  BY <1>1, <1>8, <1>9, <1>10

(* A call makes the element it pushes, which is in no place yet.           *)
LEMMA CallDelivers ==
    ASSUME IInv, Delivery, NEW a \in Actor, NEW o \in Op, NEW c \in Chan, Call(a, o, c)
    PROVE  Delivery'
<1> USE DEF IInv
<1>1. /\ pc[a] = "user" /\ left[a] \in 1..Budget /\ left' = [left EXCEPT ![a] = @ - 1]
      /\ UNCHANGED <<queue, w, r, closed, received>>
      /\ op[a] = None /\ op[a] \notin Pops /\ op[a] \notin Pushes
  BY NoneNotOp, ChannelAssumption
     DEF Call, chvars, history, TypeOK, CallTypeOK, Delivery, PushedOK, Pushed_OK, Pops,
         Pushes, Op
<1>2. /\ left'[a] = left[a] - 1
      /\ \A b \in Actor \ {a} : left'[b] = left[b]
      /\ \A b \in Actor : left[b] \in Nat /\ left'[b] \in Int /\ left'[b] <= left[b]
  BY <1>1, ChannelAssumption DEF TypeOK, CallTypeOK
<1>3. Others(a)
  BY DEF Call, Begin, Others, TypeOK, CallTypeOK, acvars
<1>4. \/ UNCHANGED <<pc, op, ch, ele>>
      \/ /\ pc'[a] = "lock" /\ op'[a] = o /\ ch'[a] = c
         /\ ele'[a] = IF o \in Pushes THEN [by |-> a, n |-> left[a], on |-> c] ELSE None
  BY DEF Call, Begin, TypeOK, CallTypeOK, acvars
<1>5. op'[a] \in Pops => ele'[a] = None
  BY <1>1, <1>4 DEF Pops, Pushes
<1>6. OneHolder'
  BY <1>3, <1>5 DEF Delivery, OneHolder, Others
<1>7. \A e \in Elem : /\ Held(e)' => Held(e)
                      /\ Buffered(e)' <=> Buffered(e)
                      /\ Offered(e)' <=> Offered(e)
                      /\ Popped(e)' <=> Popped(e)
  BY <1>1, <1>3, <1>5, ElemAssumption DEF Held, Others, Buffered, Offered, Popped
<1>8. \A e \in Elem : Present(e)' => Present(e)
  BY <1>7 DEF Present
<1>9. ElementsOK'
  <2>1. \A e \in Elem : Present(e) => e.n > left'[e.by]
    BY <1>2 DEF Delivery, ElementsOK, Elem
  <2> QED
    BY <1>7, <1>8, <2>1 DEF Delivery, ElementsOK, Apart
<1>10. ASSUME NEW b \in Actor PROVE Pushed_OK(b)'
  <2>1. CASE b # a
    <3>1. /\ Pushed_OK(b) /\ pc'[b] = pc[b] /\ op'[b] = op[b] /\ ch'[b] = ch[b]
          /\ ele'[b] = ele[b] /\ left'[b] = left[b]
      BY <1>2, <1>3, <2>1 DEF Delivery, PushedOK, Others
    <3>2. op[b] \in Pushes => \A y : y = ele[b] => (Present(y)' => Present(y))
      BY <1>8, <3>1 DEF Pushed_OK
    <3>3. op'[b] \in Pushes /\ pc'[b] \in {"lock", "refused"} => ~Present(ele[b])'
      BY <3>1, <3>2 DEF Pushed_OK, Present, Buffered, Offered, Held, Popped
    <3> QED
      BY <3>1, <3>3 DEF Pushed_OK
  <2>2. CASE b = a /\ UNCHANGED <<pc, op, ch, ele>>
    BY <1>1, <2>2 DEF Pushed_OK
  <2>3. CASE b = a /\ pc'[a] = "lock" /\ op'[a] = o /\ o \notin Pushes
    BY <2>3 DEF Pushed_OK
  <2>4. CASE /\ b = a /\ pc'[a] = "lock" /\ op'[a] = o /\ ch'[a] = c /\ o \in Pushes
             /\ ele'[a] = [by |-> a, n |-> left[a], on |-> c]
    <3>1. PICK y \in Elem : y = [by |-> a, n |-> left[a], on |-> c]
      BY <1>1 DEF Elem
    <3>2. y.by = a /\ y.on = c /\ y.n = left[a]
      BY <3>1
    <3>3. ~Present(y)'
      BY <1>2, <1>8, <3>2 DEF Delivery, ElementsOK
    <3>4. ~Present(ele[a])'
      BY <2>4, <3>1, <3>3 DEF Present, Buffered, Offered, Held, Popped
    <3> QED
      BY <1>1, <1>2, <2>4, <3>1, <3>2, <3>4 DEF Pushed_OK
  <2> QED
    BY <1>4, <2>1, <2>2, <2>3, <2>4
<1> QED
  BY <1>1, <1>6, <1>9, <1>10, ListsKept DEF Delivery, PushedOK

-----------------------------------------------------------------------------
LEMMA DeliveryStep == IInv /\ Sleepers /\ Delivery /\ [Next]_vars => Delivery'
<1> SUFFICES ASSUME IInv, Sleepers, Delivery, [Next]_vars PROVE Delivery'
  OBVIOUS
<1> USE DEF IInv
<1>1. ASSUME NEW a \in Actor, EnterClosed(a) \/ GiveUp(a) \/ Drained(a)
      PROVE  Delivery'
  <2>1. /\ \E acc : Return(a, acc, {})
        /\ UNCHANGED <<queue, w, r, left>> /\ {} \subseteq {None}
    BY <1>1 DEF EnterClosed, GiveUp, Drained, chvars
  <2> QED
    BY <2>1, ReturnDelivers
<1>2. ASSUME NEW a \in Actor, EnterRefused(a) \/ Close(a) \/ Wake(a)
      PROVE  Delivery'
  <2>1. /\ UNCHANGED <<op, ch, ele, queue, w, r, left, received>>
        /\ \A b \in Actor \ {a} : pc'[b] = pc[b]
        /\ \/ pc'[a] \in {"drain", "join", "spin"}
           \/ pc'[a] = "refused" /\ pc[a] = "lock"
    BY <1>2 DEF EnterRefused, Close, Wake, Enters, HoldAt, acvars, chvars, history,
                TypeOK, CallTypeOK
  <2> QED
    BY <2>1, PlaceDelivers
<1>3. ASSUME NEW a \in Actor,
             WakeNobody(a) \/ \E malloc \in Mallocs : Join(a, malloc)
      PROVE  Delivery'
  <2>1. Served(a) /\ pc[a] \in {"wake", "join"} /\ UNCHANGED <<chvars, left>>
    BY <1>3 DEF WakeNobody, Join
  <2> QED
    BY <2>1, ServedDelivers
<1>4. ASSUME NEW a \in Co, Park(a) \/ Spawn(a) \/ Yield(a) \/ Terminate(a)
      PROVE  Delivery'
  <2>1. /\ a \in Actor /\ UNCHANGED <<op, ch, ele, queue, w, r, left, received>>
        /\ \A b \in Actor \ {a} : pc'[b] = pc[b]
        /\ \/ pc'[a] = "asleep"
           \/ pc'[a] \in {"user", "dead"} /\ pc[a] \in {"new", "user"}
    BY <1>4 DEF Park, Spawn, Yield, Terminate, Actor, acvars, chvars, history, TypeOK,
                CallTypeOK
  <2> QED
    BY <2>1, PlaceDelivers
<1>5. ASSUME NEW a \in Co, Relock(a)
      PROVE  Delivery'
  <2>1. /\ a \in Actor /\ op[a] \in {"push", "pop"} /\ UNCHANGED <<queue, w, r, left>>
        /\ {} \subseteq {None}
    BY <1>5 DEF Relock, Actor, CallsOK, Call_OK, chvars
  <2>2. CASE op[a] = "push"
    BY <1>5, <2>1, <2>2, ReturnDelivers DEF Relock
  <2>3. CASE op[a] = "pop"
    <3>1. Return(a, {}, {ele[a]}) /\ op[a] \in Pops
      BY <1>5, <2>3 DEF Relock, Pops
    <3> QED
      BY <2>1, <3>1, ReturnDelivers
  <2> QED
    BY <2>1, <2>2, <2>3
<1>6. ASSUME UNCHANGED <<op, ch, ele, queue, w, r, left, received, pc>>
      PROVE  Delivery'
  <2>1. /\ \A e : Apart(e)' <=> Apart(e)
        /\ \A e : Present(e)' <=> Present(e)
    BY <1>6 DEF Apart, Present, Buffered, Offered, Held, Popped
  <2>2. ElementsOK'
    BY <1>6, <2>1 DEF Delivery, ElementsOK
  <2>3. PushedOK'
    BY <1>6 DEF Delivery, PushedOK, Pushed_OK, Present, Buffered, Offered, Held, Popped
  <2> QED
    BY <1>6, <2>2, <2>3, ListsKept DEF Delivery, OneHolder
<1>7. ASSUME LoopThread \/ UNCHANGED vars \/ \E h \in Hdl : HandlerStep(h)
      PROVE  Delivery'
  BY <1>6, <1>7 DEF LoopThread, HandlerStep, vars, chvars, acvars, history
<1> QED
  BY <1>1, <1>2, <1>3, <1>4, <1>5, <1>7, PushQueueDelivers, PopQueueDelivers,
     PopWriterDelivers, PushReaderDelivers, DrainDelivers, LeaveDelivers,
     BlockDelivers, CallDelivers
     DEF Next, ActorStep, CoroutineStep

LEMMA DeliveryInit == Init => Delivery
<1> SUFFICES ASSUME Init PROVE Delivery
  OBVIOUS
<1>1. /\ \A k \in Chan : queue[k] = <<>> /\ w[k] = <<>> /\ r[k] = <<>>
      /\ \A a \in Actor : op[a] = None /\ ele[a] = None
      /\ received = {}
  BY DEF Init
<1>2. None \notin Pushes \cup Pops
  BY NoneNotOp DEF Pushes, Pops, Op
<1>3. \A e \in Elem : ~Present(e)
  BY <1>1, <1>2 DEF Present, Buffered, Offered, Held, Popped, InQueue, Offers, Elem
<1>4. ListsOK
  BY <1>1 DEF ListsOK, Lists_OK, OnceQueued, OnceOffered, InQueue, Offers
<1>5. ElementsOK
  BY <1>3 DEF ElementsOK, Apart, Present
<1> QED
  BY <1>1, <1>2, <1>4, <1>5 DEF Delivery, OneHolder, PushedOK, Pushed_OK

LEMMA DeliveryHolds == Spec => [](IInv /\ Sleepers /\ Delivery)
  BY DeliveryInit, DeliveryStep, SleepersHold, PTL DEF Spec

-----------------------------------------------------------------------------
(* A set with at most one element has one if it is not empty.              *)
LEMMA CountOne ==
    ASSUME NEW S, \A x, y \in S : x = y
    PROVE  Cardinality(S) = IF S = {} THEN 0 ELSE 1
<1>1. CASE S = {}
  BY <1>1, FS_EmptySet
<1>2. CASE S # {}
  <2>1. PICK x : x \in S
    BY <1>2
  <2>2. S = {x}
    BY <2>1
  <2> QED
    BY <2>2, FS_Singleton
<1> QED
  BY <1>1, <1>2

(* The copies of an element are counted by the places it is in.            *)
LEMMA CountCopies ==
    ASSUME IInv, Delivery, NEW e \in Elem
    PROVE  Copies(e) = IF Present(e) THEN 1 ELSE 0
<1> DEFINE Q == {i \in 1..Len(queue[e.on]) : queue[e.on][i] = e}
           W == {i \in 1..Len(w[e.on]) : w[e.on][i].kind = "plain" /\ w[e.on][i].ele = e}
           H == {a \in Actor : op[a] \in Pops /\ ele[a] = e}
           R == received \cap {e}
<1>1. e.on \in Chan /\ e # None /\ Apart(e) /\ Lists_OK(e.on)
  BY ElemAssumption DEF Elem, Delivery, ElementsOK, ListsOK
<1>2. /\ Cardinality(Q) = IF Q = {} THEN 0 ELSE 1
      /\ Q # {} <=> Buffered(e)
  <2>1. \A i, j \in Q : i = j
    BY <1>1 DEF Lists_OK, OnceQueued
  <2>2. Cardinality(Q) = IF Q = {} THEN 0 ELSE 1
    BY <2>1, CountOne
  <2> QED
    BY <2>2 DEF Buffered, InQueue
<1>3. /\ Cardinality(W) = IF W = {} THEN 0 ELSE 1
      /\ W # {} <=> Offered(e)
  <2>1. \A i, j \in W : i = j
    BY <1>1 DEF Lists_OK, OnceOffered
  <2>2. Cardinality(W) = IF W = {} THEN 0 ELSE 1
    BY <2>1, CountOne
  <2> QED
    BY <1>1, <2>2 DEF Offered, Offers, IInv, PlainWaiters
<1>4. /\ Cardinality(H) = IF H = {} THEN 0 ELSE 1
      /\ H # {} <=> Held(e)
  <2>1. \A a, b \in H : a = b
    BY <1>1 DEF Delivery, OneHolder
  <2>2. Cardinality(H) = IF H = {} THEN 0 ELSE 1
    BY <2>1, CountOne
  <2> QED
    BY <2>2 DEF Held
<1>5. /\ Cardinality(R) = IF R = {} THEN 0 ELSE 1
      /\ R # {} <=> Popped(e)
  <2>1. \A x, y \in R : x = y
    OBVIOUS
  <2>2. Cardinality(R) = IF R = {} THEN 0 ELSE 1
    BY <2>1, CountOne
  <2> QED
    BY <2>2 DEF Popped
<1>6. Copies(e) = Cardinality(Q) + Cardinality(W) + Cardinality(H) + Cardinality(R)
  BY DEF Copies
<1> HIDE DEF Q, W, H, R
<1> QED
  BY <1>1, <1>2, <1>3, <1>4, <1>5, <1>6 DEF Apart, Present

(* Each element goes to at most one pop, by whichever of the buffer, a     *)
(* waiting writer and a waiting reader it travels, whatever other threads  *)
(* call and whatever malloc does (lc_channel.c:364-462).                   *)
THEOREM ElementsDeliveredOnce == Spec => []DeliveredOnce
<1>1. IInv /\ Delivery => DeliveredOnce
  BY CountCopies DEF DeliveredOnce
<1> QED
  BY <1>1, DeliveryHolds, PTL

-----------------------------------------------------------------------------
(* On an open channel, an element whose push has returned 0, or that the   *)
(* push has handed over and not returned yet, is in a place.               *)
Kept_OK(a) ==
    op[a] \in Pushes /\ pc[a] \in {"wake", "spin", "join", "parked", "asleep"} =>
        ch[a] \in closed \/ Present(ele[a])

Kept ==
    /\ \A a \in Actor : Kept_OK(a)
    /\ \A e \in accepted : e.on \in closed \/ Present(e)

(* A step that loses nothing of an open channel: the actors that have      *)
(* handed over stay, and what is accepted is in a place.                   *)
LEMMA KeptMoves ==
    ASSUME TypeOK, Delivery, Kept, NEW a \in Actor,
           \A b \in Actor \ {a} : /\ pc'[b] = pc[b] /\ op'[b] = op[b] /\ ch'[b] = ch[b]
                                  /\ op[b] \in Pushes => ele'[b] = ele[b],
           closed \subseteq closed',
           \A e \in Elem : Present(e) => e.on \in closed' \/ Present(e)',
           Kept_OK(a)',
           \A e \in accepted' : e \in accepted \/ e.on \in closed' \/ Present(e)'
    PROVE  Kept'
<1>1. ASSUME NEW b \in Actor, b # a PROVE Kept_OK(b)'
  <2> SUFFICES ASSUME op'[b] \in Pushes,
                      pc'[b] \in {"wake", "spin", "join", "parked", "asleep"},
                      ch'[b] \notin closed'
               PROVE  Present(ele[b])'
    BY DEF Kept_OK
  <2>1. /\ op[b] \in Pushes /\ pc[b] = pc'[b] /\ ch[b] = ch'[b] /\ ele'[b] = ele[b]
        /\ Kept_OK(b) /\ Pushed_OK(b)
    BY <1>1 DEF Kept, Delivery, PushedOK
  <2>2. PICK y \in Elem : y = ele[b] /\ y = ele'[b] /\ y.on = ch[b]
    BY <2>1 DEF Pushed_OK
  <2>3. Present(y)
    BY <2>1, <2>2 DEF Kept_OK
  <2>4. Present(y)'
    BY <2>1, <2>2, <2>3
  <2> QED
    BY <2>2, <2>4 DEF Present, Buffered, Offered, Held, Popped
<1>2. \A e \in accepted' : e.on \in closed' \/ Present(e)'
  BY DEF Kept, TypeOK, HistoryTypeOK
<1> QED
  BY <1>1, <1>2 DEF Kept

(* A call returns; a pop that has an element returns it.                   *)
LEMMA ReturnKeeps ==
    ASSUME TypeOK, Delivery, Kept, NEW a \in Actor, NEW acc, NEW rec,
           Return(a, acc, rec), closed' = closed,
           op[a] \in Pops => ele[a] = None \/ rec = {ele[a]},
           \A e \in Elem : /\ Buffered(e) => Buffered(e)' \/ Popped(e)'
                           /\ Offered(e) => Offered(e)',
           \A e \in acc : e.on \in closed' \/ Present(e)'
    PROVE  Kept'
<1>1. pc'[a] = "user" /\ Others(a)
  BY ReturnMoves
<1>2. /\ accepted' = accepted \cup (acc \ {None})
      /\ received' = received \cup (rec \ {None})
  BY DEF Return
<1>3. \A e \in Elem : Held(e) => Held(e)' \/ Popped(e)'
  BY <1>1, <1>2, ElemAssumption DEF Held, Popped, Others
<1>4. \A e \in Elem : Present(e) => Present(e)'
  BY <1>2, <1>3 DEF Present, Popped
<1>5. Kept_OK(a)'
  BY <1>1 DEF Kept_OK
<1>6. \A e \in accepted' : e \in accepted \/ e.on \in closed' \/ Present(e)'
  BY <1>2
<1>7. \A b \in Actor \ {a} : /\ pc'[b] = pc[b] /\ op'[b] = op[b] /\ ch'[b] = ch[b]
                             /\ op[b] \in Pushes => ele'[b] = ele[b]
  BY <1>1 DEF Others
<1> QED
  BY <1>4, <1>5, <1>6, <1>7, KeptMoves

LEMMA ServedKeeps ==
    ASSUME TypeOK, CallsOK, PlainTargets, Delivery, Kept, NEW a \in Actor, Served(a),
           pc[a] \in {"wake", "join"}, UNCHANGED chvars
    PROVE  Kept'
<1>1. tgt[a].kind # "select" /\ op[a] \in Op /\ UNCHANGED <<queue, w, r, closed>>
  BY DEF CallsOK, Call_OK, Holding, PlainTargets, chvars
<1>2. \A e : (Buffered(e)' <=> Buffered(e)) /\ (Offered(e)' <=> Offered(e))
  BY <1>1 DEF Buffered, Offered
<1>3. CASE op[a] = "close"
  <2>1. /\ pc' = [pc EXCEPT ![a] = "drain"]
        /\ UNCHANGED <<op, ch, ele, accepted, received>>
    BY <1>3 DEF Served, HoldAt, acvars, history
  <2>2. pc'[a] = "drain" /\ \A b \in Actor \ {a} : pc'[b] = pc[b]
    BY <2>1 DEF TypeOK, CallTypeOK
  <2>3. \A e : Present(e)' <=> Present(e)
    BY <1>2, <2>1 DEF Present, Held, Popped
  <2>4. Kept_OK(a)'
    BY <2>2 DEF Kept_OK
  <2> QED
    BY <1>1, <2>1, <2>2, <2>3, <2>4, KeptMoves
<1>4. CASE op[a] \in Pushes
  <2>1. Return(a, {ele[a]}, {}) /\ op[a] \notin Pops
    BY <1>1, <1>4 DEF Served, Pushes, Pops
  <2>2. PICK x \in Elem : x = ele[a] /\ x.on = ch[a]
    BY <1>4 DEF Delivery, PushedOK, Pushed_OK
  <2>3. x.on \in closed \/ Present(x)
    BY <1>4, <2>2 DEF Kept, Kept_OK
  <2>4. Held(x) => Held(x)'
    BY <2>1, ReturnMoves DEF Held, Others
  <2>5. received' = received
    BY <2>1 DEF Return
  <2>6. x.on \in closed' \/ Present(x)'
    BY <1>1, <1>2, <2>3, <2>4, <2>5 DEF Present, Popped
  <2> QED
    BY <1>1, <1>2, <2>1, <2>2, <2>6, ReturnKeeps
<1>5. CASE op[a] \in Pops
  <2>1. Return(a, {}, {ele[a]})
    BY <1>1, <1>5 DEF Served, Pushes, Pops
  <2> QED
    BY <1>1, <1>2, <2>1, ReturnKeeps
<1> QED
  BY <1>1, <1>3, <1>4, <1>5 DEF Op, Pushes, Pops

(* The buffer gets an element or gives one to the pop that returns it.     *)
LEMMA QueueKeeps ==
    ASSUME IInv, Sleepers, Delivery, Kept, NEW a \in Actor,
           PushToQueue(a) \/ PopFromQueue(a)
    PROVE  Kept'
<1> USE DEF IInv
<1>1. /\ ch[a] \in Chan /\ pc[a] = "lock" /\ UNCHANGED <<w, r, closed>>
      /\ op[a] \in Pops => ele[a] = None
  BY DEF PushToQueue, PopFromQueue, Enters, CallsOK, Call_OK, Sleepers, ReadersEmpty
<1>2. PICK k \in Chan : k = ch[a]
  BY <1>1
<1>3. CASE PushToQueue(a)
  <2>1. /\ op[a] \in Pushes /\ op[a] \notin Pops /\ Return(a, {ele[a]}, {})
        /\ queue' = [queue EXCEPT ![k] = Append(@, ele[a])]
    BY <1>2, <1>3 DEF PushToQueue, Enters, Pushes, Pops
  <2>2. PICK x \in Elem : x = ele[a] /\ x.on = k
    BY <1>2, <2>1 DEF Delivery, PushedOK, Pushed_OK
  <2>3. /\ queue'[k] = Append(queue[k], x) /\ queue[k] \in Seq(Elem)
        /\ \A j \in Chan \ {k} : queue'[j] = queue[j]
    BY <2>1, <2>2 DEF TypeOK, ChannelTypeOK
  <2>4. \A e : InQueue(e, queue'[k]) <=> InQueue(e, queue[k]) \/ e = x
    BY <2>3, QueueAppend
  <2>5. /\ \A e \in Elem : (Buffered(e) => Buffered(e)') /\ (Offered(e) => Offered(e)')
        /\ Present(x)'
    BY <1>1, <2>2, <2>3, <2>4 DEF Buffered, Offered, Present, Elem
  <2> QED
    BY <1>1, <2>1, <2>2, <2>5, ReturnKeeps
<1>4. CASE PopFromQueue(a)
  <2>1. PICK x : x = Head(queue[k])
    OBVIOUS
  <2>2. /\ Return(a, {}, {x}) /\ queue' = [queue EXCEPT ![k] = Tail(@)]
        /\ queue[k] # <<>>
    BY <1>2, <1>4, <2>1 DEF PopFromQueue
  <2>3. /\ queue'[k] = Tail(queue[k]) /\ queue[k] \in Seq(Elem) /\ queue[k] # <<>>
        /\ \A j \in Chan \ {k} : queue'[j] = queue[j]
    BY <2>2 DEF TypeOK, ChannelTypeOK
  <2>4. \A e : InQueue(e, queue[k]) <=> e = x \/ InQueue(e, queue'[k])
    BY <2>1, <2>3, QueueTail
  <2>5. received' = received \cup ({x} \ {None})
    BY <2>2 DEF Return
  <2>6. \A e \in Elem : /\ Buffered(e) => Buffered(e)' \/ Popped(e)'
                        /\ Offered(e) => Offered(e)'
    BY <1>1, <2>3, <2>4, <2>5, ElemAssumption DEF Buffered, Offered, Popped, Elem
  <2> QED
    BY <1>1, <2>2, <2>6, ReturnKeeps
<1> QED
  BY <1>3, <1>4

(* The element goes from a waiting writer to a pop, or from a push to a    *)
(* waiting reader.                                                         *)
LEMMA WriterKeeps ==
    ASSUME IInv, Sleepers, Delivery, Kept, NEW a \in Actor, PopFromWriter(a)
    PROVE  Kept'
<1> USE DEF IInv
<1>1. /\ op[a] \in Pops /\ pc[a] = "lock" /\ ch[a] \in Chan /\ w[ch[a]] # <<>>
      /\ w' = [w EXCEPT ![ch[a]] = Tail(@)]
      /\ UNCHANGED <<queue, r, op, ch, closed, accepted, received>>
      /\ pc' = [pc EXCEPT ![a] = "wake"] /\ ele[a] = None
      /\ ele' = IF Head(w[ch[a]]).kind = "plain"
                THEN [ele EXCEPT ![a] = Head(w[ch[a]]).ele] ELSE ele
  BY DEF PopFromWriter, Enters, HoldAt, CallsOK, Call_OK, history, Sleepers, ReadersEmpty
<1>2. PICK k \in Chan : k = ch[a]
  BY <1>1
<1>3. PICK x \in Elem :
          /\ x = Head(w[k]).ele
          /\ \A e \in Elem : /\ Offered(e) => Offered(e)' \/ e = x
                             /\ Buffered(e)' <=> Buffered(e)
  BY <1>1, <1>2, WritersTail DEF Delivery
<1>4. Head(w[k]).kind = "plain"
  <2>1. w[k] \in Seq(Waiter) /\ w[k] # <<>> /\ \A i \in 1..Len(w[k]) : w[k][i].kind = "plain"
    BY <1>1, <1>2 DEF PlainWaiters, TypeOK, ChannelTypeOK
  <2>2. Head(w[k]) = w[k][1] /\ 1 \in 1..Len(w[k])
    BY <2>1
  <2> QED
    BY <2>1, <2>2
<1>5. ele'[a] = x /\ \A b \in Actor \ {a} : pc'[b] = pc[b] /\ ele'[b] = ele[b]
  BY <1>1, <1>2, <1>3, <1>4 DEF TypeOK, CallTypeOK
<1>6. Held(x)' /\ \A e \in Elem : Held(e) => Held(e)'
  BY <1>1, <1>5, ElemAssumption DEF Held
<1>7. \A e \in Elem : Present(e) => Present(e)'
  BY <1>1, <1>3, <1>6 DEF Present, Popped
<1>8. Kept_OK(a)'
  BY <1>1 DEF Kept_OK, Pushes, Pops
<1> QED
  BY <1>1, <1>5, <1>7, <1>8, KeptMoves

LEMMA ReaderKeeps ==
    ASSUME IInv, Sleepers, Delivery, Kept, NEW a \in Actor, PushToReader(a)
    PROVE  Kept'
<1> USE DEF IInv
<1>1. PICK d \in Co, x \in Elem : HandedTo(a, d, x)
  BY ReaderGets
<1>2. /\ op[a] \in Pushes /\ d \in Actor /\ d # a /\ op[d] = "pop" /\ ele[d] = None
      /\ x = ele[a] /\ ele'[d] = x /\ \A b \in Actor \ {d} : ele'[b] = ele[b]
      /\ pc'[a] = "wake" /\ \A b \in Actor \ {a} : pc'[b] = pc[b]
      /\ UNCHANGED <<queue, w, op, ch, left, received, closed, accepted>>
  BY <1>1 DEF HandedTo
<1>3. Held(x)' /\ \A e \in Elem : Held(e) => Held(e)'
  BY <1>2, ElemAssumption DEF Held, Pops
<1>4. /\ Present(x)'
      /\ \A e \in Elem : Present(e) => Present(e)'
  BY <1>2, <1>3 DEF Present, Popped, Buffered, Offered
<1>5. Present(ele[a])'
  BY <1>2, <1>4 DEF Present, Popped, Buffered, Offered, Held
<1>6. Kept_OK(a)'
  BY <1>5 DEF Kept_OK
<1>7. \A b \in Actor \ {a} : /\ pc'[b] = pc[b] /\ op'[b] = op[b] /\ ch'[b] = ch[b]
                             /\ op[b] \in Pushes => ele'[b] = ele[b]
  BY <1>2 DEF Pushes
<1> QED
  BY <1>2, <1>4, <1>6, <1>7, KeptMoves

(* close takes elements of the channel it has closed.                      *)
LEMMA DrainKeeps ==
    ASSUME IInv, Delivery, Kept, NEW a \in Actor, DrainWriter(a) \/ DrainReader(a)
    PROVE  Kept'
<1> USE DEF IInv
<1>1. /\ op[a] = "close" /\ ch[a] \in Chan /\ pc[a] = "drain"
      /\ pc' = [pc EXCEPT ![a] = "wake"]
      /\ UNCHANGED <<queue, op, ch, ele, closed, accepted, received>>
      /\ \/ w' = w
         \/ w[ch[a]] # <<>> /\ w' = [w EXCEPT ![ch[a]] = Tail(@)] /\ r' = r
  BY DEF DrainWriter, DrainReader, HoldAt, CallsOK, Call_OK, Holding, history
<1>2. PICK k \in Chan : k = ch[a] /\ k \in closed
  BY <1>1 DEF Refusals, Refused_OK, Holding
<1>3. pc'[a] = "wake" /\ \A b \in Actor \ {a} : pc'[b] = pc[b]
  BY <1>1 DEF TypeOK, CallTypeOK
<1>4. \A e \in Elem : e.on \in closed \/ (Offered(e) => Offered(e)')
  <2>1. CASE w' = w
    BY <2>1 DEF Offered
  <2>2. CASE w' # w
    <3>1. \A j \in Chan \ {k} : w'[j] = w[j]
      BY <1>1, <1>2, <2>2 DEF TypeOK, ChannelTypeOK
    <3> QED
      BY <1>2, <3>1 DEF Offered, Elem
  <2> QED
    BY <2>1, <2>2
<1>5. \A e \in Elem : Present(e) => e.on \in closed' \/ Present(e)'
  BY <1>1, <1>4 DEF Present, Buffered, Held, Popped
<1>6. Kept_OK(a)'
  BY <1>1 DEF Kept_OK, Pushes
<1> QED
  BY <1>1, <1>3, <1>5, <1>6, KeptMoves

(* A refused push leaves its element with the writers, if malloc succeeds. *)
LEMMA LeaveKeeps ==
    ASSUME IInv, Delivery, Kept, NEW a \in Actor, LeaveElement(a, "ok")
    PROVE  Kept'
<1> USE DEF IInv
<1>1. /\ op[a] \in Pushes /\ op[a] \notin Pops /\ pc[a] = "refused" /\ ch[a] \in Chan
      /\ Return(a, {ele[a]}, {}) /\ UNCHANGED <<queue, r, closed>>
  BY DEF LeaveElement, CallsOK, Call_OK, Pushes, Pops, Holding
<1>2. PICK k \in Chan, x \in Elem : k = ch[a] /\ x = ele[a] /\ x.on = k /\ ~Present(x)
  BY <1>1 DEF Delivery, PushedOK, Pushed_OK
<1>3. PICK y \in Waiter : y = [co |-> None, ele |-> x, kind |-> "plain"]
  BY DEF Waiter
<1>4. w' = [w EXCEPT ![k] = <<y>> \o @] /\ y.ele = x /\ ~Offered(x)
  BY <1>2, <1>3 DEF LeaveElement, Present
<1>5. \A e \in Elem : /\ Offered(e)' <=> Offered(e) \/ e = x
                      /\ Buffered(e)' <=> Buffered(e)
  BY <1>1, <1>2, <1>4, WritersPush DEF Delivery
<1>6. Present(x)'
  BY <1>5 DEF Present
<1> QED
  BY <1>1, <1>2, <1>5, <1>6, ReturnKeeps

LEMMA BlockKeeps ==
    ASSUME IInv, Delivery, Kept, NEW a \in Co, Block(a, "ok")
    PROVE  Kept'
<1> USE DEF IInv
<1>1. /\ a \in Actor /\ op[a] \in {"push", "pop"} /\ pc[a] = "refused" /\ ch[a] \in Chan
      /\ pc' = [pc EXCEPT ![a] = "parked"]
      /\ UNCHANGED <<queue, op, ch, ele, closed, accepted, received>>
  BY DEF Block, Actor, CallsOK, Call_OK, Holding, acvars, history
<1>2. PICK k \in Chan : k = ch[a]
  BY <1>1
<1>3. PICK y \in Waiter : y = [co |-> a, ele |-> ele[a], kind |-> "plain"]
  BY <1>1 DEF Waiter, TypeOK, CallTypeOK
<1>4. /\ w' = IF op[a] = "push" THEN [w EXCEPT ![k] = <<y>> \o @] ELSE w
      /\ op[a] = "push" => r' = r
  BY <1>2, <1>3 DEF Block
<1>5. pc'[a] = "parked" /\ \A b \in Actor \ {a} : pc'[b] = pc[b]
  BY <1>1 DEF TypeOK, CallTypeOK
<1>6. CASE op[a] = "pop"
  <2>1. w' = w
    BY <1>4, <1>6
  <2>2. \A e \in Elem : Present(e)' <=> Present(e)
    BY <1>1, <2>1 DEF Present, Buffered, Offered, Held, Popped
  <2>3. Kept_OK(a)'
    BY <1>1, <1>6 DEF Kept_OK, Pushes
  <2> QED
    BY <1>1, <1>5, <2>2, <2>3, KeptMoves
<1>7. CASE op[a] = "push"
  <2>1. w' = [w EXCEPT ![k] = <<y>> \o @] /\ r' = r /\ op[a] \in Pushes
    BY <1>4, <1>7 DEF Pushes
  <2>2. PICK x \in Elem : x = ele[a] /\ x = y.ele /\ x.on = k /\ ~Present(x)
    BY <1>1, <1>2, <1>3, <2>1 DEF Delivery, PushedOK, Pushed_OK
  <2>3. \A e \in Elem : /\ Offered(e)' <=> Offered(e) \/ e = x
                        /\ Buffered(e)' <=> Buffered(e)
    <3>1. ~Offered(x)
      BY <2>2 DEF Present
    <3> QED
      BY <1>1, <2>1, <2>2, <3>1, WritersPush DEF Delivery
  <2>4. Present(x)' /\ \A e \in Elem : Present(e) => Present(e)'
    BY <1>1, <2>3 DEF Present, Held, Popped
  <2>5. Present(ele[a])'
    BY <1>1, <2>2, <2>4 DEF Present, Buffered, Offered, Held, Popped
  <2>6. Kept_OK(a)'
    BY <2>5 DEF Kept_OK
  <2> QED
    BY <1>1, <1>5, <2>4, <2>6, KeptMoves
<1> QED
  BY <1>1, <1>6, <1>7

(* An actor moves with its call and its element; close may mark a channel. *)
LEMMA PlaceKeeps ==
    ASSUME TypeOK, Delivery, Kept, NEW a \in Actor,
           UNCHANGED <<op, ch, ele, queue, w, accepted, received>>,
           closed \subseteq closed', \A b \in Actor \ {a} : pc'[b] = pc[b],
           \/ pc'[a] \notin {"wake", "spin", "join", "parked", "asleep"}
           \/ pc[a] \in {"wake", "spin", "join", "parked", "asleep"}
    PROVE  Kept'
<1>1. \A e : Present(e)' <=> Present(e)
  BY DEF Present, Buffered, Offered, Held, Popped
<1>2. Kept_OK(a)'
  <2>1. Present(ele[a]) => Present(ele[a])'
    BY DEF Present, Buffered, Offered, Held, Popped
  <2> QED
    BY <2>1 DEF Kept, Kept_OK
<1> QED
  BY <1>1, <1>2, KeptMoves

LEMMA KeptStep ==
    Mallocs \subseteq {"ok"} /\ IInv /\ Sleepers /\ Delivery /\ Kept /\ [Next]_vars
        => Kept'
<1> SUFFICES ASSUME Mallocs \subseteq {"ok"}, IInv, Sleepers, Delivery, Kept,
                    [Next]_vars
             PROVE  Kept'
  OBVIOUS
<1> USE DEF IInv
<1>1. ASSUME NEW a \in Actor, EnterClosed(a) PROVE Kept'
  <2>1. /\ pc[a] = "lock" /\ ch[a] \in closed /\ op[a] \in Pushes \cup Pops
        /\ Return(a, IF op[a] \in Pushes THEN {ele[a]} ELSE {}, {})
        /\ UNCHANGED <<queue, w, closed>>
    BY <1>1 DEF EnterClosed, Enters, chvars
  <2>2. op[a] \in Pops => ele[a] = None
    BY <2>1 DEF Sleepers, ReadersEmpty
  <2>3. \A e : (Buffered(e)' <=> Buffered(e)) /\ (Offered(e)' <=> Offered(e))
    BY <2>1 DEF Buffered, Offered
  <2>4. \A e \in IF op[a] \in Pushes THEN {ele[a]} ELSE {} : e.on \in closed'
    BY <2>1 DEF Delivery, PushedOK, Pushed_OK
  <2> QED
    BY <2>1, <2>2, <2>3, <2>4, ReturnKeeps
<1>2. ASSUME NEW a \in Actor, GiveUp(a) \/ Drained(a) PROVE Kept'
  <2>1. /\ Return(a, {}, {}) /\ UNCHANGED <<queue, w, closed>>
        /\ op[a] \in Pops => pc[a] = "refused"
    BY <1>2 DEF GiveUp, Drained, chvars, CallsOK, Call_OK, Pops
  <2>2. op[a] \in Pops => ele[a] = None
    BY <2>1 DEF Sleepers, ReadersEmpty
  <2>3. \A e : (Buffered(e)' <=> Buffered(e)) /\ (Offered(e)' <=> Offered(e))
    BY <2>1 DEF Buffered, Offered
  <2> QED
    BY <2>1, <2>2, <2>3, ReturnKeeps
<1>3. ASSUME NEW a \in Actor, EnterRefused(a) \/ Close(a) \/ Wake(a)
      PROVE  Kept'
  <2>1. /\ UNCHANGED <<op, ch, ele, queue, w, accepted, received>>
        /\ closed \subseteq closed'
        /\ \A b \in Actor \ {a} : pc'[b] = pc[b]
        /\ \/ pc'[a] \in {"refused", "drain"}
           \/ pc[a] \in {"wake", "spin"}
    BY <1>3 DEF EnterRefused, Close, Wake, Enters, HoldAt, acvars, chvars, history,
                TypeOK, CallTypeOK
  <2> QED
    BY <2>1, PlaceKeeps
<1>4. ASSUME NEW a \in Co, Park(a) \/ Spawn(a) \/ Yield(a) \/ Terminate(a)
      PROVE  Kept'
  <2>1. /\ a \in Actor /\ UNCHANGED <<op, ch, ele, queue, w, closed, accepted, received>>
        /\ \A b \in Actor \ {a} : pc'[b] = pc[b]
        /\ pc'[a] \in {"user", "dead"} \/ pc[a] = "parked"
    BY <1>4 DEF Park, Spawn, Yield, Terminate, Actor, acvars, chvars, history, TypeOK,
                CallTypeOK
  <2> QED
    BY <2>1, PlaceKeeps
<1>5. ASSUME NEW a \in Actor,
             WakeNobody(a) \/ \E malloc \in Mallocs : Join(a, malloc)
      PROVE  Kept'
  <2>1. Served(a) /\ pc[a] \in {"wake", "join"} /\ UNCHANGED chvars
    BY <1>5 DEF WakeNobody, Join
  <2> QED
    BY <2>1, ServedKeeps
<1>6. ASSUME NEW a \in Co, Relock(a) PROVE Kept'
  <2>1. /\ a \in Actor /\ op[a] \in {"push", "pop"} /\ pc[a] = "asleep"
        /\ UNCHANGED <<queue, w, closed>>
    BY <1>6 DEF Relock, Actor, CallsOK, Call_OK, chvars
  <2>2. \A e : (Buffered(e)' <=> Buffered(e)) /\ (Offered(e)' <=> Offered(e))
    BY <2>1 DEF Buffered, Offered
  <2>3. CASE op[a] = "push"
    <3>1. /\ Return(a, {ele[a]}, {}) /\ op[a] \in Pushes /\ op[a] \notin Pops
      BY <1>6, <2>3 DEF Relock, Pushes, Pops
    <3>2. PICK x \in Elem : x = ele[a] /\ x.on = ch[a]
      BY <2>1, <3>1 DEF Delivery, PushedOK, Pushed_OK
    <3>3. x.on \in closed \/ Present(x)
      BY <2>1, <3>1, <3>2 DEF Kept, Kept_OK
    <3>4. (Held(x) => Held(x)') /\ received' = received
      <4>1. received' = received
        BY <3>1 DEF Return
      <4>2. Others(a)
        BY <2>1, <3>1, ReturnMoves
      <4> QED
        BY <3>1, <4>1, <4>2 DEF Held, Others
    <3>5. x.on \in closed' \/ Present(x)'
      BY <2>1, <2>2, <3>3, <3>4 DEF Present, Popped
    <3> QED
      BY <2>1, <2>2, <3>1, <3>2, <3>5, ReturnKeeps
  <2>4. CASE op[a] = "pop"
    <3>1. Return(a, {}, {ele[a]})
      BY <1>6, <2>4 DEF Relock
    <3> QED
      BY <2>1, <2>2, <3>1, ReturnKeeps
  <2> QED
    BY <2>1, <2>3, <2>4
<1>7. ASSUME NEW a \in Actor, NEW o \in Op, NEW c \in Chan, Call(a, o, c)
      PROVE  Kept'
  <2>1. /\ pc[a] = "user" /\ op[a] \notin Pops
        /\ UNCHANGED <<queue, w, closed, accepted, received>>
    BY <1>7, NoneNotOp
       DEF Call, chvars, history, Delivery, PushedOK, Pushed_OK, Pops, Op
  <2>2. Others(a) /\ pc'[a] \in {"user", "lock"}
    BY <1>7 DEF Call, Begin, Others, TypeOK, CallTypeOK, acvars
  <2>3. \A e \in Elem : Present(e) => Present(e)'
    BY <2>1, <2>2 DEF Present, Buffered, Offered, Held, Popped, Others
  <2>4. Kept_OK(a)'
    BY <2>2 DEF Kept_OK
  <2>5. \A b \in Actor \ {a} : /\ pc'[b] = pc[b] /\ op'[b] = op[b] /\ ch'[b] = ch[b]
                               /\ op[b] \in Pushes => ele'[b] = ele[b]
    BY <2>2 DEF Others
  <2> QED
    BY <2>1, <2>3, <2>4, <2>5, KeptMoves
<1>8. ASSUME LoopThread \/ UNCHANGED vars \/ \E h \in Hdl : HandlerStep(h)
      PROVE  Kept'
  <2>1. UNCHANGED <<pc, op, ch, ele, queue, w, closed, accepted, received>>
    BY <1>8 DEF LoopThread, HandlerStep, vars, chvars, acvars, history
  <2>2. \A e : Present(e)' <=> Present(e)
    BY <2>1 DEF Present, Buffered, Offered, Held, Popped
  <2>3. \A a \in Actor : Kept_OK(a)'
    BY <2>1 DEF Kept, Kept_OK, Present, Buffered, Offered, Held, Popped
  <2> QED
    BY <2>1, <2>2, <2>3 DEF Kept
<1>9. \A malloc \in Mallocs : malloc = "ok"
  OBVIOUS
<1> QED
  BY <1>1, <1>2, <1>3, <1>4, <1>5, <1>6, <1>7, <1>8, <1>9, QueueKeeps, WriterKeeps,
     ReaderKeeps, DrainKeeps, LeaveKeeps, BlockKeeps
     DEF Next, ActorStep, CoroutineStep

(* While malloc does not fail, an element whose push has returned 0 is in  *)
(* exactly one place as long as its channel is open: it is not lost on the *)
(* way through the buffer, a waiting writer or a waiting reader            *)
(* (lc_channel.c:364-462).  With a malloc that fails unenforceable_push    *)
(* returns 0 all the same and drops it (lc_channel.c:155-162).             *)
THEOREM ElementsKept == Mallocs \subseteq {"ok"} => (Spec => []NothingLost)
<1> SUFFICES ASSUME Mallocs \subseteq {"ok"} PROVE Spec => []NothingLost
  OBVIOUS
<1>1. Init => Kept
  BY DEF Init, Kept, Kept_OK
<1>2. IInv /\ Sleepers /\ Delivery /\ Kept /\ [Next]_vars => Kept'
  BY KeptStep
<1>3. IInv /\ Delivery /\ Kept => NothingLost
  <2> SUFFICES ASSUME IInv, Delivery, Kept, NEW e \in accepted, e.on \notin closed
               PROVE  Copies(e) = 1
    BY DEF NothingLost
  <2>1. e \in Elem /\ Present(e)
    BY DEF IInv, TypeOK, HistoryTypeOK, Kept
  <2> QED
    BY <2>1, CountCopies
<1> QED
  BY <1>1, <1>2, <1>3, DeliveryHolds, PTL DEF Spec
=============================================================================
