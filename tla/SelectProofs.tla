---------------------------- MODULE SelectProofs ----------------------------
(***************************************************************************)
(* Proofs about Select, for any coroutines, threads, channels, lists of    *)
(* cases and capacities, and whatever malloc does: the mutexes a select    *)
(* holds, whose waiters are in the lists, who can be woken, that only one  *)
(* of the cases is carried out, that elements are delivered once and kept, *)
(* and that the sleepers can be reached.                                   *)
(***************************************************************************)
EXTENDS Select, ChannelWakeProofs, SequenceTheorems, FiniteSetTheorems, WellFoundedInduction

(* What an actor's place inside select says of its call.                   *)
Place_OK(a) ==
    /\ sel[a] \notin {"none", "try"} => pc[a] = "user"
    /\ sel[a] = "try" =>
           op[a] \in {"trypush", "trypop"} /\ pc[a] \in {"lock"} \cup Holding
    /\ sel[a] # "none" => left[a] + 1 \in 1..Budget /\ (blocked[a] => a \in Co)
    /\ sel[a] \in {"parked", "relock", "dereg"} => blocked[a]
    /\ sel[a] \in {"chosen", "try"} => at[a] \in Indices(a)

(* The mutexes a select has taken so far.                                  *)
Taken(a, i) ==
    \/ sel[a] \in {"lock", "relock"} /\ i < at[a]
    \/ sel[a] \in {"decide", "dereg"}

(* The mutexes an actor has, for a call or for a select.                   *)
Mutexes_OK(a) ==
    /\ pc[a] \in Holding => lock[ch[a]] = a
    /\ \A i \in Indices(a) : Taken(a, i) => lock[cases[a][i].on] = a

(* The coroutines of a list that wait in a call, or in a select.           *)
Those(s, kind) == {s[i].co : i \in {j \in 1..Len(s) : s[j].kind = kind}} \ {None}

(* Who is in a list sleeps in a call of that kind, or is inside a select   *)
(* that has the channel among its cases.                                   *)
Waits(c, k, type) == Sleeps(c, k) /\ op[c] = type /\ status[c] = "WAITING"

Selects(c, k, type) == sel[c] \in {"parked", "relock", "dereg"} /\ In(c, type, k)

Waiter_OK(c) ==
    \A k \in Chan :
        /\ c \in Those(w[k], "plain") => Waits(c, k, "push")
        /\ c \in Those(r[k], "plain") => Waits(c, k, "pop")
        /\ c \in Those(w[k], "select") => Selects(c, k, "push")
        /\ c \in Those(r[k], "select") => Selects(c, k, "pop")

(* Whoever has been taken out of a list cannot get on before its waker has *)
(* released the mutex.                                                     *)
Target_OK(a) ==
    pc[a] \in {"wake", "spin", "join"} /\ tgt[a].co # None =>
        IF tgt[a].kind = "plain"
        THEN /\ Sleeps(tgt[a].co, ch[a])
             /\ tgt[a].co \notin Cos(w[ch[a]]) \cup Cos(r[ch[a]])
             /\ pc[a] = "wake" => status[tgt[a].co] = "WAITING"
             /\ pc[a] # "spin"
        ELSE sel[tgt[a].co] \in {"parked", "relock"} /\ ch[a] \in ChannelsOf(tgt[a].co)

Own_OK(a) == Place_OK(a) /\ Mutexes_OK(a) /\ Target_OK(a)

Orderly ==
    /\ \A a \in Actor : Own_OK(a)
    /\ \A c \in Co : Waiter_OK(c)
    /\ ListedOnce

(* The status of the coroutine that runs.  A thread may wake one that has  *)
(* parked and not switched contexts yet.                                   *)
SelectorRuns ==
    loop = "run" /\ cur \in Co =>
        status[cur] = "RUNNING" \/ pc[cur] = "parked" \/ sel[cur] = "parked"

SelectInv == SelectTypeOK /\ CallsOK /\ Orderly /\ SelectorRuns

-----------------------------------------------------------------------------
(* The lists: the first waiter is taken out, a new one is put first, the   *)
(* one of a coroutine is removed.                                          *)
LEMMA ThoseCos ==
    ASSUME NEW s \in Seq(Waiter)
    PROVE  Cos(s) = Those(s, "plain") \cup Those(s, "select")
<1>1. ASSUME NEW i \in 1..Len(s) PROVE s[i].kind \in {"plain", "select"}
  <2>1. s[i] \in Waiter
    OBVIOUS
  <2> QED
    BY <2>1 DEF Waiter
<1>2. ASSUME NEW c \in Cos(s) PROVE c \in Those(s, "plain") \cup Those(s, "select")
  <2>1. PICK i \in 1..Len(s) : s[i].co = c /\ c # None
    BY DEF Cos
  <2> QED
    BY <1>1, <2>1 DEF Those
<1>3. ASSUME NEW kind, NEW c \in Those(s, kind) PROVE c \in Cos(s)
  BY DEF Cos, Those
<1> QED
  BY <1>2, <1>3

LEMMA ThoseTail ==
    ASSUME NEW s \in Seq(Waiter), s # <<>>
    PROVE  /\ \A kind : Those(Tail(s), kind) \subseteq Those(s, kind)
           /\ Head(s).co # None => Head(s).co \in Those(s, Head(s).kind)
<1>1. /\ Head(s) = s[1] /\ 1 \in 1..Len(s)
      /\ \A i \in 1..Len(Tail(s)) : Tail(s)[i] = s[i + 1] /\ i + 1 \in 1..Len(s)
  OBVIOUS
<1>2. ASSUME NEW kind, NEW c \in Those(Tail(s), kind) PROVE c \in Those(s, kind)
  <2>1. PICK i \in 1..Len(Tail(s)) : Tail(s)[i].co = c /\ Tail(s)[i].kind = kind /\ c # None
    BY DEF Those
  <2> QED
    BY <1>1, <2>1 DEF Those
<1> QED
  BY <1>1, <1>2 DEF Those

LEMMA ThosePush ==
    ASSUME NEW s \in Seq(Waiter), NEW x \in Waiter
    PROVE  /\ \A kind : Those(<<x>> \o s, kind) \subseteq
                  Those(s, kind) \cup (IF x.kind = kind THEN {x.co} \ {None} ELSE {})
<1> DEFINE t == <<x>> \o s
<1>1. /\ t[1] = x
      /\ \A i \in 1..Len(t) : i = 1 \/ (i - 1 \in 1..Len(s) /\ s[i - 1] = t[i])
  OBVIOUS
<1> HIDE DEF t
<1>2. ASSUME NEW kind, NEW c \in Those(t, kind)
      PROVE  c \in Those(s, kind) \cup (IF x.kind = kind THEN {x.co} \ {None} ELSE {})
  <2>1. PICK i \in 1..Len(t) : t[i].co = c /\ t[i].kind = kind /\ c # None
    BY DEF Those
  <2> QED
    BY <1>1, <2>1 DEF Those
<1> QED
  BY <1>2 DEF t

(* Where a waits in s, and that t is s without the n-th, a's.              *)
PlacesOf(a, s) == {i \in 1..Len(s) : s[i].co = a}

Cut(s, t, a, n) ==
    /\ s[n].co = a
    /\ \A i \in 1..Len(t) : IF i < n THEN t[i] = s[i] /\ i \in 1..Len(s)
                            ELSE t[i] = s[i + 1] /\ i + 1 \in 1..Len(s)

LEMMA CutOne ==
    ASSUME NEW s \in Seq(Waiter), NEW a, NEW t, t = Without(s, a), PlacesOf(a, s) # {}
    PROVE  t \in Seq(Waiter) /\ \E n \in 1..Len(s) : Cut(s, t, a, n)
<1>n. PICK n \in 1..Len(s) :
          /\ s[n].co = a
          /\ t = SubSeq(s, 1, n - 1) \o SubSeq(s, n + 1, Len(s))
  BY DEF Without, PlacesOf
<1>1. PICK u : u = SubSeq(s, 1, n - 1)
  OBVIOUS
<1>2. PICK v : v = SubSeq(s, n + 1, Len(s))
  OBVIOUS
<1>3. u \in Seq(Waiter) /\ Len(u) = n - 1 /\ \A i \in 1..(n - 1) : u[i] = s[i]
  BY <1>1
<1>4. /\ v \in Seq(Waiter) /\ Len(v) = Len(s) - n
      /\ \A i \in 1..(Len(s) - n) : v[i] = s[n + i]
  BY <1>2
<1>5. t = u \o v
  BY <1>n, <1>1, <1>2
<1>6. /\ t \in Seq(Waiter) /\ Len(t) = Len(u) + Len(v)
      /\ \A i \in 1..(Len(u) + Len(v)) :
             t[i] = IF i <= Len(u) THEN u[i] ELSE v[i - Len(u)]
  <2>1. u \in Seq(Waiter) /\ v \in Seq(Waiter)
    BY <1>3, <1>4
  <2> QED
    BY <1>5, <2>1, ConcatProperties
<1>7. ASSUME NEW i \in 1..Len(t), i < n PROVE t[i] = s[i] /\ i \in 1..Len(s)
  <2>1. i \in 1..(n - 1) /\ i \in 1..Len(s) /\ i <= Len(u) /\ i \in 1..(Len(u) + Len(v))
    BY <1>3, <1>4, <1>6, <1>7
  <2> QED
    BY <1>3, <1>6, <2>1
<1>8. ASSUME NEW i \in 1..Len(t), ~(i < n) PROVE t[i] = s[i + 1] /\ i + 1 \in 1..Len(s)
  <2>1. /\ Len(s) \in Nat /\ i \in Nat /\ Len(u) = n - 1 /\ Len(v) = Len(s) - n
        /\ 1 <= n /\ n <= i /\ i <= Len(s) - 1
    BY <1>3, <1>4, <1>6, <1>8
  <2>2. PICK j \in Nat : j = i - (n - 1)
    BY <2>1
  <2>3. /\ j \in 1..(Len(s) - n) /\ n + j = i + 1 /\ i + 1 \in 1..Len(s)
        /\ ~(i <= Len(u)) /\ i \in 1..(Len(u) + Len(v)) /\ j = i - Len(u)
    BY <2>1, <2>2
  <2>4. t[i] = v[j]
    BY <1>6, <2>3
  <2>5. v[j] = s[n + j]
    BY <1>4, <2>3
  <2> QED
    BY <2>3, <2>4, <2>5
<1> QED
  BY <1>n, <1>6, <1>7, <1>8 DEF Cut

LEMMA WithoutOne ==
    ASSUME NEW s \in Seq(Waiter), NEW a
    PROVE  /\ Without(s, a) \in Seq(Waiter)
           /\ \A kind : Those(Without(s, a), kind) \subseteq Those(s, kind)
           /\ OnceIn(s) => OnceIn(Without(s, a)) /\ (a # None => a \notin Cos(Without(s, a)))
<1>1. CASE PlacesOf(a, s) = {}
  <2>1. Without(s, a) = s
    BY <1>1 DEF Without, PlacesOf
  <2>2. a \notin Cos(s)
    BY <1>1 DEF Cos, PlacesOf
  <2> QED
    BY <2>1, <2>2
<1>2. CASE PlacesOf(a, s) # {}
  <2>1. PICK t : t = Without(s, a)
    OBVIOUS
  <2>2. t \in Seq(Waiter) /\ \E n \in 1..Len(s) : Cut(s, t, a, n)
    BY <1>2, <2>1, CutOne
  <2>3. PICK n \in 1..Len(s) :
            /\ s[n].co = a
            /\ \A i \in 1..Len(t) :
                   IF i < n THEN t[i] = s[i] /\ i \in 1..Len(s)
                   ELSE t[i] = s[i + 1] /\ i + 1 \in 1..Len(s)
    BY <2>2 DEF Cut
  <2>4. ASSUME NEW i \in 1..Len(t)
        PROVE  \E j \in 1..Len(s) : t[i] = s[j] /\ j # n
    BY <2>3
  <2>5. ASSUME NEW kind, NEW c \in Those(t, kind) PROVE c \in Those(s, kind)
    <3>1. PICK i \in 1..Len(t) : t[i].co = c /\ t[i].kind = kind /\ c # None
      BY DEF Those
    <3>2. PICK j \in 1..Len(s) : t[i] = s[j]
      BY <2>4
    <3> QED
      BY <3>1, <3>2 DEF Those
  <2>6. ASSUME OnceIn(s), a # None PROVE a \notin Cos(t)
    <3> SUFFICES ASSUME NEW i \in 1..Len(t), t[i].co = a PROVE FALSE
      BY DEF Cos
    <3> QED
      BY <2>3, <2>4, <2>6 DEF OnceIn
  <2>7. ASSUME OnceIn(s) PROVE OnceIn(t)
    <3> SUFFICES ASSUME NEW i \in 1..Len(t), NEW j \in 1..Len(t),
                        t[i].co = t[j].co, t[i].co # None
                 PROVE  i = j
      BY DEF OnceIn
    <3>1. \A l, m \in 1..Len(s) : s[l].co = s[m].co /\ s[l].co # None => l = m
      BY <2>7 DEF OnceIn
    <3>2. CASE i < n /\ j < n
      BY <2>3, <3>1, <3>2
    <3>3. CASE i < n /\ ~(j < n)
      <4>1. i = j + 1
        BY <2>3, <3>1, <3>3
      <4> QED
        BY <3>3, <4>1
    <3>4. CASE ~(i < n) /\ j < n
      <4>1. i + 1 = j
        BY <2>3, <3>1, <3>4
      <4> QED
        BY <3>4, <4>1
    <3>5. CASE ~(i < n) /\ ~(j < n)
      <4>1. i + 1 = j + 1
        BY <2>3, <3>1, <3>5
      <4> QED
        BY <4>1
    <3> QED
      BY <3>2, <3>3, <3>4, <3>5
  <2> QED
    BY <2>1, <2>2, <2>5, <2>6, <2>7
<1> QED
  BY <1>1, <1>2

-----------------------------------------------------------------------------
(* Everything of the other actors stays.                                   *)
Stays(b) ==
    /\ pc'[b] = pc[b] /\ op'[b] = op[b] /\ ch'[b] = ch[b] /\ tgt'[b] = tgt[b]
    /\ left'[b] = left[b] /\ sel'[b] = sel[b] /\ cases'[b] = cases[b]
    /\ blocked'[b] = blocked[b] /\ at'[b] = at[b]

(* At most a comes into a list, and ceases to be a target.                 *)
ListsOf(a) ==
    /\ \A k \in Chan : \A kind : /\ Those(w'[k], kind) \subseteq Those(w[k], kind) \cup {a}
                                 /\ Those(r'[k], kind) \subseteq Those(r[k], kind) \cup {a}
    /\ w' \in [Chan -> Seq(Waiter)] /\ r' \in [Chan -> Seq(Waiter)]
    /\ w \in [Chan -> Seq(Waiter)] /\ r \in [Chan -> Seq(Waiter)]

(* Of those that sleep only the one that a wakes ceases to be WAITING.     *)
WakesAtMost(a) ==
    \A c \in Co : status[c] = "WAITING" /\ pc[c] \in {"parked", "asleep"} =>
        \/ status'[c] = "WAITING"
        \/ /\ pc[a] = "wake" /\ pc'[a] # "wake"
           /\ tgt[a].kind = "plain" /\ tgt[a].co = c

(* What a sleeping or selecting actor must respect for its wakers' sake.   *)
AwaitsWaker(a) ==
    /\ pc[a] \in {"parked", "asleep"} =>
           \/ lock[ch[a]] = None
           \/ /\ pc'[a] \in {"parked", "asleep"} /\ ch'[a] = ch[a]
              /\ UNCHANGED <<w, r>>
              /\ status[a] = "WAITING" => status'[a] = "WAITING"
    /\ sel[a] \in {"parked", "relock"} =>
           cases'[a] = cases[a] /\ sel'[a] \in {"parked", "relock", "dereg"}

(* A step of one actor that does its part keeps everybody in order.        *)
LEMMA ActorMoves ==
    ASSUME CallsOK, Orderly, NEW a \in Actor,
           \A b \in Actor \ {a} : Stays(b),
           \A k \in Chan : lock'[k] = lock[k] \/ lock[k] \in {None, a},
           Own_OK(a)', a \in Co => Waiter_OK(a)', ListedOnce',
           ListsOf(a), WakesAtMost(a), AwaitsWaker(a),
           ch[a] \in Chan \cup {None},
           \A b \in Actor : cases[b] \in Seq(Case)
    PROVE  Orderly'
<1>1. ASSUME NEW b \in Actor, b # a PROVE Mutexes_OK(b)'
  <2>1. Stays(b) /\ b # None /\ Mutexes_OK(b)
    BY <1>1, NoneNotOp DEF Orderly, Own_OK
  <2>2. \A k \in Chan : lock[k] = b => lock'[k] = b
    BY <1>1, <2>1
  <2>3. pc[b] \in Holding => ch[b] \in Chan
    BY DEF CallsOK, Call_OK
  <2>4. ASSUME NEW i \in Indices(b) PROVE cases[b][i].on \in Chan
    <3>1. cases[b][i] \in Case
      BY DEF Indices
    <3> QED
      BY <3>1 DEF Case
  <2> QED
    BY <2>1, <2>2, <2>3, <2>4 DEF Mutexes_OK, Stays, Indices, Taken
<1>2. ASSUME NEW b \in Actor, b # a PROVE Place_OK(b)'
  BY <1>2 DEF Orderly, Own_OK, Place_OK, Stays, Indices
<1>3. ASSUME NEW c \in Co, c # a PROVE Waiter_OK(c)'
  <2>1. Stays(c) /\ Waiter_OK(c)
    BY <1>3 DEF Orderly, Actor
  <2>2. \A k \in Chan : \A type : Selects(c, k, type) => Selects(c, k, type)'
    BY <2>1 DEF Selects, Stays, In, Indices
  <2>3. ASSUME NEW k \in Chan, NEW type, Waits(c, k, type),
               c \in Those(w[k], "plain") \cup Those(r[k], "plain")
        PROVE  Waits(c, k, type)'
    <3>1. Sleeps(c, k)' /\ op'[c] = type /\ status[c] = "WAITING" /\ ch[c] = k
          /\ pc[c] \in {"parked", "asleep"}
      BY <2>1, <2>3 DEF Waits, Sleeps, Stays
    <3>2. c \in Cos(w[k]) \cup Cos(r[k])
      BY <2>3, ThoseCos DEF ListsOf
    <3>3. ~(pc[a] = "wake" /\ tgt[a].kind = "plain" /\ tgt[a].co = c)
      <4>1. CASE pc[a] = "wake" /\ tgt[a].kind = "plain" /\ tgt[a].co = c
        <5>1. /\ Sleeps(tgt[a].co, ch[a])
              /\ tgt[a].co \notin Cos(w[ch[a]]) \cup Cos(r[ch[a]])
          BY <4>1, NoneNotOp DEF Orderly, Own_OK, Target_OK
        <5> QED
          BY <3>1, <3>2, <4>1, <5>1 DEF Sleeps
      <4> QED
        BY <4>1
    <3> QED
      BY <3>1, <3>3 DEF Waits, WakesAtMost
  <2> SUFFICES ASSUME NEW k \in Chan
               PROVE  /\ c \in Those(w'[k], "plain") => Waits(c, k, "push")'
                      /\ c \in Those(r'[k], "plain") => Waits(c, k, "pop")'
                      /\ c \in Those(w'[k], "select") => Selects(c, k, "push")'
                      /\ c \in Those(r'[k], "select") => Selects(c, k, "pop")'
    BY DEF Waiter_OK
  <2>4. \A kind : /\ c \in Those(w'[k], kind) => c \in Those(w[k], kind)
                  /\ c \in Those(r'[k], kind) => c \in Those(r[k], kind)
    BY <1>3 DEF ListsOf
  <2> QED
    BY <2>1, <2>2, <2>3, <2>4 DEF Waiter_OK
<1>4. ASSUME NEW b \in Actor, b # a PROVE Target_OK(b)'
  <2>1. Stays(b) /\ Target_OK(b) /\ Mutexes_OK(b) /\ Mutexes_OK(a) /\ b # None
    BY <1>4, NoneNotOp DEF Orderly, Own_OK
  <2>2. PICK c, k : c = tgt[b].co /\ k = ch[b]
    OBVIOUS
  <2> SUFFICES ASSUME pc[b] \in {"wake", "spin", "join"}, c # None
               PROVE  IF tgt[b].kind = "plain"
                      THEN /\ Sleeps(c, k)'
                           /\ c \notin Cos(w'[k]) \cup Cos(r'[k])
                           /\ pc[b] = "wake" => status'[c] = "WAITING"
                           /\ pc[b] # "spin"
                      ELSE sel'[c] \in {"parked", "relock"} /\ k \in ChannelsOf(c)'
    BY <2>1, <2>2 DEF Target_OK, Stays, Sleeps, ChannelsOf, Indices
  <2>3. k \in Chan /\ lock[k] = b /\ c \in Co /\ c \in Actor
    BY <2>1, <2>2 DEF Mutexes_OK, Holding, CallsOK, Call_OK, Waiter, Actor
  <2>4. lock[k] # None /\ lock[k] # a /\ lock'[k] = b
    BY <1>4, <2>1, <2>3
  <2>5. CASE tgt[b].kind = "plain"
    <3>1. /\ Sleeps(c, k) /\ c \notin Cos(w[k]) \cup Cos(r[k])
          /\ pc[b] = "wake" => status[c] = "WAITING"
          /\ pc[b] # "spin"
      BY <2>1, <2>2, <2>5 DEF Target_OK
    <3>2. CASE c = a
      <4>1. /\ pc'[a] \in {"parked", "asleep"} /\ ch'[a] = ch[a]
            /\ UNCHANGED <<w, r>>
            /\ status[a] = "WAITING" => status'[a] = "WAITING"
        BY <2>4, <3>1, <3>2 DEF AwaitsWaker, Sleeps
      <4> QED
        BY <2>2, <2>5, <3>1, <3>2, <4>1 DEF Sleeps
    <3>3. CASE c # a
      <4>1. Stays(c)
        BY <2>3, <3>3
      <4>2. Sleeps(c, k)'
        BY <3>1, <4>1 DEF Sleeps, Stays
      <4>3. c \notin Cos(w'[k]) \cup Cos(r'[k])
        BY <2>3, <3>1, <3>3, ThoseCos DEF ListsOf
      <4>4. ~(pc[a] = "wake" /\ tgt[a].kind = "plain" /\ tgt[a].co = c)
        <5>1. CASE pc[a] = "wake" /\ tgt[a].kind = "plain" /\ tgt[a].co = c
          <6>1. Sleeps(c, ch[a]) /\ lock[ch[a]] = a
            BY <2>1, <2>3, <5>1, NoneNotOp
               DEF Orderly, Own_OK, Target_OK, Mutexes_OK, Holding
          <6> QED
            BY <2>4, <3>1, <6>1 DEF Sleeps
        <5> QED
          BY <5>1
      <4>5. pc[b] = "wake" => status'[c] = "WAITING"
        BY <2>3, <3>1, <4>4 DEF WakesAtMost, Sleeps
      <4> QED
        BY <2>2, <2>5, <3>1, <4>2, <4>3, <4>5 DEF Sleeps
    <3> QED
      BY <3>2, <3>3
  <2>6. CASE tgt[b].kind # "plain"
    <3>1. sel[c] \in {"parked", "relock"} /\ k \in ChannelsOf(c)
      BY <2>1, <2>2, <2>6 DEF Target_OK
    <3>2. CASE c = a
      <4>1. cases'[a] = cases[a] /\ sel'[a] \in {"parked", "relock", "dereg"}
        BY <3>1, <3>2 DEF AwaitsWaker
      <4>2. PICK i \in Indices(a) : cases[a][i].on = k
        BY <3>1, <3>2 DEF ChannelsOf
      <4>3. sel'[a] = "dereg" => lock'[cases[a][i].on] = a
        BY <4>1, <4>2 DEF Own_OK, Mutexes_OK, Taken, Indices
      <4>4. sel'[a] # "dereg"
        BY <1>4, <2>4, <4>2, <4>3
      <4> QED
        BY <2>2, <2>6, <3>1, <3>2, <4>1, <4>4 DEF ChannelsOf, Indices
    <3>3. CASE c # a
      <4>1. Stays(c)
        BY <2>3, <3>3
      <4> QED
        BY <2>2, <2>6, <3>1, <4>1 DEF ChannelsOf, Indices, Stays
    <3> QED
      BY <3>2, <3>3
  <2> QED
    BY <2>5, <2>6
<1>5. \A b \in Actor : Own_OK(b)'
  BY <1>1, <1>2, <1>4 DEF Own_OK
<1> QED
  BY <1>3, <1>5 DEF Orderly

LEMMA ChansOfCases ==
    ASSUME SelectTypeOK, NEW a \in Actor
    PROVE  /\ Len(cases[a]) \in Nat
           /\ \A i \in Indices(a) : cases[a][i] \in Case /\ cases[a][i].on \in Chan
<1>1. cases[a] \in Seq(Case)
  BY DEF SelectTypeOK
<1>2. ASSUME NEW i \in Indices(a) PROVE cases[a][i] \in Case /\ cases[a][i].on \in Chan
  <2>1. cases[a][i] \in Case
    BY <1>1 DEF Indices
  <2> QED
    BY <2>1 DEF Case
<1> QED
  BY <1>1, <1>2

(* Who neither sleeps nor waits in a select is in no list.                 *)
Busy(a) == pc[a] \notin {"parked", "asleep"} /\ sel[a] \notin {"parked", "relock", "dereg"}

LEMMA BusyInNoList ==
    ASSUME SelectInv, NEW a \in Actor, Busy(a)
    PROVE  \A k \in Chan : /\ a \notin Cos(w[k]) \cup Cos(r[k])
                           /\ \A kind : a \notin Those(w[k], kind) \cup Those(r[k], kind)
<1> SUFFICES ASSUME NEW k \in Chan
             PROVE  a \notin Cos(w[k]) \cup Cos(r[k])
  BY DEF Those, Cos
<1>1. w[k] \in Seq(Waiter) /\ r[k] \in Seq(Waiter)
  BY DEF SelectInv, SelectTypeOK, TypeOK, ChannelTypeOK
<1>2. CASE a \in Co
  <2>1. Waiter_OK(a)
    BY <1>2 DEF SelectInv, Orderly
  <2>2. \A kind \in {"plain", "select"} : a \notin Those(w[k], kind) \cup Those(r[k], kind)
    BY <2>1 DEF Waiter_OK, Waits, Selects, Sleeps, Busy
  <2> QED
    BY <1>1, <2>2, ThoseCos
<1>3. CASE a \notin Co
  <2>1. ASSUME NEW s \in Seq(Waiter), a \in Cos(s) PROVE FALSE
    <3>1. PICK i \in 1..Len(s) : s[i].co = a /\ a # None
      BY <2>1 DEF Cos
    <3>2. s[i] \in Waiter
      OBVIOUS
    <3> QED
      BY <1>3, <3>1, <3>2 DEF Waiter
  <2> QED
    BY <1>1, <2>1
<1> QED
  BY <1>2, <1>3

(* A step of an actor that is busy before, and adds nobody to the lists.   *)
Shorter ==
    \A k \in Chan : /\ \A kind : /\ Those(w'[k], kind) \subseteq Those(w[k], kind)
                                 /\ Those(r'[k], kind) \subseteq Those(r[k], kind)
                    /\ OnceIn(w'[k]) /\ OnceIn(r'[k])

LEMMA BusyMoves ==
    ASSUME SelectInv, SelectTypeOK', NEW a \in Actor, Busy(a),
           \A b \in Actor \ {a} : Stays(b),
           \A k \in Chan : lock'[k] = lock[k] \/ lock[k] \in {None, a},
           Own_OK(a)', WakesAtMost(a), Shorter
    PROVE  Orderly'
<1>1. ListedOnce'
  BY DEF ListedOnce, Shorter
<1>2. ListsOf(a)
  BY DEF ListsOf, Shorter, SelectInv, SelectTypeOK, TypeOK, ChannelTypeOK
<1>3. AwaitsWaker(a)
  BY DEF AwaitsWaker, Busy
<1>4. Waiter_OK(a)'
  BY BusyInNoList DEF Shorter, Waiter_OK
<1>5. ch[a] \in Chan \cup {None} /\ \A b \in Actor : cases[b] \in Seq(Case)
  BY DEF SelectInv, SelectTypeOK, TypeOK, CallTypeOK
<1> QED
  BY <1>1, <1>2, <1>3, <1>4, <1>5, ActorMoves DEF SelectInv

LEMMA ListsStay ==
    ASSUME SelectInv, UNCHANGED <<w, r>>
    PROVE  Shorter
  BY DEF Shorter, SelectInv, Orderly, ListedOnce

(* A step of a call, outside select or inside.                             *)
Along(a) ==
    /\ cases' = cases /\ blocked' = blocked
    /\ \A b \in Actor \ {a} : sel'[b] = sel[b] /\ at'[b] = at[b]
    /\ IF sel[a] = "try" /\ pc'[a] = "user"
       THEN sel'[a] \in {"lock", "none"} /\ at'[a] = 1
       ELSE sel'[a] = sel[a] /\ at'[a] = at[a]

LEMMA SelectAlong ==
    ASSUME SelectTypeOK, NEW a \in Actor, SelectActorStep(a)
    PROVE  Along(a) /\ ActorStep(a)
  BY DEF SelectActorStep, Along, SelectTypeOK

LEMMA OutsideAlong ==
    ASSUME NEW a \in Actor, Outside(a)
    PROVE  Along(a)
  BY DEF Outside, selvars, Along

LEMMA AlongOwn ==
    ASSUME SelectInv, NEW a \in Actor, Along(a), sel[a] \in {"none", "try"}, left' = left,
           pc'[a] \notin {"user"} \cup Holding => sel[a] = "none",
           pc'[a] # "user" => op'[a] = op[a],
           pc'[a] \in Holding => lock'[ch'[a]] = a,
           Target_OK(a)'
    PROVE  Own_OK(a)'
<1>1. Place_OK(a)
  BY DEF SelectInv, Orderly, Own_OK
<1>2. CASE sel[a] = "try" /\ pc'[a] = "user"
  <2>1. /\ sel'[a] \in {"lock", "none"} /\ at'[a] = 1 /\ left'[a] = left[a]
        /\ blocked'[a] = blocked[a] /\ cases'[a] = cases[a]
    BY <1>2 DEF Along
  <2>2. Place_OK(a)'
    BY <1>1, <1>2, <2>1 DEF Place_OK
  <2>3. \A i \in Indices(a)' : ~Taken(a, i)'
    BY <2>1 DEF Taken, Indices
  <2> QED
    BY <2>2, <2>3 DEF Own_OK, Mutexes_OK
<1>3. CASE ~(sel[a] = "try" /\ pc'[a] = "user")
  <2>1. /\ sel'[a] = sel[a] /\ at'[a] = at[a] /\ left'[a] = left[a]
        /\ blocked'[a] = blocked[a] /\ cases'[a] = cases[a]
    BY <1>3 DEF Along
  <2>2. Place_OK(a)'
    BY <1>1, <1>3, <2>1 DEF Place_OK, Indices
  <2>3. \A i \in Indices(a)' : ~Taken(a, i)'
    BY <2>1 DEF Taken
  <2> QED
    BY <2>2, <2>3 DEF Own_OK, Mutexes_OK
<1> QED
  BY <1>2, <1>3

-----------------------------------------------------------------------------
(* What every step of a call does: the mutex it takes was free, and it     *)
(* disturbs the others only through the lists and a status.                *)
CallStep(a) ==
    /\ pc[a] \in {"lock"} \cup Holding /\ ch[a] \in Chan
    /\ pc'[a] \in {"user"} \cup Holding
    /\ pc'[a] # "user" => op'[a] = op[a] /\ ch'[a] = ch[a]
    /\ pc'[a] \in Holding => lock'[ch'[a]] = a
    /\ left' = left
    /\ \A k \in Chan : lock'[k] = lock[k] \/ lock[k] \in {None, a}
    /\ \A b \in Actor \ {a} :
           pc'[b] = pc[b] /\ op'[b] = op[b] /\ ch'[b] = ch[b] /\ tgt'[b] = tgt[b]

LEMMA ReturnStep ==
    ASSUME TypeOK, NEW a \in Actor, NEW acc, NEW rec, Return(a, acc, rec),
           pc[a] \in {"lock"} \cup Holding, ch[a] \in Chan, left' = left
    PROVE  CallStep(a) /\ pc'[a] = "user"
<1>1. pc'[a] = "user" /\ "user" \notin Holding
  BY DEF Return, TypeOK, CallTypeOK, Holding
<1> QED
  BY <1>1 DEF CallStep, Return, TypeOK, CallTypeOK

LEMMA HoldStep ==
    ASSUME TypeOK, NEW a \in Actor, NEW place \in Holding, HoldAt(a, place),
           pc[a] \in {"lock"} \cup Holding, ch[a] \in Chan, left' = left,
           lock[ch[a]] \in {None, a}, op' = op, ch' = ch,
           \A b \in Actor \ {a} : tgt'[b] = tgt[b]
    PROVE  CallStep(a) /\ pc'[a] = place
  BY DEF CallStep, HoldAt, TypeOK, CallTypeOK

(* Where a call is its actor is busy, in the code or in a select's call.   *)
LEMMA CallPlace ==
    ASSUME SelectInv, NEW a \in Actor, pc[a] \in {"lock"} \cup Holding
    PROVE  /\ sel[a] \in {"none", "try"} /\ Busy(a) /\ ch[a] \in Chan
           /\ pc[a] \in Holding => lock[ch[a]] = a
           /\ TypeOK
<1>1. Own_OK(a) /\ Call_OK(a) /\ pc[a] # "user"
  BY DEF SelectInv, Orderly, CallsOK, Holding
<1> QED
  BY <1>1 DEF Own_OK, Place_OK, Mutexes_OK, Busy, Holding, Call_OK, SelectInv, SelectTypeOK

LEMMA CallMoves ==
    ASSUME SelectInv, SelectTypeOK', NEW a \in Actor, Along(a), CallStep(a),
           Target_OK(a)', WakesAtMost(a), Shorter
    PROVE  Orderly'
<1>1. Busy(a) /\ sel[a] \in {"none", "try"}
  BY CallPlace DEF CallStep
<1>2. Own_OK(a)'
  BY <1>1, AlongOwn DEF CallStep
<1>3. \A b \in Actor \ {a} : Stays(b)
  BY DEF Along, CallStep, Stays
<1>4. \A k \in Chan : lock'[k] = lock[k] \/ lock[k] \in {None, a}
  BY DEF CallStep
<1> QED
  BY <1>1, <1>2, <1>3, <1>4, BusyMoves

(* The call is over or refused, or the channel closed: nobody is woken.    *)
LEMMA PlainMoves ==
    ASSUME SelectInv, SelectTypeOK', NEW a \in Actor, Along(a), CallStep(a),
           pc'[a] \notin {"wake", "spin", "join"}, status' = status, Shorter
    PROVE  Orderly'
<1>1. Target_OK(a)'
  BY DEF Target_OK
<1>2. WakesAtMost(a)
  BY DEF WakesAtMost
<1> QED
  BY <1>1, <1>2, CallMoves

LEMMA ServedStep ==
    ASSUME SelectInv, NEW a \in Actor, Served(a), pc[a] \in {"wake", "join"},
           left' = left
    PROVE  CallStep(a) /\ pc'[a] \in {"user", "drain", "refused"}
<1>1. ch[a] \in Chan /\ lock[ch[a]] = a /\ TypeOK
  BY CallPlace DEF Holding
<1>2. CASE op[a] = "close" \/ tgt[a].kind = "select"
  <2>1. PICK place \in {"drain", "refused"} :
            HoldAt(a, place) /\ UNCHANGED <<acvars, history>>
    BY <1>2 DEF Served
  <2> QED
    BY <1>1, <2>1, HoldStep DEF acvars, Holding
<1>3. CASE ~(op[a] = "close" \/ tgt[a].kind = "select")
  <2>1. \E acc, rec : Return(a, acc, rec)
    BY <1>3 DEF Served
  <2> QED
    BY <1>1, <2>1, ReturnStep DEF Holding
<1> QED
  BY <1>2, <1>3

(* An element left behind adds nobody to the writers.                      *)
LEMMA LeaveElementMoves ==
    ASSUME SelectInv, SelectTypeOK', NEW a \in Actor, Along(a),
           NEW malloc \in Mallocs, LeaveElement(a, malloc)
    PROVE  Orderly'
<1>1. /\ TypeOK /\ ch[a] \in Chan /\ pc[a] \in Holding /\ ele[a] \in Elem
  BY CallPlace DEF LeaveElement, Holding, SelectInv, CallsOK, Call_OK, Pushes
<1>2. CallStep(a) /\ pc'[a] = "user" /\ status' = status /\ r' = r
  BY <1>1, ReturnStep DEF LeaveElement, rtvars
<1>3. PICK x : x = [co |-> None, ele |-> ele[a], kind |-> "plain"]
  OBVIOUS
<1>4. x \in Waiter /\ x.co = None
  BY <1>1, <1>3 DEF Waiter
<1>5. \A k \in Chan : w'[k] = w[k] \/ w'[k] = <<x>> \o w[k]
  BY <1>1, <1>3 DEF LeaveElement, TypeOK, ChannelTypeOK
<1>6. ASSUME NEW s \in Seq(Waiter), OnceIn(s)
      PROVE  /\ \A kind : Those(<<x>> \o s, kind) \subseteq Those(s, kind)
             /\ OnceIn(<<x>> \o s)
  <2>1. None \notin Cos(s)
    BY DEF Cos
  <2> QED
    BY <1>4, <1>6, <2>1, ThosePush, CosPush
<1>7. \A k \in Chan : w[k] \in Seq(Waiter) /\ OnceIn(w[k]) /\ OnceIn(r[k])
  BY DEF SelectInv, SelectTypeOK, TypeOK, ChannelTypeOK, Orderly, ListedOnce
<1>8. Shorter
  <2> SUFFICES ASSUME NEW k \in Chan
               PROVE  /\ \A kind : Those(w'[k], kind) \subseteq Those(w[k], kind)
                      /\ OnceIn(w'[k])
    BY <1>2, <1>7 DEF Shorter
  <2> QED
    BY <1>5, <1>6, <1>7
<1> QED
  BY <1>2, <1>8, PlainMoves

(* A target is made READY, if it sleeps in a call it is no longer listed.  *)
LEMMA WakeInOrder ==
    ASSUME SelectInv, SelectTypeOK', NEW a \in Actor, Along(a), Wake(a)
    PROVE  Orderly'
<1>1. PICK c : c = tgt[a].co
  OBVIOUS
<1>2. /\ pc[a] \in {"wake", "spin"} /\ c # None
      /\ pc[a] = "spin" => status[c] = "WAITING"
      /\ status' = IF status[c] = "WAITING" THEN [status EXCEPT ![c] = "READY"] ELSE status
      /\ HoldAt(a, IF status[c] \in {"WAITING", "RUNNING"} THEN "join" ELSE "spin")
      /\ UNCHANGED <<w, r, op, ch, tgt, left>>
  BY <1>1 DEF Wake, chvars, acvars
<1>3. /\ TypeOK /\ ch[a] \in Chan /\ lock[ch[a]] = a /\ Busy(a) /\ Target_OK(a)
      /\ tgt[a] \in Waiter
  BY <1>2, CallPlace DEF Holding, SelectInv, Orderly, Own_OK, CallsOK, Call_OK
<1>4. c \in Co /\ c \in Actor
  BY <1>1, <1>2, <1>3 DEF Waiter, Actor
<1>5. CallStep(a) /\ pc'[a] = IF status[c] \in {"WAITING", "RUNNING"} THEN "join" ELSE "spin"
  BY <1>2, <1>3, HoldStep DEF Holding
<1>6. CASE tgt[a].kind = "plain"
  <2>1. /\ Sleeps(c, ch[a]) /\ c \notin Cos(w[ch[a]]) \cup Cos(r[ch[a]])
        /\ pc[a] = "wake" /\ status[c] = "WAITING" /\ pc'[a] = "join"
    BY <1>1, <1>2, <1>3, <1>5, <1>6 DEF Target_OK
  <2>2. c # a /\ Sleeps(c, ch[a])'
    BY <1>2, <1>3, <1>4, <1>5, <2>1 DEF Busy, Sleeps, CallStep
  <2>3. Target_OK(a)'
    BY <1>1, <1>2, <1>6, <2>1, <2>2 DEF Target_OK, Sleeps
  <2>4. WakesAtMost(a)
    BY <1>1, <1>2, <1>6, <2>1 DEF WakesAtMost, TypeOK, RuntimeTypeOK
  <2> QED
    BY <1>2, <1>5, <2>3, <2>4, ListsStay, CallMoves
<1>7. CASE tgt[a].kind # "plain"
  <2>1. sel[c] \in {"parked", "relock"} /\ ch[a] \in ChannelsOf(c)
    BY <1>1, <1>2, <1>3, <1>7 DEF Target_OK
  <2>2. c # a /\ sel'[c] = sel[c] /\ cases' = cases
    BY <1>3, <1>4, <2>1 DEF Busy, Along
  <2>3. Target_OK(a)'
    BY <1>1, <1>2, <1>7, <2>1, <2>2 DEF Target_OK, ChannelsOf, Indices
  <2>4. pc[c] = "user"
    BY <1>4, <2>1 DEF SelectInv, Orderly, Own_OK, Place_OK
  <2>5. WakesAtMost(a)
    BY <1>2, <2>4 DEF WakesAtMost, TypeOK, RuntimeTypeOK
  <2> QED
    BY <1>2, <1>5, <2>3, <2>5, ListsStay, CallMoves
<1> QED
  BY <1>6, <1>7

(* Who is taken out of a list to be woken sleeps in a call on the channel, *)
(* or selects on it and cannot have taken its mutex.                       *)
LEMMA TakenTarget ==
    ASSUME SelectInv, NEW a \in Actor, Busy(a), NEW k \in Chan, NEW x \in Waiter,
           lock[k] \in {None, a}, x.co # None,
           \/ x.co \in Those(w[k], x.kind)
           \/ x.co \in Those(r[k], x.kind)
    PROVE  /\ x.co \in Actor \ {a}
           /\ x.kind = "plain" => Sleeps(x.co, k) /\ status[x.co] = "WAITING"
           /\ x.kind # "plain" =>
                  sel[x.co] \in {"parked", "relock"} /\ k \in ChannelsOf(x.co)
           /\ x.kind = "plain" /\ x.co \in Those(w[k], "plain") => x.co \notin Cos(r[k])
           /\ x.kind = "plain" /\ x.co \in Those(r[k], "plain") => x.co \notin Cos(w[k])
<1>1. PICK c : c = x.co
  OBVIOUS
<1>2. c \in Co /\ c \in Actor /\ x.kind \in {"plain", "select"}
  BY <1>1 DEF Waiter, Actor
<1>3. /\ Waiter_OK(c) /\ Place_OK(c) /\ Mutexes_OK(c)
      /\ w[k] \in Seq(Waiter) /\ r[k] \in Seq(Waiter)
  BY <1>2 DEF SelectInv, Orderly, Own_OK, SelectTypeOK, TypeOK, ChannelTypeOK
<1>4. c # a
  BY <1>1, BusyInNoList
<1>5. CASE x.kind = "plain"
  <2>1. /\ Sleeps(c, k) /\ status[c] = "WAITING" /\ sel[c] \in {"none", "try"}
        /\ c \in Those(w[k], "plain") => op[c] = "push"
        /\ c \in Those(r[k], "plain") => op[c] = "pop"
    BY <1>1, <1>3, <1>5 DEF Waiter_OK, Waits, Sleeps, Place_OK
  <2>2. c \notin Those(w[k], "select") \cup Those(r[k], "select")
    BY <1>3, <2>1 DEF Waiter_OK, Selects
  <2>3. /\ c \in Those(w[k], "plain") => c \notin Those(r[k], "plain")
        /\ c \in Those(r[k], "plain") => c \notin Those(w[k], "plain")
    BY <2>1
  <2>4. /\ c \in Those(w[k], "plain") => c \notin Cos(r[k])
        /\ c \in Those(r[k], "plain") => c \notin Cos(w[k])
    BY <1>3, <2>2, <2>3, ThoseCos
  <2> QED
    BY <1>1, <1>2, <1>4, <1>5, <2>1, <2>4
<1>6. CASE x.kind = "select"
  <2>1. /\ sel[c] \in {"parked", "relock", "dereg"}
        /\ In(c, "push", k) \/ In(c, "pop", k)
    BY <1>1, <1>3, <1>6 DEF Waiter_OK, Selects
  <2>2. PICK i \in Indices(c) : cases[c][i].on = k
    BY <2>1 DEF In
  <2>3. sel[c] # "dereg"
    BY <1>2, <1>3, <1>4, <2>2, NoneNotOp DEF Mutexes_OK, Taken
  <2> QED
    BY <1>1, <1>2, <1>4, <1>6, <2>1, <2>2, <2>3 DEF ChannelsOf
<1> QED
  BY <1>2, <1>5, <1>6

LEMMA TakeWriterMoves ==
    ASSUME SelectInv, SelectTypeOK', NEW a \in Actor, Along(a),
           DrainWriter(a) \/ PopFromWriter(a)
    PROVE  Orderly'
<1>1. /\ TypeOK /\ pc[a] \in {"lock", "drain"} /\ Busy(a) /\ ch[a] \in Chan
      /\ lock[ch[a]] \in {None, a}
  BY CallPlace DEF DrainWriter, PopFromWriter, Enters, Holding
<1>2. PICK k \in Chan : k = ch[a]
  BY <1>1
<1>3. PICK x : x = Head(w[k])
  OBVIOUS
<1>4. /\ HoldAt(a, "wake") /\ w[k] # <<>>
      /\ w' = [w EXCEPT ![k] = Tail(@)] /\ tgt' = [tgt EXCEPT ![a] = x]
      /\ UNCHANGED <<r, op, ch, left, status>>
  BY <1>2, <1>3 DEF DrainWriter, PopFromWriter, rtvars
<1>5. CallStep(a) /\ pc'[a] = "wake"
  <2>1. \A b \in Actor \ {a} : tgt'[b] = tgt[b]
    BY <1>1, <1>4 DEF TypeOK, CallTypeOK
  <2> QED
    BY <1>1, <1>4, <2>1, HoldStep DEF Holding
<1>6. /\ w[k] \in Seq(Waiter) /\ w'[k] = Tail(w[k]) /\ OnceIn(w[k])
      /\ \A j \in Chan \ {k} : w'[j] = w[j]
  BY <1>1, <1>4 DEF TypeOK, ChannelTypeOK, SelectInv, Orderly, ListedOnce
<1>7. /\ x \in Waiter /\ OnceIn(w'[k]) /\ x.co \notin Cos(w'[k])
      /\ \A kind : Those(w'[k], kind) \subseteq Those(w[k], kind)
      /\ x.co # None => x.co \in Those(w[k], x.kind)
  BY <1>3, <1>4, <1>6, CosTail, ThoseTail
<1>8. Shorter
  BY <1>4, <1>6, <1>7 DEF Shorter, SelectInv, Orderly, ListedOnce
<1>9. WakesAtMost(a)
  BY <1>4 DEF WakesAtMost
<1>10. tgt'[a] = x /\ ch'[a] = k
  BY <1>1, <1>2, <1>4 DEF TypeOK, CallTypeOK
<1>11. CASE x.co # None
  <2>1. PICK c : c = x.co
    OBVIOUS
  <2>2. /\ c \in Actor \ {a}
        /\ x.kind = "plain" => Sleeps(c, k) /\ status[c] = "WAITING" /\ c \notin Cos(r[k])
        /\ x.kind # "plain" => sel[c] \in {"parked", "relock"} /\ k \in ChannelsOf(c)
    BY <1>1, <1>2, <1>7, <1>11, <2>1, TakenTarget
  <2>3. /\ Sleeps(c, k) => Sleeps(c, k)'
        /\ sel'[c] = sel[c] /\ ChannelsOf(c)' = ChannelsOf(c)
    BY <1>5, <2>2 DEF CallStep, Sleeps, Along, ChannelsOf, Indices
  <2>4. Target_OK(a)'
    <3>1. CASE x.kind = "plain"
      <4>1. Sleeps(c, k)' /\ c \notin Cos(w'[k]) \cup Cos(r'[k]) /\ status'[c] = "WAITING"
        BY <1>4, <1>7, <2>1, <2>2, <2>3, <3>1
      <4> QED
        BY <1>5, <1>10, <2>1, <3>1, <4>1 DEF Target_OK, Sleeps
    <3>2. CASE x.kind # "plain"
      BY <1>10, <2>1, <2>2, <2>3, <3>2 DEF Target_OK, ChannelsOf, Indices
    <3> QED
      BY <3>1, <3>2
  <2> QED
    BY <1>5, <1>8, <1>9, <2>4, CallMoves
<1>12. CASE x.co = None
  <2>1. Target_OK(a)'
    BY <1>10, <1>12 DEF Target_OK
  <2> QED
    BY <1>5, <1>8, <1>9, <2>1, CallMoves
<1> QED
  BY <1>11, <1>12

LEMMA TakeReaderMoves ==
    ASSUME SelectInv, SelectTypeOK', NEW a \in Actor, Along(a),
           DrainReader(a) \/ PushToReader(a)
    PROVE  Orderly'
<1>1. /\ TypeOK /\ pc[a] \in {"lock", "drain"} /\ Busy(a) /\ ch[a] \in Chan
      /\ lock[ch[a]] \in {None, a}
  BY CallPlace DEF DrainReader, PushToReader, Enters, Holding
<1>2. PICK k \in Chan : k = ch[a]
  BY <1>1
<1>3. PICK x : x = Head(r[k])
  OBVIOUS
<1>4. /\ HoldAt(a, "wake") /\ r[k] # <<>>
      /\ r' = [r EXCEPT ![k] = Tail(@)] /\ tgt' = [tgt EXCEPT ![a] = x]
      /\ UNCHANGED <<w, op, ch, left, status>>
  BY <1>2, <1>3 DEF DrainReader, PushToReader, rtvars
<1>5. CallStep(a) /\ pc'[a] = "wake"
  <2>1. \A b \in Actor \ {a} : tgt'[b] = tgt[b]
    BY <1>1, <1>4 DEF TypeOK, CallTypeOK
  <2> QED
    BY <1>1, <1>4, <2>1, HoldStep DEF Holding
<1>6. /\ r[k] \in Seq(Waiter) /\ r'[k] = Tail(r[k]) /\ OnceIn(r[k])
      /\ \A j \in Chan \ {k} : r'[j] = r[j]
  BY <1>1, <1>4 DEF TypeOK, ChannelTypeOK, SelectInv, Orderly, ListedOnce
<1>7. /\ x \in Waiter /\ OnceIn(r'[k]) /\ x.co \notin Cos(r'[k])
      /\ \A kind : Those(r'[k], kind) \subseteq Those(r[k], kind)
      /\ x.co # None => x.co \in Those(r[k], x.kind)
  BY <1>3, <1>4, <1>6, CosTail, ThoseTail
<1>8. Shorter
  BY <1>4, <1>6, <1>7 DEF Shorter, SelectInv, Orderly, ListedOnce
<1>9. WakesAtMost(a)
  BY <1>4 DEF WakesAtMost
<1>10. tgt'[a] = x /\ ch'[a] = k
  BY <1>1, <1>2, <1>4 DEF TypeOK, CallTypeOK
<1>11. CASE x.co # None
  <2>1. PICK c : c = x.co
    OBVIOUS
  <2>2. /\ c \in Actor \ {a}
        /\ x.kind = "plain" => Sleeps(c, k) /\ status[c] = "WAITING" /\ c \notin Cos(w[k])
        /\ x.kind # "plain" => sel[c] \in {"parked", "relock"} /\ k \in ChannelsOf(c)
    BY <1>1, <1>2, <1>7, <1>11, <2>1, TakenTarget
  <2>3. /\ Sleeps(c, k) => Sleeps(c, k)'
        /\ sel'[c] = sel[c] /\ ChannelsOf(c)' = ChannelsOf(c)
    BY <1>5, <2>2 DEF CallStep, Sleeps, Along, ChannelsOf, Indices
  <2>4. Target_OK(a)'
    <3>1. CASE x.kind = "plain"
      <4>1. Sleeps(c, k)' /\ c \notin Cos(w'[k]) \cup Cos(r'[k]) /\ status'[c] = "WAITING"
        BY <1>4, <1>7, <2>1, <2>2, <2>3, <3>1
      <4> QED
        BY <1>5, <1>10, <2>1, <3>1, <4>1 DEF Target_OK, Sleeps
    <3>2. CASE x.kind # "plain"
      BY <1>10, <2>1, <2>2, <2>3, <3>2 DEF Target_OK, ChannelsOf, Indices
    <3> QED
      BY <3>1, <3>2
  <2> QED
    BY <1>5, <1>8, <1>9, <2>4, CallMoves
<1>12. CASE x.co = None
  <2>1. Target_OK(a)'
    BY <1>10, <1>12 DEF Target_OK
  <2> QED
    BY <1>5, <1>8, <1>9, <2>1, CallMoves
<1> QED
  BY <1>11, <1>12

(* Every step of a call, whoever makes it.                                 *)
LEMMA ActorInOrder ==
    ASSUME SelectInv, SelectTypeOK', NEW a \in Actor, Along(a), ActorStep(a)
    PROVE  Orderly'
<1> USE DEF rtvars, chvars, acvars
<1>1. CASE EnterClosed(a) \/ PushToQueue(a) \/ PopFromQueue(a) \/ GiveUp(a) \/ Drained(a)
  <2>1. pc[a] \in {"lock"} \cup Holding /\ UNCHANGED <<w, r, left, status>>
    BY <1>1 DEF EnterClosed, PushToQueue, PopFromQueue, GiveUp, Drained, Enters, Holding
  <2>2. \E acc, rec : Return(a, acc, rec)
    BY <1>1 DEF EnterClosed, PushToQueue, PopFromQueue, GiveUp, Drained
  <2>3. CallStep(a) /\ pc'[a] = "user"
    BY <2>1, <2>2, CallPlace, ReturnStep
  <2> QED
    BY <2>1, <2>3, ListsStay, PlainMoves
<1>2. CASE EnterRefused(a) \/ Close(a)
  <2>1. PICK place \in {"refused", "drain"} :
            /\ HoldAt(a, place) /\ pc[a] \in {"lock"} \cup Holding
            /\ lock[ch[a]] = None /\ UNCHANGED <<w, r, left, status, op, ch, tgt>>
    BY <1>2 DEF EnterRefused, Close, Enters
  <2>2. CallStep(a) /\ pc'[a] = place
    BY <2>1, CallPlace, HoldStep DEF Holding
  <2> QED
    BY <2>1, <2>2, ListsStay, PlainMoves
<1>3. CASE WakeNobody(a) \/ \E malloc \in Mallocs : Join(a, malloc)
  <2>1. /\ Served(a) /\ pc[a] \in {"wake", "join"} /\ UNCHANGED <<w, r, left, status>>
    BY <1>3 DEF WakeNobody, Join
  <2> QED
    BY <2>1, ServedStep, ListsStay, PlainMoves
<1> QED
  BY <1>1, <1>2, <1>3, WakeInOrder, LeaveElementMoves, TakeWriterMoves, TakeReaderMoves
     DEF ActorStep

-----------------------------------------------------------------------------
(* Steps outside select and outside the mutexes.                           *)
LEMMA OutsideOwn ==
    ASSUME SelectInv, NEW a \in Actor, Outside(a),
           pc'[a] \notin Holding
    PROVE  /\ Own_OK(a)'
           /\ \A b \in Actor \ {a} : /\ sel'[b] = sel[b] /\ cases'[b] = cases[b]
                                     /\ blocked'[b] = blocked[b] /\ at'[b] = at[b]
<1>1. sel'[a] = "none" /\ UNCHANGED selvars
  BY DEF Outside, selvars
<1>2. Place_OK(a)' /\ Target_OK(a)'
  BY <1>1 DEF Place_OK, Target_OK, Holding
<1>3. Mutexes_OK(a)'
  BY <1>1 DEF Mutexes_OK, Taken
<1> QED
  BY <1>1, <1>2, <1>3 DEF Own_OK, selvars

LEMMA CallInOrder ==
    ASSUME SelectInv, SelectTypeOK', NEW a \in Actor, NEW o \in Op, NEW c \in Chan,
           Call(a, o, c), Outside(a)
    PROVE  Orderly'
<1>1. TypeOK /\ Busy(a)
  BY DEF SelectInv, SelectTypeOK, Call, Outside, Busy
<1>2. /\ pc'[a] \in {"user", "lock"} /\ UNCHANGED <<lock, w, r, status>>
      /\ \A b \in Actor \ {a} : /\ pc'[b] = pc[b] /\ op'[b] = op[b] /\ ch'[b] = ch[b]
                                /\ tgt'[b] = tgt[b] /\ left'[b] = left[b]
  BY <1>1 DEF Call, Begin, TypeOK, CallTypeOK, chvars, acvars, rtvars
<1>3. Own_OK(a)' /\ \A b \in Actor \ {a} : Stays(b)
  BY <1>2, OutsideOwn DEF Stays, Holding
<1>4. WakesAtMost(a)
  BY <1>2 DEF WakesAtMost
<1> QED
  BY <1>1, <1>2, <1>3, <1>4, ListsStay, BusyMoves

(* A coroutine in its own code starts, yields or ends.                     *)
LEMMA CodeInOrder ==
    ASSUME SelectInv, SelectTypeOK', NEW a \in Co,
           Spawn(a) \/ Yield(a) \/ Terminate(a), Outside(a)
    PROVE  Orderly'
<1>1. a \in Actor /\ TypeOK /\ Busy(a)
  BY DEF SelectInv, SelectTypeOK, Spawn, Yield, Terminate, Outside, Busy, Actor
<1>2. /\ pc'[a] \in {"user", "dead"}
      /\ UNCHANGED <<lock, w, r, op, ch, tgt, left>>
      /\ \A b \in Actor \ {a} : pc'[b] = pc[b]
  BY <1>1 DEF Spawn, Yield, Terminate, TypeOK, CallTypeOK, chvars, acvars
<1>3. Own_OK(a)' /\ \A b \in Actor \ {a} : Stays(b)
  BY <1>1, <1>2, OutsideOwn DEF Stays, Holding
<1>4. status' = status \/ (cur = a /\ \A c \in Co \ {a} : status'[c] = status[c])
  BY <1>1, ChannelAssumption
     DEF Spawn, Yield, Terminate, Executes, SwapOut, TypeOK, RuntimeTypeOK
<1>5. WakesAtMost(a)
  BY <1>1, <1>4 DEF WakesAtMost, Busy
<1> QED
  BY <1>1, <1>2, <1>3, <1>5, ListsStay, BusyMoves

(* A coroutine blocks: it was in no list, and comes into one at most.      *)
LEMMA BlockInOrder ==
    ASSUME SelectInv, SelectTypeOK', NEW a \in Co, NEW malloc \in Mallocs,
           Block(a, malloc), Outside(a)
    PROVE  Orderly'
<1>1. a \in Actor /\ TypeOK /\ pc[a] = "refused" /\ op[a] \in {"push", "pop"}
  BY DEF Actor, SelectInv, SelectTypeOK, Block
<1>2. Busy(a) /\ ch[a] \in Chan /\ lock[ch[a]] = a
  BY <1>1, CallPlace DEF Holding
<1>3. PICK k \in Chan : k = ch[a]
  BY <1>2
<1>4. PICK x : x = [co |-> a, ele |-> ele[a], kind |-> "plain"]
  OBVIOUS
<1>5. x \in Waiter /\ x.co = a /\ x.kind = "plain" /\ a # None
  BY <1>1, <1>4, NoneNotOp DEF Waiter, TypeOK, CallTypeOK
<1>6. /\ w' = IF op[a] = "push" /\ malloc = "ok" THEN [w EXCEPT ![k] = <<x>> \o @] ELSE w
      /\ r' = IF op[a] = "pop" /\ malloc = "ok" THEN [r EXCEPT ![k] = <<x>> \o @] ELSE r
      /\ status' = [status EXCEPT ![a] = "WAITING"]
      /\ lock' = [lock EXCEPT ![k] = None]
      /\ pc' = [pc EXCEPT ![a] = "parked"]
      /\ UNCHANGED <<op, ch, tgt, left>>
  BY <1>3, <1>4 DEF Block, acvars
<1>7. /\ Own_OK(a)' /\ \A b \in Actor \ {a} : Stays(b)
      /\ pc'[a] = "parked" /\ status'[a] = "WAITING"
  BY <1>1, <1>6, OutsideOwn DEF Stays, Holding, TypeOK, CallTypeOK, RuntimeTypeOK
<1>8. \A j \in Chan : lock'[j] = lock[j] \/ lock[j] \in {None, a}
  BY <1>2, <1>3, <1>6 DEF TypeOK, CallTypeOK
<1>9. WakesAtMost(a)
  BY <1>6 DEF WakesAtMost, TypeOK, RuntimeTypeOK
<1>10. \A j \in Chan : /\ w[j] \in Seq(Waiter) /\ r[j] \in Seq(Waiter)
                       /\ OnceIn(w[j]) /\ OnceIn(r[j])
  BY <1>1 DEF TypeOK, ChannelTypeOK, SelectInv, Orderly, ListedOnce
<1>11. \A j \in Chan : /\ a \notin Cos(w[j]) \cup Cos(r[j])
                       /\ \A kind : a \notin Those(w[j], kind) \cup Those(r[j], kind)
  BY <1>1, <1>2, BusyInNoList
<1>12. ASSUME NEW s \in Seq(Waiter), OnceIn(s), a \notin Cos(s)
       PROVE  /\ \A kind : Those(<<x>> \o s, kind) \subseteq
                              Those(s, kind) \cup (IF kind = "plain" THEN {a} ELSE {})
              /\ OnceIn(<<x>> \o s)
  BY <1>5, <1>12, ThosePush, CosPush
<1>13. ASSUME NEW j \in Chan
       PROVE  /\ OnceIn(w'[j]) /\ OnceIn(r'[j])
              /\ \A kind : /\ Those(w'[j], kind) \subseteq Those(w[j], kind) \cup
                                 (IF kind = "plain" /\ j = k /\ op[a] = "push" THEN {a} ELSE {})
                           /\ Those(r'[j], kind) \subseteq Those(r[j], kind) \cup
                                 (IF kind = "plain" /\ j = k /\ op[a] = "pop" THEN {a} ELSE {})
  <2>1. /\ w'[j] = w[j] \/ (w'[j] = <<x>> \o w[j] /\ j = k /\ op[a] = "push")
        /\ r'[j] = r[j] \/ (r'[j] = <<x>> \o r[j] /\ j = k /\ op[a] = "pop")
    BY <1>1, <1>6 DEF TypeOK, ChannelTypeOK
  <2>2. /\ OnceIn(w'[j])
        /\ \A kind : Those(w'[j], kind) \subseteq Those(w[j], kind) \cup
                         (IF kind = "plain" /\ j = k /\ op[a] = "push" THEN {a} ELSE {})
    <3>1. CASE w'[j] = w[j]
      BY <1>10, <3>1
    <3>2. CASE w'[j] = <<x>> \o w[j] /\ j = k /\ op[a] = "push"
      <4>1. /\ \A kind : Those(<<x>> \o w[j], kind) \subseteq
                            Those(w[j], kind) \cup (IF kind = "plain" THEN {a} ELSE {})
            /\ OnceIn(<<x>> \o w[j])
        BY <1>10, <1>11, <1>12
      <4> QED
        BY <3>2, <4>1
    <3> QED
      BY <2>1, <3>1, <3>2
  <2>3. /\ OnceIn(r'[j])
        /\ \A kind : Those(r'[j], kind) \subseteq Those(r[j], kind) \cup
                         (IF kind = "plain" /\ j = k /\ op[a] = "pop" THEN {a} ELSE {})
    <3>1. CASE r'[j] = r[j]
      BY <1>10, <3>1
    <3>2. CASE r'[j] = <<x>> \o r[j] /\ j = k /\ op[a] = "pop"
      <4>1. /\ \A kind : Those(<<x>> \o r[j], kind) \subseteq
                            Those(r[j], kind) \cup (IF kind = "plain" THEN {a} ELSE {})
            /\ OnceIn(<<x>> \o r[j])
        BY <1>10, <1>11, <1>12
      <4> QED
        BY <3>2, <4>1
    <3> QED
      BY <2>1, <3>1, <3>2
  <2> QED
    BY <2>2, <2>3
<1>14. ListedOnce'
  BY <1>13 DEF ListedOnce
<1>15. ListsOf(a)
  <2>1. /\ w' \in [Chan -> Seq(Waiter)] /\ r' \in [Chan -> Seq(Waiter)]
        /\ w \in [Chan -> Seq(Waiter)] /\ r \in [Chan -> Seq(Waiter)]
    BY DEF SelectInv, SelectTypeOK, TypeOK, ChannelTypeOK
  <2> QED
    BY <1>13, <2>1 DEF ListsOf
<1>16. Waiter_OK(a)'
  <2>1. \A type : op[a] = type => Waits(a, k, type)'
    BY <1>1, <1>3, <1>6, <1>7 DEF Waits, Sleeps
  <2>2. ASSUME NEW j \in Chan
        PROVE  /\ a \in Those(w'[j], "plain") => j = k /\ op[a] = "push"
               /\ a \in Those(r'[j], "plain") => j = k /\ op[a] = "pop"
               /\ a \notin Those(w'[j], "select") \cup Those(r'[j], "select")
    BY <1>11, <1>13
  <2> QED
    BY <2>1, <2>2 DEF Waiter_OK
<1>17. AwaitsWaker(a)
  BY <1>1, <1>2 DEF AwaitsWaker, Busy
<1>18. CallsOK /\ Orderly /\ ch[a] \in Chan \cup {None} /\ \A b \in Actor : cases[b] \in Seq(Case)
  BY <1>1 DEF SelectInv, SelectTypeOK, TypeOK, CallTypeOK
<1> QED
  BY <1>1, <1>7, <1>8, <1>9, <1>14, <1>15, <1>16, <1>17, <1>18, ActorMoves

(* A blocked coroutine leaves the thread: it is listed where it was.       *)
LEMMA ParkInOrder ==
    ASSUME SelectInv, SelectTypeOK', NEW a \in Co, Park(a), Outside(a)
    PROVE  Orderly'
<1>1. a \in Actor /\ TypeOK /\ pc[a] = "parked" /\ cur = a
  BY ChannelAssumption DEF Actor, SelectInv, SelectTypeOK, Park, Executes
<1>2. /\ pc' = [pc EXCEPT ![a] = "asleep"]
      /\ status' = [status EXCEPT ![a] = IF status[a] = "RUNNING" THEN "READY" ELSE status[a]]
      /\ UNCHANGED <<op, ch, tgt, left, w, r, lock>>
  BY <1>1 DEF Park, SwapOut, chvars, acvars
<1>3. /\ Own_OK(a)' /\ \A b \in Actor \ {a} : Stays(b)
      /\ pc'[a] = "asleep" /\ status[a] = "WAITING" => status'[a] = "WAITING"
  BY <1>1, <1>2, OutsideOwn DEF Stays, Holding, TypeOK, CallTypeOK, RuntimeTypeOK
<1>4. WakesAtMost(a)
  BY <1>1, <1>2 DEF WakesAtMost, TypeOK, RuntimeTypeOK
<1>5. pc'[a] = "asleep"
  BY <1>1, <1>2 DEF TypeOK, CallTypeOK
<1>6. Shorter
  BY <1>2, ListsStay
<1>7. ListedOnce' /\ ListsOf(a)
  BY <1>6 DEF ListedOnce, ListsOf, Shorter, SelectInv, SelectTypeOK, TypeOK, ChannelTypeOK
<1>8. Waiter_OK(a)'
  <2>1. Waiter_OK(a) /\ sel'[a] = sel[a] /\ cases'[a] = cases[a]
    BY DEF SelectInv, Orderly, Outside, selvars
  <2>2. \A k \in Chan : \A type : Waits(a, k, type) => Waits(a, k, type)'
    BY <1>2, <1>3, <1>5 DEF Waits, Sleeps
  <2>3. \A k \in Chan : \A type : Selects(a, k, type) => Selects(a, k, type)'
    BY <2>1 DEF Selects, In, Indices
  <2> QED
    BY <1>2, <2>1, <2>2, <2>3 DEF Waiter_OK
<1>9. AwaitsWaker(a)
  BY <1>2, <1>3, <1>5 DEF AwaitsWaker, Outside
<1>10. CallsOK /\ Orderly /\ ch[a] \in Chan \cup {None} /\ \A b \in Actor : cases[b] \in Seq(Case)
  BY <1>1 DEF SelectInv, SelectTypeOK, TypeOK, CallTypeOK
<1> QED
  BY <1>1, <1>2, <1>3, <1>4, <1>7, <1>8, <1>9, <1>10, ActorMoves

(* A coroutine that runs again is in no list, and no waker holds the mutex.*)
LEMMA RelockInOrder ==
    ASSUME SelectInv, SelectTypeOK', NEW a \in Co, Relock(a), Outside(a)
    PROVE  Orderly'
<1>1. /\ a \in Actor /\ TypeOK /\ pc[a] = "asleep" /\ cur = a /\ loop = "run"
      /\ ch[a] \in Chan /\ lock[ch[a]] = None /\ sel[a] = "none"
  BY ChannelAssumption
     DEF Actor, SelectInv, SelectTypeOK, Relock, Executes, CallsOK, Call_OK, Outside
<1>2. status[a] = "RUNNING"
  BY <1>1 DEF SelectInv, SelectorRuns
<1>3. PICK acc, rec : Return(a, acc, rec)
  BY DEF Relock
<1>4. UNCHANGED <<w, r, left, status>>
  BY DEF Relock, chvars, rtvars
<1>5. /\ pc'[a] = "user" /\ Own_OK(a)' /\ \A b \in Actor \ {a} : Stays(b)
  BY <1>1, <1>3, <1>4, OutsideOwn DEF Return, Stays, Holding, TypeOK, CallTypeOK
<1>6. \A k \in Chan : lock'[k] = lock[k] \/ lock[k] \in {None, a}
  BY <1>1, <1>3 DEF Return, TypeOK, CallTypeOK
<1>7. ListedOnce' /\ ListsOf(a)
  BY <1>4, ListsStay
     DEF ListedOnce, ListsOf, Shorter, SelectInv, SelectTypeOK, TypeOK, ChannelTypeOK
<1>8. Waiter_OK(a)'
  <2>1. Waiter_OK(a)
    BY DEF SelectInv, Orderly
  <2>2. \A k \in Chan, kind \in {"plain", "select"} :
            a \notin Those(w[k], kind) \cup Those(r[k], kind)
    BY <1>1, <1>2, <2>1 DEF Waiter_OK, Waits, Selects
  <2> QED
    BY <1>4, <2>2 DEF Waiter_OK
<1>9. WakesAtMost(a) /\ AwaitsWaker(a)
  BY <1>1, <1>4 DEF WakesAtMost, AwaitsWaker
<1>10. CallsOK /\ Orderly /\ ch[a] \in Chan \cup {None} /\ \A b \in Actor : cases[b] \in Seq(Case)
  BY <1>1 DEF SelectInv, SelectTypeOK, TypeOK, CallTypeOK
<1> QED
  BY <1>1, <1>5, <1>6, <1>7, <1>8, <1>9, <1>10, ActorMoves

(* The loop's own steps make nobody WAITING anything else.                 *)
LEMMA LoopInOrder ==
    ASSUME SelectInv, UNCHANGED <<pc, op, ch, tgt, left, lock, w, r, selvars>>,
           \A c \in Co : status[c] = "WAITING" => status'[c] = "WAITING"
    PROVE  Orderly'
<1> USE DEF selvars
<1>1. ASSUME NEW b \in Actor PROVE Place_OK(b)' /\ Mutexes_OK(b)'
  BY DEF SelectInv, Orderly, Own_OK, Place_OK, Mutexes_OK, Taken, Indices
<1>2. ASSUME NEW b \in Actor PROVE Target_OK(b)'
  <2>1. Target_OK(b)
    BY DEF SelectInv, Orderly, Own_OK
  <2> QED
    BY <2>1 DEF Target_OK, Sleeps, ChannelsOf, Indices
<1>3. ASSUME NEW c \in Co PROVE Waiter_OK(c)'
  <2>1. Waiter_OK(c)
    BY DEF SelectInv, Orderly
  <2>2. \A k \in Chan : \A type : /\ Waits(c, k, type) => Waits(c, k, type)'
                                  /\ Selects(c, k, type) => Selects(c, k, type)'
    BY DEF Waits, Sleeps, Selects, In, Indices
  <2> QED
    BY <2>1, <2>2 DEF Waiter_OK
<1>4. ListedOnce'
  BY DEF SelectInv, Orderly, ListedOnce
<1> QED
  BY <1>1, <1>2, <1>3, <1>4 DEF Orderly, Own_OK

-----------------------------------------------------------------------------
(* The steps of select itself: the actor is in its own code, and in the    *)
(* lists only from its registration to its deregistration.                 *)
LEMMA LeastOf ==
    ASSUME NEW S \in SUBSET Nat, S # {}
    PROVE  \E i \in S : \A j \in S : i <= j
<1>1. PICK R : R = OpToRel(<, Nat)
  BY Zenon
<1>2. IsWellFoundedOn(R, Nat)
  BY <1>1, NatLessThanWellFounded, Zenon
<1>3. \A j, i \in Nat : j < i => <<j, i>> \in R
  BY <1>1, Zenon DEF OpToRel
<1> HIDE <1>1
<1>4. PICK i \in S : \A j \in S : ~(<<j, i>> \in R)
  BY <1>2, WFMin, Zenon
<1>5. \A j \in S : ~(j < i)
  BY <1>3, <1>4
<1> QED
  BY <1>5

LEMMA SelectPlace ==
    ASSUME SelectInv, NEW a \in Actor, sel[a] \notin {"none", "try"}
    PROVE  /\ pc[a] = "user" /\ Place_OK(a) /\ Mutexes_OK(a) /\ TypeOK
           /\ left[a] + 1 \in 1..Budget
           /\ Len(cases[a]) \in Nat /\ at[a] \in Nat
           /\ \A i \in Indices(a) : cases[a][i] \in Case /\ cases[a][i].on \in Chan
           /\ cases \in [Actor -> Seq(Case)] /\ at \in [Actor -> Nat]
           /\ sel \in [Actor -> SelPc] /\ blocked \in [Actor -> BOOLEAN]
<1>1. Place_OK(a) /\ Mutexes_OK(a) /\ SelectTypeOK
  BY DEF SelectInv, Orderly, Own_OK
<1> QED
  BY <1>1, ChansOfCases DEF Place_OK, SelectTypeOK

(* The mutexes of the cases go from a to nobody, or stay.                  *)
LEMMA ReleaseMoves ==
    ASSUME SelectInv, NEW a \in Actor, sel[a] = "decide", ReleaseAll(a)
    PROVE  \A k \in Chan : lock'[k] = lock[k] \/ lock[k] \in {None, a}
<1>1. Mutexes_OK(a)
  BY DEF SelectInv, Orderly, Own_OK
<1>2. \A k \in ChannelsOf(a) : lock[k] = a
  BY <1>1 DEF ChannelsOf, Mutexes_OK, Taken
<1> QED
  BY <1>2 DEF ReleaseAll

LEMMA SelectBegins ==
    ASSUME SelectInv, SelectTypeOK', NEW a \in Actor, NEW cs, NEW b \in BOOLEAN,
           Select(a, cs, b)
    PROVE  Orderly'
<1>1. /\ SelectTypeOK /\ TypeOK /\ Busy(a) /\ pc'[a] = "user" /\ left[a] \in 1..Budget
      /\ UNCHANGED <<pc, op, ch, tgt, lock, w, r, status>>
  BY ChannelAssumption
     DEF SelectInv, SelectTypeOK, Select, Busy, TypeOK, CallTypeOK, rtvars, chvars, acvars
<1>2. /\ left'[a] + 1 \in 1..Budget /\ sel'[a] = "lock" /\ at'[a] = 1
      /\ blocked'[a] = b /\ (b => a \in Co)
      /\ \A d \in Actor \ {a} : Stays(d)
  BY <1>1, ChannelAssumption DEF Select, Stays, SelectTypeOK, TypeOK, CallTypeOK
<1>3. Own_OK(a)'
  <2>1. Place_OK(a)' /\ Target_OK(a)'
    BY <1>1, <1>2 DEF Place_OK, Target_OK
  <2>2. Mutexes_OK(a)'
    BY <1>1, <1>2 DEF Mutexes_OK, Taken, Indices, Holding
  <2> QED
    BY <2>1, <2>2 DEF Own_OK
<1>4. WakesAtMost(a)
  BY <1>1 DEF WakesAtMost
<1> QED
  BY <1>1, <1>2, <1>3, <1>4, ListsStay, BusyMoves

(* One mutex more is taken, the last one leads on.                         *)
LEMMA SelectLocks ==
    ASSUME SelectInv, SelectTypeOK', NEW a \in Actor, SelectLock(a)
    PROVE  Orderly'
<1>1. /\ pc[a] = "user" /\ Place_OK(a) /\ Mutexes_OK(a) /\ TypeOK
      /\ sel[a] \in {"lock", "relock"} /\ at[a] \in Indices(a)
      /\ Len(cases[a]) \in Nat /\ at[a] \in Nat
      /\ sel \in [Actor -> SelPc] /\ at \in [Actor -> Nat]
      /\ cases[a][at[a]].on \in Chan
  BY SelectPlace DEF SelectLock
<1>2. PICK k \in Chan : k = cases[a][at[a]].on
  BY <1>1
<1>3. /\ lock[k] = None /\ lock' = [lock EXCEPT ![k] = a]
      /\ UNCHANGED <<pc, op, ch, tgt, left, cases, blocked, w, r, status>>
  BY <1>2 DEF SelectLock, rtvars, chvars, acvars
<1>4. /\ at'[a] = at[a] + 1
      /\ sel'[a] = IF at[a] < Len(cases[a]) THEN sel[a]
                   ELSE IF sel[a] = "lock" THEN "decide" ELSE "dereg"
      /\ \A b \in Actor \ {a} : Stays(b)
  BY <1>1, <1>3 DEF SelectLock, Stays
<1>5. \A j \in Chan : lock'[j] = lock[j] \/ lock[j] \in {None, a}
  BY <1>1, <1>3 DEF TypeOK, CallTypeOK
<1>6. Mutexes_OK(a)'
  <2>1. ASSUME NEW i \in Indices(a), Taken(a, i)'
        PROVE  i < at[a] \/ i = at[a]
    BY <1>1, <1>4, <2>1 DEF Taken, Indices
  <2>2. ASSUME NEW i \in Indices(a), i < at[a] PROVE lock[cases[a][i].on] = a
    BY <1>1, <2>2 DEF Mutexes_OK, Taken
  <2>3. ASSUME NEW i \in Indices(a), Taken(a, i)' PROVE lock'[cases[a][i].on] = a
    <3>1. cases[a][i].on \in Chan
      BY ChansOfCases DEF SelectInv
    <3>2. CASE i < at[a]
      BY <1>1, <1>2, <1>3, <2>2, <3>1, <3>2, NoneNotOp DEF TypeOK, CallTypeOK
    <3>3. CASE i = at[a]
      BY <1>1, <1>2, <1>3, <3>1, <3>3 DEF TypeOK, CallTypeOK
    <3> QED
      BY <2>1, <2>3, <3>2, <3>3
  <2> QED
    BY <1>1, <1>3, <2>3 DEF Mutexes_OK, Holding, Indices
<1>7. Own_OK(a)'
  <2>1. Place_OK(a)'
    BY <1>1, <1>3, <1>4 DEF Place_OK
  <2>2. Target_OK(a)'
    BY <1>1, <1>3 DEF Target_OK
  <2> QED
    BY <1>6, <2>1, <2>2 DEF Own_OK
<1>8. WakesAtMost(a) /\ AwaitsWaker(a)
  BY <1>1, <1>3, <1>4 DEF WakesAtMost, AwaitsWaker
<1>9. ListedOnce' /\ ListsOf(a)
  BY <1>3, ListsStay
     DEF ListedOnce, ListsOf, Shorter, SelectInv, SelectTypeOK, TypeOK, ChannelTypeOK
<1>10. a \in Co => Waiter_OK(a)'
  <2> SUFFICES ASSUME a \in Co PROVE Waiter_OK(a)'
    OBVIOUS
  <2>1. Waiter_OK(a)
    BY DEF SelectInv, Orderly
  <2>2. \A j \in Chan : \A type : /\ ~Waits(a, j, type)
                                  /\ Selects(a, j, type) => Selects(a, j, type)'
    BY <1>1, <1>3, <1>4 DEF Waits, Sleeps, Selects, In, Indices
  <2> QED
    BY <1>3, <2>1, <2>2 DEF Waiter_OK
<1>11. CallsOK /\ Orderly /\ ch[a] \in Chan \cup {None} /\ \A b \in Actor : cases[b] \in Seq(Case)
  BY <1>1 DEF SelectInv, SelectTypeOK, TypeOK, CallTypeOK
<1> QED
  BY <1>4, <1>5, <1>7, <1>8, <1>9, <1>10, <1>11, ActorMoves

(* A case is chosen, or none: the mutexes go.                              *)
LEMMA SelectDecides ==
    ASSUME SelectInv, SelectTypeOK', NEW a \in Actor, Choose(a) \/ SelectNone(a)
    PROVE  Orderly'
<1>1. /\ pc[a] = "user" /\ Place_OK(a) /\ sel[a] = "decide" /\ TypeOK /\ Busy(a)
      /\ sel \in [Actor -> SelPc] /\ at \in [Actor -> Nat]
      /\ Len(cases[a]) \in Nat /\ ReleaseAll(a)
      /\ UNCHANGED <<pc, op, ch, tgt, left, cases, blocked, w, r, status>>
  BY SelectPlace DEF Choose, SelectNone, Busy, rtvars, chvars, acvars
<1>2. \A b \in Actor \ {a} : Stays(b)
  BY <1>1 DEF Choose, SelectNone, Stays
<1>3. \/ sel'[a] = "chosen" /\ at'[a] \in Indices(a)
      \/ sel'[a] = "none"
  <2>1. CASE Choose(a)
    <3>1. Ready(a) \in SUBSET Nat /\ Ready(a) # {} /\ Ready(a) \subseteq Indices(a)
      BY <2>1 DEF Choose, Ready, Indices
    <3>2. \E i \in Ready(a) : \A j \in Ready(a) : i <= j
      BY <3>1, LeastOf
    <3>3. (CHOOSE i \in Ready(a) : \A j \in Ready(a) : i <= j) \in Ready(a)
      BY <3>2, Zenon
    <3> QED
      BY <1>1, <2>1, <3>1, <3>3 DEF Choose
  <2>2. CASE SelectNone(a)
    BY <1>1, <2>2 DEF SelectNone
  <2> QED
    BY <2>1, <2>2
<1>4. Own_OK(a)'
  <2>1. Place_OK(a)'
    BY <1>1, <1>3 DEF Place_OK, Indices
  <2>2. Mutexes_OK(a)' /\ Target_OK(a)'
    BY <1>1, <1>3 DEF Mutexes_OK, Taken, Target_OK, Holding
  <2> QED
    BY <2>1, <2>2 DEF Own_OK
<1>5. WakesAtMost(a)
  BY <1>1 DEF WakesAtMost
<1> QED
  BY <1>1, <1>2, <1>4, <1>5, ReleaseMoves, ListsStay, BusyMoves

(* A waiter of the select comes first in the list of every case it is made *)
(* for; the actor was in no list.                                          *)
LEMMA WithWaiterLists ==
    ASSUME SelectInv, NEW a \in Co, Busy(a), left[a] + 1 \in 1..Budget,
           NEW type, NEW list \in {w, r}, NEW made \in SUBSET Indices(a), NEW k \in Chan
    PROVE  /\ OnceIn(WithWaiter(a, type, list, made)[k])
           /\ \A kind : Those(WithWaiter(a, type, list, made)[k], kind) \subseteq
                            Those(list[k], kind)
                            \cup (IF kind = "select" /\ In(a, type, k) THEN {a} ELSE {})
<1>1. a \in Actor /\ a # None
  BY NoneNotOp DEF Actor
<1>2. /\ list[k] \in Seq(Waiter) /\ OnceIn(list[k]) /\ a \notin Cos(list[k])
  BY <1>1, BusyInNoList
     DEF SelectInv, SelectTypeOK, TypeOK, ChannelTypeOK, Orderly, ListedOnce
<1>3. PICK x : x = [co |-> a, kind |-> "select",
                    ele |-> IF type = "push"
                            THEN [by |-> a, n |-> left[a] + 1, on |-> k] ELSE None]
  OBVIOUS
<1>4. x \in Waiter /\ x.co = a /\ x.kind = "select"
  BY <1>1, <1>3 DEF Waiter, Elem
<1>5. CASE \E i \in made : cases[a][i] = [on |-> k, type |-> type]
  <2>1. WithWaiter(a, type, list, made)[k] = <<x>> \o list[k]
    BY <1>3, <1>5 DEF WithWaiter
  <2>2. In(a, type, k)
    BY <1>5 DEF In
  <2>3. /\ \A kind : Those(<<x>> \o list[k], kind) \subseteq
                         Those(list[k], kind) \cup (IF "select" = kind THEN {a} ELSE {})
        /\ OnceIn(<<x>> \o list[k])
    BY <1>1, <1>2, <1>4, ThosePush, CosPush
  <2> QED
    BY <2>1, <2>2, <2>3
<1>6. CASE ~ \E i \in made : cases[a][i] = [on |-> k, type |-> type]
  <2>1. WithWaiter(a, type, list, made)[k] = list[k]
    BY <1>6 DEF WithWaiter
  <2> QED
    BY <1>2, <2>1
<1> QED
  BY <1>5, <1>6

LEMMA RegisterInOrder ==
    ASSUME SelectInv, SelectTypeOK', NEW a \in Actor, NEW made \in SUBSET Indices(a),
           Register(a, made)
    PROVE  Orderly'
<1>1. /\ pc[a] = "user" /\ Place_OK(a) /\ sel[a] = "decide" /\ TypeOK /\ Busy(a)
      /\ sel \in [Actor -> SelPc] /\ ReleaseAll(a) /\ blocked[a]
      /\ w' = WithWaiter(a, "push", w, made) /\ r' = WithWaiter(a, "pop", r, made)
      /\ status' = [status EXCEPT ![a] = "WAITING"]
      /\ sel' = [sel EXCEPT ![a] = "parked"]
      /\ UNCHANGED <<pc, op, ch, tgt, left, cases, blocked, at>>
  BY SelectPlace DEF Register, Busy, acvars
<1>2. a \in Co /\ left[a] + 1 \in 1..Budget
  BY <1>1 DEF Place_OK
<1>3. sel'[a] = "parked" /\ \A b \in Actor \ {a} : Stays(b)
  BY <1>1 DEF Stays
<1>4. ASSUME NEW k \in Chan
      PROVE  /\ OnceIn(w'[k]) /\ OnceIn(r'[k])
             /\ \A kind : /\ Those(w'[k], kind) \subseteq Those(w[k], kind) \cup
                                (IF kind = "select" /\ In(a, "push", k) THEN {a} ELSE {})
                          /\ Those(r'[k], kind) \subseteq Those(r[k], kind) \cup
                                (IF kind = "select" /\ In(a, "pop", k) THEN {a} ELSE {})
  <2>1. /\ OnceIn(w'[k])
        /\ \A kind : Those(w'[k], kind) \subseteq Those(w[k], kind) \cup
                         (IF kind = "select" /\ In(a, "push", k) THEN {a} ELSE {})
    BY <1>1, <1>2, WithWaiterLists
  <2>2. /\ OnceIn(r'[k])
        /\ \A kind : Those(r'[k], kind) \subseteq Those(r[k], kind) \cup
                         (IF kind = "select" /\ In(a, "pop", k) THEN {a} ELSE {})
    BY <1>1, <1>2, WithWaiterLists
  <2> QED
    BY <2>1, <2>2
<1>5. ListedOnce' /\ ListsOf(a)
  <2>1. ListedOnce'
    BY <1>4 DEF ListedOnce
  <2>2. /\ w' \in [Chan -> Seq(Waiter)] /\ r' \in [Chan -> Seq(Waiter)]
        /\ w \in [Chan -> Seq(Waiter)] /\ r \in [Chan -> Seq(Waiter)]
    BY DEF SelectInv, SelectTypeOK, TypeOK, ChannelTypeOK
  <2>3. ListsOf(a)
    BY <1>4, <2>2 DEF ListsOf
  <2> QED
    BY <2>1, <2>3
<1>6. Waiter_OK(a)'
  <2>1. \A k \in Chan : \A kind : a \notin Those(w[k], kind) \cup Those(r[k], kind)
    BY <1>1, BusyInNoList
  <2>2. \A k \in Chan : \A type : In(a, type, k) => Selects(a, k, type)'
    BY <1>1, <1>3 DEF Selects, In, Indices
  <2>3. ASSUME NEW k \in Chan
        PROVE  /\ a \notin Those(w'[k], "plain") \cup Those(r'[k], "plain")
               /\ a \in Those(w'[k], "select") => In(a, "push", k)
               /\ a \in Those(r'[k], "select") => In(a, "pop", k)
    BY <1>4, <2>1
  <2> QED
    BY <2>2, <2>3 DEF Waiter_OK
<1>7. Own_OK(a)'
  <2>1. Place_OK(a)'
    BY <1>1, <1>3 DEF Place_OK
  <2>2. Mutexes_OK(a)' /\ Target_OK(a)'
    BY <1>1, <1>3 DEF Mutexes_OK, Taken, Target_OK, Holding
  <2> QED
    BY <2>1, <2>2 DEF Own_OK
<1>8. WakesAtMost(a) /\ AwaitsWaker(a)
  BY <1>1 DEF WakesAtMost, AwaitsWaker, Busy, TypeOK, RuntimeTypeOK
<1>9. CallsOK /\ Orderly /\ ch[a] \in Chan \cup {None} /\ \A b \in Actor : cases[b] \in Seq(Case)
  BY <1>1 DEF SelectInv, SelectTypeOK, TypeOK, CallTypeOK
<1> QED
  BY <1>1, <1>3, <1>5, <1>6, <1>7, <1>8, <1>9, ReleaseMoves, ActorMoves

LEMMA SelectParkInOrder ==
    ASSUME SelectInv, SelectTypeOK', NEW a \in Actor, SelectPark(a)
    PROVE  Orderly'
<1>1. /\ pc[a] = "user" /\ Place_OK(a) /\ sel[a] = "parked" /\ TypeOK
      /\ sel \in [Actor -> SelPc] /\ at \in [Actor -> Nat] /\ a \in Co /\ cur = a
      /\ sel' = [sel EXCEPT ![a] = "relock"] /\ at' = [at EXCEPT ![a] = 1]
      /\ UNCHANGED <<pc, op, ch, tgt, left, cases, blocked, lock, w, r>>
  BY SelectPlace, ChannelAssumption DEF SelectPark, Executes, Place_OK, chvars, acvars
<1>2. sel'[a] = "relock" /\ at'[a] = 1 /\ \A b \in Actor \ {a} : Stays(b)
  BY <1>1 DEF Stays
<1>3. \A c \in Co \ {a} : status'[c] = status[c]
  BY <1>1 DEF SelectPark, SwapOut, TypeOK, RuntimeTypeOK
<1>4. Own_OK(a)'
  <2>1. Place_OK(a)'
    BY <1>1, <1>2 DEF Place_OK
  <2>2. Mutexes_OK(a)' /\ Target_OK(a)'
    BY <1>1, <1>2 DEF Mutexes_OK, Taken, Target_OK, Holding, Indices
  <2> QED
    BY <2>1, <2>2 DEF Own_OK
<1>5. ListedOnce' /\ ListsOf(a)
  BY <1>1, ListsStay
     DEF ListedOnce, ListsOf, Shorter, SelectInv, SelectTypeOK, TypeOK, ChannelTypeOK
<1>6. Waiter_OK(a)'
  <2>1. Waiter_OK(a)
    BY <1>1 DEF SelectInv, Orderly
  <2>2. \A k \in Chan : \A type : /\ ~Waits(a, k, type)
                                  /\ Selects(a, k, type) => Selects(a, k, type)'
    BY <1>1, <1>2 DEF Waits, Sleeps, Selects, In, Indices
  <2> QED
    BY <1>1, <2>1, <2>2 DEF Waiter_OK
<1>7. WakesAtMost(a) /\ AwaitsWaker(a)
  BY <1>1, <1>2, <1>3 DEF WakesAtMost, AwaitsWaker
<1>8. CallsOK /\ Orderly /\ ch[a] \in Chan \cup {None} /\ \A b \in Actor : cases[b] \in Seq(Case)
  BY <1>1 DEF SelectInv, SelectTypeOK, TypeOK, CallTypeOK
<1> QED
  BY <1>1, <1>2, <1>4, <1>5, <1>6, <1>7, <1>8, ActorMoves

(* The waiters that nobody has taken go; all the mutexes are held.         *)
LEMMA DeregisterInOrder ==
    ASSUME SelectInv, SelectTypeOK', NEW a \in Actor, Deregister(a)
    PROVE  Orderly'
<1>1. /\ pc[a] = "user" /\ Place_OK(a) /\ Mutexes_OK(a) /\ sel[a] = "dereg" /\ TypeOK
      /\ sel \in [Actor -> SelPc] /\ sel' = [sel EXCEPT ![a] = "decide"]
      /\ w' = [k \in Chan |-> IF In(a, "push", k) THEN Without(w[k], a) ELSE w[k]]
      /\ r' = [k \in Chan |-> IF In(a, "pop", k) THEN Without(r[k], a) ELSE r[k]]
      /\ UNCHANGED <<pc, op, ch, tgt, left, cases, blocked, at, lock, status>>
  BY SelectPlace DEF Deregister, acvars, rtvars
<1>2. sel'[a] = "decide" /\ \A b \in Actor \ {a} : Stays(b)
  BY <1>1 DEF Stays
<1>3. \A k \in Chan : /\ w[k] \in Seq(Waiter) /\ r[k] \in Seq(Waiter)
                      /\ OnceIn(w[k]) /\ OnceIn(r[k])
                      /\ w'[k] \in Seq(Waiter) /\ r'[k] \in Seq(Waiter)
  BY <1>1 DEF TypeOK, ChannelTypeOK, SelectInv, Orderly, ListedOnce, SelectTypeOK
<1>4. a # None
  BY NoneNotOp
<1>5. ASSUME NEW k \in Chan
      PROVE  /\ OnceIn(w'[k]) /\ \A kind : Those(w'[k], kind) \subseteq Those(w[k], kind)
             /\ In(a, "push", k) => a \notin Cos(w'[k])
  <2>1. CASE In(a, "push", k)
    BY <1>1, <1>3, <1>4, <2>1, WithoutOne
  <2>2. CASE ~In(a, "push", k)
    BY <1>1, <1>3, <2>2
  <2> QED
    BY <2>1, <2>2
<1>6. ASSUME NEW k \in Chan
      PROVE  /\ OnceIn(r'[k]) /\ \A kind : Those(r'[k], kind) \subseteq Those(r[k], kind)
             /\ In(a, "pop", k) => a \notin Cos(r'[k])
  <2>1. CASE In(a, "pop", k)
    BY <1>1, <1>3, <1>4, <2>1, WithoutOne
  <2>2. CASE ~In(a, "pop", k)
    BY <1>1, <1>3, <2>2
  <2> QED
    BY <2>1, <2>2
<1>7. ListedOnce' /\ ListsOf(a)
  <2>1. /\ w' \in [Chan -> Seq(Waiter)] /\ r' \in [Chan -> Seq(Waiter)]
        /\ w \in [Chan -> Seq(Waiter)] /\ r \in [Chan -> Seq(Waiter)]
    BY DEF SelectInv, SelectTypeOK, TypeOK, ChannelTypeOK
  <2> QED
    BY <1>5, <1>6, <2>1 DEF ListedOnce, ListsOf
<1>8. a \in Co => Waiter_OK(a)'
  <2> SUFFICES ASSUME a \in Co, NEW k \in Chan
               PROVE  \A kind \in {"plain", "select"} :
                          a \notin Those(w'[k], kind) \cup Those(r'[k], kind)
    BY DEF Waiter_OK
  <2>1. Waiter_OK(a)
    BY DEF SelectInv, Orderly
  <2>2. /\ a \notin Those(w[k], "plain") \cup Those(r[k], "plain")
        /\ a \in Those(w[k], "select") => In(a, "push", k)
        /\ a \in Those(r[k], "select") => In(a, "pop", k)
    BY <1>1, <2>1 DEF Waiter_OK, Waits, Sleeps, Selects
  <2>3. /\ Cos(w'[k]) = Those(w'[k], "plain") \cup Those(w'[k], "select")
        /\ Cos(r'[k]) = Those(r'[k], "plain") \cup Those(r'[k], "select")
    BY <1>3, ThoseCos
  <2> QED
    BY <1>5, <1>6, <2>2, <2>3
<1>9. Own_OK(a)'
  <2>1. Place_OK(a)'
    BY <1>1, <1>2 DEF Place_OK
  <2>2. Mutexes_OK(a)' /\ Target_OK(a)'
    BY <1>1, <1>2 DEF Mutexes_OK, Taken, Target_OK, Holding, Indices
  <2> QED
    BY <2>1, <2>2 DEF Own_OK
<1>10. WakesAtMost(a) /\ AwaitsWaker(a)
  BY <1>1 DEF WakesAtMost, AwaitsWaker
<1>11. CallsOK /\ Orderly /\ ch[a] \in Chan \cup {None} /\ \A b \in Actor : cases[b] \in Seq(Case)
  BY <1>1 DEF SelectInv, SelectTypeOK, TypeOK, CallTypeOK
<1> QED
  BY <1>1, <1>2, <1>7, <1>8, <1>9, <1>10, <1>11, ActorMoves

(* The call of the chosen case begins, unless the channel is closed.       *)
LEMMA TryInOrder ==
    ASSUME SelectInv, SelectTypeOK', NEW a \in Actor, Try(a)
    PROVE  Orderly'
<1>1. /\ pc[a] = "user" /\ Place_OK(a) /\ sel[a] = "chosen" /\ TypeOK /\ Busy(a)
      /\ sel \in [Actor -> SelPc] /\ at \in [Actor -> Nat] /\ at[a] \in Indices(a)
      /\ UNCHANGED <<left, cases, blocked, lock, w, r, status>>
  BY SelectPlace DEF Try, Place_OK, Busy, chvars, rtvars
<1>2. \A b \in Actor \ {a} : Stays(b)
  BY <1>1 DEF Try, Begin, Stays, TypeOK, CallTypeOK, acvars
<1>3. \/ sel'[a] = "try" /\ pc'[a] = "lock" /\ op'[a] \in {"trypush", "trypop"} /\ at' = at
      \/ sel'[a] \in {"lock", "none"} /\ pc'[a] = "user" /\ at'[a] = 1
  BY <1>1 DEF Try, Begin, TypeOK, CallTypeOK
<1>4. Own_OK(a)'
  <2>1. Place_OK(a)'
    BY <1>1, <1>3 DEF Place_OK, Indices
  <2>2. Mutexes_OK(a)' /\ Target_OK(a)'
    BY <1>1, <1>3 DEF Mutexes_OK, Taken, Target_OK, Holding, Indices
  <2> QED
    BY <2>1, <2>2 DEF Own_OK
<1>5. WakesAtMost(a)
  BY <1>1 DEF WakesAtMost
<1> QED
  BY <1>1, <1>2, <1>4, <1>5, ListsStay, BusyMoves

-----------------------------------------------------------------------------
(* Types, and what a place says of the call.                               *)
LEMMA SelectOnlyTypes ==
    ASSUME SelectInv, NEW a \in Actor, SelectStep(a), ~SelectActorStep(a)
    PROVE  SelectTypeOK'
<1>1. SelectTypeOK /\ TypeOK /\ sel[a] \notin {"none", "try"}
  BY DEF SelectInv, SelectTypeOK, SelectStep, SelectLock, Choose, SelectNone, Register,
         SelectPark, Deregister, Try
<1>2. /\ pc[a] = "user" /\ Place_OK(a) /\ left[a] + 1 \in 1..Budget
      /\ \A i \in Indices(a) : cases[a][i] \in Case /\ cases[a][i].on \in Chan
  BY <1>1, SelectPlace
<1> USE DEF rtvars, chvars, acvars, history
<1>3. ASSUME SelectLock(a) PROVE SelectTypeOK'
  <2>1. cases[a][at[a]].on \in Chan
    BY <1>2, <1>3 DEF SelectLock
  <2>2. lock' \in [Chan -> Actor \cup {None}]
    BY <1>1, <1>3, <2>1 DEF SelectLock, TypeOK, CallTypeOK
  <2>3. TypeOK'
    BY <1>1, <1>3, <2>2
       DEF SelectLock, TypeOK, RuntimeTypeOK, ChannelTypeOK, CallTypeOK, HistoryTypeOK
  <2>4. sel' \in [Actor -> SelPc] /\ at' \in [Actor -> Nat]
    BY <1>1, <1>3 DEF SelectLock, SelectTypeOK, SelPc
  <2> QED
    BY <1>1, <1>3, <2>3, <2>4 DEF SelectLock, SelectTypeOK
<1>4. ASSUME Choose(a) \/ SelectNone(a) PROVE SelectTypeOK'
  <2>1. lock' \in [Chan -> Actor \cup {None}]
    BY <1>1, <1>4 DEF Choose, SelectNone, ReleaseAll, TypeOK, CallTypeOK
  <2>2. TypeOK'
    BY <1>1, <1>4, <2>1
       DEF Choose, SelectNone, TypeOK, RuntimeTypeOK, ChannelTypeOK, CallTypeOK,
           HistoryTypeOK
  <2>3. sel' \in [Actor -> SelPc]
    BY <1>1, <1>4 DEF Choose, SelectNone, SelectTypeOK, SelPc
  <2>4. at' \in [Actor -> Nat]
    <3>1. CASE Choose(a)
      <4>1. Ready(a) \in SUBSET Nat /\ Ready(a) # {}
        BY <3>1 DEF Choose, Ready, Indices
      <4>2. \E i \in Ready(a) : \A j \in Ready(a) : i <= j
        BY <4>1, LeastOf
      <4>3. (CHOOSE i \in Ready(a) : \A j \in Ready(a) : i <= j) \in Ready(a)
        BY <4>2, Zenon
      <4> QED
        BY <1>1, <3>1, <4>1, <4>3 DEF Choose, SelectTypeOK
    <3>2. CASE SelectNone(a)
      BY <1>1, <3>2 DEF SelectNone, SelectTypeOK
    <3> QED
      BY <1>4, <3>1, <3>2
  <2> QED
    BY <1>1, <1>4, <2>2, <2>3, <2>4 DEF Choose, SelectNone, SelectTypeOK
<1>5. ASSUME NEW made \in SUBSET Indices(a), Register(a, made) PROVE SelectTypeOK'
  <2>1. a \in Co
    BY <1>2, <1>5 DEF Register, Place_OK
  <2>2. ASSUME NEW type, NEW list \in [Chan -> Seq(Waiter)]
        PROVE  WithWaiter(a, type, list, made) \in [Chan -> Seq(Waiter)]
    <3> SUFFICES ASSUME NEW k \in Chan
                 PROVE  <<[co |-> a, kind |-> "select",
                           ele |-> IF type = "push"
                                   THEN [by |-> a, n |-> left[a] + 1, on |-> k]
                                   ELSE None]>> \o list[k] \in Seq(Waiter)
      BY DEF WithWaiter
    <3>1. PICK x : x = [co |-> a, kind |-> "select",
                        ele |-> IF type = "push"
                                THEN [by |-> a, n |-> left[a] + 1, on |-> k] ELSE None]
      OBVIOUS
    <3>2. x \in Waiter
      BY <1>2, <2>1, <3>1 DEF Waiter, Elem
    <3>3. <<x>> \in Seq(Waiter) /\ list[k] \in Seq(Waiter)
      BY <3>2
    <3>4. <<x>> \o list[k] \in Seq(Waiter)
      BY <3>3
    <3> QED
      BY <3>1, <3>4
  <2>3. w' \in [Chan -> Seq(Waiter)] /\ r' \in [Chan -> Seq(Waiter)]
    BY <1>1, <1>5, <2>2 DEF Register, TypeOK, ChannelTypeOK
  <2>4. lock' \in [Chan -> Actor \cup {None}]
    BY <1>1, <1>5 DEF Register, ReleaseAll, TypeOK, CallTypeOK
  <2>5. RuntimeTypeOK'
    BY <1>1, <1>5 DEF Register, TypeOK, RuntimeTypeOK, Status
  <2>6. TypeOK'
    BY <1>1, <1>5, <2>3, <2>4, <2>5
       DEF Register, TypeOK, ChannelTypeOK, CallTypeOK, HistoryTypeOK
  <2>7. sel' \in [Actor -> SelPc]
    BY <1>1, <1>5 DEF Register, SelectTypeOK, SelPc
  <2> QED
    BY <1>1, <1>5, <2>6, <2>7 DEF Register, SelectTypeOK
<1>6. ASSUME SelectPark(a) PROVE SelectTypeOK'
  <2>0. a \in Co /\ cur = a /\ status[a] \in Status
    BY <1>1, <1>2, <1>6, ChannelAssumption
       DEF SelectPark, Executes, Place_OK, TypeOK, RuntimeTypeOK
  <2>1. RuntimeTypeOK'
    <3>1. PICK st \in Status : status' = [status EXCEPT ![a] = st]
      BY <1>6, <2>0 DEF SelectPark, SwapOut, Status
    <3>2. loop' = "resumed" /\ UNCHANGED <<rq, yielded, async, cur>>
      BY <1>6 DEF SelectPark, SwapOut
    <3> QED
      BY <1>1, <2>0, <3>1, <3>2 DEF TypeOK, RuntimeTypeOK, LoopPc
  <2>2. TypeOK'
    <3>1. UNCHANGED <<queue, w, r, closed, lock, pc, op, ch, ele, tgt, left, accepted, received>>
      BY <1>6 DEF SelectPark
    <3> QED
      BY <1>1, <2>1, <3>1 DEF TypeOK, ChannelTypeOK, CallTypeOK, HistoryTypeOK
  <2> QED
    BY <1>1, <1>6, <2>2 DEF SelectPark, SelectTypeOK, SelPc
<1>7. ASSUME Deregister(a) PROVE SelectTypeOK'
  <2>1. w' \in [Chan -> Seq(Waiter)] /\ r' \in [Chan -> Seq(Waiter)]
    <3>1. \A k \in Chan : /\ w[k] \in Seq(Waiter) /\ Without(w[k], a) \in Seq(Waiter)
                          /\ r[k] \in Seq(Waiter) /\ Without(r[k], a) \in Seq(Waiter)
      BY <1>1, WithoutOne DEF TypeOK, ChannelTypeOK
    <3> QED
      BY <1>7, <3>1 DEF Deregister
  <2>2. TypeOK'
    BY <1>1, <1>7, <2>1
       DEF Deregister, TypeOK, RuntimeTypeOK, ChannelTypeOK, CallTypeOK, HistoryTypeOK
  <2> QED
    BY <1>1, <1>7, <2>2 DEF Deregister, SelectTypeOK, SelPc
<1>8. ASSUME Try(a) PROVE SelectTypeOK'
  <2>1. at[a] \in Indices(a) /\ cases[a][at[a]].on \in Chan
    BY <1>2, <1>8 DEF Try, Place_OK
  <2>2. CaseElem(a, at[a]) \in Elem \cup {None}
    BY <1>2, <2>1 DEF CaseElem, Elem
  <2>3. CallTypeOK'
    BY <1>1, <1>8, <2>1, <2>2 DEF Try, Begin, TypeOK, CallTypeOK, Pc, Op
  <2>4. TypeOK'
    BY <1>1, <1>8, <2>3
       DEF Try, TypeOK, RuntimeTypeOK, ChannelTypeOK, HistoryTypeOK
  <2>5. sel' \in [Actor -> SelPc] /\ at' \in [Actor -> Nat]
    BY <1>1, <1>8 DEF Try, SelectTypeOK, SelPc
  <2> QED
    BY <1>1, <1>8, <2>4, <2>5 DEF Try, SelectTypeOK
<1> QED
  BY <1>3, <1>4, <1>5, <1>6, <1>7, <1>8 DEF SelectStep

LEMMA SelectBeginsTypes ==
    ASSUME SelectInv, NEW a \in Actor, NEW cs \in SelectsOf[a], NEW b \in BOOLEAN,
           Select(a, cs, b)
    PROVE  SelectTypeOK'
<1>1. SelectTypeOK /\ TypeOK
  BY DEF SelectInv, SelectTypeOK
<1>2. left' \in [Actor -> 0..Budget]
  BY <1>1, ChannelAssumption DEF Select, TypeOK, CallTypeOK
<1>3. TypeOK'
  BY <1>1, <1>2
     DEF Select, rtvars, chvars, acvars, history, TypeOK, RuntimeTypeOK, ChannelTypeOK,
         CallTypeOK, HistoryTypeOK
<1>4. cs \in Seq(Case)
  BY SelectAssumption
<1> QED
  BY <1>1, <1>3, <1>4 DEF Select, SelectTypeOK, SelPc

LEMMA SelectOnlyCalls ==
    ASSUME SelectInv, NEW a \in Actor, SelectStep(a), ~SelectActorStep(a)
    PROVE  CallsOK'
<1>1. SelectTypeOK /\ TypeOK /\ sel[a] \notin {"none", "try"} /\ CallsOK
  BY DEF SelectInv, SelectTypeOK, SelectStep, SelectLock, Choose, SelectNone, Register,
         SelectPark, Deregister, Try
<1>2. /\ pc[a] = "user" /\ Place_OK(a) /\ left[a] + 1 \in 1..Budget
      /\ \A i \in Indices(a) : cases[a][i] \in Case /\ cases[a][i].on \in Chan
  BY <1>1, SelectPlace
<1>3. ASSUME UNCHANGED <<pc, op, ch, ele, tgt>>,
             loop' \in {"resume", "resumed"} => cur' \in Co
      PROVE  CallsOK'
  BY <1>1, <1>3 DEF CallsOK, Call_OK
<1>4. ASSUME SelectLock(a) \/ Choose(a) \/ SelectNone(a) \/ Deregister(a)
             \/ \E made \in SUBSET Indices(a) : Register(a, made)
      PROVE  CallsOK'
  <2>1. UNCHANGED <<pc, op, ch, ele, tgt, loop, cur>>
    BY <1>4 DEF SelectLock, Choose, SelectNone, Deregister, Register, acvars, rtvars
  <2> QED
    BY <1>1, <1>3, <2>1 DEF CallsOK
<1>5. ASSUME SelectPark(a) PROVE CallsOK'
  <2>1. a \in Co /\ cur' = a /\ UNCHANGED <<pc, op, ch, ele, tgt>>
    BY <1>2, <1>5, ChannelAssumption
       DEF SelectPark, Executes, Place_OK, SwapOut, acvars
  <2> QED
    BY <1>3, <2>1
<1>6. ASSUME Try(a) PROVE CallsOK'
  <2>1. at[a] \in Indices(a) /\ cases[a][at[a]].on \in Chan /\ UNCHANGED <<loop, cur>>
    BY <1>2, <1>6 DEF Try, Place_OK, rtvars
  <2>2. CASE UNCHANGED <<pc, acvars>>
    BY <1>1, <1>3, <2>1, <2>2 DEF acvars, CallsOK
  <2>3. CASE ~UNCHANGED <<pc, acvars>>
    <3>1. PICK o, k, e :
              /\ o = IF cases[a][at[a]].type = "push" THEN "trypush" ELSE "trypop"
              /\ k = cases[a][at[a]].on /\ e = CaseElem(a, at[a])
      OBVIOUS
    <3>2. /\ pc' = [pc EXCEPT ![a] = "lock"] /\ op' = [op EXCEPT ![a] = o]
          /\ ch' = [ch EXCEPT ![a] = k] /\ ele' = [ele EXCEPT ![a] = e]
          /\ tgt' = tgt
      BY <1>6, <2>3, <3>1 DEF Try, Begin
    <3>3. o \in Pushes => e \in Elem
      BY <1>2, <2>1, <3>1 DEF CaseElem, Elem, Pushes
    <3>4. o \in {"trypush", "trypop"} /\ o \in Op
      BY <3>1 DEF Op
    <3>5. Call_OK(a)'
      BY <1>1, <2>1, <3>1, <3>2, <3>3, <3>4
         DEF Call_OK, Holding, TypeOK, CallTypeOK
    <3>6. ASSUME NEW b \in Actor, b # a PROVE Call_OK(b)'
      BY <1>1, <3>2, <3>6, OtherCalls DEF CallsOK, TypeOK, CallTypeOK
    <3> QED
      BY <1>1, <2>1, <3>5, <3>6 DEF CallsOK
  <2> QED
    BY <2>2, <2>3
<1> QED
  BY <1>4, <1>5, <1>6 DEF SelectStep

LEMMA AlongTypes ==
    ASSUME SelectInv, [Next]_vars,
           UNCHANGED selvars \/ \E a \in Actor : SelectActorStep(a)
    PROVE  SelectTypeOK' /\ CallsOK'
<1>1. TypeOK' /\ CallsOK' /\ SelectTypeOK
  BY TypeStep, CallsStep DEF SelectInv, SelectTypeOK
<1>2. CASE UNCHANGED selvars
  BY <1>1, <1>2 DEF selvars, SelectTypeOK
<1>3. ASSUME NEW a \in Actor, SelectActorStep(a) PROVE SelectTypeOK'
  <2>1. cases' = cases /\ blocked' = blocked
    BY <1>3 DEF SelectActorStep
  <2>2. PICK place \in {"lock", "none"} :
            \/ UNCHANGED <<sel, at>>
            \/ sel' = [sel EXCEPT ![a] = place] /\ at' = [at EXCEPT ![a] = 1]
    BY <1>3 DEF SelectActorStep
  <2>3. sel' \in [Actor -> SelPc]
    BY <1>1, <2>2 DEF SelectTypeOK, SelPc
  <2>4. at' \in [Actor -> Nat]
    BY <1>1, <2>2 DEF SelectTypeOK
  <2> QED
    BY <1>1, <2>1, <2>3, <2>4 DEF SelectTypeOK
<1> QED
  BY <1>1, <1>2, <1>3

-----------------------------------------------------------------------------
(* The running coroutine stays RUNNING until it parks.                     *)
LEMMA RunsOn ==
    ASSUME SelectInv, UNCHANGED <<loop, cur>>,
           \A c \in Co : loop = "run" /\ cur = c =>
               /\ status[c] = "RUNNING" =>
                      status'[c] = "RUNNING" \/ pc'[c] = "parked" \/ sel'[c] = "parked"
               /\ pc[c] = "parked" => pc'[c] = "parked"
               /\ sel[c] = "parked" => sel'[c] = "parked"
    PROVE  SelectorRuns'
  BY DEF SelectInv, SelectorRuns

LEMMA ActorRuns ==
    ASSUME SelectInv, NEW a \in Actor, SelectActorStep(a)
    PROVE  SelectorRuns'
<1>1. TypeOK
  BY DEF SelectInv, SelectTypeOK
<1>2. /\ UNCHANGED <<loop, cur>> /\ pc[a] \in {"lock"} \cup Holding
      /\ \A b \in Actor \ {a} : pc'[b] = pc[b]
  <2>1. ActorStep(a)
    BY DEF SelectActorStep
  <2>2. ASSUME NEW acc, NEW rec, Return(a, acc, rec)
        PROVE  \A b \in Actor \ {a} : pc'[b] = pc[b]
    BY <1>1, <2>2 DEF Return, TypeOK, CallTypeOK
  <2>3. ASSUME NEW place, HoldAt(a, place)
        PROVE  \A b \in Actor \ {a} : pc'[b] = pc[b]
    BY <1>1, <2>3 DEF HoldAt, TypeOK, CallTypeOK
  <2>4. Served(a) => \A b \in Actor \ {a} : pc'[b] = pc[b]
    BY <2>2, <2>3 DEF Served
  <2>5. CASE EnterClosed(a) \/ EnterRefused(a) \/ PushToReader(a) \/ PushToQueue(a)
             \/ PopFromWriter(a) \/ PopFromQueue(a) \/ Close(a)
    BY <2>2, <2>3, <2>5
       DEF EnterClosed, EnterRefused, PushToReader, PushToQueue, PopFromWriter,
           PopFromQueue, Close, Enters, rtvars
  <2>6. CASE GiveUp(a) \/ Drained(a) \/ DrainWriter(a) \/ DrainReader(a)
             \/ \E malloc \in Mallocs : LeaveElement(a, malloc)
    BY <2>2, <2>3, <2>6
       DEF GiveUp, Drained, DrainWriter, DrainReader, LeaveElement, Holding, rtvars
  <2>7. CASE Wake(a) \/ WakeNobody(a) \/ \E malloc \in Mallocs : Join(a, malloc)
    BY <2>3, <2>4, <2>7 DEF Wake, WakeNobody, Join, Holding, rtvars
  <2> QED
    BY <2>1, <2>5, <2>6, <2>7 DEF ActorStep
<1>3. \A c \in Co : status[c] = "RUNNING" => status'[c] = "RUNNING"
  <2>1. CASE Wake(a)
    BY <1>1, <2>1 DEF Wake, TypeOK, RuntimeTypeOK
  <2>2. CASE ~Wake(a)
    <3>1. status' = status
      BY <2>2
         DEF SelectActorStep, ActorStep, EnterClosed, EnterRefused, PushToReader,
             PushToQueue, PopFromWriter, PopFromQueue, Close, GiveUp, Drained,
             DrainWriter, DrainReader, LeaveElement, WakeNobody, Join, rtvars
    <3> QED
      BY <3>1
  <2> QED
    BY <2>1, <2>2
<1>4. sel[a] \in {"none", "try"} /\ \A b \in Actor \ {a} : sel'[b] = sel[b]
  BY <1>2, CallPlace, SelectAlong DEF Along, SelectInv
<1>5. pc[a] # "parked"
  BY <1>2 DEF Holding
<1>6. \A c \in Co : (pc[c] = "parked" => pc'[c] = "parked")
                    /\ (sel[c] = "parked" => sel'[c] = "parked")
  BY <1>2, <1>4, <1>5 DEF Actor
<1> QED
  BY <1>2, <1>3, <1>6, RunsOn

LEMMA SelectRuns ==
    ASSUME SelectInv, NEW a \in Actor,
           \/ SelectStep(a) /\ ~SelectActorStep(a)
           \/ \E cs \in SelectsOf[a], b \in BOOLEAN : Select(a, cs, b)
    PROVE  SelectorRuns'
<1>1. SelectTypeOK /\ TypeOK
  BY DEF SelectInv, SelectTypeOK
<1>2. CASE SelectPark(a)
  BY <1>2 DEF SelectPark, SwapOut, SelectorRuns
<1>3. CASE \E made \in SUBSET Indices(a) : Register(a, made)
  <2>1. /\ UNCHANGED <<loop, cur, pc>> /\ sel' = [sel EXCEPT ![a] = "parked"]
        /\ status' = [status EXCEPT ![a] = "WAITING"]
    BY <1>3 DEF Register
  <2>2. \A c \in Co : /\ status[c] = "RUNNING" => status'[c] = "RUNNING" \/ sel'[c] = "parked"
                      /\ sel[c] = "parked" => sel'[c] = "parked"
    BY <1>1, <2>1 DEF SelectTypeOK, TypeOK, RuntimeTypeOK, Actor
  <2> QED
    BY <2>1, <2>2, RunsOn
<1>4. CASE SelectLock(a) \/ Choose(a) \/ SelectNone(a) \/ Deregister(a)
           \/ \E cs \in SelectsOf[a], b \in BOOLEAN : Select(a, cs, b)
  <2>1. /\ UNCHANGED <<loop, cur, pc, status>> /\ sel[a] # "parked"
        /\ \E place : sel' = [sel EXCEPT ![a] = place]
    <3>1. CASE SelectLock(a)
      BY <3>1 DEF SelectLock, rtvars
    <3>2. CASE Choose(a) \/ SelectNone(a) \/ Deregister(a)
      BY <3>2 DEF Choose, SelectNone, Deregister, rtvars
    <3>3. CASE \E cs \in SelectsOf[a], b \in BOOLEAN : Select(a, cs, b)
      BY <3>3 DEF Select, rtvars
    <3> QED
      BY <1>4, <3>1, <3>2, <3>3
  <2>2. \A c \in Co : sel[c] = "parked" => sel'[c] = "parked"
    BY <1>1, <2>1 DEF SelectTypeOK, Actor
  <2> QED
    BY <2>1, <2>2, RunsOn
<1>5. CASE Try(a)
  <2>1. /\ UNCHANGED <<loop, cur, status>> /\ sel[a] = "chosen"
        /\ \E place : sel' = [sel EXCEPT ![a] = place]
    BY <1>5 DEF Try, rtvars
  <2>2. pc[a] = "user" /\ \A b \in Actor \ {a} : pc'[b] = pc[b]
    BY <1>1, <1>5, <2>1, SelectPlace DEF Try, Begin, TypeOK, CallTypeOK
  <2>3. \A c \in Co : /\ sel[c] = "parked" => sel'[c] = "parked"
                      /\ pc[c] = "parked" => pc'[c] = "parked"
    BY <1>1, <2>1, <2>2 DEF SelectTypeOK, Actor
  <2> QED
    BY <2>1, <2>3, RunsOn
<1> QED
  BY <1>2, <1>3, <1>4, <1>5 DEF SelectStep

LEMMA OutsideRuns ==
    ASSUME SelectInv, NEW a \in Actor, Outside(a),
           \/ \E o \in Op, c \in Chan : Call(a, o, c)
           \/ a \in Co /\ (CoroutineStep(a) \/ Spawn(a) \/ Yield(a) \/ Terminate(a))
           \/ a \in Hdl /\ HandlerStep(a)
    PROVE  SelectorRuns'
<1>1. TypeOK /\ sel' = sel
  BY DEF SelectInv, SelectTypeOK, Outside, selvars
<1>2. CASE \E o \in Op, c \in Chan : Call(a, o, c)
  <2>1. /\ UNCHANGED <<loop, cur, status>> /\ pc[a] = "user"
        /\ \A b \in Actor \ {a} : pc'[b] = pc[b]
    BY <1>1, <1>2 DEF Call, Begin, TypeOK, CallTypeOK, rtvars
  <2>2. \A c \in Co : pc[c] = "parked" => pc'[c] = "parked"
    BY <2>1 DEF Actor
  <2> QED
    BY <1>1, <2>1, <2>2, RunsOn
<1>3. CASE a \in Co /\ (Park(a) \/ Yield(a) \/ Terminate(a))
  BY <1>3 DEF Park, Yield, Terminate, SwapOut, SelectorRuns
<1>4. CASE a \in Co /\ Spawn(a)
  <2>1. UNCHANGED <<loop, cur, status>> /\ pc[a] = "new" /\ pc' = [pc EXCEPT ![a] = "user"]
    BY <1>4 DEF Spawn
  <2>2. \A c \in Co : pc[c] = "parked" => pc'[c] = "parked"
    BY <1>1, <2>1 DEF Actor, TypeOK, CallTypeOK
  <2> QED
    BY <1>1, <2>1, <2>2, RunsOn
<1>5. CASE a \in Co /\ Relock(a)
  <2>1. /\ UNCHANGED <<loop, cur, status>> /\ pc[a] = "asleep"
        /\ \A b \in Actor \ {a} : pc'[b] = pc[b]
    BY <1>1, <1>5 DEF Relock, Return, TypeOK, CallTypeOK, rtvars
  <2>2. \A c \in Co : pc[c] = "parked" => pc'[c] = "parked"
    BY <2>1 DEF Actor
  <2> QED
    BY <1>1, <2>1, <2>2, RunsOn
<1>6. CASE a \in Co /\ \E malloc \in Mallocs : Block(a, malloc)
  <2>1. /\ UNCHANGED <<loop, cur>> /\ pc' = [pc EXCEPT ![a] = "parked"]
        /\ status' = [status EXCEPT ![a] = "WAITING"]
    BY <1>6 DEF Block
  <2>2. \A c \in Co : /\ pc[c] = "parked" => pc'[c] = "parked"
                      /\ status[c] = "RUNNING" => status'[c] = "RUNNING" \/ pc'[c] = "parked"
    BY <1>1, <2>1 DEF Actor, TypeOK, CallTypeOK, RuntimeTypeOK
  <2> QED
    BY <1>1, <2>1, <2>2, RunsOn
<1>7. CASE a \in Hdl /\ HandlerStep(a)
  BY <1>7, RuntimeAssumption DEF HandlerStep, HandlerEnters, HandlerReturns, SelectorRuns
<1> QED
  BY <1>2, <1>3, <1>4, <1>5, <1>6, <1>7 DEF CoroutineStep

-----------------------------------------------------------------------------
LEMMA SelectInitially == SelectInit => SelectInv
<1> SUFFICES ASSUME SelectInit PROVE SelectInv
  OBVIOUS
<1>1. Init /\ TypeOK
  BY TypeInit DEF SelectInit
<1>2. SelectTypeOK
  <2>1. <<>> \in Seq(Case)
    OBVIOUS
  <2> QED
    BY <1>1, <2>1 DEF SelectInit, SelectTypeOK, SelPc
<1>3. \A a \in Actor : /\ pc[a] \in {"new", "user"} /\ op[a] = None /\ sel[a] = "none"
  BY <1>1 DEF Init, SelectInit
<1>4. CallsOK
  <2>1. None \notin Pushes \cup {"push", "pop"}
    BY ChannelAssumption DEF Pushes, Op
  <2>2. loop = "poll"
    BY <1>1 DEF Init, RuntimeInit
  <2> QED
    BY <1>3, <2>1, <2>2 DEF CallsOK, Call_OK, Holding
<1>5. \A a \in Actor : Own_OK(a)
  BY <1>3 DEF Own_OK, Place_OK, Mutexes_OK, Target_OK, Taken, Holding
<1>6. \A k \in Chan : w[k] = <<>> /\ r[k] = <<>>
  BY <1>1 DEF Init
<1>7. (\A c \in Co : Waiter_OK(c)) /\ ListedOnce
  BY <1>6 DEF Waiter_OK, Those, ListedOnce, OnceIn
<1>8. SelectorRuns
  BY <1>1 DEF Init, RuntimeInit, SelectorRuns
<1> QED
  BY <1>2, <1>4, <1>5, <1>7, <1>8 DEF SelectInv, Orderly

LEMMA SelectStepInv ==
    ASSUME SelectInv, [SelectNext]_<<vars, selvars>>
    PROVE  SelectInv'
<1>0. SelectTypeOK /\ TypeOK /\ CallsOK
  BY DEF SelectInv, SelectTypeOK
<1>1. ASSUME NEW a \in Actor, SelectActorStep(a) PROVE SelectInv'
  <2>1. Along(a) /\ ActorStep(a) /\ [Next]_vars
    BY <1>0, <1>1, SelectAlong DEF Next
  <2>2. SelectTypeOK' /\ CallsOK'
    BY <1>1, <2>1, AlongTypes
  <2> QED
    BY <1>1, <2>1, <2>2, ActorInOrder, ActorRuns DEF SelectInv
<1>2. ASSUME NEW a \in Actor, SelectStep(a), ~SelectActorStep(a) PROVE SelectInv'
  <2>1. SelectTypeOK' /\ CallsOK' /\ SelectorRuns'
    BY <1>2, SelectOnlyTypes, SelectOnlyCalls, SelectRuns
  <2>2. Orderly'
    BY <1>2, <2>1, SelectLocks, SelectDecides, RegisterInOrder, SelectParkInOrder,
       DeregisterInOrder, TryInOrder DEF SelectStep
  <2> QED
    BY <2>1, <2>2 DEF SelectInv
<1>3. ASSUME NEW a \in Actor, NEW cs \in SelectsOf[a], NEW b \in BOOLEAN, Select(a, cs, b)
      PROVE  SelectInv'
  <2>1. SelectTypeOK'
    BY <1>3, SelectBeginsTypes
  <2>2. CallsOK'
    <3>1. UNCHANGED <<pc, op, ch, ele, tgt, loop, cur>>
      BY <1>3 DEF Select, acvars, rtvars
    <3> QED
      BY <1>0, <3>1 DEF CallsOK, Call_OK
  <2> QED
    BY <1>3, <2>1, <2>2, SelectBegins, SelectRuns DEF SelectInv
<1>4. ASSUME NEW a \in Actor, NEW o \in Op, NEW c \in Chan, Call(a, o, c), Outside(a)
      PROVE  SelectInv'
  <2>1. [Next]_vars /\ UNCHANGED selvars
    BY <1>4 DEF Next, Outside
  <2>2. SelectTypeOK' /\ CallsOK'
    BY <2>1, AlongTypes
  <2> QED
    BY <1>4, <2>2, CallInOrder, OutsideRuns DEF SelectInv
<1>5. ASSUME NEW a \in Co, CoroutineStep(a) \/ Spawn(a) \/ Yield(a) \/ Terminate(a),
             Outside(a)
      PROVE  SelectInv'
  <2>1. [Next]_vars /\ UNCHANGED selvars /\ a \in Actor
    BY <1>5 DEF Next, Outside, Actor
  <2>2. SelectTypeOK' /\ CallsOK'
    BY <2>1, AlongTypes
  <2>3. Orderly'
    BY <1>5, <2>2, CodeInOrder, BlockInOrder, ParkInOrder, RelockInOrder
       DEF CoroutineStep
  <2>4. SelectorRuns'
    BY <1>5, <2>1, OutsideRuns
  <2> QED
    BY <2>2, <2>3, <2>4 DEF SelectInv
<1>6. ASSUME NEW h \in Hdl, HandlerStep(h), Outside(h) PROVE SelectInv'
  <2>1. [Next]_vars /\ UNCHANGED selvars /\ h \in Actor
    BY <1>6 DEF Next, Outside, Actor
  <2>2. SelectTypeOK' /\ CallsOK'
    BY <2>1, AlongTypes
  <2>3. UNCHANGED <<pc, op, ch, tgt, left, lock, w, r, selvars, status>>
    BY <1>6, <2>1 DEF HandlerStep, HandlerEnters, HandlerReturns, chvars, acvars
  <2>4. Orderly'
    BY <2>3, LoopInOrder
  <2> QED
    BY <1>6, <2>1, <2>2, <2>4, OutsideRuns DEF SelectInv
<1>7. CASE LoopThread /\ UNCHANGED selvars
  <2>1. [Next]_vars
    BY <1>7 DEF Next
  <2>2. SelectTypeOK' /\ CallsOK'
    BY <1>7, <2>1, AlongTypes
  <2>3. UNCHANGED <<pc, op, ch, tgt, left, lock, w, r, selvars>>
    BY <1>7 DEF LoopThread, chvars, acvars
  <2>4. \A c \in Co : status[c] = "WAITING" => status'[c] = "WAITING"
    <3>1. CASE Resume
      BY <1>0, <3>1 DEF Resume, TypeOK, RuntimeTypeOK
    <3>2. CASE ~Resume
      BY <1>7, <3>2 DEF LoopThread, LoopStep, Callback, Pop, ResumeTerminated, Resumed,
                        FlushOne, FlushEnd
    <3> QED
      BY <3>1, <3>2
  <2>5. SelectorRuns'
    <3>1. CASE Resume
      BY <1>0, <3>1 DEF Resume, SelectorRuns, TypeOK, RuntimeTypeOK
    <3>2. CASE ~Resume
      BY <1>7, <3>2 DEF LoopThread, LoopStep, Callback, Pop, ResumeTerminated, Resumed,
                        FlushOne, FlushEnd, SelectorRuns
    <3> QED
      BY <3>1, <3>2
  <2> QED
    BY <2>2, <2>3, <2>4, <2>5, LoopInOrder DEF SelectInv
<1>8. CASE UNCHANGED <<vars, selvars>>
  <2>1. [Next]_vars /\ UNCHANGED selvars
    BY <1>8
  <2>2. SelectTypeOK' /\ CallsOK'
    BY <2>1, AlongTypes
  <2>3. UNCHANGED <<pc, op, ch, tgt, left, lock, w, r, selvars, status, loop, cur>>
    BY <1>8 DEF vars, rtvars, chvars, acvars
  <2>4. Orderly'
    BY <2>3, LoopInOrder
  <2>5. SelectorRuns'
    BY <2>3, RunsOn DEF selvars
  <2> QED
    BY <2>2, <2>4, <2>5 DEF SelectInv
<1> QED
  BY <1>1, <1>2, <1>3, <1>4, <1>5, <1>6, <1>7, <1>8 DEF SelectNext

THEOREM SelectInvHolds == SelectSpec => []SelectInv
<1>1. SelectInv /\ [SelectNext]_<<vars, selvars>> => SelectInv'
  BY SelectStepInv
<1> QED
  BY <1>1, SelectInitially, PTL DEF SelectSpec

(* Every variable keeps its type while selects, calls that block, calls of *)
(* other threads and the loop interleave (lc_channel.c:208-331).           *)
THEOREM SelectTypeCorrect == SelectSpec => []SelectTypeOK
<1>1. SelectInv => SelectTypeOK
  BY DEF SelectInv
<1> QED
  BY <1>1, SelectInvHolds, PTL

(* What wblock and rblock of a select put into the lists is on its stack:  *)
(* the places of lc_channel.c:246-284.  A waiter that is in a list belongs *)
(* to a coroutine that is still in the call, or still in the select and    *)
(* with the channel among its cases; nobody can follow it to a frame that  *)
(* has been left, whatever order the wakers, the closes and the            *)
(* deregistrations come in.                                                *)
THEOREM WaitersDoNotDangle == SelectSpec => []NoDanglingWaiter
<1>1. SelectInv => NoDanglingWaiter
  <2> SUFFICES ASSUME SelectInv, NEW k \in Chan, NEW c \in Co
               PROVE  /\ \A i \in 1..Len(w[k]) : w[k][i].co = c =>
                             IF w[k][i].kind = "plain"
                             THEN pc[c] \in {"parked", "asleep"} /\ ch[c] = k
                             ELSE sel[c] \in {"parked", "relock", "dereg"} /\ In(c, "push", k)
                      /\ \A i \in 1..Len(r[k]) : r[k][i].co = c =>
                             IF r[k][i].kind = "plain"
                             THEN pc[c] \in {"parked", "asleep"} /\ ch[c] = k
                             ELSE sel[c] \in {"parked", "relock", "dereg"} /\ In(c, "pop", k)
    BY DEF NoDanglingWaiter
  <2>1. Waiter_OK(c) /\ c # None /\ w[k] \in Seq(Waiter) /\ r[k] \in Seq(Waiter)
    BY RuntimeAssumption
       DEF SelectInv, SelectTypeOK, TypeOK, ChannelTypeOK, Orderly
  <2>2. ASSUME NEW s \in Seq(Waiter), NEW i \in 1..Len(s), s[i].co = c
        PROVE  /\ s[i].kind = "plain" => c \in Those(s, "plain")
               /\ s[i].kind # "plain" => c \in Those(s, "select")
    <3>1. s[i] \in Waiter
      OBVIOUS
    <3>2. s[i].kind \in {"plain", "select"}
      BY <3>1 DEF Waiter
    <3> QED
      BY <2>1, <2>2, <3>2 DEF Those
  <2>3. ASSUME NEW i \in 1..Len(w[k]), w[k][i].co = c
        PROVE  IF w[k][i].kind = "plain"
               THEN pc[c] \in {"parked", "asleep"} /\ ch[c] = k
               ELSE sel[c] \in {"parked", "relock", "dereg"} /\ In(c, "push", k)
    <3>1. /\ w[k][i].kind = "plain" => c \in Those(w[k], "plain")
          /\ w[k][i].kind # "plain" => c \in Those(w[k], "select")
      BY <2>1, <2>2, <2>3
    <3> QED
      BY <2>1, <3>1 DEF Waiter_OK, Waits, Sleeps, Selects
  <2>4. ASSUME NEW i \in 1..Len(r[k]), r[k][i].co = c
        PROVE  IF r[k][i].kind = "plain"
               THEN pc[c] \in {"parked", "asleep"} /\ ch[c] = k
               ELSE sel[c] \in {"parked", "relock", "dereg"} /\ In(c, "pop", k)
    <3>1. /\ r[k][i].kind = "plain" => c \in Those(r[k], "plain")
          /\ r[k][i].kind # "plain" => c \in Those(r[k], "select")
      BY <2>1, <2>2, <2>4
    <3> QED
      BY <2>1, <3>1 DEF Waiter_OK, Waits, Sleeps, Selects
  <2> QED
    BY <2>3, <2>4
<1> QED
  BY <1>1, SelectInvHolds, PTL

-----------------------------------------------------------------------------
(* Where an element is.  The waiters of selects do not count: theirs is    *)
(* only an offer.                                                          *)
PlainIn(e, s) == \E i \in 1..Len(s) : s[i].kind = "plain" /\ s[i].ele = e
Lies(e, k) == InQueue(e, queue[k]) \/ PlainIn(e, w[k])
Had(e) == e \in received \/ \E b \in Actor : op[b] \in Pops /\ ele[b] = e
Somewhere(e) == Had(e) \/ \E k \in Chan : Lies(e, k)

(* Who has a call's element still to hand over: a push that has not, or    *)
(* that met a select's waiter, and a select that has not made its call.    *)
Owes(a) ==
    IF op[a] \in Pushes
    THEN \/ pc[a] \in {"lock", "refused"}
         \/ pc[a] \in {"wake", "spin", "join"} /\ tgt[a].kind = "select"
    ELSE sel[a] # "none"

Unused(a) == \A e \in Elem : e.by = a /\ e.n = left[a] + 1 => ~Somewhere(e)

(* What is anywhere of an actor's present call is what the call pushes;    *)
(* nothing is while it owes it.                                            *)
Offer_OK(a) ==
    /\ pc[a] \in {"new", "user", "dead"} => op[a] = None
    /\ op[a] \in Pushes =>
           /\ ele[a] \in Elem /\ ele[a].by = a /\ ele[a].on = ch[a]
           /\ ele[a].n = left[a] + 1
           /\ \A e \in Elem : e.by = a /\ e.n = left[a] + 1 /\ Somewhere(e) => e = ele[a]
    /\ Owes(a) => Unused(a)

Lying == \A k \in Chan : \A e : Lies(e, k) => e \in Elem /\ e.on = k

Single ==
    /\ \A e \in Elem : Somewhere(e) => e.n > left[e.by]
    /\ \A d, e \in Elem :
           d.by = e.by /\ d.n = e.n /\ Somewhere(d) /\ Somewhere(e) => d = e

Offering == Lying /\ Single /\ \A a \in Actor : Offer_OK(a)

(* A step of a brings nothing anywhere, or only what a pushes.             *)
NoMore ==
    /\ \A k \in Chan : \A e : Lies(e, k)' => Lies(e, k)
    /\ \A e \in Elem : Had(e)' => Somewhere(e)

OneMore(a) ==
    /\ \A k \in Chan : \A e :
           Lies(e, k)' => Lies(e, k) \/ (op[a] \in Pushes /\ e = ele[a] /\ k = ch[a])
    /\ \A e \in Elem : Had(e)' => Somewhere(e) \/ (op[a] \in Pushes /\ e = ele[a])

LEMMA Appears ==
    ASSUME NEW a \in Actor
    PROVE  /\ NoMore => OneMore(a) /\ \A e \in Elem : Somewhere(e)' => Somewhere(e)
           /\ OneMore(a) => \A e \in Elem :
                  Somewhere(e)' => Somewhere(e) \/ (op[a] \in Pushes /\ e = ele[a])
  BY DEF NoMore, OneMore, Somewhere

(* The other actors keep their calls and what they push.                   *)
Unmoved(a) ==
    \A b \in Actor \ {a} :
        /\ pc'[b] = pc[b] /\ op'[b] = op[b] /\ ch'[b] = ch[b] /\ tgt'[b] = tgt[b]
        /\ sel'[b] = sel[b] /\ left'[b] = left[b]
        /\ op[b] \in Pushes => ele'[b] = ele[b]

LEMMA OffersMove ==
    ASSUME Offering, NEW a \in Actor, OneMore(a), Unmoved(a), Offer_OK(a)',
           left \in [Actor -> Nat], left' \in [Actor -> Nat], left'[a] <= left[a]
    PROVE  Offering'
<1>1. Offer_OK(a) /\ Lying /\ Single
  BY DEF Offering
<1>2. ASSUME NEW e \in Elem, Somewhere(e)'
      PROVE  Somewhere(e) \/ (op[a] \in Pushes /\ e = ele[a] /\ e.by = a /\ e.n = left[a] + 1)
  BY <1>1, <1>2, Appears DEF Offer_OK
<1>3. Lying'
  <2> SUFFICES ASSUME NEW k \in Chan, NEW e, Lies(e, k)' PROVE e \in Elem /\ e.on = k
    BY DEF Lying
  <2>1. Lies(e, k) \/ (op[a] \in Pushes /\ e = ele[a] /\ k = ch[a])
    BY DEF OneMore
  <2> QED
    BY <1>1, <2>1 DEF Lying, Offer_OK
<1>4. \A b \in Actor : left[b] \in Nat /\ left'[b] \in Nat /\ left'[b] <= left[b]
  BY DEF Unmoved
<1>5. ASSUME NEW e \in Elem PROVE e.by \in Actor /\ e.n \in Nat
  BY <1>5 DEF Elem
<1>6. ASSUME NEW e \in Elem, Somewhere(e)' PROVE e.n > left'[e.by]
  <2>1. CASE Somewhere(e)
    <3>1. e.n > left[e.by]
      BY <1>1, <2>1 DEF Single
    <3> QED
      BY <1>4, <1>5, <3>1
  <2>2. CASE e.by = a /\ e.n = left[a] + 1
    BY <1>4, <2>2
  <2> QED
    BY <1>2, <1>6, <2>1, <2>2
<1>7. ASSUME NEW d \in Elem, NEW e \in Elem, d.by = e.by, d.n = e.n, Somewhere(d)',
             Somewhere(e)'
      PROVE  d = e
  <2>1. CASE Somewhere(d) /\ Somewhere(e)
    BY <1>1, <1>7, <2>1 DEF Single
  <2>2. ASSUME ~Somewhere(d) PROVE d = e
    BY <1>1, <1>2, <1>7, <2>2 DEF Offer_OK
  <2>3. ASSUME ~Somewhere(e) PROVE d = e
    BY <1>1, <1>2, <1>7, <2>3 DEF Offer_OK
  <2> QED
    BY <2>1, <2>2, <2>3
<1>8. ASSUME NEW b \in Actor, b # a PROVE Offer_OK(b)'
  <2>1. Offer_OK(b)
    BY DEF Offering
  <2>2. /\ pc'[b] = pc[b] /\ op'[b] = op[b] /\ ch'[b] = ch[b] /\ tgt'[b] = tgt[b]
        /\ sel'[b] = sel[b] /\ left'[b] = left[b]
        /\ op[b] \in Pushes => ele'[b] = ele[b]
    BY <1>8 DEF Unmoved
  <2>3. \A e \in Elem : e.by = b /\ Somewhere(e)' => Somewhere(e)
    BY <1>2, <1>8
  <2>4. Owes(b)' => Owes(b)
    BY <2>2 DEF Owes
  <2>5. Unused(b) => Unused(b)'
    BY <2>2, <2>3 DEF Unused
  <2>6. op'[b] \in Pushes =>
           /\ ele'[b] \in Elem /\ ele'[b].by = b /\ ele'[b].on = ch'[b]
           /\ ele'[b].n = left'[b] + 1
           /\ \A e \in Elem : e.by = b /\ e.n = left'[b] + 1 /\ Somewhere(e)' => e = ele'[b]
    BY <2>1, <2>2, <2>3 DEF Offer_OK
  <2> QED
    BY <2>1, <2>2, <2>4, <2>5, <2>6 DEF Offer_OK
<1> QED
  BY <1>3, <1>6, <1>7, <1>8 DEF Offering, Single

(* What a step of a must do for its own part.                              *)
Keeps(a) ==
    /\ left'[a] = left[a]
    /\ pc'[a] \in {"new", "user", "dead"} => op'[a] = None
    /\ op'[a] \in Pushes => op[a] \in Pushes /\ ele'[a] = ele[a] /\ ch'[a] = ch[a]
    /\ Owes(a)' => Owes(a) /\ NoMore

LEMMA OwnOffer ==
    ASSUME Offering, NEW a \in Actor, OneMore(a), Keeps(a)
    PROVE  Offer_OK(a)'
<1>1. Offer_OK(a)
  BY DEF Offering
<1>2. Owes(a)' => Unused(a)'
  <2> SUFFICES ASSUME Owes(a)' PROVE Unused(a)'
    OBVIOUS
  <2>1. Owes(a) /\ NoMore /\ left'[a] = left[a]
    BY DEF Keeps
  <2>2. \A e \in Elem : Somewhere(e)' => Somewhere(e)
    BY <2>1, Appears
  <2>3. Unused(a)
    BY <1>1, <2>1 DEF Offer_OK
  <2> QED
    BY <2>1, <2>2, <2>3 DEF Unused
<1>3. op'[a] \in Pushes =>
         /\ ele'[a] \in Elem /\ ele'[a].by = a /\ ele'[a].on = ch'[a]
         /\ ele'[a].n = left'[a] + 1
         /\ \A e \in Elem : e.by = a /\ e.n = left'[a] + 1 /\ Somewhere(e)' => e = ele'[a]
  BY <1>1, Appears DEF Keeps, Offer_OK
<1> QED
  BY <1>2, <1>3 DEF Offer_OK, Keeps

LEMMA StepOffers ==
    ASSUME SelectTypeOK, SelectTypeOK', Offering, NEW a \in Actor, OneMore(a), Unmoved(a), Keeps(a)
    PROVE  Offering'
<1>1. left \in [Actor -> Nat] /\ left' \in [Actor -> Nat]
  BY ChannelAssumption DEF SelectTypeOK, TypeOK, CallTypeOK
<1>2. left'[a] <= left[a]
  BY <1>1 DEF Keeps
<1> QED
  BY <1>1, <1>2, OwnOffer, OffersMove

LEMMA InTail ==
    ASSUME NEW s \in Seq(Waiter), s # <<>>
    PROVE  /\ \A e : PlainIn(e, Tail(s)) => PlainIn(e, s)
           /\ Head(s).kind = "plain" => PlainIn(Head(s).ele, s)
<1>1. /\ Head(s) = s[1] /\ 1 \in 1..Len(s)
      /\ \A i \in 1..Len(Tail(s)) : Tail(s)[i] = s[i + 1] /\ i + 1 \in 1..Len(s)
  OBVIOUS
<1>2. ASSUME NEW e, PlainIn(e, Tail(s)) PROVE PlainIn(e, s)
  <2>1. PICK i \in 1..Len(Tail(s)) : Tail(s)[i].kind = "plain" /\ Tail(s)[i].ele = e
    BY <1>2 DEF PlainIn
  <2> QED
    BY <1>1, <2>1 DEF PlainIn
<1>3. Head(s).kind = "plain" => PlainIn(Head(s).ele, s)
  BY <1>1 DEF PlainIn
<1>4. \A e : PlainIn(e, Tail(s)) => PlainIn(e, s)
  BY <1>2
<1> QED
  BY <1>3, <1>4

LEMMA InPush ==
    ASSUME NEW s \in Seq(Waiter), NEW x \in Waiter
    PROVE  \A e : PlainIn(e, <<x>> \o s) => PlainIn(e, s) \/ (x.kind = "plain" /\ e = x.ele)
<1> DEFINE t == <<x>> \o s
<1>1. /\ t[1] = x
      /\ \A i \in 1..Len(t) : i = 1 \/ (i - 1 \in 1..Len(s) /\ s[i - 1] = t[i])
  OBVIOUS
<1> HIDE DEF t
<1>2. ASSUME NEW e, PlainIn(e, t) PROVE PlainIn(e, s) \/ (x.kind = "plain" /\ e = x.ele)
  <2>1. PICK i \in 1..Len(t) : t[i].kind = "plain" /\ t[i].ele = e
    BY <1>2 DEF PlainIn
  <2> QED
    BY <1>1, <2>1 DEF PlainIn
<1>3. \A e : PlainIn(e, t) => PlainIn(e, s) \/ (x.kind = "plain" /\ e = x.ele)
  BY <1>2
<1> QED
  BY <1>3 DEF t

LEMMA InWithout ==
    ASSUME NEW s \in Seq(Waiter), NEW a
    PROVE  \A e : PlainIn(e, Without(s, a)) => PlainIn(e, s)
<1>1. CASE PlacesOf(a, s) = {}
  <2>1. Without(s, a) = s
    BY <1>1 DEF Without, PlacesOf
  <2> QED
    BY <2>1
<1>2. CASE PlacesOf(a, s) # {}
  <2>1. PICK t : t = Without(s, a)
    OBVIOUS
  <2>2. \E n \in 1..Len(s) : Cut(s, t, a, n)
    BY <1>2, <2>1, CutOne
  <2>3. \A i \in 1..Len(t) : \E j \in 1..Len(s) : t[i] = s[j]
    BY <2>2 DEF Cut
  <2>4. ASSUME NEW e, PlainIn(e, t) PROVE PlainIn(e, s)
    <3>1. PICK i \in 1..Len(t) : t[i].kind = "plain" /\ t[i].ele = e
      BY <2>4 DEF PlainIn
    <3> QED
      BY <2>3, <3>1 DEF PlainIn
  <2> QED
    BY <2>1, <2>4
<1> QED
  BY <1>1, <1>2

(* Nothing comes anywhere when the buffers stay, the lists of writers get  *)
(* nothing plain and the pops get nothing.                                 *)
LEMMA NothingComes ==
    ASSUME queue' = queue, received' = received,
           \A k \in Chan : \A e : PlainIn(e, w'[k]) => PlainIn(e, w[k]),
           \A b \in Actor : op'[b] \in Pops =>
               (op[b] \in Pops /\ ele'[b] = ele[b]) \/ ele'[b] \notin Elem
    PROVE  NoMore
<1>1. ASSUME NEW k \in Chan, NEW e, Lies(e, k)' PROVE Lies(e, k)
  BY <1>1 DEF Lies, InQueue, PlainIn
<1>2. ASSUME NEW e \in Elem, Had(e)' PROVE Somewhere(e)
  BY <1>2 DEF Had, Somewhere
<1> QED
  BY <1>1, <1>2 DEF NoMore

(* A step of a call, given what it brings about and that a still owes only *)
(* what it owed.                                                           *)
LEMMA CallOffers ==
    ASSUME SelectInv, SelectTypeOK', Offering, NEW a \in Actor, SelectActorStep(a),
           CallStep(a), OneMore(a),
           \A b \in Actor \ {a} : op[b] \in Pushes => ele'[b] = ele[b],
           pc'[a] = "user" => op'[a] = None,
           pc'[a] # "user" /\ op[a] \in Pushes => ele'[a] = ele[a],
           Owes(a)' => Owes(a) /\ NoMore
    PROVE  Offering'
<1>1. SelectTypeOK /\ Along(a) /\ left \in [Actor -> 0..Budget]
  BY SelectAlong DEF SelectInv, SelectTypeOK, TypeOK, CallTypeOK
<1>2. Unmoved(a)
  BY <1>1 DEF Unmoved, CallStep, Along
<1>3. Keeps(a)
  BY NoneNotOp DEF Keeps, CallStep, Pushes, Op, Holding
<1> QED
  BY <1>1, <1>2, <1>3, StepOffers

(* A call that ends leaves nothing owed, unless it is the call of a select *)
(* and gave up.                                                            *)
LEMMA OwesAtEnd ==
    ASSUME SelectInv, NEW a \in Actor, SelectActorStep(a), pc[a] \in {"lock"} \cup Holding,
           pc'[a] = "user", op'[a] = None, Owes(a)'
    PROVE  pc[a] = "refused" /\ sel[a] = "try"
<1>1. sel[a] \in {"none", "try"} /\ sel \in [Actor -> SelPc]
  BY CallPlace DEF SelectInv, SelectTypeOK
<1>2. sel'[a] # "none"
  BY NoneNotOp DEF Owes, Pushes, Op
<1>3. CASE sel[a] = "try"
  <2>1. sel'[a] = IF pc[a] = "refused" THEN "lock" ELSE "none"
    BY <1>1, <1>3 DEF SelectActorStep
  <2> QED
    BY <1>2, <1>3, <2>1
<1>4. CASE sel[a] = "none"
  BY <1>2, <1>4 DEF SelectActorStep
<1> QED
  BY <1>1, <1>3, <1>4

LEMMA OwesGoingOn ==
    ASSUME SelectInv, NEW a \in Actor, SelectActorStep(a), pc[a] \in {"lock"} \cup Holding,
           pc'[a] # "user"
    PROVE  sel'[a] = sel[a]
  BY DEF SelectActorStep

(* A call that ends with nothing left to hand over.                        *)
LEMMA EndOffers ==
    ASSUME SelectInv, SelectTypeOK', Offering, NEW a \in Actor, SelectActorStep(a),
           NEW acc, NEW rec, Return(a, acc, rec), pc[a] \in {"lock"} \cup Holding, left' = left,
           OneMore(a), pc[a] = "refused" /\ sel[a] = "try" => Owes(a) /\ NoMore
    PROVE  Offering'
<1>1. TypeOK /\ ch[a] \in Chan
  BY CallPlace
<1>2. CallStep(a) /\ pc'[a] = "user"
  BY <1>1, ReturnStep
<1>3. op'[a] = None /\ Others(a)
  BY <1>1, ReturnMoves
<1>4. Owes(a)' => Owes(a) /\ NoMore
  BY <1>2, <1>3, OwesAtEnd
<1> QED
  BY <1>2, <1>3, <1>4, CallOffers DEF Others

(* What the lists are made of, for the steps below.                        *)
LEMMA ListTypes ==
    ASSUME SelectInv
    PROVE  /\ queue \in [Chan -> Seq(Elem)] /\ w \in [Chan -> Seq(Waiter)]
           /\ r \in [Chan -> Seq(Waiter)] /\ ele \in [Actor -> Elem \cup {None}]
           /\ op \in [Actor -> Op \cup {None}] /\ None \notin Op /\ None \notin Elem
           /\ pc \in [Actor -> Pc] /\ tgt \in [Actor -> Waiter \cup {None}]
           /\ received \in SUBSET Elem
  BY NoneNotOp, ElemAssumption
     DEF SelectInv, SelectTypeOK, TypeOK, ChannelTypeOK, CallTypeOK, HistoryTypeOK

LEMMA LessComes == NoMore => \A a \in Actor : OneMore(a)
  BY Appears

(* What a pop returns was a writer's, in the buffer, or in its hands.      *)
LEMMA ReturnComes ==
    ASSUME SelectInv, NEW a \in Actor, NEW acc, NEW rec, Return(a, acc, rec),
           queue' = queue, w' = w, \A e \in Elem : e \in rec => Somewhere(e)
    PROVE  NoMore
<1>1. /\ \A b \in Actor \ {a} : op'[b] = op[b] /\ ele'[b] = ele[b]
      /\ op'[a] = None
  BY ListTypes DEF Return
<1>2. ASSUME NEW e \in Elem, Had(e)' PROVE Somewhere(e)
  <2>1. received' = received \cup (rec \ {None})
    BY DEF Return
  <2>2. CASE e \in received'
    <3>1. e \in received \/ e \in rec
      BY <2>1, <2>2
    <3> QED
      BY <3>1 DEF Somewhere, Had
  <2>3. CASE \E b \in Actor : op'[b] \in Pops /\ ele'[b] = e
    <3>1. PICK b \in Actor : op'[b] \in Pops /\ ele'[b] = e
      BY <2>3
    <3>2. b # a
      BY <1>1, <3>1, ListTypes DEF Pops, Op
    <3> QED
      BY <1>1, <3>1, <3>2 DEF Somewhere, Had
  <2> QED
    BY <1>2, <2>2, <2>3 DEF Had
<1>3. \A k \in Chan : \A e : Lies(e, k)' => Lies(e, k)
  BY DEF Lies, InQueue, PlainIn
<1> QED
  BY <1>2, <1>3 DEF NoMore

LEMMA QuietEndOffers ==
    ASSUME SelectInv, SelectTypeOK', Offering, NEW a \in Actor, SelectActorStep(a),
           EnterClosed(a) \/ GiveUp(a) \/ Drained(a)
    PROVE  Offering'
<1>1. /\ pc[a] \in {"lock"} \cup Holding /\ left' = left /\ queue' = queue /\ w' = w
      /\ \E acc : Return(a, acc, {})
      /\ pc[a] = "refused" => op[a] \in {"trypush", "trypop"}
  BY DEF EnterClosed, GiveUp, Drained, Enters, Holding, chvars
<1>2. NoMore
  BY <1>1, ReturnComes
<1>3. pc[a] = "refused" /\ sel[a] = "try" => Owes(a)
  BY DEF Owes
<1> QED
  BY <1>1, <1>2, <1>3, LessComes, EndOffers

LEMMA PushToQueueOffers ==
    ASSUME SelectInv, SelectTypeOK', Offering, NEW a \in Actor, SelectActorStep(a),
           PushToQueue(a)
    PROVE  Offering'
<1>1. /\ pc[a] \in {"lock"} \cup Holding /\ pc[a] # "refused" /\ left' = left /\ w' = w
      /\ Return(a, {ele[a]}, {}) /\ op[a] \in Pushes
      /\ queue' = [queue EXCEPT ![ch[a]] = Append(@, ele[a])]
  BY DEF PushToQueue, Enters, Holding, chvars
<1>2. ch[a] \in Chan /\ ele[a] \in Elem
  BY <1>1, CallPlace DEF Offering, Offer_OK
<1>3. \A k \in Chan : queue'[k] = IF k = ch[a] THEN Append(queue[k], ele[a]) ELSE queue[k]
  BY <1>1, <1>2, ListTypes
<1>4. ASSUME NEW k \in Chan, NEW e, Lies(e, k)'
      PROVE  Lies(e, k) \/ (e = ele[a] /\ k = ch[a])
  <2>1. InQueue(e, queue'[k]) \/ PlainIn(e, w[k])
    BY <1>1, <1>4 DEF Lies, InQueue, PlainIn
  <2>2. InQueue(e, queue'[k]) => InQueue(e, queue[k]) \/ (e = ele[a] /\ k = ch[a])
    <3>1. queue[k] \in Seq(Elem)
      BY ListTypes
    <3>2. InQueue(e, Append(queue[k], ele[a])) => InQueue(e, queue[k]) \/ e = ele[a]
      BY <1>2, <3>1, QueueAppend
    <3> QED
      BY <1>3, <3>2
  <2> QED
    BY <2>1, <2>2 DEF Lies
<1>5. ASSUME NEW e \in Elem, Had(e)' PROVE Somewhere(e)
  <2>1. /\ \A b \in Actor \ {a} : op'[b] = op[b] /\ ele'[b] = ele[b]
        /\ op'[a] = None /\ received' = received
    BY <1>1, ListTypes DEF Return
  <2> QED
    BY <1>5, <2>1, ListTypes DEF Somewhere, Had, Pops, Op
<1>6. OneMore(a)
  BY <1>1, <1>4, <1>5 DEF OneMore
<1> QED
  BY <1>1, <1>6, EndOffers

LEMMA PopFromQueueOffers ==
    ASSUME SelectInv, SelectTypeOK', Offering, NEW a \in Actor, SelectActorStep(a),
           PopFromQueue(a)
    PROVE  Offering'
<1>1. /\ pc[a] \in {"lock"} \cup Holding /\ pc[a] # "refused" /\ left' = left /\ w' = w
      /\ Return(a, {}, {Head(queue[ch[a]])}) /\ queue[ch[a]] # <<>>
      /\ queue' = [queue EXCEPT ![ch[a]] = Tail(@)]
  BY DEF PopFromQueue, Enters, Holding, chvars
<1>2. ch[a] \in Chan
  BY <1>1, CallPlace
<1>3. \A k \in Chan : queue'[k] = IF k = ch[a] THEN Tail(queue[k]) ELSE queue[k]
  BY <1>1, <1>2, ListTypes
<1>4. \A c : InQueue(c, queue[ch[a]]) <=>
                 c = Head(queue[ch[a]]) \/ InQueue(c, Tail(queue[ch[a]]))
  <2>1. queue[ch[a]] \in Seq(Elem)
    BY <1>2, ListTypes
  <2> QED
    BY <1>1, <2>1, QueueTail
<1>5. ASSUME NEW k \in Chan, NEW e, Lies(e, k)' PROVE Lies(e, k)
  <2>1. InQueue(e, queue'[k]) \/ PlainIn(e, w[k])
    BY <1>1, <1>5 DEF Lies, InQueue, PlainIn
  <2>2. InQueue(e, queue'[k]) => InQueue(e, queue[k])
    BY <1>3, <1>4
  <2> QED
    BY <2>1, <2>2 DEF Lies
<1>6. ASSUME NEW e \in Elem, Had(e)' PROVE Somewhere(e)
  <2>1. /\ \A b \in Actor \ {a} : op'[b] = op[b] /\ ele'[b] = ele[b]
        /\ op'[a] = None /\ received' \subseteq received \cup {Head(queue[ch[a]])}
    BY <1>1, ListTypes DEF Return
  <2>2. CASE e = Head(queue[ch[a]])
    <3>1. InQueue(e, queue[ch[a]])
      BY <1>4, <2>2
    <3> QED
      BY <1>2, <3>1 DEF Somewhere, Lies
  <2>3. CASE e # Head(queue[ch[a]])
    BY <1>6, <2>1, <2>3, ListTypes DEF Somewhere, Had, Pops, Op
  <2> QED
    BY <2>2, <2>3
<1>7. NoMore
  BY <1>5, <1>6 DEF NoMore
<1> QED
  BY <1>1, <1>7, LessComes, EndOffers

(* A step that only goes on with the call.                                 *)
LEMMA PlaceOffers ==
    ASSUME SelectInv, SelectTypeOK', Offering, NEW a \in Actor, SelectActorStep(a),
           CallStep(a), pc'[a] # "user", queue' = queue, UNCHANGED <<ele, received>>,
           op' = op, \A k \in Chan : \A e : PlainIn(e, w'[k]) => PlainIn(e, w[k]),
           op[a] \in Pushes =>
               \/ pc'[a] = "refused" /\ pc[a] = "lock"
               \/ tgt' = tgt /\ pc'[a] \in {"spin", "join"} /\ pc[a] \in {"wake", "spin"}
               \/ pc'[a] = "refused" /\ pc[a] \in {"wake", "join"} /\ tgt[a].kind = "select"
    PROVE  Offering'
<1>1. NoMore
  BY NothingComes
<1>2. sel'[a] = sel[a]
  BY OwesGoingOn DEF CallStep
<1>3. Owes(a)' => Owes(a)
  BY <1>2 DEF Owes
<1> QED
  BY <1>1, <1>3, LessComes, CallOffers

LEMMA HoldOffers ==
    ASSUME SelectInv, SelectTypeOK', Offering, NEW a \in Actor, SelectActorStep(a),
           EnterRefused(a) \/ Wake(a) \/ Close(a)
    PROVE  Offering'
<1>1. /\ pc[a] \in {"lock"} \cup Holding /\ lock[ch[a]] \in {None, a}
      /\ UNCHANGED <<queue, w, acvars, received, left>>
      /\ \E place \in {"refused", "join", "spin", "drain"} : HoldAt(a, place)
      /\ op[a] \in Pushes =>
             \/ pc[a] = "lock" /\ HoldAt(a, "refused")
             \/ pc[a] \in {"wake", "spin"} /\ (HoldAt(a, "join") \/ HoldAt(a, "spin"))
  <2>1. CASE EnterRefused(a) \/ Close(a)
    BY <2>1 DEF EnterRefused, Close, Enters, chvars, history, acvars, Pushes
  <2>2. CASE Wake(a)
    <3>1. pc[a] \in {"wake", "spin"} /\ UNCHANGED <<queue, w, acvars, received, left>>
      BY <2>2 DEF Wake, chvars, history
    <3>2. lock[ch[a]] = a
      BY <3>1, CallPlace DEF Holding
    <3>3. HoldAt(a, "join") \/ HoldAt(a, "spin")
      BY <2>2 DEF Wake
    <3> QED
      BY <3>1, <3>2, <3>3 DEF Holding
  <2> QED
    BY <2>1, <2>2
<1>2. ch[a] \in Chan /\ TypeOK
  BY <1>1, CallPlace
<1>3. PICK place \in {"refused", "join", "spin", "drain"} : HoldAt(a, place)
  BY <1>1
<1>4. CallStep(a) /\ pc'[a] = place
  BY <1>1, <1>2, <1>3, HoldStep DEF acvars, Holding
<1>5. op[a] \in Pushes =>
          \/ pc'[a] = "refused" /\ pc[a] = "lock"
          \/ tgt' = tgt /\ pc'[a] \in {"spin", "join"} /\ pc[a] \in {"wake", "spin"}
  BY <1>1, ListTypes DEF HoldAt, acvars
<1>6. UNCHANGED <<ele, received>> /\ op' = op /\ queue' = queue
      /\ \A k \in Chan : \A e : PlainIn(e, w'[k]) => PlainIn(e, w[k])
  BY <1>1 DEF acvars
<1> QED
  BY <1>4, <1>5, <1>6, PlaceOffers

(* A list of writers that loses its first one.                             *)
LEMMA WritersLess ==
    ASSUME SelectInv, NEW c \in Chan, w[c] # <<>>, w' = [w EXCEPT ![c] = Tail(@)]
    PROVE  \A k \in Chan : \A e : PlainIn(e, w'[k]) => PlainIn(e, w[k])
<1>1. w[c] \in Seq(Waiter) /\ \A k \in Chan : w'[k] = IF k = c THEN Tail(w[k]) ELSE w[k]
  BY ListTypes
<1>2. \A e : PlainIn(e, Tail(w[c])) => PlainIn(e, w[c])
  BY <1>1, InTail
<1> QED
  BY <1>1, <1>2

LEMMA DrainOffers ==
    ASSUME SelectInv, SelectTypeOK', Offering, NEW a \in Actor, SelectActorStep(a),
           DrainWriter(a) \/ DrainReader(a)
    PROVE  Offering'
<1>1. /\ pc[a] = "drain" /\ HoldAt(a, "wake") /\ left' = left
      /\ queue' = queue /\ op' = op /\ ch' = ch /\ ele' = ele /\ received' = received
      /\ \E x : tgt' = [tgt EXCEPT ![a] = x]
  BY DEF DrainWriter, DrainReader, history
<1>2. ch[a] \in Chan /\ TypeOK /\ lock[ch[a]] = a
  BY <1>1, CallPlace DEF Holding
<1>3. op[a] \notin Pushes
  BY <1>1 DEF SelectInv, CallsOK, Call_OK, Pushes
<1>4. \A b \in Actor \ {a} : tgt'[b] = tgt[b]
  BY <1>1, ListTypes
<1>5. CallStep(a) /\ pc'[a] = "wake"
  BY <1>1, <1>2, <1>4, HoldStep DEF Holding
<1>6. \A k \in Chan : \A e : PlainIn(e, w'[k]) => PlainIn(e, w[k])
  <2>1. CASE DrainWriter(a)
    BY <1>2, <2>1, WritersLess DEF DrainWriter
  <2>2. CASE DrainReader(a)
    BY <2>2 DEF DrainReader
  <2> QED
    BY <2>1, <2>2
<1> QED
  BY <1>1, <1>3, <1>5, <1>6, PlaceOffers

LEMMA ServedOffers ==
    ASSUME SelectInv, SelectTypeOK', Offering, NEW a \in Actor, SelectActorStep(a), Served(a),
           pc[a] \in {"wake", "join"}, UNCHANGED <<queue, w, left>>
    PROVE  Offering'
<1>1. CallStep(a) /\ pc[a] \in {"lock"} \cup Holding /\ pc[a] # "refused"
      /\ ch[a] \in Chan /\ TypeOK
  BY ServedStep, CallPlace DEF Holding
<1>2. CASE op[a] = "close" \/ tgt[a].kind = "select"
  <2>1. PICK place \in {"drain", "refused"} :
            /\ HoldAt(a, place) /\ UNCHANGED <<acvars, history>>
            /\ op[a] # "close" => place = "refused"
    BY <1>2 DEF Served
  <2>2. pc'[a] = place
    BY <2>1, ListTypes DEF HoldAt
  <2>3. op[a] \in Pushes => op[a] # "close"
    BY DEF Pushes
  <2>4. op' = op /\ UNCHANGED <<ele, received>>
        /\ \A k \in Chan : \A e : PlainIn(e, w'[k]) => PlainIn(e, w[k])
    BY <2>1 DEF acvars, history
  <2> QED
    BY <1>1, <1>2, <2>1, <2>2, <2>3, <2>4, PlaceOffers
<1>3. CASE ~(op[a] = "close" \/ tgt[a].kind = "select")
  <2>1. PICK acc, rec : Return(a, acc, rec)
                        /\ (rec = {} \/ (op[a] \notin Pushes /\ rec = {ele[a]}))
    BY <1>3 DEF Served
  <2>2. op[a] \in Pops \/ op[a] \in Pushes
    <3>1. op[a] \in Op
      BY <1>1 DEF SelectInv, CallsOK, Call_OK, Holding
    <3> QED
      BY <1>3, <3>1 DEF Op, Pops, Pushes
  <2>3. \A e \in Elem : e \in rec => Somewhere(e)
    BY <2>1, <2>2 DEF Somewhere, Had
  <2>4. NoMore
    BY <2>1, <2>3, ReturnComes
  <2> QED
    BY <1>1, <2>1, <2>4, LessComes, EndOffers
<1> QED
  BY <1>2, <1>3

(* A pop takes the element of a waiting writer that is no select.          *)
LEMMA PopFromWriterOffers ==
    ASSUME SelectInv, SelectTypeOK', Offering, NEW a \in Actor, SelectActorStep(a),
           PopFromWriter(a)
    PROVE  Offering'
<1>1. PICK c, x : c = ch[a] /\ x = Head(w[c])
  OBVIOUS
<1>2. /\ pc[a] = "lock" /\ lock[c] = None /\ op[a] \in Pops /\ HoldAt(a, "wake")
      /\ left' = left /\ w[c] # <<>> /\ w' = [w EXCEPT ![c] = Tail(@)]
      /\ queue' = queue /\ op' = op /\ ch' = ch /\ received' = received
      /\ tgt' = [tgt EXCEPT ![a] = x]
      /\ ele' = IF x.kind = "plain" THEN [ele EXCEPT ![a] = x.ele] ELSE ele
  BY <1>1 DEF PopFromWriter, Enters, history
<1>3. c \in Chan /\ TypeOK
  BY <1>1, <1>2, CallPlace
<1>4. /\ \A b \in Actor \ {a} : tgt'[b] = tgt[b] /\ ele'[b] = ele[b]
      /\ ele'[a] = IF x.kind = "plain" THEN x.ele ELSE ele[a]
  BY <1>2, ListTypes
<1>5. CallStep(a) /\ pc'[a] = "wake"
  BY <1>1, <1>2, <1>3, <1>4, HoldStep DEF Holding
<1>6. op[a] \notin Pushes
  BY <1>2 DEF Pops, Pushes
<1>7. x.kind = "plain" => PlainIn(x.ele, w[c])
  <2>1. w[c] \in Seq(Waiter)
    BY <1>3, ListTypes
  <2> QED
    BY <1>1, <1>2, <2>1, InTail
<1>8. ASSUME NEW k \in Chan, NEW e, Lies(e, k)' PROVE Lies(e, k)
  <2>1. InQueue(e, queue[k]) \/ PlainIn(e, w'[k])
    BY <1>2, <1>8 DEF Lies, InQueue, PlainIn
  <2> QED
    BY <1>2, <1>3, <2>1, WritersLess DEF Lies
<1>9. ASSUME NEW e \in Elem, Had(e)' PROVE Somewhere(e)
  <2>1. CASE e \in received'
    BY <1>2, <2>1 DEF Somewhere, Had
  <2>2. CASE \E b \in Actor : op'[b] \in Pops /\ ele'[b] = e
    <3>1. PICK b \in Actor : op[b] \in Pops /\ ele'[b] = e
      BY <1>2, <2>2
    <3>2. CASE ele[b] = e
      BY <3>1, <3>2 DEF Somewhere, Had
    <3>3. CASE ele[b] # e
      <4>1. x.kind = "plain" /\ e = x.ele
        BY <1>4, <3>1, <3>3
      <4> QED
        BY <1>3, <1>7, <4>1 DEF Somewhere, Lies
    <3> QED
      BY <3>2, <3>3
  <2> QED
    BY <1>9, <2>1, <2>2 DEF Had
<1>10. NoMore
  BY <1>8, <1>9 DEF NoMore
<1>11. sel'[a] = sel[a]
  BY <1>2, <1>5, OwesGoingOn
<1>12. Owes(a)' => Owes(a)
  BY <1>2, <1>6, <1>11 DEF Owes
<1> QED
  BY <1>4, <1>5, <1>6, <1>10, <1>12, LessComes, CallOffers

(* A push puts its element into the hands of a waiting reader, if the      *)
(* reader is no select.                                                    *)
LEMMA PushToReaderOffers ==
    ASSUME SelectInv, SelectTypeOK', Offering, NEW a \in Actor, SelectActorStep(a),
           PushToReader(a)
    PROVE  Offering'
<1>1. PICK k, x : k = ch[a] /\ x = Head(r[k])
  OBVIOUS
<1>2. /\ pc[a] = "lock" /\ lock[k] = None /\ op[a] \in Pushes /\ HoldAt(a, "wake")
      /\ left' = left /\ r[k] # <<>>
      /\ queue' = queue /\ w' = w /\ op' = op /\ ch' = ch /\ received' = received
      /\ tgt' = [tgt EXCEPT ![a] = x]
      /\ ele' = IF x.kind = "plain" THEN [ele EXCEPT ![x.co] = ele[a]] ELSE ele
  BY <1>1 DEF PushToReader, Enters, history
<1>3. k \in Chan /\ TypeOK /\ Busy(a)
  BY <1>1, <1>2, CallPlace
<1>4. \A b \in Actor \ {a} : tgt'[b] = tgt[b]
  BY <1>2, ListTypes
<1>5. CallStep(a) /\ pc'[a] = "wake"
  BY <1>1, <1>2, <1>3, <1>4, HoldStep DEF Holding
<1>6. x \in Waiter /\ (x.co # None => x.co \in Those(r[k], x.kind))
  <2>1. r[k] \in Seq(Waiter)
    BY <1>3, ListTypes
  <2> QED
    BY <1>1, <1>2, <2>1, ThoseTail
<1>7. x.kind = "plain" /\ x.co # None => x.co \in Actor \ {a} /\ op[x.co] = "pop"
  <2> SUFFICES ASSUME x.kind = "plain", x.co # None
               PROVE  x.co \in Actor \ {a} /\ op[x.co] = "pop"
    OBVIOUS
  <2>1. x.co \in Actor \ {a}
    BY <1>2, <1>3, <1>6, TakenTarget
  <2>2. PICK c \in Co : c = x.co
    BY <1>6 DEF Waiter
  <2>3. Waiter_OK(c)
    BY DEF SelectInv, Orderly
  <2>4. Waits(c, k, "pop")
    BY <1>3, <1>6, <2>2, <2>3 DEF Waiter_OK
  <2> QED
    BY <2>1, <2>2, <2>4 DEF Waits
<1>8. \A b \in Actor : ele'[b] = ele[b]
          \/ (ele'[b] = ele[a] /\ b # a /\ op[b] = "pop" /\ x.kind = "plain")
  <2>1. CASE x.kind = "plain" /\ x.co # None
    BY <1>2, <1>7, <2>1, ListTypes
  <2>2. CASE x.kind = "plain" /\ x.co = None
    BY <1>2, <2>2, NoneNotOp, ListTypes
  <2>3. CASE x.kind # "plain"
    BY <1>2, <2>3
  <2> QED
    BY <2>1, <2>2, <2>3
<1>9. \A c \in Chan : \A e : Lies(e, c)' => Lies(e, c)
  BY <1>2 DEF Lies, InQueue, PlainIn
<1>10. ASSUME NEW e \in Elem, Had(e)', ~Somewhere(e)
       PROVE  e = ele[a] /\ x.kind = "plain"
  BY <1>2, <1>8, <1>10 DEF Had, Somewhere
<1>11. OneMore(a)
  BY <1>2, <1>9, <1>10 DEF OneMore
<1>12. Owes(a)' => Owes(a) /\ NoMore
  <2> SUFFICES ASSUME Owes(a)' PROVE Owes(a) /\ NoMore
    OBVIOUS
  <2>1. tgt'[a] = x
    BY <1>2, ListTypes
  <2>2. x.kind = "select"
    BY <1>2, <1>5, <2>1 DEF Owes
  <2>3. NoMore
    BY <1>9, <1>10, <2>2 DEF NoMore
  <2> QED
    BY <1>2, <2>3 DEF Owes
<1>13. \A b \in Actor : op[b] \in Pushes => ele'[b] = ele[b]
  BY <1>8 DEF Pushes
<1> QED
  BY <1>5, <1>11, <1>12, <1>13, CallOffers

(* A push that must not block leaves its element with the writers.         *)
LEMMA LeaveElementOffers ==
    ASSUME SelectInv, SelectTypeOK', Offering, NEW a \in Actor, SelectActorStep(a),
           NEW malloc, LeaveElement(a, malloc)
    PROVE  Offering'
<1>1. PICK k, x : k = ch[a] /\ x = [co |-> None, ele |-> ele[a], kind |-> "plain"]
  OBVIOUS
<1>2. /\ pc[a] = "refused" /\ op[a] = "upush" /\ left' = left /\ queue' = queue
      /\ w' = (IF malloc = "ok" THEN [w EXCEPT ![k] = <<x>> \o @] ELSE w)
      /\ Return(a, {ele[a]}, {})
  BY <1>1 DEF LeaveElement
<1>3. k \in Chan /\ ele[a] \in Elem /\ op[a] \in Pushes
  BY <1>1, <1>2, CallPlace DEF Holding, Offering, Offer_OK, Pushes
<1>4. x \in Waiter /\ x.ele = ele[a]
  BY <1>1, <1>3 DEF Waiter
<1>5. \A c \in Chan : w'[c] = w[c] \/ (c = k /\ w'[c] = <<x>> \o w[c])
  BY <1>2, <1>3, ListTypes
<1>6. ASSUME NEW c \in Chan, NEW e, Lies(e, c)'
      PROVE  Lies(e, c) \/ (e = ele[a] /\ c = k)
  <2>1. InQueue(e, queue[c]) \/ PlainIn(e, w'[c])
    BY <1>2, <1>6 DEF Lies, InQueue, PlainIn
  <2>2. w[c] \in Seq(Waiter)
    BY ListTypes
  <2>3. PlainIn(e, <<x>> \o w[c]) => PlainIn(e, w[c]) \/ e = ele[a]
    BY <1>4, <2>2, InPush
  <2> QED
    BY <1>5, <2>1, <2>3 DEF Lies
<1>7. ASSUME NEW e \in Elem, Had(e)' PROVE Somewhere(e)
  <2>1. /\ \A b \in Actor \ {a} : op'[b] = op[b] /\ ele'[b] = ele[b]
        /\ op'[a] = None /\ received' = received
    BY <1>2, ListTypes DEF Return
  <2> QED
    BY <1>7, <2>1, ListTypes DEF Somewhere, Had, Pops, Op
<1>8. OneMore(a)
  BY <1>1, <1>3, <1>6, <1>7 DEF OneMore
<1>9. sel[a] # "try"
  BY <1>2 DEF SelectInv, Orderly, Own_OK, Place_OK
<1> QED
  BY <1>2, <1>8, <1>9, EndOffers DEF Holding

LEMMA ActorOffers ==
    ASSUME SelectInv, SelectTypeOK', Offering, NEW a \in Actor, SelectActorStep(a)
    PROVE  Offering'
<1>1. ActorStep(a)
  BY DEF SelectActorStep
<1>2. ASSUME WakeNobody(a) \/ \E malloc \in Mallocs : Join(a, malloc) PROVE Offering'
  <2>1. Served(a) /\ pc[a] \in {"wake", "join"} /\ UNCHANGED <<queue, w, left>>
    BY <1>2 DEF WakeNobody, Join, chvars
  <2> QED
    BY <2>1, ServedOffers
<1>3. ASSUME NEW malloc \in Mallocs, LeaveElement(a, malloc) PROVE Offering'
  BY <1>3, LeaveElementOffers
<1> QED
  BY <1>1, <1>2, <1>3, QuietEndOffers, HoldOffers, PushToReaderOffers, PushToQueueOffers,
     PopFromWriterOffers, PopFromQueueOffers, DrainOffers DEF ActorStep

-----------------------------------------------------------------------------
(* A step of an actor outside select, given what it brings about.          *)
LEMMA OutsideOffers ==
    ASSUME SelectInv, SelectTypeOK', Offering, NEW a \in Actor, Outside(a), OneMore(a),
           left' = left,
           \A b \in Actor \ {a} : /\ pc'[b] = pc[b] /\ op'[b] = op[b] /\ ch'[b] = ch[b]
                                  /\ tgt'[b] = tgt[b] /\ ele'[b] = ele[b],
           pc'[a] \in {"new", "user", "dead"} => op'[a] = None,
           op'[a] \in Pushes =>
               /\ op[a] \in Pushes /\ ele'[a] = ele[a] /\ ch'[a] = ch[a]
               /\ pc'[a] \in {"parked", "asleep"}
    PROVE  Offering'
<1>1. SelectTypeOK /\ sel' = sel /\ sel[a] = "none"
  BY DEF SelectInv, Outside, selvars
<1>2. Unmoved(a)
  BY <1>1 DEF Unmoved
<1>3. ~(Owes(a)')
  BY <1>1 DEF Owes
<1> QED
  BY <1>1, <1>2, <1>3, StepOffers DEF Keeps

LEMMA RelockOffers ==
    ASSUME SelectInv, SelectTypeOK', Offering, NEW a \in Actor, Outside(a), Relock(a)
    PROVE  Offering'
<1>1. /\ pc[a] = "asleep" /\ left' = left /\ queue' = queue /\ w' = w
      /\ IF op[a] = "push" THEN Return(a, {ele[a]}, {}) ELSE Return(a, {}, {ele[a]})
  BY DEF Relock, chvars
<1>2. op[a] \in {"push", "pop"}
  BY <1>1 DEF SelectInv, CallsOK, Call_OK
<1>3. PICK acc, rec : Return(a, acc, rec)
                      /\ (rec = {} \/ (op[a] \in Pops /\ rec = {ele[a]}))
  BY <1>1, <1>2 DEF Pops
<1>4. \A e \in Elem : e \in rec => Somewhere(e)
  BY <1>3 DEF Somewhere, Had
<1>5. NoMore
  BY <1>1, <1>3, <1>4, ReturnComes
<1>6. /\ pc'[a] = "user" /\ op'[a] = None
      /\ \A b \in Actor \ {a} : /\ pc'[b] = pc[b] /\ op'[b] = op[b] /\ ch'[b] = ch[b]
                                /\ tgt'[b] = tgt[b] /\ ele'[b] = ele[b]
  BY <1>3 DEF Return, SelectInv, SelectTypeOK, TypeOK, CallTypeOK
<1>7. op'[a] \notin Pushes
  BY <1>6, NoneNotOp DEF Pushes, Op
<1> QED
  BY <1>1, <1>5, <1>6, <1>7, LessComes, OutsideOffers

LEMMA BlockOffers ==
    ASSUME SelectInv, SelectTypeOK', Offering, NEW a \in Actor, Outside(a),
           NEW malloc, Block(a, malloc)
    PROVE  Offering'
<1>1. PICK k, x : k = ch[a] /\ x = [co |-> a, ele |-> ele[a], kind |-> "plain"]
  OBVIOUS
<1>2. /\ pc[a] = "refused" /\ op[a] \in {"push", "pop"}
      /\ UNCHANGED <<queue, acvars, received, left>>
      /\ w' = (IF op[a] = "push" /\ malloc = "ok" THEN [w EXCEPT ![k] = <<x>> \o @] ELSE w)
      /\ pc' = [pc EXCEPT ![a] = "parked"]
  BY <1>1 DEF Block, history
<1>3. k \in Chan
  BY <1>1, <1>2, CallPlace DEF Holding
<1>4. op[a] = "push" => ele[a] \in Elem /\ x \in Waiter
  <2> SUFFICES ASSUME op[a] = "push" PROVE ele[a] \in Elem /\ x \in Waiter
    OBVIOUS
  <2>1. ele[a] \in Elem /\ a \in Co
    BY DEF SelectInv, CallsOK, Call_OK, Pushes
  <2> QED
    BY <1>1, <2>1 DEF Waiter
<1>5. \A c \in Chan :
          w'[c] = w[c] \/ (op[a] = "push" /\ c = k /\ w'[c] = <<x>> \o w[c])
  BY <1>2, <1>3, ListTypes
<1>6. ASSUME NEW c \in Chan, NEW e, Lies(e, c)'
      PROVE  Lies(e, c) \/ (op[a] \in Pushes /\ e = ele[a] /\ c = k)
  <2>1. InQueue(e, queue[c]) \/ PlainIn(e, w'[c])
    BY <1>2, <1>6 DEF Lies, InQueue, PlainIn
  <2>2. w[c] \in Seq(Waiter) /\ x.ele = ele[a]
    BY <1>1, ListTypes
  <2>3. op[a] = "push" /\ PlainIn(e, <<x>> \o w[c]) => PlainIn(e, w[c]) \/ e = ele[a]
    BY <1>4, <2>2, InPush
  <2> QED
    BY <1>5, <2>1, <2>3 DEF Lies, Pushes
<1>7. \A e \in Elem : Had(e)' => Had(e)
  BY <1>2 DEF Had, acvars
<1>8. OneMore(a)
  BY <1>1, <1>6, <1>7 DEF OneMore, Somewhere
<1>9. pc'[a] = "parked" /\ \A b \in Actor \ {a} : pc'[b] = pc[b]
  BY <1>2, ListTypes
<1>10. op' = op /\ ch' = ch /\ ele' = ele /\ tgt' = tgt
  BY <1>2 DEF acvars
<1> QED
  BY <1>2, <1>8, <1>9, <1>10, OutsideOffers

(* A coroutine parks, is spawned, yields or ends.                          *)
LEMMA CodeOffers ==
    ASSUME SelectInv, SelectTypeOK', Offering, NEW a \in Actor, Outside(a),
           Park(a) \/ Spawn(a) \/ Yield(a) \/ Terminate(a)
    PROVE  Offering'
<1>1. UNCHANGED <<queue, w, received, left>> /\ op' = op /\ ch' = ch /\ ele' = ele /\ tgt' = tgt
  BY DEF Park, Spawn, Yield, Terminate, chvars, acvars, history
<1>2. /\ \A b \in Actor \ {a} : pc'[b] = pc[b]
      /\ \/ pc[a] = "parked" /\ pc'[a] = "asleep"
         \/ pc[a] \in {"new", "user"} /\ pc'[a] \in {"user", "dead"}
  BY ListTypes DEF Park, Spawn, Yield, Terminate
<1>3. NoMore
  BY <1>1, NothingComes
<1>4. pc[a] \in {"new", "user"} => op[a] = None
  BY DEF Offering, Offer_OK
<1>5. None \notin Pushes
  BY NoneNotOp DEF Pushes, Op
<1> QED
  BY <1>1, <1>2, <1>3, <1>4, <1>5, LessComes, OutsideOffers

(* A call begins with an element that is nowhere: those that are anywhere  *)
(* were made by earlier calls.                                             *)
LEMMA BeginOffers ==
    ASSUME SelectInv, SelectTypeOK', Offering, NEW a \in Actor, Outside(a),
           NEW o \in Op, NEW c \in Chan, Call(a, o, c)
    PROVE  Offering'
<1>1. PICK x : x = IF o \in Pushes THEN [by |-> a, n |-> left[a], on |-> c] ELSE None
  OBVIOUS
<1>2. /\ pc[a] = "user" /\ left[a] > 0 /\ left' = [left EXCEPT ![a] = @ - 1]
      /\ Begin(a, o, c, x) /\ UNCHANGED <<queue, w, received>>
  BY <1>1 DEF Call, chvars, history
<1>3. sel' = sel /\ sel[a] = "none" /\ op[a] = None
  BY <1>2 DEF Outside, selvars, Offering, Offer_OK
<1>4. /\ left \in [Actor -> 0..Budget] /\ left' \in [Actor -> 0..Budget] /\ Budget \in Nat
      /\ left'[a] = left[a] - 1 /\ left'[a] + 1 = left[a] /\ left[a] \in 1..Budget
      /\ \A b \in Actor \ {a} : left'[b] = left[b]
  <2>1. left \in [Actor -> 0..Budget] /\ left' \in [Actor -> 0..Budget] /\ Budget \in Nat
    BY ChannelAssumption DEF SelectInv, SelectTypeOK, TypeOK, CallTypeOK
  <2> QED
    BY <1>2, <2>1
<1>5. /\ \A b \in Actor \ {a} : /\ pc'[b] = pc[b] /\ op'[b] = op[b] /\ ch'[b] = ch[b]
                                /\ tgt'[b] = tgt[b] /\ ele'[b] = ele[b]
      /\ \/ pc'[a] = "user" /\ op'[a] = None
         \/ pc'[a] = "lock" /\ op'[a] = o /\ ch'[a] = c /\ ele'[a] = x
  BY <1>2, <1>3 DEF Begin, acvars, SelectInv, SelectTypeOK, TypeOK, CallTypeOK
<1>6. None \notin Pushes \cup Pops /\ None \notin Elem
  BY ListTypes DEF Pushes, Pops, Op
<1>7. NoMore
  <2>1. op'[a] \in Pops => ele'[a] = None
    BY <1>1, <1>5, <1>6 DEF Pops, Pushes
  <2>2. \A b \in Actor : op'[b] \in Pops =>
            (op[b] \in Pops /\ ele'[b] = ele[b]) \/ ele'[b] \notin Elem
    BY <1>5, <1>6, <2>1
  <2>3. queue' = queue /\ received' = received
        /\ \A k \in Chan : \A e : PlainIn(e, w'[k]) => PlainIn(e, w[k])
    BY <1>2
  <2> QED
    BY <2>2, <2>3, NothingComes
<1>8. ASSUME NEW e \in Elem, e.by = a, e.n = left[a] PROVE ~(Somewhere(e)')
  <2>1. ~Somewhere(e)
    BY <1>4, <1>8 DEF Offering, Single
  <2> QED
    BY <1>7, <2>1, Appears
<1>9. op'[a] \in Pushes =>
         ele'[a] \in Elem /\ ele'[a].by = a /\ ele'[a].on = ch'[a] /\ ele'[a].n = left[a]
  <2> SUFFICES ASSUME op'[a] \in Pushes
               PROVE  ele'[a] \in Elem /\ ele'[a].by = a /\ ele'[a].on = ch'[a]
                      /\ ele'[a].n = left[a]
    OBVIOUS
  <2>1. ele'[a] = [by |-> a, n |-> left[a], on |-> c] /\ ch'[a] = c
    BY <1>1, <1>5, <1>6
  <2> QED
    BY <1>4, <2>1 DEF Elem
<1>10. Owes(a)' => Unused(a)'
  BY <1>4, <1>8 DEF Unused
<1>11. Offer_OK(a)'
  BY <1>4, <1>5, <1>8, <1>9, <1>10 DEF Offer_OK
<1>12. Unmoved(a)
  BY <1>3, <1>4, <1>5 DEF Unmoved
<1>13. left \in [Actor -> Nat] /\ left' \in [Actor -> Nat] /\ left'[a] <= left[a]
  BY <1>4
<1> QED
  BY <1>7, <1>11, <1>12, <1>13, LessComes, OffersMove

(* Nothing that matters here changes.                                      *)
LEMMA NothingOffered ==
    ASSUME Offering, UNCHANGED <<queue, w, received, pc, op, ch, ele, tgt, left, sel>>
    PROVE  Offering'
<1>1. \A k \in Chan : \A e : Lies(e, k)' <=> Lies(e, k)
  BY DEF Lies, InQueue, PlainIn
<1>2. \A e : Somewhere(e)' <=> Somewhere(e)
  BY <1>1 DEF Somewhere, Had
<1>3. \A a \in Actor : (Owes(a)' <=> Owes(a)) /\ (Unused(a)' <=> Unused(a))
  BY <1>2 DEF Owes, Unused
<1>4. Lying' /\ Single'
  BY <1>1, <1>2 DEF Offering, Lying, Single
<1>5. ASSUME NEW a \in Actor PROVE Offer_OK(a)'
  BY <1>2, <1>3 DEF Offering, Offer_OK
<1> QED
  BY <1>4, <1>5 DEF Offering

-----------------------------------------------------------------------------
(* A select that has not made its call still offers what it offered.       *)
LEMMA SelectOffers ==
    ASSUME SelectInv, SelectTypeOK', Offering, NEW a \in Actor, sel[a] \notin {"none", "try"},
           UNCHANGED <<queue, received, pc, op, ch, ele, tgt, left>>,
           \A b \in Actor \ {a} : sel'[b] = sel[b],
           \A k \in Chan : \A e : PlainIn(e, w'[k]) => PlainIn(e, w[k])
    PROVE  Offering'
<1>1. op[a] = None
  BY SelectPlace DEF Offering, Offer_OK
<1>2. None \notin Pushes
  BY NoneNotOp DEF Pushes, Op
<1>3. NoMore
  BY NothingComes
<1>4. Owes(a)
  BY <1>1, <1>2 DEF Owes
<1>5. Keeps(a)
  BY <1>1, <1>2, <1>3, <1>4 DEF Keeps
<1>6. Unmoved(a)
  BY DEF Unmoved
<1>7. SelectTypeOK
  BY DEF SelectInv
<1> QED
  BY <1>3, <1>5, <1>6, <1>7, LessComes, StepOffers

LEMMA StayOffers ==
    ASSUME SelectInv, SelectTypeOK', Offering, NEW a \in Actor,
           SelectLock(a) \/ Choose(a) \/ SelectNone(a) \/ SelectPark(a)
    PROVE  Offering'
<1>1. /\ sel[a] \notin {"none", "try"}
      /\ UNCHANGED <<queue, received, pc, op, ch, ele, tgt, left, w>>
      /\ \E place : sel' = [sel EXCEPT ![a] = place]
  BY DEF SelectLock, Choose, SelectNone, SelectPark, chvars, acvars, history
<1>2. \A b \in Actor \ {a} : sel'[b] = sel[b]
  BY <1>1 DEF SelectInv, SelectTypeOK
<1> QED
  BY <1>1, <1>2, SelectOffers

LEMMA RegisterOffers ==
    ASSUME SelectInv, SelectTypeOK', Offering, NEW a \in Actor, NEW made, Register(a, made)
    PROVE  Offering'
<1>1. /\ sel[a] = "decide" /\ blocked[a] /\ w' = WithWaiter(a, "push", w, made)
      /\ UNCHANGED <<queue, received, pc, op, ch, ele, tgt, left>>
      /\ sel' = [sel EXCEPT ![a] = "parked"]
  BY DEF Register, acvars, history
<1>2. \A b \in Actor \ {a} : sel'[b] = sel[b]
  BY <1>1 DEF SelectInv, SelectTypeOK
<1>3. a \in Co /\ left[a] + 1 \in 1..Budget
  BY <1>1, SelectPlace DEF Place_OK
<1>4. ASSUME NEW k \in Chan PROVE \A e : PlainIn(e, w'[k]) => PlainIn(e, w[k])
  <2>1. PICK x : x = [co |-> a, kind |-> "select",
                      ele |-> [by |-> a, n |-> left[a] + 1, on |-> k]]
    OBVIOUS
  <2>2. x \in Waiter /\ x.kind = "select"
    BY <1>3, <2>1 DEF Waiter, Elem
  <2>3. w[k] \in Seq(Waiter)
    BY ListTypes
  <2>4. \A e : PlainIn(e, <<x>> \o w[k]) => PlainIn(e, w[k])
    BY <2>2, <2>3, InPush
  <2>5. w'[k] = w[k] \/ w'[k] = <<x>> \o w[k]
    BY <1>1, <2>1 DEF WithWaiter
  <2> QED
    BY <2>4, <2>5
<1> QED
  BY <1>1, <1>2, <1>4, SelectOffers

LEMMA DeregisterOffers ==
    ASSUME SelectInv, SelectTypeOK', Offering, NEW a \in Actor, Deregister(a)
    PROVE  Offering'
<1>1. /\ sel[a] = "dereg"
      /\ w' = [c \in Chan |-> IF In(a, "push", c) THEN Without(w[c], a) ELSE w[c]]
      /\ UNCHANGED <<queue, received, pc, op, ch, ele, tgt, left>>
      /\ sel' = [sel EXCEPT ![a] = "decide"]
  BY DEF Deregister, acvars, history
<1>2. \A b \in Actor \ {a} : sel'[b] = sel[b]
  BY <1>1 DEF SelectInv, SelectTypeOK
<1>3. ASSUME NEW k \in Chan PROVE \A e : PlainIn(e, w'[k]) => PlainIn(e, w[k])
  <2>1. w[k] \in Seq(Waiter)
    BY ListTypes
  <2>2. \A e : PlainIn(e, Without(w[k], a)) => PlainIn(e, w[k])
    BY <2>1, InWithout
  <2> QED
    BY <1>1, <2>2
<1> QED
  BY <1>1, <1>2, <1>3, SelectOffers

(* The call of the chosen case takes over what the select owed: all that   *)
(* the other cases offered stays unused.                                   *)
LEMMA TryOffers ==
    ASSUME SelectInv, SelectTypeOK', Offering, NEW a \in Actor, Try(a)
    PROVE  Offering'
<1>1. PICK c, o, x : /\ c = cases[a][at[a]].on /\ x = CaseElem(a, at[a])
                     /\ o = IF cases[a][at[a]].type = "push" THEN "trypush" ELSE "trypop"
  OBVIOUS
<1>2. /\ sel[a] = "chosen" /\ Begin(a, o, c, x) /\ UNCHANGED <<queue, w, received, left>>
      /\ \E place : sel' = [sel EXCEPT ![a] = place]
  BY <1>1 DEF Try, chvars, history
<1>3. pc[a] = "user" /\ at[a] \in Indices(a) /\ left[a] + 1 \in 1..Budget /\ c \in Chan
  BY <1>1, <1>2, SelectPlace DEF Place_OK
<1>4. op[a] = None /\ None \notin Pushes \cup Pops /\ None \notin Elem
  BY <1>3, ListTypes DEF Offering, Offer_OK, Pushes, Pops, Op
<1>5. Unused(a)
  BY <1>2, <1>4 DEF Offering, Offer_OK, Owes
<1>6. \/ o = "trypush" /\ x = [by |-> a, n |-> left[a] + 1, on |-> c] /\ x \in Elem
      \/ o = "trypop" /\ x = None
  BY <1>1, <1>3 DEF CaseElem, Elem
<1>7. /\ \A b \in Actor \ {a} : /\ pc'[b] = pc[b] /\ op'[b] = op[b] /\ ch'[b] = ch[b]
                                /\ tgt'[b] = tgt[b] /\ ele'[b] = ele[b] /\ sel'[b] = sel[b]
      /\ \/ pc'[a] = "user" /\ op'[a] = None
         \/ pc'[a] = "lock" /\ op'[a] = o /\ ch'[a] = c /\ ele'[a] = x
  <2>1. sel \in [Actor -> SelPc] /\ TypeOK
    BY DEF SelectInv, SelectTypeOK
  <2> QED
    BY <1>2, <1>3, <1>4, <2>1 DEF Begin, acvars, TypeOK, CallTypeOK
<1>8. NoMore
  <2>1. \A b \in Actor : op'[b] \in Pops =>
            (op[b] \in Pops /\ ele'[b] = ele[b]) \/ ele'[b] \notin Elem
    BY <1>4, <1>6, <1>7 DEF Pops
  <2>2. queue' = queue /\ received' = received
        /\ \A k \in Chan : \A e : PlainIn(e, w'[k]) => PlainIn(e, w[k])
    BY <1>2
  <2> QED
    BY <2>1, <2>2, NothingComes
<1>9. Unused(a)'
  <2>1. \A e \in Elem : Somewhere(e)' => Somewhere(e)
    BY <1>8, Appears
  <2> QED
    BY <1>2, <1>5, <2>1 DEF Unused
<1>10. op'[a] \in Pushes => /\ ele'[a] \in Elem /\ ele'[a].by = a /\ ele'[a].on = ch'[a]
                            /\ ele'[a].n = left'[a] + 1
  <2> SUFFICES ASSUME op'[a] \in Pushes
               PROVE  /\ ele'[a] \in Elem /\ ele'[a].by = a /\ ele'[a].on = ch'[a]
                      /\ ele'[a].n = left'[a] + 1
    OBVIOUS
  <2>1. ele'[a] = x /\ ch'[a] = c /\ o = "trypush"
    BY <1>4, <1>6, <1>7 DEF Pushes
  <2>2. x \in Elem /\ x = [by |-> a, n |-> left[a] + 1, on |-> c] /\ left' = left
    BY <1>2, <1>6, <2>1
  <2> QED
    BY <2>1, <2>2
<1>11. Offer_OK(a)'
  BY <1>7, <1>9, <1>10 DEF Offer_OK, Unused
<1>12. Unmoved(a)
  BY <1>2, <1>7 DEF Unmoved
<1>13. left \in [Actor -> Nat] /\ left' \in [Actor -> Nat] /\ left'[a] <= left[a]
  BY <1>2, ChannelAssumption DEF SelectInv, SelectTypeOK, TypeOK, CallTypeOK
<1> QED
  BY <1>8, <1>11, <1>12, <1>13, LessComes, OffersMove

(* A select begins, its elements are nowhere yet.                          *)
LEMMA SelectBeginOffers ==
    ASSUME SelectInv, SelectTypeOK', Offering, NEW a \in Actor, NEW cs, NEW b,
           Select(a, cs, b)
    PROVE  Offering'
<1>1. /\ pc[a] = "user" /\ left[a] > 0 /\ left' = [left EXCEPT ![a] = @ - 1]
      /\ sel' = [sel EXCEPT ![a] = "lock"]
      /\ UNCHANGED <<queue, w, received, pc>> /\ op' = op /\ ch' = ch /\ ele' = ele /\ tgt' = tgt
  BY DEF Select, chvars, history, acvars
<1>2. op[a] = None /\ None \notin Pushes
  BY <1>1, NoneNotOp DEF Offering, Offer_OK, Pushes, Op
<1>3. /\ left \in [Actor -> Nat] /\ left' \in [Actor -> Nat]
      /\ left'[a] = left[a] - 1 /\ left'[a] + 1 = left[a]
      /\ \A d \in Actor \ {a} : left'[d] = left[d] /\ sel'[d] = sel[d]
  <2>1. /\ left \in [Actor -> Nat] /\ left' \in [Actor -> Nat]
        /\ sel \in [Actor -> SelPc]
    BY ChannelAssumption DEF SelectInv, SelectTypeOK, TypeOK, CallTypeOK
  <2> QED
    BY <1>1, <2>1
<1>4. NoMore
  BY <1>1, NothingComes
<1>5. ASSUME NEW e \in Elem, e.by = a, e.n = left[a] PROVE ~(Somewhere(e)')
  <2>1. ~Somewhere(e)
    BY <1>3, <1>5 DEF Offering, Single
  <2> QED
    BY <1>4, <2>1, Appears
<1>6. Unused(a)'
  BY <1>3, <1>5 DEF Unused
<1>7. Offer_OK(a)'
  BY <1>1, <1>2, <1>6 DEF Offer_OK
<1>8. Unmoved(a)
  BY <1>1, <1>3 DEF Unmoved
<1>9. left'[a] <= left[a]
  BY <1>3
<1> QED
  BY <1>3, <1>4, <1>7, <1>8, <1>9, LessComes, OffersMove

-----------------------------------------------------------------------------
LEMMA OfferingInitially == SelectInit => Offering
<1> SUFFICES ASSUME SelectInit PROVE Offering
  OBVIOUS
<1>1. /\ \A k \in Chan : queue[k] = <<>> /\ w[k] = <<>>
      /\ received = {}
      /\ \A a \in Actor : op[a] = None /\ sel[a] = "none"
  BY DEF SelectInit, Init
<1>2. None \notin Pushes \cup Pops
  BY NoneNotOp DEF Pushes, Pops, Op
<1>3. \A k \in Chan : \A e : ~Lies(e, k)
  BY <1>1 DEF Lies, InQueue, PlainIn
<1>4. \A e : ~Somewhere(e)
  BY <1>1, <1>2, <1>3 DEF Somewhere, Had
<1>5. \A a \in Actor : Offer_OK(a)
  BY <1>1, <1>2, <1>4 DEF Offer_OK, Owes
<1> QED
  BY <1>3, <1>4, <1>5 DEF Offering, Lying, Single

LEMMA OfferingStep ==
    ASSUME SelectInv, Offering, [SelectNext]_<<vars, selvars>>
    PROVE  Offering'
<1>0. SelectTypeOK'
  BY SelectStepInv DEF SelectInv
<1>1. ASSUME NEW a \in Actor, SelectStep(a) PROVE Offering'
  BY <1>0, <1>1, ActorOffers, StayOffers, RegisterOffers, DeregisterOffers, TryOffers
     DEF SelectStep
<1>2. ASSUME NEW a \in Actor, NEW cs \in SelectsOf[a], NEW b \in BOOLEAN, Select(a, cs, b)
      PROVE  Offering'
  BY <1>0, <1>2, SelectBeginOffers
<1>3. ASSUME NEW a \in Actor, NEW o \in Op, NEW c \in Chan, Call(a, o, c), Outside(a)
      PROVE  Offering'
  BY <1>0, <1>3, BeginOffers
<1>4. ASSUME NEW a \in Co, CoroutineStep(a) \/ Spawn(a) \/ Yield(a) \/ Terminate(a),
             Outside(a)
      PROVE  Offering'
  <2>1. a \in Actor
    BY DEF Actor
  <2> QED
    BY <1>0, <1>4, <2>1, CodeOffers, RelockOffers, BlockOffers DEF CoroutineStep
<1>5. ASSUME NEW h \in Hdl, HandlerStep(h), Outside(h) PROVE Offering'
  BY <1>5, NothingOffered DEF HandlerStep, Outside, chvars, acvars, history, selvars
<1>6. CASE LoopThread /\ UNCHANGED selvars
  BY <1>6, NothingOffered DEF LoopThread, chvars, acvars, history, selvars
<1>7. CASE UNCHANGED <<vars, selvars>>
  BY <1>7, NothingOffered DEF vars, chvars, acvars, history, selvars
<1> QED
  BY <1>1, <1>2, <1>3, <1>4, <1>5, <1>6, <1>7 DEF SelectNext

LEMMA NowhereNoCopy ==
    ASSUME Offering, NEW e \in Elem, ~Somewhere(e)
    PROVE  Copies(e) = 0
<1>1. e.on \in Chan
  BY DEF Elem
<1>2. ~InQueue(e, queue[e.on]) /\ ~PlainIn(e, w[e.on]) /\ ~Had(e)
  BY <1>1 DEF Somewhere, Lies
<1>3. /\ {i \in 1..Len(queue[e.on]) : queue[e.on][i] = e} = {}
      /\ {i \in 1..Len(w[e.on]) : w[e.on][i].kind = "plain" /\ w[e.on][i].ele = e} = {}
      /\ {a \in Actor : op[a] \in Pops /\ ele[a] = e} = {}
      /\ received \cap {e} = {}
  BY <1>2 DEF InQueue, PlainIn, Had
<1>4. Copies(e) = Cardinality({}) + Cardinality({}) + Cardinality({}) + Cardinality({})
  BY ONLY <1>3, Zenon DEF Copies
<1> QED
  BY <1>4, FS_EmptySet

(* Whatever its wakers, the other callers of its channels and malloc do, a *)
(* select carries out one case (lc_channel.c:295-325): what its cases      *)
(* offer on other channels, or after it has given up and chosen again, is  *)
(* never in a buffer, with a waiting writer or in a reader's hands beside  *)
(* the element of the case that went through.                              *)
THEOREM OneCaseOnly == SelectSpec => []OneCase
<1>1. SelectInv /\ Offering /\ [SelectNext]_<<vars, selvars>> => (SelectInv /\ Offering)'
  BY SelectStepInv, OfferingStep
<1>2. Offering => OneCase
  <2> SUFFICES ASSUME Offering, NEW d \in Elem, NEW e \in Elem,
                      d.by = e.by, d.n = e.n, d # e
               PROVE  Copies(d) = 0 \/ Copies(e) = 0
    BY DEF OneCase
  <2>1. ~Somewhere(d) \/ ~Somewhere(e)
    BY DEF Offering, Single
  <2> QED
    BY <2>1, NowhereNoCopy
<1>3. SelectInit => SelectInv /\ Offering
  BY SelectInitially, OfferingInitially
<1> QED
  BY <1>1, <1>2, <1>3, PTL DEF SelectSpec

-----------------------------------------------------------------------------
(* Where an element is, by name: in a channel's buffer, with one of its    *)
(* plain waiting writers, in the hands of a pop, or returned by one.       *)
IsAt(e, place, n) ==
    \/ place = "buffer" /\ n \in Chan /\ InQueue(e, queue[n])
    \/ place = "writers" /\ n \in Chan /\ PlainIn(e, w[n])
    \/ place = "hands" /\ n \in Actor /\ op[n] \in Pops /\ ele[n] = e
    \/ place = "received" /\ n = None /\ e \in received

OncePlain(s) ==
    \A i, j \in 1..Len(s) :
        s[i].kind = "plain" /\ s[j].kind = "plain" /\ s[i].ele \in Elem
        /\ s[i].ele = s[j].ele => i = j

Once == \A k \in Chan : OnceQueued(queue[k]) /\ OncePlain(w[k])

OnePlace ==
    \A e \in Elem : \A p, q, m, n : IsAt(e, p, m) /\ IsAt(e, q, n) => p = q /\ m = n

(* All that a step brings anywhere is x, there.                            *)
Comes(x, place, n) ==
    \A e \in Elem : \A q, m :
        IsAt(e, q, m)' => IsAt(e, q, m) \/ (e = x /\ q = place /\ m = n)

LEMMA ComesThere ==
    ASSUME NEW x, NEW place, NEW n,
           \A k \in Chan : \A e \in Elem :
               InQueue(e, queue'[k]) =>
                   InQueue(e, queue[k]) \/ (e = x /\ place = "buffer" /\ n = k),
           \A k \in Chan : \A e \in Elem :
               PlainIn(e, w'[k]) =>
                   PlainIn(e, w[k]) \/ (e = x /\ place = "writers" /\ n = k),
           \A b \in Actor : op'[b] \in Pops /\ ele'[b] \in Elem =>
               \/ op[b] \in Pops /\ ele'[b] = ele[b]
               \/ ele'[b] = x /\ place = "hands" /\ n = b,
           \A e \in Elem : e \in received' =>
               e \in received \/ (e = x /\ place = "received" /\ n = None)
    PROVE  Comes(x, place, n)
<1> SUFFICES ASSUME NEW e \in Elem, NEW q, NEW m, IsAt(e, q, m)'
             PROVE  IsAt(e, q, m) \/ (e = x /\ q = place /\ m = n)
  BY DEF Comes
<1>1. CASE q = "buffer" /\ m \in Chan /\ InQueue(e, queue'[m])
  BY <1>1 DEF IsAt
<1>2. CASE q = "writers" /\ m \in Chan /\ PlainIn(e, w'[m])
  BY <1>2 DEF IsAt
<1>3. CASE q = "hands" /\ m \in Actor /\ op'[m] \in Pops /\ ele'[m] = e
  BY <1>3 DEF IsAt
<1>4. CASE q = "received" /\ m = None /\ e \in received'
  BY <1>4 DEF IsAt
<1> QED
  BY <1>1, <1>2, <1>3, <1>4 DEF IsAt, InQueue, PlainIn

(* What was nowhere, or leaves where it was, is in one place then.         *)
LEMMA OneComes ==
    ASSUME OnePlace, NEW x, NEW place, NEW n, Comes(x, place, n),
           x \in Elem => \/ ~Somewhere(x)
                         \/ \E q, m : IsAt(x, q, m) /\ ~(IsAt(x, q, m)')
    PROVE  OnePlace'
<1>1. ASSUME NEW e \in Elem, NEW q, NEW m, IsAt(e, q, m) PROVE Somewhere(e)
  BY <1>1 DEF IsAt, Somewhere, Had, Lies
<1>2. ASSUME x \in Elem, NEW q, NEW m, IsAt(x, q, m)' PROVE q = place /\ m = n
  <2>1. IsAt(x, q, m) \/ (q = place /\ m = n)
    BY <1>2 DEF Comes
  <2>2. ASSUME IsAt(x, q, m) PROVE q = place /\ m = n
    <3>1. PICK p, l : IsAt(x, p, l) /\ ~(IsAt(x, p, l)')
      BY <1>1, <1>2, <2>2
    <3>2. p = q /\ l = m
      BY <1>2, <2>2, <3>1 DEF OnePlace
    <3> QED
      BY <1>2, <3>1, <3>2
  <2> QED
    BY <2>1, <2>2
<1>3. ASSUME NEW e \in Elem, NEW p, NEW q, NEW l, NEW m, IsAt(e, p, l)', IsAt(e, q, m)'
      PROVE  p = q /\ l = m
  <2>1. CASE e = x
    BY <1>2, <1>3, <2>1
  <2>2. CASE e # x
    BY <1>3, <2>2 DEF Comes, OnePlace
  <2> QED
    BY <2>1, <2>2
<1> QED
  BY <1>3 DEF OnePlace

LEMMA OncePlainTail ==
    ASSUME NEW s \in Seq(Waiter), s # <<>>, OncePlain(s)
    PROVE  /\ OncePlain(Tail(s))
           /\ Head(s).kind = "plain" /\ Head(s).ele \in Elem =>
                  ~PlainIn(Head(s).ele, Tail(s))
<1>1. /\ Len(s) \in Nat \ {0} /\ Head(s) = s[1] /\ Len(Tail(s)) = Len(s) - 1
      /\ \A i \in 1..Len(Tail(s)) : /\ Tail(s)[i] = s[i + 1]
                                    /\ i + 1 \in 1..Len(s) /\ i + 1 # 1
      /\ 1 \in 1..Len(s)
  OBVIOUS
<1>2. OncePlain(Tail(s))
  BY <1>1 DEF OncePlain
<1>3. Head(s).kind = "plain" /\ Head(s).ele \in Elem => ~PlainIn(Head(s).ele, Tail(s))
  BY <1>1 DEF OncePlain, PlainIn
<1> QED
  BY <1>2, <1>3

LEMMA OncePlainPush ==
    ASSUME NEW s \in Seq(Waiter), NEW x \in Waiter, OncePlain(s),
           x.kind = "plain" /\ x.ele \in Elem => ~PlainIn(x.ele, s)
    PROVE  OncePlain(<<x>> \o s)
<1> DEFINE t == <<x>> \o s
<1>1. /\ t[1] = x
      /\ \A i \in 1..Len(t) : i = 1 \/ (i - 1 \in 1..Len(s) /\ s[i - 1] = t[i])
  OBVIOUS
<1> HIDE DEF t
<1>2. ASSUME NEW i \in 1..Len(t), NEW j \in 1..Len(t), t[i].kind = "plain",
             t[j].kind = "plain", t[i].ele \in Elem, t[i].ele = t[j].ele
      PROVE  i = j
  <2>1. CASE i # 1 /\ j # 1
    BY <1>1, <1>2, <2>1 DEF OncePlain
  <2>2. CASE i = 1 /\ j # 1
    BY <1>1, <1>2, <2>2 DEF PlainIn
  <2>3. CASE i # 1 /\ j = 1
    BY <1>1, <1>2, <2>3 DEF PlainIn
  <2> QED
    BY <2>1, <2>2, <2>3
<1>3. OncePlain(t)
  BY <1>2 DEF OncePlain
<1> QED
  BY <1>3 DEF t

LEMMA OncePlainWithout ==
    ASSUME NEW s \in Seq(Waiter), NEW a, OncePlain(s)
    PROVE  OncePlain(Without(s, a))
<1>1. CASE PlacesOf(a, s) = {}
  <2>1. Without(s, a) = s
    BY <1>1 DEF Without, PlacesOf
  <2> QED
    BY <2>1
<1>2. CASE PlacesOf(a, s) # {}
  <2>1. PICK t : t = Without(s, a)
    OBVIOUS
  <2>2. PICK n \in 1..Len(s) : Cut(s, t, a, n)
    BY <1>2, <2>1, CutOne
  <2>3. ASSUME NEW i \in 1..Len(t), NEW j \in 1..Len(t), t[i].kind = "plain",
               t[j].kind = "plain", t[i].ele \in Elem, t[i].ele = t[j].ele
        PROVE  i = j
    <3>1. \A m \in 1..Len(t) : IF m < n THEN t[m] = s[m] /\ m \in 1..Len(s)
                              ELSE t[m] = s[m + 1] /\ m + 1 \in 1..Len(s)
      BY <2>2 DEF Cut
    <3>2. PICK k \in 1..Len(s) : t[i] = s[k] /\ k = (IF i < n THEN i ELSE i + 1)
      BY <3>1
    <3>3. PICK l \in 1..Len(s) : t[j] = s[l] /\ l = (IF j < n THEN j ELSE j + 1)
      BY <3>1
    <3>4. k = l
      BY <2>3, <3>2, <3>3 DEF OncePlain
    <3> QED
      BY <3>2, <3>3, <3>4
  <2> QED
    BY <2>1, <2>3 DEF OncePlain
<1> QED
  BY <1>1, <1>2

(* The buffers and lists of writers with an element or a waiter less.      *)
LEMMA WritersOnce ==
    ASSUME SelectInv, Once, NEW c \in Chan, w[c] # <<>>, w' = [w EXCEPT ![c] = Tail(@)]
    PROVE  \A k \in Chan : OncePlain(w'[k])
<1>1. w[c] \in Seq(Waiter) /\ \A k \in Chan : w'[k] = IF k = c THEN Tail(w[k]) ELSE w[k]
  BY ListTypes
<1>2. OncePlain(Tail(w[c]))
  BY <1>1, OncePlainTail DEF Once
<1> QED
  BY <1>1, <1>2 DEF Once

(* A step that brings nothing anywhere.                                    *)
LEMMA QuietOnce ==
    ASSUME Once, OnePlace, queue' = queue, received' = received,
           \A k \in Chan : OncePlain(w'[k]),
           \A k \in Chan : \A e : PlainIn(e, w'[k]) => PlainIn(e, w[k]),
           \A b \in Actor : op'[b] \in Pops =>
               (op[b] \in Pops /\ ele'[b] = ele[b]) \/ ele'[b] \notin Elem
    PROVE  Once' /\ OnePlace'
<1>1. Comes(None, "buffer", None)
  BY ComesThere
<1>2. OnePlace'
  BY <1>1, OneComes, ElemAssumption
<1>3. Once'
  BY DEF Once, OnceQueued, OncePlain
<1> QED
  BY <1>2, <1>3

(* A call ends with no element, or with what was in its hands.             *)
LEMMA ReturnOnce ==
    ASSUME SelectInv, Once, OnePlace, NEW a \in Actor, NEW acc, NEW rec,
           Return(a, acc, rec), queue' = queue, w' = w,
           rec = {} \/ (op[a] \in Pops /\ rec = {ele[a]})
    PROVE  Once' /\ OnePlace'
<1>1. PICK x : x = ele[a]
  OBVIOUS
<1>2. /\ \A b \in Actor \ {a} : op'[b] = op[b] /\ ele'[b] = ele[b]
      /\ op'[a] = None /\ None \notin Pops
      /\ received' = received \cup (rec \ {None})
  BY ListTypes DEF Return, Pops, Op
<1>3. Once'
  BY DEF Once, OnceQueued
<1>4. CASE op[a] \in Pops
  <2>1. Comes(x, "received", None)
    BY <1>1, <1>2, ComesThere
  <2>2. IsAt(x, "hands", a) /\ ~(IsAt(x, "hands", a)')
    BY <1>1, <1>2, <1>4 DEF IsAt
  <2>3. OnePlace'
    BY <2>1, <2>2, OneComes
  <2> QED
    BY <1>3, <2>3
<1>5. CASE op[a] \notin Pops
  <2>1. received' = received
    BY <1>2, <1>5
  <2>2. \A k \in Chan : OncePlain(w'[k])
    BY <1>3 DEF Once
  <2> QED
    BY <1>2, <2>1, <2>2, QuietOnce
<1> QED
  BY <1>4, <1>5

(* What a call pushes is nowhere while the call owes it.                   *)
LEMMA OwedNowhere ==
    ASSUME Offering, NEW a \in Actor, op[a] \in Pushes, pc[a] \in {"lock", "refused"}
    PROVE  ele[a] \in Elem /\ ele[a].on = ch[a] /\ ~Somewhere(ele[a])
<1>1. Offer_OK(a) /\ Owes(a)
  BY DEF Offering, Owes
<1> QED
  BY <1>1 DEF Offer_OK, Unused

-----------------------------------------------------------------------------
(* The steps of a call.                                                    *)
LEMMA QueueOnce ==
    ASSUME SelectInv, Offering, Once, OnePlace, NEW a \in Actor, PushToQueue(a)
    PROVE  Once' /\ OnePlace'
<1>1. PICK k, x : k = ch[a] /\ x = ele[a]
  OBVIOUS
<1>2. /\ pc[a] = "lock" /\ w' = w /\ op[a] \in Pushes
      /\ Return(a, {x}, {}) /\ queue' = [queue EXCEPT ![k] = Append(@, x)]
  BY <1>1 DEF PushToQueue, Enters
<1>3. k \in Chan /\ x \in Elem /\ ~Somewhere(x)
  BY <1>1, <1>2, CallPlace, OwedNowhere
<1>4. /\ \A b \in Actor \ {a} : op'[b] = op[b] /\ ele'[b] = ele[b]
      /\ op'[a] = None /\ None \notin Pops /\ received' = received
      /\ queue[k] \in Seq(Elem)
      /\ \A c \in Chan : queue'[c] = IF c = k THEN Append(queue[c], x) ELSE queue[c]
  BY <1>2, <1>3, ListTypes DEF Return, Pops, Op
<1>5. \A e : InQueue(e, Append(queue[k], x)) <=> InQueue(e, queue[k]) \/ e = x
  BY <1>3, <1>4, QueueAppend
<1>6. Comes(x, "buffer", k)
  <2>1. \A c \in Chan : \A e \in Elem :
            InQueue(e, queue'[c]) => InQueue(e, queue[c]) \/ (e = x /\ k = c)
    BY <1>4, <1>5
  <2> QED
    BY <1>2, <1>4, <2>1, ComesThere
<1>7. OnceQueued(Append(queue[k], x))
  <2>1. ~InQueue(x, queue[k]) /\ OnceQueued(queue[k])
    BY <1>3 DEF Somewhere, Lies, Once
  <2> QED
    BY <1>3, <1>4, <2>1, OnceAppend
<1>8. Once'
  BY <1>2, <1>4, <1>7 DEF Once
<1> QED
  BY <1>3, <1>6, <1>8, OneComes

LEMMA UnqueueOnce ==
    ASSUME SelectInv, Once, OnePlace, NEW a \in Actor, PopFromQueue(a)
    PROVE  Once' /\ OnePlace'
<1>1. PICK k, x : k = ch[a] /\ x = Head(queue[k])
  OBVIOUS
<1>2. /\ pc[a] = "lock" /\ w' = w /\ queue[k] # <<>>
      /\ Return(a, {}, {x}) /\ queue' = [queue EXCEPT ![k] = Tail(@)]
  BY <1>1 DEF PopFromQueue, Enters
<1>3. k \in Chan
  BY <1>1, <1>2, CallPlace
<1>4. /\ \A b \in Actor \ {a} : op'[b] = op[b] /\ ele'[b] = ele[b]
      /\ op'[a] = None /\ None \notin Pops /\ received' \subseteq received \cup {x}
      /\ queue[k] \in Seq(Elem)
      /\ \A c \in Chan : queue'[c] = IF c = k THEN Tail(queue[c]) ELSE queue[c]
  BY <1>2, <1>3, ListTypes DEF Return, Pops, Op
<1>5. \A e : InQueue(e, queue[k]) <=> e = x \/ InQueue(e, Tail(queue[k]))
  BY <1>1, <1>2, <1>4, QueueTail
<1>6. Comes(x, "received", None)
  <2>1. \A c \in Chan : \A e \in Elem : InQueue(e, queue'[c]) => InQueue(e, queue[c])
    BY <1>4, <1>5
  <2> QED
    BY <1>2, <1>4, <2>1, ComesThere
<1>7. OnceQueued(Tail(queue[k])) /\ ~InQueue(x, Tail(queue[k]))
  <2>1. OnceQueued(queue[k])
    BY <1>3 DEF Once
  <2> QED
    BY <1>1, <1>2, <1>4, <2>1, OnceTail
<1>8. IsAt(x, "buffer", k) /\ ~(IsAt(x, "buffer", k)')
  <2>1. ~InQueue(x, queue'[k])
    BY <1>3, <1>4, <1>7
  <2>2. ~(InQueue(x, queue[k])')
    BY <2>1 DEF InQueue
  <2> QED
    BY <1>3, <1>5, <2>2 DEF IsAt
<1>9. Once'
  BY <1>2, <1>4, <1>7 DEF Once
<1> QED
  BY <1>6, <1>8, <1>9, OneComes

LEMMA TakeOnce ==
    ASSUME SelectInv, Once, OnePlace, NEW a \in Actor, PopFromWriter(a)
    PROVE  Once' /\ OnePlace'
<1>1. PICK k, x : k = ch[a] /\ x = Head(w[k])
  OBVIOUS
<1>2. /\ pc[a] = "lock" /\ op[a] \in Pops /\ w[k] # <<>> /\ w' = [w EXCEPT ![k] = Tail(@)]
      /\ queue' = queue /\ op' = op /\ received' = received
      /\ ele' = IF x.kind = "plain" THEN [ele EXCEPT ![a] = x.ele] ELSE ele
  BY <1>1 DEF PopFromWriter, Enters, history
<1>3. k \in Chan
  BY <1>1, <1>2, CallPlace
<1>4. /\ w[k] \in Seq(Waiter)
      /\ \A c \in Chan : w'[c] = IF c = k THEN Tail(w[c]) ELSE w[c]
      /\ \A b \in Actor \ {a} : ele'[b] = ele[b]
      /\ ele'[a] = IF x.kind = "plain" THEN x.ele ELSE ele[a]
  BY <1>2, <1>3, ListTypes
<1>5. /\ \A c \in Chan : OncePlain(w'[c])
      /\ \A c \in Chan : \A e : PlainIn(e, w'[c]) => PlainIn(e, w[c])
  BY <1>2, <1>3, WritersLess, WritersOnce
<1>6. CASE x.kind = "plain"
  <2>1. Comes(x.ele, "hands", a)
    BY <1>2, <1>4, <1>5, <1>6, ComesThere
  <2>2. x.ele \in Elem => IsAt(x.ele, "writers", k) /\ ~(IsAt(x.ele, "writers", k)')
    <3>1. PlainIn(x.ele, w[k])
      BY <1>1, <1>2, <1>4, <1>6, InTail
    <3>2. x.ele \in Elem => ~PlainIn(x.ele, w'[k])
      BY <1>1, <1>2, <1>3, <1>4, <1>6, OncePlainTail DEF Once
    <3>3. x.ele \in Elem => ~(PlainIn(x.ele, w[k])')
      BY <3>2 DEF PlainIn
    <3> QED
      BY <1>3, <3>1, <3>3 DEF IsAt
  <2>3. OnePlace'
    BY <2>1, <2>2, OneComes
  <2>4. Once'
    BY <1>2, <1>5 DEF Once
  <2> QED
    BY <2>3, <2>4
<1>7. CASE x.kind # "plain"
  BY <1>2, <1>5, <1>7, QuietOnce
<1> QED
  BY <1>6, <1>7

LEMMA GiveOnce ==
    ASSUME SelectInv, Offering, Once, OnePlace, NEW a \in Actor, PushToReader(a)
    PROVE  Once' /\ OnePlace'
<1>1. PICK x : x = Head(r[ch[a]])
  OBVIOUS
<1>2. /\ pc[a] = "lock" /\ op[a] \in Pushes
      /\ queue' = queue /\ w' = w /\ op' = op /\ received' = received
      /\ ele' = IF x.kind = "plain" THEN [ele EXCEPT ![x.co] = ele[a]] ELSE ele
  BY <1>1 DEF PushToReader, Enters, history
<1>3. ele[a] \in Elem /\ ~Somewhere(ele[a])
  BY <1>2, OwedNowhere
<1>4. \A b \in Actor : b # x.co => ele'[b] = ele[b]
  BY <1>2, ListTypes
<1>5. \A b \in Actor : ele'[b] = ele[b] \/ ele'[b] = ele[a]
  BY <1>2, ListTypes
<1>6. Comes(ele[a], "hands", x.co)
  <2>1. \A b \in Actor : ele'[b] = ele[b] \/ (ele'[b] = ele[a] /\ x.co = b)
    BY <1>4, <1>5
  <2> QED
    BY <1>2, <2>1, ComesThere
<1>7. OnePlace'
  BY <1>3, <1>6, OneComes
<1>8. Once'
  BY <1>2 DEF Once
<1> QED
  BY <1>7, <1>8

(* A push leaves its element with the writers, as a waiter of the actor or *)
(* of nobody.                                                              *)
LEMMA WaiterOnce ==
    ASSUME SelectInv, Offering, Once, OnePlace, NEW a \in Actor, NEW x \in Waiter,
           op[a] \in Pushes, pc[a] = "refused", x.ele = ele[a],
           w' = [w EXCEPT ![ch[a]] = <<x>> \o @], queue' = queue, received' = received,
           \A b \in Actor : op'[b] \in Pops => op[b] \in Pops /\ ele'[b] = ele[b]
    PROVE  Once' /\ OnePlace'
<1>1. PICK k : k = ch[a]
  OBVIOUS
<1>2. k \in Chan /\ x.ele \in Elem /\ ~Somewhere(x.ele)
  BY <1>1, CallPlace, OwedNowhere DEF Holding
<1>3. /\ w[k] \in Seq(Waiter) /\ OncePlain(w[k]) /\ ~PlainIn(x.ele, w[k])
      /\ \A c \in Chan : w'[c] = IF c = k THEN <<x>> \o w[c] ELSE w[c]
  BY <1>1, <1>2, ListTypes DEF Somewhere, Lies, Once
<1>4. /\ OncePlain(<<x>> \o w[k])
      /\ \A e : PlainIn(e, <<x>> \o w[k]) => PlainIn(e, w[k]) \/ e = x.ele
  BY <1>3, OncePlainPush, InPush
<1>5. Comes(x.ele, "writers", k)
  <2>1. \A c \in Chan : \A e \in Elem :
            PlainIn(e, w'[c]) => PlainIn(e, w[c]) \/ (e = x.ele /\ k = c)
    BY <1>3, <1>4
  <2> QED
    BY <2>1, ComesThere
<1>6. OnePlace'
  BY <1>2, <1>5, OneComes
<1>7. Once'
  BY <1>3, <1>4 DEF Once
<1> QED
  BY <1>6, <1>7

(* Nothing of the places changes, or the writers lose their first one.     *)
LEMMA SameOnce ==
    ASSUME SelectInv, Once, OnePlace, UNCHANGED <<queue, received>>, op' = op, ele' = ele,
           \/ w' = w
           \/ \E c \in Chan : w[c] # <<>> /\ w' = [w EXCEPT ![c] = Tail(@)]
    PROVE  Once' /\ OnePlace'
<1>1. \A k \in Chan : OncePlain(w'[k])
  BY WritersOnce DEF Once
<1>2. \A k \in Chan : \A e : PlainIn(e, w'[k]) => PlainIn(e, w[k])
  BY WritersLess
<1>3. \A b \in Actor : op'[b] \in Pops => op[b] \in Pops /\ ele'[b] = ele[b]
  OBVIOUS
<1> QED
  BY <1>1, <1>2, <1>3, QuietOnce

LEMMA ServedOnce ==
    ASSUME SelectInv, Once, OnePlace, NEW a \in Actor, Served(a), pc[a] \in {"wake", "join"},
           UNCHANGED <<queue, w>>
    PROVE  Once' /\ OnePlace'
<1>1. CASE op[a] = "close" \/ tgt[a].kind = "select"
  <2>1. UNCHANGED <<acvars, history>>
    BY <1>1 DEF Served
  <2>2. op' = op /\ ele' = ele /\ UNCHANGED <<queue, received>>
    BY <2>1 DEF acvars, history
  <2> QED
    BY <2>2, SameOnce
<1>2. CASE ~(op[a] = "close" \/ tgt[a].kind = "select")
  <2>1. PICK acc, rec : Return(a, acc, rec)
                        /\ (rec = {} \/ (op[a] \notin Pushes /\ rec = {ele[a]}))
    BY <1>2 DEF Served
  <2>2. op[a] \in Pops \/ op[a] \in Pushes
    <3>1. op[a] \in Op
      BY DEF SelectInv, CallsOK, Call_OK, Holding
    <3> QED
      BY <1>2, <3>1 DEF Op, Pops, Pushes
  <2> QED
    BY <2>1, <2>2, ReturnOnce
<1> QED
  BY <1>1, <1>2

LEMMA LeaveOnce ==
    ASSUME SelectInv, Offering, Once, OnePlace, NEW a \in Actor, NEW malloc,
           LeaveElement(a, malloc)
    PROVE  Once' /\ OnePlace'
<1>1. PICK x : x = [co |-> None, ele |-> ele[a], kind |-> "plain"]
  OBVIOUS
<1>2. /\ pc[a] = "refused" /\ op[a] \in Pushes /\ queue' = queue
      /\ w' = (IF malloc = "ok" THEN [w EXCEPT ![ch[a]] = <<x>> \o @] ELSE w)
      /\ Return(a, {ele[a]}, {})
  BY <1>1 DEF LeaveElement, Pushes
<1>3. x \in Waiter /\ x.ele = ele[a]
  BY <1>1, <1>2, OwedNowhere DEF Waiter
<1>4. /\ received' = received
      /\ \A b \in Actor : op'[b] \in Pops => op[b] \in Pops /\ ele'[b] = ele[b]
  BY <1>2, ListTypes DEF Return, Pops, Op
<1>5. CASE malloc = "ok"
  BY <1>2, <1>3, <1>4, <1>5, WaiterOnce
<1>6. CASE malloc # "ok"
  BY <1>2, <1>6, ReturnOnce
<1> QED
  BY <1>5, <1>6

LEMMA ActorOnce ==
    ASSUME SelectInv, Offering, Once, OnePlace, NEW a \in Actor, ActorStep(a)
    PROVE  Once' /\ OnePlace'
<1>1. CASE EnterClosed(a) \/ GiveUp(a) \/ Drained(a)
  <2>1. queue' = queue /\ w' = w /\ \E acc : Return(a, acc, {})
    BY <1>1 DEF EnterClosed, GiveUp, Drained, chvars
  <2> QED
    BY <2>1, ReturnOnce
<1>2. CASE EnterRefused(a) \/ Wake(a) \/ Close(a) \/ DrainReader(a)
  <2>1. UNCHANGED <<queue, received>> /\ op' = op /\ ele' = ele /\ w' = w
    BY <1>2 DEF EnterRefused, Wake, Close, DrainReader, chvars, acvars, history
  <2> QED
    BY <2>1, SameOnce
<1>3. CASE DrainWriter(a)
  <2>1. /\ UNCHANGED <<queue, received>> /\ op' = op /\ ele' = ele
        /\ w[ch[a]] # <<>> /\ w' = [w EXCEPT ![ch[a]] = Tail(@)] /\ pc[a] = "drain"
    BY <1>3 DEF DrainWriter, history
  <2>2. ch[a] \in Chan
    BY <2>1, CallPlace DEF Holding
  <2> QED
    BY <2>1, <2>2, SameOnce
<1>4. CASE WakeNobody(a) \/ \E malloc \in Mallocs : Join(a, malloc)
  <2>1. Served(a) /\ pc[a] \in {"wake", "join"} /\ UNCHANGED <<queue, w>>
    BY <1>4 DEF WakeNobody, Join, chvars
  <2> QED
    BY <2>1, ServedOnce
<1> QED
  BY <1>1, <1>2, <1>3, <1>4, LeaveOnce, QueueOnce, UnqueueOnce, TakeOnce, GiveOnce
     DEF ActorStep

-----------------------------------------------------------------------------
LEMMA BlockOnce ==
    ASSUME SelectInv, Offering, Once, OnePlace, NEW a \in Actor, NEW malloc, Block(a, malloc)
    PROVE  Once' /\ OnePlace'
<1>1. PICK x : x = [co |-> a, ele |-> ele[a], kind |-> "plain"]
  OBVIOUS
<1>2. /\ pc[a] = "refused"
      /\ UNCHANGED <<queue, received>> /\ op' = op /\ ele' = ele
      /\ w' = (IF op[a] = "push" /\ malloc = "ok"
               THEN [w EXCEPT ![ch[a]] = <<x>> \o @] ELSE w)
  BY <1>1 DEF Block, acvars, history
<1>3. CASE op[a] = "push" /\ malloc = "ok"
  <2>1. a \in Co
    BY <1>3 DEF SelectInv, CallsOK, Call_OK, Pushes
  <2>2. op[a] \in Pushes
    BY <1>3 DEF Pushes
  <2>3. x \in Waiter /\ x.ele = ele[a]
    BY <1>1, <1>2, <2>1, <2>2, OwedNowhere DEF Waiter
  <2> QED
    BY <1>2, <1>3, <2>2, <2>3, WaiterOnce
<1>4. CASE ~(op[a] = "push" /\ malloc = "ok")
  BY <1>2, <1>4, SameOnce
<1> QED
  BY <1>3, <1>4

LEMMA RelockOnce ==
    ASSUME SelectInv, Once, OnePlace, NEW a \in Actor, Relock(a)
    PROVE  Once' /\ OnePlace'
<1>1. /\ pc[a] = "asleep" /\ queue' = queue /\ w' = w
      /\ IF op[a] = "push" THEN Return(a, {ele[a]}, {}) ELSE Return(a, {}, {ele[a]})
  BY DEF Relock, chvars
<1>2. op[a] \in {"push", "pop"}
  BY <1>1 DEF SelectInv, CallsOK, Call_OK
<1>3. \E acc, rec : Return(a, acc, rec)
                    /\ (rec = {} \/ (op[a] \in Pops /\ rec = {ele[a]}))
  BY <1>1, <1>2 DEF Pops
<1> QED
  BY <1>1, <1>3, ReturnOnce

(* A call begins with an element to push, or with none.                    *)
LEMMA BeginOnce ==
    ASSUME SelectInv, Once, OnePlace, NEW a \in Actor, NEW o, NEW c, NEW x, Begin(a, o, c, x),
           UNCHANGED <<queue, w, received>>, o \in Pops => x = None
    PROVE  Once' /\ OnePlace'
<1>1. /\ \A b \in Actor \ {a} : op'[b] = op[b] /\ ele'[b] = ele[b]
      /\ \/ op'[a] = op[a] /\ ele'[a] = ele[a]
         \/ op'[a] = o /\ ele'[a] = x
  BY ListTypes DEF Begin, acvars
<1>2. \A b \in Actor : op'[b] \in Pops =>
          (op[b] \in Pops /\ ele'[b] = ele[b]) \/ ele'[b] \notin Elem
  BY <1>1, ElemAssumption
<1>3. \A k \in Chan : OncePlain(w'[k])
  BY DEF Once
<1> QED
  BY <1>2, <1>3, QuietOnce

LEMMA RegisterOnce ==
    ASSUME SelectInv, Once, OnePlace, NEW a \in Actor, NEW made, Register(a, made)
    PROVE  Once' /\ OnePlace'
<1>1. /\ sel[a] = "decide" /\ blocked[a] /\ w' = WithWaiter(a, "push", w, made)
      /\ UNCHANGED <<queue, received, op, ele>>
  BY DEF Register, acvars, history
<1>2. a \in Co /\ left[a] + 1 \in 1..Budget
  BY <1>1, SelectPlace DEF Place_OK
<1>3. ASSUME NEW k \in Chan
      PROVE  OncePlain(w'[k]) /\ \A e : PlainIn(e, w'[k]) => PlainIn(e, w[k])
  <2>1. PICK x : x = [co |-> a, kind |-> "select",
                      ele |-> [by |-> a, n |-> left[a] + 1, on |-> k]]
    OBVIOUS
  <2>2. x \in Waiter /\ x.kind = "select"
    BY <1>2, <2>1 DEF Waiter, Elem, Actor
  <2>3. w[k] \in Seq(Waiter) /\ OncePlain(w[k])
    BY ListTypes DEF Once
  <2>4. /\ OncePlain(<<x>> \o w[k])
        /\ \A e : PlainIn(e, <<x>> \o w[k]) => PlainIn(e, w[k])
    BY <2>2, <2>3, InPush, OncePlainPush
  <2>5. w'[k] = w[k] \/ w'[k] = <<x>> \o w[k]
    BY <1>1, <2>1 DEF WithWaiter
  <2> QED
    BY <2>3, <2>4, <2>5
<1> QED
  BY <1>1, <1>3, QuietOnce

LEMMA DeregisterOnce ==
    ASSUME SelectInv, Once, OnePlace, NEW a \in Actor, Deregister(a)
    PROVE  Once' /\ OnePlace'
<1>1. /\ w' = [c \in Chan |-> IF In(a, "push", c) THEN Without(w[c], a) ELSE w[c]]
      /\ UNCHANGED <<queue, received, op, ele>>
  BY DEF Deregister, acvars, history
<1>2. ASSUME NEW k \in Chan
      PROVE  OncePlain(w'[k]) /\ \A e : PlainIn(e, w'[k]) => PlainIn(e, w[k])
  <2>1. w[k] \in Seq(Waiter) /\ OncePlain(w[k])
    BY ListTypes DEF Once
  <2>2. /\ OncePlain(Without(w[k], a))
        /\ \A e : PlainIn(e, Without(w[k], a)) => PlainIn(e, w[k])
    BY <2>1, InWithout, OncePlainWithout
  <2>3. w'[k] = w[k] \/ w'[k] = Without(w[k], a)
    BY <1>1
  <2> QED
    BY <2>1, <2>2, <2>3
<1> QED
  BY <1>1, <1>2, QuietOnce

LEMMA OnceStep ==
    ASSUME SelectInv, Offering, Once, OnePlace, [SelectNext]_<<vars, selvars>>
    PROVE  Once' /\ OnePlace'
<1>1. ASSUME NEW a \in Actor, SelectStep(a) PROVE Once' /\ OnePlace'
  <2>1. CASE SelectLock(a) \/ Choose(a) \/ SelectNone(a) \/ SelectPark(a)
    <3>1. UNCHANGED <<queue, received>> /\ op' = op /\ ele' = ele /\ w' = w
      BY <2>1 DEF SelectLock, Choose, SelectNone, SelectPark, chvars, acvars, history
    <3> QED
      BY <3>1, SameOnce
  <2>2. ASSUME NEW made, Register(a, made) PROVE Once' /\ OnePlace'
    BY <2>2, RegisterOnce
  <2>3. CASE Try(a)
    <3>1. /\ UNCHANGED <<queue, w, received>>
          /\ Begin(a, IF cases[a][at[a]].type = "push" THEN "trypush" ELSE "trypop",
                   cases[a][at[a]].on, CaseElem(a, at[a]))
      BY <2>3 DEF Try, chvars, history
    <3>2. PICK o, c, x : /\ Begin(a, o, c, x)
                         /\ o \in Pops => x = None
      BY <3>1 DEF CaseElem, Pops
    <3> QED
      BY <3>1, <3>2, BeginOnce
  <2>4. CASE SelectActorStep(a)
    BY <2>4, ActorOnce DEF SelectActorStep
  <2> QED
    BY <1>1, <2>1, <2>2, <2>3, <2>4, DeregisterOnce DEF SelectStep
<1>2. ASSUME NEW a \in Actor, NEW cs, NEW b, Select(a, cs, b) PROVE Once' /\ OnePlace'
  <2>1. UNCHANGED <<queue, received>> /\ op' = op /\ ele' = ele /\ w' = w
    BY <1>2 DEF Select, chvars, acvars, history
  <2> QED
    BY <2>1, SameOnce
<1>3. ASSUME NEW a \in Actor, NEW o, NEW c, Call(a, o, c) PROVE Once' /\ OnePlace'
  <2>1. PICK x : /\ Begin(a, o, c, x)
                 /\ o \in Pops => x = None
    BY <1>3 DEF Call, Pops, Pushes
  <2>2. UNCHANGED <<queue, w, received>>
    BY <1>3 DEF Call, chvars, history
  <2> QED
    BY <2>1, <2>2, BeginOnce
<1>4. ASSUME NEW a \in Co, CoroutineStep(a) \/ Spawn(a) \/ Yield(a) \/ Terminate(a)
      PROVE  Once' /\ OnePlace'
  <2>1. a \in Actor
    BY DEF Actor
  <2>2. CASE Park(a) \/ Spawn(a) \/ Yield(a) \/ Terminate(a)
    <3>1. UNCHANGED <<queue, received>> /\ op' = op /\ ele' = ele /\ w' = w
      BY <2>2 DEF Park, Spawn, Yield, Terminate, chvars, acvars, history
    <3> QED
      BY <3>1, SameOnce
  <2>3. ASSUME NEW malloc, Block(a, malloc) PROVE Once' /\ OnePlace'
    BY <2>1, <2>3, BlockOnce
  <2> QED
    BY <1>4, <2>1, <2>2, <2>3, RelockOnce DEF CoroutineStep
<1>5. CASE (\E h \in Hdl : HandlerStep(h)) \/ LoopThread \/ UNCHANGED <<vars, selvars>>
  <2>1. UNCHANGED <<queue, received>> /\ op' = op /\ ele' = ele /\ w' = w
    BY <1>5 DEF HandlerStep, LoopThread, vars, chvars, acvars, history
  <2> QED
    BY <2>1, SameOnce
<1> QED
  BY <1>1, <1>2, <1>3, <1>4, <1>5 DEF SelectNext

LEMMA OnceInitially == SelectInit => Once /\ OnePlace
<1> SUFFICES ASSUME SelectInit PROVE Once /\ OnePlace
  OBVIOUS
<1>1. /\ \A k \in Chan : queue[k] = <<>> /\ w[k] = <<>>
      /\ received = {}
      /\ \A a \in Actor : op[a] = None
  BY DEF SelectInit, Init
<1>2. None \notin Pops
  BY NoneNotOp DEF Pops, Op
<1>3. \A e, p, n : ~IsAt(e, p, n)
  BY <1>1, <1>2 DEF IsAt, InQueue, PlainIn
<1> QED
  BY <1>1, <1>3 DEF Once, OnePlace, OnceQueued, OncePlain

LEMMA CopiesAtMostOne ==
    ASSUME Once, OnePlace, NEW e \in Elem
    PROVE  /\ Copies(e) <= 1
           /\ Lying /\ Somewhere(e) => Copies(e) = 1
<1> DEFINE Q == {i \in 1..Len(queue[e.on]) : queue[e.on][i] = e}
           W == {i \in 1..Len(w[e.on]) : w[e.on][i].kind = "plain" /\ w[e.on][i].ele = e}
           H == {a \in Actor : op[a] \in Pops /\ ele[a] = e}
           R == received \cap {e}
<1>1. e.on \in Chan
  BY DEF Elem
<1>2. /\ \A i, j \in Q : i = j
      /\ \A i, j \in W : i = j
      /\ \A i, j \in R : i = j
  BY <1>1 DEF Once, OnceQueued, OncePlain
<1>3. \A a, b \in H : a = b
  <2> SUFFICES ASSUME NEW a \in H, NEW b \in H PROVE a = b
    OBVIOUS
  <2>1. IsAt(e, "hands", a) /\ IsAt(e, "hands", b)
    BY DEF IsAt
  <2> QED
    BY <2>1 DEF OnePlace
<1>4. /\ Q # {} => IsAt(e, "buffer", e.on)
      /\ W # {} => IsAt(e, "writers", e.on)
      /\ H # {} => \E a : IsAt(e, "hands", a)
      /\ R # {} => IsAt(e, "received", None)
  BY <1>1 DEF IsAt, InQueue, PlainIn
<1>5. /\ Q # {} => W = {} /\ H = {} /\ R = {}
      /\ W # {} => H = {} /\ R = {}
      /\ H # {} => R = {}
  <2> HIDE DEF Q, W, H, R
  <2> QED
    BY <1>4 DEF OnePlace
<1>6. Copies(e) = Cardinality(Q) + Cardinality(W) + Cardinality(H) + Cardinality(R)
  BY DEF Copies
<1>7. Lying /\ Somewhere(e) => Q # {} \/ W # {} \/ H # {} \/ R # {}
  BY DEF Lying, Somewhere, Had, Lies, InQueue, PlainIn
<1> HIDE DEF Q, W, H, R
<1>8. /\ Cardinality(Q) = IF Q = {} THEN 0 ELSE 1
      /\ Cardinality(W) = IF W = {} THEN 0 ELSE 1
      /\ Cardinality(H) = IF H = {} THEN 0 ELSE 1
      /\ Cardinality(R) = IF R = {} THEN 0 ELSE 1
  BY <1>2, <1>3, CountOne
<1> QED
  BY <1>5, <1>6, <1>7, <1>8

(* Each element goes to at most one pop also where selects wait on the     *)
(* channels: their waiters offer elements that no pop may take, and wake   *)
(* the select instead (lc_channel.c:246-325, 364-462).                     *)
THEOREM SelectDeliversOnce == SelectSpec => []DeliveredOnce
<1>1. SelectInv /\ Offering /\ Once /\ OnePlace /\ [SelectNext]_<<vars, selvars>>
          => (SelectInv /\ Offering /\ Once /\ OnePlace)'
  BY SelectStepInv, OfferingStep, OnceStep
<1>2. Once /\ OnePlace => DeliveredOnce
  BY CopiesAtMostOne DEF DeliveredOnce
<1>3. SelectInit => SelectInv /\ Offering /\ Once /\ OnePlace
  BY SelectInitially, OfferingInitially, OnceInitially
<1> QED
  BY <1>1, <1>2, <1>3, PTL DEF SelectSpec

-----------------------------------------------------------------------------
(* A pop has no element before it is served, nor a reader while it is in a *)
(* list; a close that wakes or drains has closed its channel.              *)
Unserved(b) ==
    \/ pc[b] \in {"lock", "refused"}
    \/ pc[b] \in {"wake", "spin", "join"} /\ tgt[b].kind = "select"

Ready_OK(b) ==
    /\ op[b] \in Pops /\ Unserved(b) => ele[b] = None
    /\ op[b] = "close" /\ pc[b] \in {"wake", "spin", "join", "drain"} => ch[b] \in closed

ReadersWait == \A k \in Chan : \A c \in Those(r[k], "plain") : ele[c] = None

Readiness == ReadersWait /\ \A b \in Actor : Ready_OK(b)

(* Who is awake is no waiting reader.                                      *)
LEMMA AwakeNoReader ==
    ASSUME SelectInv, NEW a \in Actor, pc[a] \notin {"parked", "asleep"}
    PROVE  \A k \in Chan : a \notin Those(r[k], "plain")
<1> SUFFICES ASSUME NEW k \in Chan, a \in Those(r[k], "plain") PROVE FALSE
  OBVIOUS
<1>1. PICK i \in 1..Len(r[k]) : r[k][i].co = a /\ a # None
  BY DEF Those
<1>2. r[k] \in Seq(Waiter)
  BY ListTypes
<1>3. a \in Co
  <2>1. r[k][i] \in Waiter
    BY <1>2
  <2> QED
    BY <1>1, <2>1 DEF Waiter
<1> QED
  BY <1>3 DEF SelectInv, Orderly, Waiter_OK, Waits, Sleeps

(* A step of a readies the others as they were, and gives an element to a  *)
(* sleeping reader at most, which is in no list then.                      *)
LEMMA ReadyMoves ==
    ASSUME Readiness, NEW a \in Actor, closed \subseteq closed', Ready_OK(a)',
           \A b \in Actor \ {a} : pc'[b] = pc[b] /\ op'[b] = op[b] /\ ch'[b] = ch[b]
                                  /\ tgt'[b] = tgt[b],
           \A b \in Actor \ {a} : ele'[b] = ele[b] \/ pc[b] \in {"parked", "asleep"},
           \A k \in Chan : \A c \in Those(r'[k], "plain") :
               (c \in Those(r[k], "plain") /\ ele'[c] = ele[c]) \/ ele'[c] = None
    PROVE  Readiness'
<1>1. ASSUME NEW b \in Actor, b # a PROVE Ready_OK(b)'
  <2>1. Ready_OK(b)
    BY DEF Readiness
  <2>2. Unserved(b)' => Unserved(b) /\ pc[b] \notin {"parked", "asleep"}
    BY <1>1 DEF Unserved
  <2>3. op'[b] \in Pops /\ Unserved(b)' => ele'[b] = None
    BY <1>1, <2>1, <2>2 DEF Ready_OK
  <2> QED
    BY <1>1, <2>1, <2>3 DEF Ready_OK
<1>2. ReadersWait'
  <2> SUFFICES ASSUME NEW k \in Chan, NEW c \in Those(r[k], "plain")' PROVE ele'[c] = None
    BY DEF ReadersWait
  <2>1. c \in Those(r'[k], "plain")
    BY DEF Those
  <2> QED
    BY <2>1 DEF Readiness, ReadersWait
<1> QED
  BY <1>1, <1>2 DEF Readiness

(* The call is over.                                                       *)
LEMMA ReturnReady ==
    ASSUME SelectInv, Readiness, NEW a \in Actor, NEW acc, NEW rec, Return(a, acc, rec),
           UNCHANGED <<r, closed>>
    PROVE  Readiness'
<1>1. Others(a) /\ op'[a] = None /\ None \notin Op /\ ele'[a] = None
  BY ReturnMoves, ListTypes DEF Return, SelectInv, SelectTypeOK
<1>2. Ready_OK(a)'
  BY <1>1 DEF Ready_OK, Pops, Op
<1>3. \A b : b # a => ele'[b] = ele[b]
  BY ListTypes DEF Return
<1>4. \A k \in Chan : \A c \in Those(r'[k], "plain") :
          (c \in Those(r[k], "plain") /\ ele'[c] = ele[c]) \/ ele'[c] = None
  BY <1>1, <1>3
<1> QED
  BY <1>1, <1>2, <1>4, ReadyMoves DEF Others

(* The call, its element and its place in the lists stay.                  *)
LEMMA PlaceReady ==
    ASSUME Readiness, NEW a \in Actor, UNCHANGED <<op, ch, ele>>, closed \subseteq closed',
           Ready_OK(a)', \A b \in Actor \ {a} : pc'[b] = pc[b] /\ tgt'[b] = tgt[b],
           \A k \in Chan : Those(r'[k], "plain") \subseteq Those(r[k], "plain")
    PROVE  Readiness'
<1>1. \A b \in Actor \ {a} : pc'[b] = pc[b] /\ op'[b] = op[b] /\ ch'[b] = ch[b]
                             /\ tgt'[b] = tgt[b]
  OBVIOUS
<1>2. \A b \in Actor \ {a} : ele'[b] = ele[b] \/ pc[b] \in {"parked", "asleep"}
  OBVIOUS
<1>3. \A k \in Chan : \A c \in Those(r'[k], "plain") :
          (c \in Those(r[k], "plain") /\ ele'[c] = ele[c]) \/ ele'[c] = None
  OBVIOUS
<1> QED
  BY <1>1, <1>2, <1>3, ReadyMoves

(* A list of readers that loses its first one.                             *)
LEMMA ReadersLess ==
    ASSUME SelectInv, NEW k \in Chan, r[k] # <<>>, r' = [r EXCEPT ![k] = Tail(@)]
    PROVE  \A c \in Chan : Those(r'[c], "plain") \subseteq Those(r[c], "plain")
<1>1. r[k] \in Seq(Waiter) /\ \A c \in Chan : r'[c] = IF c = k THEN Tail(r[c]) ELSE r[c]
  BY ListTypes
<1>2. Those(Tail(r[k]), "plain") \subseteq Those(r[k], "plain")
  BY <1>1, ThoseTail
<1> QED
  BY <1>1, <1>2

LEMMA HoldReady ==
    ASSUME SelectInv, Readiness, NEW a \in Actor,
           \/ EnterRefused(a) \/ Wake(a) \/ Close(a) \/ DrainWriter(a) \/ DrainReader(a)
           \/ Served(a) /\ UNCHANGED acvars /\ pc[a] \in {"wake", "join"}
              /\ UNCHANGED <<r, closed>> /\ (op[a] = "close" \/ tgt[a].kind = "select")
    PROVE  Readiness'
<1>1. PICK place : HoldAt(a, place) /\ UNCHANGED <<op, ch, ele>>
      /\ \/ EnterRefused(a) /\ place = "refused" /\ UNCHANGED <<tgt, r, closed>>
         \/ Wake(a) /\ place \in {"join", "spin"} /\ UNCHANGED <<tgt, r, closed>>
         \/ Close(a) /\ place = "drain" /\ UNCHANGED <<tgt, r>>
            /\ closed' = closed \cup {ch[a]}
         \/ (DrainWriter(a) \/ DrainReader(a)) /\ place = "wake" /\ UNCHANGED closed
            /\ \E x : tgt' = [tgt EXCEPT ![a] = x]
         \/ op[a] = "close" /\ place = "drain" /\ pc[a] \in {"wake", "join"}
            /\ UNCHANGED <<tgt, r, closed>>
         \/ tgt[a].kind = "select" /\ op[a] # "close" /\ place = "refused"
            /\ pc[a] \in {"wake", "join"} /\ UNCHANGED <<tgt, r, closed>>
  <2>1. CASE EnterRefused(a) \/ Close(a)
    BY <2>1 DEF EnterRefused, Close, chvars, acvars
  <2>2. CASE Wake(a)
    BY <2>2 DEF Wake, chvars, acvars
  <2>3. CASE DrainWriter(a) \/ DrainReader(a)
    BY <2>3 DEF DrainWriter, DrainReader
  <2>4. CASE Served(a) /\ UNCHANGED acvars /\ pc[a] \in {"wake", "join"}
             /\ UNCHANGED <<r, closed>> /\ (op[a] = "close" \/ tgt[a].kind = "select")
    BY <2>4 DEF Served, acvars
  <2> QED
    BY <2>1, <2>2, <2>3, <2>4
<1>2. /\ pc'[a] = place /\ \A b \in Actor \ {a} : pc'[b] = pc[b] /\ tgt'[b] = tgt[b]
      /\ ch[a] \in Chan /\ Ready_OK(a)
  <2>1. pc[a] \in {"lock"} \cup Holding
    BY <1>1 DEF EnterRefused, Wake, Close, DrainWriter, DrainReader, Enters, Holding
  <2> QED
    BY <1>1, <2>1, CallPlace, ListTypes DEF HoldAt, Readiness
<1>3. Ready_OK(a)'
  <2>1. CASE EnterRefused(a) /\ place = "refused" /\ UNCHANGED <<tgt, r, closed>>
    <3>1. pc[a] = "lock" /\ op[a] # "close"
      BY <2>1 DEF EnterRefused, Enters, Pushes, Pops
    <3> QED
      BY <1>1, <1>2, <3>1 DEF Ready_OK, Unserved
  <2>2. CASE Wake(a) /\ place \in {"join", "spin"} /\ UNCHANGED <<tgt, r, closed>>
    <3>1. pc[a] \in {"wake", "spin"}
      BY <2>2 DEF Wake
    <3> QED
      BY <1>1, <1>2, <2>2, <3>1 DEF Ready_OK, Unserved
  <2>3. CASE Close(a) /\ place = "drain" /\ closed' = closed \cup {ch[a]}
    BY <1>1, <1>2, <2>3 DEF Ready_OK, Unserved
  <2>4. CASE (DrainWriter(a) \/ DrainReader(a)) /\ place = "wake" /\ UNCHANGED closed
    <3>1. pc[a] = "drain"
      BY <2>4 DEF DrainWriter, DrainReader
    <3>2. op[a] = "close"
      BY <3>1 DEF SelectInv, CallsOK, Call_OK
    <3> QED
      BY <1>1, <1>2, <2>4, <3>1, <3>2 DEF Ready_OK, Pops
  <2>5. CASE op[a] = "close" /\ place = "drain" /\ pc[a] \in {"wake", "join"}
             /\ UNCHANGED closed
    BY <1>1, <1>2, <2>5 DEF Ready_OK, Unserved
  <2>6. CASE tgt[a].kind = "select" /\ op[a] # "close" /\ place = "refused"
             /\ pc[a] \in {"wake", "join"} /\ UNCHANGED <<tgt, r, closed>>
    BY <1>1, <1>2, <2>6 DEF Ready_OK, Unserved
  <2> QED
    BY <1>1, <2>1, <2>2, <2>3, <2>4, <2>5, <2>6
<1>4. \A k \in Chan : Those(r'[k], "plain") \subseteq Those(r[k], "plain")
  <2>1. CASE r' = r
    BY <2>1
  <2>2. CASE DrainReader(a)
    BY <1>2, <2>2, ReadersLess DEF DrainReader
  <2> QED
    BY <1>1, <2>1, <2>2 DEF DrainWriter
<1>5. closed \subseteq closed'
  BY <1>1
<1> QED
  BY <1>1, <1>2, <1>3, <1>4, <1>5, PlaceReady

LEMMA TakeReady ==
    ASSUME SelectInv, Readiness, NEW a \in Actor, PopFromWriter(a)
    PROVE  Readiness'
<1>1. PICK x : x = Head(w[ch[a]])
  OBVIOUS
<1>2. /\ pc[a] = "lock" /\ op[a] \in Pops /\ UNCHANGED <<op, ch, r, closed>>
      /\ pc' = [pc EXCEPT ![a] = "wake"] /\ tgt' = [tgt EXCEPT ![a] = x]
      /\ ele' = IF x.kind = "plain" THEN [ele EXCEPT ![a] = x.ele] ELSE ele
  BY <1>1 DEF PopFromWriter, Enters, HoldAt
<1>3. /\ pc'[a] = "wake" /\ tgt'[a] = x
      /\ x.kind # "plain" => ele'[a] = ele[a]
      /\ \A b \in Actor \ {a} : pc'[b] = pc[b] /\ tgt'[b] = tgt[b] /\ ele'[b] = ele[b]
      /\ \A b : b # a => ele'[b] = ele[b]
  BY <1>2, ListTypes
<1>4. Ready_OK(a)'
  <2>1. Ready_OK(a) /\ op[a] # "close"
    BY <1>2 DEF Readiness, Pops
  <2> QED
    BY <1>2, <1>3, <2>1 DEF Ready_OK, Unserved
<1>5. \A k \in Chan : \A c \in Those(r'[k], "plain") :
          c \in Those(r[k], "plain") /\ ele'[c] = ele[c]
  BY <1>2, <1>3, AwakeNoReader
<1> QED
  BY <1>2, <1>3, <1>4, <1>5, ReadyMoves

(* The reader that is given an element is in no list any more.             *)
LEMMA GiveReady ==
    ASSUME SelectInv, Readiness, NEW a \in Actor, PushToReader(a)
    PROVE  Readiness'
<1>1. PICK k, x : k = ch[a] /\ x = Head(r[k])
  OBVIOUS
<1>2. /\ pc[a] = "lock" /\ lock[k] = None /\ op[a] \in Pushes
      /\ UNCHANGED <<op, ch, closed>> /\ r[k] # <<>> /\ r' = [r EXCEPT ![k] = Tail(@)]
      /\ pc' = [pc EXCEPT ![a] = "wake"] /\ tgt' = [tgt EXCEPT ![a] = x]
      /\ ele' = IF x.kind = "plain" THEN [ele EXCEPT ![x.co] = ele[a]] ELSE ele
  BY <1>1 DEF PushToReader, Enters, HoldAt
<1>3. /\ k \in Chan /\ Busy(a) /\ r[k] \in Seq(Waiter) /\ OnceIn(r[k])
      /\ \A c \in Chan : r'[c] = IF c = k THEN Tail(r[c]) ELSE r[c]
  BY <1>1, <1>2, CallPlace, ListTypes DEF SelectInv, Orderly, ListedOnce
<1>4. \A c \in Chan : Those(r'[c], "plain") \subseteq Those(r[c], "plain")
  BY <1>2, <1>3, ReadersLess
<1>5. /\ x \in Waiter /\ x.co \notin Cos(Tail(r[k]))
      /\ x.co # None => x.co \in Those(r[k], x.kind)
  BY <1>1, <1>2, <1>3, CosTail, ThoseTail
<1>6. x.kind = "plain" /\ x.co # None =>
          /\ x.co \in Actor \ {a} /\ pc[x.co] \in {"parked", "asleep"}
          /\ \A c \in Chan : x.co \notin Those(r'[c], "plain")
  <2> SUFFICES ASSUME x.kind = "plain", x.co # None
               PROVE  /\ x.co \in Actor \ {a} /\ pc[x.co] \in {"parked", "asleep"}
                      /\ \A c \in Chan : x.co \notin Those(r'[c], "plain")
    OBVIOUS
  <2>1. x.co \in Actor \ {a} /\ Sleeps(x.co, k)
    BY <1>2, <1>3, <1>5, TakenTarget
  <2>2. ASSUME NEW c \in Chan, x.co \in Those(r'[c], "plain") PROVE FALSE
    <3>1. PICK d \in Co : d = x.co
      BY <2>1 DEF Sleeps
    <3>2. Waiter_OK(d) /\ d \in Those(r[c], "plain")
      BY <1>4, <2>2, <3>1 DEF SelectInv, Orderly
    <3>3. c = k
      BY <2>1, <3>1, <3>2 DEF Waiter_OK, Waits, Sleeps
    <3>4. x.co \in Those(Tail(r[k]), "plain")
      BY <1>3, <2>2, <3>3
    <3> QED
      BY <1>5, <3>4 DEF Those, Cos
  <2> QED
    BY <2>1, <2>2 DEF Sleeps
<1>7. /\ \A b \in Actor \ {a} : pc'[b] = pc[b] /\ tgt'[b] = tgt[b]
      /\ \A b : b # x.co => ele'[b] = ele[b]
      /\ x.kind # "plain" => ele' = ele
      /\ x.co = None => ele' = ele
  BY <1>2, ListTypes, NoneNotOp
<1>8. \A b \in Actor \ {a} : ele'[b] = ele[b] \/ pc[b] \in {"parked", "asleep"}
  BY <1>6, <1>7
<1>9. \A c \in Chan : \A d \in Those(r'[c], "plain") :
          d \in Those(r[c], "plain") /\ ele'[d] = ele[d]
  BY <1>4, <1>6, <1>7
<1>10. Ready_OK(a)'
  BY <1>2 DEF Ready_OK, Pushes, Pops
<1> QED
  BY <1>2, <1>7, <1>8, <1>9, <1>10, ReadyMoves

LEMMA ActorReady ==
    ASSUME SelectInv, Readiness, NEW a \in Actor, ActorStep(a)
    PROVE  Readiness'
<1>1. CASE \/ EnterClosed(a) \/ GiveUp(a) \/ Drained(a) \/ PushToQueue(a) \/ PopFromQueue(a)
           \/ \E malloc \in Mallocs : LeaveElement(a, malloc)
  <2>1. UNCHANGED <<r, closed>> /\ \E acc, rec : Return(a, acc, rec)
    BY <1>1 DEF EnterClosed, GiveUp, Drained, PushToQueue, PopFromQueue, LeaveElement, chvars
  <2> QED
    BY <2>1, ReturnReady
<1>2. CASE WakeNobody(a) \/ \E malloc \in Mallocs : Join(a, malloc)
  <2>1. Served(a) /\ pc[a] \in {"wake", "join"} /\ UNCHANGED <<r, closed>>
    BY <1>2 DEF WakeNobody, Join, chvars
  <2>2. CASE op[a] = "close" \/ tgt[a].kind = "select"
    <3>1. UNCHANGED acvars
      BY <2>1, <2>2 DEF Served
    <3> QED
      BY <2>1, <2>2, <3>1, HoldReady
  <2>3. CASE ~(op[a] = "close" \/ tgt[a].kind = "select")
    <3>1. \E acc, rec : Return(a, acc, rec)
      BY <2>1, <2>3 DEF Served
    <3> QED
      BY <2>1, <3>1, ReturnReady
  <2> QED
    BY <2>2, <2>3
<1> QED
  BY <1>1, <1>2, HoldReady, TakeReady, GiveReady DEF ActorStep

LEMMA BlockReady ==
    ASSUME SelectInv, Readiness, NEW a \in Actor, NEW malloc, Block(a, malloc)
    PROVE  Readiness'
<1>1. PICK k, x : k = ch[a] /\ x = [co |-> a, ele |-> ele[a], kind |-> "plain"]
  OBVIOUS
<1>2. /\ pc[a] = "refused" /\ op[a] \in {"push", "pop"}
      /\ UNCHANGED <<op, ch, ele, tgt, closed>> /\ pc' = [pc EXCEPT ![a] = "parked"]
      /\ r' = (IF op[a] = "pop" /\ malloc = "ok" THEN [r EXCEPT ![k] = <<x>> \o @] ELSE r)
  BY <1>1 DEF Block, acvars
<1>3. k \in Chan /\ Ready_OK(a) /\ a \in Co /\ TypeOK
  BY <1>1, <1>2, CallPlace DEF Holding, Readiness, SelectInv, CallsOK, Call_OK
<1>4. op[a] = "pop" => ele[a] = None /\ x \in Waiter
  <2> SUFFICES ASSUME op[a] = "pop" PROVE ele[a] = None /\ x \in Waiter
    OBVIOUS
  <2>1. ele[a] = None
    BY <1>2, <1>3 DEF Ready_OK, Unserved, Pops
  <2> QED
    BY <1>1, <1>3, <2>1 DEF Waiter
<1>5. ASSUME NEW c \in Chan, NEW d \in Those(r'[c], "plain")
      PROVE  (d \in Those(r[c], "plain") /\ ele'[d] = ele[d]) \/ ele'[d] = None
  <2>1. CASE r'[c] = r[c]
    BY <1>2, <1>5, <2>1
  <2>2. CASE r'[c] # r[c]
    <3>1. op[a] = "pop" /\ r'[c] = <<x>> \o r[c] /\ r[c] \in Seq(Waiter)
      BY <1>2, <1>3, <1>5, <2>2, ListTypes
    <3>2. Those(<<x>> \o r[c], "plain") \subseteq
              Those(r[c], "plain") \cup (IF x.kind = "plain" THEN {x.co} \ {None} ELSE {})
      BY <1>4, <3>1, ThosePush
    <3>3. d \in Those(r[c], "plain") \/ d = a
      BY <1>1, <1>5, <3>1, <3>2
    <3> QED
      BY <1>2, <1>4, <3>1, <3>3
  <2> QED
    BY <2>1, <2>2
<1>6. pc'[a] = "parked" /\ \A b \in Actor \ {a} : pc'[b] = pc[b]
  BY <1>2, ListTypes
<1>7. Ready_OK(a)'
  BY <1>2, <1>6 DEF Ready_OK, Unserved
<1>8. /\ \A b \in Actor \ {a} : pc'[b] = pc[b] /\ op'[b] = op[b] /\ ch'[b] = ch[b]
                                /\ tgt'[b] = tgt[b]
      /\ \A b \in Actor \ {a} : ele'[b] = ele[b]
      /\ closed' = closed
  BY <1>2, <1>6
<1> QED
  BY <1>5, <1>7, <1>8, ReadyMoves

(* A call begins with an element to push, or with none.                    *)
LEMMA BeginReady ==
    ASSUME SelectInv, Readiness, NEW a \in Actor, pc[a] = "user",
           NEW o, NEW c, NEW x, Begin(a, o, c, x), UNCHANGED <<r, closed>>,
           o \in Pops => x = None
    PROVE  Readiness'
<1>1. CASE c \in closed
  <2>1. UNCHANGED <<pc, op, ch, ele, tgt>>
    BY <1>1 DEF Begin, acvars
  <2>2. Ready_OK(a)'
    BY <2>1 DEF Readiness, Ready_OK, Unserved
  <2> QED
    BY <2>1, <2>2, PlaceReady
<1>2. CASE c \notin closed
  <2>1. /\ pc'[a] = "lock" /\ op'[a] = o /\ ele'[a] = x
        /\ \A b \in Actor \ {a} : /\ pc'[b] = pc[b] /\ op'[b] = op[b] /\ ch'[b] = ch[b]
                                  /\ tgt'[b] = tgt[b] /\ ele'[b] = ele[b]
    BY <1>2, ListTypes DEF Begin, SelectInv, SelectTypeOK, TypeOK, CallTypeOK
  <2>2. Ready_OK(a)'
    BY <2>1 DEF Ready_OK
  <2>3. \A b : b # a => ele'[b] = ele[b]
    <3>1. ele' = [ele EXCEPT ![a] = x]
      BY <1>2 DEF Begin
    <3> QED
      BY <3>1, ListTypes
  <2>4. \A k \in Chan : \A d \in Those(r'[k], "plain") :
            d \in Those(r[k], "plain") /\ ele'[d] = ele[d]
    BY <2>3, AwakeNoReader
  <2> QED
    BY <2>1, <2>2, <2>4, ReadyMoves
<1> QED
  BY <1>1, <1>2

(* Only places change, and a is at no call's.                              *)
LEMMA ElsewhereReady ==
    ASSUME SelectInv, Readiness, NEW a \in Actor, UNCHANGED <<op, ch, ele, tgt, closed>>,
           pc'[a] = pc[a] \/ pc'[a] \in {"new", "user", "dead", "asleep"},
           \A b \in Actor \ {a} : pc'[b] = pc[b],
           \A k \in Chan : Those(r'[k], "plain") \subseteq Those(r[k], "plain")
    PROVE  Readiness'
<1>1. Ready_OK(a)'
  BY DEF Readiness, Ready_OK, Unserved
<1> QED
  BY <1>1, PlaceReady

LEMMA RegisterReady ==
    ASSUME SelectInv, Readiness, NEW a \in Actor, NEW made,
           Register(a, made) \/ Deregister(a)
    PROVE  Readiness'
<1>1. UNCHANGED <<pc, op, ch, ele, tgt, closed>>
  BY DEF Register, Deregister, acvars
<1>2. ASSUME NEW k \in Chan PROVE Those(r'[k], "plain") \subseteq Those(r[k], "plain")
  <2>1. r[k] \in Seq(Waiter)
    BY ListTypes
  <2>2. CASE Register(a, made)
    <3>1. PICK x : x = [co |-> a, kind |-> "select", ele |-> None]
      OBVIOUS
    <3>2. a \in Co
      <4>1. sel[a] = "decide" /\ blocked[a]
        BY <2>2 DEF Register
      <4> QED
        BY <4>1, SelectPlace DEF Place_OK
    <3>3. x \in Waiter
      BY <3>1, <3>2 DEF Waiter
    <3>4. r'[k] = r[k] \/ r'[k] = <<x>> \o r[k]
      BY <2>2, <3>1 DEF Register, WithWaiter
    <3>5. Those(<<x>> \o r[k], "plain") \subseteq Those(r[k], "plain")
      <4>1. Those(<<x>> \o r[k], "plain") \subseteq
                Those(r[k], "plain") \cup (IF x.kind = "plain" THEN {x.co} \ {None} ELSE {})
        BY <2>1, <3>3, ThosePush
      <4> QED
        BY <3>1, <4>1
    <3> QED
      BY <3>4, <3>5
  <2>3. CASE Deregister(a)
    <3>1. r'[k] = r[k] \/ r'[k] = Without(r[k], a)
      BY <2>3 DEF Deregister
    <3> QED
      BY <2>1, <3>1, WithoutOne
  <2> QED
    BY <2>2, <2>3
<1> QED
  BY <1>1, <1>2, ElsewhereReady

LEMMA ReadyStep ==
    ASSUME SelectInv, Readiness, [SelectNext]_<<vars, selvars>>
    PROVE  Readiness'
<1>1. ASSUME NEW a \in Actor, SelectStep(a) PROVE Readiness'
  <2>1. CASE SelectLock(a) \/ Choose(a) \/ SelectNone(a) \/ SelectPark(a)
    <3>1. UNCHANGED <<op, ch, ele, tgt, closed, pc, r>>
      BY <2>1 DEF SelectLock, Choose, SelectNone, SelectPark, chvars, acvars
    <3> QED
      BY <3>1, ElsewhereReady
  <2>2. CASE Try(a)
    <3>1. /\ UNCHANGED <<r, closed>> /\ sel[a] = "chosen"
          /\ Begin(a, IF cases[a][at[a]].type = "push" THEN "trypush" ELSE "trypop",
                   cases[a][at[a]].on, CaseElem(a, at[a]))
      BY <2>2 DEF Try, chvars
    <3>2. PICK o, c, x : /\ Begin(a, o, c, x)
                         /\ o \in Pops => x = None
      BY <3>1 DEF CaseElem, Pops
    <3>3. pc[a] = "user"
      BY <3>1, SelectPlace
    <3> QED
      BY <3>1, <3>2, <3>3, BeginReady
  <2>3. ASSUME NEW made, Register(a, made) PROVE Readiness'
    BY <2>3, RegisterReady
  <2>4. CASE Deregister(a)
    BY <2>4, RegisterReady
  <2>5. CASE SelectActorStep(a)
    BY <2>5, ActorReady DEF SelectActorStep
  <2> QED
    BY <1>1, <2>1, <2>2, <2>3, <2>4, <2>5 DEF SelectStep
<1>2. ASSUME NEW a \in Actor, NEW cs, NEW b, Select(a, cs, b) PROVE Readiness'
  <2>1. UNCHANGED <<op, ch, ele, tgt, closed, pc, r>>
    BY <1>2 DEF Select, chvars, acvars
  <2> QED
    BY <2>1, ElsewhereReady
<1>3. ASSUME NEW a \in Actor, NEW o, NEW c, Call(a, o, c) PROVE Readiness'
  <2>1. PICK x : /\ Begin(a, o, c, x)
                 /\ o \in Pops => x = None
    BY <1>3 DEF Call, Pops, Pushes
  <2>2. UNCHANGED <<r, closed>> /\ pc[a] = "user"
    BY <1>3 DEF Call, chvars
  <2> QED
    BY <2>1, <2>2, BeginReady
<1>4. ASSUME NEW a \in Co, CoroutineStep(a) \/ Spawn(a) \/ Yield(a) \/ Terminate(a)
      PROVE  Readiness'
  <2>1. a \in Actor
    BY DEF Actor
  <2>2. CASE Park(a) \/ Spawn(a) \/ Yield(a) \/ Terminate(a)
    <3>1. UNCHANGED <<op, ch, ele, tgt, closed, r>>
      BY <2>2 DEF Park, Spawn, Yield, Terminate, chvars, acvars
    <3>2. /\ pc'[a] = pc[a] \/ pc'[a] \in {"new", "user", "dead", "asleep"}
          /\ \A b \in Actor \ {a} : pc'[b] = pc[b]
      BY <2>1, <2>2, ListTypes DEF Park, Spawn, Yield, Terminate
    <3> QED
      BY <2>1, <3>1, <3>2, ElsewhereReady
  <2>3. ASSUME NEW malloc, Block(a, malloc) PROVE Readiness'
    BY <2>1, <2>3, BlockReady
  <2>4. CASE Relock(a)
    <3>1. UNCHANGED <<r, closed>> /\ \E acc, rec : Return(a, acc, rec)
      BY <2>4 DEF Relock, chvars
    <3> QED
      BY <2>1, <3>1, ReturnReady
  <2> QED
    BY <1>4, <2>2, <2>3, <2>4 DEF CoroutineStep
<1>5. CASE (\E h \in Hdl : HandlerStep(h)) \/ LoopThread \/ UNCHANGED <<vars, selvars>>
  <2>1. UNCHANGED <<op, ch, ele, tgt, closed, pc, r>>
    BY <1>5 DEF HandlerStep, LoopThread, vars, chvars, acvars
  <2> QED
    BY <2>1 DEF Readiness, ReadersWait, Ready_OK, Unserved, Those
<1> QED
  BY <1>1, <1>2, <1>3, <1>4, <1>5 DEF SelectNext

LEMMA ReadyInitially == SelectInit => Readiness
<1> SUFFICES ASSUME SelectInit PROVE Readiness
  OBVIOUS
<1>1. /\ \A k \in Chan : r[k] = <<>>
      /\ \A a \in Actor : op[a] = None
  BY DEF SelectInit, Init
<1>2. None \notin Pops /\ None # "close"
  BY NoneNotOp DEF Pops, Op
<1> QED
  BY <1>1, <1>2 DEF Readiness, ReadersWait, Ready_OK, Those

-----------------------------------------------------------------------------
(* The waiter that is cut out is the only one that goes.                   *)
RestIn(s, t, a, n) ==
    /\ s[n].co = a
    /\ \A j \in 1..Len(s) : j = n \/ \E i \in 1..Len(t) : t[i] = s[j]

LEMMA CutRest ==
    ASSUME NEW s \in Seq(Waiter), NEW a, NEW t, t = Without(s, a), PlacesOf(a, s) # {}
    PROVE  \E n \in 1..Len(s) : RestIn(s, t, a, n)
<1>n. PICK n \in 1..Len(s) :
          /\ s[n].co = a
          /\ t = SubSeq(s, 1, n - 1) \o SubSeq(s, n + 1, Len(s))
  BY DEF Without, PlacesOf
<1>1. PICK u : u = SubSeq(s, 1, n - 1)
  OBVIOUS
<1>2. PICK v : v = SubSeq(s, n + 1, Len(s))
  OBVIOUS
<1>3. u \in Seq(Waiter) /\ Len(u) = n - 1 /\ \A i \in 1..(n - 1) : u[i] = s[i]
  BY <1>1
<1>4. /\ v \in Seq(Waiter) /\ Len(v) = Len(s) - n
      /\ \A i \in 1..(Len(s) - n) : v[i] = s[n + i]
  BY <1>2
<1>5. /\ Len(t) = Len(u) + Len(v)
      /\ \A i \in 1..(Len(u) + Len(v)) :
             t[i] = IF i <= Len(u) THEN u[i] ELSE v[i - Len(u)]
  <2>1. t = u \o v /\ u \in Seq(Waiter) /\ v \in Seq(Waiter)
    BY <1>n, <1>1, <1>2, <1>3, <1>4
  <2> QED
    BY <2>1, ConcatProperties
<1>6. ASSUME NEW j \in 1..Len(s), j # n PROVE \E i \in 1..Len(t) : t[i] = s[j]
  <2>0. Len(s) \in Nat /\ n \in 1..Len(s) /\ Len(u) = n - 1 /\ Len(v) = Len(s) - n
    BY <1>3, <1>4
  <2>1. CASE j < n
    <3>1. j \in 1..(n - 1) /\ j <= Len(u) /\ j \in 1..(Len(u) + Len(v)) /\ j \in 1..Len(t)
      BY <1>5, <2>0, <2>1
    <3>2. t[j] = s[j]
      BY <1>3, <1>5, <3>1
    <3> QED
      BY <3>1, <3>2
  <2>2. CASE j > n
    <3>1. PICK i, l : i = j - 1 /\ l = j - n
      OBVIOUS
    <3>2. /\ i \in 1..(Len(u) + Len(v)) /\ i \in 1..Len(t) /\ ~(i <= Len(u))
          /\ i - Len(u) = l /\ l \in 1..(Len(s) - n) /\ n + l = j
      BY <1>5, <2>0, <2>2, <3>1
    <3>3. t[i] = v[l]
      BY <1>5, <3>2
    <3>4. v[l] = s[j]
      BY <1>4, <3>2
    <3> QED
      BY <3>2, <3>3, <3>4
  <2> QED
    BY <1>6, <2>0, <2>1, <2>2
<1> QED
  BY <1>n, <1>6 DEF RestIn

(* What a list of writers keeps.                                           *)
LEMMA TailKeeps ==
    ASSUME NEW s \in Seq(Waiter), s # <<>>
    PROVE  \A e : PlainIn(e, s) =>
               PlainIn(e, Tail(s)) \/ (Head(s).kind = "plain" /\ e = Head(s).ele)
<1>1. /\ Len(s) \in Nat \ {0} /\ Head(s) = s[1]
      /\ \A i \in 1..Len(s) : i = 1 \/ (i - 1 \in 1..Len(Tail(s)) /\ Tail(s)[i - 1] = s[i])
  OBVIOUS
<1>2. ASSUME NEW e, PlainIn(e, s)
      PROVE  PlainIn(e, Tail(s)) \/ (Head(s).kind = "plain" /\ e = Head(s).ele)
  <2>1. PICK i \in 1..Len(s) : s[i].kind = "plain" /\ s[i].ele = e
    BY <1>2 DEF PlainIn
  <2> QED
    BY <1>1, <2>1 DEF PlainIn
<1> QED
  BY <1>2

LEMMA PushKeeps ==
    ASSUME NEW s \in Seq(Waiter), NEW x \in Waiter
    PROVE  /\ \A e : PlainIn(e, s) => PlainIn(e, <<x>> \o s)
           /\ x.kind = "plain" => PlainIn(x.ele, <<x>> \o s)
<1> DEFINE t == <<x>> \o s
<1>1. /\ t[1] = x /\ 1 \in 1..Len(t)
      /\ \A i \in 1..Len(s) : i + 1 \in 1..Len(t) /\ s[i] = t[i + 1]
  OBVIOUS
<1> HIDE DEF t
<1>2. ASSUME NEW e, PlainIn(e, s) PROVE PlainIn(e, t)
  <2>1. PICK i \in 1..Len(s) : s[i].kind = "plain" /\ s[i].ele = e
    BY <1>2 DEF PlainIn
  <2> QED
    BY <1>1, <2>1 DEF PlainIn
<1>3. x.kind = "plain" => PlainIn(x.ele, t)
  BY <1>1 DEF PlainIn
<1>4. \A e : PlainIn(e, s) => PlainIn(e, t)
  BY <1>2
<1> QED
  BY <1>3, <1>4 DEF t

LEMMA WithoutKeeps ==
    ASSUME NEW s \in Seq(Waiter), NEW a, a # None, a \notin Those(s, "plain")
    PROVE  \A e : PlainIn(e, s) => PlainIn(e, Without(s, a))
<1>1. CASE PlacesOf(a, s) = {}
  <2>1. Without(s, a) = s
    BY <1>1 DEF Without, PlacesOf
  <2> QED
    BY <2>1
<1>2. CASE PlacesOf(a, s) # {}
  <2>1. PICK t : t = Without(s, a)
    OBVIOUS
  <2>2. PICK n \in 1..Len(s) : RestIn(s, t, a, n)
    BY <1>2, <2>1, CutRest
  <2>3. ASSUME NEW e, PlainIn(e, s) PROVE PlainIn(e, t)
    <3>1. PICK j \in 1..Len(s) : s[j].kind = "plain" /\ s[j].ele = e
      BY <2>3 DEF PlainIn
    <3>2. j # n
      BY <2>2, <3>1 DEF Those, RestIn
    <3>3. PICK i \in 1..Len(t) : t[i] = s[j]
      BY <2>2, <3>2 DEF RestIn
    <3> QED
      BY <3>1, <3>3 DEF PlainIn
  <2> QED
    BY <2>1, <2>3
<1> QED
  BY <1>1, <1>2

-----------------------------------------------------------------------------
(* Every waiting reader is a coroutine's, so that what it is given is in   *)
(* somebody's hands.                                                       *)
AllNamed(s) == \A i \in 1..Len(s) : s[i].co # None
Named == \A k \in Chan : AllNamed(r[k])

LEMMA NamedList ==
    ASSUME NEW s \in Seq(Waiter), AllNamed(s)
    PROVE  /\ s # <<>> => AllNamed(Tail(s)) /\ Head(s).co # None
           /\ \A x \in Waiter : x.co # None => AllNamed(<<x>> \o s)
           /\ \A a : AllNamed(Without(s, a))
<1>1. s # <<>> => AllNamed(Tail(s)) /\ Head(s).co # None
  <2> SUFFICES ASSUME s # <<>> PROVE AllNamed(Tail(s)) /\ Head(s).co # None
    OBVIOUS
  <2>1. /\ Head(s) = s[1] /\ 1 \in 1..Len(s)
        /\ \A i \in 1..Len(Tail(s)) : Tail(s)[i] = s[i + 1] /\ i + 1 \in 1..Len(s)
    OBVIOUS
  <2> QED
    BY <2>1 DEF AllNamed
<1>2. ASSUME NEW x \in Waiter, x.co # None PROVE AllNamed(<<x>> \o s)
  <2> DEFINE t == <<x>> \o s
  <2>1. /\ t[1] = x
        /\ \A i \in 1..Len(t) : i = 1 \/ (i - 1 \in 1..Len(s) /\ s[i - 1] = t[i])
    OBVIOUS
  <2> HIDE DEF t
  <2>2. AllNamed(t)
    BY <1>2, <2>1 DEF AllNamed
  <2> QED
    BY <2>2 DEF t
<1>3. ASSUME NEW a PROVE AllNamed(Without(s, a))
  <2>1. CASE PlacesOf(a, s) = {}
    <3>1. Without(s, a) = s
      BY <2>1 DEF Without, PlacesOf
    <3> QED
      BY <3>1
  <2>2. CASE PlacesOf(a, s) # {}
    <3>1. PICK t : t = Without(s, a)
      OBVIOUS
    <3>2. \E n \in 1..Len(s) : Cut(s, t, a, n)
      BY <2>2, <3>1, CutOne
    <3>3. \A i \in 1..Len(t) : \E j \in 1..Len(s) : t[i] = s[j]
      BY <3>2 DEF Cut
    <3> QED
      BY <3>1, <3>3 DEF AllNamed
  <2> QED
    BY <2>1, <2>2
<1> QED
  BY <1>1, <1>2, <1>3

(* The readers of a channel lose one or get one that has a name.           *)
LEMMA NamedMoves ==
    ASSUME SelectInv, Named,
           \A k \in Chan :
               \/ r'[k] = r[k]
               \/ r[k] # <<>> /\ r'[k] = Tail(r[k])
               \/ \E a : r'[k] = Without(r[k], a)
               \/ \E x \in Waiter : x.co # None /\ r'[k] = <<x>> \o r[k]
    PROVE  Named'
<1> SUFFICES ASSUME NEW k \in Chan PROVE AllNamed(r'[k])
  BY DEF Named, AllNamed
<1>1. r[k] \in Seq(Waiter) /\ AllNamed(r[k])
  BY ListTypes DEF Named
<1> QED
  BY <1>1, NamedList

LEMMA NamedStep ==
    ASSUME SelectInv, Named, [SelectNext]_<<vars, selvars>>
    PROVE  Named'
<1>1. CASE r' = r
  BY <1>1 DEF Named, AllNamed
<1>2. ASSUME NEW a \in Actor, PushToReader(a) \/ DrainReader(a) PROVE Named'
  <2>1. PICK k : k = ch[a]
    OBVIOUS
  <2>2. r[k] # <<>> /\ r' = [r EXCEPT ![k] = Tail(@)]
    BY <1>2, <2>1 DEF PushToReader, DrainReader
  <2>3. \A c \in Chan : r'[c] = IF c = k THEN Tail(r[c]) ELSE r[c]
    BY <2>2, ListTypes
  <2> QED
    BY <2>2, <2>3, NamedMoves
<1>3. ASSUME NEW a \in Co, NEW malloc, Block(a, malloc) PROVE Named'
  <2>1. PICK k, x : k = ch[a] /\ x = [co |-> a, ele |-> ele[a], kind |-> "plain"]
    OBVIOUS
  <2>2. r' = IF op[a] = "pop" /\ malloc = "ok" THEN [r EXCEPT ![k] = <<x>> \o @] ELSE r
    BY <1>3, <2>1 DEF Block
  <2>3. \A c \in Chan : r'[c] = r[c] \/ r'[c] = <<x>> \o r[c]
    BY <2>2, ListTypes
  <2>4. x \in Waiter /\ x.co # None
    BY <2>1, ListTypes, RuntimeAssumption DEF Waiter, Actor
  <2> QED
    BY <2>3, <2>4, NamedMoves
<1>4. ASSUME NEW a \in Actor, NEW made, Register(a, made) PROVE Named'
  <2>1. PICK x : x = [co |-> a, kind |-> "select", ele |-> None]
    OBVIOUS
  <2>2. sel[a] = "decide" /\ blocked[a] /\ r' = WithWaiter(a, "pop", r, made)
    BY <1>4 DEF Register
  <2>3. a \in Co
    BY <2>2, SelectPlace DEF Place_OK
  <2>4. x \in Waiter /\ x.co # None
    BY <2>1, <2>3, RuntimeAssumption DEF Waiter
  <2>5. \A c \in Chan : r'[c] = r[c] \/ r'[c] = <<x>> \o r[c]
    BY <2>1, <2>2 DEF WithWaiter
  <2> QED
    BY <2>4, <2>5, NamedMoves
<1>5. ASSUME NEW a \in Actor, Deregister(a) PROVE Named'
  <2>1. r' = [c \in Chan |-> IF In(a, "pop", c) THEN Without(r[c], a) ELSE r[c]]
    BY <1>5 DEF Deregister
  <2>2. \A c \in Chan : r'[c] = r[c] \/ r'[c] = Without(r[c], a)
    BY <2>1
  <2> QED
    BY <2>2, NamedMoves
<1>6. ASSUME NEW a \in Actor, ActorStep(a), ~PushToReader(a), ~DrainReader(a) PROVE r' = r
  BY <1>6 DEF ActorStep, EnterClosed, EnterRefused, PushToQueue, PopFromWriter, PopFromQueue,
              GiveUp, Wake, WakeNobody, Close, DrainWriter, Drained, LeaveElement, Join,
              chvars
<1>7. ASSUME NEW a \in Actor, SelectStep(a) PROVE Named'
  <2>1. CASE SelectLock(a) \/ Choose(a) \/ SelectNone(a) \/ SelectPark(a) \/ Try(a)
    <3>1. r' = r
      BY <2>1 DEF SelectLock, Choose, SelectNone, SelectPark, Try, chvars
    <3> QED
      BY <1>1, <3>1
  <2>2. CASE SelectActorStep(a)
    BY <1>1, <1>2, <1>6, <2>2 DEF SelectActorStep
  <2> QED
    BY <1>4, <1>5, <1>7, <2>1, <2>2 DEF SelectStep
<1>8. ASSUME NEW a \in Co, CoroutineStep(a) \/ Spawn(a) \/ Yield(a) \/ Terminate(a)
      PROVE  Named'
  <2>1. CASE Park(a) \/ Relock(a) \/ Spawn(a) \/ Yield(a) \/ Terminate(a)
    <3>1. r' = r
      BY <2>1 DEF Park, Relock, Spawn, Yield, Terminate, chvars
    <3> QED
      BY <1>1, <3>1
  <2> QED
    BY <1>3, <1>8, <2>1 DEF CoroutineStep
<1>9. CASE \/ \E a \in Actor : \E cs, b : Select(a, cs, b)
           \/ \E a \in Actor : \E o, c : Call(a, o, c)
           \/ \E h \in Hdl : HandlerStep(h)
           \/ LoopThread \/ UNCHANGED <<vars, selvars>>
  <2>1. r' = r
    BY <1>9 DEF Select, Call, HandlerStep, LoopThread, vars, chvars
  <2> QED
    BY <1>1, <2>1
<1> QED
  BY <1>7, <1>8, <1>9 DEF SelectNext

-----------------------------------------------------------------------------
(* On an open channel, an element whose push has returned 0, or that the   *)
(* push has handed over and not returned yet, is somewhere.                *)
Passed(a) ==
    /\ op[a] \in Pushes
    /\ \/ pc[a] \in {"parked", "asleep"}
       \/ pc[a] \in {"wake", "spin", "join"} /\ tgt[a].kind # "select"

Passed_OK(a) == Passed(a) => ch[a] \in closed \/ Somewhere(ele[a])

Stored ==
    /\ \A a \in Actor : Passed_OK(a)
    /\ \A e \in accepted : e.on \in closed \/ Somewhere(e)

(* A step that loses nothing of an open channel.                           *)
Remains == \A e \in Elem : Somewhere(e) => e.on \in closed' \/ Somewhere(e)'

LEMMA RemainsWhere ==
    ASSUME \A e \in Elem : Had(e) => e.on \in closed' \/ Somewhere(e)',
           \A k \in Chan : \A e \in Elem : Lies(e, k) => e.on \in closed' \/ Somewhere(e)'
    PROVE  Remains
  BY DEF Remains, Somewhere

LEMMA StoredMoves ==
    ASSUME SelectInv, Offering, Stored, NEW a \in Actor, Remains, closed \subseteq closed',
           \A b \in Actor \ {a} : /\ pc'[b] = pc[b] /\ op'[b] = op[b] /\ ch'[b] = ch[b]
                                  /\ tgt'[b] = tgt[b] /\ (op[b] \in Pushes => ele'[b] = ele[b]),
           Passed_OK(a)',
           \A e \in accepted' : e \in accepted \/ e.on \in closed' \/ Somewhere(e)'
    PROVE  Stored'
<1>1. ASSUME NEW b \in Actor, b # a PROVE Passed_OK(b)'
  <2> SUFFICES ASSUME Passed(b)', ch'[b] \notin closed' PROVE Somewhere(ele[b])'
    BY DEF Passed_OK
  <2>1. /\ op'[b] = op[b] /\ ch'[b] = ch[b] /\ op[b] \in Pushes /\ ele'[b] = ele[b]
        /\ Passed(b)
    BY <1>1 DEF Passed
  <2>2. PICK y \in Elem : y = ele[b] /\ y.on = ch[b]
    BY <2>1 DEF Offering, Offer_OK
  <2>3. Somewhere(y)
    BY <2>1, <2>2 DEF Stored, Passed_OK
  <2>4. Somewhere(y)' /\ ele'[b] = y
    BY <2>1, <2>2, <2>3 DEF Remains
  <2> QED
    BY <2>4 DEF Somewhere, Had
<1>2. \A e \in accepted' : e.on \in closed' \/ Somewhere(e)'
  <2>1. accepted \subseteq Elem
    BY DEF SelectInv, SelectTypeOK, TypeOK, HistoryTypeOK
  <2> QED
    BY <2>1 DEF Stored, Remains
<1> QED
  BY <1>1, <1>2 DEF Stored

(* A call returns; a pop that has an element returns it.                   *)
LEMMA ReturnStored ==
    ASSUME SelectInv, Offering, Stored, NEW a \in Actor, NEW acc, NEW rec,
           Return(a, acc, rec), closed' = closed,
           op[a] \in Pops => ele[a] = None \/ rec = {ele[a]},
           \A k \in Chan : \A e \in Elem : Lies(e, k) => Somewhere(e)',
           \A e \in acc : e.on \in closed' \/ Somewhere(e)'
    PROVE  Stored'
<1>1. pc'[a] = "user" /\ Others(a)
  BY ReturnMoves DEF SelectInv, SelectTypeOK
<1>2. /\ accepted' = accepted \cup (acc \ {None})
      /\ received' = received \cup (rec \ {None})
  BY DEF Return
<1>3. ASSUME NEW e \in Elem, Had(e) PROVE Somewhere(e)'
  <2>1. CASE e \in received'
    BY <2>1 DEF Somewhere, Had
  <2>2. CASE e \notin received'
    <3>1. PICK b \in Actor : op[b] \in Pops /\ ele[b] = e
      BY <1>2, <1>3, <2>2 DEF Had
    <3>2. b # a
      BY <1>2, <2>2, <3>1, ElemAssumption
    <3>3. op'[b] \in Pops /\ ele'[b] = e
      BY <1>1, <3>1, <3>2 DEF Others
    <3> QED
      BY <3>3 DEF Somewhere, Had
  <2> QED
    BY <2>1, <2>2
<1>4. Remains
  BY <1>3, RemainsWhere
<1>5. Passed_OK(a)'
  BY <1>1 DEF Passed_OK, Passed
<1>6. \A e \in accepted' : e \in accepted \/ e.on \in closed' \/ Somewhere(e)'
  BY <1>2
<1> QED
  BY <1>1, <1>4, <1>5, <1>6, StoredMoves DEF Others

(* Whatever lies in buffers and with writers stays there.                  *)
LEMMA SameLies ==
    ASSUME UNCHANGED <<queue, w>>
    PROVE  \A k \in Chan : \A e : Lies(e, k) => Somewhere(e)'
  BY DEF Lies, Somewhere, InQueue, PlainIn

(* An actor moves with its call and its element; the writers may get more, *)
(* and a channel may be closed.                                            *)
LEMMA PlaceStored ==
    ASSUME SelectInv, Offering, Stored, NEW a \in Actor, closed \subseteq closed',
           UNCHANGED <<op, ch, ele, queue, accepted, received>>,
           \A b \in Actor \ {a} : pc'[b] = pc[b] /\ tgt'[b] = tgt[b],
           \A k \in Chan : \A e \in Elem :
               PlainIn(e, w[k]) => PlainIn(e, w'[k]) \/ e.on \in closed',
           Passed(a)' => Passed(a) \/ (ele[a] \in Elem /\ Somewhere(ele[a])')
    PROVE  Stored'
<1>1. \A e : Had(e) => Had(e)'
  BY DEF Had
<1>2. ASSUME NEW k \in Chan, NEW e \in Elem, Lies(e, k)
      PROVE  e.on \in closed' \/ Somewhere(e)'
  <2>1. InQueue(e, queue[k]) => InQueue(e, queue[k])'
    BY DEF InQueue
  <2>2. PlainIn(e, w'[k]) => PlainIn(e, w[k])'
    BY DEF PlainIn
  <2>3. Lies(e, k)' => Somewhere(e)'
    BY DEF Somewhere
  <2> QED
    BY <1>2, <2>1, <2>2, <2>3 DEF Lies
<1>3. Remains
  BY <1>1, <1>2, RemainsWhere DEF Somewhere
<1>4. Passed_OK(a)'
  <2> SUFFICES ASSUME Passed(a)', ch'[a] \notin closed' PROVE Somewhere(ele[a])'
    BY DEF Passed_OK
  <2>1. ele' = ele /\ ch' = ch /\ op' = op
    OBVIOUS
  <2>2. PICK y : y = ele[a] /\ y = ele'[a]
    BY <2>1
  <2>3. op[a] \in Pushes
    BY <2>1 DEF Passed
  <2>4. y \in Elem /\ y.on = ch[a]
    BY <2>2, <2>3 DEF Offering, Offer_OK
  <2>5. CASE Passed(a)
    <3>1. Somewhere(y)
      BY <2>1, <2>2, <2>5 DEF Stored, Passed_OK
    <3>2. Somewhere(y)'
      BY <1>3, <2>1, <2>4, <3>1 DEF Remains
    <3> QED
      BY <2>2, <3>2 DEF Somewhere, Had, Lies, InQueue, PlainIn
  <2> QED
    BY <2>5
<1> QED
  BY <1>3, <1>4, StoredMoves

-----------------------------------------------------------------------------
(* The steps of a call.                                                    *)
LEMMA QueueStored ==
    ASSUME SelectInv, Offering, Readiness, Stored, NEW a \in Actor, PushToQueue(a)
    PROVE  Stored'
<1>1. PICK k, x : k = ch[a] /\ x = ele[a]
  OBVIOUS
<1>2. /\ pc[a] = "lock" /\ w' = w /\ op[a] \in Pushes /\ op[a] \notin Pops
      /\ closed' = closed
      /\ Return(a, {x}, {}) /\ queue' = [queue EXCEPT ![k] = Append(@, x)]
  BY <1>1 DEF PushToQueue, Enters, Pushes, Pops
<1>3. k \in Chan /\ x \in Elem
  BY <1>1, <1>2, CallPlace, OwedNowhere
<1>4. /\ queue[k] \in Seq(Elem)
      /\ \A c \in Chan : queue'[c] = IF c = k THEN Append(queue[c], x) ELSE queue[c]
  BY <1>2, <1>3, ListTypes
<1>5. \A e : InQueue(e, Append(queue[k], x)) <=> InQueue(e, queue[k]) \/ e = x
  BY <1>3, <1>4, QueueAppend
<1>6. \A c \in Chan : \A e : InQueue(e, queue[c]) => InQueue(e, queue'[c])
  BY <1>4, <1>5
<1>7. \A c \in Chan : \A e : Lies(e, c) => Somewhere(e)'
  BY <1>2, <1>6 DEF Lies, Somewhere, InQueue, PlainIn
<1>8. Somewhere(x)'
  <2>1. InQueue(x, queue'[k])
    BY <1>3, <1>4, <1>5
  <2> QED
    BY <1>3, <2>1 DEF Somewhere, Lies, InQueue
<1> QED
  BY <1>2, <1>7, <1>8, ReturnStored

LEMMA UnqueueStored ==
    ASSUME SelectInv, Offering, Readiness, Stored, NEW a \in Actor, PopFromQueue(a)
    PROVE  Stored'
<1>1. PICK k, x : k = ch[a] /\ x = Head(queue[k])
  OBVIOUS
<1>2. /\ pc[a] = "lock" /\ w' = w /\ op[a] \in Pops /\ queue[k] # <<>> /\ closed' = closed
      /\ Return(a, {}, {x}) /\ queue' = [queue EXCEPT ![k] = Tail(@)]
  BY <1>1 DEF PopFromQueue, Enters
<1>3. k \in Chan
  BY <1>1, <1>2, CallPlace
<1>4. /\ queue[k] \in Seq(Elem)
      /\ \A c \in Chan : queue'[c] = IF c = k THEN Tail(queue[c]) ELSE queue[c]
  BY <1>2, <1>3, ListTypes
<1>5. \A e : InQueue(e, queue[k]) <=> e = x \/ InQueue(e, Tail(queue[k]))
  BY <1>1, <1>2, <1>4, QueueTail
<1>6. received' = received \cup ({x} \ {None})
  BY <1>2 DEF Return
<1>7. ASSUME NEW c \in Chan, NEW e \in Elem, Lies(e, c) PROVE Somewhere(e)'
  <2>1. CASE e = x
    BY <1>6, <2>1, ElemAssumption DEF Somewhere, Had
  <2>2. CASE e # x
    <3>1. InQueue(e, queue[c]) => InQueue(e, queue'[c])
      BY <1>4, <1>5, <2>2
    <3> QED
      BY <1>2, <1>7, <3>1 DEF Lies, Somewhere, InQueue, PlainIn
  <2> QED
    BY <2>1, <2>2
<1>8. ele[a] = None
  BY <1>2 DEF Readiness, Ready_OK, Unserved
<1> QED
  BY <1>2, <1>7, <1>8, ReturnStored

LEMMA TakeStored ==
    ASSUME SelectInv, Offering, Readiness, Stored, NEW a \in Actor, PopFromWriter(a)
    PROVE  Stored'
<1>1. PICK k, x : k = ch[a] /\ x = Head(w[k])
  OBVIOUS
<1>2. /\ pc[a] = "lock" /\ op[a] \in Pops /\ op[a] \notin Pushes
      /\ w[k] # <<>> /\ w' = [w EXCEPT ![k] = Tail(@)]
      /\ UNCHANGED <<queue, op, ch, closed, accepted, received>>
      /\ pc' = [pc EXCEPT ![a] = "wake"] /\ tgt' = [tgt EXCEPT ![a] = x]
      /\ ele' = IF x.kind = "plain" THEN [ele EXCEPT ![a] = x.ele] ELSE ele
  BY <1>1 DEF PopFromWriter, Enters, HoldAt, history, Pushes, Pops
<1>3. k \in Chan /\ ele[a] = None
  BY <1>1, <1>2, CallPlace DEF Readiness, Ready_OK, Unserved
<1>4. /\ w[k] \in Seq(Waiter)
      /\ \A c \in Chan : w'[c] = IF c = k THEN Tail(w[c]) ELSE w[c]
      /\ \A b \in Actor \ {a} : ele'[b] = ele[b] /\ pc'[b] = pc[b] /\ tgt'[b] = tgt[b]
      /\ x.kind = "plain" => ele'[a] = x.ele
  BY <1>2, <1>3, ListTypes
<1>5. \A e : PlainIn(e, w[k]) => PlainIn(e, Tail(w[k])) \/ (x.kind = "plain" /\ e = x.ele)
  BY <1>1, <1>2, <1>4, TailKeeps
<1>6. ASSUME NEW e \in Elem, Had(e) PROVE Somewhere(e)'
  <2>1. CASE e \in received
    BY <1>2, <2>1 DEF Somewhere, Had
  <2>2. CASE e \notin received
    <3>1. PICK b \in Actor : op[b] \in Pops /\ ele[b] = e
      BY <1>6, <2>2 DEF Had
    <3>2. b # a
      BY <1>3, <3>1, ElemAssumption
    <3>3. op'[b] \in Pops /\ ele'[b] = e
      BY <1>2, <1>4, <3>1, <3>2
    <3> QED
      BY <3>3 DEF Somewhere, Had
  <2> QED
    BY <2>1, <2>2
<1>7. ASSUME NEW c \in Chan, NEW e \in Elem, Lies(e, c) PROVE Somewhere(e)'
  <2>1. CASE x.kind = "plain" /\ e = x.ele
    <3>1. op'[a] \in Pops /\ ele'[a] = e
      BY <1>2, <1>4, <2>1
    <3> QED
      BY <3>1 DEF Somewhere, Had
  <2>2. CASE ~(x.kind = "plain" /\ e = x.ele)
    <3>1. PlainIn(e, w[c]) => PlainIn(e, w'[c])
      BY <1>4, <1>5, <2>2
    <3> QED
      BY <1>2, <1>7, <3>1 DEF Lies, Somewhere, InQueue, PlainIn
  <2> QED
    BY <2>1, <2>2
<1>8. Remains
  BY <1>6, <1>7, RemainsWhere
<1>9. Passed_OK(a)'
  BY <1>2 DEF Passed_OK, Passed
<1> QED
  BY <1>2, <1>4, <1>8, <1>9, StoredMoves

(* A waiting reader had nothing, so that what it is given overwrites       *)
(* nothing; a select's waiter is given nothing.                            *)
LEMMA GiveStored ==
    ASSUME SelectInv, Offering, Readiness, Named, Stored, NEW a \in Actor, PushToReader(a)
    PROVE  Stored'
<1>1. PICK k, x, y : k = ch[a] /\ x = Head(r[k]) /\ y = ele[a]
  OBVIOUS
<1>2. /\ pc[a] = "lock" /\ lock[k] = None /\ op[a] \in Pushes
      /\ UNCHANGED <<queue, w, op, ch, closed, accepted, received>> /\ r[k] # <<>>
      /\ pc' = [pc EXCEPT ![a] = "wake"] /\ tgt' = [tgt EXCEPT ![a] = x]
      /\ ele' = IF x.kind = "plain" THEN [ele EXCEPT ![x.co] = y] ELSE ele
  BY <1>1 DEF PushToReader, Enters, HoldAt, history
<1>3. /\ k \in Chan /\ Busy(a) /\ r[k] \in Seq(Waiter) /\ AllNamed(r[k]) /\ y \in Elem
      /\ op[a] \notin Pops
  BY <1>1, <1>2, CallPlace, ListTypes, OwedNowhere DEF Named, Pushes, Pops
<1>4. x \in Waiter /\ x.co # None /\ x.co \in Those(r[k], x.kind)
  BY <1>1, <1>2, <1>3, NamedList, ThoseTail
<1>5. x.kind = "plain" =>
          /\ x.co \in Actor \ {a} /\ op[x.co] \in Pops /\ ele[x.co] = None
          /\ x.co \in Co
  <2> SUFFICES ASSUME x.kind = "plain"
               PROVE  /\ x.co \in Actor \ {a} /\ op[x.co] \in Pops /\ ele[x.co] = None
                      /\ x.co \in Co
    OBVIOUS
  <2>1. PICK d \in Co : d = x.co
    BY <1>4 DEF Waiter
  <2>2. Waiter_OK(d) /\ d \in Those(r[k], "plain")
    BY <1>4, <2>1 DEF SelectInv, Orderly
  <2>3. Waits(d, k, "pop") /\ ele[d] = None
    BY <1>3, <2>2 DEF Waiter_OK, Readiness, ReadersWait
  <2>4. d # a
    BY <1>2, <2>3 DEF Waits, Sleeps
  <2> QED
    BY <2>1, <2>3, <2>4 DEF Waits, Pops, Actor
<1>6. /\ \A b \in Actor : b # x.co => ele'[b] = ele[b]
      /\ x.kind = "plain" => ele'[x.co] = y
      /\ x.kind # "plain" => ele' = ele
      /\ \A b \in Actor \ {a} : pc'[b] = pc[b] /\ tgt'[b] = tgt[b]
      /\ tgt'[a] = x
  BY <1>2, <1>5, ListTypes
<1>7. ASSUME NEW e \in Elem, Had(e) PROVE Somewhere(e)'
  <2>1. CASE e \in received
    BY <1>2, <2>1 DEF Somewhere, Had
  <2>2. CASE e \notin received
    <3>1. PICK b \in Actor : op[b] \in Pops /\ ele[b] = e
      BY <1>7, <2>2 DEF Had
    <3>2. op'[b] \in Pops /\ ele'[b] = e
      BY <1>2, <1>5, <1>6, <3>1, ElemAssumption
    <3> QED
      BY <3>2 DEF Somewhere, Had
  <2> QED
    BY <2>1, <2>2
<1>8. Remains
  <2>1. \A c \in Chan : \A e : Lies(e, c) => Somewhere(e)'
    BY <1>2, SameLies
  <2> QED
    BY <1>7, <2>1, RemainsWhere
<1>9. Passed_OK(a)'
  <2> SUFFICES ASSUME Passed(a)' PROVE Somewhere(ele[a])'
    BY DEF Passed_OK
  <2>1. x.kind = "plain"
    <3>1. tgt'[a].kind # "select"
      BY <1>2, ListTypes DEF Passed
    <3> QED
      BY <1>4, <1>6, <3>1 DEF Waiter
  <2>2. ele'[a] = y /\ op'[x.co] \in Pops /\ ele'[x.co] = y
    BY <1>1, <1>2, <1>5, <1>6, <2>1
  <2> QED
    BY <1>5, <2>1, <2>2 DEF Somewhere, Had
<1>10. \A b \in Actor \ {a} : op[b] \in Pushes => ele'[b] = ele[b]
  BY <1>5, <1>6 DEF Pushes, Pops
<1>11. \A b \in Actor \ {a} : op'[b] = op[b] /\ ch'[b] = ch[b]
  BY <1>2
<1> QED
  BY <1>2, <1>6, <1>8, <1>9, <1>10, <1>11, StoredMoves

(* The mutex is held on; a close takes elements of the channel it closed.  *)
LEMMA HoldStored ==
    ASSUME SelectInv, Offering, Readiness, Stored, NEW a \in Actor,
           EnterRefused(a) \/ Wake(a) \/ Close(a) \/ DrainWriter(a) \/ DrainReader(a)
    PROVE  Stored'
<1>1. /\ UNCHANGED <<op, ch, ele, queue, accepted, received>> /\ closed \subseteq closed'
      /\ pc[a] \in {"lock"} \cup Holding
      /\ \E place : pc' = [pc EXCEPT ![a] = place]
      /\ tgt' = tgt \/ \E x : tgt' = [tgt EXCEPT ![a] = x]
  BY DEF EnterRefused, Wake, Close, DrainWriter, DrainReader, Enters, HoldAt, chvars, acvars,
         history, Holding
<1>2. /\ \A b \in Actor \ {a} : pc'[b] = pc[b] /\ tgt'[b] = tgt[b]
      /\ ch[a] \in Chan
  BY <1>1, CallPlace, ListTypes
<1>3. Passed(a)' => Passed(a)
  <2>1. CASE EnterRefused(a)
    BY <2>1, ListTypes DEF EnterRefused, HoldAt, Passed
  <2>2. CASE Wake(a)
    <3>1. pc[a] \in {"wake", "spin"} /\ tgt' = tgt
      BY <2>2 DEF Wake, acvars
    <3>2. pc'[a] \in {"join", "spin"}
      BY <2>2, ListTypes DEF Wake, HoldAt
    <3> QED
      BY <1>1, <3>1, <3>2 DEF Passed
  <2>3. CASE Close(a) \/ DrainWriter(a) \/ DrainReader(a)
    <3>1. op[a] = "close"
      BY <2>3 DEF Close, Enters, DrainWriter, DrainReader, SelectInv, CallsOK, Call_OK
    <3> QED
      BY <1>1, <3>1 DEF Passed, Pushes
  <2> QED
    BY <2>1, <2>2, <2>3
<1>4. \A k \in Chan : \A e \in Elem : PlainIn(e, w[k]) => PlainIn(e, w'[k]) \/ e.on \in closed'
  <2>1. CASE w' = w
    BY <2>1
  <2>2. CASE w' # w
    <3>1. PICK c : c = ch[a]
      OBVIOUS
    <3>2. w' = [w EXCEPT ![c] = Tail(@)] /\ pc[a] = "drain"
      BY <2>2, <3>1 DEF EnterRefused, Wake, Close, DrainWriter, DrainReader, chvars
    <3>3. c \in closed
      <4>1. op[a] = "close"
        BY <3>2 DEF SelectInv, CallsOK, Call_OK
      <4> QED
        BY <3>1, <3>2, <4>1 DEF Readiness, Ready_OK
    <3>4. \A k \in Chan : k = c \/ w'[k] = w[k]
      BY <3>2, ListTypes
    <3>5. \A e \in Elem : PlainIn(e, w[c]) => e.on = c
      BY <1>2, <3>1 DEF Offering, Lying, Lies
    <3> QED
      BY <1>1, <3>3, <3>4, <3>5
  <2> QED
    BY <2>1, <2>2
<1> QED
  BY <1>1, <1>2, <1>3, <1>4, PlaceStored

LEMMA ServedStored ==
    ASSUME SelectInv, Offering, Readiness, Stored, NEW a \in Actor, Served(a),
           pc[a] \in {"wake", "join"}, UNCHANGED <<queue, w, closed>>
    PROVE  Stored'
<1>1. \A k \in Chan : \A e : Lies(e, k) => Somewhere(e)'
  BY SameLies
<1>2. CASE op[a] = "close" \/ tgt[a].kind = "select"
  <2>1. UNCHANGED <<op, ch, ele, tgt, accepted, received>>
        /\ \E place \in {"drain", "refused"} : pc' = [pc EXCEPT ![a] = place]
    BY <1>2 DEF Served, HoldAt, acvars, history
  <2>2. pc'[a] \in {"drain", "refused"} /\ \A b \in Actor \ {a} : pc'[b] = pc[b]
    BY <2>1, ListTypes
  <2>3. ~Passed(a)'
    BY <2>2 DEF Passed
  <2> QED
    BY <2>1, <2>2, <2>3, PlaceStored
<1>3. CASE ~(op[a] = "close" \/ tgt[a].kind = "select") /\ op[a] \in Pushes
  <2>1. Return(a, {ele[a]}, {}) /\ op[a] \notin Pops
    BY <1>3 DEF Served, Pushes, Pops
  <2>2. PICK x \in Elem : x = ele[a] /\ x.on = ch[a]
    BY <1>3 DEF Offering, Offer_OK
  <2>3. x.on \in closed \/ Somewhere(x)
    BY <1>3, <2>2 DEF Stored, Passed_OK, Passed
  <2>4. Somewhere(x) => Somewhere(x)'
    <3>1. Others(a) /\ received' = received
      BY <2>1, ReturnMoves DEF Return, SelectInv, SelectTypeOK
    <3>2. Had(x) => Had(x)'
      BY <2>1, <3>1 DEF Had, Others
    <3> QED
      BY <1>1, <3>2 DEF Somewhere
  <2>5. x.on \in closed' \/ Somewhere(x)'
    BY <2>3, <2>4
  <2> QED
    BY <1>1, <2>1, <2>2, <2>5, ReturnStored
<1>4. CASE ~(op[a] = "close" \/ tgt[a].kind = "select") /\ op[a] \notin Pushes
  <2>1. Return(a, {}, {ele[a]})
    BY <1>4 DEF Served
  <2> QED
    BY <1>1, <2>1, ReturnStored
<1> QED
  BY <1>2, <1>3, <1>4

(* The writers get the element of a push that was refused.                 *)
LEMMA WritersMore ==
    ASSUME SelectInv, NEW k \in Chan, NEW x \in Waiter, w' = [w EXCEPT ![k] = <<x>> \o @]
    PROVE  /\ \A c \in Chan : \A e : PlainIn(e, w[c]) => PlainIn(e, w'[c])
           /\ x.kind = "plain" => Somewhere(x.ele)'
<1>1. w[k] \in Seq(Waiter) /\ \A c \in Chan : w'[c] = IF c = k THEN <<x>> \o w[c] ELSE w[c]
  BY ListTypes
<1>2. /\ \A e : PlainIn(e, w[k]) => PlainIn(e, <<x>> \o w[k])
      /\ x.kind = "plain" => PlainIn(x.ele, <<x>> \o w[k])
  BY <1>1, PushKeeps
<1>3. x.kind = "plain" => PlainIn(x.ele, w'[k])
  BY <1>1, <1>2
<1>4. x.kind = "plain" => Somewhere(x.ele)'
  BY <1>3 DEF Somewhere, Lies, PlainIn
<1> QED
  BY <1>1, <1>2, <1>4

LEMMA LeaveStored ==
    ASSUME SelectInv, Offering, Readiness, Stored, NEW a \in Actor, LeaveElement(a, "ok")
    PROVE  Stored'
<1>1. PICK k, x : k = ch[a] /\ x = [co |-> None, ele |-> ele[a], kind |-> "plain"]
  OBVIOUS
<1>2. /\ pc[a] = "refused" /\ op[a] \in Pushes /\ op[a] \notin Pops
      /\ UNCHANGED <<queue, closed>> /\ w' = [w EXCEPT ![k] = <<x>> \o @]
      /\ Return(a, {ele[a]}, {})
  BY <1>1 DEF LeaveElement, Pushes, Pops
<1>3. k \in Chan /\ x \in Waiter /\ x.ele = ele[a] /\ x.kind = "plain"
  BY <1>1, <1>2, CallPlace, OwedNowhere DEF Waiter, Holding
<1>4. /\ \A c \in Chan : \A e : PlainIn(e, w[c]) => PlainIn(e, w'[c])
      /\ Somewhere(x.ele)'
  BY <1>2, <1>3, WritersMore
<1>5. ASSUME NEW c \in Chan, NEW e, Lies(e, c) PROVE Somewhere(e)'
  <2>1. queue' = queue
    BY <1>2
  <2>2. InQueue(e, queue'[c]) \/ PlainIn(e, w'[c])
    BY <1>4, <1>5, <2>1 DEF Lies
  <2> QED
    BY <2>2 DEF Lies, Somewhere, InQueue, PlainIn
<1>6. PICK y : y = ele[a]
  OBVIOUS
<1>7. Somewhere(y)'
  <2>1. PICK z : z = x.ele
    OBVIOUS
  <2> QED
    BY <1>1, <1>4, <1>6 DEF Somewhere, Had, Lies, InQueue, PlainIn
<1>8. Return(a, {y}, {})
  BY <1>2, <1>6
<1> QED
  BY <1>2, <1>5, <1>7, <1>8, ReturnStored

LEMMA ActorStored ==
    ASSUME Mallocs \subseteq {"ok"}, SelectInv, Offering, Readiness, Named, Stored,
           NEW a \in Actor, ActorStep(a)
    PROVE  Stored'
<1>1. CASE EnterClosed(a)
  <2>1. /\ pc[a] = "lock" /\ ch[a] \in closed /\ op[a] \in Pushes \cup Pops
        /\ Return(a, IF op[a] \in Pushes THEN {ele[a]} ELSE {}, {})
        /\ UNCHANGED <<queue, w, closed>>
    BY <1>1 DEF EnterClosed, Enters, chvars
  <2>2. op[a] \in Pops => ele[a] = None
    BY <2>1 DEF Readiness, Ready_OK, Unserved
  <2>3. \A e \in IF op[a] \in Pushes THEN {ele[a]} ELSE {} : e.on \in closed'
    BY <2>1, OwedNowhere
  <2> QED
    BY <2>1, <2>2, <2>3, SameLies, ReturnStored
<1>2. CASE GiveUp(a) \/ Drained(a)
  <2>1. /\ Return(a, {}, {}) /\ UNCHANGED <<queue, w, closed>>
        /\ op[a] \in Pops => pc[a] = "refused"
    BY <1>2 DEF GiveUp, Drained, chvars, SelectInv, CallsOK, Call_OK, Pops
  <2>2. op[a] \in Pops => ele[a] = None
    BY <2>1 DEF Readiness, Ready_OK, Unserved
  <2> QED
    BY <2>1, <2>2, SameLies, ReturnStored
<1>3. CASE WakeNobody(a) \/ \E malloc \in Mallocs : Join(a, malloc)
  <2>1. Served(a) /\ pc[a] \in {"wake", "join"} /\ UNCHANGED <<queue, w, closed>>
    BY <1>3 DEF WakeNobody, Join, chvars
  <2> QED
    BY <2>1, ServedStored
<1>4. CASE \E malloc \in Mallocs : LeaveElement(a, malloc)
  <2>1. LeaveElement(a, "ok")
    BY <1>4
  <2> QED
    BY <2>1, LeaveStored
<1> QED
  BY <1>1, <1>2, <1>3, <1>4, HoldStored, QueueStored, UnqueueStored, TakeStored, GiveStored
     DEF ActorStep

-----------------------------------------------------------------------------
LEMMA BlockStored ==
    ASSUME SelectInv, Offering, Readiness, Stored, NEW a \in Co, Block(a, "ok")
    PROVE  Stored'
<1>1. PICK k, x : k = ch[a] /\ x = [co |-> a, ele |-> ele[a], kind |-> "plain"]
  OBVIOUS
<1>2. /\ pc[a] = "refused" /\ op[a] \in {"push", "pop"}
      /\ UNCHANGED <<op, ch, ele, tgt, queue, closed, accepted, received>>
      /\ w' = (IF op[a] = "push" THEN [w EXCEPT ![k] = <<x>> \o @] ELSE w)
      /\ pc' = [pc EXCEPT ![a] = "parked"]
  BY <1>1 DEF Block, acvars, history
<1>3. a \in Actor /\ k \in Chan /\ \A b \in Actor \ {a} : pc'[b] = pc[b] /\ tgt'[b] = tgt[b]
  BY <1>1, <1>2, CallPlace, ListTypes DEF Holding, Actor
<1>4. CASE op[a] = "pop"
  <2>1. w' = w /\ ~Passed(a)'
    BY <1>2, <1>4 DEF Passed, Pushes
  <2> QED
    BY <1>2, <1>3, <2>1, PlaceStored
<1>5. CASE op[a] = "push"
  <2>1. op[a] \in Pushes
    BY <1>5 DEF Pushes
  <2>2. ele[a] \in Elem /\ x \in Waiter /\ x.kind = "plain" /\ x.ele = ele[a]
    BY <1>1, <1>2, <1>3, <2>1, OwedNowhere DEF Waiter
  <2>3. w' = [w EXCEPT ![k] = <<x>> \o @]
    BY <1>2, <1>5
  <2>4. /\ \A c \in Chan : \A e : PlainIn(e, w[c]) => PlainIn(e, w'[c])
        /\ Somewhere(x.ele)'
    BY <1>3, <2>2, <2>3, WritersMore
  <2>5. Somewhere(ele[a])'
    <3>1. PICK y : y = ele[a]
      OBVIOUS
    <3>2. y = x.ele /\ ele' = ele
      BY <1>2, <2>2, <3>1
    <3>3. Somewhere(y)'
      BY <2>4, <3>2
    <3>4. ele'[a] = y
      BY <3>1, <3>2
    <3> QED
      BY <3>3, <3>4 DEF Somewhere, Had, Lies, InQueue, PlainIn
  <2> QED
    BY <1>2, <1>3, <2>2, <2>4, <2>5, PlaceStored
<1> QED
  BY <1>2, <1>4, <1>5

LEMMA RelockStored ==
    ASSUME SelectInv, Offering, Stored, NEW a \in Actor, Relock(a)
    PROVE  Stored'
<1>1. /\ pc[a] = "asleep" /\ UNCHANGED <<queue, w, closed>>
      /\ IF op[a] = "push" THEN Return(a, {ele[a]}, {}) ELSE Return(a, {}, {ele[a]})
  BY DEF Relock, chvars
<1>2. \A k \in Chan : \A e : Lies(e, k) => Somewhere(e)'
  BY <1>1, SameLies
<1>3. CASE op[a] = "push"
  <2>1. Return(a, {ele[a]}, {}) /\ op[a] \in Pushes /\ op[a] \notin Pops
    BY <1>1, <1>3 DEF Pushes, Pops
  <2>2. PICK x \in Elem : x = ele[a] /\ x.on = ch[a]
    BY <2>1 DEF Offering, Offer_OK
  <2>3. x.on \in closed \/ Somewhere(x)
    BY <1>1, <2>1, <2>2 DEF Stored, Passed_OK, Passed
  <2>4. Somewhere(x) => Somewhere(x)'
    <3>1. Others(a) /\ received' = received
      BY <2>1, ReturnMoves DEF Return, SelectInv, SelectTypeOK
    <3>2. Had(x) => Had(x)'
      BY <2>1, <3>1 DEF Had, Others
    <3> QED
      BY <1>2, <3>2 DEF Somewhere
  <2>5. x.on \in closed' \/ Somewhere(x)'
    BY <1>1, <2>3, <2>4
  <2> QED
    BY <1>1, <1>2, <2>1, <2>2, <2>5, ReturnStored
<1>4. CASE op[a] # "push"
  BY <1>1, <1>2, <1>4, ReturnStored
<1> QED
  BY <1>3, <1>4

LEMMA BeginStored ==
    ASSUME SelectInv, Offering, Stored, NEW a \in Actor, pc[a] = "user",
           NEW o, NEW c, NEW x, Begin(a, o, c, x),
           UNCHANGED <<queue, w, closed, accepted, received>>
    PROVE  Stored'
<1>1. op[a] = None /\ None \notin Pops
  BY ListTypes DEF Offering, Offer_OK, Pops, Op
<1>2. Others(a) /\ pc'[a] \in {"user", "lock"}
  BY ListTypes DEF Begin, Others, SelectInv, SelectTypeOK, TypeOK, CallTypeOK, acvars
<1>3. \A e : Had(e) => Had(e)'
  BY <1>1, <1>2 DEF Had, Others
<1>4. \A k \in Chan : \A e : Lies(e, k) => Somewhere(e)'
  BY SameLies
<1>5. Remains
  BY <1>3, <1>4, RemainsWhere DEF Somewhere
<1>6. Passed_OK(a)'
  BY <1>2 DEF Passed_OK, Passed
<1> QED
  BY <1>2, <1>5, <1>6, StoredMoves DEF Others

(* The waiters of selects come and go; the others stay, as a select that   *)
(* deregisters is in no call.                                              *)
LEMMA RegisterStored ==
    ASSUME SelectInv, Offering, Stored, NEW a \in Actor, NEW made,
           Register(a, made) \/ Deregister(a)
    PROVE  Stored'
<1>1. UNCHANGED <<pc, op, ch, ele, tgt, queue, closed, accepted, received>>
  BY DEF Register, Deregister, acvars, history
<1>2. sel[a] \in {"decide", "dereg"} /\ pc[a] = "user" /\ a \in Co /\ left[a] + 1 \in 1..Budget
  <2>1. sel[a] \in {"decide", "dereg"} /\ (sel[a] = "decide" => blocked[a])
    BY DEF Register, Deregister
  <2> QED
    BY <2>1, SelectPlace DEF Place_OK
<1>3. ASSUME NEW k \in Chan PROVE \A e : PlainIn(e, w[k]) => PlainIn(e, w'[k])
  <2>1. w[k] \in Seq(Waiter)
    BY ListTypes
  <2>2. CASE Register(a, made)
    <3>1. PICK x : x = [co |-> a, kind |-> "select",
                        ele |-> [by |-> a, n |-> left[a] + 1, on |-> k]]
      OBVIOUS
    <3>2. x \in Waiter
      BY <1>2, <3>1 DEF Waiter, Elem, Actor
    <3>3. w'[k] = w[k] \/ w'[k] = <<x>> \o w[k]
      BY <2>2, <3>1 DEF Register, WithWaiter
    <3> QED
      BY <2>1, <3>2, <3>3, PushKeeps
  <2>3. CASE Deregister(a)
    <3>1. w'[k] = w[k] \/ w'[k] = Without(w[k], a)
      BY <2>3 DEF Deregister
    <3>2. a \notin Those(w[k], "plain")
      BY <1>2 DEF SelectInv, Orderly, Waiter_OK, Waits, Sleeps
    <3>3. a # None
      BY <1>2, RuntimeAssumption
    <3> QED
      BY <2>1, <3>1, <3>2, <3>3, WithoutKeeps
  <2> QED
    BY <2>2, <2>3
<1>4. ~Passed(a)'
  BY <1>1, <1>2 DEF Passed
<1> QED
  BY <1>1, <1>3, <1>4, PlaceStored

LEMMA StoredStep ==
    ASSUME Mallocs \subseteq {"ok"}, SelectInv, Offering, Readiness, Named, Stored,
           [SelectNext]_<<vars, selvars>>
    PROVE  Stored'
<1>1. ASSUME NEW a \in Actor, UNCHANGED <<op, ch, ele, tgt, queue, w, closed, accepted, received>>,
             \A b \in Actor \ {a} : pc'[b] = pc[b],
             pc'[a] = pc[a] \/ pc'[a] \in {"user", "dead"} \/ pc[a] = "parked"
      PROVE  Stored'
  <2>1. Passed(a)' => Passed(a)
    BY <1>1 DEF Passed
  <2> QED
    BY <1>1, <2>1, PlaceStored
<1>2. ASSUME NEW a \in Actor, SelectStep(a) PROVE Stored'
  <2>1. CASE SelectLock(a) \/ Choose(a) \/ SelectNone(a) \/ SelectPark(a)
    <3>1. UNCHANGED <<pc, op, ch, ele, tgt, queue, w, closed, accepted, received>>
      BY <2>1 DEF SelectLock, Choose, SelectNone, SelectPark, chvars, acvars, history
    <3> QED
      BY <1>1, <3>1
  <2>2. CASE Try(a)
    <3>1. /\ UNCHANGED <<queue, w, closed, accepted, received>> /\ sel[a] = "chosen"
          /\ \E o, c, x : Begin(a, o, c, x)
      BY <2>2 DEF Try, chvars, history
    <3>2. pc[a] = "user"
      BY <3>1, SelectPlace
    <3> QED
      BY <3>1, <3>2, BeginStored
  <2>3. CASE SelectActorStep(a)
    BY <2>3, ActorStored DEF SelectActorStep
  <2> QED
    BY <1>2, <2>1, <2>2, <2>3, RegisterStored DEF SelectStep
<1>3. ASSUME NEW a \in Actor, NEW cs, NEW b, Select(a, cs, b) PROVE Stored'
  <2>1. UNCHANGED <<pc, op, ch, ele, tgt, queue, w, closed, accepted, received>>
    BY <1>3 DEF Select, chvars, acvars, history
  <2> QED
    BY <1>1, <2>1
<1>4. ASSUME NEW a \in Actor, NEW o, NEW c, Call(a, o, c) PROVE Stored'
  <2>1. /\ UNCHANGED <<queue, w, closed, accepted, received>> /\ pc[a] = "user"
        /\ \E x : Begin(a, o, c, x)
    BY <1>4 DEF Call, chvars, history
  <2> QED
    BY <2>1, BeginStored
<1>5. ASSUME NEW a \in Co, CoroutineStep(a) \/ Spawn(a) \/ Yield(a) \/ Terminate(a)
      PROVE  Stored'
  <2>1. a \in Actor
    BY DEF Actor
  <2>2. CASE Park(a) \/ Spawn(a) \/ Yield(a) \/ Terminate(a)
    <3>1. UNCHANGED <<op, ch, ele, tgt, queue, w, closed, accepted, received>>
      BY <2>2 DEF Park, Spawn, Yield, Terminate, chvars, acvars, history
    <3>2. /\ pc'[a] = pc[a] \/ pc'[a] \in {"user", "dead"} \/ pc[a] = "parked"
          /\ \A b \in Actor \ {a} : pc'[b] = pc[b]
      BY <2>1, <2>2, ListTypes DEF Park, Spawn, Yield, Terminate
    <3> QED
      BY <1>1, <2>1, <3>1, <3>2
  <2>3. CASE \E malloc \in Mallocs : Block(a, malloc)
    <3>1. Block(a, "ok")
      BY <2>3
    <3> QED
      BY <3>1, BlockStored
  <2> QED
    BY <1>5, <2>1, <2>2, <2>3, RelockStored DEF CoroutineStep
<1>6. CASE (\E h \in Hdl : HandlerStep(h)) \/ LoopThread \/ UNCHANGED <<vars, selvars>>
  <2>1. UNCHANGED <<pc, op, ch, ele, tgt, queue, w, closed, accepted, received>>
    BY <1>6 DEF HandlerStep, LoopThread, vars, chvars, acvars, history
  <2>2. /\ \A e : Somewhere(e) => Somewhere(e)'
        /\ \A a \in Actor : Somewhere(ele[a]) => Somewhere(ele[a])'
    BY <2>1 DEF Somewhere, Had, Lies, InQueue, PlainIn
  <2> QED
    BY <2>1, <2>2 DEF Stored, Passed_OK, Passed
<1> QED
  BY <1>2, <1>3, <1>4, <1>5, <1>6 DEF SelectNext

(* While malloc does not fail, an element whose push has returned 0, or    *)
(* that a select has pushed, is in one place as long as its channel is     *)
(* open, although waiters of selects are taken out of the lists and put    *)
(* nothing anywhere (lc_channel.c:246-325, 364-462).                       *)
THEOREM SelectKeeps == Mallocs \subseteq {"ok"} => (SelectSpec => []NothingLost)
<1> SUFFICES ASSUME Mallocs \subseteq {"ok"} PROVE SelectSpec => []NothingLost
  OBVIOUS
<1> DEFINE Inv == SelectInv /\ Offering /\ Once /\ OnePlace /\ Readiness /\ Named /\ Stored
<1>1. SelectInit => Inv
  <2>1. SelectInit => Named /\ Stored
    <3> SUFFICES ASSUME SelectInit PROVE Named /\ Stored
      OBVIOUS
    <3>1. /\ \A k \in Chan : r[k] = <<>>
          /\ \A a \in Actor : op[a] = None
          /\ accepted = {}
      BY DEF SelectInit, Init
    <3>2. None \notin Pushes
      BY NoneNotOp DEF Pushes, Op
    <3> QED
      BY <3>1, <3>2 DEF Named, AllNamed, Stored, Passed_OK, Passed
  <2> QED
    BY <2>1, SelectInitially, OfferingInitially, OnceInitially, ReadyInitially
<1>2. Inv /\ [SelectNext]_<<vars, selvars>> => Inv'
  BY SelectStepInv, OfferingStep, OnceStep, ReadyStep, NamedStep, StoredStep
<1>3. Inv => NothingLost
  <2> SUFFICES ASSUME Inv, NEW e \in accepted, e.on \notin closed
               PROVE  Copies(e) = 1
    BY DEF NothingLost
  <2>1. e \in Elem /\ Somewhere(e)
    BY DEF SelectInv, SelectTypeOK, TypeOK, HistoryTypeOK, Stored
  <2> QED
    BY <2>1, CopiesAtMostOne DEF Offering
<1> QED
  BY <1>1, <1>2, <1>3, PTL DEF SelectSpec

-----------------------------------------------------------------------------
(* A select that holds all its mutexes has a case.                         *)
Cased == \A a \in Actor : sel[a] \in {"decide", "dereg"} => Indices(a) # {}

LEMMA CasedStep ==
    ASSUME SelectInv, Cased, [SelectNext]_<<vars, selvars>>
    PROVE  Cased'
<1> USE DEF SelectInv, SelectTypeOK
<1>1. ASSUME NEW a \in Actor, cases' = cases, \A b \in Actor \ {a} : sel'[b] = sel[b],
             sel'[a] \in {"decide", "dereg"} =>
                 sel[a] \in {"decide", "dereg"} \/ at[a] \in Indices(a)
      PROVE  Cased'
  BY <1>1 DEF Cased, Indices
<1>2. ASSUME NEW a \in Actor, SelectStep(a) PROVE Cased'
  <2>1. CASE SelectLock(a)
    BY <1>1, <2>1 DEF SelectLock
  <2>2. CASE Choose(a) \/ SelectNone(a) \/ SelectPark(a) \/ Deregister(a) \/ Try(a)
             \/ \E made \in SUBSET Indices(a) : Register(a, made)
    <3>1. cases' = cases /\ \A b \in Actor \ {a} : sel'[b] = sel[b]
      BY <2>2 DEF Choose, SelectNone, SelectPark, Deregister, Try, Register
    <3>2. sel'[a] \in {"decide", "dereg"} => sel[a] \in {"decide", "dereg"}
      BY <2>2 DEF Choose, SelectNone, SelectPark, Deregister, Try, Register
    <3> QED
      BY <1>1, <3>1, <3>2
  <2>3. CASE SelectActorStep(a)
    <3>1. cases' = cases /\ \A b \in Actor \ {a} : sel'[b] = sel[b]
      BY <2>3 DEF SelectActorStep
    <3>2. sel'[a] \in {"decide", "dereg"} => sel[a] \in {"decide", "dereg"}
      BY <2>3 DEF SelectActorStep
    <3> QED
      BY <1>1, <3>1, <3>2
  <2> QED
    BY <1>2, <2>1, <2>2, <2>3 DEF SelectStep
<1>3. ASSUME NEW a \in Actor, NEW cs, NEW b, Select(a, cs, b) PROVE Cased'
  <2>1. /\ \A d \in Actor \ {a} : sel'[d] = sel[d] /\ cases'[d] = cases[d]
        /\ sel'[a] = "lock"
    BY <1>3 DEF Select
  <2> QED
    BY <2>1 DEF Cased, Indices
<1>4. CASE UNCHANGED selvars
  BY <1>4 DEF selvars, Cased, Indices
<1> QED
  BY <1>2, <1>3, <1>4 DEF SelectNext, Outside

(* A coroutine becomes WAITING in a list, leaves it into the hands of a    *)
(* waker, and is no longer WAITING when the waker has woken it.            *)
LEMMA RecordedMoves ==
    ASSUME Recorded,
           \A c \in Co : status'[c] = "WAITING" => status[c] = "WAITING" \/ Listed(c)',
           \A c \in Co : status'[c] = "WAITING" /\ Listed(c) =>
               Listed(c)' \/ \E a \in Actor : WokenBy(a, c, {"wake"})',
           \A a \in Actor : \A c \in Co :
               status'[c] = "WAITING" /\ WokenBy(a, c, {"wake"}) =>
                   WokenBy(a, c, {"wake"})'
    PROVE  Recorded'
<1> SUFFICES ASSUME NEW c \in Co, status'[c] = "WAITING"
             PROVE  Listed(c)' \/ \E a \in Actor : WokenBy(a, c, {"wake"})'
  BY DEF Recorded
<1>1. CASE Listed(c)'
  BY <1>1
<1>2. CASE status[c] = "WAITING"
  BY <1>2 DEF Recorded
<1> QED
  BY <1>1, <1>2

LEMMA SameRecorded ==
    ASSUME SelectInv, Recorded, NEW a \in Actor, UNCHANGED <<w, r>>,
           \A b \in Actor \ {a} : pc'[b] = pc[b] /\ tgt'[b] = tgt[b],
           \A c \in Co : status'[c] = "WAITING" => status[c] = "WAITING",
           pc[a] = "wake" => (tgt[a].co = None \/ (pc'[a] = "wake" /\ tgt'[a] = tgt[a]))
    PROVE  Recorded'
<1>1. \A c \in Co : Listed(c) => Listed(c)'
  BY DEF Listed, Cos
<1>2. ASSUME NEW b \in Actor, NEW c \in Co, WokenBy(b, c, {"wake"})
      PROVE  WokenBy(b, c, {"wake"})'
  BY <1>2, NoneNotOp DEF WokenBy
<1> QED
  BY <1>1, <1>2, RecordedMoves

(* The waiter that leaves a list is the target of the one that took it.    *)
LEMMA TakeRecorded ==
    ASSUME SelectInv, Recorded, NEW a \in Actor,
           PushToReader(a) \/ PopFromWriter(a) \/ DrainWriter(a) \/ DrainReader(a)
    PROVE  Recorded'
<1>1. PICK k : k = ch[a]
  OBVIOUS
<1>2. /\ pc[a] \in {"lock", "drain"} /\ status' = status
      /\ pc' = [pc EXCEPT ![a] = "wake"]
  BY DEF PushToReader, PopFromWriter, DrainWriter, DrainReader, Enters, HoldAt, rtvars
<1>3. k \in Chan
  BY <1>1, <1>2, CallPlace DEF Holding
<1>4. \/ /\ w[k] # <<>> /\ r' = r /\ w' = [w EXCEPT ![k] = Tail(@)]
         /\ tgt' = [tgt EXCEPT ![a] = Head(w[k])]
      \/ /\ r[k] # <<>> /\ w' = w /\ r' = [r EXCEPT ![k] = Tail(@)]
         /\ tgt' = [tgt EXCEPT ![a] = Head(r[k])]
  BY <1>1 DEF PushToReader, PopFromWriter, DrainWriter, DrainReader
<1>5. /\ pc'[a] = "wake" /\ \A b \in Actor \ {a} : pc'[b] = pc[b] /\ tgt'[b] = tgt[b]
  BY <1>2, <1>4, ListTypes
<1>6. ASSUME NEW c \in Co, c # tgt'[a].co, NEW j \in Chan
      PROVE  /\ c \in Cos(w[j]) => c \in Cos(w'[j])
             /\ c \in Cos(r[j]) => c \in Cos(r'[j])
  <2>1. CASE w[k] # <<>> /\ r' = r /\ w' = [w EXCEPT ![k] = Tail(@)]
             /\ tgt' = [tgt EXCEPT ![a] = Head(w[k])]
    <3>1. /\ w'[j] = (IF j = k THEN Tail(w[k]) ELSE w[j])
          /\ tgt'[a] = Head(w[k]) /\ w[k] \in Seq(Waiter)
      BY <1>3, <2>1, ListTypes
    <3>2. Cos(w[k]) = Cos(Tail(w[k])) \cup ({Head(w[k]).co} \ {None})
      BY <2>1, <3>1, CosTail
    <3> QED
      BY <1>6, <2>1, <3>1, <3>2
  <2>2. CASE r[k] # <<>> /\ w' = w /\ r' = [r EXCEPT ![k] = Tail(@)]
             /\ tgt' = [tgt EXCEPT ![a] = Head(r[k])]
    <3>1. /\ r'[j] = (IF j = k THEN Tail(r[k]) ELSE r[j])
          /\ tgt'[a] = Head(r[k]) /\ r[k] \in Seq(Waiter)
      BY <1>3, <2>2, ListTypes
    <3>2. Cos(r[k]) = Cos(Tail(r[k])) \cup ({Head(r[k]).co} \ {None})
      BY <2>2, <3>1, CosTail
    <3> QED
      BY <1>6, <2>2, <3>1, <3>2
  <2> QED
    BY <1>4, <2>1, <2>2
<1>7. ASSUME NEW c \in Co, Listed(c)
      PROVE  Listed(c)' \/ \E b \in Actor : WokenBy(b, c, {"wake"})'
  <2>1. CASE c = tgt'[a].co
    BY <1>5, <2>1 DEF WokenBy
  <2>2. CASE c # tgt'[a].co
    BY <1>6, <1>7, <2>2 DEF Listed
  <2> QED
    BY <2>1, <2>2
<1>8. ASSUME NEW b \in Actor, NEW c \in Co, WokenBy(b, c, {"wake"})
      PROVE  WokenBy(b, c, {"wake"})'
  BY <1>2, <1>5, <1>8 DEF WokenBy
<1> QED
  BY <1>2, <1>7, <1>8, RecordedMoves

LEMMA WakeRecorded ==
    ASSUME SelectInv, Recorded, NEW a \in Actor, Wake(a)
    PROVE  Recorded'
<1>1. PICK d : d = tgt[a].co
  OBVIOUS
<1>2. /\ UNCHANGED <<w, r, tgt>> /\ \E place : pc' = [pc EXCEPT ![a] = place]
      /\ status' = IF status[d] = "WAITING" THEN [status EXCEPT ![d] = "READY"] ELSE status
  BY <1>1 DEF Wake, HoldAt, chvars, acvars
<1>3. status \in [Co -> Status]
  BY DEF SelectInv, SelectTypeOK, TypeOK, RuntimeTypeOK
<1>4. ASSUME NEW c \in Co, status'[c] = "WAITING" PROVE status[c] = "WAITING" /\ c # d
  BY <1>2, <1>3, <1>4
<1>5. \A b \in Actor \ {a} : pc'[b] = pc[b]
  BY <1>2
<1>6. \A c \in Co : Listed(c) => Listed(c)'
  BY <1>2 DEF Listed, Cos
<1>7. ASSUME NEW b \in Actor, NEW c \in Co, status'[c] = "WAITING", WokenBy(b, c, {"wake"})
      PROVE  WokenBy(b, c, {"wake"})'
  <2>1. b # a
    BY <1>1, <1>4, <1>7 DEF WokenBy
  <2> QED
    BY <1>2, <1>5, <1>7, <2>1 DEF WokenBy
<1> QED
  BY <1>4, <1>6, <1>7, RecordedMoves

(* The lists get waiters; who goes to sleep is in a list then.             *)
LEMMA AddRecorded ==
    ASSUME SelectInv, Recorded, NEW a \in Actor,
           pc[a] # "wake", \A b \in Actor \ {a} : pc'[b] = pc[b] /\ tgt'[b] = tgt[b],
           \A k \in Chan : w'[k] = w[k] \/ \E x \in Waiter : w'[k] = <<x>> \o w[k],
           \A k \in Chan : r'[k] = r[k] \/ \E x \in Waiter : r'[k] = <<x>> \o r[k],
           \A c \in Co : status'[c] = "WAITING" => status[c] = "WAITING" \/ Listed(c)'
    PROVE  Recorded'
<1>1. ASSUME NEW k \in Chan
      PROVE  Cos(w[k]) \subseteq Cos(w'[k]) /\ Cos(r[k]) \subseteq Cos(r'[k])
  <2>1. w[k] \in Seq(Waiter) /\ r[k] \in Seq(Waiter)
    BY ListTypes
  <2>2. \A x \in Waiter : /\ Cos(<<x>> \o w[k]) = Cos(w[k]) \cup ({x.co} \ {None})
                          /\ Cos(<<x>> \o r[k]) = Cos(r[k]) \cup ({x.co} \ {None})
    BY <2>1, CosPush
  <2>3. Cos(w[k]) \subseteq Cos(w'[k])
    BY <2>2
  <2>4. Cos(r[k]) \subseteq Cos(r'[k])
    BY <2>2
  <2> QED
    BY <2>3, <2>4
<1>2. \A c \in Co : Listed(c) => Listed(c)'
  BY <1>1 DEF Listed
<1>3. ASSUME NEW b \in Actor, NEW c \in Co, WokenBy(b, c, {"wake"})
      PROVE  WokenBy(b, c, {"wake"})'
  BY <1>3 DEF WokenBy
<1> QED
  BY <1>2, <1>3, RecordedMoves

LEMMA LeaveRecorded ==
    ASSUME SelectInv, Offering, Recorded, NEW a \in Actor, LeaveElement(a, "ok")
    PROVE  Recorded'
<1>1. PICK k, x : k = ch[a] /\ x = [co |-> None, ele |-> ele[a], kind |-> "plain"]
  OBVIOUS
<1>2. /\ pc[a] = "refused" /\ op[a] \in Pushes /\ r' = r /\ status' = status
      /\ w' = [w EXCEPT ![k] = <<x>> \o @] /\ Return(a, {ele[a]}, {})
  BY <1>1 DEF LeaveElement, Pushes, rtvars
<1>3. k \in Chan /\ x \in Waiter /\ TypeOK
  BY <1>1, <1>2, CallPlace, OwedNowhere DEF Waiter, Holding
<1>4. Others(a)
  BY <1>2, <1>3, ReturnMoves
<1>5. \A c \in Chan : w'[c] = w[c] \/ w'[c] = <<x>> \o w[c]
  BY <1>2, ListTypes
<1> QED
  BY <1>2, <1>3, <1>4, <1>5, AddRecorded DEF Others

LEMMA ActorRecorded ==
    ASSUME Mallocs \subseteq {"ok"}, SelectInv, Offering, Recorded,
           NEW a \in Actor, ActorStep(a)
    PROVE  Recorded'
<1>1. CASE EnterClosed(a) \/ PushToQueue(a) \/ PopFromQueue(a) \/ GiveUp(a) \/ Drained(a)
  <2>1. /\ \E acc, rec : Return(a, acc, rec)
        /\ UNCHANGED <<w, r, status>> /\ pc[a] # "wake"
    BY <1>1 DEF EnterClosed, PushToQueue, PopFromQueue, GiveUp, Drained, Enters, chvars,
                rtvars
  <2>2. Others(a)
    BY <2>1, ReturnMoves DEF SelectInv, SelectTypeOK
  <2> QED
    BY <2>1, <2>2, SameRecorded DEF Others
<1>2. CASE EnterRefused(a) \/ Close(a)
  <2>1. /\ UNCHANGED <<w, r, status, tgt>> /\ pc[a] # "wake"
        /\ \E place : pc' = [pc EXCEPT ![a] = place]
    BY <1>2 DEF EnterRefused, Close, Enters, HoldAt, chvars, rtvars, acvars
  <2> QED
    BY <2>1, SameRecorded
<1>3. CASE WakeNobody(a) \/ \E malloc \in Mallocs : Join(a, malloc)
  <2>1. /\ Served(a) /\ UNCHANGED <<w, r, status>>
        /\ pc[a] = "wake" => tgt[a].co = None
    BY <1>3 DEF WakeNobody, Join, chvars, rtvars
  <2>2. (\E place : HoldAt(a, place) /\ UNCHANGED acvars) \/ \E acc, rec : Return(a, acc, rec)
    BY <2>1 DEF Served
  <2>3. \A b \in Actor \ {a} : pc'[b] = pc[b] /\ tgt'[b] = tgt[b]
    <3>1. CASE \E place : HoldAt(a, place) /\ UNCHANGED acvars
      BY <3>1, ListTypes DEF HoldAt, acvars
    <3>2. CASE \E acc, rec : Return(a, acc, rec)
      BY <3>2, ReturnMoves DEF Others, SelectInv, SelectTypeOK
    <3> QED
      BY <2>2, <3>1, <3>2
  <2> QED
    BY <2>1, <2>3, SameRecorded
<1>4. CASE \E malloc \in Mallocs : LeaveElement(a, malloc)
  <2>1. LeaveElement(a, "ok")
    BY <1>4
  <2> QED
    BY <2>1, LeaveRecorded
<1> QED
  BY <1>1, <1>2, <1>3, <1>4, TakeRecorded, WakeRecorded DEF ActorStep

-----------------------------------------------------------------------------
LEMMA BlockRecorded ==
    ASSUME SelectInv, Recorded, NEW a \in Co, Block(a, "ok")
    PROVE  Recorded'
<1>1. PICK k, x : k = ch[a] /\ x = [co |-> a, ele |-> ele[a], kind |-> "plain"]
  OBVIOUS
<1>2. /\ pc[a] = "refused" /\ op[a] \in {"push", "pop"} /\ tgt' = tgt
      /\ w' = (IF op[a] = "push" THEN [w EXCEPT ![k] = <<x>> \o @] ELSE w)
      /\ r' = (IF op[a] = "pop" THEN [r EXCEPT ![k] = <<x>> \o @] ELSE r)
      /\ pc' = [pc EXCEPT ![a] = "parked"] /\ status' = [status EXCEPT ![a] = "WAITING"]
  BY <1>1 DEF Block, acvars
<1>3. /\ a \in Actor /\ a # None /\ k \in Chan
      /\ \A b \in Actor \ {a} : pc'[b] = pc[b] /\ tgt'[b] = tgt[b]
  BY <1>1, <1>2, CallPlace, ListTypes, NoneNotOp DEF Holding, Actor
<1>4. x \in Waiter /\ x.co = a
  BY <1>1, <1>3, ListTypes DEF Waiter
<1>5. /\ \A c \in Chan : w'[c] = IF c = k /\ op[a] = "push" THEN <<x>> \o w[c] ELSE w[c]
      /\ \A c \in Chan : r'[c] = IF c = k /\ op[a] = "pop" THEN <<x>> \o r[c] ELSE r[c]
  BY <1>2, ListTypes
<1>6. Listed(a)'
  <2>1. w[k] \in Seq(Waiter) /\ r[k] \in Seq(Waiter)
    BY <1>3, ListTypes
  <2>2. a \in Cos(<<x>> \o w[k]) /\ a \in Cos(<<x>> \o r[k])
    BY <1>3, <1>4, <2>1, CosPush
  <2>3. a \in Cos(w'[k]) \cup Cos(r'[k])
    BY <1>2, <1>3, <1>5, <2>2
  <2> QED
    BY <1>3, <2>3 DEF Listed
<1>7. \A c \in Co \ {a} : status'[c] = status[c]
  BY <1>2 DEF SelectInv, SelectTypeOK, TypeOK, RuntimeTypeOK
<1>8. /\ \A c \in Chan : w'[c] = w[c] \/ \E y \in Waiter : w'[c] = <<y>> \o w[c]
      /\ \A c \in Chan : r'[c] = r[c] \/ \E y \in Waiter : r'[c] = <<y>> \o r[c]
  BY <1>4, <1>5
<1>9. \A c \in Co : status'[c] = "WAITING" => status[c] = "WAITING" \/ Listed(c)'
  BY <1>6, <1>7
<1> QED
  BY <1>2, <1>3, <1>8, <1>9, AddRecorded

(* A select registers with the channel of every case, of which there is    *)
(* one at least.                                                           *)
LEMMA RegisterRecorded ==
    ASSUME Mallocs \subseteq {"ok"}, SelectInv, Cased, Recorded, NEW a \in Actor,
           NEW made \in SUBSET Indices(a), Register(a, made)
    PROVE  Recorded'
<1>1. /\ sel[a] = "decide" /\ blocked[a] /\ made = Indices(a) /\ UNCHANGED <<pc, tgt>>
      /\ w' = WithWaiter(a, "push", w, made) /\ r' = WithWaiter(a, "pop", r, made)
      /\ status' = [status EXCEPT ![a] = "WAITING"]
  BY DEF Register, acvars
<1>2. /\ pc[a] = "user" /\ a \in Co /\ a # None /\ left[a] + 1 \in 1..Budget
      /\ \A i \in Indices(a) : cases[a][i] \in Case
  BY <1>1, SelectPlace, NoneNotOp DEF Place_OK
<1>3. ASSUME NEW k \in Chan
      PROVE  \E x, y \in Waiter :
                 /\ x.co = a /\ y.co = a
                 /\ w'[k] = IF In(a, "push", k) THEN <<x>> \o w[k] ELSE w[k]
                 /\ r'[k] = IF In(a, "pop", k) THEN <<y>> \o r[k] ELSE r[k]
  <2>1. PICK x, y : /\ x = [co |-> a, kind |-> "select",
                            ele |-> [by |-> a, n |-> left[a] + 1, on |-> k]]
                    /\ y = [co |-> a, kind |-> "select", ele |-> None]
    OBVIOUS
  <2>2. x \in Waiter /\ y \in Waiter /\ x.co = a /\ y.co = a
    BY <1>2, <2>1 DEF Waiter, Elem, Actor
  <2>3. w'[k] = IF In(a, "push", k) THEN <<x>> \o w[k] ELSE w[k]
    BY <1>1, <2>1 DEF WithWaiter, In
  <2>4. r'[k] = IF In(a, "pop", k) THEN <<y>> \o r[k] ELSE r[k]
    BY <1>1, <2>1 DEF WithWaiter, In
  <2> QED
    BY <2>2, <2>3, <2>4
<1>4. Listed(a)'
  <2>1. PICK i \in Indices(a) : TRUE
    BY <1>1 DEF Cased
  <2>2. PICK k \in Chan, type \in {"push", "pop"} : cases[a][i] = [on |-> k, type |-> type]
    <3>1. cases[a][i] \in Case
      BY <1>2
    <3> QED
      BY <3>1 DEF Case
  <2>3. In(a, type, k)
    BY <2>2 DEF In
  <2>4. PICK x, y \in Waiter :
            /\ x.co = a /\ y.co = a
            /\ w'[k] = IF In(a, "push", k) THEN <<x>> \o w[k] ELSE w[k]
            /\ r'[k] = IF In(a, "pop", k) THEN <<y>> \o r[k] ELSE r[k]
    BY <1>3
  <2>5. a \in Cos(<<x>> \o w[k]) /\ a \in Cos(<<y>> \o r[k])
    BY <1>2, <2>4, ListTypes, CosPush
  <2>6. a \in Cos(w'[k]) \cup Cos(r'[k])
    BY <2>3, <2>4, <2>5
  <2> QED
    BY <2>6 DEF Listed
<1>5. \A c \in Co \ {a} : status'[c] = status[c]
  BY <1>1 DEF SelectInv, SelectTypeOK, TypeOK, RuntimeTypeOK
<1>6. \A c \in Co : status'[c] = "WAITING" => status[c] = "WAITING" \/ Listed(c)'
  BY <1>4, <1>5
<1>7. /\ \A k \in Chan : w'[k] = w[k] \/ \E x \in Waiter : w'[k] = <<x>> \o w[k]
      /\ \A k \in Chan : r'[k] = r[k] \/ \E x \in Waiter : r'[k] = <<x>> \o r[k]
  BY <1>3
<1> QED
  BY <1>1, <1>2, <1>6, <1>7, AddRecorded

(* What a list keeps without the waiter of a.                              *)
LEMMA WithoutOthers ==
    ASSUME NEW s \in Seq(Waiter), NEW a
    PROVE  \A c : c # a /\ c \in Cos(s) => c \in Cos(Without(s, a))
<1>1. CASE PlacesOf(a, s) = {}
  <2>1. Without(s, a) = s
    BY <1>1 DEF Without, PlacesOf
  <2> QED
    BY <2>1
<1>2. CASE PlacesOf(a, s) # {}
  <2>1. PICK t : t = Without(s, a)
    OBVIOUS
  <2>2. PICK n \in 1..Len(s) : RestIn(s, t, a, n)
    BY <1>2, <2>1, CutRest
  <2>3. \A c : c # a /\ c \in Cos(s) => c \in Cos(t)
    BY <2>2 DEF Cos, RestIn
  <2> QED
    BY <2>1, <2>3
<1> QED
  BY <1>1, <1>2

(* The select that deregisters runs, it is not WAITING.                    *)
LEMMA DeregisterRecorded ==
    ASSUME SelectInv, Recorded, NEW a \in Actor, Deregister(a)
    PROVE  Recorded'
<1>1. /\ sel[a] = "dereg" /\ Executes(a) /\ UNCHANGED <<pc, tgt, status>>
      /\ w' = [c \in Chan |-> IF In(a, "push", c) THEN Without(w[c], a) ELSE w[c]]
      /\ r' = [c \in Chan |-> IF In(a, "pop", c) THEN Without(r[c], a) ELSE r[c]]
  BY DEF Deregister, acvars, rtvars
<1>2. pc[a] = "user" /\ a \in Co
  BY <1>1, SelectPlace DEF Place_OK
<1>3. status[a] # "WAITING"
  <2>1. loop = "run" /\ cur = a
    BY <1>1, <1>2, ChannelAssumption DEF Executes
  <2> QED
    BY <1>1, <1>2, <2>1 DEF SelectInv, SelectorRuns
<1>4. ASSUME NEW c \in Co, status'[c] = "WAITING", Listed(c) PROVE Listed(c)'
  <2>1. c # a
    BY <1>1, <1>3, <1>4
  <2>2. ASSUME NEW k \in Chan
        PROVE  /\ c \in Cos(w[k]) => c \in Cos(w'[k])
               /\ c \in Cos(r[k]) => c \in Cos(r'[k])
    <3>1. w[k] \in Seq(Waiter) /\ r[k] \in Seq(Waiter)
      BY ListTypes
    <3>2. /\ c \in Cos(w[k]) => c \in Cos(Without(w[k], a))
          /\ c \in Cos(r[k]) => c \in Cos(Without(r[k], a))
      BY <2>1, <3>1, WithoutOthers
    <3>3. w'[k] = Without(w[k], a) \/ w'[k] = w[k]
      BY <1>1
    <3>4. r'[k] = Without(r[k], a) \/ r'[k] = r[k]
      BY <1>1
    <3> QED
      BY <3>2, <3>3, <3>4
  <2> QED
    BY <1>4, <2>2 DEF Listed
<1>5. ASSUME NEW b \in Actor, NEW c \in Co, WokenBy(b, c, {"wake"})
      PROVE  WokenBy(b, c, {"wake"})'
  BY <1>1, <1>5 DEF WokenBy
<1> QED
  BY <1>1, <1>4, <1>5, RecordedMoves

LEMMA CodeRecorded ==
    ASSUME SelectInv, Recorded, NEW a \in Co,
           Park(a) \/ Relock(a) \/ Spawn(a) \/ Yield(a) \/ Terminate(a) \/ SelectPark(a)
    PROVE  Recorded'
<1>1. a \in Actor /\ TypeOK
  BY DEF Actor, SelectInv, SelectTypeOK
<1>2. CASE Relock(a)
  <2>1. /\ pc[a] = "asleep" /\ UNCHANGED <<w, r, status>>
        /\ \E acc, rec : Return(a, acc, rec)
    BY <1>2 DEF Relock, chvars, rtvars
  <2> QED
    BY <1>1, <2>1, ReturnMoves, SameRecorded DEF Others
<1>3. CASE ~Relock(a)
  <2>1. /\ UNCHANGED <<w, r, tgt>>
        /\ pc' = pc \/ \E place : pc' = [pc EXCEPT ![a] = place]
        /\ status' = status \/ (Executes(a) /\ (SwapOut(status[a]) \/ SwapOut("TERMINATE")))
    BY <1>3 DEF Park, Spawn, Yield, Terminate, SelectPark, chvars, acvars
  <2>2. pc[a] # "wake"
    <3>1. SelectPark(a) => sel[a] = "parked"
      BY DEF SelectPark
    <3>2. SelectPark(a) => pc[a] = "user"
      BY <1>1, <3>1, SelectPlace
    <3> QED
      BY <1>3, <3>2 DEF Park, Spawn, Yield, Terminate
  <2>3. \A c \in Co : status'[c] = "WAITING" => status[c] = "WAITING"
    BY <1>1, <2>1, ChannelAssumption DEF Executes, SwapOut, TypeOK, RuntimeTypeOK
  <2>4. \A b \in Actor \ {a} : pc'[b] = pc[b] /\ tgt'[b] = tgt[b]
    BY <2>1, ListTypes
  <2> QED
    BY <1>1, <2>1, <2>2, <2>3, <2>4, SameRecorded
<1> QED
  BY <1>2, <1>3

LEMMA SelectRecorded ==
    ASSUME Mallocs \subseteq {"ok"}, SelectInv, Offering, Cased, Recorded,
           NEW a \in Actor, SelectStep(a)
    PROVE  Recorded'
<1>1. CASE SelectLock(a) \/ Choose(a) \/ SelectNone(a)
  <2>1. UNCHANGED <<pc, tgt, w, r, status>>
    BY <1>1 DEF SelectLock, Choose, SelectNone, chvars, acvars, rtvars
  <2> QED
    BY <2>1, SameRecorded
<1>2. CASE SelectPark(a)
  <2>1. sel[a] = "parked"
    BY <1>2 DEF SelectPark
  <2>2. a \in Co
    BY <2>1, SelectPlace DEF Place_OK
  <2> QED
    BY <1>2, <2>2, CodeRecorded
<1>3. CASE Try(a)
  <2>1. /\ UNCHANGED <<w, r, status>> /\ sel[a] = "chosen" /\ \E o, c, x : Begin(a, o, c, x)
    BY <1>3 DEF Try, chvars, rtvars
  <2>2. pc[a] = "user"
    BY <2>1, SelectPlace
  <2>3. tgt' = tgt /\ \A b \in Actor \ {a} : pc'[b] = pc[b]
    BY <2>1, ListTypes DEF Begin, acvars
  <2> QED
    BY <2>1, <2>2, <2>3, SameRecorded
<1>4. CASE SelectActorStep(a)
  BY <1>4, ActorRecorded DEF SelectActorStep
<1> QED
  BY <1>1, <1>2, <1>3, <1>4, RegisterRecorded, DeregisterRecorded DEF SelectStep

LEMMA SelectRecordedStep ==
    ASSUME Mallocs \subseteq {"ok"}, SelectInv, Offering, Cased, Recorded,
           [SelectNext]_<<vars, selvars>>
    PROVE  Recorded'
<1>1. ASSUME NEW a \in Actor,
             (\E cs, b : Select(a, cs, b)) \/ (\E o, c : Call(a, o, c))
      PROVE  Recorded'
  <2>1. /\ UNCHANGED <<w, r, status, tgt>> /\ pc[a] = "user"
        /\ \A b \in Actor \ {a} : pc'[b] = pc[b]
    BY <1>1, ListTypes DEF Select, Call, Begin, chvars, acvars, rtvars
  <2> QED
    BY <2>1, SameRecorded
<1>2. ASSUME NEW a \in Co, CoroutineStep(a) \/ Spawn(a) \/ Yield(a) \/ Terminate(a)
      PROVE  Recorded'
  <2>1. CASE \E malloc \in Mallocs : Block(a, malloc)
    <3>1. Block(a, "ok")
      BY <2>1
    <3> QED
      BY <3>1, BlockRecorded
  <2> QED
    BY <1>2, <2>1, CodeRecorded DEF CoroutineStep
<1>3. CASE (\E h \in Hdl : HandlerStep(h)) \/ LoopThread \/ UNCHANGED <<vars, selvars>>
  <2>1. UNCHANGED <<pc, tgt, w, r>>
    BY <1>3 DEF HandlerStep, LoopThread, vars, chvars, acvars
  <2>2. \A c \in Co : status'[c] = "WAITING" => status[c] = "WAITING"
    BY <1>3 DEF HandlerStep, HandlerEnters, HandlerReturns, vars, rtvars, LoopThread, LoopStep,
                Callback, Pop, Resume, ResumeTerminated, Resumed, FlushOne, FlushEnd,
                SelectInv, SelectTypeOK, TypeOK, RuntimeTypeOK
  <2> QED
    BY <2>1, <2>2, RecordedKept
<1> QED
  BY <1>1, <1>2, <1>3, SelectRecorded DEF SelectNext

(* While malloc does not fail, a coroutine that is WAITING in a call or in *)
(* a select is in a list or in the hands of a caller about to wake it:     *)
(* a select takes its waiters back only when it runs (lc_channel.c:246).   *)
THEOREM SelectSleepersRecorded ==
    Mallocs \subseteq {"ok"} => (SelectSpec => []SleepersRecorded)
<1> SUFFICES ASSUME Mallocs \subseteq {"ok"} PROVE SelectSpec => []SleepersRecorded
  OBVIOUS
<1>1. SelectInit => Cased /\ Recorded
  BY DEF SelectInit, Init, RuntimeInit, Cased, Recorded
<1> DEFINE Inv == SelectInv /\ Offering /\ Cased /\ Recorded
<1>2. SelectInit => Inv
  BY <1>1, SelectInitially, OfferingInitially
<1>3. Inv /\ [SelectNext]_<<vars, selvars>> => Inv'
  BY SelectStepInv, OfferingStep, CasedStep, SelectRecordedStep
<1>4. Inv => SleepersRecorded
  BY DEF Recorded, SleepersRecorded, Listed, Registered, Cos
<1> QED
  BY <1>2, <1>3, <1>4, PTL DEF SelectSpec
=============================================================================
